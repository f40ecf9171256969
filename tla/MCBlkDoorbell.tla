--------------------------- MODULE MCBlkDoorbell ---------------------------
(***************************************************************************)
(* Two callers with requests of up to two chunks, and numbers enough for   *)
(* one of them to time out while core 1 still has the one before.          *)
(***************************************************************************)
EXTENDS BlkDoorbell

Impatient == [givesUp |-> TRUE, rebinds |-> FALSE]
Patient == [givesUp |-> FALSE, rebinds |-> TRUE]

BothWorlds == {Impatient, Patient}
OnlyImpatient == {Impatient}
=============================================================================
