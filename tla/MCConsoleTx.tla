---------------------------- MODULE MCConsoleTx ----------------------------
(***************************************************************************)
(* A ring with room for three bytes and a kfifo of two: a write, a message *)
(* and a report together overfill it, and the indices wrap.                *)
(***************************************************************************)
EXTENDS ConsoleTx
=============================================================================
