----------------------------- MODULE MCLinkBlk -----------------------------
(***************************************************************************)
(* Reactions in time, every kind of request and two resets of each side;   *)
(* any timing, with a reset of each side and, besides the probe and KEYS,  *)
(* one of the two kinds that differ from them in shape; and reactions in   *)
(* time of a master whose card is slow.                                    *)
(***************************************************************************)
EXTENDS LinkBlk

InTime == [ops |-> {"READ", "WRITE", "CON"}, resets |-> 2,
           prompt |-> TRUE, slow |-> FALSE]
AnyTiming(op) == [ops |-> {op}, resets |-> 1, prompt |-> FALSE, slow |-> FALSE]
SlowCard == [ops |-> {"READ", "WRITE", "CON"}, resets |-> 1,
             prompt |-> TRUE, slow |-> TRUE]
SlowCardOnly == [ops |-> {"WRITE"}, resets |-> 0, prompt |-> TRUE, slow |-> TRUE]

AllTimings == {InTime, AnyTiming("READ"), AnyTiming("WRITE"), SlowCard}
OnlySlowCard == {SlowCardOnly}
=============================================================================
