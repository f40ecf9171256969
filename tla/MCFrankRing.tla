---------------------------- MODULE MCFrankRing ----------------------------
(***************************************************************************)
(* A ring of four slots and two distinguishable bytes: every length of put *)
(* and get from nothing to more than fits, and both indices wrap.          *)
(***************************************************************************)
EXTENDS FrankRing
=============================================================================
