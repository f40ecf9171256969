------------------------------ MODULE MCFanOut ------------------------------
(***************************************************************************)
(* A buffer for three bytes, passes of two: both consumers lag, fill it,   *)
(* wrap it and come and go at every point.                                 *)
(***************************************************************************)
EXTENDS FanOut
=============================================================================
