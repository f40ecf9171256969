---------------------------- MODULE MCTermScreen ----------------------------
(* Applications that save the cursor, or that draw.  A parameter is absent *)
(* or 0, on the screen, beyond it, or so large that an int8_t wraps; two   *)
(* beyond it make a scroll region that begins after its end.               *)
EXTENDS TermScreen

Params == {0, 2, 3, 5, 200}
Both == {{"saves"}, {"cells"}}
=============================================================================
