----------------------------- MODULE MCKeyPath -----------------------------
(* Reports, or bytes of the serial line, or some of each.                  *)
EXTENDS KeyPath

Cases == {[usb |-> 3, serial |-> 0, answers |-> 0],
          [usb |-> 0, serial |-> 4, answers |-> 0],
          [usb |-> 0, serial |-> 3, answers |-> 1],
          [usb |-> 2, serial |-> 1, answers |-> 0]}
=============================================================================
