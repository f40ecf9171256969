------------------------------- MODULE KeyPath -------------------------------
(***************************************************************************)
(* From a key to Linux, on the master: the reports of USB keyboards        *)
(* (usbhid/hid_app.c), the events made of them (input.c), the escape       *)
(* decoder of the serial line (main.c, keyboard_tick), the bytes that the  *)
(* terminal engine sends for a key (terminal.c, term_input.c), its answers *)
(* to Linux, the key queue (term_compat.c), and the console transaction    *)
(* that takes the keys, up to the rx ring of the slave.  The master is one *)
(* thread: keyboard_tick, or a transaction, in turn.                       *)
(***************************************************************************)
EXTENDS Integers, Sequences, SequencesExt

CONSTANTS
  Keyboard,         \* keyboards, behind a hub
  ActionQueueSize,  \* KEY_ACTION_QUEUE_SIZE
  KeyqSize,         \* KEYQ_SIZE
  MaxKeys,          \* LINK_CON_MAX_KEYS
  RxSize,           \* what the rx ring holds
  Budgets           \* bounds: inputs of each kind, one record for each case

ASSUME KeyPathAssumption ==
  /\ {MaxKeys, RxSize} \subseteq Nat
  /\ {ActionQueueSize, KeyqSize} \subseteq Nat \ {0}
  /\ Budgets \subseteq [usb : Nat, serial : Nat, answers : Nat]

VARIABLES
  report,      \* what each keyboard reports, by its own lights
  prev,        \* prev_kbd_report, one for all of them
  actions,     \* key_action_queue
  shiftDown,   \* shift_down of input.c
  seq,         \* the decoder: "none", "esc" or "csi"
  keyq, keyqHead, keyqTail,
  rx,          \* bytes in the rx ring that Linux has not read
  got,         \* bytes that have reached the rx ring
  phase,       \* of the main loop: "usb", "serial" or "link"
  budget,      \* inputs of each kind still to come
  pressed, heard,   \* history: keys pressed, and those the terminal was fed
  typed, spelled,   \* history: serial bytes, and the same spelled by events
  sent,             \* history: bytes given to serial_send_char
  mishaps           \* history: on which way something has gone wrong

usbVars == <<report, prev, actions, pressed>>
serialVars == <<seq, typed, spelled>>
keyqVars == <<keyq, keyqHead, keyqTail, sent>>
linkVars == <<rx, got>>
vars == <<usbVars, shiftDown, heard, serialVars, keyqVars, linkVars, phase, budget, mishaps>>

-----------------------------------------------------------------------------
(* The data *)

\* The bytes of the serial line that the decoder tells apart: "A" ends an
\* arrow's sequence, "x" does not.
SerialByte == {"ESC", "[", "O", "A", "x"}

\* A report: the shift keys and the other keys held.  Of these "a" comes before
\* "Up" in its array.  Too many keys make every slot ErrorRollOver, here a key
\* of no meaning.
Report == [shift : SUBSET {"left", "right"}, keys : {{}, {"a"}, {"a", "Up"}, {"rollover"}}]
NoKeys == [shift |-> {}, keys |-> {}]

\* terminal_process_key_vt sends a byte for a key: keyboard_map_key_ascii gives
\* 0 for every key from 0x80 on, and none of the engine's own cases is met.
SentFor(code) == IF code = "Up" THEN "NUL" ELSE code

\* usbhid_keycode_to_ascii.
Char(key, shift) == IF key = "a" /\ shift THEN "capital" ELSE key

Slot == 0 .. KeyqSize - 1
Wrap(i) == i % KeyqSize
Smaller(m, n) == IF m < n THEN m ELSE n

Init ==
  /\ report = [k \in Keyboard |-> NoKeys] /\ prev = NoKeys
  /\ actions = <<>> /\ shiftDown = FALSE /\ seq = "none"
  /\ keyq = [i \in Slot |-> "NUL"] /\ keyqHead = 0 /\ keyqTail = 0
  /\ rx = <<>> /\ got = <<>> /\ phase = "usb" /\ budget \in Budgets
  /\ pressed = <<>> /\ heard = <<>> /\ typed = <<>> /\ spelled = <<>> /\ sent = <<>>
  /\ mishaps = {}

Input(kind) == budget[kind] > 0 /\ budget' = [budget EXCEPT ![kind] = @ - 1]

\* Something has gone wrong on one of the ways, and its history ends there.
Mishap(way, faults) == IF faults = {} THEN mishaps ELSE mishaps \cup {way}

-----------------------------------------------------------------------------
(* term_compat.c: the queue *)

Used == Wrap(keyqHead - keyqTail)

\* Mutant: no slot is kept free.
RoomToTheBrim == KeyqSize - Used

Room == KeyqSize - 1 - Used

\* serial_send_char for each byte: what does not fit is dropped.
SendString(bytes) ==
  LET n == Smaller(Room, Len(bytes))
  IN  /\ keyq' = [i \in Slot |->
                    LET k == Wrap(i - keyqHead)
                    IN  IF k < n THEN bytes[k + 1] ELSE keyq[i]]
      /\ keyqHead' = Wrap(keyqHead + n)
      /\ UNCHANGED keyqTail
      /\ mishaps' = Mishap("link", IF n < Len(bytes) THEN {"keyq full"} ELSE {})
      /\ sent' = IF "link" \in mishaps THEN sent ELSE sent \o bytes

Waiting == [k \in 1 .. Used |-> keyq[Wrap(keyqTail + (k - 1))]]

-----------------------------------------------------------------------------
(* hid_app.c *)

Changed(one, other, key, down) ==
  IF key \in one \ other THEN <<[key |-> key, down |-> down]>> ELSE <<>>
Keys(one, other, down) ==
  Changed(one, other, "a", down) \o Changed(one, other, "Up", down)
    \o Changed(one, other, "rollover", down)
Shift(one, other, down) ==
  IF one \ other # {} THEN <<[key |-> "shift", down |-> down]>> ELSE <<>>

\* Mutant: the modifiers after the keys.
ActionsOfKeysFirst(old, new) ==
  Keys(old.keys, new.keys, FALSE) \o Keys(new.keys, old.keys, TRUE)
    \o Shift(old.shift, new.shift, FALSE) \o Shift(new.shift, old.shift, TRUE)

\* process_kbd_report: either shift key is the same key, releases go before
\* presses, and modifiers before keys.
ActionsOf(old, new) ==
  Shift(old.shift, new.shift, FALSE) \o Shift(new.shift, old.shift, TRUE)
    \o Keys(old.keys, new.keys, FALSE) \o Keys(new.keys, old.keys, TRUE)

Pressed(old, new, key) ==
  IF key \in new.keys \ old.keys THEN <<Char(key, new.shift # {})>> ELSE <<>>
Presses(old, new) == Pressed(old, new, "a") \o Pressed(old, new, "Up")

\* What is wrong with a report, before the firmware has looked at it.
Faults(k, r) ==
  (IF r.shift = {"left", "right"} THEN {"two shifts"} ELSE {})
  \cup (IF r.keys = {"rollover"} THEN {"rollover"} ELSE {})
  \cup (IF \E other \in Keyboard \ {k} : report[other] # NoKeys
        THEN {"two keyboards"} ELSE {})

\* Mutant: no slot is kept free.
ActionRoomToTheBrim == ActionQueueSize - Len(actions)

ActionRoom == ActionQueueSize - 1 - Len(actions)

\* tuh_hid_report_received_cb, and queue_key_action for each action: what
\* does not fit is dropped.
KbdReport(k, r) ==
  LET new == ActionsOf(prev, r)
      n == Smaller(ActionRoom, Len(new))
  IN
  /\ phase = "usb" /\ Input("usb")
  /\ r # report[k]
  /\ report' = [report EXCEPT ![k] = r]
  /\ prev' = r
  /\ actions' = actions \o SubSeq(new, 1, n)
  /\ mishaps' = Mishap("usb", Faults(k, r) \cup
                               IF n < Len(new) THEN {"queue full"} ELSE {})
  /\ pressed' = IF "usb" \in mishaps THEN pressed ELSE pressed \o Presses(report[k], r)
  /\ UNCHANGED <<shiftDown, heard, serialVars, keyqVars, linkVars, phase>>

\* tuh_hid_umount_cb: the keys that were held are not released.
Umount(k) ==
  /\ phase = "usb" /\ Input("usb")
  /\ report[k] # NoKeys
  /\ report' = [report EXCEPT ![k] = NoKeys]
  /\ mishaps' = Mishap("usb", {"unplugged"})
  /\ UNCHANGED <<prev, actions, pressed, shiftDown, heard, serialVars, keyqVars, linkVars, phase>>

-----------------------------------------------------------------------------
(* input.c and main.c: keyboard_tick *)

\* usbhid_task is done; the events, one after the other.
UsbDone ==
  /\ phase = "usb"
  /\ phase' = "serial"
  /\ UNCHANGED <<usbVars, shiftDown, heard, serialVars, keyqVars, linkVars, budget, mishaps>>

\* One round of input_poll, and terminal_feed_event.
InputPoll ==
  LET a == Head(actions)
      silent == ~a.down \/ a.key \in {"shift", "rollover"}
      char == Char(a.key, shiftDown)
  IN
  /\ phase = "serial" /\ actions # <<>>
  /\ actions' = Tail(actions)
  /\ shiftDown' = IF a.key = "shift" THEN a.down ELSE shiftDown
  /\ heard' = IF silent \/ "usb" \in mishaps THEN heard ELSE Append(heard, char)
  /\ IF silent THEN UNCHANGED <<keyqVars, mishaps>> ELSE SendString(<<SentFor(char)>>)
  /\ UNCHANGED <<report, prev, pressed, serialVars, linkVars, phase, budget>>

\* What has been read and not yet delivered.
Held(s) == CASE s = "none" -> <<>> [] s = "esc" -> <<"ESC">> [] s = "csi" -> <<"ESC", "[">>

\* Mutant: the pieces of a sequence that is no arrow's are dropped.
DecodeEating(s, c) ==
  CASE s = "none" /\ c = "ESC" -> [seq |-> "esc", events |-> <<>>]
    [] s = "esc" /\ c \in {"[", "O"} -> [seq |-> "csi", events |-> <<>>]
    [] s = "csi" /\ c = "A" -> [seq |-> "none", events |-> <<"Up">>]
    [] OTHER -> [seq |-> "none", events |-> <<c>>]

\* A byte in each state of the decoder.
Decode(s, c) ==
  CASE s = "none" /\ c = "ESC" -> [seq |-> "esc", events |-> <<>>]
    [] s = "esc" /\ c \in {"[", "O"} -> [seq |-> "csi", events |-> <<>>]
    [] s = "csi" /\ c = "A" -> [seq |-> "none", events |-> <<"Up">>]
    [] OTHER -> [seq |-> "none", events |-> Held(s) \o <<c>>]

\* An arrow comes alone.
Spelling(events) == IF events = <<"Up">> THEN <<"ESC", "[", "A">> ELSE events

\* The rest of keyboard_tick, no more HID events waiting: what was held for
\* more than 50 ms is delivered, and then the next byte, if there is one.
Serial(late, bytes) ==
  LET s == IF late THEN "none" ELSE seq
      d == IF bytes = <<>> THEN [seq |-> s, events |-> <<>>] ELSE Decode(s, bytes[1])
      events == (IF late THEN Held(seq) ELSE <<>>) \o d.events
  IN
  /\ phase = "serial" /\ actions = <<>>
  /\ late => seq # "none"
  /\ IF bytes = <<>> THEN UNCHANGED budget ELSE Input("serial")
  /\ seq' = d.seq
  /\ typed' = typed \o bytes
  /\ spelled' = spelled \o Spelling(events)
  /\ SendString([i \in DOMAIN events |-> SentFor(events[i])])
  /\ phase' = "link"
  /\ UNCHANGED <<usbVars, shiftDown, heard, linkVars>>

-----------------------------------------------------------------------------
(* The console transaction *)

\* Linux asks for something that the terminal answers.
Answer ==
  /\ phase = "link" /\ Input("answers")
  /\ SendString(<<"ESC", "answer">>)
  /\ UNCHANGED <<usbVars, shiftDown, heard, serialVars, linkVars, phase>>

\* LINK_BLK_OP_CON: term_compat_take_keys, the reply, frank_console_feed.
Console(arrives) ==
  LET n == Smaller(Len(Waiting), MaxKeys)
      keys == SubSeq(Waiting, 1, n)
      fed == SubSeq(keys, 1, Smaller(n, RxSize - Len(rx)))
  IN
  /\ phase = "link"
  /\ keyqTail' = Wrap(keyqTail + n)
  /\ rx' = IF arrives THEN rx \o fed ELSE rx
  /\ got' = IF arrives /\ "link" \notin mishaps THEN got \o fed ELSE got
  /\ mishaps' = Mishap("link", IF ~arrives /\ n > 0 THEN {"reply lost"}
                                ELSE IF Len(fed) < n THEN {"ring full"} ELSE {})
  /\ UNCHANGED <<usbVars, shiftDown, heard, serialVars, keyq, keyqHead, sent, phase, budget>>

\* No doorbell: around the loop again.
NoDoorbell ==
  /\ phase = "link"
  /\ phase' = "usb"
  /\ UNCHANGED <<usbVars, shiftDown, heard, serialVars, keyqVars, linkVars, budget, mishaps>>

\* Linux reads all there is, or is busy elsewhere.
LinuxReads ==
  /\ rx # <<>>
  /\ rx' = <<>>
  /\ UNCHANGED <<usbVars, shiftDown, heard, serialVars, keyqVars, got, phase, budget, mishaps>>

Next ==
  \/ \E k \in Keyboard : Umount(k) \/ \E r \in Report : KbdReport(k, r)
  \/ UsbDone \/ InputPoll
  \/ \E late \in BOOLEAN, bytes \in {<<>>} \cup {<<c>> : c \in SerialByte} : Serial(late, bytes)
  \/ Answer \/ (\E arrives \in BOOLEAN : Console(arrives)) \/ NoDoorbell \/ LinuxReads

Spec == Init /\ [][Next]_vars

-----------------------------------------------------------------------------

Code == SerialByte \cup {"a", "capital", "Up", "NUL", "answer"}
Action == [key : {"shift", "a", "Up", "rollover"}, down : BOOLEAN]

TypeOK ==
  /\ report \in [Keyboard -> Report] /\ prev \in Report
  /\ actions \in Seq(Action) /\ Len(actions) < ActionQueueSize
  /\ shiftDown \in BOOLEAN /\ seq \in {"none", "esc", "csi"}
  /\ keyq \in [Slot -> Code]
  /\ {keyqHead, keyqTail} \subseteq Slot
  /\ {rx, got, pressed, heard, typed, spelled, sent} \subseteq Seq(Code)
  /\ Len(rx) =< RxSize
  /\ phase \in {"usb", "serial", "link"}
  /\ budget \in [usb : Nat, serial : Nat, answers : Nat]
  /\ mishaps \subseteq {"usb", "link"}

(***************************************************************************)
(* The terminal is fed each key once for each time it was pressed, in      *)
(* order and with Shift as it was then, whatever other keys are held and   *)
(* however many reports come at a time - unless the action queue ran       *)
(* over, or one of four things happened that the HID code confuses: both   *)
(* Shift keys held, two keyboards in use (prev_kbd_report is shared), too  *)
(* many keys at once, a keyboard unplugged with a key down.                *)
(***************************************************************************)
KeysAsPressed ==
  "usb" \notin mishaps =>
    /\ IsPrefix(heard, pressed)
    /\ actions = <<>> => heard = pressed

(***************************************************************************)
(* "Deliver the pieces so nothing is silently eaten" (main.c): however     *)
(* late a byte comes, what is delivered and what is held spell what was    *)
(* typed, in order.  An O after an escape is delivered as a bracket.       *)
(***************************************************************************)
NothingEaten ==
  LET said == spelled \o Held(seq)
  IN  /\ Len(said) = Len(typed)
      /\ \A i \in DOMAIN typed :
           \/ said[i] = typed[i]
           \/ typed[i] = "O" /\ said[i] = "[" /\ i > 1 /\ typed[i - 1] = "ESC"

(***************************************************************************)
(* A byte that the terminal sends is in the queue or reaches Linux, in     *)
(* order, unless a queue was full or a reply was lost: a reply's keys are  *)
(* taken before it is known to arrive.                                     *)
(***************************************************************************)
SentIsGot ==
  "link" \notin mishaps => got \o Waiting = sent

(***************************************************************************)
(* "Anything at or above 0x80 is one of the KEY_* specials the engine      *)
(* handles itself" (term_compat.c): no key of these is sent as a NUL.      *)
(***************************************************************************)
SpecialsAreHandled == ~Contains(sent, "NUL")

=============================================================================
