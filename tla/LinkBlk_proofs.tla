--------------------------- MODULE LinkBlk_proofs ---------------------------
(***************************************************************************)
(* The transaction on the wire, whatever may happen together and however   *)
(* often either side is reset: types; what the master writes to the card;  *)
(* whose answer the slave returns; and, when the card is quick, that the   *)
(* master is ready when its doorbell says so.                              *)
(***************************************************************************)
EXTENDS LinkBlk, TLAPS

(* The two wires and the two receivers *)

upWire == bus["up"]
downWire == bus["down"]
up == rx["up"]
down == rx["down"]

Heard == {"all", "tail", "none"}
Wire == [frame : Frame, heard : Heard] \cup {Quiet}
Receiver == [left : 0 .. 3, from : Frame \cup {NoFrame}, intact : BOOLEAN]

Serving == mAt \in {"data", "card", "reply"}
TypeInv == TypeOK /\ (Serving => mReq \in Frame)

LEMMA Wires ==
  TypeOK => /\ bus \in [Direction -> Wire] /\ rx \in [Direction -> Receiver]
            /\ {upWire, downWire} \subseteq Wire /\ {up, down} \subseteq Receiver
BY DEF TypeOK, Wire, Heard, Receiver, upWire, downWire, up, down, Direction

LEMMA NoFrameIsNone == NoFrame \notin Frame
BY DEF NoFrame, Frame

LEMMA BusyWire ==
  ASSUME TypeOK, NEW d \in Direction, Busy(d) PROVE bus[d].frame \in Frame /\ bus[d].heard \in Heard
<1>1. bus[d] \in [frame : Frame, heard : Heard]
  BY Wires DEF Wire, Busy
<1> QED
  BY <1>1

LEMMA OffIsReceiver == Off \in Receiver /\ Quiet \in Wire
BY DEF Off, Receiver, Quiet, Wire

LEMMA ArmedType ==
  ASSUME NEW d \in Direction, NEW n \in 1 .. 3 PROVE ArmedFor(d, n) \in Receiver
BY DEF ArmedFor, Receiver

LEMMA StartedType ==
  ASSUME NEW d \in Direction, NEW f \in Frame PROVE Started(d, f) \in Wire
BY DEF Started, Wire, Heard

LEMMA AfterArmType ==
  ASSUME TypeOK, NEW d \in Direction PROVE HeardAfterArm(d) \in Wire
<1>1. CASE Busy(d)
  <2>1. bus[d] \in [frame : Frame, heard : Heard]
    BY <1>1, Wires DEF Wire, Busy
  <2> QED
    BY <1>1, <2>1 DEF HeardAfterArm, Wire, Heard
<1> QED
  BY <1>1, OffIsReceiver DEF HeardAfterArm

LEMMA WordsType ==
  ASSUME TypeOK, NEW d \in Direction, NEW cut \in BOOLEAN, NEW k \in Words(d, cut)
  PROVE  k \in Nat /\ (k # 0 => Busy(d))
<1>1. CASE Busy(d)
  <2>1. bus[d].frame.size \in 1 .. 3
    BY <1>1, BusyWire DEF Frame
  <2> QED
    BY <1>1, <2>1 DEF Words
<1> QED
  BY <1>1 DEF Words

LEMMA ReceivedType ==
  ASSUME TypeOK, NEW d \in Direction, NEW cut \in BOOLEAN, NEW k \in Words(d, cut)
  PROVE  Received(d, k) \in Receiver
<1> DEFINE r == rx[d]
<1>1. r \in Receiver /\ r.left \in 0 .. 3 /\ r.from \in Frame \cup {NoFrame} /\ r.intact \in BOOLEAN
  <2>1. r \in Receiver
    BY Wires
  <2> QED
    BY <2>1 DEF Receiver
<1>2. CASE k = 0 \/ r.left = 0
  BY <1>1, <1>2 DEF Received
<1>3. CASE ~(k = 0 \/ r.left = 0)
  <2>1. Busy(d) /\ k \in Nat
    BY <1>3, WordsType
  <2>2. bus[d].frame \in Frame
    BY <2>1, BusyWire
  <2>3. (IF k < r.left THEN r.left - k ELSE 0) \in 0 .. 3
    BY <1>1, <2>1
  <2>4. (IF r.from = NoFrame THEN bus[d].frame ELSE r.from) \in Frame \cup {NoFrame}
    BY <1>1, <2>2
  <2>5. (r.intact /\ r.from = NoFrame /\ bus[d].heard = "all") \in BOOLEAN
    OBVIOUS
  <2> QED
    BY <1>3, <2>3, <2>4, <2>5 DEF Received, Receiver
<1> QED
  BY <1>2, <1>3

\* Nothing changes a receiver that is not armed, or hears nothing.
LEMMA ReceivedIdle ==
  ASSUME NEW d \in Direction, NEW k, k = 0 \/ rx[d].left = 0 PROVE Received(d, k) = rx[d]
BY DEF Received

\* One that is armed has its words from the frame on the wire.
LEMMA ReceivedSome ==
  ASSUME TypeOK, NEW d \in Direction, NEW cut \in BOOLEAN, NEW k \in Words(d, cut),
         rx[d].from = NoFrame, rx[d].intact, bus[d].heard = "all"
  PROVE  LET r == Received(d, k)
         IN  /\ r.intact
             /\ r = rx[d] \/ r.from = bus[d].frame
             /\ ~cut /\ Busy(d) /\ rx[d].left > 0 =>
                  /\ r.from = bus[d].frame
                  /\ rx[d].left =< bus[d].frame.size => r.left = 0
<1> DEFINE r == rx[d]
<1>1. r \in Receiver /\ r.left \in 0 .. 3
  <2>1. r \in Receiver
    BY Wires
  <2> QED
    BY <2>1 DEF Receiver
<1>2. CASE k = 0 \/ r.left = 0
  <2>1. Received(d, k) = r
    BY <1>2, ReceivedIdle
  <2>2. ~cut /\ Busy(d) => k = bus[d].frame.size /\ bus[d].frame.size \in 1 .. 3
    BY BusyWire DEF Words, Frame
  <2> QED
    BY <1>1, <1>2, <2>1, <2>2
<1>3. CASE ~(k = 0 \/ r.left = 0)
  <2>1. Received(d, k) = [left |-> IF k < r.left THEN r.left - k ELSE 0,
                          from |-> bus[d].frame, intact |-> TRUE]
    BY <1>3 DEF Received
  <2>2. ~cut /\ Busy(d) => k = bus[d].frame.size
    BY DEF Words
  <2>3. k \in Nat
    BY WordsType
  <2> QED
    BY <1>1, <2>1, <2>2, <2>3
<1> QED
  BY <1>2, <1>3

-----------------------------------------------------------------------------
(* The invariants *)

Active == sAt \in {"header", "gap", "data", "reply"}
Mine(f) == f.op = sOp /\ f.tag = sTag

(***************************************************************************)
(* At any timing: what is on a wire is what its sender sends, doorbells    *)
(* are up while they are meant to be, and a receiver is armed only while   *)
(* its side waits.                                                         *)
(***************************************************************************)
Lines ==
  /\ IF sAt \in {"header", "data"}
     THEN upWire # Quiet /\ upWire.frame.kind = sAt /\ Mine(upWire.frame)
     ELSE upWire = Quiet
  /\ sAt = "header" => upWire.frame.size = HeaderSize
  /\ IF mAt = "reply"
     THEN downWire # Quiet /\ downWire.frame.op = mReq.op /\ downWire.frame.tag = mReq.tag
     ELSE downWire = Quiet
  /\ sAt = "ask" \/ Active => dbS
  /\ mAt = "header" \/ Serving \/ mAt = "drop" => dbM
  /\ dbM => mAt \notin {"poll", "clear"}
  /\ up.left > 0 => mAt \in {"header", "data"}
  /\ down.left > 0 => Active
  /\ mAt = "reply" /\ mReq.op = "WRITE" => downWire.frame.size = 1
  /\ sAt \in {"ask", "clear"} \/ Active => sOp = "INFO" \/ probed

(***************************************************************************)
(* In time: a header or data that the master has received, or is about to, *)
(* are those of the slave's request, and the slave waits for the answer -  *)
(* or has been reset, and will not ask before the master has finished.     *)
(***************************************************************************)
HeaderOnItsWay ==
  mAt = "header" =>
    /\ up.intact /\ sAt # "data"
    /\ up.from = NoFrame => up.left = HeaderSize /\ sAt # "gap"
    /\ up.from # NoFrame =>
         /\ up.from.kind = "header" /\ Mine(up.from)
         /\ \/ sAt \in {"boot", "init"}
            \/ sAt \in {"gap", "reply"} /\ up.left = 0 /\ down.from = NoFrame
    /\ sAt = "header" => down.from = NoFrame /\ upWire.heard = "all"

DataOnItsWay ==
  mAt = "data" =>
    /\ up.intact /\ Mine(mReq) /\ sAt \in {"gap", "data", "reply", "boot", "init"}
    /\ up.from = NoFrame => up.left > 0
    /\ up.from # NoFrame =>
         up.from.kind = "data" /\ Mine(up.from) /\ sAt \in {"reply", "boot", "init"}
    /\ sAt = "data" => upWire.heard = "all"
    /\ Active => down.from = NoFrame

OnTheCard ==
  mAt = "card" /\ mReq.op = "WRITE" =>
    up.intact /\ up.from.kind = "data" /\ up.from.tag = mReq.tag

\* The master does not begin again under a slave that sends.
NotUnderWay == mAt = "poll" => sAt \notin {"header", "gap", "data"}

Upward == HeaderOnItsWay /\ DataOnItsWay /\ OnTheCard /\ NotUnderWay

(***************************************************************************)
(* And: the master serves the slave's own request, the only reply in sight *)
(* is to it, and the slave hears all of it or, if the master is reset, its *)
(* beginning.  Or it is at a WRITE that the slave has given up, while that *)
(* asks for keys: the reply to the WRITE is too short for an answer, and   *)
(* what the slave asks goes to nobody.                                     *)
(***************************************************************************)
OwnRequest ==
  /\ Mine(mReq) /\ sAt \in {"gap", "data", "reply", "boot", "init"}
  /\ Active => down.from = NoFrame
  /\ Active /\ mAt = "reply" => downWire.heard = "all"
Console == sOp \in {"CON", "KEYS"}
Overdue ==
  /\ world.slow /\ mAt \in {"card", "reply"} /\ mReq.op = "WRITE"
  /\ \/ sAt \in {"boot", "init"}
     \/ sAt \in {"clear", "idle"} /\ told = "late" /\ sOp = "WRITE" /\ probed
     \/ sAt = "ask" /\ Console
     \/ Active /\ Console /\ down.from = NoFrame
ServesMine == Serving => OwnRequest \/ Overdue
Listening ==
  Active => /\ down.intact
            /\ down.from = NoFrame => down.left = Expected(sOp)
            /\ down.from # NoFrame => Mine(down.from) \/ down.left > 0
Undivided == ~world.slow /\ sAt = "header" => mAt \in {"boot", "header"}
Told == sAt = "clear" /\ told = "ok" => down.intact /\ Mine(down.from)

Downward == ServesMine /\ Listening /\ Undivided /\ Told

LinkInv == TypeInv /\ Lines /\ (Prompt => Upward) /\ (Prompt => Downward)

LEMMA Sizes == ASSUME NEW op PROVE Expected(op) \in 1 .. 3
BY DEF Expected

-----------------------------------------------------------------------------
(* The steps of the slave *)

LEMMA InitInv == Init => LinkInv
<1> SUFFICES ASSUME Init PROVE LinkInv
  OBVIOUS
<1>1. upWire = Quiet /\ downWire = Quiet /\ up = Off /\ down = Off
  BY DEF Init, upWire, downWire, up, down, Direction
<1>2. world.resets \in Nat
  BY LinkBlkAssumption DEF Init
<1>3. TypeInv
  <2>1. bus \in [Direction -> Wire] /\ rx \in [Direction -> Receiver]
    BY OffIsReceiver DEF Init
  <2>2. resets \in [slave : 0 .. world.resets, master : 0 .. world.resets]
    BY <1>2 DEF Init
  <2>3. sOp \in AllOps /\ sTag \in Tag /\ told \in Status
    BY DEF Init, AllOps, Tag, Status
  <2>4. TypeOK
    BY <2>1, <2>2, <2>3 DEF Init, TypeOK, Wire, Heard, Receiver
  <2> QED
    BY <2>4 DEF Init, TypeInv, Serving
<1>4. Lines
  BY <1>1 DEF Init, Lines, Active, Serving, Off
<1>5. Upward /\ Downward
  BY DEF Init, Upward, HeaderOnItsWay, DataOnItsWay, OnTheCard, NotUnderWay,
         Downward, ServesMine, OwnRequest, Overdue, Console, Listening, Undivided, Told, Active, Serving
<1> QED
  BY <1>3, <1>4, <1>5 DEF LinkInv

LEMMA AskInv == ASSUME LinkInv, NEW op \in AllOps, Ask(op) PROVE LinkInv'
<1>1. /\ sAt = "idle" /\ sAt' = "ask" /\ sOp' = op /\ sTag' = (sTag + 1) % 3 /\ dbS' = TRUE
      /\ (op = "INFO" <=> ~probed)
      /\ (probed /\ told = "late" /\ sOp \in {"READ", "WRITE"} => op \in {"CON", "KEYS"})
      /\ UNCHANGED <<world, told, probed, mAt, mReq, dbM, bus, rx, resets>>
  BY DEF Ask, ConsoleIsDue, masterVars
<1>2. UNCHANGED <<upWire, downWire, up, down>>
  BY <1>1 DEF upWire, downWire, up, down
<1>3. TypeInv'
  <2>1. (sTag + 1) % 3 \in Tag
    <3>1. sTag = 0 \/ sTag = 1 \/ sTag = 2
      BY DEF LinkInv, TypeInv, TypeOK, Tag
    <3>2. (0 + 1) % 3 = 1 /\ (1 + 1) % 3 = 2 /\ (2 + 1) % 3 = 0
      OBVIOUS
    <3> QED
      BY <3>1, <3>2 DEF Tag
  <2> QED
    BY <1>1, <2>1 DEF LinkInv, TypeInv, TypeOK, Serving
<1>4. Lines'
  BY <1>1, <1>2 DEF LinkInv, Lines, Active, Serving, Mine
<1>5. (Prompt => Upward)'
  BY <1>1, <1>2 DEF LinkInv, Prompt, Upward, HeaderOnItsWay, DataOnItsWay, OnTheCard, NotUnderWay,
                    Mine, Active
<1>6. (Prompt => Downward)'
  BY <1>1, <1>2 DEF LinkInv, Prompt, Downward,
     ServesMine, OwnRequest, Overdue, Console, Listening, Undivided, Told, Mine, Active, Serving
<1> QED
  BY <1>3, <1>4, <1>5, <1>6 DEF LinkInv

LEMMA AnsweredInv == ASSUME LinkInv, Answered PROVE LinkInv'
<1> DEFINE header == [kind |-> "header", op |-> sOp, tag |-> sTag, status |-> "ok", size |-> HeaderSize]
<1>1. /\ sAt = "ask" /\ dbM /\ (Prompt => mAt # "drop") /\ sAt' = "header"
      /\ rx' = [rx EXCEPT !["down"] = ArmedFor("down", Expected(sOp))]
      /\ bus' = [bus EXCEPT !["up"] = Started("up", header), !["down"] = HeardAfterArm("down")]
      /\ UNCHANGED <<world, sOp, sTag, told, probed, mAt, mReq, dbS, dbM, resets>>
  BY DEF Answered, masterVars
<1>2. TypeOK /\ TypeInv /\ Lines /\ bus \in [Direction -> Wire] /\ rx \in [Direction -> Receiver]
  BY Wires DEF LinkInv, TypeInv
<1>3. /\ header \in Frame /\ Started("up", header) \in Wire /\ HeardAfterArm("down") \in Wire
      /\ Expected(sOp) \in 1 .. 3 /\ ArmedFor("down", Expected(sOp)) \in Receiver
  <2>1. header \in Frame
    BY <1>2 DEF TypeOK, Frame, HeaderSize, Status
  <2>2. Expected(sOp) \in 1 .. 3
    BY DEF Expected
  <2> QED
    BY <1>2, <2>1, <2>2, StartedType, AfterArmType, ArmedType DEF Direction
<1>4. /\ upWire' = Started("up", header) /\ downWire' = HeardAfterArm("down")
      /\ up' = up /\ down' = ArmedFor("down", Expected(sOp))
  BY <1>1, <1>2 DEF upWire, downWire, up, down, Direction
<1>5. /\ upWire' # Quiet /\ upWire'.frame = header
      /\ upWire'.heard = IF up.left > 0 THEN "all" ELSE "none"
      /\ down'.left = Expected(sOp) /\ down'.left > 0 /\ down'.from = NoFrame /\ down'.intact
  BY <1>3, <1>4, NoFrameIsNone DEF Started, Armed, up, ArmedFor, Quiet
<1>6. mAt # "reply" => downWire = Quiet /\ downWire' = Quiet
  BY <1>2, <1>4 DEF Lines, HeardAfterArm, Busy, downWire
<1>7. mAt = "reply" => downWire' # Quiet /\ downWire'.frame = downWire.frame
  BY <1>2, <1>4, Wires DEF Lines, HeardAfterArm, Busy, downWire, Wire, Quiet
<1>8. TypeInv'
  <2>1. bus' \in [Direction -> Wire] /\ rx' \in [Direction -> Receiver]
    BY <1>1, <1>2, <1>3
  <2> QED
    BY <1>1, <1>2, <2>1 DEF TypeInv, TypeOK, Serving, Wire, Heard, Receiver
<1>9. Lines'
  BY <1>1, <1>2, <1>4, <1>5, <1>6, <1>7 DEF Lines, Active, Serving, Mine
<1>10. (Prompt => Upward)'
  BY <1>1, <1>2, <1>4, <1>5 DEF LinkInv, Prompt, Lines, Upward, HeaderOnItsWay, DataOnItsWay,
                                OnTheCard, NotUnderWay, Mine, Active, HeaderSize
<1>11. (Prompt => Downward)'
  <2>1. mAt \in {"boot", "poll", "header", "data", "card", "reply", "drop", "clear"}
    BY <1>2 DEF TypeOK
  <2> QED
    BY <1>1, <1>2, <1>5, <2>1 DEF LinkInv, Prompt, Lines, Downward, ServesMine, OwnRequest,
                                  Overdue, Console,
                                  Listening, Undivided, Told, Mine, Active, Serving
<1> QED
  BY <1>8, <1>9, <1>10, <1>11 DEF LinkInv

\* The request is given up, or was never taken up: nothing is on its way.
LEMMA AskTimeoutInv == ASSUME LinkInv, AskTimeout PROVE LinkInv'
<1>1. /\ sAt = "ask" /\ ~dbM /\ told' = "late" /\ dbS' = FALSE /\ sAt' = "idle"
      /\ UNCHANGED <<world, sOp, sTag, probed, mAt, mReq, dbM, bus, rx, resets>>
  BY DEF AskTimeout, masterVars
<1>2. UNCHANGED <<upWire, downWire, up, down>>
  BY <1>1 DEF upWire, downWire, up, down
<1>3. TypeInv'
  BY <1>1 DEF LinkInv, TypeInv, TypeOK, Serving, Status
<1>4. Lines'
  BY <1>1, <1>2 DEF LinkInv, Lines, Active, Serving, Mine
<1>5. (Prompt => Upward)'
  BY <1>1, <1>2 DEF LinkInv, Prompt, Upward, HeaderOnItsWay, DataOnItsWay, OnTheCard, NotUnderWay,
                    Mine, Active
<1>6. (Prompt => Downward)'
  <2>1. ~Serving
    BY <1>1 DEF LinkInv, Lines
  <2> QED
    BY <1>1, <1>2, <2>1 DEF LinkInv, Prompt, Downward,
       ServesMine, OwnRequest, Overdue, Console, Listening, Undivided, Told, Mine, Active, Serving
<1> QED
  BY <1>3, <1>4, <1>5, <1>6 DEF LinkInv

LEMMA HeaderSentInv == ASSUME LinkInv, HeaderSent PROVE LinkInv'
<1> PICK k \in Words("up", FALSE) : rx' = [rx EXCEPT !["up"] = Received("up", k)]
  BY DEF HeaderSent
<1>1. /\ sAt = "header" /\ sAt' \in {"gap", "reply"} /\ bus' = [bus EXCEPT !["up"] = Quiet]
      /\ rx' = [rx EXCEPT !["up"] = Received("up", k)]
      /\ UNCHANGED <<world, sOp, sTag, told, probed, mAt, mReq, dbS, dbM, resets>>
  BY DEF HeaderSent, masterVars
<1>2. TypeOK /\ TypeInv /\ Lines /\ bus \in [Direction -> Wire] /\ rx \in [Direction -> Receiver]
  BY Wires DEF LinkInv, TypeInv
<1>3. Received("up", k) \in Receiver /\ Quiet \in Wire
  BY <1>2, ReceivedType, OffIsReceiver DEF Direction
<1>4. upWire' = Quiet /\ downWire' = downWire /\ up' = Received("up", k) /\ down' = down
  BY <1>1, <1>2 DEF upWire, downWire, up, down, Direction
<1>5. up.left = 0 => up' = up
  BY <1>4, ReceivedIdle DEF up, Direction
<1>6. ASSUME up.from = NoFrame, up.intact, upWire.heard = "all", up.left = HeaderSize
      PROVE  up'.intact /\ up'.from = upWire.frame /\ up'.left = 0
  <2>1. Busy("up") /\ up.left =< upWire.frame.size /\ up.left > 0
    BY <1>1, <1>2, <1>6 DEF Lines, Busy, upWire, HeaderSize
  <2> QED
    BY <1>2, <1>4, <1>6, <2>1, ReceivedSome DEF up, upWire, Direction
<1>7. upWire.frame # NoFrame /\ upWire.frame.kind = "header" /\ Mine(upWire.frame)
  BY <1>1, <1>2, BusyWire, NoFrameIsNone DEF Lines, Busy, upWire, Direction
<1>8. TypeInv'
  <2>1. bus' \in [Direction -> Wire] /\ rx' \in [Direction -> Receiver]
    BY <1>1, <1>2, <1>3
  <2> QED
    BY <1>1, <1>2, <2>1 DEF TypeInv, TypeOK, Serving, Wire, Heard, Receiver
<1>9. up'.left > 0 => up.left > 0
  BY <1>3, <1>4, <1>5, Wires, <1>2 DEF Receiver
<1>10. Lines'
  BY <1>1, <1>2, <1>4, <1>9 DEF Lines, Active, Serving, Mine
<1>11. (Prompt => Upward)'
  <2> SUFFICES ASSUME Prompt PROVE Upward'
    BY <1>1 DEF Prompt
  <2>1. HeaderOnItsWay'
    BY <1>1, <1>4, <1>6, <1>7 DEF LinkInv, Upward, HeaderOnItsWay, Mine, Active
  <2>2. DataOnItsWay' /\ NotUnderWay'
    BY <1>1 DEF LinkInv, Upward, DataOnItsWay, NotUnderWay
  <2>3. OnTheCard'
    BY <1>1, <1>2, <1>4, <1>5, Wires DEF LinkInv, Upward, OnTheCard, Lines, Receiver
  <2> QED
    BY <2>1, <2>2, <2>3 DEF Upward
<1>12. (Prompt => Downward)'
  BY <1>1, <1>4 DEF LinkInv, Prompt, Downward,
     ServesMine, OwnRequest, Overdue, Console, Listening, Undivided, Told, Mine, Active, Serving
<1> QED
  BY <1>8, <1>10, <1>11, <1>12 DEF LinkInv

LEMMA SendDataInv == ASSUME LinkInv, SendData PROVE LinkInv'
<1> DEFINE data == [kind |-> "data", op |-> sOp, tag |-> sTag, status |-> "ok", size |-> DataSize(sOp)]
<1>1. /\ sAt = "gap" /\ sAt' = "data" /\ (Prompt => ~(mAt = "header" /\ Full("up")))
      /\ bus' = [bus EXCEPT !["up"] = Started("up", data)]
      /\ UNCHANGED <<world, sOp, sTag, told, probed, mAt, mReq, dbS, dbM, rx, resets>>
  BY DEF SendData, masterVars
<1>2. TypeOK /\ TypeInv /\ Lines /\ bus \in [Direction -> Wire]
  BY Wires DEF LinkInv, TypeInv
<1>3. data \in Frame /\ Started("up", data) \in Wire
  <2>1. data \in Frame
    BY <1>2 DEF TypeOK, Frame, DataSize, Status
  <2> QED
    BY <2>1, StartedType DEF Direction
<1>4. upWire' = Started("up", data) /\ downWire' = downWire /\ up' = up /\ down' = down
  BY <1>1, <1>2 DEF upWire, downWire, up, down, Direction
<1>5. /\ upWire' # Quiet /\ upWire'.frame = data
      /\ upWire'.heard = IF up.left > 0 THEN "all" ELSE "none"
  BY <1>3, <1>4, NoFrameIsNone DEF Started, Armed, up, Quiet
<1>6. TypeInv'
  <2>1. bus' \in [Direction -> Wire]
    BY <1>1, <1>2, <1>3
  <2> QED
    BY <1>1, <1>2, <2>1 DEF TypeInv, TypeOK, Serving, Wire, Heard
<1>7. Lines'
  BY <1>1, <1>2, <1>4, <1>5 DEF Lines, Active, Serving, Mine
<1>8. (Prompt => Upward)'
  BY <1>1, <1>4, <1>5 DEF LinkInv, Prompt, Upward, HeaderOnItsWay, DataOnItsWay, OnTheCard, NotUnderWay,
                          Mine, Active, Full, up
<1>9. (Prompt => Downward)'
  BY <1>1, <1>4 DEF LinkInv, Prompt, Downward,
     ServesMine, OwnRequest, Overdue, Console, Listening, Undivided, Told, Mine, Active, Serving
<1> QED
  BY <1>6, <1>7, <1>8, <1>9 DEF LinkInv

LEMMA DataSentInv == ASSUME LinkInv, DataSent PROVE LinkInv'
<1> PICK k \in Words("up", FALSE) : rx' = [rx EXCEPT !["up"] = Received("up", k)]
  BY DEF DataSent
<1>1. /\ sAt = "data" /\ sAt' = "reply" /\ bus' = [bus EXCEPT !["up"] = Quiet]
      /\ rx' = [rx EXCEPT !["up"] = Received("up", k)]
      /\ UNCHANGED <<world, sOp, sTag, told, probed, mAt, mReq, dbS, dbM, resets>>
  BY DEF DataSent, masterVars
<1>2. TypeOK /\ TypeInv /\ Lines /\ bus \in [Direction -> Wire] /\ rx \in [Direction -> Receiver]
  BY Wires DEF LinkInv, TypeInv
<1>3. Received("up", k) \in Receiver /\ Quiet \in Wire
  BY <1>2, ReceivedType, OffIsReceiver DEF Direction
<1>4. upWire' = Quiet /\ downWire' = downWire /\ up' = Received("up", k) /\ down' = down
  BY <1>1, <1>2 DEF upWire, downWire, up, down, Direction
<1>5. up.left = 0 => up' = up
  BY <1>4, ReceivedIdle DEF up, Direction
<1>6. ASSUME up.from = NoFrame, up.intact, upWire.heard = "all", up.left > 0
      PROVE  up'.intact /\ up'.from = upWire.frame
  <2>1. Busy("up")
    BY <1>1, <1>2 DEF Lines, Busy, upWire
  <2> QED
    BY <1>2, <1>4, <1>6, <2>1, ReceivedSome DEF up, upWire, Direction
<1>7. upWire.frame # NoFrame /\ upWire.frame.kind = "data" /\ Mine(upWire.frame)
  BY <1>1, <1>2, BusyWire, NoFrameIsNone DEF Lines, Busy, upWire, Direction
<1>8. TypeInv'
  <2>1. bus' \in [Direction -> Wire] /\ rx' \in [Direction -> Receiver]
    BY <1>1, <1>2, <1>3
  <2> QED
    BY <1>1, <1>2, <2>1 DEF TypeInv, TypeOK, Serving, Wire, Heard, Receiver
<1>9. up'.left > 0 => up.left > 0
  BY <1>3, <1>4, <1>5, Wires, <1>2 DEF Receiver
<1>10. Lines'
  BY <1>1, <1>2, <1>4, <1>9 DEF Lines, Active, Serving, Mine
<1>11. (Prompt => Upward)'
  <2> SUFFICES ASSUME Prompt PROVE Upward'
    BY <1>1 DEF Prompt
  <2>1. HeaderOnItsWay' /\ NotUnderWay'
    BY <1>1 DEF LinkInv, Upward, HeaderOnItsWay, NotUnderWay
  <2>2. DataOnItsWay'
    BY <1>1, <1>4, <1>6, <1>7 DEF LinkInv, Upward, DataOnItsWay, Mine, Active
  <2>3. OnTheCard'
    BY <1>1, <1>2, <1>4, <1>5, Wires DEF LinkInv, Upward, OnTheCard, Lines, Receiver
  <2> QED
    BY <2>1, <2>2, <2>3 DEF Upward
<1>12. (Prompt => Downward)'
  BY <1>1, <1>4 DEF LinkInv, Prompt, Downward,
     ServesMine, OwnRequest, Overdue, Console, Listening, Undivided, Told, Mine, Active, Serving
<1> QED
  BY <1>8, <1>10, <1>11, <1>12 DEF LinkInv

\* The answer is there: the master has none under way, and takes no header.
LEMMA ReplyInInv == ASSUME LinkInv, ReplyIn PROVE LinkInv'
<1>1. /\ sAt = "reply" /\ sAt' = "clear" /\ Full("down") /\ dbS' = FALSE
      /\ told' \in IF down.intact THEN {down.from.status} ELSE Status
      /\ probed' = (probed \/ (sOp = "INFO" /\ told' = "ok"))
      /\ UNCHANGED <<world, sOp, sTag, mAt, mReq, dbM, bus, rx, resets>>
  BY DEF ReplyIn, masterVars, down
<1>2. UNCHANGED <<upWire, downWire, up, down>> /\ down.left = 0 /\ down.from # NoFrame
  BY <1>1 DEF upWire, downWire, up, down, Full
<1>3. TypeInv'
  <2>1. told' \in Status
    <3>1. down.from \in Frame
      BY <1>2, Wires DEF LinkInv, TypeInv, Receiver
    <3> QED
      BY <1>1, <3>1 DEF Frame
  <2>2. probed' \in BOOLEAN
    BY <1>1 DEF LinkInv, TypeInv, TypeOK
  <2> QED
    BY <1>1, <2>1, <2>2 DEF LinkInv, TypeInv, TypeOK, Serving
<1>4. Lines'
  <2>1. sOp = "INFO" \/ probed
    BY <1>1 DEF LinkInv, Lines, Active
  <2>2. (sOp = "INFO" \/ probed)'
    BY <1>1, <2>1
  <2> QED
    BY <1>1, <1>2, <2>2 DEF LinkInv, Lines, Active, Serving, Mine
<1>5. (Prompt => Upward)'
  BY <1>1, <1>2 DEF LinkInv, Prompt, Upward, HeaderOnItsWay, DataOnItsWay,
                               OnTheCard, NotUnderWay, Mine, Active
<1>6. (Prompt => Downward)'
  <2>1. Prompt => ~Serving
    BY <1>1, <1>2 DEF LinkInv, Downward, ServesMine, OwnRequest, Overdue, Active
  <2>2. Prompt => down.intact /\ Mine(down.from)
    BY <1>1, <1>2 DEF LinkInv, Downward, Listening, Active
  <2> QED
    BY <1>1, <1>2, <2>1, <2>2 DEF Prompt, Downward, ServesMine, Listening, Undivided, Told,
                                  Mine, Active, Serving
<1> QED
  BY <1>3, <1>4, <1>5, <1>6 DEF LinkInv

LEMMA ReplyTimeoutInv == ASSUME LinkInv, ReplyTimeout PROVE LinkInv'
<1>1. /\ sAt = "reply" /\ sAt' = "clear" /\ (Prompt => ~MasterActs /\ mAt # "data")
      /\ told' = "late" /\ dbS' = FALSE /\ rx' = [rx EXCEPT !["down"] = Off]
      /\ UNCHANGED <<world, sOp, sTag, probed, mAt, mReq, dbM, bus, resets>>
  BY DEF ReplyTimeout, masterVars
<1>2. TypeOK /\ TypeInv /\ Lines /\ rx \in [Direction -> Receiver]
  BY Wires DEF LinkInv, TypeInv
<1>3. UNCHANGED <<upWire, downWire, up>> /\ down'.left = 0 /\ down'.from = NoFrame
  BY <1>1, <1>2 DEF upWire, downWire, up, down, Direction, Off
<1>4. Prompt => mAt # "header" \/ up.left > 0 \/ up.from = NoFrame
  <2>1. up.left \in 0 .. 3
    BY <1>2, Wires DEF Receiver
  <2> QED
    BY <1>1, <2>1 DEF MasterActs, Full, up
<1>5. Prompt /\ Serving => /\ mAt = "card" /\ mReq.op = "WRITE" /\ sOp = "WRITE" /\ world.slow
                          /\ probed
  <2>1. sOp = "INFO" \/ probed
    BY <1>1, <1>2 DEF Lines, Active
  <2> QED
    BY <1>1, <2>1 DEF MasterActs, Outlasts, Serving
<1>6. TypeInv'
  <2>1. rx' \in [Direction -> Receiver]
    BY <1>1, <1>2, OffIsReceiver
  <2> QED
    BY <1>1, <1>2, <2>1 DEF TypeInv, TypeOK, Serving, Status, Receiver
<1>7. Lines'
  BY <1>1, <1>2, <1>3 DEF Lines, Active, Serving, Mine
<1>8. (Prompt => Upward)'
  BY <1>1, <1>3, <1>4 DEF LinkInv, Prompt, Upward, HeaderOnItsWay, DataOnItsWay,
                               OnTheCard, NotUnderWay, Mine, Active
<1>9. (Prompt => Downward)'
  BY <1>1, <1>3, <1>5 DEF LinkInv, Prompt, Downward,
     ServesMine, OwnRequest, Overdue, Console, Listening, Undivided, Told, Mine, Active, Serving
<1> QED
  BY <1>6, <1>7, <1>8, <1>9 DEF LinkInv

\* Between requests, and while the slave starts: the lines are left alone.
LEMMA SlaveQuietInv ==
  ASSUME LinkInv, SlaveCleared \/ SlaveInit \/ LinkEnabled PROVE LinkInv'
<1>1. /\ \/ sAt = "clear" /\ sAt' = "idle"
         \/ sAt = "boot" /\ sAt' = "init"
         \/ sAt = "init" /\ sAt' = "idle" /\ (Prompt => mAt \in {"boot", "poll"})
      /\ dbS' \in {dbS, FALSE}
      /\ UNCHANGED <<world, sOp, sTag, told, probed, mAt, mReq, dbM, bus, rx, resets>>
  BY DEF SlaveCleared, SlaveInit, LinkEnabled, masterVars
<1>2. UNCHANGED <<upWire, downWire, up, down>>
  BY <1>1 DEF upWire, downWire, up, down
<1>3. TypeInv'
  BY <1>1 DEF LinkInv, TypeInv, TypeOK, Serving
<1>4. Lines'
  BY <1>1, <1>2 DEF LinkInv, Lines, Active, Serving, Mine
<1>5. (Prompt => Upward)'
  BY <1>1, <1>2 DEF LinkInv, Prompt, Upward, HeaderOnItsWay, DataOnItsWay,
                               OnTheCard, NotUnderWay, Mine, Active
<1>6. (Prompt => Downward)'
  BY <1>1, <1>2 DEF LinkInv, Prompt, Downward,
     ServesMine, OwnRequest, Overdue, Console, Listening, Undivided, Told, Mine, Active, Serving
<1> QED
  BY <1>3, <1>4, <1>5, <1>6 DEF LinkInv

\* A frame that the reset cuts short leaves a part of it with the master.
LEMMA SlaveResetInv == ASSUME LinkInv, SlaveReset PROVE LinkInv'
<1> PICK k \in Words("up", TRUE) :
      rx' = [rx EXCEPT !["up"] = Received("up", k), !["down"] = Off]
  BY DEF SlaveReset
<1>1. /\ sAt' = "boot" /\ probed' = FALSE /\ dbS' \in BOOLEAN
      /\ rx' = [rx EXCEPT !["up"] = Received("up", k), !["down"] = Off]
      /\ bus' = [bus EXCEPT !["up"] = Quiet]
      /\ resets.slave < world.resets /\ resets' = [resets EXCEPT !.slave = @ + 1]
      /\ UNCHANGED <<world, sOp, sTag, told, mAt, mReq, dbM>>
  BY DEF SlaveReset, masterVars
<1>2. TypeOK /\ TypeInv /\ Lines /\ bus \in [Direction -> Wire] /\ rx \in [Direction -> Receiver]
  BY Wires DEF LinkInv, TypeInv
<1>3. Received("up", k) \in Receiver /\ Quiet \in Wire /\ Off \in Receiver
  BY <1>2, ReceivedType, OffIsReceiver DEF Direction
<1>4. upWire' = Quiet /\ downWire' = downWire /\ up' = Received("up", k) /\ down' = Off
  BY <1>1, <1>2 DEF upWire, downWire, up, down, Direction
<1>5. up.left = 0 \/ sAt \notin {"header", "data"} => up' = up
  <2>1. sAt \notin {"header", "data"} => k = 0
    BY <1>2 DEF Lines, upWire, Words, Busy
  <2> QED
    BY <1>4, <2>1, ReceivedIdle DEF up, Direction
<1>6. ASSUME up.from = NoFrame, up.intact, upWire.heard = "all"
      PROVE  up'.intact /\ (up' = up \/ up'.from = upWire.frame)
  BY <1>2, <1>4, <1>6, ReceivedSome DEF up, upWire, Direction
<1>7. sAt \in {"header", "data"} =>
        upWire.frame # NoFrame /\ upWire.frame.kind = sAt /\ Mine(upWire.frame)
  BY <1>2, BusyWire, NoFrameIsNone DEF Lines, Busy, upWire, Direction
<1>8. TypeInv'
  <2>1. bus' \in [Direction -> Wire] /\ rx' \in [Direction -> Receiver]
    BY <1>1, <1>2, <1>3
  <2>2. resets' \in [slave : 0 .. world.resets, master : 0 .. world.resets]
    <3>1. world.resets \in Nat
      BY <1>2, LinkBlkAssumption DEF TypeOK
    <3> QED
      BY <1>1, <1>2, <3>1 DEF TypeOK
  <2> QED
    BY <1>1, <1>2, <2>1, <2>2 DEF TypeInv, TypeOK, Serving, Wire, Heard, Receiver
<1>9. up'.left > 0 => up.left > 0
  BY <1>2, <1>3, <1>4, <1>5, Wires DEF Receiver
<1>10. Lines'
  BY <1>1, <1>2, <1>4, <1>9 DEF Lines, Active, Serving, Mine, Off
<1>11. (Prompt => Upward)'
  <2> SUFFICES ASSUME Prompt PROVE Upward'
    BY <1>1 DEF Prompt
  <2>1. HeaderOnItsWay'
    <3> SUFFICES ASSUME mAt = "header" PROVE HeaderOnItsWay'
      BY <1>1 DEF HeaderOnItsWay
    <3>1. HeaderOnItsWay
      BY DEF LinkInv, Upward
    <3>2. CASE sAt = "header"
      <4>1. up.from = NoFrame /\ up.intact /\ upWire.heard = "all" /\ up.left = HeaderSize
        BY <3>1, <3>2 DEF HeaderOnItsWay
      <4>2. up'.intact /\ (up' = up \/ up'.from = upWire.frame)
        BY <1>6, <4>1
      <4> QED
        BY <1>1, <1>7, <3>1, <3>2, <4>1, <4>2 DEF HeaderOnItsWay, Mine, Active
    <3>3. CASE sAt # "header"
      <4>1. up' = up
        BY <1>5, <3>1, <3>3 DEF HeaderOnItsWay
      <4> QED
        BY <1>1, <3>1, <3>3, <4>1 DEF HeaderOnItsWay, Mine, Active
    <3> QED
      BY <3>2, <3>3
  <2>2. DataOnItsWay'
    <3> SUFFICES ASSUME mAt = "data" PROVE DataOnItsWay'
      BY <1>1 DEF DataOnItsWay
    <3>1. DataOnItsWay
      BY DEF LinkInv, Upward
    <3>2. CASE sAt = "data"
      <4>1. up.from = NoFrame /\ up.intact /\ upWire.heard = "all" /\ up.left > 0
        BY <3>1, <3>2 DEF DataOnItsWay
      <4>2. up'.intact /\ (up' = up \/ up'.from = upWire.frame)
        BY <1>6, <4>1
      <4> QED
        BY <1>1, <1>7, <3>1, <3>2, <4>1, <4>2 DEF DataOnItsWay, Mine, Active
    <3>3. CASE sAt # "data"
      <4>1. up' = up
        BY <1>5, <3>1, <3>3 DEF DataOnItsWay
      <4> QED
        BY <1>1, <3>1, <3>3, <4>1 DEF DataOnItsWay, Mine, Active
    <3> QED
      BY <3>2, <3>3
  <2>3. OnTheCard'
    BY <1>1, <1>2, <1>5, Wires DEF LinkInv, Upward, OnTheCard, Lines, Receiver
  <2>4. NotUnderWay'
    BY <1>1 DEF NotUnderWay
  <2> QED
    BY <2>1, <2>2, <2>3, <2>4 DEF Upward
<1>12. (Prompt => Downward)'
  BY <1>1, <1>4 DEF LinkInv, Prompt, Downward,
     ServesMine, OwnRequest, Overdue, Console, Listening, Undivided, Told, Mine, Active, Serving
<1> QED
  BY <1>8, <1>10, <1>11, <1>12 DEF LinkInv

-----------------------------------------------------------------------------
(* The steps of the master *)

LEMMA ReadyInv == ASSUME LinkInv, Ready PROVE LinkInv'
<1>1. /\ mAt = "poll" /\ mAt' = "header" /\ dbM' = TRUE
      /\ rx' = [rx EXCEPT !["up"] = ArmedFor("up", HeaderSize)]
      /\ bus' = [bus EXCEPT !["up"] = HeardAfterArm("up")]
      /\ UNCHANGED <<world, sAt, sOp, sTag, told, probed, mReq, dbS, resets>>
  BY DEF Ready, slaveVars
<1>2. TypeOK /\ TypeInv /\ Lines /\ bus \in [Direction -> Wire] /\ rx \in [Direction -> Receiver]
  BY Wires DEF LinkInv, TypeInv
<1>3. HeardAfterArm("up") \in Wire /\ ArmedFor("up", HeaderSize) \in Receiver
  BY <1>2, AfterArmType, ArmedType DEF Direction, HeaderSize
<1>4. /\ upWire' = HeardAfterArm("up") /\ downWire' = downWire
      /\ up' = ArmedFor("up", HeaderSize) /\ down' = down
  BY <1>1, <1>2 DEF upWire, downWire, up, down, Direction
<1>5. up'.left = HeaderSize /\ up'.from = NoFrame /\ up'.intact
  BY <1>4 DEF ArmedFor
<1>6. /\ upWire = Quiet => upWire' = Quiet
      /\ upWire # Quiet => upWire' # Quiet /\ upWire'.frame = upWire.frame
  BY <1>2, <1>4, Wires DEF HeardAfterArm, Busy, upWire, Wire, Quiet
<1>7. TypeInv'
  <2>1. bus' \in [Direction -> Wire] /\ rx' \in [Direction -> Receiver]
    BY <1>1, <1>2, <1>3
  <2> QED
    BY <1>1, <1>2, <2>1 DEF TypeInv, TypeOK, Serving, Wire, Heard, Receiver
<1>8. Lines'
  BY <1>1, <1>2, <1>4, <1>6 DEF Lines, Active, Serving, Mine
<1>9. (Prompt => Upward)'
  BY <1>1, <1>5 DEF LinkInv, Prompt, Upward, HeaderOnItsWay, DataOnItsWay,
                               OnTheCard, NotUnderWay, Mine, Active
<1>10. (Prompt => Downward)'
  BY <1>1, <1>4 DEF LinkInv, Prompt, Upward, NotUnderWay, Downward,
     ServesMine, OwnRequest, Overdue, Console, Listening, Undivided, Told, Mine, Active, Serving
<1> QED
  BY <1>7, <1>8, <1>9, <1>10 DEF LinkInv

(***************************************************************************)
(* The master begins to reply, to a request of the slave's that it holds.  *)
(***************************************************************************)
LEMMA ReplyInv ==
  ASSUME LinkInv, NEW req \in Frame, NEW status \in Status, NEW size \in 1 .. 3,
         Reply(req, status, size), rx' = rx \/ rx' = [rx EXCEPT !["up"] = Off],
         UNCHANGED <<world, slaveVars, dbS, dbM, resets>>,
         rx'["up"] = Off \/ (rx' = rx /\ (Full("up") \/ mAt = "card")),
         dbM, req.op = "WRITE" => size = 1,
         Prompt => \/ /\ req.op = sOp /\ req.tag = sTag
                      /\ sAt \in {"gap", "data", "reply", "boot", "init"}
                      /\ Active => down.from = NoFrame
                   \/ Overdue /\ req.op = "WRITE"
  PROVE  LinkInv'
<1> DEFINE answer == [kind |-> "reply", op |-> req.op, tag |-> req.tag, status |-> status, size |-> size]
<1>1. /\ mAt' = "reply" /\ mReq' = req /\ bus' = [bus EXCEPT !["down"] = Started("down", answer)]
      /\ UNCHANGED <<world, sAt, sOp, sTag, told, probed, dbS, dbM, resets>>
  BY DEF Reply, slaveVars
<1>2. TypeOK /\ TypeInv /\ Lines /\ bus \in [Direction -> Wire] /\ rx \in [Direction -> Receiver]
  BY Wires DEF LinkInv, TypeInv
<1>3. answer \in Frame /\ Started("down", answer) \in Wire
  <2>1. answer \in Frame
    BY DEF Frame
  <2> QED
    BY <2>1, StartedType DEF Direction
<1>4. /\ upWire' = upWire /\ downWire' = Started("down", answer) /\ down' = down
      /\ rx' \in [Direction -> Receiver]
  BY <1>1, <1>2, OffIsReceiver DEF upWire, downWire, down, Direction
<1>5. /\ downWire' # Quiet /\ downWire'.frame = answer
      /\ downWire'.heard = IF down.left > 0 THEN "all" ELSE "none"
  BY <1>3, <1>4, NoFrameIsNone DEF Started, Armed, down, Quiet
<1>6. up'.left = 0
  <2>1. mAt = "card" => up.left = 0
    <3>1. up.left \in 0 .. 3
      BY <1>2, Wires DEF Receiver
    <3> QED
      BY <1>2, <3>1 DEF Lines
  <2> QED
    BY <2>1 DEF up, Full, Off
<1>7. TypeInv'
  <2>1. bus' \in [Direction -> Wire]
    BY <1>1, <1>2, <1>3
  <2> QED
    BY <1>1, <1>2, <1>4, <2>1 DEF TypeInv, TypeOK, Serving, Wire, Heard, Receiver
<1>8. Lines'
  BY <1>1, <1>2, <1>4, <1>5, <1>6 DEF Lines, Active, Serving, Mine
<1>9. (Prompt => Upward)'
  BY <1>1 DEF Upward, HeaderOnItsWay, DataOnItsWay, OnTheCard, NotUnderWay
<1>10. (Prompt => Downward)'
  <2> SUFFICES ASSUME Prompt PROVE Downward'
    BY <1>1 DEF Prompt
  <2>1. Downward
    BY DEF LinkInv
  <2>2. ServesMine'
    <3>1. CASE Overdue /\ req.op = "WRITE"
      BY <1>1, <1>4, <3>1 DEF ServesMine, Overdue, Console, Active
    <3>2. CASE /\ req.op = sOp /\ req.tag = sTag
               /\ sAt \in {"gap", "data", "reply", "boot", "init"}
               /\ Active => down.from = NoFrame
      <4>1. Active => down.left > 0
        BY <2>1, <3>2, Sizes DEF Downward, Listening
      <4> QED
        BY <1>1, <1>4, <1>5, <3>2, <4>1 DEF ServesMine, OwnRequest, Mine, Active
    <3> QED
      BY <3>1, <3>2
  <2>3. Listening' /\ Told'
    BY <1>1, <1>4, <2>1 DEF Downward, Listening, Told, Mine, Active
  <2>4. Undivided'
    BY <1>1 DEF Overdue, Undivided, Active
  <2> QED
    BY <2>2, <2>3, <2>4 DEF Downward
<1> QED
  BY <1>7, <1>8, <1>9, <1>10 DEF LinkInv

LEMMA ReplySizes ==
  ASSUME NEW op, NEW status PROVE ReplySize(op, status) \in 1 .. 3
BY DEF ReplySize, Expected

\* What the master has received as a header is one, in time.
LEMMA HeaderIsMine ==
  ASSUME LinkInv, mAt = "header", Full("up")
  PROVE  /\ up.from \in Frame
         /\ Prompt => /\ up.intact /\ up.from.kind = "header" /\ Mine(up.from)
                      /\ sAt \in {"gap", "reply", "boot", "init"} /\ (Active => down.from = NoFrame)
<1>1. up.from # NoFrame /\ up.from \in Frame
  BY Wires DEF LinkInv, TypeInv, Full, up, Receiver
<1> QED
  BY <1>1 DEF LinkInv, Upward, HeaderOnItsWay, Active

LEMMA HeaderRejectedInv == ASSUME LinkInv, HeaderRejected PROVE LinkInv'
<1> DEFINE req == IF IsRequest(up) THEN up.from ELSE [up.from EXCEPT !.op = "junk"]
<1>1. /\ mAt = "header" /\ Full("up")
      /\ UNCHANGED <<world, slaveVars, dbS, dbM, rx, resets>>
  BY DEF HeaderRejected
<1>2. PICK op \in IF req.op = "junk" THEN {"INFO", "KEYS"} ELSE {req.op} :
             Reply(req, "error", ReplySize(op, "error"))
  BY DEF HeaderRejected, up
<1>3. req \in Frame
  <2>1. up.from \in Frame
    BY <1>1, HeaderIsMine
  <2> QED
    BY <2>1 DEF Frame
<1>4. dbM
  BY <1>1 DEF LinkInv, Lines
<1>5. Prompt => \/ /\ req.op = sOp /\ req.tag = sTag
                   /\ sAt \in {"gap", "data", "reply", "boot", "init"}
                   /\ Active => down.from = NoFrame
                \/ Overdue /\ req.op = "WRITE"
  BY <1>1, HeaderIsMine DEF Prompt, IsRequest, Mine
<1>6. /\ "error" \in Status /\ ReplySize(op, "error") \in 1 .. 3
      /\ req.op = "WRITE" => ReplySize(op, "error") = 1
  BY <1>2, ReplySizes DEF Status, ReplySize, Expected
<1> HIDE DEF req
<1> QED
  BY <1>1, <1>2, <1>3, <1>4, <1>5, <1>6, ReplyInv

LEMMA HeaderTakenInv == ASSUME LinkInv, HeaderTaken PROVE LinkInv'
<1> DEFINE req == up.from
<1>1. /\ mAt = "header" /\ Full("up") /\ IsRequest(up)
      /\ UNCHANGED <<world, slaveVars, dbS, dbM, resets>>
  BY DEF HeaderTaken, up
<1>2. UNCHANGED <<sAt, sOp, sTag, told, probed>> /\ down' = down /\ req \in Frame
  BY <1>1, HeaderIsMine, Wires DEF slaveVars, HeaderTaken, down, Direction, LinkInv, TypeInv
<1>3. TypeOK /\ TypeInv /\ Lines /\ bus \in [Direction -> Wire] /\ rx \in [Direction -> Receiver]
  BY Wires DEF LinkInv, TypeInv
<1>4. Prompt => /\ Mine(req) /\ sAt \in {"gap", "reply", "boot", "init"} /\ (Active => down.from = NoFrame)
  BY <1>1, HeaderIsMine
<1>5. CASE /\ HasData(req.op)
           /\ rx' = [rx EXCEPT !["up"] = ArmedFor("up", DataSize(req.op))]
           /\ bus' = [bus EXCEPT !["up"] = HeardAfterArm("up")]
           /\ mAt' = "data" /\ mReq' = req
  <2>1. HeardAfterArm("up") \in Wire /\ ArmedFor("up", DataSize(req.op)) \in Receiver
    BY <1>3, AfterArmType, ArmedType DEF Direction, DataSize
  <2>2. /\ upWire' = HeardAfterArm("up") /\ downWire' = downWire
        /\ up' = ArmedFor("up", DataSize(req.op))
    BY <1>3, <1>5 DEF upWire, downWire, up, Direction
  <2>3. up'.left > 0 /\ up'.from = NoFrame /\ up'.intact
    BY <2>2 DEF ArmedFor, DataSize
  <2>4. /\ upWire = Quiet => upWire' = Quiet
        /\ upWire # Quiet => upWire' # Quiet /\ upWire'.frame = upWire.frame
    BY <1>3, <2>2, Wires DEF HeardAfterArm, Busy, upWire, Wire, Quiet
  <2>5. TypeInv'
    <3>1. bus' \in [Direction -> Wire] /\ rx' \in [Direction -> Receiver]
      BY <1>3, <1>5, <2>1
    <3> QED
      BY <1>1, <1>2, <1>3, <1>5, <3>1 DEF TypeInv, TypeOK, Serving, Wire, Heard, Receiver
  <2>6. Lines'
    BY <1>1, <1>2, <1>3, <1>5, <2>2, <2>4 DEF Lines, Active, Serving, Mine
  <2>7. (Prompt => Upward)'
    BY <1>1, <1>2, <1>4, <1>5, <2>3 DEF Prompt, Upward, HeaderOnItsWay, DataOnItsWay,
                               OnTheCard, NotUnderWay, Mine, Active
  <2>8. (Prompt => Downward)'
    BY <1>1, <1>2, <1>4, <1>5 DEF LinkInv, Prompt, Downward,
       ServesMine, OwnRequest, Overdue, Console, Listening, Undivided, Told, Mine, Active, Serving
  <2> QED
    BY <2>5, <2>6, <2>7, <2>8 DEF LinkInv
<1>6. CASE req.op = "READ" /\ mAt' = "card" /\ mReq' = req /\ UNCHANGED <<world, bus, rx>>
  <2>1. UNCHANGED <<upWire, downWire, up>> /\ up.left = 0
    BY <1>1, <1>6 DEF upWire, downWire, up, Full
  <2>2. TypeInv'
    BY <1>1, <1>2, <1>3, <1>6 DEF TypeInv, TypeOK, Serving
  <2>3. Lines'
    BY <1>1, <1>2, <1>3, <1>6, <2>1 DEF Lines, Active, Serving, Mine
  <2>4. (Prompt => Upward)'
    BY <1>6 DEF Upward, HeaderOnItsWay, DataOnItsWay, OnTheCard, NotUnderWay
  <2>5. (Prompt => Downward)'
    BY <1>1, <1>2, <1>4, <1>6 DEF LinkInv, Prompt, Downward,
       ServesMine, OwnRequest, Overdue, Console, Listening, Undivided, Told, Mine, Active, Serving
  <2> QED
    BY <2>2, <2>3, <2>4, <2>5 DEF LinkInv
<1>7. CASE Reply(req, "ok", ReplySize(req.op, "ok")) /\ UNCHANGED rx
  <2>1. dbM
    BY <1>1, <1>3 DEF Lines
  <2>2. Prompt => \/ /\ req.op = sOp /\ req.tag = sTag
                     /\ sAt \in {"gap", "data", "reply", "boot", "init"}
                     /\ Active => down.from = NoFrame
                  \/ Overdue /\ req.op = "WRITE"
    BY <1>4 DEF Prompt, Mine
  <2>3. /\ "ok" \in Status /\ ReplySize(req.op, "ok") \in 1 .. 3
        /\ req.op = "WRITE" => ReplySize(req.op, "ok") = 1
    BY ReplySizes DEF Status, ReplySize, Expected
  <2> HIDE DEF req
  <2> QED
    BY <1>1, <1>2, <1>7, <2>1, <2>2, <2>3, ReplyInv
<1> QED
  BY <1>5, <1>6, <1>7 DEF HeaderTaken, up

\* The master's doorbell falls, its waits end, or it has started: nothing is
\* left of the request, and its receiver is off.
LEMMA MasterQuietInv ==
  ASSUME LinkInv, HeaderTimeout \/ DropDoorbell \/ MasterCleared \/ MasterBoot PROVE LinkInv'
<1>1. /\ \/ /\ mAt = "header" /\ mAt' = "drop" /\ (Prompt => ~SlaveActs)
            /\ rx' = [rx EXCEPT !["up"] = Off] /\ dbM' = dbM
         \/ mAt = "drop" /\ mAt' = "clear" /\ rx' = rx /\ dbM' = FALSE
         \/ /\ mAt = "clear" /\ mAt' = "poll" /\ dbM' = dbM /\ (Prompt /\ dbS => ~SlaveActs)
            /\ rx' = rx \/ rx' = [rx EXCEPT !["up"] = Off]
         \/ mAt = "boot" /\ mAt' = "poll" /\ rx' = rx /\ dbM' = FALSE /\ (Prompt => ~SlaveActs)
      /\ mReq' \in {mReq, NoFrame}
      /\ UNCHANGED <<world, sAt, sOp, sTag, told, probed, dbS, bus, resets>>
  BY DEF HeaderTimeout, DropDoorbell, MasterCleared, MasterBoot, slaveVars
<1>2. TypeOK /\ TypeInv /\ Lines /\ rx \in [Direction -> Receiver]
  BY Wires DEF LinkInv, TypeInv
<1>3. rx' \in [Direction -> Receiver]
  BY <1>1, <1>2, OffIsReceiver
<1>4. UNCHANGED <<upWire, downWire, down>> /\ (up' = up \/ up' = Off)
      /\ (mAt = "header" => up' = Off)
  BY <1>1, <1>2 DEF upWire, downWire, up, down, Direction
<1>5. ~(up'.left > 0)
  BY <1>1, <1>2, <1>4 DEF Lines, Off
<1>6. TypeInv'
  BY <1>1, <1>2, <1>3 DEF TypeInv, TypeOK, Serving, Receiver
<1>7. Lines'
  BY <1>1, <1>2, <1>4, <1>5 DEF Lines, Active, Serving, Mine
<1>8. (Prompt => Upward)'
  BY <1>1, <1>2 DEF Prompt, Upward, HeaderOnItsWay, DataOnItsWay, OnTheCard, NotUnderWay,
                    Lines, SlaveActs, Active
<1>9. (Prompt => Downward)'
  <2>1. ASSUME Prompt, ~world.slow, sAt = "header" PROVE FALSE
    BY <1>1, <2>1 DEF LinkInv, Downward, Undivided, SlaveActs
  <2> QED
    BY <1>1, <1>4, <2>1 DEF LinkInv, Prompt, Downward,
       ServesMine, OwnRequest, Overdue, Console, Listening, Undivided, Told, Mine, Active, Serving
<1> QED
  BY <1>6, <1>7, <1>8, <1>9 DEF LinkInv

\* While the master serves a request, it has it, and its doorbell is up.
LEMMA ServingIt ==
  ASSUME LinkInv, Serving
  PROVE  /\ mReq \in Frame /\ dbM
         /\ Prompt => \/ /\ mReq.op = sOp /\ mReq.tag = sTag
                         /\ sAt \in {"gap", "data", "reply", "boot", "init"}
                         /\ Active => down.from = NoFrame
                      \/ Overdue /\ mReq.op = "WRITE"
<1>1. mReq \in Frame /\ dbM
  BY DEF LinkInv, TypeInv, Lines
<1>2. Prompt => OwnRequest \/ Overdue
  BY DEF LinkInv, Downward, ServesMine
<1> QED
  BY <1>1, <1>2 DEF OwnRequest, Overdue, Mine

LEMMA DataInInv == ASSUME LinkInv, DataIn PROVE LinkInv'
<1>1. /\ mAt = "data" /\ Full("up") /\ rx' = rx
      /\ UNCHANGED <<world, slaveVars, dbS, dbM, resets>>
  BY DEF DataIn
<1>2. Serving
  BY <1>1 DEF Serving
<1>3. CASE mReq.op = "WRITE" /\ mAt' = "card" /\ UNCHANGED <<world, mReq, bus>>
  <2>1. /\ UNCHANGED <<upWire, downWire, up, down, sAt, sOp, sTag, told, probed>>
        /\ up.left = 0 /\ up.from # NoFrame
    BY <1>1, <1>3 DEF upWire, downWire, up, down, Full, slaveVars
  <2>2. TypeInv'
    BY <1>1, <1>2, <1>3, <2>1 DEF LinkInv, TypeInv, TypeOK, Serving
  <2>3. Lines'
    BY <1>1, <1>3, <2>1 DEF LinkInv, Lines, Active, Serving, Mine
  <2>4. (Prompt => Upward)'
    BY <1>1, <1>3, <2>1 DEF LinkInv, Prompt, Upward, HeaderOnItsWay, DataOnItsWay,
                               OnTheCard, NotUnderWay, Mine, Active
  <2>5. (Prompt => Downward)'
    BY <1>1, <1>3, <2>1 DEF LinkInv, Prompt, Downward,
       ServesMine, OwnRequest, Overdue, Console, Listening, Undivided, Told, Mine, Active, Serving
  <2> QED
    BY <2>2, <2>3, <2>4, <2>5 DEF LinkInv
<1>4. CASE mReq.op = "CON" /\ Reply(mReq, "ok", ReplySize("CON", "ok"))
  <2>1. "ok" \in Status /\ ReplySize("CON", "ok") \in 1 .. 3
    BY ReplySizes DEF Status
  <2>2. mReq.op # "WRITE"
    BY <1>4
  <2> QED
    BY <1>1, <1>2, <1>4, <2>1, <2>2, ServingIt, ReplyInv
<1> QED
  BY <1>3, <1>4 DEF DataIn

LEMMA DataTimeoutInv == ASSUME LinkInv, DataTimeout PROVE LinkInv'
<1>1. /\ mAt = "data" /\ rx' = [rx EXCEPT !["up"] = Off]
      /\ Reply(mReq, "error", ReplySize(mReq.op, "error"))
      /\ UNCHANGED <<world, slaveVars, dbS, dbM, resets>>
  BY DEF DataTimeout
<1>2. Serving /\ rx'["up"] = Off
  BY <1>1, Wires DEF Serving, LinkInv, TypeInv, Direction
<1>3. /\ "error" \in Status /\ ReplySize(mReq.op, "error") \in 1 .. 3
      /\ mReq.op = "WRITE" => ReplySize(mReq.op, "error") = 1
  BY ReplySizes DEF Status, ReplySize, Expected
<1> QED
  BY <1>1, <1>2, <1>3, ServingIt, ReplyInv

LEMMA CardDoneInv == ASSUME LinkInv, NEW status \in Status, CardDone(status) PROVE LinkInv'
<1>1. /\ mAt = "card" /\ rx' = rx /\ Reply(mReq, status, ReplySize(mReq.op, status))
      /\ UNCHANGED <<world, slaveVars, dbS, dbM, resets>>
  BY DEF CardDone
<1>2. /\ Serving /\ ReplySize(mReq.op, status) \in 1 .. 3
      /\ mReq.op = "WRITE" => ReplySize(mReq.op, status) = 1
  BY <1>1, ReplySizes DEF Serving, ReplySize, Expected
<1> QED
  BY <1>1, <1>2, ServingIt, ReplyInv

(***************************************************************************)
(* What a reply on the wire leaves with the slave, sent to its end or not. *)
(***************************************************************************)
LEMMA ReplyArrives ==
  ASSUME LinkInv, NEW cut \in BOOLEAN, NEW k \in Words("down", cut), ~cut => mAt = "reply",
         down' = Received("down", k), UNCHANGED <<world, sAt, sOp, sTag, told>>
  PROVE  /\ down' \in Receiver /\ (down'.left > 0 => down.left > 0)
         /\ Prompt => Listening' /\ Told'
<1>1. TypeOK /\ Lines /\ rx \in [Direction -> Receiver] /\ down \in Receiver
  BY Wires DEF LinkInv, TypeInv
<1>2. down' \in Receiver
  BY <1>1, ReceivedType DEF Direction
<1>3. down.left = 0 => down' = down
  BY ReceivedIdle DEF down, Direction
<1>4. down'.left > 0 => down.left > 0
  BY <1>1, <1>2, <1>3 DEF Receiver
<1>5. ASSUME Prompt PROVE Listening' /\ Told'
  <2>1. CASE ~Active
    <3>1. down' = down
      BY <1>1, <1>3, <2>1 DEF Lines, Receiver
    <3> QED
      BY <1>5, <2>1, <3>1 DEF LinkInv, Downward, Listening, Told, Active, Mine
  <2>2. CASE Active /\ mAt # "reply"
    <3>1. k = 0
      BY <1>1, <2>2 DEF Lines, downWire, Words, Busy
    <3>2. down' = down
      BY <3>1, ReceivedIdle DEF down, Direction
    <3> QED
      BY <1>5, <2>2, <3>2 DEF LinkInv, Downward, Listening, Told, Active, Mine
  <2>3. CASE Active /\ mAt = "reply"
    <3>1. /\ down.intact /\ down.from = NoFrame /\ down.left = Expected(sOp)
          /\ Serving /\ (OwnRequest \/ Overdue)
      BY <1>5, <2>3 DEF LinkInv, Downward, ServesMine, OwnRequest, Overdue, Listening, Serving, Active
    <3>2. /\ Busy("down") /\ downWire.frame # NoFrame /\ downWire.frame.size \in 1 .. 3
          /\ downWire.frame.op = mReq.op /\ downWire.frame.tag = mReq.tag
          /\ mReq.op = "WRITE" => downWire.frame.size = 1
      BY <1>1, <2>3, BusyWire, NoFrameIsNone DEF Lines, Busy, downWire, Direction, Frame
    <3>3. ASSUME OwnRequest PROVE Listening'
      <4>1. down'.intact /\ (down' = down \/ down'.from = downWire.frame)
        BY <1>1, <2>3, <3>1, <3>3, ReceivedSome DEF OwnRequest, down, downWire, Direction
      <4> QED
        BY <3>1, <3>2, <3>3, <4>1 DEF OwnRequest, Listening, Mine, Active, Expected
    <3>4. ASSUME Overdue PROVE Listening'
      <4>1. down.left = 2
        BY <2>3, <3>1, <3>4 DEF Overdue, Console, Expected, Active
      <4>2. k = 0 \/ (k = 1 /\ downWire.heard = "all")
        <5>1. downWire.frame.size = 1
          BY <3>2, <3>4 DEF Overdue
        <5> QED
          BY <5>1 DEF Words, downWire
      <4>3. CASE k = 0
        <5>1. down' = down
          BY <4>3, ReceivedIdle DEF down, Direction
        <5> QED
          BY <3>1, <5>1, <2>3 DEF Listening, Expected
      <4>4. CASE k = 1 /\ downWire.heard = "all"
        <5>1. down'.intact /\ down'.from = downWire.frame /\ down'.left > 0
          <6>1. down' = [left |-> IF 1 < down.left THEN down.left - 1 ELSE 0,
                         from |-> IF down.from = NoFrame THEN downWire.frame ELSE down.from,
                         intact |-> down.intact /\ down.from = NoFrame /\ downWire.heard = "all"]
            BY <4>1, <4>4 DEF Received, down, downWire
          <6>2. down'.intact
            BY <1>1, <3>1, <4>4, ReceivedSome DEF down, downWire, Direction
          <6>3. down'.left = 1 /\ down'.from = downWire.frame
            BY <3>1, <4>1, <6>1
          <6> QED
            BY <6>2, <6>3
        <5> QED
          BY <3>2, <5>1 DEF Listening
      <4> QED
        BY <4>2, <4>3, <4>4
    <3>5. Listening'
      BY <3>1, <3>3, <3>4
    <3>6. Told'
      BY <2>3 DEF Told, Active
    <3> QED
      BY <3>5, <3>6
  <2> QED
    BY <2>1, <2>2, <2>3
<1> QED
  BY <1>2, <1>4, <1>5

LEMMA ReplySentInv == ASSUME LinkInv, ReplySent PROVE LinkInv'
<1> PICK k \in Words("down", FALSE) : rx' = [rx EXCEPT !["down"] = Received("down", k)]
  BY DEF ReplySent
<1>1. /\ mAt = "reply" /\ mAt' = "drop"
      /\ rx' = [rx EXCEPT !["down"] = Received("down", k)]
      /\ bus' = [bus EXCEPT !["down"] = Quiet]
      /\ UNCHANGED <<world, sAt, sOp, sTag, told, probed, mReq, dbS, dbM, resets>>
  BY DEF ReplySent, slaveVars
<1>2. TypeOK /\ TypeInv /\ Lines /\ bus \in [Direction -> Wire] /\ rx \in [Direction -> Receiver]
  BY Wires DEF LinkInv, TypeInv
<1>3. upWire' = upWire /\ downWire' = Quiet /\ up' = up /\ down' = Received("down", k)
  BY <1>1, <1>2 DEF upWire, downWire, up, down, Direction
<1>4. /\ down' \in Receiver /\ (down'.left > 0 => down.left > 0)
      /\ Prompt => Listening' /\ Told'
  BY <1>1, <1>3, ReplyArrives
<1>5. TypeInv'
  <2>1. bus' \in [Direction -> Wire] /\ rx' \in [Direction -> Receiver]
    BY <1>1, <1>2, <1>3, <1>4, OffIsReceiver
  <2> QED
    BY <1>1, <1>2, <2>1 DEF TypeInv, TypeOK, Serving, Wire, Heard, Receiver
<1>6. Lines'
  BY <1>1, <1>2, <1>3, <1>4 DEF Lines, Active, Serving, Mine
<1>7. (Prompt => Upward)'
  BY <1>1 DEF Upward, HeaderOnItsWay, DataOnItsWay, OnTheCard, NotUnderWay
<1>8. (Prompt => Downward)'
  BY <1>1, <1>4 DEF LinkInv, Prompt, Downward, ServesMine, Undivided, Serving
<1> QED
  BY <1>5, <1>6, <1>7, <1>8 DEF LinkInv

LEMMA MasterResetInv == ASSUME LinkInv, MasterReset PROVE LinkInv'
<1> PICK k \in Words("down", TRUE) :
      rx' = [rx EXCEPT !["down"] = Received("down", k), !["up"] = Off]
  BY DEF MasterReset
<1>1. /\ mAt' = "boot" /\ mReq' = NoFrame /\ dbM' \in BOOLEAN
      /\ rx' = [rx EXCEPT !["down"] = Received("down", k), !["up"] = Off]
      /\ bus' = [bus EXCEPT !["down"] = Quiet]
      /\ resets.master < world.resets /\ resets' = [resets EXCEPT !.master = @ + 1]
      /\ UNCHANGED <<world, sAt, sOp, sTag, told, probed, dbS>>
  BY DEF MasterReset, slaveVars
<1>2. TypeOK /\ TypeInv /\ Lines /\ bus \in [Direction -> Wire] /\ rx \in [Direction -> Receiver]
  BY Wires DEF LinkInv, TypeInv
<1>3. upWire' = upWire /\ downWire' = Quiet /\ up' = Off /\ down' = Received("down", k)
  BY <1>1, <1>2 DEF upWire, downWire, up, down, Direction
<1>4. /\ down' \in Receiver /\ (down'.left > 0 => down.left > 0)
      /\ Prompt => Listening' /\ Told'
  BY <1>1, <1>3, ReplyArrives
<1>5. TypeInv'
  <2>1. bus' \in [Direction -> Wire] /\ rx' \in [Direction -> Receiver]
    BY <1>1, <1>2, <1>3, <1>4, OffIsReceiver
  <2>2. resets' \in [slave : 0 .. world.resets, master : 0 .. world.resets]
    <3>1. world.resets \in Nat
      BY <1>2, LinkBlkAssumption DEF TypeOK
    <3> QED
      BY <1>1, <1>2, <3>1 DEF TypeOK
  <2> QED
    BY <1>1, <1>2, <2>1, <2>2 DEF TypeInv, TypeOK, Serving, Wire, Heard, Receiver
<1>6. Lines'
  BY <1>1, <1>2, <1>3, <1>4 DEF Lines, Active, Serving, Mine, Off
<1>7. (Prompt => Upward)'
  BY <1>1 DEF Upward, HeaderOnItsWay, DataOnItsWay, OnTheCard, NotUnderWay
<1>8. (Prompt => Downward)'
  BY <1>1, <1>4 DEF LinkInv, Prompt, Downward, ServesMine, Undivided, Serving
<1> QED
  BY <1>5, <1>6, <1>7, <1>8 DEF LinkInv

-----------------------------------------------------------------------------

LEMMA NextInv == LinkInv /\ [Next]_vars => LinkInv'
<1> SUFFICES ASSUME LinkInv, [Next]_vars PROVE LinkInv'
  OBVIOUS
<1>1. CASE Slave
  <2>1. ASSUME NEW op \in world.ops \cup {"INFO", "KEYS"}, Ask(op) PROVE LinkInv'
    <3>1. op \in AllOps
      BY LinkBlkAssumption DEF LinkInv, TypeInv, TypeOK, AllOps
    <3> QED
      BY <2>1, <3>1, AskInv
  <2> QED
    BY <1>1, <2>1, AnsweredInv, AskTimeoutInv, HeaderSentInv, SendDataInv, DataSentInv, ReplyInInv,
       ReplyTimeoutInv, SlaveQuietInv DEF Slave
<1>2. CASE Master
  BY <1>2, ReadyInv, HeaderRejectedInv, HeaderTakenInv, MasterQuietInv, DataInInv, DataTimeoutInv,
     CardDoneInv, ReplySentInv DEF Master
<1>3. CASE UNCHANGED vars
  <2>1. UNCHANGED <<world, sAt, sOp, sTag, told, probed, mAt, mReq, dbS, dbM, bus, rx, resets>>
        /\ UNCHANGED <<upWire, downWire, up, down>>
    BY <1>3 DEF vars, slaveVars, masterVars, upWire, downWire, up, down
  <2>2. TypeInv'
    BY <2>1 DEF LinkInv, TypeInv, TypeOK, Serving
  <2>3. Lines'
    BY <2>1 DEF LinkInv, Lines, Active, Serving, Mine
  <2>4. (Prompt => Upward)'
    BY <2>1 DEF LinkInv, Prompt, Upward, HeaderOnItsWay, DataOnItsWay,
                               OnTheCard, NotUnderWay, Mine, Active
  <2>5. (Prompt => Downward)'
    BY <2>1 DEF LinkInv, Prompt, Downward,
       ServesMine, OwnRequest, Overdue, Console, Listening, Undivided, Told, Mine, Active, Serving
  <2> QED
    BY <2>2, <2>3, <2>4, <2>5 DEF LinkInv
<1> QED
  BY <1>1, <1>2, <1>3, SlaveResetInv, MasterResetInv DEF Next

(***************************************************************************)
(* Frames are whole requests and replies of their kinds and sizes, and no  *)
(* receiver is armed for more words than the longest of them, whatever     *)
(* either side does and however often it is reset (link_bus.c).            *)
(***************************************************************************)
THEOREM TypeCorrect == Spec => []TypeOK
<1>1. LinkInv => TypeOK
  BY DEF LinkInv, TypeInv
<1> QED
  BY <1>1, InitInv, NextInv, PTL DEF Spec

(***************************************************************************)
(* As long as reactions are in time, a sector that goes to the card is the *)
(* one that came with the request for it, whole: even if the card is slow  *)
(* and the slave has given the request up, and with any number of resets   *)
(* of either side (master-ioserver main.c, do_request).                    *)
(***************************************************************************)
THEOREM DataIsTheRequests == Spec => []CardGetsTheData
<1>1. LinkInv => CardGetsTheData
  BY DEF LinkInv, Upward, OnTheCard, CardGetsTheData, up
<1> QED
  BY <1>1, InitInv, NextInv, PTL DEF Spec

(***************************************************************************)
(* And blk_transact returns 0 only with the answer to its own request,     *)
(* though no frame is numbered, either side may be reset in the middle of  *)
(* one, and a WRITE that the slave has given up may be answered while it   *)
(* waits for something else (core1_blk.c).                                 *)
(***************************************************************************)
THEOREM AnswersAreMine == Spec => []AnswerIsMine
<1>1. LinkInv => AnswerIsMine
  BY DEF LinkInv, Downward, Told, Mine, AnswerIsMine, down
<1> QED
  BY <1>1, InitInv, NextInv, PTL DEF Spec

(***************************************************************************)
(* As long as the card is quick, the master's doorbell means "ready": no   *)
(* request goes out to a master that has not armed for it (link_blk.h).    *)
(***************************************************************************)
THEOREM NobodyMissesARequest == Spec => []ReadyIfQuick
<1>1. LinkInv => ReadyIfQuick
  BY DEF LinkInv, Upward, HeaderOnItsWay, Downward, Undivided, ReadyIfQuick, ReadyMeansArmed,
         upWire
<1> QED
  BY <1>1, InitInv, NextInv, PTL DEF Spec

=============================================================================
