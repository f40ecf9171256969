-------------------------- MODULE ConsoleTx_proofs --------------------------
(***************************************************************************)
(* Proofs about ConsoleTx, for every size of ring and kfifo and however    *)
(* much is printed: that the tx ring has one producer at a time, and that  *)
(* nothing put into it is lost.  Both hold if the master answers before    *)
(* afboot stops waiting and no interrupt handler prints.                   *)
(***************************************************************************)
EXTENDS ConsoleTx, TLAPS

Timely == ~SlowMaster /\ ~IrqPrints

-----------------------------------------------------------------------------
(* The ring *)

\* Wrap on the only arguments the code gives it: an index less than one turn
\* ahead or behind.
LEMMA WrapBelow == \A i \in 0 .. RingBytes - 1 : Wrap(i) = i
BY ConsoleTxAssumption DEF Wrap

LEMMA WrapAhead == \A i \in RingBytes .. 2 * RingBytes - 1 : Wrap(i) = i - RingBytes
BY ConsoleTxAssumption DEF Wrap

LEMMA WrapBehind == \A i \in -RingBytes .. -1 : Wrap(i) = i + RingBytes
BY ConsoleTxAssumption DEF Wrap

\* A step of less than a turn from a slot, forward and backward.
LEMMA Forward ==
  ASSUME NEW i \in Slot, NEW k \in Slot
  PROVE  Wrap(i + k) \in Slot /\ Wrap(i + k) = IF i + k < RingBytes THEN i + k ELSE i + k - RingBytes
BY ConsoleTxAssumption, WrapBelow, WrapAhead, WrapBehind DEF Slot

LEMMA Between ==
  ASSUME NEW h \in Slot, NEW t \in Slot
  PROVE  Wrap(h - t) \in Slot /\ Wrap(h - t) = IF h >= t THEN h - t ELSE h - t + RingBytes
BY ConsoleTxAssumption, WrapBelow, WrapAhead, WrapBehind DEF Slot

\* The head is where the slots in use end.
LEMMA HeadIsAfterUsed ==
  ASSUME NEW h \in Slot, NEW t \in Slot PROVE Wrap(t + Wrap(h - t)) = h
BY ConsoleTxAssumption, WrapBelow, WrapAhead, WrapBehind DEF Slot

\* A head that moves on by n lengthens what is in use by n, if it fits.
LEMMA HeadMoves ==
  ASSUME NEW h \in Slot, NEW t \in Slot, NEW n \in Nat, Wrap(h - t) + n =< RingBytes - 1
  PROVE  Wrap(h + n) \in Slot /\ Wrap(Wrap(h + n) - t) = Wrap(h - t) + n
BY ConsoleTxAssumption, WrapBelow, WrapAhead, WrapBehind DEF Slot

\* A tail that moves on by n shortens it by n.
LEMMA TailMoves ==
  ASSUME NEW h \in Slot, NEW t \in Slot, NEW n \in Nat, n =< Wrap(h - t)
  PROVE  Wrap(t + n) \in Slot /\ Wrap(h - Wrap(t + n)) = Wrap(h - t) - n
BY ConsoleTxAssumption, WrapBelow, WrapAhead, WrapBehind DEF Slot

\* Going on from a slot that n steps have led to.
LEMMA StepsAdd ==
  ASSUME NEW t \in Slot, NEW n \in Nat, NEW k \in Nat, n + k =< RingBytes - 1
  PROVE  Wrap(Wrap(t + n) + k) = Wrap(t + (n + k))
BY ConsoleTxAssumption, WrapBelow, WrapAhead, WrapBehind DEF Slot

\* Different steps lead to different slots.
LEMMA StepsDiffer ==
  ASSUME NEW t \in Slot, NEW j \in Slot, NEW k \in Slot, j # k
  PROVE  Wrap(t + j) # Wrap(t + k)
BY ConsoleTxAssumption, WrapBelow, WrapAhead, WrapBehind DEF Slot

LEMMA Ends == ASSUME TypeOK PROVE head \in Slot /\ tail \in Slot
BY DEF TypeOK

LEMMA UsedType == ASSUME TypeOK PROVE Used \in Slot /\ Space \in Slot
<1>1. Used \in Slot
  BY Ends, Between DEF Used
<1> QED
  BY <1>1, ConsoleTxAssumption DEF Space, Slot

LEMMA PutType ==
  ASSUME TypeOK, NEW i \in Slot, NEW n \in 0 .. 1
  PROVE  Wrap(i + n) \in Slot
BY ConsoleTxAssumption, Forward DEF Slot

-----------------------------------------------------------------------------

LEMMA InitType == Init => TypeOK
<1> SUFFICES ASSUME Init PROVE TypeOK
  OBVIOUS
<1>1. 0 \in Slot
  BY ConsoleTxAssumption DEF Slot
<1>2. <<>> \in Seq(Contexts)
  OBVIOUS
<1>3. AfbootPuts \in Nat /\ MaxMessages \in Nat /\ FifoBytes \in Nat
  BY ConsoleTxAssumption
<1>4. Contexts = {"afboot", "write", "softirq", "printk", "report"}
  BY DEF Contexts
<1> QED
  BY <1>1, <1>2, <1>3, <1>4 DEF Init, TypeOK

LEMMA PutStepType ==
  ASSUME TypeOK, NEW c \in Contexts, Enter(c) \/ Publish(c) PROVE TypeOK'
<1>1. CASE Enter(c)
  <2>1. pc' \in [Contexts -> {"idle", "ready", "enter", "publish"}]
    BY <1>1 DEF Enter, TypeOK
  <2>2. putHead' \in [Contexts -> Slot]
    BY <1>1 DEF Enter, TypeOK
  <2>3. putLen' \in [Contexts -> 0 .. 1]
    <3> DEFINE none == c \in {"afboot", "report"} /\ Space = 0
    <3>2. putLen' = [putLen EXCEPT ![c] = IF none THEN 0 ELSE 1]
      BY <1>1 DEF Enter
    <3> HIDE DEF none
    <3>3. (IF none THEN 0 ELSE 1) \in 0 .. 1
      OBVIOUS
    <3> QED
      BY <3>2, <3>3 DEF TypeOK
  <2> QED
    BY <1>1, <2>1, <2>2, <2>3 DEF Enter, TypeOK, coreVars, ringVars, ttyVars
<1>2. CASE Publish(c)
  <2>1. head' \in Slot /\ data' \in [Slot -> Contexts]
    BY <1>2, PutType DEF Publish, TypeOK
  <2>2. owed' \in Seq(Contexts)
    BY <1>2 DEF Publish, Owe, TypeOK
  <2>3. 0 \in Slot
    BY ConsoleTxAssumption DEF Slot
  <2> QED
    <3>1. pc' \in [Contexts -> {"idle", "ready", "enter", "publish"}]
      BY <1>2 DEF Publish, TypeOK
    <3>2. putHead' \in [Contexts -> Slot]
      BY <1>2, <2>3 DEF Publish, TypeOK
    <3>3. putLen' \in [Contexts -> 0 .. 1]
      BY <1>2 DEF Publish, TypeOK
    <3> QED
      BY <1>2, <2>1, <2>2, <3>1, <3>2, <3>3 DEF Publish, TypeOK, coreVars, ttyVars
<1> QED
  BY <1>1, <1>2

LEMMA FanFillType ==
  ASSUME TypeOK, NEW n \in 1 .. RingBytes, FanFill(n) PROVE TypeOK'
<1>1. n \in Nat /\ n =< Used
  BY ConsoleTxAssumption DEF FanFill
<1>2. tail' \in Slot
  BY <1>1, Ends, TailMoves DEF FanFill, Used
<1>3. owed' \in Seq(Contexts)
  <2>1. owed \in Seq(Contexts) /\ Len(owed) \in Nat
    BY DEF TypeOK
  <2>2. \A i \in (n + 1) .. Len(owed) : owed[i] \in Contexts
    BY <2>1, <1>1
  <2> QED
    BY <1>1, <2>1, <2>2 DEF FanFill
<1> QED
  BY <1>2, <1>3 DEF FanFill, TypeOK, coreVars, ttyVars

LEMMA OtherStepsType ==
  ASSUME TypeOK,
         \/ Afboot \/ (\E n \in 0 .. FifoBytes : TtyWrite(n)) \/ PollTimer \/ Drain
         \/ (\E n \in 1 .. MessageBytes : PrintkBegin(n)) \/ Printk \/ ProbeAnswered \/ Report
  PROVE  TypeOK'
<1> USE ConsoleTxAssumption
<1>0. /\ {"afboot", "write", "softirq", "printk", "report"} \subseteq Contexts
      /\ AfbootPuts \in Nat /\ ReportPuts \in Nat /\ MessageBytes \in Nat
  BY DEF Contexts
<1>1. CASE AfbootPut
  BY <1>1, <1>0 DEF AfbootPut, TypeOK, coreVars, ringVars, ttyVars
<1>2. CASE AfbootEnableLink
  BY <1>2, <1>0 DEF AfbootEnableLink, TypeOK, ringVars, ttyVars
<1>3. CASE AfbootWaited
  BY <1>3, <1>0 DEF AfbootWaited, TypeOK, ringVars, ttyVars
<1>4. CASE AfbootHandOver
  BY <1>4, <1>0 DEF AfbootHandOver, TypeOK, ringVars, ttyVars
<1>5. CASE \E n \in 0 .. FifoBytes : TtyWrite(n)
  <2> PICK n \in 0 .. FifoBytes : TtyWrite(n)
    BY <1>5
  <2>1. fifo' \in 0 .. FifoBytes /\ marked' \in 0 .. fifo'
    <3>1. n \in Nat /\ fifo \in Nat /\ marked \in 0 .. fifo /\ fifo + n =< FifoBytes /\ fifo' = fifo + n
      BY DEF TtyWrite, TypeOK
    <3>2. marked' = 0 \/ marked' = fifo + n \/ marked' = marked
      BY DEF TtyWrite
    <3> QED
      BY <3>1, <3>2
  <2> QED
    BY <2>1, <1>0 DEF TtyWrite, TypeOK, coreVars, ringVars
<1>6. CASE PollTimer
  BY <1>6, <1>0 DEF PollTimer, TypeOK, coreVars, ringVars, ttyVars
<1>7. CASE Drain
  <2> PICK c \in {"write", "softirq"} : DrainByte(c) \/ DrainEnd(c)
    BY <1>7 DEF Drain
  <2>1. CASE DrainByte(c)
    <3>1. fifo' \in 0 .. FifoBytes /\ marked' \in 0 .. fifo'
      BY <2>1 DEF DrainByte, TypeOK
    <3> QED
      BY <2>1, <3>1, <1>0 DEF DrainByte, TypeOK, coreVars, ringVars
  <2>2. CASE DrainEnd(c)
    BY <2>2, <1>0 DEF DrainEnd, TypeOK, coreVars, ringVars, ttyVars
  <2> QED
    BY <2>1, <2>2
<1>8. CASE \E n \in 1 .. MessageBytes : PrintkBegin(n)
  <2> PICK n \in 1 .. MessageBytes : PrintkBegin(n)
    BY <1>8
  <2>1. messages' \in 0 .. MaxMessages /\ n \in Nat
    BY DEF PrintkBegin, TypeOK
  <2> QED
    BY <2>1, <1>0 DEF PrintkBegin, TypeOK, coreVars, ringVars, ttyVars
<1>9. CASE PrintkByte
  BY <1>9, <1>0 DEF PrintkByte, TypeOK, coreVars, ringVars, ttyVars
<1>10. CASE PrintkDrop
  BY <1>10, <1>0 DEF PrintkDrop, TypeOK, coreVars, ringVars, ttyVars
<1>11. CASE PrintkEnd
  BY <1>11, <1>0 DEF PrintkEnd, TypeOK, coreVars, ringVars, ttyVars
<1>12. CASE ProbeAnswered
  <2>1. left' \in [Contexts -> Nat]
    BY <1>12, <1>0 DEF ProbeAnswered, TypeOK
  <2> QED
    BY <1>12, <1>0, <2>1 DEF ProbeAnswered, TypeOK, ringVars, ttyVars
<1>13. CASE ReportByte
  <2>1. pc' \in [Contexts -> {"idle", "ready", "enter", "publish"}]
    BY <1>13, <1>0 DEF ReportByte, TypeOK
  <2>2. left' \in [Contexts -> Nat]
    <3>1. left["report"] \in Nat /\ left["report"] > 0 /\ "report" \in Contexts
      BY <1>13, <1>0 DEF ReportByte, TypeOK
    <3>2. left["report"] - 1 \in Nat
      BY <3>1
    <3>3. left' = [left EXCEPT !["report"] = left["report"] - 1]
      BY <1>13 DEF ReportByte
    <3> QED
      BY <3>2, <3>3 DEF TypeOK
  <2> QED
    BY <1>13, <2>1, <2>2 DEF ReportByte, TypeOK, coreVars, ringVars, ttyVars
<1>14. CASE PublishCapacity
  BY <1>14, <1>0 DEF PublishCapacity, TypeOK, ringVars, ttyVars
<1> QED
  BY <1>1, <1>2, <1>3, <1>4, <1>5, <1>6, <1>7, <1>8, <1>9, <1>10, <1>11, <1>12, <1>13, <1>14
  DEF Afboot, Printk, Report

LEMMA NextType == TypeOK /\ [Next]_vars => TypeOK'
<1> SUFFICES ASSUME TypeOK, [Next]_vars PROVE TypeOK'
  OBVIOUS
<1>1. CASE Put
  BY <1>1, PutStepType DEF Put
<1>2. CASE \E n \in 1 .. RingBytes : FanFill(n)
  BY <1>2, FanFillType
<1>3. CASE UNCHANGED vars
  BY <1>3 DEF vars, coreVars, ringVars, ttyVars, TypeOK
<1> QED
  BY <1>1, <1>2, <1>3, OtherStepsType DEF Next

(***************************************************************************)
(* Every variable keeps its type, the indices in particular, whatever      *)
(* happens to the order of the producers.                                  *)
(***************************************************************************)
THEOREM TypeCorrect == Spec => []TypeOK
<1> QED
  BY InitType, NextType, PTL DEF Spec

-----------------------------------------------------------------------------
(* One producer *)

(***************************************************************************)
(* The order of the boot, which is all that keeps core 1 and core 0 apart: *)
(* the report is made between the start of afboot's wait and the capacity  *)
(* that ends it.  On core 0, whoever is at work is the one that runs.      *)
(***************************************************************************)
Order ==
  /\ (probed => linkEnabled) /\ (linkEnabled => phase # "banner")
  /\ (capacity => probed) /\ (phase \in {"summary", "linux"} => capacity)
  /\ pc["report"] # "idle" => probed /\ ~capacity
  /\ phase = "wait" => pc["afboot"] = "ready"
  /\ (phase = "linux" => running # "afboot") /\ (phase # "linux" => running = "afboot")
  /\ running # "report" /\ preempted = "none"
  /\ \A c \in Contexts \ {"report"} : pc[c] # "idle" => running = c

LEMMA InitOrder == Init => Order
BY DEF Init, Order, Contexts

Busy(c) == pc[c] \in {"enter", "publish"}

LEMMA OneProducer ==
  ASSUME TypeOK, Order, NEW c \in Contexts, NEW d \in Contexts, Busy(c), Busy(d)
  PROVE  c = d
<1>1. Busy("report") => running = "afboot" /\ pc["afboot"] = "ready"
  BY DEF Order, Busy, TypeOK
<1>2. CASE c = "report" \/ d = "report"
  BY <1>1, <1>2 DEF Order, Busy
<1>3. CASE c # "report" /\ d # "report"
  BY <1>3 DEF Order, Busy
<1> QED
  BY <1>2, <1>3

LEMMA NextOrder ==
  ASSUME Timely, TypeOK, Order, [Next]_vars PROVE Order'
<1> USE DEF Order, TypeOK, Contexts
<1>1. CASE Put
  <2> PICK c \in Contexts : Enter(c) \/ Publish(c)
    BY <1>1 DEF Put
  <2>1. pc[c] # "idle" /\ \E s : s # "idle" /\ pc' = [pc EXCEPT ![c] = s]
    BY DEF Enter, Publish
  <2>2. UNCHANGED <<phase, linkEnabled, capacity, probed, running, preempted>>
    BY DEF Enter, Publish, coreVars
  <2>3. pc["afboot"] = "ready" => pc'["afboot"] = "ready"
    BY DEF Enter, Publish
  <2> QED
    BY <2>1, <2>2, <2>3
<1>2. CASE AfbootPut
  BY <1>2 DEF AfbootPut, coreVars
<1>3. CASE AfbootEnableLink
  BY <1>3 DEF AfbootEnableLink
<1>4. CASE AfbootWaited
  BY <1>4 DEF AfbootWaited, Timely
<1>5. CASE AfbootHandOver
  BY <1>5 DEF AfbootHandOver
<1>6. CASE \E n \in 0 .. FifoBytes : TtyWrite(n)
  BY <1>6 DEF TtyWrite, LinuxIdle, coreVars
<1>7. CASE PollTimer
  BY <1>7 DEF PollTimer, LinuxIdle, coreVars
<1>8. CASE Drain
  BY <1>8 DEF Drain, DrainByte, DrainEnd, coreVars
<1>9. CASE \E n \in 1 .. MessageBytes : PrintkBegin(n)
  BY <1>9 DEF PrintkBegin, LinuxIdle, Timely, coreVars
<1>10. CASE Printk
  BY <1>10 DEF Printk, PrintkByte, PrintkDrop, PrintkEnd, coreVars
<1>11. CASE \E n \in 1 .. RingBytes : FanFill(n)
  BY <1>11 DEF FanFill, coreVars
<1>12. CASE ProbeAnswered
  BY <1>12 DEF ProbeAnswered
<1>13. CASE Report
  BY <1>13 DEF Report, ReportByte, PublishCapacity, coreVars
<1>14. CASE UNCHANGED vars
  BY <1>14 DEF vars, coreVars
<1> QED
  BY <1>1, <1>2, <1>3, <1>4, <1>5, <1>6, <1>7, <1>8, <1>9, <1>10, <1>11, <1>12, <1>13, <1>14
  DEF Next, Afboot

(***************************************************************************)
(* What the steps that are not part of a put have in common: they leave    *)
(* the put's variables alone, and let a context enter one only if it looks *)
(* at the room itself or has just done so.                                 *)
(***************************************************************************)
LEMMA OtherSteps ==
  ASSUME TypeOK, [Next]_vars, ~Put, ~\E n \in 1 .. RingBytes : FanFill(n)
  PROVE  /\ UNCHANGED <<ringVars, putHead, putLen>>
         /\ \A d \in Contexts :
              /\ pc'[d] = "publish" => pc[d] = "publish"
              /\ pc'[d] = "enter" =>
                   pc[d] = "enter" \/ d \in {"afboot", "report"} \/ Space > 0
<1> USE DEF TypeOK, ringVars
<1>1. CASE Afboot
  BY <1>1 DEF Afboot, AfbootPut, AfbootEnableLink, AfbootWaited, AfbootHandOver
<1>2. CASE \E n \in 0 .. FifoBytes : TtyWrite(n)
  BY <1>2 DEF TtyWrite
<1>3. CASE PollTimer
  BY <1>3 DEF PollTimer
<1>4. CASE Drain
  BY <1>4 DEF Drain, DrainByte, DrainEnd
<1>5. CASE \E n \in 1 .. MessageBytes : PrintkBegin(n)
  BY <1>5 DEF PrintkBegin
<1>6. CASE Printk
  BY <1>6 DEF Printk, PrintkByte, PrintkDrop, PrintkEnd
<1>7. CASE ProbeAnswered
  BY <1>7 DEF ProbeAnswered
<1>8. CASE Report
  BY <1>8 DEF Report, ReportByte, PublishCapacity
<1>9. CASE UNCHANGED vars
  BY <1>9 DEF vars
<1> QED
  BY <1>1, <1>2, <1>3, <1>4, <1>5, <1>6, <1>7, <1>8, <1>9 DEF Next

LEMMA NextHeadOwned ==
  ASSUME TypeOK, Order, HeadOwned, [Next]_vars PROVE HeadOwned'
<1> SUFFICES ASSUME NEW d \in Contexts, pc'[d] = "publish" PROVE head' = putHead'[d]
  BY DEF HeadOwned
<1>1. CASE Put
  <2> PICK c \in Contexts : Enter(c) \/ Publish(c)
    BY <1>1 DEF Put
  <2>1. CASE Enter(c)
    BY <2>1 DEF Enter, HeadOwned, TypeOK, ringVars
  <2>2. CASE Publish(c)
    <3>1. d # c /\ pc[d] = "publish" /\ pc[c] = "publish"
      BY <2>2 DEF Publish, TypeOK
    <3> QED
      BY <3>1, OneProducer DEF Busy
  <2> QED
    BY <2>1, <2>2
<1>2. CASE \E n \in 1 .. RingBytes : FanFill(n)
  BY <1>2 DEF FanFill, HeadOwned
<1>3. CASE ~Put /\ ~\E n \in 1 .. RingBytes : FanFill(n)
  BY <1>3, OtherSteps DEF HeadOwned, ringVars
<1> QED
  BY <1>1, <1>2, <1>3

(***************************************************************************)
(* The producer owns head, which frank_ring.h asks for and four contexts   *)
(* on core 0 and one on core 1 must keep: if the master answers before     *)
(* afboot stops waiting, and no interrupt handler prints.                  *)
(***************************************************************************)
THEOREM SingleProducer == ASSUME Timely PROVE Spec => []HeadOwned
<1>1. Init => TypeOK /\ Order /\ HeadOwned
  BY InitType, InitOrder DEF Init, HeadOwned
<1>2. TypeOK /\ Order /\ HeadOwned /\ [Next]_vars => (TypeOK /\ Order /\ HeadOwned)'
  BY NextType, NextOrder, NextHeadOwned
<1> QED
  BY <1>1, <1>2, PTL DEF Spec

-----------------------------------------------------------------------------
(* Nothing is lost *)

(***************************************************************************)
(* Whoever is about to store a byte has room for it: the room that was     *)
(* seen is still there, because nobody else puts and core 1 only takes.    *)
(***************************************************************************)
Room ==
  \A c \in Contexts :
    /\ pc[c] = "enter" /\ c \notin {"afboot", "report"} => Space > 0
    /\ pc[c] = "publish" /\ putLen[c] = 1 => Space > 0

LEMMA RoomIsLeft == ASSUME TypeOK, Space > 0 PROVE Used + 1 =< RingBytes - 1
BY UsedType, ConsoleTxAssumption DEF Space, Slot

\* core 1 takes n bytes of those in use.
LEMMA FanFillUsed ==
  ASSUME TypeOK, NEW n \in 1 .. RingBytes, FanFill(n)
  PROVE  n \in Nat /\ n =< Used /\ Used' = Used - n
<1>1. n \in Nat /\ n =< Used
  BY ConsoleTxAssumption DEF FanFill
<1>2. Wrap(head - Wrap(tail + n)) = Used - n
  BY <1>1, Ends, TailMoves DEF Used
<1> QED
  BY <1>1, <1>2 DEF FanFill, Used

LEMMA NextRoom ==
  ASSUME TypeOK, Order, Room, [Next]_vars PROVE Room'
<1>1. CASE Put
  <2> PICK c \in Contexts : Enter(c) \/ Publish(c)
    BY <1>1 DEF Put
  <2>1. CASE Enter(c)
    <3>1. Space' = Space
      BY <2>1 DEF Enter, Space, Used, ringVars
    <3>2. putLen'[c] = 1 => Space > 0
      <4>1. Space \in Nat
        BY UsedType DEF Slot
      <4>2. putLen'[c] = IF c \in {"afboot", "report"} /\ Space = 0 THEN 0 ELSE 1
        BY <2>1 DEF Enter, TypeOK
      <4>3. pc[c] = "enter"
        BY <2>1 DEF Enter
      <4> QED
        BY <4>1, <4>2, <4>3 DEF Room
    <3>3. \A d \in Contexts : d # c => pc'[d] = pc[d] /\ putLen'[d] = putLen[d]
      BY <2>1 DEF Enter, TypeOK
    <3>4. pc'[c] = "publish"
      BY <2>1 DEF Enter, TypeOK
    <3> QED
      BY <3>1, <3>2, <3>3, <3>4 DEF Room
  <2>2. CASE Publish(c)
    <3>1. \A d \in Contexts : d # c => pc'[d] = pc[d]
      BY <2>2 DEF Publish, TypeOK
    <3>2. pc'[c] = "ready" /\ Busy(c)
      BY <2>2 DEF Publish, TypeOK, Busy
    <3>3. \A d \in Contexts : d # c => ~Busy(d)
      BY <3>2, OneProducer
    <3> QED
      BY <3>1, <3>2, <3>3 DEF Room, Busy
  <2> QED
    BY <2>1, <2>2
<1>2. CASE \E n \in 1 .. RingBytes : FanFill(n)
  <2> PICK n \in 1 .. RingBytes : FanFill(n)
    BY <1>2
  <2>1. Used \in Nat /\ n \in Nat /\ Used' = Used - n
    BY FanFillUsed, UsedType DEF Slot
  <2>2. Space > 0 => Space' > 0
    BY <2>1, ConsoleTxAssumption DEF Space
  <2>3. UNCHANGED <<pc, putLen>>
    BY DEF FanFill
  <2> QED
    BY <2>2, <2>3 DEF Room
<1>3. CASE ~Put /\ ~\E n \in 1 .. RingBytes : FanFill(n)
  <2>1. UNCHANGED <<head, tail, putLen>>
    BY <1>3, OtherSteps DEF ringVars
  <2>2. Space' = Space
    BY <2>1 DEF Space, Used
  <2> QED
    BY <1>3, <2>1, <2>2, OtherSteps DEF Room
<1> QED
  BY <1>1, <1>2, <1>3

\* A put that has room appends a byte to what the ring holds.
LEMMA BytePut ==
  ASSUME TypeOK, HeadOwned, Room, NothingLost, NEW c \in Contexts, Publish(c), putLen[c] = 1
  PROVE  NothingLost'
<1>1. putHead[c] = head /\ Used + 1 =< RingBytes - 1 /\ Used \in Slot
  BY RoomIsLeft, UsedType DEF HeadOwned, Room, Publish
<1>2. head' = Wrap(head + 1) /\ data' = [data EXCEPT ![head] = c] /\ tail' = tail
  BY <1>1 DEF Publish
<1>3. Used' = Used + 1
  BY <1>1, <1>2, Ends, HeadMoves DEF Used
<1>4. owed \in Seq(Contexts) /\ Len(owed) = Used /\ owed' = Append(owed, c)
  <2>1. Len(owed) # RingBytes
    BY <1>1, ConsoleTxAssumption DEF NothingLost, Slot
  <2> QED
    BY <2>1 DEF Publish, Owe, NothingLost, TypeOK
<1>5. Wrap(tail + Used) = head
  BY Ends, HeadIsAfterUsed DEF Used
<1>6. ASSUME NEW k \in 1 .. Used PROVE data'[Wrap(tail + k - 1)] = owed'[k]
  <2> DEFINE j == k - 1
  <2>1. j \in Slot /\ Used \in Slot /\ j # Used
    BY <1>1, ConsoleTxAssumption DEF Slot
  <2> HIDE DEF j
  <2>2. Wrap(tail + j) # Wrap(tail + Used)
    BY <2>1, Ends, StepsDiffer
  <2>3. Wrap(tail + j) \in Slot
    BY <2>1, Ends, Forward
  <2>4. tail + k - 1 = tail + j
    BY DEF j, TypeOK, Slot
  <2>5. data'[Wrap(tail + j)] = data[Wrap(tail + j)]
    BY <1>2, <1>5, <2>2, <2>3 DEF TypeOK
  <2>6. data[Wrap(tail + j)] = owed[k]
    BY <2>4 DEF NothingLost
  <2>7. owed'[k] = owed[k]
    BY <1>4
  <2> QED
    BY <2>4, <2>5, <2>6, <2>7
<1>7. data'[Wrap(tail + (Used + 1) - 1)] = owed'[Used + 1]
  <2>1. tail + (Used + 1) - 1 = tail + Used
    BY <1>1 DEF TypeOK, Slot
  <2>2. data'[head] = c
    BY <1>2 DEF TypeOK
  <2>3. owed'[Used + 1] = c
    BY <1>4
  <2> QED
    BY <1>5, <2>1, <2>2, <2>3
<1>8. Len(owed') = Used + 1
  BY <1>4
<1>9. \A k \in 1 .. Used + 1 : k \in 1 .. Used \/ k = Used + 1
  BY <1>1 DEF Slot
<1> QED
  BY <1>2, <1>3, <1>6, <1>7, <1>8, <1>9 DEF NothingLost

LEMMA NothingPut ==
  ASSUME TypeOK, HeadOwned, NothingLost, NEW c \in Contexts, Publish(c), putLen[c] = 0
  PROVE  NothingLost'
<1>1. head' = Wrap(head + 0) /\ UNCHANGED <<tail, data, owed>>
  BY DEF Publish, Owe, HeadOwned
<1>2. head' = head
  <2>1. head + 0 = head /\ Wrap(head) = head
    BY Ends, WrapBelow DEF Slot
  <2> QED
    BY <1>1, <2>1
<1> QED
  BY <1>1, <1>2 DEF NothingLost, Used

LEMMA BytesTaken ==
  ASSUME TypeOK, NothingLost, NEW n \in 1 .. RingBytes, FanFill(n)
  PROVE  NothingLost'
<1>1. n \in Nat /\ n =< Used /\ Used' = Used - n /\ Used \in 0 .. RingBytes - 1
  BY FanFillUsed, UsedType DEF Slot
<1>2. owed \in Seq(Contexts) /\ Len(owed) = Used /\ owed' = SubSeq(owed, n + 1, Len(owed))
  BY DEF NothingLost, TypeOK, FanFill
<1>3. Len(owed') = Used - n /\ \A k \in 1 .. Used - n : owed'[k] = owed[n + k]
  BY <1>1, <1>2
<1>4. ASSUME NEW k \in 1 .. Used - n PROVE data'[Wrap(tail' + k - 1)] = owed'[k]
  <2> DEFINE j == k - 1
  <2>1. j \in Nat /\ n \in Nat /\ n + j =< RingBytes - 1
    BY <1>1, ConsoleTxAssumption
  <2> HIDE DEF j
  <2>2. Wrap(Wrap(tail + n) + j) = Wrap(tail + (n + j))
    BY <2>1, Ends, StepsAdd
  <2>3. tail' = Wrap(tail + n) /\ data' = data /\ tail' \in Int
    <3>1. Wrap(tail + n) \in Slot
      BY <1>1, Ends, TailMoves DEF Used
    <3> QED
      BY <3>1 DEF FanFill, Slot
  <2>4. tail' + k - 1 = tail' + j /\ tail + (n + k) - 1 = tail + (n + j)
    BY <1>1, <2>3 DEF j, TypeOK, Slot
  <2>5. data[Wrap(tail + (n + k) - 1)] = owed[n + k]
    BY <1>1 DEF NothingLost
  <2> QED
    BY <1>3, <2>2, <2>3, <2>4, <2>5
<1> QED
  BY <1>1, <1>3, <1>4 DEF NothingLost

LEMMA NextNothingLost ==
  ASSUME TypeOK, HeadOwned, Room, NothingLost, [Next]_vars PROVE NothingLost'
<1>1. CASE Put
  <2> PICK c \in Contexts : Enter(c) \/ Publish(c)
    BY <1>1 DEF Put
  <2>1. CASE Enter(c)
    BY <2>1 DEF Enter, NothingLost, Used, ringVars
  <2>2. CASE Publish(c)
    <3>1. putLen[c] = 0 \/ putLen[c] = 1
      BY DEF TypeOK
    <3> QED
      BY <2>2, <3>1, BytePut, NothingPut
  <2> QED
    BY <2>1, <2>2
<1>2. CASE \E n \in 1 .. RingBytes : FanFill(n)
  BY <1>2, BytesTaken
<1>3. CASE ~Put /\ ~\E n \in 1 .. RingBytes : FanFill(n)
  BY <1>3, OtherSteps DEF NothingLost, Used, ringVars
<1> QED
  BY <1>1, <1>2, <1>3

LEMMA InitNothingLost == Init => NothingLost /\ Room
<1> SUFFICES ASSUME Init PROVE NothingLost /\ Room
  OBVIOUS
<1>1. Used = 0
  BY ConsoleTxAssumption, WrapBelow DEF Init, Used
<1>2. NothingLost
  BY <1>1 DEF Init, NothingLost
<1>3. Room
  BY DEF Init, Room
<1> QED
  BY <1>2, <1>3

(***************************************************************************)
(* The ring holds what was put and not yet taken, in order, under the same *)
(* two assumptions: nobody overwrites or forgets another's output, though  *)
(* the kernel's ring_put does not look at the room.                        *)
(***************************************************************************)
THEOREM OutputIsKept == ASSUME Timely PROVE Spec => []NothingLost
<1> DEFINE Inv == TypeOK /\ Order /\ HeadOwned /\ Room /\ NothingLost
<1>1. Init => Inv
  BY InitType, InitOrder, InitNothingLost DEF Init, HeadOwned
<1>2. Inv /\ [Next]_vars => Inv'
  BY NextType, NextOrder, NextHeadOwned, NextRoom, NextNothingLost
<1>3. Inv => NothingLost
  OBVIOUS
<1> QED
  BY <1>1, <1>2, <1>3, PTL DEF Spec

=============================================================================
