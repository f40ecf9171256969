----------------------------- MODULE FanOut_proofs -----------------------------
(***************************************************************************)
(* Proofs about FanOut, for every size of ring, buffer and FIFO: each      *)
(* consumer is given what was printed for it, in order, and the first to   *)
(* appear is given everything.                                             *)
(***************************************************************************)
EXTENDS FanOut, TLAPS

Index == 0 .. FanSize - 1

\* q is what lies in a buffer f between the tail t and the head h.
Matches(q, t, h, f) ==
  /\ Len(q) = Wrap(h - t)
  /\ \A k \in 1 .. Len(q) : q[k] = f[Wrap(t + (k - 1))]

-----------------------------------------------------------------------------
(* The buffer *)

\* Wrap on the only arguments the code gives it: an index less than one turn
\* ahead or behind.
LEMMA WrapBelow == \A i \in 0 .. FanSize - 1 : Wrap(i) = i
BY FanOutAssumption DEF Wrap

LEMMA WrapAhead == \A i \in FanSize .. 2 * FanSize - 1 : Wrap(i) = i - FanSize
BY FanOutAssumption DEF Wrap

LEMMA WrapBehind == \A i \in -FanSize .. -1 : Wrap(i) = i + FanSize
BY FanOutAssumption DEF Wrap

\* A step of less than a turn from a slot, forward and backward.
LEMMA Forward ==
  ASSUME NEW i \in Index, NEW k \in Index
  PROVE  Wrap(i + k) \in Index /\ Wrap(i + k) = IF i + k < FanSize THEN i + k ELSE i + k - FanSize
BY FanOutAssumption, WrapBelow, WrapAhead, WrapBehind DEF Index

LEMMA Between ==
  ASSUME NEW h \in Index, NEW t \in Index
  PROVE  Wrap(h - t) \in Index /\ Wrap(h - t) = IF h >= t THEN h - t ELSE h - t + FanSize
BY FanOutAssumption, WrapBelow, WrapAhead, WrapBehind DEF Index

\* The head is where the slots in use end.
LEMMA HeadIsAfterUsed ==
  ASSUME NEW h \in Index, NEW t \in Index PROVE Wrap(t + Wrap(h - t)) = h
BY FanOutAssumption, WrapBelow, WrapAhead, WrapBehind DEF Index

\* A head that moves on by n lengthens what is in use by n, if it fits.
LEMMA HeadMoves ==
  ASSUME NEW h \in Index, NEW t \in Index, NEW n \in Nat, Wrap(h - t) + n =< FanSize - 1
  PROVE  Wrap(h + n) \in Index /\ Wrap(Wrap(h + n) - t) = Wrap(h - t) + n
BY FanOutAssumption, WrapBelow, WrapAhead, WrapBehind DEF Index

\* A tail that moves on by n shortens it by n.
LEMMA TailMoves ==
  ASSUME NEW h \in Index, NEW t \in Index, NEW n \in Nat, n =< Wrap(h - t)
  PROVE  Wrap(t + n) \in Index /\ Wrap(h - Wrap(t + n)) = Wrap(h - t) - n
BY FanOutAssumption, WrapBelow, WrapAhead, WrapBehind DEF Index

\* Going on from a slot that n steps have led to.
LEMMA StepsAdd ==
  ASSUME NEW t \in Index, NEW n \in Nat, NEW k \in Nat, n + k =< FanSize - 1
  PROVE  Wrap(Wrap(t + n) + k) = Wrap(t + (n + k))
BY FanOutAssumption, WrapBelow, WrapAhead, WrapBehind DEF Index

\* Seen from the head, the slot k steps on is k steps away.
LEMMA StepsBack ==
  ASSUME NEW h \in Index, NEW k \in Index PROVE Wrap(Wrap(h + k) - h) = k
BY FanOutAssumption, WrapBelow, WrapAhead, WrapBehind DEF Index

\* A slot in use is not among the n that follow the head, if these are free.
LEMMA InUseIsNotFree ==
  ASSUME NEW h \in Index, NEW t \in Index, NEW n \in Nat, Wrap(h - t) + n =< FanSize - 1,
         NEW k \in Nat, k < Wrap(h - t)
  PROVE  ~(Wrap(Wrap(t + k) - h) < n)
BY FanOutAssumption, WrapBelow, WrapAhead, WrapBehind DEF Index

LEMMA Size == FanSize \in Nat \ {0} /\ 0 .. FanMask = Index /\ FanMask \in Nat
BY FanOutAssumption DEF FanMask, Index

LEMMA Indices ==
  ASSUME TypeOK PROVE fanHead \in Index /\ usbTail \in Index /\ linkTail \in Index
BY Size DEF TypeOK

LEMMA WrapType ==
  ASSUME NEW h \in Index, NEW t \in Index PROVE Wrap(h - t) \in Index /\ Wrap(h - t) \in Nat
<1>1. Wrap(h - t) \in Index
  BY Between
<1> QED
  BY <1>1, Size DEF Index

LEMMA ItsOwnLies ==
  ASSUME NEW q \in Seq(Byte), NEW t \in Index, NEW h \in Index, NEW f
  PROVE  Matches(q, t, h, f) <=> [k \in 1 .. Wrap(h - t) |-> f[Wrap(t + k - 1)]] = q
<1>1. Len(q) \in Nat /\ q = [k \in 1 .. Len(q) |-> q[k]] /\ DOMAIN q = 1 .. Len(q)
  OBVIOUS
<1>2. Wrap(h - t) \in Nat
  BY WrapType
<1>3. \A k \in Nat : t + k - 1 = t + (k - 1)
  BY Size DEF Index
<1>4. ASSUME Matches(q, t, h, f)
      PROVE  [k \in 1 .. Wrap(h - t) |-> f[Wrap(t + k - 1)]] = q
  <2>1. \A k \in 1 .. Len(q) : q[k] = f[Wrap(t + k - 1)]
    BY <1>1, <1>3, <1>4 DEF Matches
  <2> QED
    BY <1>1, <1>4, <2>1 DEF Matches
<1>5. ASSUME [k \in 1 .. Wrap(h - t) |-> f[Wrap(t + k - 1)]] = q
      PROVE  Matches(q, t, h, f)
  <2>1. 1 .. Len(q) = 1 .. Wrap(h - t)
    BY <1>1, <1>5
  <2>2. Len(q) = Wrap(h - t)
    BY <1>1, <1>2, <2>1
  <2>3. \A k \in 1 .. Len(q) : q[k] = f[Wrap(t + k - 1)]
    BY <1>5, <2>1
  <2> QED
    BY <1>1, <1>3, <2>2, <2>3 DEF Matches
<1> QED
  BY <1>4, <1>5

\* Bytes stored behind the head leave those in use alone, and follow them.
LEMMA FillExtends ==
  ASSUME NEW f \in [Index -> Byte], NEW h \in Index, NEW t \in Index,
         NEW q \in Seq(Byte), NEW new \in Seq(Byte),
         Wrap(h - t) + Len(new) =< FanSize - 1, Matches(q, t, h, f)
  PROVE  Matches(q \o new, t, Wrap(h + Len(new)),
                 [i \in Index |-> IF Wrap(i - h) < Len(new) THEN new[Wrap(i - h) + 1] ELSE f[i]])
<1> DEFINE n == Len(new)
           used == Wrap(h - t)
           g == [i \in Index |-> IF Wrap(i - h) < n THEN new[Wrap(i - h) + 1] ELSE f[i]]
<1>1. /\ n \in Nat /\ used \in Nat /\ used + n =< FanSize - 1 /\ Len(q) = used
      /\ FanSize \in Nat \ {0} /\ h \in 0 .. FanSize - 1 /\ t \in 0 .. FanSize - 1
  BY WrapType, Size DEF Matches, Index
<1>2. Wrap(Wrap(h + n) - t) = used + n
  BY <1>1, HeadMoves
<1>3. Len(q \o new) = used + n
  BY <1>1
<1>4. ASSUME NEW k \in 1 .. used PROVE (q \o new)[k] = g[Wrap(t + (k - 1))]
  <2> DEFINE j == k - 1
             slot == Wrap(t + j)
  <2>1. j \in Index /\ j \in Nat /\ j < used
    BY <1>1 DEF Index
  <2>2. slot \in Index
    BY <2>1, Forward
  <2>3. ~(Wrap(slot - h) < n)
    BY <1>1, <2>1, InUseIsNotFree
  <2>4. (q \o new)[k] = q[k]
    BY <1>1
  <2>5. q[k] = f[slot]
    BY <1>1 DEF Matches
  <2> QED
    BY <2>2, <2>3, <2>4, <2>5
<1>5. ASSUME NEW k \in used + 1 .. used + n PROVE (q \o new)[k] = g[Wrap(t + (k - 1))]
  <2> DEFINE j == k - used - 1
             slot == Wrap(h + j)
  <2>1. j \in Index /\ j \in Nat /\ j < n /\ k - 1 = used + j /\ used + j =< FanSize - 1
    BY <1>1 DEF Index
  <2>2. Wrap(t + (k - 1)) = slot
    <3> HIDE DEF j
    <3>1. Wrap(t + used) = h
      BY HeadIsAfterUsed
    <3>2. Wrap(Wrap(t + used) + j) = Wrap(t + (used + j))
      BY <1>1, <2>1, StepsAdd
    <3> QED
      BY <2>1, <3>1, <3>2
  <2>3. Wrap(slot - h) = j /\ slot \in Index
    <3> HIDE DEF j
    <3> QED
      BY <2>1, Forward, StepsBack
  <2>5. g[slot] = new[j + 1]
    BY <2>1, <2>3
  <2>6. (q \o new)[k] = new[j + 1]
    BY <1>1
  <2> QED
    BY <2>2, <2>5, <2>6
<1>6. \A k \in 1 .. used + n : k \in 1 .. used \/ k \in used + 1 .. used + n
  BY <1>1
<1> HIDE DEF g, n, used
<1>7. Matches(q \o new, t, Wrap(h + n), g)
  BY ONLY <1>2, <1>3, <1>4, <1>5, <1>6 DEF Matches
<1> QED
  BY <1>7 DEF g, n

\* Bytes taken at the tail leave the rest.
LEMMA TakeShortens ==
  ASSUME NEW f, NEW h \in Index, NEW t \in Index,
         NEW q \in Seq(Byte), NEW n \in Nat, n =< Wrap(h - t), Matches(q, t, h, f)
  PROVE  Wrap(t + n) \in Index /\ Matches(Drop(q, n), Wrap(t + n), h, f)
<1> DEFINE used == Wrap(h - t)
<1>1. /\ used \in 0 .. FanSize - 1 /\ used \in Nat /\ Len(q) = used
      /\ FanSize \in Nat \ {0} /\ h \in 0 .. FanSize - 1 /\ t \in 0 .. FanSize - 1
  <2>1. used \in Index /\ used \in Nat
    BY WrapType
  <2>2. Len(q) = used
    BY DEF Matches
  <2> HIDE DEF used
  <2> QED
    BY <2>1, <2>2, Size DEF Index
<1>2. Wrap(t + n) \in Index /\ Wrap(h - Wrap(t + n)) = used - n
  BY TailMoves
<1>3. Len(Drop(q, n)) = used - n /\ \A k \in 1 .. used - n : Drop(q, n)[k] = q[n + k]
  BY <1>1 DEF Drop
<1>4. ASSUME NEW k \in 1 .. used - n
      PROVE  Drop(q, n)[k] = f[Wrap(Wrap(t + n) + (k - 1))]
  <2> DEFINE j == k - 1
  <2>1. /\ j \in Nat /\ n + j =< FanSize - 1
        /\ n + k \in 1 .. Len(q) /\ n + k - 1 = n + j
    BY <1>1 DEF Index
  <2>2. Wrap(Wrap(t + n) + j) = Wrap(t + (n + j))
    <3> HIDE DEF j
    <3> QED
      BY <2>1, StepsAdd
  <2>3. q[n + k] = f[Wrap(t + (n + k - 1))]
    BY <2>1 DEF Matches
  <2> HIDE DEF j
  <2>4. Drop(q, n)[k] = f[Wrap(Wrap(t + n) + j)]
    BY <1>3, <2>1, <2>2, <2>3
  <2> QED
    BY <2>4 DEF j
<1> HIDE DEF used
<1> QED
  BY <1>2, <1>3, <1>4 DEF Matches

-----------------------------------------------------------------------------
(* One pass of core 1 *)

\* EachGetsItsOwn, with the two consumers and the buffer apart.
LEMMA OwnedIsMatched ==
  ASSUME TypeOK
  PROVE  EachGetsItsOwn <=> /\ Matches(usbOwed, usbTail, fanHead, fan)
                            /\ Matches(linkOwed, linkTail, fanHead, fan)
<1>1. usbOwed \in Seq(Byte) /\ linkOwed \in Seq(Byte)
  BY DEF TypeOK
<1>2. Matches(usbOwed, usbTail, fanHead, fan) <=> Bytes(usbTail) = usbOwed
  BY <1>1, Indices, ItsOwnLies DEF Bytes, Held
<1>3. Matches(linkOwed, linkTail, fanHead, fan) <=> Bytes(linkTail) = linkOwed
  BY <1>1, Indices, ItsOwnLies DEF Bytes, Held
<1> QED
  BY <1>2, <1>3 DEF EachGetsItsOwn

LEMMA OwnedAfter ==
  ASSUME TypeOK', Matches(usbOwed', usbTail', fanHead', fan'),
         Matches(linkOwed', linkTail', fanHead', fan')
  PROVE  EachGetsItsOwn'
<1>1. /\ usbOwed' \in Seq(Byte) /\ linkOwed' \in Seq(Byte)
      /\ fanHead' \in Index /\ usbTail' \in Index /\ linkTail' \in Index
  BY Size DEF TypeOK
<1>2. [k \in 1 .. Wrap(fanHead' - usbTail') |-> fan'[Wrap(usbTail' + k - 1)]] = usbOwed'
  BY <1>1, ItsOwnLies
<1>3. [k \in 1 .. Wrap(fanHead' - linkTail') |-> fan'[Wrap(linkTail' + k - 1)]] = linkOwed'
  BY <1>1, ItsOwnLies
<1> QED
  BY <1>2, <1>3 DEF EachGetsItsOwn, Bytes, Held

\* What fan_fill moves: no more than there is, nor than the slower has room for.
Moves == Smaller(Smaller(FanMask - HeldBack, BufSize), Len(tx))

LEMMA TailsSnapped ==
  ASSUME TypeOK
  PROVE  /\ SnappedUsbTail \in Index /\ SnappedLinkTail \in Index
         /\ Held(SnappedUsbTail) \in Index /\ Held(SnappedLinkTail) \in Index
<1>1. SnappedUsbTail \in Index /\ SnappedLinkTail \in Index
  BY Indices DEF SnappedUsbTail, SnappedLinkTail
<1> QED
  BY <1>1, Indices, WrapType DEF Held

LEMMA MovesFit ==
  ASSUME TypeOK
  PROVE  /\ Moves \in Nat /\ Moves =< Len(tx)
         /\ Held(SnappedUsbTail) + Moves =< FanSize - 1
         /\ Held(SnappedLinkTail) + Moves =< FanSize - 1
<1>1. /\ Held(SnappedUsbTail) \in 0 .. FanSize - 1
      /\ Held(SnappedLinkTail) \in 0 .. FanSize - 1
      /\ FanMask = FanSize - 1 /\ FanSize \in Nat \ {0} /\ BufSize \in Nat
      /\ Len(tx) \in Nat
  <2>1. Len(tx) \in Nat
    BY DEF TypeOK
  <2>2. BufSize \in Nat
    BY FanOutAssumption
  <2> QED
    BY <2>1, <2>2, TailsSnapped, Size DEF Index, FanMask
<1>2. /\ HeldBack \in 0 .. FanSize - 1
      /\ Held(SnappedUsbTail) =< HeldBack /\ Held(SnappedLinkTail) =< HeldBack
  BY <1>1 DEF HeldBack, Larger
<1> QED
  BY <1>1, <1>2 DEF Moves, Smaller

New == SubSeq(tx, 1, Moves)
Filled ==
  [i \in Index |-> IF Wrap(i - fanHead) < Len(New) THEN New[Wrap(i - fanHead) + 1] ELSE fan[i]]

LEMMA NewType == ASSUME TypeOK PROVE New \in Seq(Byte) /\ Len(New) = Moves
BY MovesFit DEF New, TypeOK

\* fan_fill in these terms.
LEMMA FanFillDoes ==
  ASSUME TypeOK, FanFill
  PROVE  /\ tx' = Drop(tx, Moves)
         /\ fanHead' = Wrap(fanHead + Len(New)) /\ fan' = Filled
         /\ usbTail' = SnappedUsbTail /\ linkTail' = SnappedLinkTail
         /\ usbOwed' = (IF usbUp THEN usbOwed ELSE <<>>) \o New
         /\ linkOwed' = (IF linkUp THEN linkOwed ELSE <<>>) \o New
         /\ step' = "usb" /\ UNCHANGED <<usbUp, linkUp, cdc, usbSeen, unshown>>
<1>1. New \in Seq(Byte) /\ Len(New) = Moves /\ <<>> \o New = New
  BY NewType
<1>2. /\ tx' = Drop(tx, Moves) /\ fanHead' = Wrap(fanHead + Moves)
      /\ usbOwed' = (IF usbUp THEN usbOwed \o New ELSE New)
      /\ linkOwed' = (IF linkUp THEN linkOwed \o New ELSE New)
      /\ usbTail' = SnappedUsbTail /\ linkTail' = SnappedLinkTail
      /\ step' = "usb" /\ UNCHANGED <<usbUp, linkUp, cdc, usbSeen, unshown>>
  BY DEF FanFill, Moves, New, seenVars
<1>3. fan' = [i \in Index |-> IF Wrap(i - fanHead) < Moves THEN tx[Wrap(i - fanHead) + 1] ELSE fan[i]]
  BY Size DEF FanFill, Moves
<1>4. ASSUME NEW i \in Index, Wrap(i - fanHead) < Moves
      PROVE  New[Wrap(i - fanHead) + 1] = tx[Wrap(i - fanHead) + 1]
  <2>1. Wrap(i - fanHead) \in Nat
    BY Indices, WrapType
  <2>2. Wrap(i - fanHead) + 1 \in 1 .. Moves
    BY <1>4, <2>1, MovesFit
  <2> QED
    BY <2>2, MovesFit DEF New, TypeOK
<1>5. fan' = Filled
  BY <1>1, <1>3, <1>4 DEF Filled
<1> QED
  BY <1>1, <1>2, <1>5

\* The same for a consumer that is there and for one that is not.
LEMMA FanFillServes ==
  ASSUME TypeOK, NEW tail \in Index, NEW q \in Seq(Byte), NEW there \in BOOLEAN,
         Matches(q, tail, fanHead, fan),
         Held(IF there THEN tail ELSE fanHead) + Moves =< FanSize - 1
  PROVE  Matches((IF there THEN q ELSE <<>>) \o New, IF there THEN tail ELSE fanHead,
                 Wrap(fanHead + Len(New)), Filled)
<1> DEFINE t == IF there THEN tail ELSE fanHead
           kept == IF there THEN q ELSE <<>>
<1>1. t \in Index /\ kept \in Seq(Byte) /\ fanHead \in Index /\ fan \in [Index -> Byte]
  <2>1. fanHead \in Index
    BY Indices
  <2>2. fan \in [Index -> Byte]
    BY Size DEF TypeOK
  <2> QED
    BY <2>1, <2>2
<1>2. Matches(kept, t, fanHead, fan)
  <2>1. CASE there
    BY <2>1
  <2>2. CASE ~there
    <3>1. fanHead - fanHead = 0 /\ 0 \in 0 .. FanSize - 1
      BY <1>1, Size DEF Index
    <3>2. Wrap(fanHead - fanHead) = 0
      BY <3>1, WrapBelow
    <3>3. Len(kept) = 0
      BY <2>2
    <3> QED
      BY <2>2, <3>2, <3>3 DEF Matches
  <2> QED
    BY <2>1, <2>2
<1>3. Wrap(fanHead - t) + Len(New) =< FanSize - 1
  BY NewType DEF Held
<1> HIDE DEF t, kept
<1>4. Matches(kept \o New, t, Wrap(fanHead + Len(New)), Filled)
  BY <1>1, <1>2, <1>3, NewType, FillExtends DEF Filled
<1> QED
  BY <1>4 DEF t, kept

LEMMA FillType == ASSUME TypeOK, FanFill PROVE TypeOK'
<1>1. /\ tx' = Drop(tx, Moves) /\ fanHead' = Wrap(fanHead + Len(New)) /\ fan' = Filled
      /\ usbTail' = SnappedUsbTail /\ linkTail' = SnappedLinkTail
      /\ usbOwed' = (IF usbUp THEN usbOwed ELSE <<>>) \o New
      /\ linkOwed' = (IF linkUp THEN linkOwed ELSE <<>>) \o New
      /\ step' = "usb" /\ usbUp' = usbUp /\ linkUp' = linkUp /\ cdc' = cdc
      /\ usbSeen' = usbSeen /\ unshown' = unshown
  BY FanFillDoes
<1>2. tx' \in Seq(Byte) /\ Len(tx') =< TxCapacity
  <2>1. tx \in Seq(Byte) /\ Len(tx) =< TxCapacity /\ Moves \in Nat /\ Moves =< Len(tx)
        /\ TxCapacity \in Nat
    BY MovesFit, FanOutAssumption DEF TypeOK
  <2> QED
    BY <1>1, <2>1 DEF Drop
<1>3. fan' \in [Index -> Byte]
  <2>1. ASSUME NEW i \in Index, Wrap(i - fanHead) < Len(New)
        PROVE  New[Wrap(i - fanHead) + 1] \in Byte
    <3>1. Wrap(i - fanHead) \in Nat
      BY Indices, WrapType
    <3> QED
      BY <2>1, <3>1, NewType
  <2>2. fan \in [Index -> Byte]
    BY Size DEF TypeOK
  <2> QED
    BY <1>1, <2>1, <2>2 DEF Filled
<1>4. fanHead' \in Index
  <2>1. Len(New) \in Index
    <3>1. Held(SnappedUsbTail) \in Nat
      BY TailsSnapped, Size DEF Index
    <3> QED
      BY <3>1, NewType, MovesFit, Size DEF Index
  <2> QED
    BY <1>1, <2>1, Indices, Forward
<1>5. usbTail' \in Index /\ linkTail' \in Index
  BY <1>1, TailsSnapped
<1>6. usbOwed' \in Seq(Byte) /\ linkOwed' \in Seq(Byte)
  <2>1. usbOwed \in Seq(Byte) /\ linkOwed \in Seq(Byte) /\ New \in Seq(Byte)
    BY NewType DEF TypeOK
  <2> QED
    BY <1>1, <2>1
<1>7. /\ usbUp \in BOOLEAN /\ linkUp \in BOOLEAN /\ cdc \in 0 .. CdcSize
      /\ usbSeen \in BOOLEAN /\ unshown \in Seq(Byte)
  BY DEF TypeOK
<1> QED
  BY <1>1, <1>2, <1>3, <1>4, <1>5, <1>6, <1>7, Size DEF TypeOK

LEMMA FillOwned == ASSUME TypeOK, EachGetsItsOwn, FanFill PROVE EachGetsItsOwn'
<1>1. /\ Matches(usbOwed, usbTail, fanHead, fan) /\ Matches(linkOwed, linkTail, fanHead, fan)
      /\ usbTail \in Index /\ linkTail \in Index
      /\ usbOwed \in Seq(Byte) /\ linkOwed \in Seq(Byte) /\ usbUp \in BOOLEAN /\ linkUp \in BOOLEAN
  BY OwnedIsMatched, Indices DEF TypeOK
<1>2. Matches(usbOwed', usbTail', fanHead', fan')
  <2>1. Matches((IF usbUp THEN usbOwed ELSE <<>>) \o New, IF usbUp THEN usbTail ELSE fanHead,
                Wrap(fanHead + Len(New)), Filled)
    BY <1>1, MovesFit, FanFillServes DEF SnappedUsbTail
  <2> QED
    BY <2>1, FanFillDoes DEF SnappedUsbTail
<1>3. Matches(linkOwed', linkTail', fanHead', fan')
  <2>1. Matches((IF linkUp THEN linkOwed ELSE <<>>) \o New, IF linkUp THEN linkTail ELSE fanHead,
                Wrap(fanHead + Len(New)), Filled)
    BY <1>1, MovesFit, FanFillServes DEF SnappedLinkTail
  <2> QED
    BY <2>1, FanFillDoes DEF SnappedLinkTail
<1> QED
  BY <1>2, <1>3, FillType, OwnedAfter

\* The history keeps its type.
LEMMA DropType == ASSUME NEW q \in Seq(Byte), NEW n \in Nat PROVE Drop(q, n) \in Seq(Byte)
BY DEF Drop

LEMMA SeenType ==
  ASSUME TypeOK, [Next]_vars PROVE usbSeen' \in BOOLEAN /\ unshown' \in Seq(Byte)
<1>1. unshown \in Seq(Byte) /\ <<>> \in Seq(Byte) /\ usbSeen \in BOOLEAN
  BY DEF TypeOK
<1>2. CASE \E b \in Byte : LinuxPuts(b)
  <2> PICK b \in Byte : LinuxPuts(b)
    BY <1>2
  <2>1. Append(unshown, b) \in Seq(Byte)
    BY <1>1
  <2> QED
    BY <1>1, <2>1 DEF LinuxPuts, Unshown
<1>3. CASE UsbOut
  <2> DEFINE n == IF usbUp THEN Smaller(Smaller(CdcSize - cdc, BufSize), Held(usbTail)) ELSE 0
  <2>1. Held(usbTail) \in Nat
    BY Indices, WrapType DEF Held
  <2>2. n \in Nat
    BY <2>1, FanOutAssumption DEF Smaller, TypeOK
  <2>3. usbSeen' = usbSeen /\ Unshown(Drop(unshown, n))
    BY <1>3 DEF UsbOut
  <2> HIDE DEF n
  <2> QED
    BY <1>1, <2>2, <2>3, DropType DEF Unshown
<1>4. CASE LinkTake
  <2>1. Held(linkTail) \in Nat
    BY Indices, WrapType DEF Held
  <2>2. Smaller(Held(linkTail), LinkMax) \in Nat
    BY <2>1, FanOutAssumption DEF Smaller
  <2> QED
    BY <1>1, <1>4, <2>2, DropType DEF LinkTake, Unshown
<1>5. CASE UsbChanges \/ LinkProbe
  BY <1>1, <1>5 DEF UsbChanges, LinkProbe, Unshown
<1>6. CASE HostReads \/ FillNothing \/ FanFill \/ UNCHANGED vars
  BY <1>1, <1>6 DEF HostReads, FillNothing, FanFill, seenVars, vars
<1> QED
  BY <1>2, <1>3, <1>4, <1>5, <1>6 DEF Next, Core1

\* One consumer takes n bytes.
LEMMA UsbTakes ==
  ASSUME TypeOK, EachGetsItsOwn, UsbOut PROVE TypeOK' /\ EachGetsItsOwn'
<1> DEFINE n == IF usbUp THEN Smaller(Smaller(CdcSize - cdc, BufSize), Held(usbTail)) ELSE 0
<1>1. /\ usbTail' = Wrap(usbTail + n) /\ usbOwed' = Drop(usbOwed, n) /\ cdc' = cdc + n
      /\ step' = "link"
      /\ UNCHANGED <<tx, fan, fanHead, linkTail, usbUp, linkUp, linkOwed>>
  BY DEF UsbOut
<1>2. Held(usbTail) \in Nat
  BY Indices, WrapType DEF Held
<1>3. n \in Nat /\ n =< Held(usbTail) /\ cdc + n \in 0 .. CdcSize
  <2>1. cdc \in 0 .. CdcSize /\ CdcSize \in Nat /\ BufSize \in Nat
    BY FanOutAssumption DEF TypeOK
  <2> QED
    BY ONLY <1>2, <2>1 DEF n, Smaller
<1> HIDE DEF n
<1>4. /\ Matches(usbOwed, usbTail, fanHead, fan) /\ Matches(linkOwed, linkTail, fanHead, fan)
      /\ usbTail \in Index /\ fanHead \in Index
      /\ usbOwed \in Seq(Byte) /\ Len(usbOwed) \in Nat
  BY OwnedIsMatched, Indices DEF TypeOK
<1>5. usbTail' \in Index /\ Matches(usbOwed', usbTail', fanHead, fan)
  BY <1>1, <1>3, <1>4, TakeShortens DEF Held
<1>6. usbOwed' \in Seq(Byte)
  BY <1>1, <1>3, <1>4 DEF Drop, Matches, Held
<1>7. TypeOK'
  <2>1. usbSeen' \in BOOLEAN /\ unshown' \in Seq(Byte)
    BY SeenType DEF Next, Core1
  <2> QED
    BY <1>1, <1>3, <1>5, <1>6, <2>1, Size DEF TypeOK
<1>8. EachGetsItsOwn'
  BY <1>1, <1>4, <1>5, <1>7, OwnedAfter
<1> QED
  BY <1>7, <1>8

LEMMA LinkTakes ==
  ASSUME TypeOK, EachGetsItsOwn, LinkTake PROVE TypeOK' /\ EachGetsItsOwn'
<1> DEFINE n == Smaller(Held(linkTail), LinkMax)
<1>1. /\ linkTail' = Wrap(linkTail + n) /\ linkOwed' = Drop(linkOwed, n) /\ step' = "fill"
      /\ UNCHANGED <<tx, fan, fanHead, usbTail, usbUp, linkUp, cdc, usbOwed>>
  BY DEF LinkTake
<1>2. Held(linkTail) \in Nat
  BY Indices, WrapType DEF Held
<1>3. n \in Nat /\ n =< Held(linkTail)
  BY <1>2, FanOutAssumption DEF Smaller
<1> HIDE DEF n
<1>4. /\ Matches(usbOwed, usbTail, fanHead, fan) /\ Matches(linkOwed, linkTail, fanHead, fan)
      /\ linkTail \in Index /\ fanHead \in Index
      /\ linkOwed \in Seq(Byte) /\ Len(linkOwed) \in Nat
  BY OwnedIsMatched, Indices DEF TypeOK
<1>5. linkTail' \in Index /\ Matches(linkOwed', linkTail', fanHead, fan)
  BY <1>1, <1>3, <1>4, TakeShortens DEF Held
<1>6. linkOwed' \in Seq(Byte)
  BY <1>1, <1>3, <1>4 DEF Drop, Matches, Held
<1>7. TypeOK'
  <2>1. usbSeen' \in BOOLEAN /\ unshown' \in Seq(Byte)
    BY SeenType DEF Next, Core1
  <2> QED
    BY <1>1, <1>5, <1>6, <2>1, Size DEF TypeOK
<1>8. EachGetsItsOwn'
  BY <1>1, <1>4, <1>5, <1>7, OwnedAfter
<1> QED
  BY <1>7, <1>8

\* The other steps leave the buffer and what is owed alone.
LEMMA OthersKeep ==
  ASSUME TypeOK, EachGetsItsOwn, [Next]_vars, ~FanFill, ~UsbOut, ~LinkTake
  PROVE  TypeOK' /\ EachGetsItsOwn'
<1>1. UNCHANGED <<fan, fanHead, usbTail, linkTail, usbOwed, linkOwed>>
  BY DEF Next, Core1, LinuxPuts, UsbChanges, HostReads, FillNothing, LinkProbe, vars,
         fanVars, owedVars
<1>2. tx' \in Seq(Byte) /\ Len(tx') =< TxCapacity
  <2>1. CASE \E b \in Byte : LinuxPuts(b)
    <3> PICK b \in Byte : LinuxPuts(b)
      BY <2>1
    <3> QED
      BY FanOutAssumption DEF LinuxPuts, TypeOK
  <2>2. CASE ~\E b \in Byte : LinuxPuts(b)
    <3>1. tx' = tx
      BY <2>2 DEF Next, Core1, UsbChanges, HostReads, FillNothing, LinkProbe, vars
    <3> QED
      BY <3>1 DEF TypeOK
  <2> QED
    BY <2>1, <2>2
<1>3. cdc' \in 0 .. CdcSize
  <2>1. cdc' \in {0, cdc} \/ (cdc > 0 /\ cdc' = cdc - 1)
    BY DEF Next, Core1, LinuxPuts, UsbChanges, HostReads, FillNothing, LinkProbe, vars
  <2> QED
    BY <2>1, FanOutAssumption DEF TypeOK
<1>4. usbUp' \in BOOLEAN
  <2>1. usbUp' \in {usbUp, ~usbUp}
    BY DEF Next, Core1, LinuxPuts, UsbChanges, HostReads, FillNothing, LinkProbe, vars
  <2> QED
    BY <2>1 DEF TypeOK
<1>5. linkUp' \in BOOLEAN
  <2>1. linkUp' = linkUp \/ linkUp' \in BOOLEAN
    BY DEF Next, Core1, LinuxPuts, UsbChanges, HostReads, FillNothing, LinkProbe, vars
  <2> QED
    BY <2>1 DEF TypeOK
<1>6. step' \in {"fill", "usb", "link"}
  <2>1. step' \in {step, "usb", "fill"}
    BY DEF Next, Core1, LinuxPuts, UsbChanges, HostReads, FillNothing, LinkProbe, vars
  <2> QED
    BY <2>1 DEF TypeOK
<1>7. TypeOK'
  BY <1>1, <1>2, <1>3, <1>4, <1>5, <1>6, SeenType DEF TypeOK
<1> QED
  BY <1>1, <1>7 DEF EachGetsItsOwn, Bytes, Held

LEMMA InitOwned == Init => TypeOK /\ EachGetsItsOwn
<1> SUFFICES ASSUME Init PROVE TypeOK /\ EachGetsItsOwn
  OBVIOUS
<1>1. 0 \in Index /\ 0 - 0 = 0
  BY Size DEF Index
<1>2. fan \in [Index -> Byte]
  BY Size, FanOutAssumption DEF Init
<1>3. <<>> \in Seq(Byte) /\ Len(<<>>) = 0 /\ TxCapacity \in Nat /\ CdcSize \in Nat
  BY FanOutAssumption
<1>4. TypeOK
  BY <1>1, <1>2, <1>3, Size DEF Init, TypeOK
<1>5. Held(0) = 0
  <2>1. Wrap(0) = 0 /\ 0 - 0 = 0
    BY <1>1, WrapBelow DEF Index
  <2> QED
    BY <2>1 DEF Init, Held
<1>6. Bytes(0) = <<>>
  BY <1>5 DEF Bytes
<1> QED
  BY <1>4, <1>6 DEF Init, EachGetsItsOwn

LEMMA NextOwned ==
  ASSUME TypeOK, EachGetsItsOwn, [Next]_vars PROVE TypeOK' /\ EachGetsItsOwn'
BY FillType, FillOwned, UsbTakes, LinkTakes, OthersKeep

-----------------------------------------------------------------------------
(* The first console *)

\* FirstConsoleGetsAll in terms of what each consumer is owed.
Waits ==
  /\ usbUp => usbSeen
  /\ ~linkUp => usbOwed \o tx = unshown
  /\ ~usbSeen => linkOwed \o tx = unshown

LEMMA SameSequence ==
  ASSUME NEW q \in Seq(Byte), NEW r \in Seq(Byte), Len(q) = Len(r),
         \A k \in 1 .. Len(q) : q[k] = r[k]
  PROVE  q = r
OBVIOUS

\* What a concatenation and a shortened sequence consist of.
LEMMA Joined ==
  ASSUME NEW q \in Seq(Byte), NEW r \in Seq(Byte)
  PROVE  /\ q \o r \in Seq(Byte) /\ Len(q \o r) = Len(q) + Len(r)
         /\ \A k \in 1 .. Len(q) : (q \o r)[k] = q[k]
         /\ \A k \in 1 .. Len(r) : (q \o r)[Len(q) + k] = r[k]
OBVIOUS

LEMMA Dropped ==
  ASSUME NEW q \in Seq(Byte), NEW n \in Nat, n =< Len(q)
  PROVE  /\ Drop(q, n) \in Seq(Byte) /\ Len(Drop(q, n)) = Len(q) - n
         /\ \A k \in 1 .. Len(q) - n : Drop(q, n)[k] = q[n + k]
BY DEF Drop

\* Bytes taken off the front of what is owed are off the front of it all.
LEMMA TakenFirst ==
  ASSUME NEW q \in Seq(Byte), NEW r \in Seq(Byte), NEW n \in Nat, n =< Len(q)
  PROVE  Drop(q, n) \o r = Drop(q \o r, n)
<1> DEFINE d == Drop(q, n)
           all == q \o r
           left == d \o r
           right == Drop(all, n)
<1>1. /\ d \in Seq(Byte) /\ Len(d) = Len(q) - n
      /\ \A k \in 1 .. Len(q) - n : d[k] = q[n + k]
  BY Dropped
<1>2. /\ all \in Seq(Byte) /\ Len(all) = Len(q) + Len(r)
      /\ \A k \in 1 .. Len(q) : all[k] = q[k]
      /\ \A k \in 1 .. Len(r) : all[Len(q) + k] = r[k]
  BY Joined
<1>3. Len(q) \in Nat /\ Len(r) \in Nat
  OBVIOUS
<1> HIDE DEF d, all
<1>4. /\ left \in Seq(Byte) /\ Len(left) = Len(d) + Len(r)
      /\ \A k \in 1 .. Len(d) : left[k] = d[k]
      /\ \A k \in 1 .. Len(r) : left[Len(d) + k] = r[k]
  BY <1>1, Joined
<1>5. /\ right \in Seq(Byte) /\ Len(right) = Len(all) - n
      /\ \A k \in 1 .. Len(all) - n : right[k] = all[n + k]
  <2>1. n =< Len(all)
    BY <1>2, <1>3
  <2> QED
    BY <1>2, <2>1, Dropped
<1> HIDE DEF left, right
<1>6. ASSUME NEW k \in 1 .. Len(left) PROVE left[k] = right[k]
  <2>1. k \in 1 .. Len(all) - n /\ right[k] = all[n + k]
    BY <1>1, <1>2, <1>3, <1>4, <1>5
  <2>2. CASE k =< Len(q) - n
    <3>1. k \in 1 .. Len(d) /\ n + k \in 1 .. Len(q)
      BY <1>1, <1>3, <2>2
    <3> QED
      BY <1>1, <1>2, <1>4, <2>1, <3>1
  <2>3. CASE k > Len(q) - n
    <3> DEFINE j == k - (Len(q) - n)
    <3>1. j \in 1 .. Len(r) /\ k = Len(d) + j /\ n + k = Len(q) + j
      BY <1>1, <1>3, <1>4, <2>3
    <3> HIDE DEF j
    <3> QED
      BY <1>2, <1>4, <2>1, <3>1
  <2> QED
    BY <1>3, <2>2, <2>3
<1>7. left = right
  <2>1. Len(left) = Len(right)
    BY <1>1, <1>2, <1>3, <1>4, <1>5
  <2> QED
    BY <1>4, <1>5, <1>6, <2>1, SameSequence
<1> QED
  BY <1>7 DEF left, right, d, all

\* Bytes that fan_fill moves are as much owed in the buffer as in the ring.
LEMMA MovedStays ==
  ASSUME NEW q \in Seq(Byte), NEW r \in Seq(Byte), NEW n \in Nat, n =< Len(r)
  PROVE  (q \o SubSeq(r, 1, n)) \o Drop(r, n) = q \o r
<1> DEFINE front == SubSeq(r, 1, n)
           back == Drop(r, n)
           first == q \o front
           left == first \o back
           right == q \o r
<1>1. front \in Seq(Byte) /\ Len(front) = n /\ \A k \in 1 .. n : front[k] = r[k]
  OBVIOUS
<1>2. /\ back \in Seq(Byte) /\ Len(back) = Len(r) - n
      /\ \A k \in 1 .. Len(r) - n : back[k] = r[n + k]
  BY Dropped
<1>3. /\ right \in Seq(Byte) /\ Len(right) = Len(q) + Len(r)
      /\ \A k \in 1 .. Len(q) : right[k] = q[k]
      /\ \A k \in 1 .. Len(r) : right[Len(q) + k] = r[k]
  BY Joined
<1> HIDE DEF front, back, right
<1>4. /\ first \in Seq(Byte) /\ Len(first) = Len(q) + n
      /\ \A k \in 1 .. Len(q) : first[k] = q[k]
      /\ \A k \in 1 .. n : first[Len(q) + k] = front[k]
  BY <1>1, Joined
<1> HIDE DEF first
<1>5. /\ left \in Seq(Byte) /\ Len(left) = Len(first) + Len(back)
      /\ \A k \in 1 .. Len(first) : left[k] = first[k]
      /\ \A k \in 1 .. Len(back) : left[Len(first) + k] = back[k]
  BY <1>2, <1>4, Joined
<1>6. Len(q) \in Nat /\ Len(r) \in Nat
  OBVIOUS
<1> HIDE DEF left
<1>7. ASSUME NEW k \in 1 .. Len(left) PROVE left[k] = right[k]
  <2>1. CASE k =< Len(q)
    <3>1. k \in 1 .. Len(q) /\ k \in 1 .. Len(first)
      BY <1>4, <1>6, <2>1
    <3> QED
      BY <1>3, <1>4, <1>5, <3>1
  <2>2. CASE k > Len(q) /\ k =< Len(q) + n
    <3> DEFINE j == k - Len(q)
    <3>1. j \in 1 .. n /\ j \in 1 .. Len(r) /\ k = Len(q) + j /\ k \in 1 .. Len(first)
      BY <1>4, <1>6, <2>2
    <3> HIDE DEF j
    <3> QED
      BY <1>1, <1>3, <1>4, <1>5, <3>1
  <2>3. CASE k > Len(q) + n
    <3> DEFINE j == k - Len(q) - n
    <3>1. /\ j \in 1 .. Len(r) - n /\ n + j \in 1 .. Len(r)
          /\ k = Len(first) + j /\ k = Len(q) + (n + j) /\ j \in 1 .. Len(back)
      <4>1. Len(back) = Len(r) - n /\ Len(first) = Len(q) + n /\ Len(left) = Len(q) + Len(r)
        BY <1>2, <1>4, <1>5, <1>6
      <4>2. k \in Nat /\ k =< Len(q) + Len(r)
        BY <1>6, <4>1
      <4> QED
        BY ONLY <1>6, <2>3, <4>1, <4>2
    <3> HIDE DEF j
    <3>2. left[k] = back[j] /\ back[j] = r[n + j]
      BY <1>2, <1>5, <3>1
    <3>3. right[k] = r[n + j]
      BY <1>3, <3>1
    <3> QED
      BY <3>2, <3>3
  <2> QED
    BY <1>6, <2>1, <2>2, <2>3
<1>8. left = right
  <2>1. Len(left) = Len(right)
    BY <1>2, <1>3, <1>4, <1>5, <1>6
  <2> QED
    BY <1>3, <1>5, <1>7, <2>1, SameSequence
<1> QED
  BY <1>8 DEF left, right, first, front, back

LEMMA DropNothing == ASSUME NEW q \in Seq(Byte) PROVE Drop(q, 0) = q
BY DEF Drop

LEMMA FillWaits == ASSUME TypeOK, Waits, FanFill PROVE Waits'
<1>1. /\ usbOwed \in Seq(Byte) /\ linkOwed \in Seq(Byte) /\ tx \in Seq(Byte)
      /\ Moves \in Nat /\ Moves =< Len(tx) /\ (usbUp \/ linkUp)
  BY MovesFit DEF TypeOK, FanFill, NobodyThere
<1>2. /\ UNCHANGED <<usbUp, linkUp, usbSeen, unshown>> /\ tx' = Drop(tx, Moves)
      /\ usbUp => usbOwed' = usbOwed \o SubSeq(tx, 1, Moves)
      /\ linkUp => linkOwed' = linkOwed \o SubSeq(tx, 1, Moves)
  BY FanFillDoes DEF New
<1>3. ASSUME ~linkUp PROVE usbOwed' \o tx' = unshown'
  <2>1. usbOwed' \o tx' = (usbOwed \o SubSeq(tx, 1, Moves)) \o Drop(tx, Moves)
    BY <1>1, <1>2, <1>3
  <2> QED
    BY <1>1, <1>2, <1>3, <2>1, MovedStays DEF Waits
<1>4. ASSUME ~usbSeen PROVE linkOwed' \o tx' = unshown'
  <2>1. linkUp
    BY <1>1, <1>4 DEF Waits
  <2>2. linkOwed' \o tx' = (linkOwed \o SubSeq(tx, 1, Moves)) \o Drop(tx, Moves)
    BY <1>2, <2>1
  <2>3. linkOwed \o tx = unshown
    BY <1>4 DEF Waits
  <2>4. (linkOwed \o SubSeq(tx, 1, Moves)) \o Drop(tx, Moves) = linkOwed \o tx
    BY <1>1, MovedStays
  <2> QED
    BY <1>2, <2>2, <2>3, <2>4
<1> QED
  BY <1>2, <1>3, <1>4 DEF Waits

LEMMA UsbOutWaits == ASSUME TypeOK, EachGetsItsOwn, Waits, UsbOut PROVE Waits'
<1> DEFINE n == IF usbUp THEN Smaller(Smaller(CdcSize - cdc, BufSize), Held(usbTail)) ELSE 0
<1>1. /\ usbOwed' = Drop(usbOwed, n) /\ Unshown(Drop(unshown, n))
      /\ UNCHANGED <<tx, usbUp, linkUp, linkOwed, usbSeen>>
  BY DEF UsbOut
<1>2. Held(usbTail) \in Nat /\ Len(usbOwed) = Held(usbTail)
  <2>1. Len(usbOwed) = Held(usbTail)
    BY OwnedIsMatched DEF Held, Matches
  <2> QED
    BY <2>1, Indices, WrapType DEF Held
<1>3. n \in Nat /\ n =< Len(usbOwed) /\ (~usbUp => n = 0)
  <2>1. cdc \in 0 .. CdcSize /\ CdcSize \in Nat /\ BufSize \in Nat
    BY FanOutAssumption DEF TypeOK
  <2> QED
    BY ONLY <1>2, <2>1 DEF n, Smaller
<1> HIDE DEF n
<1>4. /\ usbOwed \in Seq(Byte) /\ linkOwed \in Seq(Byte) /\ tx \in Seq(Byte)
      /\ unshown \in Seq(Byte)
  BY DEF TypeOK
<1>5. ASSUME ~linkUp PROVE usbOwed' \o tx' = unshown'
  <2>1. unshown' = Drop(unshown, n) /\ usbOwed \o tx = unshown
    BY <1>1, <1>5 DEF Waits, Unshown
  <2>2. Drop(usbOwed, n) \o tx = Drop(usbOwed \o tx, n)
    BY <1>3, <1>4, TakenFirst
  <2> QED
    BY <1>1, <2>1, <2>2
<1>6. ASSUME ~usbSeen PROVE linkOwed' \o tx' = unshown'
  <2>1. ~usbUp /\ linkOwed \o tx = unshown
    BY <1>6 DEF Waits
  <2>2. n = 0 /\ unshown' = Drop(unshown, n)
    BY <1>1, <1>3, <1>6, <2>1 DEF Unshown
  <2>3. unshown' = unshown
    BY <1>4, <2>2, DropNothing
  <2> QED
    BY <1>1, <2>1, <2>3
<1> QED
  BY <1>1, <1>5, <1>6 DEF Waits

LEMMA LinkTakeWaits == ASSUME TypeOK, EachGetsItsOwn, Waits, LinkTake PROVE Waits'
<1> DEFINE n == Smaller(Held(linkTail), LinkMax)
<1>1. /\ linkOwed' = Drop(linkOwed, n) /\ Unshown(Drop(unshown, n)) /\ linkUp
      /\ UNCHANGED <<tx, usbUp, linkUp, usbOwed, usbSeen>>
  BY DEF LinkTake
<1>2. Held(linkTail) \in Nat /\ Len(linkOwed) = Held(linkTail)
  <2>1. Len(linkOwed) = Held(linkTail)
    BY OwnedIsMatched DEF Held, Matches
  <2> QED
    BY <2>1, Indices, WrapType DEF Held
<1>3. n \in Nat /\ n =< Len(linkOwed)
  BY <1>2, FanOutAssumption DEF Smaller
<1> HIDE DEF n
<1>4. linkOwed \in Seq(Byte) /\ tx \in Seq(Byte)
  BY DEF TypeOK
<1>5. ASSUME ~usbSeen PROVE linkOwed' \o tx' = unshown'
  <2>1. unshown' = Drop(unshown, n) /\ linkOwed \o tx = unshown
    BY <1>1, <1>5 DEF Waits, Unshown
  <2>2. Drop(linkOwed, n) \o tx = Drop(linkOwed \o tx, n)
    BY <1>3, <1>4, TakenFirst
  <2> QED
    BY <1>1, <2>1, <2>2
<1> QED
  BY <1>1, <1>5 DEF Waits

LEMMA PrintsWait == ASSUME TypeOK, Waits, NEW b \in Byte, LinuxPuts(b) PROVE Waits'
<1>1. /\ usbOwed \in Seq(Byte) /\ linkOwed \in Seq(Byte) /\ tx \in Seq(Byte)
      /\ tx' = Append(tx, b) /\ Unshown(Append(unshown, b))
      /\ UNCHANGED <<usbUp, linkUp, usbSeen, usbOwed, linkOwed>>
  BY DEF TypeOK, LinuxPuts, owedVars
<1>2. \A q \in Seq(Byte) : q \o Append(tx, b) = Append(q \o tx, b)
  BY <1>1
<1> QED
  BY <1>1, <1>2 DEF Waits, Unshown

LEMMA NextWaits ==
  ASSUME TypeOK, EachGetsItsOwn, Waits, [Next]_vars PROVE Waits'
<1>1. ASSUME UNCHANGED <<tx, owedVars>>, usbUp' => usbSeen', usbSeen => usbSeen',
             linkUp => linkUp', ~(usbSeen' /\ linkUp') => unshown' = unshown
      PROVE  Waits'
  <2>1. tx' = tx /\ usbOwed' = usbOwed /\ linkOwed' = linkOwed
    BY <1>1 DEF owedVars
  <2> QED
    BY <1>1, <2>1 DEF Waits
<1>2. CASE UsbChanges
  <2>1. usbUp' => usbSeen'
    BY <1>2 DEF UsbChanges
  <2>2. (usbSeen => usbSeen') /\ (linkUp => linkUp') /\ UNCHANGED <<tx, owedVars>>
    BY <1>2 DEF UsbChanges
  <2> QED
    BY <1>1, <1>2, <2>1, <2>2 DEF UsbChanges, Unshown
<1>3. CASE LinkProbe
  BY <1>1, <1>3 DEF LinkProbe, Unshown, Waits
<1>4. CASE HostReads \/ FillNothing \/ UNCHANGED vars
  <2>1. UNCHANGED <<tx, owedVars, usbUp, linkUp, usbSeen, unshown>>
    BY <1>4 DEF HostReads, FillNothing, seenVars, vars
  <2> QED
    BY <1>1, <2>1 DEF Waits
<1> QED
  BY <1>2, <1>3, <1>4, FillWaits, UsbOutWaits, LinkTakeWaits, PrintsWait DEF Next, Core1

-----------------------------------------------------------------------------

(***************************************************************************)
(* The indices stay in the buffer, and the CDC FIFO is never given more    *)
(* than it has room for (core1_usb.c fan_fill, fan_take, service_once).    *)
(***************************************************************************)
THEOREM TypeCorrect == Spec => []TypeOK
<1>1. Init => TypeOK /\ EachGetsItsOwn
  BY InitOwned
<1>2. TypeOK /\ EachGetsItsOwn /\ [Next]_vars => (TypeOK /\ EachGetsItsOwn)'
  BY NextOwned
<1> QED
  BY <1>1, <1>2, PTL DEF Spec

(***************************************************************************)
(* Both consoles are given every byte printed while they are there, once   *)
(* and in order: fan_fill never overruns the slower of them, and leaves an *)
(* absent one out without losing the other's place.                        *)
(***************************************************************************)
THEOREM EachIsServed == Spec => []EachGetsItsOwn
<1>1. Init => TypeOK /\ EachGetsItsOwn
  BY InitOwned
<1>2. TypeOK /\ EachGetsItsOwn /\ [Next]_vars => (TypeOK /\ EachGetsItsOwn)'
  BY NextOwned
<1> QED
  BY <1>1, <1>2, PTL DEF Spec

(***************************************************************************)
(* A console that is the first to appear is owed, in order, every byte     *)
(* printed since the start that it has not been given, wherever these are: *)
(* neither a boot that nobody watches nor the coming and going of the one  *)
(* console loses any of them (fan_fill, fan_take).                         *)
(***************************************************************************)
THEOREM BootMessagesWait == Spec => []FirstConsoleGetsAll
<1>1. Init => TypeOK /\ EachGetsItsOwn /\ Waits
  <2>1. Init => usbOwed \o tx = <<>> /\ linkOwed \o tx = <<>>
    BY DEF Init
  <2> QED
    BY <2>1, InitOwned DEF Init, Waits
<1>2. TypeOK /\ EachGetsItsOwn /\ Waits /\ [Next]_vars => (TypeOK /\ EachGetsItsOwn /\ Waits)'
  BY NextOwned, NextWaits
<1>3. EachGetsItsOwn /\ Waits => FirstConsoleGetsAll
  BY DEF EachGetsItsOwn, Waits, FirstConsoleGetsAll
<1> QED
  BY <1>1, <1>2, <1>3, PTL DEF Spec

=============================================================================
