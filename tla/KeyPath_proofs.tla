--------------------------- MODULE KeyPath_proofs ---------------------------
(***************************************************************************)
(* From a key to Linux, for every number of keyboards and size of queues,  *)
(* and however much is pressed, typed, answered and lost: that the queues  *)
(* are not overrun, what the terminal sends is got, the escape decoder     *)
(* eats nothing, and the keys are those that were pressed.                 *)
(***************************************************************************)
EXTENDS KeyPath, SequenceTheorems, TLAPS

LEMMA Sizes ==
  /\ KeyqSize \in Nat \ {0} /\ ActionQueueSize \in Nat \ {0}
  /\ MaxKeys \in Nat /\ RxSize \in Nat
BY KeyPathAssumption

\* Wrap on the only arguments the code gives it: an index less than one turn
\* ahead or behind.
LEMMA WrapBelow == \A i \in 0 .. KeyqSize - 1 : Wrap(i) = i
BY Sizes DEF Wrap

LEMMA WrapAhead == \A i \in KeyqSize .. 2 * KeyqSize - 1 : Wrap(i) = i - KeyqSize
BY Sizes DEF Wrap

LEMMA WrapBehind == \A i \in -KeyqSize .. -1 : Wrap(i) = i + KeyqSize
BY Sizes DEF Wrap

\* A step of less than a turn from a slot, forward and backward.
LEMMA Forward ==
  ASSUME NEW i \in Slot, NEW k \in Slot
  PROVE  Wrap(i + k) \in Slot /\ Wrap(i + k) = IF i + k < KeyqSize THEN i + k ELSE i + k - KeyqSize
BY Sizes, WrapBelow, WrapAhead, WrapBehind DEF Slot

LEMMA Between ==
  ASSUME NEW h \in Slot, NEW t \in Slot
  PROVE  Wrap(h - t) \in Slot /\ Wrap(h - t) = IF h >= t THEN h - t ELSE h - t + KeyqSize
BY Sizes, WrapBelow, WrapAhead, WrapBehind DEF Slot

\* The head is where the slots in use end.
LEMMA HeadIsAfterUsed ==
  ASSUME NEW h \in Slot, NEW t \in Slot PROVE Wrap(t + Wrap(h - t)) = h
BY Sizes, WrapBelow, WrapAhead, WrapBehind DEF Slot

\* A head that moves on by n lengthens what is in use by n, if it fits.
LEMMA HeadMoves ==
  ASSUME NEW h \in Slot, NEW t \in Slot, NEW n \in Nat, Wrap(h - t) + n =< KeyqSize - 1
  PROVE  Wrap(h + n) \in Slot /\ Wrap(Wrap(h + n) - t) = Wrap(h - t) + n
BY Sizes, WrapBelow, WrapAhead, WrapBehind DEF Slot

\* A tail that moves on by n shortens it by n.
LEMMA TailMoves ==
  ASSUME NEW h \in Slot, NEW t \in Slot, NEW n \in Nat, n =< Wrap(h - t)
  PROVE  Wrap(t + n) \in Slot /\ Wrap(h - Wrap(t + n)) = Wrap(h - t) - n
BY Sizes, WrapBelow, WrapAhead, WrapBehind DEF Slot

\* Going on from a slot that n steps have led to.
LEMMA StepsAdd ==
  ASSUME NEW t \in Slot, NEW n \in Nat, NEW k \in Nat, n + k =< KeyqSize - 1
  PROVE  Wrap(Wrap(t + n) + k) = Wrap(t + (n + k))
BY Sizes, WrapBelow, WrapAhead, WrapBehind DEF Slot

\* Seen from the head, the slot k steps on is k steps away.
LEMMA StepsBack ==
  ASSUME NEW h \in Slot, NEW k \in Slot PROVE Wrap(Wrap(h + k) - h) = k
BY Sizes, WrapBelow, WrapAhead, WrapBehind DEF Slot

\* A slot in use is not among the n that follow the head, if these are free.
LEMMA InUseIsNotFree ==
  ASSUME NEW h \in Slot, NEW t \in Slot, NEW n \in Nat, Wrap(h - t) + n =< KeyqSize - 1,
         NEW k \in Nat, k < Wrap(h - t)
  PROVE  ~(Wrap(Wrap(t + k) - h) < n)
BY Sizes, WrapBelow, WrapAhead, WrapBehind DEF Slot

-----------------------------------------------------------------------------
(* The key queue *)

LEMMA Ends == ASSUME TypeOK PROVE keyqHead \in Slot /\ keyqTail \in Slot
BY DEF TypeOK

LEMMA UsedType == ASSUME TypeOK PROVE Used \in Slot /\ Used \in Nat /\ Room \in Nat
<1>1. Used \in Slot
  BY Ends, Between DEF Used
<1> QED
  BY <1>1, Sizes DEF Room, Slot

LEMMA WaitingType ==
  ASSUME TypeOK
  PROVE  /\ Waiting \in Seq(Code) /\ Len(Waiting) = Used
         /\ \A k \in 1 .. Used : Waiting[k] = keyq[Wrap(keyqTail + (k - 1))]
<1>1. Used \in Nat /\ Used =< KeyqSize - 1
  BY UsedType, Sizes DEF Slot
<1>2. ASSUME NEW k \in 1 .. Used PROVE keyq[Wrap(keyqTail + (k - 1))] \in Code
  <2>1. k - 1 \in Slot
    BY <1>1, Sizes DEF Slot
  <2>2. Wrap(keyqTail + (k - 1)) \in Slot
    BY <2>1, Ends, Forward
  <2> QED
    BY <2>2 DEF TypeOK
<1> QED
  BY <1>1, <1>2 DEF Waiting

\* What is sent keeps to the queue, and what does not fit is dropped.
LEMMA SendType ==
  ASSUME TypeOK, NEW bytes \in Seq(Code), SendString(bytes)
  PROVE  /\ keyq' \in [Slot -> Code] /\ {keyqHead', keyqTail'} \subseteq Slot
         /\ sent' \in Seq(Code) /\ mishaps' \subseteq {"usb", "link"}
<1> DEFINE n == Smaller(Room, Len(bytes))
<1>1. n \in Nat /\ n =< Len(bytes) /\ n =< Room
  BY UsedType DEF Smaller
<1>2. n \in Slot
  BY <1>1, UsedType, Sizes DEF Room, Slot
<1>3. keyq' \in [Slot -> Code]
  <2>1. keyq' = [i \in Slot |-> IF Wrap(i - keyqHead) < n THEN bytes[Wrap(i - keyqHead) + 1] ELSE keyq[i]]
    BY DEF SendString
  <2>2. ASSUME NEW i \in Slot
        PROVE  (IF Wrap(i - keyqHead) < n THEN bytes[Wrap(i - keyqHead) + 1] ELSE keyq[i]) \in Code
    <3>1. Wrap(i - keyqHead) \in Nat
      <4>1. Wrap(i - keyqHead) \in Slot
        BY Ends, Between
      <4> QED
        BY <4>1, Sizes DEF Slot
    <3>2. keyq[i] \in Code
      BY DEF TypeOK
    <3> HIDE DEF n
    <3>3. Wrap(i - keyqHead) < n => Wrap(i - keyqHead) + 1 \in 1 .. Len(bytes)
      BY <1>1, <3>1
    <3> QED
      BY <3>2, <3>3
  <2> QED
    BY <2>1, <2>2
<1>4. keyqHead' \in Slot /\ keyqTail' \in Slot
  BY <1>2, Ends, Forward DEF SendString
<1>5. sent' \in Seq(Code)
  <2>1. sent \in Seq(Code)
    BY DEF TypeOK
  <2>2. sent' = IF "link" \in mishaps THEN sent ELSE sent \o bytes
    BY DEF SendString
  <2> QED
    BY <2>1, <2>2
<1>6. mishaps' \subseteq {"usb", "link"}
  BY DEF SendString, Mishap, TypeOK
<1> QED
  BY <1>3, <1>4, <1>5, <1>6

\* If nothing was dropped, it is all behind what was waiting.
LEMMA SendExtends ==
  ASSUME TypeOK, NEW bytes \in Seq(Code), SendString(bytes), "link" \notin mishaps'
  PROVE  /\ "link" \notin mishaps /\ sent' = sent \o bytes
         /\ Waiting' = Waiting \o bytes
<1> DEFINE n == Smaller(Room, Len(bytes))
<1>1. "link" \notin mishaps /\ ~(n < Len(bytes))
  BY DEF SendString, Mishap
<1>2. n = Len(bytes) /\ n \in Nat /\ Used + n =< KeyqSize - 1 /\ Used \in Nat
  BY <1>1, UsedType, Sizes DEF Smaller, Room
<1>3. /\ keyq' = [i \in Slot |-> IF Wrap(i - keyqHead) < n THEN bytes[Wrap(i - keyqHead) + 1] ELSE keyq[i]]
      /\ keyqHead' = Wrap(keyqHead + n) /\ keyqTail' = keyqTail
  BY DEF SendString
<1> HIDE DEF n
<1>4. Used' = Used + n
  BY <1>2, <1>3, Ends, HeadMoves DEF Used
<1>5. ASSUME NEW k \in 1 .. Used PROVE keyq'[Wrap(keyqTail + (k - 1))] = Waiting[k]
  <2> DEFINE j == k - 1
             slot == Wrap(keyqTail + j)
  <2>1. j \in Slot /\ j \in Nat /\ j < Used
    BY <1>2, Sizes DEF Slot
  <2> HIDE DEF j
  <2>2. slot \in Slot
    BY <2>1, Ends, Forward
  <2>3. ~(Wrap(slot - keyqHead) < n)
    BY <1>2, <2>1, Ends, InUseIsNotFree DEF Used
  <2>4. Waiting[k] = keyq[slot]
    BY WaitingType DEF j
  <2> QED
    BY <1>3, <2>2, <2>3, <2>4 DEF j
<1>6. ASSUME NEW k \in Used + 1 .. Used + n PROVE keyq'[Wrap(keyqTail + (k - 1))] = bytes[k - Used]
  <2> DEFINE j == k - Used - 1
             slot == Wrap(keyqHead + j)
  <2>1. j \in Slot /\ j \in Nat /\ j < n /\ k - 1 = Used + j /\ Used + j =< KeyqSize - 1 /\ j + 1 = k - Used
    BY <1>2, Sizes DEF Slot
  <2> HIDE DEF j
  <2>2. Wrap(keyqTail + Used) = keyqHead
    BY Ends, HeadIsAfterUsed DEF Used
  <2>3. Wrap(Wrap(keyqTail + Used) + j) = Wrap(keyqTail + (Used + j))
    BY <1>2, <2>1, Ends, StepsAdd
  <2>4. slot \in Slot /\ Wrap(slot - keyqHead) = j
    BY <2>1, Ends, Forward, StepsBack
  <2>5. keyq'[slot] = bytes[j + 1]
    BY <1>3, <2>1, <2>4
  <2> QED
    BY <2>1, <2>2, <2>3, <2>5
<1>7. Waiting' = [k \in 1 .. Used + n |-> keyq'[Wrap(keyqTail + (k - 1))]]
  BY <1>3, <1>4 DEF Waiting
<1>8. Waiting' = Waiting \o bytes
  <2>1. Len(Waiting) = Used /\ Waiting \in Seq(Code)
    BY WaitingType
  <2> DEFINE all == Waiting \o bytes
  <2>2. /\ all \in Seq(Code) /\ Len(all) = Used + n
        /\ \A k \in 1 .. Used + n : all[k] = IF k =< Used THEN Waiting[k] ELSE bytes[k - Used]
    BY <1>2, <2>1, ConcatProperties
  <2> HIDE DEF all
  <2>3. ASSUME NEW k \in 1 .. Used + n
        PROVE  keyq'[Wrap(keyqTail + (k - 1))] = all[k]
    <3>1. k \in 1 .. Used \/ (k \in Used + 1 .. Used + n /\ ~(k =< Used))
      BY <1>2
    <3>2. all[k] = IF k =< Used THEN Waiting[k] ELSE bytes[k - Used]
      BY <2>2
    <3>3. CASE k \in 1 .. Used
      BY <1>2, <1>5, <3>2, <3>3
    <3>4. CASE k \in Used + 1 .. Used + n /\ ~(k =< Used)
      BY <1>6, <3>2, <3>4
    <3> QED
      BY <3>1, <3>3, <3>4
  <2>4. all = [k \in 1 .. Used + n |-> all[k]]
    BY <2>2
  <2>5. Waiting' = all
    BY <1>7, <2>3, <2>4
  <2> QED
    BY <2>5 DEF all
<1>9. sent' = sent \o bytes
  BY <1>1 DEF SendString
<1> QED
  BY <1>1, <1>8, <1>9

LEMMA SendServes ==
  ASSUME TypeOK, SentIsGot, NEW bytes \in Seq(Code), SendString(bytes), got' = got
  PROVE  SentIsGot'
<1> SUFFICES ASSUME "link" \notin mishaps' PROVE got \o Waiting' = sent'
  BY DEF SentIsGot
<1>1. got \o Waiting = sent /\ Waiting' = Waiting \o bytes /\ sent' = sent \o bytes
  BY SendExtends DEF SentIsGot
<1>2. got \in Seq(Code) /\ Waiting \in Seq(Code)
  BY WaitingType DEF TypeOK
<1>3. got \o (Waiting \o bytes) = (got \o Waiting) \o bytes
  BY <1>2, ConcatAssociative
<1> QED
  BY <1>1, <1>3

\* Taking n keys leaves those behind them.
LEMMA TakeShortens ==
  ASSUME TypeOK, NEW n \in Nat, n =< Used,
         keyq' = keyq, keyqHead' = keyqHead, keyqTail' = Wrap(keyqTail + n)
  PROVE  /\ keyqTail' \in Slot
         /\ Waiting' \in Seq(Code) /\ Waiting = SubSeq(Waiting, 1, n) \o Waiting'
<1>1. /\ Waiting \in Seq(Code) /\ Len(Waiting) = Used /\ Used \in Nat /\ Used =< KeyqSize - 1
      /\ \A k \in 1 .. Used : Waiting[k] = keyq[Wrap(keyqTail + (k - 1))]
  BY WaitingType, UsedType, Sizes DEF Slot
<1>2. keyqTail' \in Slot /\ Used' = Used - n
  BY Ends, TailMoves DEF Used
<1>3. ASSUME NEW k \in 1 .. Used - n
      PROVE  keyq[Wrap(Wrap(keyqTail + n) + (k - 1))] = Waiting[n + k]
  <2> DEFINE j == k - 1
  <2>1. j \in Nat /\ n + j =< KeyqSize - 1 /\ n + k \in 1 .. Used /\ n + k - 1 = n + j
    BY <1>1, Sizes
  <2> HIDE DEF j
  <2>2. Wrap(Wrap(keyqTail + n) + j) = Wrap(keyqTail + (n + j))
    BY <2>1, Ends, StepsAdd
  <2> QED
    BY <1>1, <2>1, <2>2 DEF j
<1>4. Waiting' = [k \in 1 .. Used - n |-> Waiting[n + k]]
  <2>1. Waiting' = [k \in 1 .. Used - n |-> keyq[Wrap(Wrap(keyqTail + n) + (k - 1))]]
    BY <1>2 DEF Waiting
  <2> QED
    BY <1>3, <2>1
<1>5. ASSUME NEW k \in 1 .. Used - n PROVE Waiting[n + k] \in Code
  <2>1. n + k \in 1 .. Used
    BY <1>1
  <2> QED
    BY <1>1, <2>1
<1>6. Waiting' \in Seq(Code) /\ Len(Waiting') = Used - n
  <2>1. Used - n \in Nat
    BY <1>1
  <2> QED
    BY <1>4, <1>5, <2>1
<1>7. Waiting = SubSeq(Waiting, 1, n) \o Waiting'
  <2> DEFINE keys == SubSeq(Waiting, 1, n)
             all == keys \o Waiting'
  <2>1. \A k \in 1 .. n : Waiting[k] \in Code
    BY <1>1
  <2>2. keys \in Seq(Code) /\ Len(keys) = n /\ \A k \in 1 .. n : keys[k] = Waiting[k]
    BY <1>1, <2>1, SubSeqProperties
  <2> HIDE DEF keys
  <2>3. /\ all \in Seq(Code) /\ Len(all) = Used
        /\ \A k \in 1 .. Used : all[k] = IF k =< n THEN keys[k] ELSE Waiting'[k - n]
    BY <1>1, <1>6, <2>2, ConcatProperties
  <2> HIDE DEF all
  <2>4. ASSUME NEW k \in 1 .. Used PROVE all[k] = Waiting[k]
    <3>1. CASE k =< n
      BY <2>2, <2>3, <3>1
    <3>2. CASE ~(k =< n)
      <4>1. k - n \in 1 .. Used - n /\ n + (k - n) = k
        BY <1>1, <3>2
      <4>2. Waiting'[k - n] = Waiting[k]
        BY <1>4, <4>1
      <4> QED
        BY <2>3, <3>2, <4>2
    <3> QED
      BY <3>1, <3>2
  <2>5. all = Waiting
    BY <1>1, <2>3, <2>4, SeqEqual
  <2> QED
    BY <2>5 DEF all, keys
<1> QED
  BY <1>2, <1>6, <1>7

\* What a console transaction takes, and what of it gets into the rx ring.
LEMMA ConsoleTakes ==
  ASSUME TypeOK, NEW arrives \in BOOLEAN, Console(arrives)
  PROVE  LET n == Smaller(Len(Waiting), MaxKeys)
             keys == SubSeq(Waiting, 1, n)
             m == Smaller(n, RxSize - Len(rx))
             fed == SubSeq(keys, 1, m)
         IN  /\ n \in Nat /\ n =< Used
             /\ keys \in Seq(Code) /\ Len(keys) = n
             /\ fed \in Seq(Code) /\ Len(fed) = m /\ m \in Nat /\ m =< n /\ m =< RxSize - Len(rx)
             /\ m = n => fed = keys
<1> DEFINE n == Smaller(Len(Waiting), MaxKeys)
           keys == SubSeq(Waiting, 1, n)
           m == Smaller(n, RxSize - Len(rx))
           fed == SubSeq(keys, 1, m)
<1>1. Waiting \in Seq(Code) /\ Len(Waiting) = Used /\ Used \in Nat
  BY WaitingType, UsedType
<1>2. n \in Nat /\ n =< Used
  BY <1>1, Sizes DEF Smaller
<1> HIDE DEF n
<1>3. \A k \in 1 .. n : Waiting[k] \in Code
  BY <1>1, <1>2
<1>4. keys \in Seq(Code) /\ Len(keys) = n
  BY <1>2, <1>3, SubSeqProperties
<1> HIDE DEF keys
<1>5. RxSize - Len(rx) \in Nat
  <2>1. rx \in Seq(Code) /\ Len(rx) =< RxSize
    BY DEF TypeOK
  <2> QED
    BY <2>1, Sizes
<1>6. m \in Nat /\ m =< n /\ m =< RxSize - Len(rx)
  BY <1>2, <1>5 DEF Smaller
<1> HIDE DEF m
<1>7. \A k \in 1 .. m : keys[k] \in Code
  BY <1>2, <1>4, <1>6
<1>8. fed \in Seq(Code) /\ Len(fed) = m
  BY <1>6, <1>7, SubSeqProperties
<1>9. m = n => fed = keys
  BY <1>4, SubSeqFull
<1> QED
  BY <1>2, <1>4, <1>6, <1>8, <1>9 DEF n, keys, m

LEMMA ConsoleType ==
  ASSUME TypeOK, NEW arrives \in BOOLEAN, Console(arrives) PROVE TypeOK'
<1> DEFINE n == Smaller(Len(Waiting), MaxKeys)
           fed == SubSeq(SubSeq(Waiting, 1, n), 1, Smaller(n, RxSize - Len(rx)))
<1>1. n \in Nat /\ n =< Used /\ fed \in Seq(Code) /\ Len(fed) \in Nat /\ Len(fed) =< RxSize - Len(rx)
  BY ConsoleTakes
<1>2. keyqTail' \in Slot
  BY <1>1, TakeShortens DEF Console
<1>3. rx \in Seq(Code) /\ got \in Seq(Code) /\ Len(rx) \in Nat /\ Len(rx) =< RxSize
  BY DEF TypeOK
<1>4. /\ rx' = IF arrives THEN rx \o fed ELSE rx
      /\ got' = IF arrives /\ "link" \notin mishaps THEN got \o fed ELSE got
  BY DEF Console
<1> HIDE DEF fed
<1>5. rx' \in Seq(Code) /\ got' \in Seq(Code) /\ Len(rx') =< RxSize
  BY <1>1, <1>3, <1>4, Sizes
<1>6. mishaps' \subseteq {"usb", "link"}
  BY DEF Console, Mishap, TypeOK
<1> QED
  BY <1>2, <1>5, <1>6 DEF Console, TypeOK, usbVars, serialVars

LEMMA ConsoleServes ==
  ASSUME TypeOK, SentIsGot, NEW arrives \in BOOLEAN, Console(arrives) PROVE SentIsGot'
<1> DEFINE n == Smaller(Len(Waiting), MaxKeys)
           keys == SubSeq(Waiting, 1, n)
           m == Smaller(n, RxSize - Len(rx))
           fed == SubSeq(keys, 1, m)
<1> SUFFICES ASSUME "link" \notin mishaps' PROVE got' \o Waiting' = sent'
  BY DEF SentIsGot
<1>1. /\ n \in Nat /\ n =< Used /\ keys \in Seq(Code) /\ Len(keys) = n
      /\ Len(fed) = m /\ m \in Nat /\ m =< n
      /\ m = n => fed = keys
  BY ConsoleTakes
<1>2. "link" \notin mishaps /\ ~(~arrives /\ n > 0) /\ ~(Len(fed) < n)
  BY DEF Console, Mishap
<1>3. /\ got' = IF arrives /\ "link" \notin mishaps THEN got \o fed ELSE got
      /\ keyqTail' = Wrap(keyqTail + n) /\ keyq' = keyq /\ keyqHead' = keyqHead /\ sent' = sent
  BY DEF Console
<1>4. Waiting' \in Seq(Code) /\ Waiting = keys \o Waiting'
  BY <1>1, <1>3, TakeShortens
<1>5. got \in Seq(Code)
  BY DEF TypeOK
<1> HIDE DEF n, m, keys, fed
<1>6. got' = got \o keys
  <2>1. CASE arrives
    <3>1. m = n
      BY <1>1, <1>2
    <3>2. fed = keys
      BY <1>1, <3>1
    <3> QED
      BY <1>2, <1>3, <2>1, <3>2
  <2>2. CASE ~arrives
    <3>1. n = 0
      BY <1>1, <1>2, <2>2
    <3>2. keys = <<>>
      BY <1>1, <3>1
    <3> QED
      BY <1>3, <1>5, <2>2, <3>2, ConcatEmptySeq
  <2> QED
    BY <2>1, <2>2
<1>7. (got \o keys) \o Waiting' = got \o (keys \o Waiting')
  BY <1>1, <1>4, <1>5, ConcatAssociative
<1> QED
  BY <1>2, <1>3, <1>4, <1>6, <1>7 DEF SentIsGot

-----------------------------------------------------------------------------
(* The escape decoder *)

LEMMA Pair ==
  ASSUME NEW a, NEW b PROVE <<a>> \o <<b>> = <<a, b>>
<1> DEFINE S == {a, b}
           s == <<a>> \o <<b>>
           t == <<a, b>>
<1>1. <<a>> \in Seq(S) /\ Len(<<a>>) = 1 /\ <<b>> \in Seq(S) /\ Len(<<b>>) = 1
  OBVIOUS
<1>2. <<a>>[1] = a /\ <<b>>[1] = b
  OBVIOUS
<1>3. s \in Seq(S) /\ Len(s) = 2 /\ s[1] = a /\ s[2] = b
  BY <1>1, <1>2, ConcatProperties
<1>4. t \in Seq(S) /\ Len(t) = 2 /\ t[1] = a /\ t[2] = b
  OBVIOUS
<1> HIDE DEF s, t
<1>5. s = t
  BY <1>3, <1>4, SeqEqual
<1> QED
  BY <1>5 DEF s, t

LEMMA Triple ==
  ASSUME NEW a, NEW b, NEW c PROVE <<a, b>> \o <<c>> = <<a, b, c>>
<1> DEFINE S == {a, b, c}
           s == <<a, b>> \o <<c>>
           t == <<a, b, c>>
<1>1. <<a, b>> \in Seq(S) /\ Len(<<a, b>>) = 2 /\ <<c>> \in Seq(S) /\ Len(<<c>>) = 1
  OBVIOUS
<1>2. <<a, b>>[1] = a /\ <<a, b>>[2] = b /\ <<c>>[1] = c
  OBVIOUS
<1>3. s \in Seq(S) /\ Len(s) = 3 /\ s[1] = a /\ s[2] = b /\ s[3] = c
  BY <1>1, <1>2, ConcatProperties
<1>4. t \in Seq(S) /\ Len(t) = 3 /\ t[1] = a /\ t[2] = b /\ t[3] = c
  OBVIOUS
<1> HIDE DEF s, t
<1>5. \A i \in 1 .. 3 : i = 1 \/ i = 2 \/ i = 3
  OBVIOUS
<1>6. s = t
  BY <1>3, <1>4, <1>5, SeqEqual
<1> QED
  BY <1>6 DEF s, t

LEMMA Alone ==
  /\ \A a : <<a>> = <<"Up">> <=> a = "Up"
  /\ \A a, b : <<a, b>> # <<"Up">>
  /\ \A a, b, c : <<a, b, c>> # <<"Up">>
  /\ <<>> # <<"Up">>
OBVIOUS

Decoder == {"none", "esc", "csi"}

LEMMA Pieces ==
  /\ SerialByte \subseteq Code /\ "Up" \notin SerialByte
  /\ \A s \in Decoder : Held(s) \in Seq(Code) /\ Held(s) # <<"Up">>
  /\ Held("none") = <<>> /\ Held("esc") = <<"ESC">> /\ Held("csi") = <<"ESC", "[">>
BY DEF SerialByte, Code, Decoder, Held

LEMMA LastIsNoArrow ==
  ASSUME NEW s \in Decoder, NEW c \in SerialByte
  PROVE  /\ Held(s) \o <<c>> \in Seq(Code)
         /\ Spelling(Held(s) \o <<c>>) = Held(s) \o <<c>>
<1> DEFINE x == Held(s) \o <<c>>
<1>1. Held(s) \in Seq(Code) /\ <<c>> \in Seq(Code) /\ Len(<<c>>) = 1 /\ <<c>>[1] = c /\ c # "Up"
  <2>1. c \in Code /\ c # "Up"
    BY Pieces
  <2> QED
    BY <2>1, Pieces
<1>2. x \in Seq(Code) /\ Len(x) = Len(Held(s)) + 1 /\ x[Len(Held(s)) + 1] = c
  BY <1>1, ConcatProperties
<1> HIDE DEF x
<1>3. x # <<"Up">>
  <2> SUFFICES ASSUME x = <<"Up">> PROVE FALSE
    OBVIOUS
  <2>1. Len(x) = 1 /\ x[1] = "Up"
    OBVIOUS
  <2> QED
    BY <1>1, <1>2, <2>1
<1>4. Spelling(x) = x
  BY <1>3 DEF Spelling
<1> QED
  BY <1>2, <1>4 DEF x

\* A byte as it is delivered, and the same for one that need not have come.
Read(s, c) == IF s = "esc" /\ c = "O" THEN "[" ELSE c
ReadAll(s, bytes) == IF bytes = <<>> THEN <<>> ELSE <<Read(s, bytes[1])>>

LEMMA DecodeSpells ==
  ASSUME NEW s \in Decoder, NEW c \in SerialByte
  PROVE  LET d == Decode(s, c)
         IN  /\ d.seq \in Decoder /\ d.events \in Seq(Code)
             /\ Spelling(d.events) \o Held(d.seq) = Held(s) \o <<Read(s, c)>>
<1> DEFINE d == Decode(s, c)
<1>0. <<>> \in Seq(Code) /\ Spelling(<<>>) = <<>>
  BY Alone DEF Spelling
<1>1. CASE s = "none" /\ c = "ESC"
  <2>1. d.seq = "esc" /\ d.events = <<>> /\ Read(s, c) = "ESC"
    BY <1>1 DEF Decode, Read
  <2> HIDE DEF d
  <2> QED
    BY <1>0, <1>1, <2>1, Pieces DEF Decoder, d
<1>2. CASE s = "esc" /\ c \in {"[", "O"}
  <2>1. d.seq = "csi" /\ d.events = <<>> /\ Read(s, c) = "["
    BY <1>2 DEF Decode, Read
  <2> HIDE DEF d
  <2>2. <<"ESC">> \o <<"[">> = <<"ESC", "[">>
    BY Pair
  <2>3. <<>> \o <<"ESC", "[">> = <<"ESC", "[">>
    BY Pieces, ConcatEmptySeq DEF Decoder
  <2> QED
    BY <1>0, <1>2, <2>1, <2>2, <2>3, Pieces DEF Decoder, d
<1>3. CASE s = "csi" /\ c = "A"
  <2>1. d.seq = "none" /\ d.events = <<"Up">> /\ Read(s, c) = "A"
    BY <1>3 DEF Decode, Read
  <2> HIDE DEF d
  <2>2. Spelling(<<"Up">>) = <<"ESC", "[", "A">>
    BY DEF Spelling
  <2>3. <<"ESC", "[">> \o <<"A">> = <<"ESC", "[", "A">>
    BY Triple
  <2>4. <<"ESC", "[", "A">> \in Seq(Code)
    BY DEF Code, SerialByte
  <2>5. <<"ESC", "[", "A">> \o <<>> = <<"ESC", "[", "A">>
    BY <2>4, ConcatEmptySeq
  <2>6. <<"Up">> \in Seq(Code) /\ "none" \in Decoder
    BY DEF Code, Decoder
  <2> QED
    BY <1>3, <2>1, <2>2, <2>3, <2>5, <2>6, Pieces DEF d
<1>4. CASE ~(s = "none" /\ c = "ESC") /\ ~(s = "esc" /\ c \in {"[", "O"}) /\ ~(s = "csi" /\ c = "A")
  <2>1. d.seq = "none" /\ d.events = Held(s) \o <<c>>
    BY <1>4 DEF Decode
  <2> HIDE DEF d
  <2>2. Read(s, c) = c
    BY <1>4 DEF Read
  <2>3. Spelling(d.events) = Held(s) \o <<c>> /\ d.events \in Seq(Code)
    BY <2>1, LastIsNoArrow
  <2>4. (Held(s) \o <<c>>) \o <<>> = Held(s) \o <<c>>
    BY LastIsNoArrow, ConcatEmptySeq
  <2> QED
    BY <2>1, <2>2, <2>3, <2>4, Pieces DEF Decoder, d
<1> QED
  BY <1>1, <1>2, <1>3, <1>4

\* A round of the decoder, what was held for too long delivered first.
LEMMA SerialSpells ==
  ASSUME NEW from \in Decoder, NEW late \in BOOLEAN,
         NEW bytes \in {<<>>} \cup {<<c>> : c \in SerialByte}
  PROVE  LET s == IF late THEN "none" ELSE from
             d == IF bytes = <<>> THEN [seq |-> s, events |-> <<>>] ELSE Decode(s, bytes[1])
             events == (IF late THEN Held(from) ELSE <<>>) \o d.events
         IN  /\ d.seq \in Decoder /\ events \in Seq(Code)
             /\ Spelling(events) \o Held(d.seq) = Held(from) \o ReadAll(s, bytes)
<1> DEFINE s == IF late THEN "none" ELSE from
           d == IF bytes = <<>> THEN [seq |-> s, events |-> <<>>] ELSE Decode(s, bytes[1])
           events == (IF late THEN Held(from) ELSE <<>>) \o d.events
<1>1. Held(from) \in Seq(Code) /\ Spelling(Held(from)) = Held(from) /\ Spelling(<<>>) = <<>>
  BY Pieces, Alone DEF Spelling
<1>2. Held(from) \o <<>> = Held(from) /\ <<>> \o Held(from) = Held(from)
  BY <1>1, ConcatEmptySeq
<1>3. CASE bytes = <<>>
  <2>1. d.seq = s /\ d.events = <<>> /\ ReadAll(s, bytes) = <<>>
    BY <1>3 DEF ReadAll
  <2>2. <<>> \in Seq(Code) /\ <<>> \o <<>> = <<>>
    BY ConcatEmptySeq
  <2>3. CASE late
    <3>1. events = Held(from) /\ Held(d.seq) = <<>> /\ d.seq \in Decoder
      BY <1>2, <2>1, <2>3, Pieces DEF Decoder
    <3> QED
      BY <1>1, <1>2, <2>1, <3>1
  <2>4. CASE ~late
    <3>1. events = <<>> /\ d.seq = from
      BY <2>1, <2>2, <2>4
    <3> QED
      BY <1>1, <1>2, <2>1, <2>2, <3>1
  <2> QED
    BY <2>3, <2>4
<1>4. ASSUME NEW c \in SerialByte, bytes = <<c>>
      PROVE  /\ d.seq \in Decoder /\ events \in Seq(Code)
             /\ Spelling(events) \o Held(d.seq) = Held(from) \o ReadAll(s, bytes)
  <2>1. d = Decode(s, c) /\ ReadAll(s, bytes) = <<Read(s, c)>>
    BY <1>4 DEF ReadAll
  <2>2. CASE ~late
    <3>1. s = from /\ events = <<>> \o Decode(from, c).events
      BY <2>1, <2>2
    <3>2. events = Decode(from, c).events
      BY <3>1, DecodeSpells, ConcatEmptySeq
    <3>3. d = Decode(from, c) /\ ReadAll(s, bytes) = <<Read(from, c)>>
      BY <2>1, <3>1
    <3> HIDE DEF d, s, events
    <3> QED
      BY <3>2, <3>3, DecodeSpells
  <2>3. CASE late
    <3>1. s = "none" /\ Read(s, c) = c
      BY <2>3 DEF Read
    <3>2. CASE c = "ESC"
      <4>1. d.seq = "esc" /\ d.events = <<>>
        BY <2>1, <3>1, <3>2 DEF Decode
      <4>2. events = Held(from)
        BY <1>2, <2>3, <4>1
      <4>3. Held(d.seq) = <<"ESC">> /\ d.seq \in Decoder
        BY <4>1, Pieces DEF Decoder
      <4> QED
        BY <1>1, <2>1, <3>1, <3>2, <4>2, <4>3
    <3>3. CASE c # "ESC"
      <4>1. d = [seq |-> "none", events |-> Held("none") \o <<c>>]
        BY <2>1, <3>1, <3>3 DEF Decode
      <4>2. <<c>> \in Seq(Code)
        BY Pieces
      <4>3. d.events = <<c>>
        BY <4>1, <4>2, Pieces, ConcatEmptySeq
      <4>4. events = Held(from) \o <<c>>
        BY <2>3, <4>3
      <4>5. events \in Seq(Code) /\ Spelling(events) = Held(from) \o <<c>>
        BY <4>4, LastIsNoArrow
      <4>6. (Held(from) \o <<c>>) \o <<>> = Held(from) \o <<c>>
        BY LastIsNoArrow, ConcatEmptySeq
      <4>7. d.seq = "none" /\ Held(d.seq) = <<>> /\ d.seq \in Decoder
        BY <4>1, Pieces DEF Decoder
      <4>8. ReadAll(s, bytes) = <<c>>
        BY <2>1, <3>1
      <4> HIDE DEF s, d, events
      <4> QED
        BY <4>5, <4>6, <4>7, <4>8
    <3> QED
      BY <3>2, <3>3
  <2> QED
    BY <2>2, <2>3
<1> QED
  BY <1>3, <1>4

LEMMA CodesAssociate ==
  ASSUME NEW q \in Seq(Code), NEW a \in Seq(Code), NEW b \in Seq(Code)
  PROVE  (q \o a) \o b = q \o (a \o b)
BY ConcatAssociative

\* What it delivers and still holds goes on to spell what is typed.
LEMMA SerialEatsNothing ==
  ASSUME TypeOK, NothingEaten, NEW late \in BOOLEAN,
         NEW bytes \in {<<>>} \cup {<<c>> : c \in SerialByte}, Serial(late, bytes)
  PROVE  NothingEaten' /\ seq' \in Decoder /\ {typed', spelled'} \subseteq Seq(Code)
<1> DEFINE s == IF late THEN "none" ELSE seq
           d == IF bytes = <<>> THEN [seq |-> s, events |-> <<>>] ELSE Decode(s, bytes[1])
           events == (IF late THEN Held(seq) ELSE <<>>) \o d.events
           more == ReadAll(s, bytes)
           said == spelled \o Held(seq)
           next == spelled' \o Held(seq')
<1>1. seq \in Decoder /\ typed \in Seq(Code) /\ spelled \in Seq(Code) /\ Held(seq) \in Seq(Code)
  BY Pieces DEF TypeOK, Decoder
<1>2. /\ d.seq \in Decoder /\ events \in Seq(Code)
      /\ Spelling(events) \o Held(d.seq) = Held(seq) \o more
  BY <1>1, SerialSpells
<1>3. seq' = d.seq /\ typed' = typed \o bytes /\ spelled' = spelled \o Spelling(events)
  BY DEF Serial
<1> HIDE DEF d, events, next, said
<1>4. Spelling(events) \in Seq(Code) /\ Held(d.seq) \in Seq(Code)
  <2>1. <<"ESC", "[", "A">> \in Seq(Code)
    BY DEF Code, SerialByte
  <2>2. Spelling(events) \in Seq(Code)
    BY <1>2, <2>1 DEF Spelling
  <2> QED
    BY <1>2, <2>2, Pieces
<1>5. /\ bytes \in Seq(Code) /\ more \in Seq(Code) /\ Len(bytes) = Len(more) /\ Len(bytes) \in 0 .. 1
      /\ Len(bytes) = 1 => more[1] = Read(s, bytes[1])
  <2>1. CASE bytes = <<>>
    BY <2>1 DEF ReadAll
  <2>2. CASE \E c \in SerialByte : bytes = <<c>>
    <3>1. PICK c \in SerialByte : bytes = <<c>>
      BY <2>2
    <3>2. more = <<Read(s, c)>> /\ bytes[1] = c /\ c \in Code /\ Read(s, c) \in Code
      BY <3>1, Pieces DEF ReadAll, Read, Code, SerialByte
    <3> HIDE DEF more
    <3> QED
      BY <3>1, <3>2
  <2> QED
    BY <2>1, <2>2
<1> HIDE DEF more
<1>6. next = said \o more
  <2>1. next = spelled \o (Spelling(events) \o Held(d.seq))
    <3>1. next = (spelled \o Spelling(events)) \o Held(d.seq)
      BY <1>3 DEF next
    <3>2. spelled \in Seq(Code) /\ Spelling(events) \in Seq(Code) /\ Held(d.seq) \in Seq(Code)
      BY <1>1, <1>4
    <3>3. (spelled \o Spelling(events)) \o Held(d.seq) = spelled \o (Spelling(events) \o Held(d.seq))
      BY ONLY <3>2, CodesAssociate
    <3> QED
      BY ONLY <3>1, <3>3
  <2>2. (spelled \o Held(seq)) \o more = spelled \o (Held(seq) \o more)
    <3>1. spelled \in Seq(Code) /\ Held(seq) \in Seq(Code) /\ more \in Seq(Code)
      BY <1>1, <1>5
    <3> QED
      BY ONLY <3>1, CodesAssociate
  <2> QED
    BY <1>2, <2>1, <2>2 DEF said
<1>7. /\ said \in Seq(Code) /\ Len(said) = Len(typed) /\ Len(typed) \in Nat
      /\ \A i \in 1 .. Len(typed) :
           said[i] = typed[i] \/ (typed[i] = "O" /\ said[i] = "[" /\ i > 1 /\ typed[i - 1] = "ESC")
  BY <1>1 DEF NothingEaten, said
<1>8. /\ Len(next) = Len(typed) + Len(bytes) /\ Len(typed') = Len(typed) + Len(bytes)
      /\ \A i \in 1 .. Len(typed) : next[i] = said[i] /\ typed'[i] = typed[i]
      /\ Len(bytes) = 1 => next[Len(typed) + 1] = more[1] /\ typed'[Len(typed) + 1] = bytes[1]
  <2>1. /\ Len(said \o more) = Len(said) + Len(more)
        /\ \A i \in 1 .. Len(said) + Len(more) :
             (said \o more)[i] = IF i =< Len(said) THEN said[i] ELSE more[i - Len(said)]
    <3>1. said \in Seq(Code) /\ more \in Seq(Code)
      BY <1>5, <1>7
    <3> QED
      BY ONLY <3>1, ConcatProperties
  <2>2. /\ Len(typed \o bytes) = Len(typed) + Len(bytes)
        /\ \A i \in 1 .. Len(typed) + Len(bytes) :
             (typed \o bytes)[i] = IF i =< Len(typed) THEN typed[i] ELSE bytes[i - Len(typed)]
    <3>1. typed \in Seq(Code) /\ bytes \in Seq(Code)
      BY <1>1, <1>5
    <3> QED
      BY ONLY <3>1, ConcatProperties
  <2>3. \A i \in 1 .. Len(typed) : i \in 1 .. Len(typed) + Len(bytes) /\ i =< Len(typed)
    BY <1>5, <1>7
  <2>4. Len(bytes) = 1 => /\ Len(typed) + 1 \in 1 .. Len(typed) + Len(bytes)
                          /\ ~(Len(typed) + 1 =< Len(typed)) /\ Len(typed) + 1 - Len(typed) = 1
    BY <1>7
  <2> QED
    BY <1>3, <1>5, <1>6, <1>7, <2>1, <2>2, <2>3, <2>4
<1>9. ASSUME Len(bytes) = 1, more[1] # bytes[1]
      PROVE  bytes[1] = "O" /\ more[1] = "[" /\ Len(typed) > 0 /\ typed[Len(typed)] = "ESC"
  <2>1. s = "esc" /\ bytes[1] = "O" /\ more[1] = "["
    BY <1>5, <1>9 DEF Read
  <2>2. Held(seq) = <<"ESC">>
    BY <2>1, Pieces
  <2>3. Len(said) = Len(spelled) + 1 /\ said[Len(spelled) + 1] = "ESC" /\ Len(spelled) \in Nat
    BY <1>1, <2>2, ConcatProperties DEF said
  <2> QED
    BY <1>7, <2>1, <2>3
<1>10. ASSUME NEW i \in 1 .. Len(typed')
       PROVE  next[i] = typed'[i]
              \/ (typed'[i] = "O" /\ next[i] = "[" /\ i > 1 /\ typed'[i - 1] = "ESC")
  <2>1. CASE i =< Len(typed)
    BY <1>7, <1>8, <2>1
  <2>2. CASE ~(i =< Len(typed))
    <3>1. Len(bytes) = 1 /\ i = Len(typed) + 1 /\ i - 1 = Len(typed)
      BY <1>5, <1>7, <1>8, <2>2
    <3> QED
      BY <1>7, <1>8, <1>9, <3>1
  <2> QED
    BY <2>1, <2>2
<1>11. typed' \in Seq(Code) /\ spelled' \in Seq(Code)
  BY <1>1, <1>3, <1>4, <1>5, ConcatProperties
<1>12. DOMAIN typed' = 1 .. Len(typed') /\ Len(next) = Len(typed')
  BY <1>8, <1>11
<1>13. NothingEaten'
  BY <1>10, <1>12 DEF NothingEaten, next
<1> QED
  BY <1>2, <1>3, <1>11, <1>13

-----------------------------------------------------------------------------
(* The types *)

LEMMA InputType ==
  ASSUME TypeOK, NEW kind \in {"usb", "serial", "answers"}, Input(kind)
  PROVE  budget' \in [usb : Nat, serial : Nat, answers : Nat]
<1>1. budget \in [usb : Nat, serial : Nat, answers : Nat]
  BY DEF TypeOK
<1>2. budget[kind] > 0 /\ budget' = [budget EXCEPT ![kind] = budget[kind] - 1]
  BY DEF Input
<1>3. CASE kind = "usb"
  BY <1>1, <1>2, <1>3
<1>4. CASE kind = "serial"
  BY <1>1, <1>2, <1>4
<1>5. CASE kind = "answers"
  BY <1>1, <1>2, <1>5
<1> QED
  BY <1>3, <1>4, <1>5

LEMMA InitType == Init => TypeOK
<1> SUFFICES ASSUME Init PROVE TypeOK
  OBVIOUS
<1>1. NoKeys \in Report
  BY DEF NoKeys, Report
<1>2. "NUL" \in Code /\ 0 \in Slot /\ RxSize >= 0 /\ ActionQueueSize > 0
  BY Sizes DEF Code, Slot
<1>3. budget \in [usb : Nat, serial : Nat, answers : Nat]
  BY KeyPathAssumption DEF Init
<1>4. <<>> \in Seq(Code) /\ <<>> \in Seq(Action) /\ Len(<<>>) = 0
  OBVIOUS
<1> QED
  BY <1>1, <1>2, <1>3, <1>4 DEF Init, TypeOK

LEMMA ChangedType ==
  ASSUME NEW one, NEW other, NEW key \in {"a", "Up", "rollover"}, NEW down \in BOOLEAN
  PROVE  Changed(one, other, key, down) \in Seq(Action) /\ Shift(one, other, down) \in Seq(Action)
<1>1. [key |-> key, down |-> down] \in Action /\ [key |-> "shift", down |-> down] \in Action
  BY DEF Action
<1> QED
  BY <1>1 DEF Changed, Shift

LEMMA ActionsType ==
  ASSUME NEW old, NEW new PROVE ActionsOf(old, new) \in Seq(Action)
<1>1. ASSUME NEW one, NEW other, NEW down \in BOOLEAN PROVE Keys(one, other, down) \in Seq(Action)
  <2>1. /\ Changed(one, other, "a", down) \in Seq(Action)
        /\ Changed(one, other, "Up", down) \in Seq(Action)
        /\ Changed(one, other, "rollover", down) \in Seq(Action)
    BY ChangedType
  <2> QED
    BY <2>1 DEF Keys
<1>2. /\ Shift(old.shift, new.shift, FALSE) \in Seq(Action)
      /\ Shift(new.shift, old.shift, TRUE) \in Seq(Action)
  BY ChangedType
<1>3. Keys(old.keys, new.keys, FALSE) \in Seq(Action) /\ Keys(new.keys, old.keys, TRUE) \in Seq(Action)
  BY <1>1
<1>4. ASSUME NEW s1 \in Seq(Action), NEW s2 \in Seq(Action),
             NEW s3 \in Seq(Action), NEW s4 \in Seq(Action)
      PROVE  s1 \o s2 \o s3 \o s4 \in Seq(Action)
  OBVIOUS
<1> QED
  BY <1>2, <1>3, <1>4 DEF ActionsOf

LEMMA PressesType == ASSUME NEW old, NEW new PROVE Presses(old, new) \in Seq(Code)
<1>1. ASSUME NEW key \in {"a", "Up"} PROVE Pressed(old, new, key) \in Seq(Code)
  <2>1. Char(key, new.shift # {}) \in Code
    BY DEF Char, Code
  <2> QED
    BY <2>1 DEF Pressed
<1>2. Pressed(old, new, "a") \in Seq(Code) /\ Pressed(old, new, "Up") \in Seq(Code)
  BY <1>1
<1> QED
  BY <1>2 DEF Presses

\* What does not fit into the action queue is dropped.
LEMMA QueueTakes ==
  ASSUME TypeOK, NEW new \in Seq(Action)
  PROVE  LET n == Smaller(ActionRoom, Len(new))
         IN  /\ actions \o SubSeq(new, 1, n) \in Seq(Action)
             /\ Len(actions \o SubSeq(new, 1, n)) < ActionQueueSize
             /\ ~(n < Len(new)) => SubSeq(new, 1, n) = new
<1> DEFINE n == Smaller(ActionRoom, Len(new))
<1>1. actions \in Seq(Action) /\ Len(actions) \in Nat /\ Len(actions) < ActionQueueSize
  BY DEF TypeOK
<1>2. n \in Nat /\ n =< Len(new) /\ Len(actions) + n < ActionQueueSize
  BY <1>1, Sizes DEF Smaller, ActionRoom
<1>3. ~(n < Len(new)) => n = Len(new)
  BY <1>2
<1> HIDE DEF n
<1>4. \A i \in 1 .. n : new[i] \in Action
  BY <1>2
<1>5. SubSeq(new, 1, n) \in Seq(Action) /\ Len(SubSeq(new, 1, n)) = n
  BY <1>2, <1>4, SubSeqProperties
<1>6. ~(n < Len(new)) => SubSeq(new, 1, n) = new
  BY <1>3, SubSeqFull
<1> QED
  BY <1>1, <1>2, <1>5, <1>6, ConcatProperties DEF n

LEMMA KbdReportType ==
  ASSUME TypeOK, NEW k \in Keyboard, NEW r \in Report, KbdReport(k, r) PROVE TypeOK'
<1> DEFINE new == ActionsOf(prev, r)
<1>1. new \in Seq(Action)
  BY ActionsType
<1> HIDE DEF new
<1>2. actions' \in Seq(Action) /\ Len(actions') < ActionQueueSize
  BY <1>1, QueueTakes DEF KbdReport, new
<1>3. pressed' \in Seq(Code)
  <2>1. Presses(report[k], r) \in Seq(Code) /\ pressed \in Seq(Code)
    BY PressesType DEF TypeOK
  <2>2. pressed' = IF "usb" \in mishaps THEN pressed ELSE pressed \o Presses(report[k], r)
    BY DEF KbdReport
  <2> QED
    BY <2>1, <2>2
<1>4. report' \in [Keyboard -> Report] /\ prev' \in Report
  BY DEF KbdReport, TypeOK
<1>5. budget' \in [usb : Nat, serial : Nat, answers : Nat]
  BY InputType DEF KbdReport
<1>6. mishaps' \subseteq {"usb", "link"}
  BY DEF KbdReport, Mishap, TypeOK
<1> QED
  BY <1>2, <1>3, <1>4, <1>5, <1>6 DEF KbdReport, TypeOK, serialVars, keyqVars, linkVars

LEMMA UmountType == ASSUME TypeOK, NEW k \in Keyboard, Umount(k) PROVE TypeOK'
<1>1. report' \in [Keyboard -> Report]
  <2>1. NoKeys \in Report
    BY DEF NoKeys, Report
  <2> QED
    BY <2>1 DEF Umount, TypeOK
<1>2. budget' \in [usb : Nat, serial : Nat, answers : Nat]
  BY InputType DEF Umount
<1>3. mishaps' \subseteq {"usb", "link"}
  BY DEF Umount, Mishap, TypeOK
<1> QED
  BY <1>1, <1>2, <1>3 DEF Umount, TypeOK, serialVars, keyqVars, linkVars

\* The action at the head of the queue.
LEMMA HeadType ==
  ASSUME TypeOK, actions # <<>>
  PROVE  /\ Head(actions) \in Action /\ Tail(actions) \in Seq(Action)
         /\ Len(Tail(actions)) = Len(actions) - 1 /\ Len(actions) \in Nat \ {0}
<1>1. actions \in Seq(Action)
  BY DEF TypeOK
<1> QED
  BY <1>1, HeadTailProperties, EmptySeq

LEMMA InputPollType == ASSUME TypeOK, InputPoll PROVE TypeOK'
<1> DEFINE a == Head(actions)
           silent == ~a.down \/ a.key \in {"shift", "rollover"}
           char == Char(a.key, shiftDown)
<1>1. a \in Action /\ Tail(actions) \in Seq(Action) /\ Len(Tail(actions)) < ActionQueueSize
  <2>1. actions # <<>>
    BY DEF InputPoll
  <2>2. Len(actions) < ActionQueueSize
    BY DEF TypeOK
  <2> QED
    BY <2>1, <2>2, HeadType, Sizes
<1>2. /\ actions' = Tail(actions)
      /\ shiftDown' = IF a.key = "shift" THEN a.down ELSE shiftDown
      /\ heard' = IF silent \/ "usb" \in mishaps THEN heard ELSE Append(heard, char)
      /\ IF silent THEN UNCHANGED <<keyqVars, mishaps>> ELSE SendString(<<SentFor(char)>>)
  BY DEF InputPoll
<1>3. ~silent => char \in Code /\ SentFor(char) \in Code
  BY <1>1 DEF Action, Char, SentFor, Code, SerialByte
<1> HIDE DEF a
<1>4. shiftDown' \in BOOLEAN
  BY <1>1, <1>2 DEF TypeOK, Action
<1>5. heard' \in Seq(Code)
  <2>1. heard \in Seq(Code)
    BY DEF TypeOK
  <2> HIDE DEF char
  <2> QED
    BY <1>2, <1>3, <2>1
<1>6. /\ keyq' \in [Slot -> Code] /\ {keyqHead', keyqTail'} \subseteq Slot
      /\ sent' \in Seq(Code) /\ mishaps' \subseteq {"usb", "link"}
  <2>1. CASE silent
    BY <1>2, <2>1 DEF TypeOK, keyqVars
  <2>2. CASE ~silent
    <3>1. <<SentFor(char)>> \in Seq(Code) /\ SendString(<<SentFor(char)>>)
      BY <1>2, <1>3, <2>2
    <3> QED
      BY <3>1, SendType
  <2> QED
    BY <2>1, <2>2
<1> QED
  BY <1>1, <1>2, <1>4, <1>5, <1>6 DEF InputPoll, TypeOK, serialVars, linkVars

\* What the decoder delivers is sent byte by byte.
LEMMA SerialSends ==
  ASSUME TypeOK, NEW late \in BOOLEAN,
         NEW bytes \in {<<>>} \cup {<<c>> : c \in SerialByte}, Serial(late, bytes)
  PROVE  \E out \in Seq(Code) : SendString(out)
<1> DEFINE s == IF late THEN "none" ELSE seq
           d == IF bytes = <<>> THEN [seq |-> s, events |-> <<>>] ELSE Decode(s, bytes[1])
           events == (IF late THEN Held(seq) ELSE <<>>) \o d.events
           out == [i \in DOMAIN events |-> SentFor(events[i])]
<1>1. SendString(out)
  BY DEF Serial
<1>2. events \in Seq(Code)
  <2>1. seq \in Decoder
    BY DEF TypeOK, Decoder
  <2> QED
    BY <2>1, SerialSpells
<1> HIDE DEF events
<1>3. ASSUME NEW i \in 1 .. Len(events) PROVE SentFor(events[i]) \in Code
  <2>1. events[i] \in Code
    BY <1>2
  <2> QED
    BY <2>1 DEF SentFor, Code
<1>4. out \in Seq(Code)
  <2>1. DOMAIN events = 1 .. Len(events) /\ Len(events) \in Nat
    BY <1>2
  <2> QED
    BY <1>3, <2>1
<1> QED
  BY <1>1, <1>4

LEMMA SerialType ==
  ASSUME TypeOK, NothingEaten, NEW late \in BOOLEAN,
         NEW bytes \in {<<>>} \cup {<<c>> : c \in SerialByte}, Serial(late, bytes)
  PROVE  TypeOK'
<1>1. seq' \in {"none", "esc", "csi"} /\ {typed', spelled'} \subseteq Seq(Code)
  BY SerialEatsNothing DEF Decoder
<1>2. /\ keyq' \in [Slot -> Code] /\ {keyqHead', keyqTail'} \subseteq Slot
      /\ sent' \in Seq(Code) /\ mishaps' \subseteq {"usb", "link"}
  BY SerialSends, SendType
<1>3. budget' \in [usb : Nat, serial : Nat, answers : Nat]
  <2>1. CASE bytes = <<>>
    BY <2>1 DEF Serial, TypeOK
  <2>2. CASE bytes # <<>>
    BY <2>2, InputType DEF Serial
  <2> QED
    BY <2>1, <2>2
<1> QED
  BY <1>1, <1>2, <1>3 DEF Serial, TypeOK, usbVars, linkVars

LEMMA AnswerSends == ASSUME Answer PROVE \E out \in Seq(Code) : SendString(out)
<1>1. <<"ESC", "answer">> \in Seq(Code)
  BY DEF Code, SerialByte
<1> QED
  BY <1>1 DEF Answer

LEMMA AnswerType == ASSUME TypeOK, Answer PROVE TypeOK'
<1>1. /\ keyq' \in [Slot -> Code] /\ {keyqHead', keyqTail'} \subseteq Slot
      /\ sent' \in Seq(Code) /\ mishaps' \subseteq {"usb", "link"}
  BY AnswerSends, SendType
<1>2. budget' \in [usb : Nat, serial : Nat, answers : Nat]
  BY InputType DEF Answer
<1> QED
  BY <1>1, <1>2 DEF Answer, TypeOK, usbVars, serialVars, linkVars

\* The loop goes on, or Linux reads.
LEMMA OthersType ==
  ASSUME TypeOK, UsbDone \/ NoDoorbell \/ LinuxReads \/ UNCHANGED vars PROVE TypeOK'
<1>1. CASE UsbDone \/ NoDoorbell
  BY <1>1 DEF UsbDone, NoDoorbell, TypeOK, usbVars, serialVars, keyqVars, linkVars
<1>2. CASE LinuxReads
  <2>1. <<>> \in Seq(Code) /\ Len(<<>>) =< RxSize
    BY Sizes
  <2> QED
    BY <1>2, <2>1 DEF LinuxReads, TypeOK, usbVars, serialVars, keyqVars
<1>3. CASE UNCHANGED vars
  BY <1>3 DEF vars, TypeOK, usbVars, serialVars, keyqVars, linkVars
<1> QED
  BY <1>1, <1>2, <1>3

-----------------------------------------------------------------------------
(* From a key to the terminal *)

\* An action that the terminal is fed, and what an action leaves of Shift.
Speaks(a) == a.down /\ a.key \notin {"shift", "rollover"}
ShiftAfter(a, shift) == IF a.key = "shift" THEN a.down ELSE shift

(***************************************************************************)
(* The actions q, played one after the other to a terminal that has heard  *)
(* n keys, with Shift as before, feed it the rest of words and leave Shift *)
(* as after: there are a Shift and a count for each point between two      *)
(* actions that say so.                                                    *)
(***************************************************************************)
Tells(q, before, n, words, after) ==
  \E shift \in [0 .. Len(q) -> BOOLEAN], said \in [0 .. Len(q) -> 0 .. Len(words)] :
    /\ shift[0] = before /\ shift[Len(q)] = after
    /\ said[0] = n /\ said[Len(q)] = Len(words)
    /\ \A i \in 1 .. Len(q) :
         /\ shift[i] = ShiftAfter(q[i], shift[i - 1])
         /\ said[i] = IF Speaks(q[i]) THEN said[i - 1] + 1 ELSE said[i - 1]
         /\ Speaks(q[i]) => words[said[i]] = Char(q[i].key, shift[i - 1])

LEMMA NothingToTell ==
  ASSUME NEW b \in BOOLEAN, NEW words \in Seq(Code) PROVE Tells(<<>>, b, Len(words), words, b)
<1>1. Len(words) \in Nat /\ Len(<<>>) = 0
  OBVIOUS
<1> DEFINE shift == [i \in 0 .. 0 |-> b]
           said == [i \in 0 .. 0 |-> Len(words)]
<1>2. shift \in [0 .. 0 -> BOOLEAN] /\ said \in [0 .. 0 -> 0 .. Len(words)]
  BY <1>1
<1>3. shift[0] = b /\ said[0] = Len(words)
  BY <1>1
<1> HIDE DEF shift, said
<1> QED
  BY <1>1, <1>2, <1>3 DEF Tells

LEMMA AllIsTold ==
  ASSUME NEW b, NEW s, NEW n, NEW words, Tells(<<>>, b, n, words, s) PROVE n = Len(words)
BY DEF Tells

\* Playing the first action.
LEMMA TellsRest ==
  ASSUME NEW q \in Seq(Action), q # <<>>, NEW words \in Seq(Code), NEW b, NEW s, NEW n \in Nat,
         Tells(q, b, n, words, s)
  PROVE  /\ Tells(Tail(q), ShiftAfter(Head(q), b), IF Speaks(Head(q)) THEN n + 1 ELSE n, words, s)
         /\ Speaks(Head(q)) => /\ n + 1 =< Len(words)
                               /\ words[n + 1] = Char(Head(q).key, b)
<1>1. PICK shift \in [0 .. Len(q) -> BOOLEAN], said \in [0 .. Len(q) -> 0 .. Len(words)] :
        /\ shift[0] = b /\ shift[Len(q)] = s
        /\ said[0] = n /\ said[Len(q)] = Len(words)
        /\ \A i \in 1 .. Len(q) :
             /\ shift[i] = ShiftAfter(q[i], shift[i - 1])
             /\ said[i] = IF Speaks(q[i]) THEN said[i - 1] + 1 ELSE said[i - 1]
             /\ Speaks(q[i]) => words[said[i]] = Char(q[i].key, shift[i - 1])
  BY DEF Tells
<1>2. /\ Len(q) \in Nat \ {0} /\ Tail(q) \in Seq(Action) /\ Len(Tail(q)) = Len(q) - 1
      /\ \A i \in 1 .. Len(q) - 1 : Tail(q)[i] = q[i + 1]
      /\ Head(q) = q[1] /\ Len(words) \in Nat
  BY HeadTailProperties, EmptySeq
<1>3. 1 \in 1 .. Len(q) /\ 1 \in 0 .. Len(q) /\ 1 - 1 = 0
  BY <1>2
<1>4. /\ shift[1] = ShiftAfter(Head(q), b)
      /\ said[1] = IF Speaks(Head(q)) THEN n + 1 ELSE n
      /\ Speaks(Head(q)) => words[said[1]] = Char(Head(q).key, b)
      /\ said[1] \in 0 .. Len(words)
  BY <1>1, <1>2, <1>3
<1> DEFINE t == Tail(q)
           shift2 == [i \in 0 .. Len(t) |-> shift[i + 1]]
           said2 == [i \in 0 .. Len(t) |-> said[i + 1]]
<1> HIDE DEF t
<1>5. \A i \in 0 .. Len(t) : i + 1 \in 0 .. Len(q)
  BY <1>2 DEF t
<1>6. /\ shift2 \in [0 .. Len(t) -> BOOLEAN] /\ said2 \in [0 .. Len(t) -> 0 .. Len(words)]
      /\ \A i \in 0 .. Len(t) : shift2[i] = shift[i + 1] /\ said2[i] = said[i + 1]
  BY <1>5
<1> HIDE DEF shift2, said2
<1>7. 0 \in 0 .. Len(t) /\ Len(t) \in 0 .. Len(t) /\ 0 + 1 = 1 /\ Len(t) + 1 = Len(q)
  BY <1>2 DEF t
<1>8. /\ shift2[0] = ShiftAfter(Head(q), b) /\ shift2[Len(t)] = s
      /\ said2[0] = (IF Speaks(Head(q)) THEN n + 1 ELSE n) /\ said2[Len(t)] = Len(words)
  BY <1>1, <1>4, <1>6, <1>7
<1>9. ASSUME NEW i \in 1 .. Len(t)
      PROVE  /\ shift2[i] = ShiftAfter(t[i], shift2[i - 1])
             /\ said2[i] = IF Speaks(t[i]) THEN said2[i - 1] + 1 ELSE said2[i - 1]
             /\ Speaks(t[i]) => words[said2[i]] = Char(t[i].key, shift2[i - 1])
  <2>1. /\ i \in 0 .. Len(t) /\ i - 1 \in 0 .. Len(t) /\ i - 1 + 1 = i /\ i + 1 - 1 = i
        /\ i + 1 \in 1 .. Len(q)
    BY <1>2 DEF t
  <2>2. t[i] = q[i + 1]
    BY <1>2 DEF t
  <2>3. shift2[i] = shift[i + 1] /\ shift2[i - 1] = shift[i] /\ said2[i] = said[i + 1] /\ said2[i - 1] = said[i]
    BY <1>6, <2>1
  <2>4. /\ shift[i + 1] = ShiftAfter(q[i + 1], shift[i])
        /\ said[i + 1] = IF Speaks(q[i + 1]) THEN said[i] + 1 ELSE said[i]
        /\ Speaks(q[i + 1]) => words[said[i + 1]] = Char(q[i + 1].key, shift[i])
    BY <1>1, <2>1
  <2> QED
    BY <2>2, <2>3, <2>4
<1>10. Tells(t, ShiftAfter(Head(q), b), IF Speaks(Head(q)) THEN n + 1 ELSE n, words, s)
  BY <1>6, <1>8, <1>9 DEF Tells
<1>11. Speaks(Head(q)) => n + 1 =< Len(words) /\ words[n + 1] = Char(Head(q).key, b)
  BY <1>2, <1>4
<1> QED
  BY <1>10, <1>11 DEF t

\* One more action, and the key that it feeds, if it feeds one.
LEMMA TellsOn ==
  ASSUME NEW q \in Seq(Action), NEW words \in Seq(Code), NEW b, NEW s, NEW n \in Nat,
         NEW a \in Action, NEW more \in Seq(Code), Tells(q, b, n, words, s),
         more = IF Speaks(a) THEN <<Char(a.key, s)>> ELSE <<>>, ShiftAfter(a, s) \in BOOLEAN
  PROVE  Tells(q \o <<a>>, b, n, words \o more, ShiftAfter(a, s))
<1>1. PICK shift \in [0 .. Len(q) -> BOOLEAN], said \in [0 .. Len(q) -> 0 .. Len(words)] :
        /\ shift[0] = b /\ shift[Len(q)] = s
        /\ said[0] = n /\ said[Len(q)] = Len(words)
        /\ \A i \in 1 .. Len(q) :
             /\ shift[i] = ShiftAfter(q[i], shift[i - 1])
             /\ said[i] = IF Speaks(q[i]) THEN said[i - 1] + 1 ELSE said[i - 1]
             /\ Speaks(q[i]) => words[said[i]] = Char(q[i].key, shift[i - 1])
  BY DEF Tells
<1> DEFINE Q == q \o <<a>>
           W == words \o more
           shift2 == [i \in 0 .. Len(Q) |-> IF i =< Len(q) THEN shift[i] ELSE ShiftAfter(a, s)]
           said2 == [i \in 0 .. Len(Q) |-> IF i =< Len(q) THEN said[i] ELSE Len(W)]
<1>2. /\ Len(q) \in Nat /\ Len(Q) = Len(q) + 1
      /\ \A i \in 1 .. Len(q) : Q[i] = q[i]
      /\ Q[Len(q) + 1] = a
  <2>1. <<a>> \in Seq(Action) /\ Len(<<a>>) = 1 /\ <<a>>[1] = a
    OBVIOUS
  <2> QED
    BY <2>1, ConcatProperties
<1>3. /\ Len(words) \in Nat /\ Len(W) = Len(words) + Len(more)
      /\ \A i \in 1 .. Len(words) : W[i] = words[i]
      /\ Speaks(a) => Len(W) = Len(words) + 1 /\ W[Len(words) + 1] = Char(a.key, s)
      /\ ~Speaks(a) => Len(W) = Len(words)
  <2>1. Speaks(a) => Len(more) = 1 /\ more[1] = Char(a.key, s)
    OBVIOUS
  <2>2. ~Speaks(a) => Len(more) = 0
    OBVIOUS
  <2>3. /\ Len(W) = Len(words) + Len(more) /\ Len(words) \in Nat /\ Len(more) \in Nat
        /\ \A i \in 1 .. Len(words) + Len(more) :
             W[i] = IF i =< Len(words) THEN words[i] ELSE more[i - Len(words)]
    BY ConcatProperties
  <2> HIDE DEF W
  <2>4. \A i \in 1 .. Len(words) : W[i] = words[i]
    BY <2>3
  <2>5. ASSUME Speaks(a) PROVE W[Len(words) + 1] = Char(a.key, s)
    <3>1. /\ Len(words) + 1 \in 1 .. Len(words) + Len(more)
          /\ ~(Len(words) + 1 =< Len(words)) /\ Len(words) + 1 - Len(words) = 1
      BY <2>1, <2>3, <2>5
    <3>2. W[Len(words) + 1] = more[1]
      BY <2>3, <3>1
    <3> QED
      BY <2>1, <2>5, <3>2
  <2> QED
    BY <2>1, <2>2, <2>3, <2>4, <2>5
<1> HIDE DEF Q, W
<1>4. /\ shift2 \in [0 .. Len(Q) -> BOOLEAN] /\ said2 \in [0 .. Len(Q) -> 0 .. Len(W)]
      /\ \A i \in 0 .. Len(q) : shift2[i] = shift[i] /\ said2[i] = said[i]
      /\ shift2[Len(q) + 1] = ShiftAfter(a, s) /\ said2[Len(q) + 1] = Len(W)
  <2>1. \A i \in 0 .. Len(q) : i \in 0 .. Len(Q) /\ i =< Len(q)
    BY <1>2
  <2>2. Len(q) + 1 \in 0 .. Len(Q) /\ ~(Len(q) + 1 =< Len(q))
    BY <1>2
  <2>3. Len(W) \in 0 .. Len(W) /\ 0 .. Len(words) \subseteq 0 .. Len(W)
    BY <1>3
  <2>4. \A i \in 0 .. Len(Q) : i =< Len(q) => i \in 0 .. Len(q)
    BY <1>2
  <2>5. shift2 \in [0 .. Len(Q) -> BOOLEAN]
    BY <2>4
  <2>6. \A i \in 0 .. Len(q) : said[i] \in 0 .. Len(W)
    BY <2>3
  <2>7. said2 \in [0 .. Len(Q) -> 0 .. Len(W)]
    BY <2>3, <2>4, <2>6
  <2> QED
    BY <2>1, <2>2, <2>5, <2>7
<1> HIDE DEF shift2, said2
<1>5. /\ shift2[0] = b /\ shift2[Len(Q)] = ShiftAfter(a, s)
      /\ said2[0] = n /\ said2[Len(Q)] = Len(W)
  BY <1>1, <1>2, <1>4
<1>6. ASSUME NEW i \in 1 .. Len(Q)
      PROVE  /\ shift2[i] = ShiftAfter(Q[i], shift2[i - 1])
             /\ said2[i] = IF Speaks(Q[i]) THEN said2[i - 1] + 1 ELSE said2[i - 1]
             /\ Speaks(Q[i]) => W[said2[i]] = Char(Q[i].key, shift2[i - 1])
  <2>1. CASE i \in 1 .. Len(q)
    <3>1. /\ i \in 0 .. Len(q) /\ i - 1 \in 0 .. Len(q)
      BY <2>1
    <3>2. /\ shift[i] = ShiftAfter(q[i], shift[i - 1])
          /\ said[i] = IF Speaks(q[i]) THEN said[i - 1] + 1 ELSE said[i - 1]
          /\ Speaks(q[i]) => words[said[i]] = Char(q[i].key, shift[i - 1])
      BY <1>1, <2>1
    <3>3. said[i] \in 0 .. Len(words) /\ said[i - 1] \in 0 .. Len(words)
      BY <3>1
    <3>4. Speaks(q[i]) => said[i] \in 1 .. Len(words)
      BY <1>3, <3>2, <3>3
    <3>5. Speaks(q[i]) => W[said[i]] = words[said[i]]
      BY <1>3, <3>4
    <3>6. /\ shift2[i] = shift[i] /\ shift2[i - 1] = shift[i - 1]
          /\ said2[i] = said[i] /\ said2[i - 1] = said[i - 1] /\ Q[i] = q[i]
      BY <1>2, <1>4, <2>1, <3>1
    <3> QED
      BY <3>2, <3>5, <3>6
  <2>2. CASE i = Len(q) + 1
    <3>1. i - 1 = Len(q) /\ Len(q) \in 0 .. Len(q)
      BY <1>2, <2>2
    <3>2. shift2[i - 1] = s /\ said2[i - 1] = Len(words)
      BY <1>1, <1>4, <3>1
    <3> QED
      BY <1>2, <1>3, <1>4, <2>2, <3>2
  <2> QED
    BY <1>2, <2>1, <2>2
<1>7. Tells(Q, b, n, W, ShiftAfter(a, s))
  BY <1>4, <1>5, <1>6 DEF Tells
<1> QED
  BY <1>7 DEF Q, W

\* The same for what a report gives: a Shift,
LEMMA TellsShift ==
  ASSUME NEW q \in Seq(Action), NEW words \in Seq(Code), NEW b, NEW s \in BOOLEAN, NEW n \in Nat,
         Tells(q, b, n, words, s), NEW down \in BOOLEAN
  PROVE  LET a == [key |-> "shift", down |-> down]
         IN  q \o <<a>> \in Seq(Action) /\ Tells(q \o <<a>>, b, n, words, down)
<1> DEFINE a == [key |-> "shift", down |-> down]
<1>1. a \in Action /\ ~Speaks(a) /\ ShiftAfter(a, s) = down
  BY DEF Action, Speaks, ShiftAfter
<1> HIDE DEF a
<1>2. <<>> \in Seq(Code) /\ <<>> = IF Speaks(a) THEN <<Char(a.key, s)>> ELSE <<>>
  BY <1>1
<1>3. Tells(q \o <<a>>, b, n, words \o <<>>, ShiftAfter(a, s))
  BY <1>1, <1>2, TellsOn
<1>4. words \o <<>> = words
  BY ConcatEmptySeq
<1>5. Tells(q \o <<a>>, b, n, words, down)
  BY <1>1, <1>3, <1>4
<1>6. q \o <<a>> \in Seq(Action)
  BY <1>1
<1> QED
  BY <1>5, <1>6 DEF a

\* a key that is not heard, being released or of no meaning, or nothing,
LEMMA TellsUnheard ==
  ASSUME NEW q \in Seq(Action), NEW words \in Seq(Code), NEW b, NEW s \in BOOLEAN, NEW n \in Nat,
         Tells(q, b, n, words, s), NEW a \in Action, ~Speaks(a), a.key # "shift",
         NEW one \in Seq(Action), one = <<a>> \/ one = <<>>
  PROVE  q \o one \in Seq(Action) /\ Tells(q \o one, b, n, words, s)
<1>1. words \o <<>> = words /\ q \o <<>> = q
  BY ConcatEmptySeq
<1>2. CASE one = <<a>>
  <2>1. ShiftAfter(a, s) = s
    BY DEF ShiftAfter
  <2>2. <<>> \in Seq(Code) /\ <<>> = IF Speaks(a) THEN <<Char(a.key, s)>> ELSE <<>>
    OBVIOUS
  <2>3. Tells(q \o <<a>>, b, n, words \o <<>>, ShiftAfter(a, s))
    BY <2>1, <2>2, TellsOn
  <2> QED
    BY <1>1, <1>2, <2>1, <2>3
<1>3. CASE one = <<>>
  BY <1>1, <1>3
<1> QED
  BY <1>2, <1>3

\* and a key that is heard, or nothing.
LEMMA TellsKey ==
  ASSUME NEW q \in Seq(Action), NEW words \in Seq(Code), NEW b, NEW s \in BOOLEAN, NEW n \in Nat,
         Tells(q, b, n, words, s), NEW a \in Action, Speaks(a),
         NEW one \in Seq(Action), NEW more \in Seq(Code),
         \/ one = <<a>> /\ more = <<Char(a.key, s)>>
         \/ one = <<>> /\ more = <<>>
  PROVE  /\ q \o one \in Seq(Action) /\ words \o more \in Seq(Code)
         /\ Tells(q \o one, b, n, words \o more, s)
<1>1. words \o <<>> = words /\ q \o <<>> = q
  BY ConcatEmptySeq
<1>2. CASE one = <<a>> /\ more = <<Char(a.key, s)>>
  <2>1. ShiftAfter(a, s) = s
    BY DEF ShiftAfter, Speaks
  <2>2. more = IF Speaks(a) THEN <<Char(a.key, s)>> ELSE <<>>
    BY <1>2
  <2>3. Tells(q \o <<a>>, b, n, words \o more, ShiftAfter(a, s))
    BY <2>1, <2>2, TellsOn
  <2> QED
    BY <1>2, <2>1, <2>3
<1>3. CASE one = <<>> /\ more = <<>>
  BY <1>1, <1>3
<1> QED
  BY <1>2, <1>3

LEMMA TwoMore ==
  ASSUME NEW q \in Seq(Action), NEW a \in Seq(Action), NEW b \in Seq(Action)
  PROVE  q \o (a \o b) = (q \o a) \o b
BY ConcatAssociative

\* The events of a report feed the keys that it presses, with its Shift.
LEMMA ReportTells ==
  ASSUME NEW q \in Seq(Action), NEW words \in Seq(Code), NEW b, NEW n \in Nat,
         NEW old \in Report, NEW r \in Report,
         old.shift # {"left", "right"}, r.shift # {"left", "right"}, r.keys # {"rollover"},
         Tells(q, b, n, words, old.shift # {})
  PROVE  Tells(q \o ActionsOf(old, r), b, n, words \o Presses(old, r), r.shift # {})
<1> DEFINE up(key) == [key |-> key, down |-> FALSE]
           down(key) == [key |-> key, down |-> TRUE]
           off == old.shift \ r.shift # {}
           on == r.shift \ old.shift # {}
           was == old.shift # {}
           mid == IF off THEN FALSE ELSE was
           now == IF on THEN TRUE ELSE mid
           s1 == Shift(old.shift, r.shift, FALSE)
           s2 == Shift(r.shift, old.shift, TRUE)
           k1 == Changed(old.keys, r.keys, "a", FALSE)
           k2 == Changed(old.keys, r.keys, "Up", FALSE)
           k3 == Changed(old.keys, r.keys, "rollover", FALSE)
           k4 == Changed(r.keys, old.keys, "a", TRUE)
           k5 == Changed(r.keys, old.keys, "Up", TRUE)
           k6 == Changed(r.keys, old.keys, "rollover", TRUE)
           p4 == Pressed(old, r, "a")
           p5 == Pressed(old, r, "Up")
<1>1. now = (r.shift # {})
  <2>1. old.shift \subseteq {"left", "right"} /\ r.shift \subseteq {"left", "right"}
    BY DEF Report
  <2>2. CASE r.shift = {}
    <3>1. ~on /\ (old.shift # {} => off)
      BY <2>2
    <3> QED
      BY <2>2, <3>1
  <2>3. CASE r.shift # {}
    <3>1. ASSUME ~on PROVE old.shift # {} /\ ~off
      <4>1. r.shift \subseteq old.shift
        BY <3>1
      <4>2. PICK one : one \in r.shift
        BY <2>3
      <4>3. ASSUME NEW two \in old.shift, two \notin r.shift PROVE FALSE
        <5>1. one \in old.shift /\ one # two
          BY <4>1, <4>2, <4>3
        <5>2. one \in {"left", "right"} /\ two \in {"left", "right"}
          BY <2>1, <4>2, <4>3
        <5>3. old.shift = {"left", "right"}
          BY <2>1, <4>3, <5>1, <5>2
        <5> QED
          BY <5>3
      <4> QED
        BY <4>1, <4>2, <4>3
    <3> QED
      BY <2>3, <3>1
  <2> QED
    BY <2>2, <2>3
<1>2. \A key \in {"shift", "a", "Up", "rollover"} :
        /\ up(key) \in Action /\ down(key) \in Action /\ ~Speaks(up(key))
        /\ up(key).key = key /\ ~up(key).down /\ down(key).key = key /\ down(key).down
  BY DEF Action, Speaks
<1>3. /\ ~Speaks(down("shift")) /\ ~Speaks(down("rollover"))
      /\ Speaks(down("a")) /\ Speaks(down("Up"))
  BY DEF Speaks
<1>4. /\ s1 = (IF off THEN <<up("shift")>> ELSE <<>>)
      /\ s2 = (IF on THEN <<down("shift")>> ELSE <<>>)
      /\ k1 = (IF "a" \in old.keys \ r.keys THEN <<up("a")>> ELSE <<>>)
      /\ k2 = (IF "Up" \in old.keys \ r.keys THEN <<up("Up")>> ELSE <<>>)
      /\ k3 = (IF "rollover" \in old.keys \ r.keys THEN <<up("rollover")>> ELSE <<>>)
      /\ k4 = (IF "a" \in r.keys \ old.keys THEN <<down("a")>> ELSE <<>>)
      /\ k5 = (IF "Up" \in r.keys \ old.keys THEN <<down("Up")>> ELSE <<>>)
      /\ k6 = (IF "rollover" \in r.keys \ old.keys THEN <<down("rollover")>> ELSE <<>>)
  BY DEF Shift, Changed
<1>5. /\ p4 = (IF "a" \in r.keys \ old.keys THEN <<Char("a", now)>> ELSE <<>>)
      /\ p5 = (IF "Up" \in r.keys \ old.keys THEN <<Char("Up", now)>> ELSE <<>>)
  BY <1>1 DEF Pressed
<1>6. was \in BOOLEAN /\ mid \in BOOLEAN /\ now \in BOOLEAN /\ off \in BOOLEAN /\ on \in BOOLEAN
  OBVIOUS
<1>7. /\ ActionsOf(old, r) = s1 \o s2 \o (k1 \o k2 \o k3) \o (k4 \o k5 \o k6)
      /\ Presses(old, r) = p4 \o p5
  BY DEF ActionsOf, Keys, Presses
<1>8. /\ s1 \in Seq(Action) /\ s2 \in Seq(Action) /\ k1 \in Seq(Action) /\ k2 \in Seq(Action)
      /\ k3 \in Seq(Action) /\ k4 \in Seq(Action) /\ k5 \in Seq(Action) /\ k6 \in Seq(Action)
  BY ChangedType
<1>9. p4 \in Seq(Code) /\ p5 \in Seq(Code)
  <2>1. Char("a", now) \in Code /\ Char("Up", now) \in Code
    BY DEF Char, Code
  <2> HIDE DEF p4, p5, now
  <2> QED
    BY <1>5, <2>1
<1>10. \/ s1 = <<[key |-> "shift", down |-> FALSE]>> /\ mid = FALSE
       \/ s1 = <<>> /\ mid = was
  BY <1>4
<1>11. \/ s2 = <<[key |-> "shift", down |-> TRUE]>> /\ now = TRUE
       \/ s2 = <<>> /\ now = mid
  BY <1>4
<1>12. /\ k1 = <<up("a")>> \/ k1 = <<>>
       /\ k2 = <<up("Up")>> \/ k2 = <<>>
       /\ k3 = <<up("rollover")>> \/ k3 = <<>>
       /\ k6 = <<down("rollover")>> \/ k6 = <<>>
  BY <1>4
<1>13. /\ \/ k4 = <<down("a")>> /\ p4 = <<Char(down("a").key, now)>>
          \/ k4 = <<>> /\ p4 = <<>>
       /\ \/ k5 = <<down("Up")>> /\ p5 = <<Char(down("Up").key, now)>>
          \/ k5 = <<>> /\ p5 = <<>>
  BY <1>2, <1>4, <1>5
<1> HIDE DEF s1, s2, k1, k2, k3, k4, k5, k6, p4, p5, up, down, was, mid, now
<1> DEFINE q1 == q \o s1
           q2 == q1 \o s2
           q3 == q2 \o k1
           q4 == q3 \o k2
           q5 == q4 \o k3
           q6 == q5 \o k4
           q7 == q6 \o k5
           q8 == q7 \o k6
           w6 == words \o p4
           w7 == w6 \o p5
<1>14. q1 \in Seq(Action) /\ Tells(q1, b, n, words, mid)
  <2>1. Tells(q, b, n, words, was)
    BY DEF was
  <2>2. CASE s1 = <<[key |-> "shift", down |-> FALSE]>> /\ mid = FALSE
    BY <1>6, <2>1, <2>2, TellsShift
  <2>3. CASE s1 = <<>> /\ mid = was
    BY <2>1, <2>3, ConcatEmptySeq
  <2> QED
    BY <1>10, <2>2, <2>3
<1> HIDE DEF q1
<1>15. q2 \in Seq(Action) /\ Tells(q2, b, n, words, now)
  <2>1. CASE s2 = <<[key |-> "shift", down |-> TRUE]>> /\ now = TRUE
    BY <1>6, <1>14, <2>1, TellsShift
  <2>2. CASE s2 = <<>> /\ now = mid
    BY <1>14, <2>2, ConcatEmptySeq
  <2> QED
    BY <1>11, <2>1, <2>2
<1> HIDE DEF q2
<1>16. q3 \in Seq(Action) /\ Tells(q3, b, n, words, now)
  <2>1. up("a") \in Action /\ ~Speaks(up("a")) /\ up("a").key # "shift"
    BY <1>2, <1>3
  <2>2. k1 \in Seq(Action) /\ now \in BOOLEAN /\ (k1 = <<up("a")>> \/ k1 = <<>>)
    BY <1>6, <1>8, <1>12
  <2> QED
    BY <1>15, <2>1, <2>2, TellsUnheard
<1> HIDE DEF q3
<1>17. q4 \in Seq(Action) /\ Tells(q4, b, n, words, now)
  <2>1. up("Up") \in Action /\ ~Speaks(up("Up")) /\ up("Up").key # "shift"
    BY <1>2, <1>3
  <2>2. k2 \in Seq(Action) /\ now \in BOOLEAN /\ (k2 = <<up("Up")>> \/ k2 = <<>>)
    BY <1>6, <1>8, <1>12
  <2> QED
    BY <1>16, <2>1, <2>2, TellsUnheard
<1> HIDE DEF q4
<1>18. q5 \in Seq(Action) /\ Tells(q5, b, n, words, now)
  <2>1. up("rollover") \in Action /\ ~Speaks(up("rollover")) /\ up("rollover").key # "shift"
    BY <1>2, <1>3
  <2>2. k3 \in Seq(Action) /\ now \in BOOLEAN /\ (k3 = <<up("rollover")>> \/ k3 = <<>>)
    BY <1>6, <1>8, <1>12
  <2> QED
    BY <1>17, <2>1, <2>2, TellsUnheard
<1> HIDE DEF q5
<1>19. q6 \in Seq(Action) /\ w6 \in Seq(Code) /\ Tells(q6, b, n, w6, now)
  <2>1. down("a") \in Action /\ Speaks(down("a"))
    BY <1>2, <1>3
  <2> QED
    BY <1>6, <1>8, <1>9, <1>13, <1>18, <2>1, TellsKey
<1> HIDE DEF q6, w6
<1>20. q7 \in Seq(Action) /\ w7 \in Seq(Code) /\ Tells(q7, b, n, w7, now)
  <2>1. down("Up") \in Action /\ Speaks(down("Up"))
    BY <1>2, <1>3
  <2> QED
    BY <1>6, <1>8, <1>9, <1>13, <1>19, <2>1, TellsKey
<1> HIDE DEF q7, w7
<1>21. Tells(q8, b, n, w7, now)
  <2>1. down("rollover") \in Action /\ ~Speaks(down("rollover")) /\ down("rollover").key # "shift"
    BY <1>2, <1>3
  <2>2. k6 \in Seq(Action) /\ now \in BOOLEAN /\ (k6 = <<down("rollover")>> \/ k6 = <<>>)
    BY <1>6, <1>8, <1>12
  <2> QED
    BY <1>20, <2>1, <2>2, TellsUnheard
<1>22. q8 = q \o ActionsOf(old, r)
  <2> DEFINE All == Seq(Action)
             and(x, y) == x \o y
             s == and(s1, s2)
             ups == and(and(k1, k2), k3)
             downs == and(and(k4, k5), k6)
  <2>1. \A x \in All, y \in All : and(x, y) \in All
    OBVIOUS
  <2>2. \A x \in All, y \in All, z \in All : and(x, and(y, z)) = and(and(x, y), z)
    BY TwoMore
  <2>3. q \in All /\ s1 \in All /\ s2 \in All
    BY <1>8
  <2>4. k1 \in All /\ k2 \in All /\ k3 \in All
    BY <1>8
  <2>5. k4 \in All /\ k5 \in All /\ k6 \in All
    BY <1>8
  <2>6. q2 = and(and(q, s1), s2)
    BY DEF q1, q2
  <2>7. q5 = and(and(and(q2, k1), k2), k3)
    BY DEF q3, q4, q5
  <2>8. q8 = and(and(and(q5, k4), k5), k6)
    BY DEF q6, q7
  <2>9. ActionsOf(old, r) = and(and(s, ups), downs) /\ q \o ActionsOf(old, r) = and(q, ActionsOf(old, r))
    BY <1>7
  <2> HIDE DEF All, and, q8
  <2>10. \A w \in All, x \in All, y \in All, z \in All :
           and(w, and(and(x, y), z)) = and(and(and(w, x), y), z)
    BY <2>1, <2>2
  <2>11. q2 \in All
    BY <2>1, <2>3, <2>6
  <2>12. q5 \in All
    BY <2>1, <2>4, <2>7, <2>11
  <2>13. s \in All /\ ups \in All /\ downs \in All
    BY <2>1, <2>3, <2>4, <2>5
  <2>14. and(q, s) = q2
    BY <2>2, <2>3, <2>6
  <2>15. and(q2, ups) = q5
    BY <2>4, <2>7, <2>10, <2>11
  <2>16. and(q5, downs) = q8
    BY <2>5, <2>8, <2>10, <2>12
  <2>17. and(q, and(and(s, ups), downs)) = and(and(and(q, s), ups), downs)
    BY <2>3, <2>10, <2>13
  <2> QED
    BY <2>9, <2>14, <2>15, <2>16, <2>17
<1>23. w7 = words \o Presses(old, r)
  <2>1. (words \o p4) \o p5 = words \o (p4 \o p5)
    BY ONLY <1>9, CodesAssociate
  <2> QED
    BY <1>7, <2>1 DEF w6, w7
<1>24. Tells(q8, b, n, w7, r.shift # {})
  BY <1>1, <1>21
<1> HIDE DEF q8
<1> QED
  BY <1>22, <1>23, <1>24

\* A report is compared with the one before of the same keyboard, and Shift is
\* one key.
OneKeyboard ==
  /\ \A k \in Keyboard :
       (\A other \in Keyboard \ {k} : report[other] = NoKeys) => report[k] = prev
  /\ prev.shift # {"left", "right"}

OnTheirWay ==
  /\ OneKeyboard
  /\ Len(heard) =< Len(pressed) /\ \A i \in 1 .. Len(heard) : heard[i] = pressed[i]
  /\ Tells(actions, shiftDown, Len(heard), pressed, prev.shift # {})

LEMMA OnTheirWayInit == Init => OnTheirWay
<1> SUFFICES ASSUME Init PROVE OnTheirWay
  OBVIOUS
<1>1. OneKeyboard
  BY DEF Init, OneKeyboard, NoKeys
<1>2. /\ Len(heard) = 0 /\ heard = <<>> /\ pressed = <<>> /\ actions = <<>> /\ shiftDown = FALSE
      /\ (prev.shift # {}) = FALSE
  BY DEF Init, NoKeys
<1>3. <<>> \in Seq(Code) /\ Len(<<>>) = 0
  OBVIOUS
<1>4. Tells(<<>>, FALSE, Len(<<>>), <<>>, FALSE)
  BY <1>3, NothingToTell
<1>5. Tells(actions, shiftDown, Len(heard), pressed, prev.shift # {})
  BY <1>2, <1>3, <1>4
<1> QED
  BY <1>1, <1>2, <1>3, <1>5 DEF OnTheirWay

\* A report of the one keyboard in use, and what it adds is queued whole.
LEMMA KbdReportTells ==
  ASSUME TypeOK, "usb" \notin mishaps => OnTheirWay, "usb" \notin mishaps',
         NEW k \in Keyboard, NEW r \in Report, KbdReport(k, r)
  PROVE  OnTheirWay'
<1> DEFINE new == ActionsOf(prev, r)
           n == Smaller(ActionRoom, Len(new))
<1>1. /\ "usb" \notin mishaps /\ ~(n < Len(new))
      /\ r.shift # {"left", "right"} /\ r.keys # {"rollover"}
      /\ \A other \in Keyboard \ {k} : report[other] = NoKeys
  <2>1. mishaps' = Mishap("usb", Faults(k, r) \cup IF n < Len(new) THEN {"queue full"} ELSE {})
    BY DEF KbdReport
  <2>2. "usb" \notin mishaps /\ Faults(k, r) = {} /\ ~(n < Len(new))
    BY <2>1 DEF Mishap
  <2> QED
    BY <2>2 DEF Faults
<1>2. OnTheirWay /\ report[k] = prev /\ prev.shift # {"left", "right"}
  BY <1>1 DEF OnTheirWay, OneKeyboard
<1>3. /\ report' = [report EXCEPT ![k] = r] /\ prev' = r
      /\ actions' = actions \o SubSeq(new, 1, n)
      /\ pressed' = pressed \o Presses(prev, r)
      /\ shiftDown' = shiftDown /\ heard' = heard
  BY <1>1, <1>2 DEF KbdReport
<1>4. new \in Seq(Action)
  BY ActionsType
<1>5. actions' = actions \o new
  <2> HIDE DEF new
  <2>1. SubSeq(new, 1, n) = new
    BY <1>1, <1>4, QueueTakes
  <2> QED
    BY <1>3, <2>1
<1> HIDE DEF n
<1>6. /\ actions \in Seq(Action) /\ pressed \in Seq(Code) /\ heard \in Seq(Code)
      /\ Len(heard) \in Nat /\ prev \in Report
  BY DEF TypeOK
<1>7. Tells(actions', shiftDown', Len(heard'), pressed', prev'.shift # {})
  <2>1. Tells(actions, shiftDown, Len(heard), pressed, prev.shift # {})
    BY <1>2 DEF OnTheirWay
  <2>2. Tells(actions \o new, shiftDown, Len(heard), pressed \o Presses(prev, r), r.shift # {})
    BY <1>1, <1>2, <1>6, <2>1, ReportTells
  <2> HIDE DEF new
  <2> QED
    BY <1>3, <1>5, <2>2
<1>8. Len(heard') =< Len(pressed') /\ \A i \in 1 .. Len(heard') : heard'[i] = pressed'[i]
  <2> DEFINE more == Presses(prev, r)
             all == pressed \o more
  <2>1. more \in Seq(Code)
    BY PressesType
  <2> HIDE DEF more
  <2>2. /\ Len(all) = Len(pressed) + Len(more) /\ Len(more) \in Nat /\ Len(pressed) \in Nat
        /\ \A i \in 1 .. Len(pressed) + Len(more) :
             all[i] = IF i =< Len(pressed) THEN pressed[i] ELSE more[i - Len(pressed)]
    BY <1>6, <2>1, ConcatProperties
  <2>3. pressed' = all /\ heard' = heard
    BY <1>3 DEF more
  <2> HIDE DEF all
  <2>4. Len(heard) =< Len(pressed) /\ \A i \in 1 .. Len(heard) : heard[i] = pressed[i]
    BY <1>2 DEF OnTheirWay
  <2>5. \A i \in 1 .. Len(heard) : i \in 1 .. Len(pressed) + Len(more) /\ i =< Len(pressed)
    BY <1>6, <2>2, <2>4
  <2>6. Len(heard) =< Len(all) /\ \A i \in 1 .. Len(heard) : heard[i] = all[i]
    BY <1>6, <2>2, <2>4, <2>5
  <2> QED
    BY <2>3, <2>6
<1>9. OneKeyboard'
  <2>1. ASSUME NEW one \in Keyboard, \A other \in Keyboard \ {one} : report'[other] = NoKeys
        PROVE  report'[one] = prev'
    <3>1. report \in [Keyboard -> Report]
      BY DEF TypeOK
    <3>2. CASE one = k
      BY <1>3, <3>1, <3>2
    <3>3. CASE one # k
      <4>1. report'[k] = NoKeys /\ report'[k] = r /\ report'[one] = report[one]
        BY <1>3, <2>1, <3>1, <3>3
      <4>2. report[one] = NoKeys
        BY <1>1, <3>3
      <4> QED
        BY <1>3, <4>1, <4>2
    <3> QED
      BY <3>2, <3>3
  <2> QED
    BY <1>1, <1>3, <2>1 DEF OneKeyboard
<1> QED
  BY <1>7, <1>8, <1>9 DEF OnTheirWay

\* The terminal is fed the next key there is to tell, or none.
LEMMA InputPollTells ==
  ASSUME TypeOK, "usb" \notin mishaps => OnTheirWay, "usb" \notin mishaps', InputPoll
  PROVE  OnTheirWay'
<1> DEFINE a == Head(actions)
           silent == ~a.down \/ a.key \in {"shift", "rollover"}
           char == Char(a.key, shiftDown)
<1>1. /\ actions' = Tail(actions) /\ actions # <<>>
      /\ shiftDown' = (IF a.key = "shift" THEN a.down ELSE shiftDown)
      /\ heard' = IF silent \/ "usb" \in mishaps THEN heard ELSE Append(heard, char)
      /\ report' = report /\ prev' = prev /\ pressed' = pressed
  BY DEF InputPoll
<1>2. "usb" \notin mishaps
  BY DEF InputPoll, SendString, Mishap, keyqVars
<1>3. OnTheirWay
  BY <1>2
<1>4. /\ actions \in Seq(Action) /\ pressed \in Seq(Code) /\ heard \in Seq(Code)
      /\ Len(heard) \in Nat /\ Len(pressed) \in Nat
  BY DEF TypeOK
<1>5. a \in Action
  BY <1>1, HeadType
<1>6. shiftDown' = ShiftAfter(a, shiftDown) /\ Speaks(a) = ~silent
  BY <1>1, <1>5 DEF ShiftAfter, Speaks, Action
<1>7. Tells(actions, shiftDown, Len(heard), pressed, prev.shift # {})
  BY <1>3 DEF OnTheirWay
<1>8. /\ Tells(Tail(actions), ShiftAfter(a, shiftDown),
               IF Speaks(a) THEN Len(heard) + 1 ELSE Len(heard), pressed, prev.shift # {})
      /\ Speaks(a) => Len(heard) + 1 =< Len(pressed) /\ pressed[Len(heard) + 1] = char
  BY <1>1, <1>4, <1>7, TellsRest
<1>9. Len(heard) =< Len(pressed) /\ \A i \in 1 .. Len(heard) : heard[i] = pressed[i]
  BY <1>3 DEF OnTheirWay
<1> HIDE DEF a, char
<1>10. CASE silent
  <2>1. heard' = heard /\ ~Speaks(a)
    BY <1>1, <1>6, <1>10
  <2>2. Tells(actions', shiftDown', Len(heard'), pressed', prev'.shift # {})
    BY <1>1, <1>6, <1>8, <2>1
  <2> QED
    BY <1>1, <1>3, <1>9, <2>1, <2>2 DEF OnTheirWay, OneKeyboard
<1>11. CASE ~silent
  <2>1. heard' = Append(heard, char) /\ Speaks(a)
    BY <1>1, <1>2, <1>6, <1>11
  <2>2. /\ Len(heard') = Len(heard) + 1 /\ heard'[Len(heard) + 1] = char
        /\ \A i \in 1 .. Len(heard) : heard'[i] = heard[i]
    BY <1>4, <2>1, AppendProperties
  <2>3. Len(heard') =< Len(pressed') /\ \A i \in 1 .. Len(heard') : heard'[i] = pressed'[i]
    <3>1. \A i \in 1 .. Len(heard) + 1 : i \in 1 .. Len(heard) \/ i = Len(heard) + 1
      BY <1>4
    <3> QED
      BY <1>1, <1>8, <1>9, <2>1, <2>2, <3>1
  <2>4. Tells(actions', shiftDown', Len(heard'), pressed', prev'.shift # {})
    BY <1>1, <1>6, <1>8, <2>1, <2>2
  <2> QED
    BY <1>1, <1>3, <2>3, <2>4 DEF OnTheirWay, OneKeyboard
<1> QED
  BY <1>10, <1>11

\* What the other steps leave alone.
LEMMA KeysLeftAlone ==
  ASSUME "usb" \notin mishaps => OnTheirWay, "usb" \notin mishaps',
         "usb" \in mishaps => "usb" \in mishaps', UNCHANGED <<usbVars, shiftDown, heard>>
  PROVE  OnTheirWay'
BY DEF usbVars, OnTheirWay, OneKeyboard

LEMMA ToldInOrder ==
  ASSUME TypeOK, "usb" \notin mishaps => OnTheirWay PROVE KeysAsPressed
<1> SUFFICES ASSUME "usb" \notin mishaps
             PROVE  IsPrefix(heard, pressed) /\ (actions = <<>> => heard = pressed)
  BY DEF KeysAsPressed
<1>1. /\ heard \in Seq(Code) /\ pressed \in Seq(Code) /\ Len(heard) \in Nat /\ Len(pressed) \in Nat
      /\ Len(heard) =< Len(pressed) /\ \A i \in 1 .. Len(heard) : heard[i] = pressed[i]
  BY DEF TypeOK, OnTheirWay
<1>2. IsPrefix(heard, pressed)
  <2>1. SubSeq(heard, 1, Len(heard)) = heard
    BY <1>1, SubSeqFull
  <2> DEFINE first == SubSeq(pressed, 1, Len(heard))
  <2>2. \A i \in 1 .. Len(heard) : pressed[i] \in Code
    BY <1>1
  <2>3. first \in Seq(Code) /\ Len(first) = Len(heard) /\ \A i \in 1 .. Len(heard) : first[i] = pressed[i]
    BY <1>1, <2>2, SubSeqProperties
  <2> HIDE DEF first
  <2>4. first = heard
    BY <1>1, <2>3, SeqEqual
  <2> QED
    BY <1>1, <2>1, <2>4 DEF IsPrefix, first
<1>3. ASSUME actions = <<>> PROVE heard = pressed
  <2>1. Tells(<<>>, shiftDown, Len(heard), pressed, prev.shift # {})
    BY <1>3 DEF OnTheirWay
  <2>2. Len(heard) = Len(pressed)
    BY <2>1, AllIsTold
  <2> QED
    BY <1>1, <2>2, SeqEqual
<1> QED
  BY <1>2, <1>3

-----------------------------------------------------------------------------
(* The theorems *)

(***************************************************************************)
(* Types and queues, what is sent, what is typed, and, until the HID code  *)
(* meets one of the faults that KeysAsPressed names, which keys are still  *)
(* on their way.                                                           *)
(***************************************************************************)
KeyInv ==
  /\ TypeOK
  /\ SentIsGot
  /\ NothingEaten
  /\ "usb" \notin mishaps => OnTheirWay

LEMMA InvInit == Init => KeyInv
<1> SUFFICES ASSUME Init PROVE KeyInv
  OBVIOUS
<1>1. TypeOK /\ OnTheirWay
  BY InitType, OnTheirWayInit
<1>2. SentIsGot
  <2>1. Used = 0
    BY Sizes, WrapBelow DEF Init, Used
  <2>2. Waiting = <<>>
    <3>1. Len(Waiting) = 0 /\ Waiting \in Seq(Code)
      BY <1>1, <2>1, WaitingType
    <3> QED
      BY <3>1
  <2>3. <<>> \o <<>> = <<>>
    BY ConcatEmptySeq
  <2> QED
    BY <2>2, <2>3 DEF Init, SentIsGot
<1>3. NothingEaten
  <2>1. spelled \o Held(seq) = <<>>
    BY Pieces, ConcatEmptySeq DEF Init
  <2>2. typed = <<>> /\ DOMAIN typed = {}
    BY DEF Init
  <2> QED
    BY <2>1, <2>2 DEF NothingEaten
<1> QED
  BY <1>1, <1>2, <1>3 DEF KeyInv

\* The part of the state that each part of the invariant is about.
LEMMA SentLeftAlone ==
  ASSUME SentIsGot, UNCHANGED <<keyqVars, got>>, "link" \in mishaps => "link" \in mishaps'
  PROVE  SentIsGot'
BY DEF SentIsGot, Waiting, Used, keyqVars

LEMMA TypedLeftAlone == ASSUME NothingEaten, UNCHANGED serialVars PROVE NothingEaten'
BY DEF NothingEaten, serialVars

LEMMA InvKbdReport ==
  ASSUME KeyInv, NEW k \in Keyboard, NEW r \in Report, KbdReport(k, r) PROVE KeyInv'
<1>1. TypeOK' /\ ("usb" \notin mishaps' => OnTheirWay')
  BY KbdReportType, KbdReportTells DEF KeyInv
<1>2. /\ UNCHANGED keyqVars /\ got' = got /\ UNCHANGED serialVars
      /\ "link" \in mishaps => "link" \in mishaps'
  BY DEF KbdReport, Mishap, linkVars
<1> QED
  BY <1>1, <1>2, SentLeftAlone, TypedLeftAlone DEF KeyInv

LEMMA InvUmount == ASSUME KeyInv, NEW k \in Keyboard, Umount(k) PROVE KeyInv'
<1>1. TypeOK'
  BY UmountType DEF KeyInv
<1>2. /\ UNCHANGED keyqVars /\ got' = got /\ UNCHANGED serialVars /\ "usb" \in mishaps'
      /\ "link" \in mishaps => "link" \in mishaps'
  BY DEF Umount, Mishap, linkVars
<1> QED
  BY <1>1, <1>2, SentLeftAlone, TypedLeftAlone DEF KeyInv

LEMMA InvInputPoll == ASSUME KeyInv, InputPoll PROVE KeyInv'
<1>1. TypeOK' /\ ("usb" \notin mishaps' => OnTheirWay')
  BY InputPollType, InputPollTells DEF KeyInv
<1>2. NothingEaten'
  BY TypedLeftAlone DEF KeyInv, InputPoll
<1>3. SentIsGot'
  <2> DEFINE a == Head(actions)
             silent == ~a.down \/ a.key \in {"shift", "rollover"}
             char == Char(a.key, shiftDown)
  <2>1. /\ got' = got
        /\ IF silent THEN UNCHANGED <<keyqVars, mishaps>> ELSE SendString(<<SentFor(char)>>)
    BY DEF InputPoll, linkVars
  <2>2. CASE silent
    BY <2>1, <2>2, SentLeftAlone DEF KeyInv
  <2>3. CASE ~silent
    <3>1. a \in Action
      BY HeadType DEF KeyInv, InputPoll
    <3>2. <<SentFor(char)>> \in Seq(Code)
      <4>1. SentFor(char) \in Code
        BY <2>3, <3>1 DEF Action, Char, SentFor, Code
      <4> QED
        BY <4>1
    <3> QED
      BY <2>1, <2>3, <3>2, SendServes DEF KeyInv
  <2> QED
    BY <2>2, <2>3
<1> QED
  BY <1>1, <1>2, <1>3 DEF KeyInv

LEMMA InvSerial ==
  ASSUME KeyInv, NEW late \in BOOLEAN,
         NEW bytes \in {<<>>} \cup {<<c>> : c \in SerialByte}, Serial(late, bytes)
  PROVE  KeyInv'
<1>1. TypeOK' /\ NothingEaten'
  BY SerialType, SerialEatsNothing DEF KeyInv
<1>2. PICK out \in Seq(Code) : SendString(out)
  BY SerialSends DEF KeyInv
<1>3. SentIsGot'
  <2>1. got' = got
    BY DEF Serial, linkVars
  <2> QED
    BY <1>2, <2>1, SendServes DEF KeyInv
<1>4. "usb" \notin mishaps' => OnTheirWay'
  <2>1. UNCHANGED <<usbVars, shiftDown, heard>>
    BY DEF Serial
  <2>2. "usb" \in mishaps => "usb" \in mishaps'
    BY <1>2 DEF SendString, Mishap
  <2> QED
    BY <2>1, <2>2, KeysLeftAlone DEF KeyInv
<1> QED
  BY <1>1, <1>3, <1>4 DEF KeyInv

LEMMA InvAnswer == ASSUME KeyInv, Answer PROVE KeyInv'
<1>1. TypeOK' /\ NothingEaten'
  BY AnswerType, TypedLeftAlone DEF KeyInv, Answer
<1>2. PICK out \in Seq(Code) : SendString(out)
  BY AnswerSends
<1>3. SentIsGot'
  <2>1. got' = got
    BY DEF Answer, linkVars
  <2> QED
    BY <1>2, <2>1, SendServes DEF KeyInv
<1>4. "usb" \notin mishaps' => OnTheirWay'
  <2>1. UNCHANGED <<usbVars, shiftDown, heard>>
    BY DEF Answer
  <2>2. "usb" \in mishaps => "usb" \in mishaps'
    BY <1>2 DEF SendString, Mishap
  <2> QED
    BY <2>1, <2>2, KeysLeftAlone DEF KeyInv
<1> QED
  BY <1>1, <1>3, <1>4 DEF KeyInv

LEMMA InvConsole == ASSUME KeyInv, NEW arrives \in BOOLEAN, Console(arrives) PROVE KeyInv'
<1>1. TypeOK' /\ SentIsGot'
  BY ConsoleType, ConsoleServes DEF KeyInv
<1>2. UNCHANGED serialVars /\ UNCHANGED <<usbVars, shiftDown, heard>>
  BY DEF Console
<1>3. "usb" \in mishaps => "usb" \in mishaps'
  BY DEF Console, Mishap
<1>4. "usb" \notin mishaps' => OnTheirWay'
  BY <1>2, <1>3, KeysLeftAlone DEF KeyInv
<1> QED
  BY <1>1, <1>2, <1>4, TypedLeftAlone DEF KeyInv

LEMMA InvOthers == ASSUME KeyInv, UsbDone \/ NoDoorbell \/ LinuxReads \/ UNCHANGED vars PROVE KeyInv'
<1>1. TypeOK'
  BY OthersType DEF KeyInv
<1>2. /\ UNCHANGED keyqVars /\ got' = got /\ UNCHANGED serialVars /\ mishaps' = mishaps
      /\ UNCHANGED <<usbVars, shiftDown, heard>>
  BY DEF UsbDone, NoDoorbell, LinuxReads, vars, linkVars
<1>3. SentIsGot' /\ NothingEaten'
  BY <1>2, SentLeftAlone, TypedLeftAlone DEF KeyInv
<1>4. "usb" \notin mishaps' => OnTheirWay'
  BY <1>2, KeysLeftAlone DEF KeyInv
<1> QED
  BY <1>1, <1>3, <1>4 DEF KeyInv

LEMMA InvNext == KeyInv /\ [Next]_vars => KeyInv'
<1> SUFFICES ASSUME KeyInv, [Next]_vars PROVE KeyInv'
  OBVIOUS
<1>1. CASE \E k \in Keyboard : Umount(k)
  BY <1>1, InvUmount
<1>2. CASE \E k \in Keyboard, r \in Report : KbdReport(k, r)
  BY <1>2, InvKbdReport
<1>3. CASE InputPoll
  BY <1>3, InvInputPoll
<1>4. CASE \E late \in BOOLEAN, bytes \in {<<>>} \cup {<<c>> : c \in SerialByte} : Serial(late, bytes)
  BY <1>4, InvSerial
<1>5. CASE Answer
  BY <1>5, InvAnswer
<1>6. CASE \E arrives \in BOOLEAN : Console(arrives)
  BY <1>6, InvConsole
<1>7. CASE UsbDone \/ NoDoorbell \/ LinuxReads \/ UNCHANGED vars
  BY <1>7, InvOthers
<1> QED
  BY <1>1, <1>2, <1>3, <1>4, <1>5, <1>6, <1>7 DEF Next

LEMMA Invariant == Spec => []KeyInv
BY InvInit, InvNext, PTL DEF Spec

\* Every variable keeps its type, the action queue its bound and the rx ring
\* its size: no report, byte or reply gets past the checks of room.
THEOREM TypeCorrect == Spec => []TypeOK
<1>1. KeyInv => TypeOK
  BY DEF KeyInv
<1> QED
  BY <1>1, Invariant, PTL

\* Each byte that the terminal gives to serial_send_char is waiting or has
\* reached the rx ring, in the order of the sends, until a queue is full or a
\* reply is lost.
THEOREM SentArrives == Spec => []SentIsGot
<1>1. KeyInv => SentIsGot
  BY DEF KeyInv
<1> QED
  BY <1>1, Invariant, PTL

\* keyboard_tick delivers or holds every byte that it has read, however long
\* each of them takes to come.
THEOREM TypingIsKept == Spec => []NothingEaten
<1>1. KeyInv => NothingEaten
  BY DEF KeyInv
<1> QED
  BY <1>1, Invariant, PTL

\* What the terminal is fed is what was pressed, until the action queue is full
\* or the HID code meets a report that it confuses with another.
THEOREM PressedIsHeard == Spec => []KeysAsPressed
<1>1. KeyInv => KeysAsPressed
  BY ToldInOrder DEF KeyInv
<1> QED
  BY <1>1, Invariant, PTL

=============================================================================
