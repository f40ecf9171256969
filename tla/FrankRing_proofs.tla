-------------------------- MODULE FrankRing_proofs --------------------------
(***************************************************************************)
(* Proofs about FrankRing, for every ring size and every set of bytes.     *)
(***************************************************************************)
EXTENDS FrankRing, TLAPS

(***************************************************************************)
(* Wrap on the only arguments the code gives it: an index less than one    *)
(* turn of the ring ahead or behind.                                       *)
(***************************************************************************)
LEMMA WrapBelow == \A i \in 0 .. RingBytes - 1 : Wrap(i) = i
  BY RingBytesAssumption DEF Wrap

LEMMA WrapAhead == \A i \in RingBytes .. 2 * RingBytes - 1 : Wrap(i) = i - RingBytes
  BY RingBytesAssumption DEF Wrap

LEMMA WrapBehind == \A i \in -RingBytes + 1 .. -1 : Wrap(i) = i + RingBytes
  BY RingBytesAssumption DEF Wrap

(***************************************************************************)
(* Wrapping is a bijection on one turn: two offsets less than a turn from  *)
(* the same index are the same slot only if they are the same offset.      *)
(***************************************************************************)
LEMMA WrapSlot == \A i \in Slot : \A k \in Slot : Wrap(i + k) \in Slot
  BY RingBytesAssumption, WrapBelow, WrapAhead DEF Slot, RingMask

LEMMA WrapInjective ==
  ASSUME NEW i \in Slot, NEW j \in Slot, NEW k \in Slot, Wrap(i + j) = Wrap(i + k)
  PROVE  j = k
  BY RingBytesAssumption, WrapBelow, WrapAhead DEF Slot, RingMask

\* The number of bytes between the indices, and the head it leads to.
LEMMA UsedFacts ==
  ASSUME head \in Slot, tail \in Slot
  PROVE  /\ Used \in Slot
         /\ head = Wrap(tail + Used)
  BY RingBytesAssumption, WrapBelow, WrapAhead, WrapBehind DEF Slot, RingMask, Used

\* Offsets from the head are offsets from the tail, further along.
LEMMA HeadOffset ==
  ASSUME head \in Slot, tail \in Slot, NEW k \in Nat, Used + k <= RingMask
  PROVE  Wrap(head + k) = Wrap(tail + (Used + k))
  BY RingBytesAssumption, WrapBelow, WrapAhead, WrapBehind DEF Slot, RingMask, Used

\* Publishing a put of n bytes lengthens the ring's contents by n.
LEMMA UsedAfterPut ==
  ASSUME head \in Slot, tail \in Slot, NEW n \in Nat, Used + n <= RingMask,
         head' = Wrap(head + n), tail' = tail
  PROVE  head' \in Slot /\ Used' = Used + n
  BY RingBytesAssumption, WrapBelow, WrapAhead, WrapBehind DEF Slot, RingMask, Used

\* Publishing a get of n bytes shortens them by n.
LEMMA UsedAfterGet ==
  ASSUME head \in Slot, tail \in Slot, NEW n \in Nat, n <= Used,
         tail' = Wrap(tail + n), head' = head
  PROVE  tail' \in Slot /\ Used' = Used - n
  BY RingBytesAssumption, WrapBelow, WrapAhead, WrapBehind DEF Slot, RingMask, Used

-----------------------------------------------------------------------------

LEMMA NoBytes == <<>> \in Seq(Byte) /\ Len(<<>>) = 0
  OBVIOUS

LEMMA InitTypeOK == Init => TypeOK
<1>1. 0 \in Slot /\ 0 \in 0 .. RingMask
  BY RingBytesAssumption DEF Slot, RingMask
<1> QED
  BY <1>1, NoBytes DEF Init, TypeOK

LEMMA NextTypeOK == TypeOK /\ [Next]_vars => TypeOK'
<1> SUFFICES ASSUME TypeOK, [Next]_vars PROVE TypeOK'
  OBVIOUS
<1>a. Used \in Slot /\ Space \in Slot
  BY UsedFacts, RingBytesAssumption DEF TypeOK, Space, Slot, RingMask
<1>b. \A n \in 1 .. RingBytes : AtMost(n, Space) \in 0 .. RingMask /\ AtMost(n, Used) \in 0 .. RingMask
  BY <1>a, RingBytesAssumption DEF AtMost, Slot, RingMask
<1>1. CASE \E n \in 1 .. RingBytes : PutBegin(n)
  BY <1>1, <1>b DEF PutBegin, TypeOK, getVars
<1>2. CASE \E n \in 1 .. RingBytes : GetBegin(n)
  BY <1>2, <1>b DEF GetBegin, TypeOK, putVars
<1>3. CASE \E b \in Byte : PutByte(b)
  <2>1. PICK b \in Byte : PutByte(b)
    BY <1>3
  <2>2. Len(src) \in Slot
    BY <2>1, RingBytesAssumption DEF PutByte, TypeOK, Slot, RingMask
  <2>3. [slot |-> Wrap(putHead + Len(src)), byte |-> b] \in Store
    BY <2>2, WrapSlot DEF TypeOK, Store
  <2> QED
    BY <2>1, <2>3 DEF PutByte, TypeOK, getVars
<1>4. CASE \E store \in storeBuffer : Commit(store)
  BY <1>4 DEF Commit, TypeOK, Store, putVars, getVars
<1>5. CASE PutPublish
  <2>1. head' \in Slot
    BY <1>5, WrapSlot DEF PutPublish, TypeOK, Slot
  <2> QED
    BY <1>5, <2>1, NoBytes DEF PutPublish, TypeOK, getVars
<1>6. CASE GetByte
  <2>1. Len(dst) \in Slot
    BY <1>6, RingBytesAssumption DEF GetByte, TypeOK, Slot, RingMask
  <2>2. data[Wrap(getTail + Len(dst))] \in Byte
    BY <2>1, WrapSlot DEF TypeOK
  <2> QED
    BY <1>6, <2>2 DEF GetByte, TypeOK, putVars
<1>7. CASE GetPublish
  <2>1. tail' \in Slot
    BY <1>7, WrapSlot DEF GetPublish, TypeOK, Slot
  <2> QED
    BY <1>7, <2>1, NoBytes DEF GetPublish, TypeOK, putVars
<1>8. CASE UNCHANGED vars
  BY <1>8 DEF vars, putVars, getVars, TypeOK
<1> QED
  BY <1>1, <1>2, <1>3, <1>4, <1>5, <1>6, <1>7, <1>8 DEF Next, PutStep, GetStep

(***************************************************************************)
(* Every variable keeps its type: in particular no index, latched index or *)
(* pending store ever leaves the ring, whatever its size.                  *)
(***************************************************************************)
THEOREM TypeCorrect == Spec => []TypeOK
<1>1. QED
  BY InitTypeOK, NextTypeOK, PTL DEF Spec

-----------------------------------------------------------------------------

RingIInv == TypeOK /\ RingInv

LEMMA InitRingInv == Init => RingInv
  BY NoBytes DEF Init, RingInv, PutView, GetView, StoresAreSrc, CopiesAreContents

LEMMA PutBeginInv ==
  ASSUME RingIInv, NEW n \in 1 .. RingBytes, PutBegin(n)
  PROVE  RingInv'
<1> USE DEF RingIInv
<1>1. Used \in Slot /\ Used' = Used
  BY UsedFacts DEF TypeOK, PutBegin, Used
<1>2. PutView'
  BY <1>1, NoBytes, RingBytesAssumption
     DEF PutBegin, PutView, TypeOK, AtMost, Space, Slot, RingMask
<1>3. GetView'
  BY <1>1 DEF PutBegin, RingInv, GetView, getVars
<1>4. StoresAreSrc'
  BY NoBytes DEF PutBegin, RingInv, PutView, StoresAreSrc
<1>5. CopiesAreContents'
  BY DEF PutBegin, RingInv, CopiesAreContents, getVars
<1> QED
  BY <1>2, <1>3, <1>4, <1>5 DEF RingInv

LEMMA PutByteInv ==
  ASSUME RingIInv, NEW b \in Byte, PutByte(b)
  PROVE  RingInv'
<1> USE DEF RingIInv
<1>1. Used' = Used
  BY DEF PutByte, Used
<1>2. /\ src \in Seq(Byte) /\ Len(src) \in Nat
      /\ src' = Append(src, b) /\ Len(src') = Len(src) + 1
      /\ src'[Len(src) + 1] = b
      /\ \A k \in 1 .. Len(src) : src'[k] = src[k]
  BY DEF PutByte, TypeOK
<1>3. PutView'
  BY <1>1, <1>2 DEF PutByte, RingInv, PutView, TypeOK
<1>4. GetView'
  BY <1>1 DEF PutByte, RingInv, GetView, getVars
<1>5. StoresAreSrc'
  <2> DEFINE new == [slot |-> Wrap(head + Len(src)), byte |-> b]
  <2>1. storeBuffer' = storeBuffer \cup {new} /\ head' = head /\ data' = data
    BY DEF PutByte, RingInv, PutView
  <2>2. ASSUME NEW store \in storeBuffer'
        PROVE  \E k \in 0 .. Len(src') - 1 :
                 store.slot = Wrap(head' + k) /\ store.byte = src'[k + 1]
    <3>1. CASE store = new
      BY <1>2, <2>1, <3>1
    <3>2. CASE store \in storeBuffer
      <4>1. PICK k \in 0 .. Len(src) - 1 :
               store.slot = Wrap(head + k) /\ store.byte = src[k + 1]
        BY <3>2 DEF RingInv, StoresAreSrc
      <4>2. k \in 0 .. Len(src') - 1 /\ src'[k + 1] = src[k + 1]
        BY <1>2, <4>1
      <4> QED
        BY <2>1, <4>1, <4>2
    <3> QED
      BY <2>1, <2>2, <3>1, <3>2
  <2>3. ASSUME NEW k \in 0 .. Len(src') - 1
        PROVE  \/ data'[Wrap(head' + k)] = src'[k + 1]
               \/ \E store \in storeBuffer' : store.slot = Wrap(head' + k)
    <3>1. CASE k = Len(src)
      <4>1. new \in storeBuffer' /\ new.slot = Wrap(head' + k)
        BY <2>1, <3>1
      <4> QED
        BY <4>1
    <3>2. CASE k # Len(src)
      <4>1. k \in 0 .. Len(src) - 1 /\ src'[k + 1] = src[k + 1]
        BY <1>2, <3>2
      <4> QED
        BY <2>1, <4>1 DEF RingInv, StoresAreSrc
    <3> QED
      BY <3>1, <3>2
  <2> QED
    BY <2>2, <2>3 DEF StoresAreSrc
<1>6. CopiesAreContents'
  BY DEF PutByte, RingInv, CopiesAreContents, getVars
<1> QED
  BY <1>3, <1>4, <1>5, <1>6 DEF RingInv

LEMMA CommitInv ==
  ASSUME RingIInv, NEW store \in storeBuffer, Commit(store)
  PROVE  RingInv'
<1> USE DEF RingIInv
<1>1. Used' = Used /\ Used \in Slot
  BY UsedFacts DEF Commit, Used, TypeOK
<1>2. /\ putting /\ head \in Slot /\ tail \in Slot
      /\ src \in Seq(Byte) /\ Len(src) \in Nat
      /\ Used + Len(src) <= RingMask
  BY <1>1, RingBytesAssumption DEF Commit, RingInv, PutView, TypeOK, Slot, RingMask
<1>3. PICK k \in 0 .. Len(src) - 1 :
        store.slot = Wrap(head + k) /\ store.byte = src[k + 1]
  BY DEF RingInv, StoresAreSrc
<1>4. data' = [data EXCEPT ![Wrap(head + k)] = src[k + 1]] /\ data \in [Slot -> Byte]
  BY <1>3 DEF Commit, TypeOK
<1>5. PutView' /\ GetView'
  BY <1>1, <1>2 DEF Commit, RingInv, PutView, GetView, putVars, getVars
<1>6. ASSUME NEW j \in 0 .. Len(src) - 1
      PROVE  j \in Slot /\ Wrap(head + j) \in Slot
  BY <1>1, <1>2, RingBytesAssumption, WrapSlot DEF Slot, RingMask
<1>7. StoresAreSrc'
  <2>1. src' = src /\ head' = head /\ storeBuffer' = storeBuffer \ {store}
    BY DEF Commit, putVars
  <2>2. ASSUME NEW j \in 0 .. Len(src) - 1
        PROVE  \/ data'[Wrap(head + j)] = src[j + 1]
               \/ \E other \in storeBuffer' : other.slot = Wrap(head + j)
    <3>1. CASE j = k
      BY <3>1, <1>3, <1>4, <1>6
    <3>2. CASE j # k
      <4>1. Wrap(head + j) # Wrap(head + k)
        BY <3>2, <1>2, <1>3, <1>6, WrapInjective
      <4>2. data'[Wrap(head + j)] = data[Wrap(head + j)]
        BY <4>1, <1>4, <1>6
      <4> QED
        BY <4>1, <4>2, <1>3, <2>1 DEF RingInv, StoresAreSrc
    <3> QED
      BY <3>1, <3>2
  <2> QED
    BY <2>1, <2>2 DEF RingInv, StoresAreSrc
<1>8. CopiesAreContents'
  <2> SUFFICES ASSUME NEW j \in 0 .. Len(dst) - 1
               PROVE  dst[j + 1] = data'[Wrap(tail + j)]
    BY DEF Commit, CopiesAreContents, getVars
  <2>1. j < Used /\ j \in Slot
    <3>1. getting /\ Len(dst) <= getLen /\ getLen <= Used /\ Len(dst) \in Nat
      BY NoBytes DEF RingInv, GetView, TypeOK
    <3> QED
      BY <3>1, <1>1, RingBytesAssumption DEF TypeOK, Slot, RingMask
  <2>2. Wrap(head + k) = Wrap(tail + (Used + k)) /\ Used + k \in Slot
    <3>1. k \in Nat /\ Used + k <= RingMask /\ Used + k \in Slot
      BY <1>1, <1>2, <1>3, RingBytesAssumption DEF Slot, RingMask
    <3> QED
      BY <3>1, <1>2, HeadOffset
  <2>3. Wrap(tail + j) # Wrap(head + k)
    <3>1. j # Used + k
      BY <2>1, <1>1, <1>3, RingBytesAssumption DEF Slot, RingMask
    <3> QED
      BY <3>1, <2>1, <2>2, <1>2, WrapInjective
  <2>4. data'[Wrap(tail + j)] = data[Wrap(tail + j)]
    BY <2>1, <2>3, <1>2, <1>4, WrapSlot
  <2> QED
    BY <2>4 DEF RingInv, CopiesAreContents
<1> QED
  BY <1>5, <1>7, <1>8 DEF RingInv

LEMMA PutPublishInv ==
  ASSUME RingIInv, PutPublish
  PROVE  RingInv'
<1> USE DEF RingIInv
<1>1. Used' = Used + putLen
  <2>1. head' = Wrap(head + putLen) /\ tail' = tail /\ putLen \in Nat
        /\ Used + putLen <= RingMask
    BY DEF PutPublish, RingInv, PutView, TypeOK
  <2> QED
    BY <2>1, UsedAfterPut DEF TypeOK
<1>2. Used \in Nat /\ putLen \in Nat
  BY UsedFacts DEF TypeOK, Slot
<1>3. PutView'
  BY DEF PutPublish, PutView, Barrier
<1>4. GetView'
  BY <1>1, <1>2 DEF PutPublish, RingInv, GetView, TypeOK, getVars
<1>5. StoresAreSrc'
  BY NoBytes DEF PutPublish, StoresAreSrc, Barrier
<1>6. CopiesAreContents'
  BY DEF PutPublish, RingInv, CopiesAreContents, getVars
<1> QED
  BY <1>3, <1>4, <1>5, <1>6 DEF RingInv

LEMMA GetBeginInv ==
  ASSUME RingIInv, NEW n \in 1 .. RingBytes, GetBegin(n)
  PROVE  RingInv'
<1> USE DEF RingIInv
<1>1. Used \in Slot /\ Used' = Used
  BY UsedFacts DEF TypeOK, GetBegin, Used
<1>2. PutView' /\ StoresAreSrc'
  BY <1>1 DEF GetBegin, RingInv, PutView, StoresAreSrc, putVars
<1>3. GetView'
  BY <1>1, NoBytes, RingBytesAssumption
     DEF GetBegin, GetView, TypeOK, AtMost, Slot, RingMask
<1>4. CopiesAreContents'
  BY NoBytes DEF GetBegin, CopiesAreContents
<1> QED
  BY <1>2, <1>3, <1>4 DEF RingInv

LEMMA GetByteInv ==
  ASSUME RingIInv, GetByte
  PROVE  RingInv'
<1> USE DEF RingIInv
<1>1. Used' = Used
  BY DEF GetByte, Used
<1>2. PutView' /\ StoresAreSrc'
  BY <1>1 DEF GetByte, RingInv, PutView, StoresAreSrc, putVars
<1>3. /\ dst \in Seq(Byte) /\ Len(dst) \in Nat
      /\ Len(dst') = Len(dst) + 1
      /\ dst'[Len(dst) + 1] = data[Wrap(tail + Len(dst))]
      /\ \A k \in 1 .. Len(dst) : dst'[k] = dst[k]
  BY DEF GetByte, RingInv, GetView, TypeOK
<1>4. GetView'
  BY <1>1, <1>3 DEF GetByte, RingInv, GetView, TypeOK
<1>5. CopiesAreContents'
  <2> SUFFICES ASSUME NEW k \in 0 .. Len(dst') - 1
               PROVE  dst'[k + 1] = data[Wrap(tail + k)]
    BY DEF GetByte, CopiesAreContents
  <2>1. CASE k = Len(dst)
    BY <2>1, <1>3
  <2>2. CASE k # Len(dst)
    BY <2>2, <1>3 DEF RingInv, CopiesAreContents
  <2> QED
    BY <2>1, <2>2
<1> QED
  BY <1>2, <1>4, <1>5 DEF RingInv

LEMMA GetPublishInv ==
  ASSUME RingIInv, GetPublish
  PROVE  RingInv'
<1> USE DEF RingIInv
<1>1. Used' = Used - getLen /\ Used \in Nat /\ getLen \in Nat
  <2>1. tail' = Wrap(tail + getLen) /\ head' = head /\ getLen \in Nat /\ getLen <= Used
    BY DEF GetPublish, RingInv, GetView, TypeOK
  <2> QED
    BY <2>1, UsedAfterGet, UsedFacts DEF TypeOK, Slot
<1>2. PutView'
  BY <1>1, RingBytesAssumption DEF GetPublish, RingInv, PutView, putVars, TypeOK, RingMask
<1>3. StoresAreSrc'
  BY DEF GetPublish, RingInv, StoresAreSrc, putVars
<1>4. GetView' /\ CopiesAreContents'
  BY NoBytes DEF GetPublish, GetView, CopiesAreContents
<1> QED
  BY <1>2, <1>3, <1>4 DEF RingInv

LEMMA NextRingInv == RingIInv /\ [Next]_vars => RingInv'
<1> SUFFICES ASSUME RingIInv, [Next]_vars PROVE RingInv'
  OBVIOUS
<1>1. CASE UNCHANGED vars
  BY <1>1 DEF vars, putVars, getVars, RingIInv, RingInv, PutView, GetView,
              StoresAreSrc, CopiesAreContents, Used
<1>2. CASE Next
  BY <1>2, PutBeginInv, PutByteInv, CommitInv, PutPublishInv, GetBeginInv,
     GetByteInv, GetPublishInv DEF Next, PutStep, GetStep
<1> QED
  BY <1>1, <1>2

(***************************************************************************)
(* The invariant that makes frank_ring_put and frank_ring_get correct      *)
(* together holds for every ring size, every length of put and get and     *)
(* every order in which memory shows the stores.                           *)
(***************************************************************************)
THEOREM RingCorrect == Spec => []RingInv
<1>1. Init => RingIInv
  BY InitTypeOK, InitRingInv DEF RingIInv
<1>2. RingIInv /\ [Next]_vars => RingIInv'
  BY NextTypeOK, NextRingInv DEF RingIInv
<1>3. RingIInv => RingInv
  BY DEF RingIInv
<1> QED
  BY <1>1, <1>2, <1>3, PTL DEF Spec

-----------------------------------------------------------------------------

LEMMA RingIInvHolds == Spec => []RingIInv
<1> QED
  BY TypeCorrect, RingCorrect, PTL DEF RingIInv

(***************************************************************************)
(* The two cores never touch one slot at the same time: the argument of    *)
(* frank_ring.h for having no locks, for every ring size.                  *)
(***************************************************************************)
THEOREM SlotsDisjoint == Spec => []NoSlotConflict
<1>1. ASSUME RingIInv PROVE NoSlotConflict
  <2> SUFFICES ASSUME putting, getting,
                      NEW i \in 0 .. putLen - 1, NEW j \in 0 .. getLen - 1,
                      Wrap(putHead + i) = Wrap(getTail + j)
               PROVE  FALSE
    BY DEF NoSlotConflict, PutSlots, GetSlots
  <2>1. /\ putHead = head /\ Used + putLen <= RingMask
        /\ getTail = tail /\ getLen <= Used
        /\ Used \in Slot /\ head \in Slot /\ tail \in Slot
    BY <1>1, UsedFacts DEF RingIInv, RingInv, PutView, GetView, TypeOK
  <2>2. putLen \in Nat /\ getLen \in Nat /\ RingMask \in Nat
    BY <1>1, RingBytesAssumption DEF RingIInv, TypeOK, RingMask
  <2>3. /\ i \in Nat /\ Used + i <= RingMask /\ Used + i \in Slot
        /\ j \in Slot /\ j # Used + i
    BY <2>1, <2>2 DEF Slot
  <2>4. Wrap(tail + (Used + i)) = Wrap(tail + j)
    BY <2>1, <2>3, HeadOffset
  <2> QED
    BY <2>1, <2>3, <2>4, WrapInjective
<1> QED
  BY <1>1, RingIInvHolds, PTL

(***************************************************************************)
(* What head promises is in memory before head promises it, for every      *)
(* order in which the memory system shows the producer's stores.           *)
(***************************************************************************)
THEOREM PromiseKept == Spec => []PromisedIsVisible
<1>1. ASSUME RingIInv PROVE PromisedIsVisible
  <2> SUFFICES ASSUME NEW k \in 0 .. Used - 1, NEW store \in storeBuffer,
                      store.slot = Wrap(tail + k)
               PROVE  FALSE
    BY DEF PromisedIsVisible
  <2>1. PICK i \in 0 .. Len(src) - 1 : store.slot = Wrap(head + i)
    BY <1>1 DEF RingIInv, RingInv, StoresAreSrc
  <2>2. /\ Used + putLen <= RingMask /\ Len(src) <= putLen /\ putLen \in Nat
        /\ Used \in Slot /\ head \in Slot /\ tail \in Slot
    BY <1>1, UsedFacts DEF RingIInv, RingInv, PutView, TypeOK
  <2>3. RingMask \in Nat /\ Len(src) \in Nat
    BY <1>1, RingBytesAssumption DEF RingIInv, TypeOK, RingMask
  <2>4. /\ i \in Nat /\ Used + i <= RingMask /\ Used + i \in Slot
        /\ k \in Slot /\ k # Used + i
    BY <2>1, <2>2, <2>3 DEF Slot
  <2>5. Wrap(tail + (Used + i)) = Wrap(tail + k)
    BY <2>1, <2>2, <2>4, HeadOffset
  <2> QED
    BY <2>2, <2>4, <2>5, WrapInjective
<1> QED
  BY <1>1, RingIInvHolds, PTL

(***************************************************************************)
(* No put, of any length into a ring of any size, moves the head onto the  *)
(* tail, so head = tail is never a full ring.                              *)
(***************************************************************************)
THEOREM FullIsNotEmpty == Spec => FullNeverLooksEmpty
<1>1. ASSUME RingIInv, [Next]_vars, head' # head PROVE head' # tail
  <2>1. PutPublish
    BY <1>1 DEF Next, vars, PutStep, GetStep, PutBegin, PutByte, Commit, GetBegin,
                GetByte, GetPublish, putVars, getVars
  <2>2. /\ head' = Wrap(head + putLen) /\ Used + putLen <= RingMask
        /\ putLen \in Nat /\ head \in Slot /\ tail \in Slot
    BY <1>1, <2>1 DEF PutPublish, RingIInv, RingInv, PutView, TypeOK
  <2>3. head' = Wrap(tail + (Used + putLen)) /\ Used \in Slot /\ head = Wrap(tail + Used)
    BY <2>2, HeadOffset, UsedFacts
  <2>4. /\ tail = Wrap(tail + 0) /\ 0 \in Slot /\ RingMask \in Nat
        /\ Used + putLen \in Slot /\ putLen # 0
    BY <1>1, <2>2, <2>3, WrapBelow, RingBytesAssumption DEF Slot, RingMask
  <2>5. Used + putLen # 0
    BY <2>2, <2>3, <2>4 DEF Slot
  <2> QED
    BY <2>2, <2>3, <2>4, <2>5, WrapInjective
<1>2. RingIInv /\ [Next]_vars => [head' # head => head' # tail]_vars
  BY <1>1
<1> QED
  BY <1>2, RingIInvHolds, PTL DEF Spec, FullNeverLooksEmpty

-----------------------------------------------------------------------------
(***************************************************************************)
(* The refinement of ByteFifo.                                             *)
(***************************************************************************)

ContentsOK ==
  /\ Used \in Nat
  /\ Contents \in Seq(Byte) /\ Len(Contents) = Used
  /\ \A k \in 1 .. Used : Contents[k] = data[Wrap(tail + (k - 1))]

LEMMA ContentsFacts == RingIInv => ContentsOK
<1> SUFFICES ASSUME RingIInv PROVE ContentsOK
  OBVIOUS
<1>1. Used \in Slot /\ Used \in Nat /\ tail \in Slot /\ data \in [Slot -> Byte]
  BY UsedFacts, RingBytesAssumption DEF RingIInv, TypeOK, Slot, RingMask
<1>2. \A k \in 1 .. Used : Wrap(tail + k - 1) = Wrap(tail + (k - 1)) /\ k - 1 \in Slot
  BY <1>1, RingBytesAssumption DEF Slot, RingMask
<1>3. \A k \in 1 .. Used : data[Wrap(tail + k - 1)] \in Byte
  BY <1>1, <1>2, WrapSlot
<1> QED
  BY <1>1, <1>2, <1>3 DEF Contents, ContentsOK

LEMMA ContentsFactsNext == RingIInv' => ContentsOK'
  BY ContentsFacts, PTL

\* Sequences are equal when their lengths and their elements are.
LEMMA SeqEqual ==
  ASSUME NEW s \in Seq(Byte), NEW t \in Seq(Byte), Len(s) = Len(t),
         \A k \in 1 .. Len(s) : s[k] = t[k]
  PROVE  s = t
  OBVIOUS

LEMMA ConcatFacts ==
  ASSUME NEW s \in Seq(Byte), NEW t \in Seq(Byte)
  PROVE  /\ s \o t \in Seq(Byte) /\ Len(s \o t) = Len(s) + Len(t)
         /\ \A k \in 1 .. Len(s) : (s \o t)[k] = s[k]
         /\ \A k \in Len(s) + 1 .. Len(s) + Len(t) : (s \o t)[k] = t[k - Len(s)]
  OBVIOUS

\* The contents depend only on the indices and on the promised slots.
LEMMA SameContents ==
  ASSUME RingIInv, RingIInv', Used' = Used, tail' = tail,
         \A k \in 0 .. Used - 1 : data'[Wrap(tail + k)] = data[Wrap(tail + k)]
  PROVE  Contents' = Contents
<1>1. ContentsOK
  BY ContentsFacts
<1>2. ContentsOK'
  BY ContentsFactsNext
<1>3. \A k \in 1 .. Used : Contents'[k] = Contents[k]
  BY <1>1, <1>2 DEF ContentsOK
<1> QED
  BY <1>1, <1>2, <1>3, SeqEqual DEF ContentsOK

LEMMA InitRefines == Init => Fifo!Init
<1> SUFFICES ASSUME Init PROVE Fifo!Init
  OBVIOUS
<1>1. RingIInv /\ Used = 0
  BY InitTypeOK, InitRingInv, WrapBelow, RingBytesAssumption DEF RingIInv, Init, Used
<1>2. Contents = <<>>
  BY <1>1, ContentsFacts, NoBytes, SeqEqual DEF ContentsOK
<1> QED
  BY <1>2 DEF Init, Fifo!Init

LEMMA PutByteRefines ==
  ASSUME RingIInv, RingIInv', NEW b \in Byte, PutByte(b)
  PROVE  Fifo!Offer(b)
<1>1. Contents' = Contents
  BY SameContents DEF PutByte, Used
<1>2. Len(Contents) + Len(src) < RingMask
  BY ContentsFacts, RingBytesAssumption
     DEF ContentsOK, PutByte, RingIInv, RingInv, PutView, TypeOK, RingMask
<1> QED
  BY <1>1, <1>2 DEF PutByte, getVars, Fifo!Offer

LEMMA CommitRefines ==
  ASSUME RingIInv, RingIInv', PromisedIsVisible, NEW store \in storeBuffer, Commit(store)
  PROVE  Contents' = Contents /\ src' = src /\ dst' = dst
<1>1. ASSUME NEW k \in 0 .. Used - 1
      PROVE  data'[Wrap(tail + k)] = data[Wrap(tail + k)]
  <2>1. store.slot # Wrap(tail + k)
    BY DEF PromisedIsVisible
  <2>2. Wrap(tail + k) \in Slot
    <3>1. Used \in Slot /\ tail \in Slot
      BY UsedFacts DEF RingIInv, TypeOK
    <3>2. k \in Slot
      BY <3>1, RingBytesAssumption DEF Slot, RingMask
    <3> QED
      BY <3>1, <3>2, WrapSlot
  <2> QED
    BY <2>1, <2>2 DEF Commit, RingIInv, TypeOK
<1> QED
  BY <1>1, SameContents DEF Commit, Used, putVars, getVars

LEMMA PutPublishRefines ==
  ASSUME RingIInv, RingIInv', PutPublish
  PROVE  Fifo!Send
<1>1. ContentsOK /\ ContentsOK'
  BY ContentsFacts, ContentsFactsNext
<1>2. /\ head' = Wrap(head + putLen) /\ tail' = tail /\ data' = data
      /\ storeBuffer = {} /\ src' = <<>> /\ dst' = dst
      /\ Len(src) = putLen /\ putLen \in Nat /\ src \in Seq(Byte)
      /\ Used + putLen <= RingMask /\ RingMask \in Nat
      /\ head \in Slot /\ tail \in Slot
  BY RingBytesAssumption
     DEF PutPublish, Barrier, getVars, RingIInv, RingInv, PutView, TypeOK, RingMask
<1>3. Used' = Used + putLen
  BY <1>2, UsedAfterPut
<1>4. \A k \in 0 .. Len(src) - 1 : data[Wrap(head + k)] = src[k + 1]
  BY <1>2 DEF RingIInv, RingInv, StoresAreSrc
<1>5. /\ Contents \o src \in Seq(Byte) /\ Len(Contents \o src) = Used + putLen
      /\ \A k \in 1 .. Used : (Contents \o src)[k] = Contents[k]
      /\ \A k \in Used + 1 .. Used + putLen : (Contents \o src)[k] = src[k - Used]
  BY <1>1, <1>2, ConcatFacts DEF ContentsOK
<1>6. ASSUME NEW k \in 1 .. Used + putLen
      PROVE  Contents'[k] = (Contents \o src)[k]
  <2>1. Contents'[k] = data[Wrap(tail + (k - 1))]
    BY <1>1, <1>2, <1>3 DEF ContentsOK
  <2>2. CASE k <= Used
    BY <2>1, <2>2, <1>1, <1>5 DEF ContentsOK
  <2>3. CASE k > Used
    <3>1. PICK i \in 0 .. putLen - 1 : k - 1 = Used + i
      <4>1. k - 1 - Used \in 0 .. putLen - 1 /\ k - 1 = Used + (k - 1 - Used)
        BY <2>3, <1>1, <1>2 DEF ContentsOK
      <4> QED
        BY <4>1
    <3>2. Wrap(head + i) = Wrap(tail + (Used + i))
      BY <3>1, <1>1, <1>2, HeadOffset DEF ContentsOK
    <3>3. data[Wrap(head + i)] = src[i + 1]
      BY <3>1, <1>2, <1>4
    <3>4. i + 1 = k - Used /\ k \in Used + 1 .. Used + putLen
      BY <3>1, <2>3, <1>1, <1>2 DEF ContentsOK
    <3> QED
      BY <3>1, <3>2, <3>3, <3>4, <2>1, <1>5
  <2> QED
    BY <2>2, <2>3, <1>1, <1>2 DEF ContentsOK
<1>7. Contents' = Contents \o src
  BY <1>1, <1>3, <1>5, <1>6, SeqEqual DEF ContentsOK
<1> QED
  BY <1>2, <1>7 DEF Fifo!Send

LEMMA GetByteRefines ==
  ASSUME RingIInv, RingIInv', GetByte
  PROVE  Fifo!Take
<1>1. Contents' = Contents
  BY SameContents DEF GetByte, Used
<1>2. /\ Len(dst) < Len(Contents) /\ Len(dst) \in Nat
      /\ Contents[Len(dst) + 1] = data[Wrap(getTail + Len(dst))]
  <2>1. /\ Len(dst) \in Nat /\ getTail = tail /\ Len(dst) < getLen /\ getLen <= Used
        /\ getLen \in Nat /\ ContentsOK
    BY ContentsFacts DEF GetByte, RingIInv, RingInv, GetView, TypeOK
  <2>2. Len(dst) + 1 \in 1 .. Used /\ (Len(dst) + 1) - 1 = Len(dst)
    BY <2>1 DEF ContentsOK
  <2> QED
    BY <2>1, <2>2 DEF ContentsOK
<1> QED
  BY <1>1, <1>2 DEF GetByte, putVars, Fifo!Take

LEMMA GetPublishRefines ==
  ASSUME RingIInv, RingIInv', GetPublish
  PROVE  Fifo!Release
<1>1. ContentsOK /\ ContentsOK'
  BY ContentsFacts, ContentsFactsNext
<1>2. /\ tail' = Wrap(tail + getLen) /\ head' = head /\ data' = data
      /\ src' = src /\ dst' = <<>> /\ Len(dst) = getLen
      /\ getLen \in Nat /\ getLen <= Used /\ head \in Slot /\ tail \in Slot
  BY DEF GetPublish, putVars, RingIInv, RingInv, GetView, TypeOK
<1>3. Used' = Used - getLen /\ Used \in Slot
  BY <1>2, UsedAfterGet, UsedFacts
<1> DEFINE rest == SubSeq(Contents, getLen + 1, Used)
<1>4. /\ rest \in Seq(Byte) /\ Len(rest) = Used - getLen
      /\ \A k \in 1 .. Used - getLen : rest[k] = Contents[getLen + k]
  <2>1. Contents \in Seq(Byte) /\ Len(Contents) = Used /\ getLen \in Nat /\ getLen <= Used
    BY <1>1, <1>2 DEF ContentsOK
  <2> QED
    BY ONLY <2>1 DEF rest
<1>5. ASSUME NEW k \in 1 .. Used - getLen
      PROVE  Contents'[k] = rest[k]
  <2>1. Contents'[k] = data[Wrap(Wrap(tail + getLen) + (k - 1))]
    BY <1>1, <1>2, <1>3 DEF ContentsOK
  <2>2. Wrap(Wrap(tail + getLen) + (k - 1)) = Wrap(tail + (getLen + k - 1))
    <3>1. /\ RingBytes \in Nat \ {0} /\ RingMask = RingBytes - 1
          /\ tail \in 0 .. RingMask /\ getLen \in Nat /\ k - 1 \in Nat
          /\ getLen + (k - 1) =< RingMask /\ getLen + k - 1 = getLen + (k - 1)
      BY <1>2, <1>3, RingBytesAssumption DEF Slot, RingMask
    <3> QED
      BY <3>1, WrapBelow, WrapAhead DEF Slot
  <2>3. getLen + k \in 1 .. Used /\ (getLen + k) - 1 = getLen + k - 1
    BY <1>2, <1>3 DEF Slot
  <2> QED
    BY <2>1, <2>2, <2>3, <1>1, <1>4 DEF ContentsOK
<1>6. Contents' = rest
  BY <1>1, <1>3, <1>4, <1>5, SeqEqual DEF ContentsOK
<1> QED
  BY <1>1, <1>2, <1>6 DEF ContentsOK, Fifo!Release

(***************************************************************************)
(* For every ring size, every set of bytes and every interleaving, the     *)
(* ring is a bounded first-in first-out queue: what a get copies is the    *)
(* oldest bytes that puts published, none lost, none twice, none made up.  *)
(***************************************************************************)
THEOREM Refinement == Spec => ImplementsFifo
<1>1. ASSUME RingIInv, RingIInv', PromisedIsVisible, [Next]_vars
      PROVE  [Fifo!Next]_Fifo!vars
  <2>1. CASE \E n \in 1 .. RingBytes : PutBegin(n) \/ GetBegin(n)
    <3>1. Contents' = Contents
      BY <1>1, <2>1, SameContents DEF PutBegin, GetBegin, Used
    <3>2. src' = src /\ dst' = dst
      BY <1>1, <2>1 DEF PutBegin, GetBegin, putVars, getVars, RingIInv, RingInv,
                        PutView, GetView
    <3> QED
      BY <3>1, <3>2 DEF Fifo!vars
  <2>2. CASE PutStep
    BY <1>1, <2>2, PutByteRefines, CommitRefines, PutPublishRefines
       DEF PutStep, Fifo!Next, Fifo!vars
  <2>3. CASE GetStep
    BY <1>1, <2>3, GetByteRefines, GetPublishRefines DEF GetStep, Fifo!Next
  <2>4. CASE UNCHANGED vars
    BY <1>1, <2>4, SameContents DEF vars, putVars, getVars, Used, Fifo!vars
  <2> QED
    BY <1>1, <2>1, <2>2, <2>3, <2>4 DEF Next
<1> QED
  BY <1>1, InitRefines, RingIInvHolds, PromiseKept, PTL DEF Spec, ImplementsFifo, Fifo!Spec

=============================================================================
