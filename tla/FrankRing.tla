------------------------------ MODULE FrankRing ------------------------------
(***************************************************************************)
(* One ring of the SRAM mailbox (firmware/common/frank_ring.h): a single   *)
(* producer on one core, a single consumer on the other, two indices and   *)
(* no lock.  The same code runs on both cores and, in the kernel driver,   *)
(* as ring_put and ring_get.                                               *)
(*                                                                         *)
(* A put is three kinds of step: read the room once and latch the head,    *)
(* store the bytes one at a time, publish the head.  A get mirrors it.     *)
(* The producer's stores sit in storeBuffer until the memory system        *)
(* commits them, in any order; the DMB before publishing is the wait for   *)
(* storeBuffer to empty.                                                   *)
(***************************************************************************)
EXTENDS Integers, Sequences

CONSTANTS
  Byte,        \* the bytes the model tells apart
  RingBytes    \* FRANK_RING_BYTES

\* The code needs a power of two so that a mask is a remainder; the model
\* takes the remainder and needs only room for one byte besides the unused one.
ASSUME RingBytesAssumption == RingBytes \in Nat /\ RingBytes >= 2

RingMask == RingBytes - 1

Slot == 0 .. RingMask

VARIABLES
  head,        \* producer writes, consumer reads
  tail,        \* consumer writes, producer reads
  data,        \* the bytes in memory
  storeBuffer, \* the producer's stores that memory does not show yet
  putting,     \* the producer is inside frank_ring_put
  putHead,     \* its copy of head
  putLen,      \* the length it settled on
  src,         \* the bytes it has stored so far
  getting,     \* the consumer is inside frank_ring_get
  getTail,     \* its copy of tail
  getLen,      \* the length it settled on
  dst          \* the bytes it has copied so far

putVars == <<putting, putHead, putLen, src>>
getVars == <<getting, getTail, getLen, dst>>
vars == <<head, tail, data, storeBuffer, putVars, getVars>>

-----------------------------------------------------------------------------

\* Mutant: the index is not masked.
WrapForgotten(i) == i

Wrap(i) == i % RingBytes

Used == Wrap(head - tail)

\* Mutant: the room is not looked at, as in the kernel's ring_put.
SpaceUnchecked == RingMask

\* One byte stays unused so that head = tail always means empty.
Space == RingMask - Used

AtMost(n, limit) == IF n > limit THEN limit ELSE n

Init ==
  /\ head = 0 /\ tail = 0
  /\ data \in [Slot -> Byte]
  /\ storeBuffer = {}
  /\ putting = FALSE /\ putHead = 0 /\ putLen = 0 /\ src = <<>>
  /\ getting = FALSE /\ getTail = 0 /\ getLen = 0 /\ dst = <<>>

\* frank_ring_put up to its loop.  The caller asks for n bytes.
PutBegin(n) ==
  /\ ~putting
  /\ putting' = TRUE
  /\ putHead' = head
  /\ putLen' = AtMost(n, Space)
  /\ src' = <<>>
  /\ UNCHANGED <<head, tail, data, storeBuffer, getVars>>

\* Mutant: the first byte lands one slot too far.
PutByteOffByOne(b) ==
  /\ putting /\ Len(src) < putLen
  /\ storeBuffer' = storeBuffer \cup
       {[slot |-> Wrap(putHead + Len(src) + 1), byte |-> b]}
  /\ src' = Append(src, b)
  /\ UNCHANGED <<head, tail, data, putting, putHead, putLen, getVars>>

\* One pass of the store loop.
PutByte(b) ==
  /\ putting /\ Len(src) < putLen
  /\ storeBuffer' = storeBuffer \cup
       {[slot |-> Wrap(putHead + Len(src)), byte |-> b]}
  /\ src' = Append(src, b)
  /\ UNCHANGED <<head, tail, data, putting, putHead, putLen, getVars>>

\* Memory shows one of the stores; nothing orders them among themselves.
Commit(store) ==
  /\ store \in storeBuffer
  /\ data' = [data EXCEPT ![store.slot] = store.byte]
  /\ storeBuffer' = storeBuffer \ {store}
  /\ UNCHANGED <<head, tail, putVars, getVars>>

\* Mutant: the DMB before publishing is missing.
BarrierMissing == TRUE

\* frank_ring_barrier: every earlier store is visible.
Barrier == storeBuffer = {}

PutPublish ==
  /\ putting /\ Len(src) = putLen
  /\ Barrier
  /\ head' = Wrap(putHead + putLen)
  /\ putting' = FALSE
  /\ src' = <<>>
  /\ UNCHANGED <<tail, data, storeBuffer, putHead, putLen, getVars>>

\* frank_ring_get up to its loop.
GetBegin(n) ==
  /\ ~getting
  /\ getting' = TRUE
  /\ getTail' = tail
  /\ getLen' = AtMost(n, Used)
  /\ dst' = <<>>
  /\ UNCHANGED <<head, tail, data, storeBuffer, putVars>>

\* One pass of the load loop.
GetByte ==
  /\ getting /\ Len(dst) < getLen
  /\ dst' = Append(dst, data[Wrap(getTail + Len(dst))])
  /\ UNCHANGED <<head, tail, data, storeBuffer, getting, getTail, getLen, putVars>>

\* Mutants: the tail is given up before the bytes are copied; or not at all.
GetPublishEarly ==
  /\ getting
  /\ tail' = Wrap(getTail + getLen)
  /\ getting' = FALSE
  /\ dst' = <<>>
  /\ UNCHANGED <<head, data, storeBuffer, getTail, getLen, putVars>>

GetPublishStale ==
  /\ getting /\ Len(dst) = getLen
  /\ getting' = FALSE
  /\ dst' = <<>>
  /\ UNCHANGED <<head, tail, data, storeBuffer, getTail, getLen, putVars>>

\* The barrier before the new tail: the loads are done when it is stored.
GetPublish ==
  /\ getting /\ Len(dst) = getLen
  /\ tail' = Wrap(getTail + getLen)
  /\ getting' = FALSE
  /\ dst' = <<>>
  /\ UNCHANGED <<head, data, storeBuffer, getTail, getLen, putVars>>

PutStep ==
  \/ \E b \in Byte : PutByte(b)
  \/ \E store \in storeBuffer : Commit(store)
  \/ PutPublish

GetStep == GetByte \/ GetPublish

Next ==
  \/ \E n \in 1 .. RingBytes : PutBegin(n) \/ GetBegin(n)
  \/ PutStep
  \/ GetStep

Spec == Init /\ [][Next]_vars

(***************************************************************************)
(* A put or a get that started finishes, because each runs to its end on a *)
(* core of its own; memory shows every store in the end; and the consumer  *)
(* polls for ever, core 1 in its service loop and Linux from a timer.      *)
(* Nothing obliges the producer to produce.                                *)
(***************************************************************************)
Fairness ==
  /\ WF_vars(PutStep)
  /\ WF_vars(GetStep)
  /\ WF_vars(\E n \in 1 .. RingBytes : GetBegin(n))

FairSpec == Spec /\ Fairness

-----------------------------------------------------------------------------

Store == [slot : Slot, byte : Byte]

TypeOK ==
  /\ head \in Slot /\ tail \in Slot
  /\ data \in [Slot -> Byte]
  /\ storeBuffer \in SUBSET Store
  /\ putting \in BOOLEAN /\ putHead \in Slot /\ putLen \in 0 .. RingMask
  /\ src \in Seq(Byte)
  /\ getting \in BOOLEAN /\ getTail \in Slot /\ getLen \in 0 .. RingMask
  /\ dst \in Seq(Byte)

\* The slots that the put under way writes and the get under way reads.
PutSlots == IF putting THEN {Wrap(putHead + i) : i \in 0 .. putLen - 1} ELSE {}
GetSlots == IF getting THEN {Wrap(getTail + i) : i \in 0 .. getLen - 1} ELSE {}

(***************************************************************************)
(* The reason there are no locks in frank_ring.h: the two cores never      *)
(* touch one byte at the same time, however far their indices have moved   *)
(* since each of them last looked at the other's.                          *)
(***************************************************************************)
NoSlotConflict == PutSlots \cap GetSlots = {}

(***************************************************************************)
(* A promised byte is in memory: no slot between tail and head still waits *)
(* in the producer's store buffer.  This is what the DMB before the new    *)
(* head buys.                                                              *)
(***************************************************************************)
PromisedIsVisible ==
  \A k \in 0 .. Used - 1 : \A store \in storeBuffer :
    store.slot # Wrap(tail + k)

(***************************************************************************)
(* Filling the ring never makes it look empty: a put that moves the head   *)
(* does not move it onto the tail.                                         *)
(***************************************************************************)
FullNeverLooksEmpty == [][head' # head => head' # tail]_vars

-----------------------------------------------------------------------------
(***************************************************************************)
(* The inductive strengthening the proofs use.                             *)
(***************************************************************************)

\* A put's view of the ring can only become pessimistic: its head is the
\* head, and the room it counted is still there because tail only advances.
PutView ==
  /\ putting => putHead = head /\ Used + putLen <= RingMask /\ Len(src) <= putLen
  /\ ~putting => src = <<>> /\ storeBuffer = {}

\* A get's view likewise: the bytes it counted are still promised.
GetView ==
  /\ getting => getTail = tail /\ getLen <= Used /\ Len(dst) <= getLen
  /\ ~getting => dst = <<>>

\* A byte the put stored is in memory or on its way there, and nothing else is.
StoresAreSrc ==
  /\ \A store \in storeBuffer :
       \E k \in 0 .. Len(src) - 1 :
         store.slot = Wrap(head + k) /\ store.byte = src[k + 1]
  /\ \A k \in 0 .. Len(src) - 1 :
       \/ data[Wrap(head + k)] = src[k + 1]
       \/ \E store \in storeBuffer : store.slot = Wrap(head + k)

\* What the get copied is what the ring holds at its tail.
CopiesAreContents ==
  \A k \in 0 .. Len(dst) - 1 : dst[k + 1] = data[Wrap(tail + k)]

(***************************************************************************)
(* Between any two steps of either core the indices, the latched copies,   *)
(* the bytes in memory and the stores on their way agree: the invariant    *)
(* that makes frank_ring_put and frank_ring_get correct together.          *)
(***************************************************************************)
RingInv == PutView /\ GetView /\ StoresAreSrc /\ CopiesAreContents

-----------------------------------------------------------------------------
\* The bytes between the indices, oldest first.
Contents == [k \in 1 .. Used |-> data[Wrap(tail + k - 1)]]

Fifo == INSTANCE ByteFifo WITH
          Capacity <- RingMask, q <- Contents, sending <- src, taken <- dst

(***************************************************************************)
(* The ring implements a bounded first-in first-out queue: whatever the    *)
(* interleaving and the order in which stores become visible, a get copies *)
(* exactly the oldest bytes put, in order, none lost and none twice.       *)
(***************************************************************************)
ImplementsFifo == Fifo!Spec

(***************************************************************************)
(* A full ring does not stay full for ever while the consumer polls: no    *)
(* order of put and get steps leaves both sides waiting on each other.     *)
(***************************************************************************)
FullRingDrains == (Space = 0) ~> (Space > 0)

=============================================================================
