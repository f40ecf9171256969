-------------------------- MODULE BlkDoorbell_proofs --------------------------
(***************************************************************************)
(* Proofs about BlkDoorbell, for any number of callers, of chunks and of   *)
(* sequence numbers: as long as the kernel does not give up, core 1        *)
(* executes whole descriptors and touches only buffers it has been lent.   *)
(***************************************************************************)
EXTENDS BlkDoorbell, FiniteSetTheorems, TLAPS

Holds(c) == pc[c] \in {"store", "wait", "status"}
SomebodyWaits == \E c \in Caller : pc[c] = "wait"

(***************************************************************************)
(* The mutex, and the chunks a request still has.                          *)
(***************************************************************************)
Mutex ==
  /\ \A c \in Caller : Holds(c) <=> holder = c
  /\ \A c \in Caller : pc[c] = "lock" => chunks[c] > 0

(***************************************************************************)
(* The stores of a descriptor are under way or have arrived until it is    *)
(* announced, and nobody else is about to announce one.                    *)
(***************************************************************************)
Stores ==
  /\ pending # {} => \E c \in Caller : pc[c] = "store"
  /\ (\E c \in Caller : pc[c] \in {"store", "wait"}) =>
       \A f \in Fields : f \in pending \/ desc[f] = kseq

(***************************************************************************)
(* A request that core 1 has not acknowledged is the one the kernel waits  *)
(* for, and its descriptor is all there.  A kernel that does not give up   *)
(* keeps it so until done is published.                                    *)
(***************************************************************************)
Announced == seq # done => seq = kseq /\ SomebodyWaits
Taken ==
  /\ core1 # "poll" => taken = seq /\ seq # done
  /\ core1 \in {"read", "run"} => \A f \in Fields : f \in unread \/ got[f] = taken
  /\ core1 = "run" => unread = {}

Lent == ~GivesUp => Announced /\ Taken

DoorbellInv == TypeOK /\ Mutex /\ Stores /\ Lent

-----------------------------------------------------------------------------

LEMMA CountsOn ==
  ASSUME NEW n \in Number PROVE NextSeq(n) = IF n + 1 < SeqMod THEN n + 1 ELSE 0
<1>1. CASE n + 1 < SeqMod
  BY <1>1, BlkDoorbellAssumption DEF Number, NextSeq
<1>2. CASE ~(n + 1 < SeqMod)
  <2>1. n + 1 = SeqMod
    BY <1>2, BlkDoorbellAssumption DEF Number
  <2> QED
    BY <1>2, <2>1, BlkDoorbellAssumption DEF NextSeq
<1> QED
  BY <1>1, <1>2

LEMMA Numbers ==
  /\ SeqMod \in Nat \ {0} /\ 0 \in Number /\ 0 \in 0 .. MaxChunks
  /\ \A n \in Number : NextSeq(n) \in Number
BY BlkDoorbellAssumption, CountsOn DEF Number

\* Two callers are never both past the mutex.
LEMMA OneHolder ==
  ASSUME Mutex, NEW c \in Caller, NEW d \in Caller, Holds(c), Holds(d) PROVE c = d
BY DEF Mutex

\* While somebody stores, or nobody has the mutex, core 1 has nothing to do.
LEMMA NothingAnnounced ==
  ASSUME DoorbellInv, ~GivesUp, ~SomebodyWaits PROVE seq = done /\ core1 = "poll"
BY DEF DoorbellInv, Lent, Announced, Taken, TypeOK

LEMMA StoringMeansNobodyWaits ==
  ASSUME Mutex, NEW c \in Caller, pc[c] = "store" PROVE ~SomebodyWaits
BY OneHolder DEF Holds, SomebodyWaits

LEMMA FreeMeansNobodyHolds ==
  ASSUME Mutex, holder = "none" PROVE \A c \in Caller : ~Holds(c)
BY BlkDoorbellAssumption DEF Mutex

-----------------------------------------------------------------------------
(* The steps *)

LEMMA InitInv == Init => DoorbellInv
<1> SUFFICES ASSUME Init PROVE DoorbellInv
  OBVIOUS
<1>1. TypeOK
  <2>1. /\ pc \in [Caller -> {"idle", "lock", "store", "wait", "status"}]
        /\ chunks \in [Caller -> 0 .. MaxChunks]
    BY Numbers DEF Init
  <2>2. desc \in [Fields -> Number] /\ got \in [Fields -> Number] /\ {seq, done} \subseteq Number
        /\ kseq \in Number /\ taken \in Number
    BY Numbers DEF Init
  <2>3. fate \in [Number -> Outcome \cup {"none", "torn"}] /\ executed \subseteq Number
    BY DEF Init
  <2> QED
    BY <2>1, <2>2, <2>3 DEF Init, TypeOK, Outcome
<1>2. Mutex /\ Stores /\ Lent
  BY BlkDoorbellAssumption DEF Init, Mutex, Holds, Stores, Lent, Announced, Taken
<1> QED
  BY <1>1, <1>2 DEF DoorbellInv

LEMMA QueueRqInv ==
  ASSUME DoorbellInv, NEW c \in Caller, NEW k \in 1 .. MaxChunks, QueueRq(c, k)
  PROVE  DoorbellInv'
<1> USE DEF DoorbellInv
<1>1. /\ pc[c] = "idle" /\ chunks' = [chunks EXCEPT ![c] = k] /\ pc' = [pc EXCEPT ![c] = "lock"]
      /\ UNCHANGED <<world, holder, kseq, pending, desc, seq, done, status,
                     core1, taken, unread, got, fate, executed>>
  BY DEF QueueRq, sharedVars, core1Vars, historyVars
<1>2. /\ pc \in [Caller -> {"idle", "lock", "store", "wait", "status"}]
      /\ chunks \in [Caller -> 0 .. MaxChunks]
      /\ k \in 0 .. MaxChunks /\ k > 0
  BY BlkDoorbellAssumption DEF TypeOK
<1>3. /\ pc' \in [Caller -> {"idle", "lock", "store", "wait", "status"}]
      /\ chunks' \in [Caller -> 0 .. MaxChunks]
  BY <1>1, <1>2
<1>4. TypeOK'
  BY <1>1, <1>3 DEF TypeOK
<1>5. \A d \in Caller : d # c => pc'[d] = pc[d] /\ chunks'[d] = chunks[d]
  BY <1>1, <1>2
<1>6. pc'[c] = "lock" /\ chunks'[c] = k
  BY <1>1, <1>2
<1>7. Mutex'
  BY <1>1, <1>2, <1>5, <1>6 DEF Mutex, Holds
<1>8. /\ \A d \in Caller : pc'[d] = "wait" <=> pc[d] = "wait"
      /\ \A d \in Caller : pc'[d] = "store" <=> pc[d] = "store"
  BY <1>1, <1>5, <1>6
<1>9. Stores'
  BY <1>1, <1>8 DEF Stores
<1>10. Lent'
  BY <1>1, <1>8 DEF Lent, Announced, Taken, SomebodyWaits, GivesUp
<1> QED
  BY <1>4, <1>7, <1>9, <1>10

LEMMA SubmitInv ==
  ASSUME DoorbellInv, NEW c \in Caller, Submit(c) PROVE DoorbellInv'
<1> USE DEF DoorbellInv
<1>1. /\ pc[c] = "lock" /\ holder = "none" /\ holder' = c /\ kseq' = NextSeq(kseq)
      /\ pending' = Fields /\ chunks' = [chunks EXCEPT ![c] = @ - 1]
      /\ pc' = [pc EXCEPT ![c] = "store"] /\ fate' = [fate EXCEPT ![kseq'] = "none"]
      /\ executed' = executed \ {kseq'}
      /\ UNCHANGED <<world, desc, seq, done, status, core1, taken, unread, got>>
  BY DEF Submit, sharedVars, core1Vars
<1>2. /\ pc \in [Caller -> {"idle", "lock", "store", "wait", "status"}]
      /\ chunks \in [Caller -> 0 .. MaxChunks] /\ chunks[c] > 0
  BY <1>1 DEF TypeOK, Mutex
<1>3. TypeOK'
  <2>1. pc' \in [Caller -> {"idle", "lock", "store", "wait", "status"}]
    BY <1>1, <1>2
  <2>2. chunks[c] - 1 \in 0 .. MaxChunks
    BY <1>2, BlkDoorbellAssumption
  <2>3. chunks' \in [Caller -> 0 .. MaxChunks]
    BY <1>1, <1>2, <2>2
  <2>4. kseq' \in Number
    BY <1>1, Numbers DEF TypeOK
  <2>5. fate' \in [Number -> Outcome \cup {"none", "torn"}] /\ executed' \subseteq Number
    BY <1>1, <2>4 DEF TypeOK
  <2> QED
    BY <1>1, <2>1, <2>3, <2>4, <2>5 DEF TypeOK
<1>4. \A d \in Caller : d # c => pc'[d] = pc[d] /\ chunks'[d] = chunks[d]
  BY <1>1, <1>2
<1>5. pc'[c] = "store"
  BY <1>1, <1>2
<1>6. \A d \in Caller : ~Holds(d)
  BY <1>1, FreeMeansNobodyHolds
<1>7. Mutex'
  BY <1>1, <1>4, <1>5, <1>6 DEF Mutex, Holds
<1>8. Stores'
  BY <1>1, <1>5 DEF Stores
<1>9. Lent'
  <2>1. ~SomebodyWaits
    BY <1>6 DEF SomebodyWaits, Holds
  <2>2. ~GivesUp => seq = done /\ core1 = "poll"
    BY <2>1, NothingAnnounced
  <2> QED
    BY <1>1, <2>2 DEF Lent, Announced, Taken, GivesUp
<1> QED
  BY <1>3, <1>7, <1>8, <1>9

LEMMA StoreLandsInv ==
  ASSUME DoorbellInv, NEW f \in Fields, StoreLands(f) PROVE DoorbellInv'
<1> USE DEF DoorbellInv
<1>1. /\ f \in pending /\ pending' = pending \ {f} /\ desc' = [desc EXCEPT ![f] = kseq]
      /\ UNCHANGED <<world, pc, chunks, holder, kseq, seq, done, status,
                     core1, taken, unread, got, fate, executed>>
  BY DEF StoreLands, core1Vars, historyVars
<1>2. TypeOK'
  BY <1>1 DEF TypeOK
<1>3. Mutex'
  BY <1>1 DEF Mutex, Holds
<1>4. PICK c \in Caller : pc[c] = "store"
  BY <1>1 DEF Stores
<1>5. Stores'
  <2>1. \A g \in Fields : g \in pending \/ desc[g] = kseq
    BY <1>4 DEF Stores
  <2>2. \A g \in Fields : g \in pending' \/ desc'[g] = kseq
    BY <1>1, <2>1 DEF TypeOK
  <2> QED
    BY <1>1, <1>4, <2>2 DEF Stores
<1>6. Lent'
  <2>1. ~GivesUp => seq = done /\ core1 = "poll"
    BY <1>4, StoringMeansNobodyWaits, NothingAnnounced
  <2> QED
    BY <1>1, <2>1 DEF Lent, Announced, Taken, GivesUp
<1> QED
  BY <1>2, <1>3, <1>5, <1>6

LEMMA PublishInv ==
  ASSUME DoorbellInv, NEW c \in Caller, Publish(c) PROVE DoorbellInv'
<1> USE DEF DoorbellInv
<1>1. /\ pc[c] = "store" /\ pending = {} /\ seq' = kseq /\ pc' = [pc EXCEPT ![c] = "wait"]
      /\ UNCHANGED <<world, chunks, holder, kseq, pending, desc, done, status,
                     core1, taken, unread, got, fate, executed>>
  BY DEF Publish, core1Vars, historyVars
<1>2. pc \in [Caller -> {"idle", "lock", "store", "wait", "status"}]
  BY DEF TypeOK
<1>3. TypeOK'
  <2>1. pc' \in [Caller -> {"idle", "lock", "store", "wait", "status"}]
    BY <1>1, <1>2
  <2>2. {seq', done'} \subseteq Number
    BY <1>1 DEF TypeOK
  <2> QED
    BY <1>1, <2>1, <2>2 DEF TypeOK
<1>4. /\ pc'[c] = "wait" /\ \A d \in Caller : d # c => pc'[d] = pc[d]
  BY <1>1, <1>2
<1>5. Mutex'
  BY <1>1, <1>4 DEF Mutex, Holds
<1>6. Stores'
  <2>1. \A f \in Fields : f \in pending \/ desc[f] = kseq
    BY <1>1 DEF Stores
  <2> QED
    BY <1>1, <2>1 DEF Stores
<1>7. Lent'
  <2>1. ~GivesUp => seq = done /\ core1 = "poll"
    BY <1>1, StoringMeansNobodyWaits, NothingAnnounced
  <2>2. SomebodyWaits'
    BY <1>4 DEF SomebodyWaits
  <2> QED
    BY <1>1, <2>1, <2>2 DEF Lent, Announced, Taken, GivesUp
<1> QED
  BY <1>3, <1>5, <1>6, <1>7

\* The wait ends: it is seen to be done, or given up.
LEMMA SeeDoneInv ==
  ASSUME DoorbellInv, NEW c \in Caller, SeeDone(c) PROVE DoorbellInv'
<1> USE DEF DoorbellInv
<1>1. /\ pc[c] = "wait" /\ done = kseq /\ pc' = [pc EXCEPT ![c] = "status"]
      /\ UNCHANGED <<world, chunks, holder, kseq, pending, desc, seq, done, status,
                     core1, taken, unread, got, fate, executed>>
  BY DEF SeeDone, sharedVars, core1Vars, historyVars
<1>2. pc \in [Caller -> {"idle", "lock", "store", "wait", "status"}]
  BY DEF TypeOK
<1>3. TypeOK'
  <2>1. pc' \in [Caller -> {"idle", "lock", "store", "wait", "status"}]
    BY <1>1, <1>2
  <2> QED
    BY <1>1, <2>1 DEF TypeOK
<1>4. pc'[c] = "status" /\ \A d \in Caller : d # c => pc'[d] = pc[d]
  BY <1>1, <1>2
<1>5. Mutex'
  BY <1>1, <1>4 DEF Mutex, Holds
<1>6. \A d \in Caller : d # c => pc[d] \notin {"store", "wait"}
  BY <1>1, OneHolder DEF Holds
<1>7. Stores'
  <2>1. pending = {}
    BY <1>1, <1>6 DEF Stores
  <2>2. ~\E d \in Caller : pc'[d] \in {"store", "wait"}
    BY <1>4, <1>6
  <2> QED
    BY <1>1, <2>1, <2>2 DEF Stores
<1>8. Lent'
  <2>1. ~GivesUp => seq = done /\ core1 = "poll"
    BY <1>1 DEF Lent, Announced, Taken, TypeOK
  <2> QED
    BY <1>1, <2>1 DEF Lent, Announced, Taken, GivesUp
<1> QED
  BY <1>3, <1>5, <1>7, <1>8

LEMMA UnlockInv ==
  ASSUME DoorbellInv, NEW c \in Caller, NEW ok \in BOOLEAN, Unlock(c, ok),
         pc[c] = "status" \/ (pc[c] = "wait" /\ GivesUp)
  PROVE  DoorbellInv'
<1> USE DEF DoorbellInv
<1> DEFINE more == ok /\ chunks[c] > 0
<1>1. /\ holder' = "none"
      /\ pc' = [pc EXCEPT ![c] = IF more THEN "lock" ELSE "idle"]
      /\ chunks' = IF more THEN chunks ELSE [chunks EXCEPT ![c] = 0]
      /\ UNCHANGED <<world, kseq, pending, desc, seq, done, status,
                     core1, taken, unread, got, fate, executed>>
  BY DEF Unlock, sharedVars, core1Vars, historyVars
<1>2. /\ pc \in [Caller -> {"idle", "lock", "store", "wait", "status"}]
      /\ chunks \in [Caller -> 0 .. MaxChunks]
  BY DEF TypeOK
<1>3. /\ pc'[c] = (IF more THEN "lock" ELSE "idle")
      /\ \A d \in Caller : d # c => pc'[d] = pc[d] /\ chunks'[d] = chunks[d]
      /\ more => chunks'[c] > 0
  BY <1>1, <1>2
<1>4. TypeOK'
  <2>1. pc' \in [Caller -> {"idle", "lock", "store", "wait", "status"}]
    BY <1>1, <1>2
  <2>2. chunks' \in [Caller -> 0 .. MaxChunks]
    BY <1>1, <1>2, Numbers
  <2> QED
    BY <1>1, <2>1, <2>2 DEF TypeOK
<1>5. \A d \in Caller : d # c => ~Holds(d)
  BY OneHolder DEF Holds
<1>6. \A d \in Caller : ~Holds(d)'
  BY <1>3, <1>5 DEF Holds
<1>7. Mutex'
  <2>1. \A d \in Caller : holder' # d
    BY <1>1, BlkDoorbellAssumption
  <2>2. \A d \in Caller : pc'[d] = "lock" => chunks'[d] > 0
    BY <1>3 DEF Mutex
  <2> QED
    BY <1>6, <2>1, <2>2 DEF Mutex
<1>8. Stores'
  <2>1. pending = {}
    BY <1>5 DEF Stores, Holds
  <2> QED
    BY <1>1, <1>6, <2>1 DEF Stores, Holds
<1>9. Lent'
  <2>1. ~GivesUp => ~SomebodyWaits
    BY <1>5 DEF SomebodyWaits, Holds
  <2>2. ~GivesUp => seq = done /\ core1 = "poll"
    BY <2>1, NothingAnnounced
  <2> QED
    BY <1>1, <2>2 DEF Lent, Announced, Taken, GivesUp
<1> QED
  BY <1>4, <1>7, <1>8, <1>9

LEMMA RebindInv == ASSUME DoorbellInv, Rebind PROVE DoorbellInv'
<1> USE DEF DoorbellInv
<1>1. /\ \A c \in Caller : pc[c] = "idle"
      /\ kseq' = 0 /\ fate' = [n \in Number |-> "none"]
      /\ UNCHANGED <<world, pc, chunks, holder, pending, desc, seq, done, status,
                     core1, taken, unread, got, executed>>
  BY DEF Rebind, sharedVars, core1Vars
<1>2. TypeOK'
  <2>1. fate' \in [Number -> Outcome \cup {"none", "torn"}]
    BY <1>1
  <2> QED
    BY <1>1, <2>1, Numbers DEF TypeOK
<1>3. Mutex' /\ Stores'
  BY <1>1 DEF Mutex, Holds, Stores
<1>4. Lent'
  <2>1. ~SomebodyWaits
    BY <1>1 DEF SomebodyWaits
  <2>2. ~GivesUp => seq = done /\ core1 = "poll"
    BY <2>1, NothingAnnounced
  <2> QED
    BY <1>1, <2>2 DEF Lent, Announced, Taken, GivesUp
<1> QED
  BY <1>2, <1>3, <1>4

LEMMA Core1Inv == ASSUME DoorbellInv, Core1 PROVE DoorbellInv'
<1> USE DEF DoorbellInv
<1>1. UNCHANGED <<world, pc, chunks, holder, kseq, pending, desc, seq>>
  BY DEF Core1, Poll, ReadField, Execute, Finish, kernelVars, sharedVars
<1>2. Mutex' /\ Stores'
  BY <1>1 DEF Mutex, Holds, Stores
<1>3. ASSUME ~GivesUp, core1 # "poll"
      PROVE  /\ taken = seq /\ seq = kseq /\ seq # done /\ SomebodyWaits
             /\ \A f \in Fields : desc[f] = seq
  <2>1. taken = seq /\ seq = kseq /\ seq # done /\ SomebodyWaits
    BY <1>3 DEF Lent, Announced, Taken
  <2>2. pending = {}
    <3>1. PICK c \in Caller : pc[c] = "wait"
      BY <2>1 DEF SomebodyWaits
    <3>2. ~\E d \in Caller : pc[d] = "store"
      BY <3>1, OneHolder DEF Holds
    <3> QED
      BY <3>2 DEF Stores
  <2> QED
    BY <2>1, <2>2 DEF Stores, SomebodyWaits
<1>4. CASE Poll
  <2>1. /\ core1 = "poll" /\ seq # done /\ taken' = seq /\ unread' = Fields /\ core1' = "read"
        /\ UNCHANGED <<done, status, got, fate, executed>>
    BY <1>4 DEF Poll, NewRequest, sharedVars, historyVars
  <2>2. TypeOK'
    BY <1>1, <2>1 DEF TypeOK
  <2>3. Lent'
    BY <1>1, <2>1 DEF Lent, Announced, Taken, SomebodyWaits, GivesUp
  <2> QED
    BY <1>2, <2>2, <2>3
<1>5. CASE \E f \in Fields : ReadField(f)
  <2> PICK f \in Fields : ReadField(f)
    BY <1>5
  <2>1. /\ core1 = "read" /\ f \in unread /\ unread' = unread \ {f}
        /\ got' = [got EXCEPT ![f] = desc[f]]
        /\ core1' = IF unread' = {} THEN "run" ELSE "read"
        /\ UNCHANGED <<done, status, taken, fate, executed>>
    BY DEF ReadField, sharedVars, historyVars
  <2>2. TypeOK'
    <3>1. got' \in [Fields -> Number] /\ unread' \in SUBSET Fields
      BY <2>1 DEF TypeOK
    <3> QED
      BY <1>1, <2>1, <3>1 DEF TypeOK
  <2>3. Lent'
    <3> SUFFICES ASSUME ~GivesUp PROVE Announced' /\ Taken'
      BY <1>1 DEF Lent, GivesUp
    <3>1. \A g \in Fields : g \in unread \/ got[g] = taken
      BY <2>1 DEF Lent, Taken
    <3>2. \A g \in Fields : g \in unread' \/ got'[g] = taken
      BY <1>3, <2>1, <3>1 DEF TypeOK
    <3> QED
      BY <1>1, <1>3, <2>1, <3>2 DEF Announced, Taken, SomebodyWaits
  <2> QED
    BY <1>2, <2>2, <2>3
<1>6. CASE \E outcome \in Outcome : Execute(outcome)
  <2> PICK outcome \in Outcome : Execute(outcome)
    BY <1>6
  <2>1. /\ core1 = "run" /\ status' = outcome /\ core1' = "done"
        /\ fate' = [fate EXCEPT ![taken] = IF Whole THEN outcome ELSE "torn"]
        /\ executed' = executed \cup {n \in Number : Read(n)}
        /\ UNCHANGED <<done, taken, unread, got>>
    BY DEF Execute
  <2>2. TypeOK'
    <3>1. fate' \in [Number -> Outcome \cup {"none", "torn"}] /\ executed' \subseteq Number
      BY <2>1 DEF TypeOK
    <3> QED
      BY <1>1, <2>1, <3>1 DEF TypeOK
  <2>3. Lent'
    BY <1>1, <2>1 DEF Lent, Announced, Taken, SomebodyWaits, GivesUp
  <2> QED
    BY <1>2, <2>2, <2>3
<1>7. CASE Finish
  <2>1. /\ core1 = "done" /\ done' = taken /\ core1' = "poll"
        /\ taken' = 0 /\ got' = [f \in Fields |-> 0] /\ UNCHANGED <<status, unread, fate, executed>>
    BY <1>7 DEF Finish, historyVars
  <2>2. TypeOK'
    <3>1. got' \in [Fields -> Number] /\ {seq', done'} \subseteq Number /\ taken' \in Number
      BY <1>1, <2>1, Numbers DEF TypeOK
    <3> QED
      BY <1>1, <2>1, <3>1 DEF TypeOK
  <2>3. Lent'
    BY <1>1, <1>3, <2>1 DEF Lent, Announced, Taken, GivesUp
  <2> QED
    BY <1>2, <2>2, <2>3
<1> QED
  BY <1>4, <1>5, <1>6, <1>7 DEF Core1

LEMMA NextInv == DoorbellInv /\ [Next]_vars => DoorbellInv'
<1> SUFFICES ASSUME DoorbellInv, [Next]_vars PROVE DoorbellInv'
  OBVIOUS
<1>1. ASSUME NEW c \in Caller, NEW k \in 1 .. MaxChunks, QueueRq(c, k) PROVE DoorbellInv'
  BY <1>1, QueueRqInv
<1>2. ASSUME NEW c \in Caller, Submit(c) \/ Kernel(c) PROVE DoorbellInv'
  <2>1. CASE Return(c)
    <3>1. (status = "ok") \in BOOLEAN
      OBVIOUS
    <3> QED
      BY <2>1, <3>1, UnlockInv DEF Return
  <2>2. CASE GiveUp(c)
    BY <2>2, UnlockInv DEF GiveUp
  <2> QED
    BY <1>2, <2>1, <2>2, SubmitInv, PublishInv, SeeDoneInv DEF Kernel
<1>3. ASSUME NEW f \in Fields, StoreLands(f) PROVE DoorbellInv'
  BY <1>3, StoreLandsInv
<1>4. CASE UNCHANGED vars
  <2>1. UNCHANGED <<world, pc, chunks, holder, kseq, pending, desc, seq, done, status,
                    core1, taken, unread, got, fate, executed>>
    BY <1>4 DEF vars, kernelVars, sharedVars, core1Vars, historyVars
  <2>2. TypeOK'
    BY <2>1 DEF DoorbellInv, TypeOK
  <2>3. Mutex' /\ Stores' /\ Lent'
    BY <2>1 DEF DoorbellInv, Mutex, Holds, Stores, Lent, Announced, Taken, SomebodyWaits, GivesUp
  <2> QED
    BY <2>2, <2>3 DEF DoorbellInv
<1> QED
  BY <1>1, <1>2, <1>3, <1>4, RebindInv, Core1Inv DEF Next

-----------------------------------------------------------------------------

(***************************************************************************)
(* Sequence numbers stay within their width, whoever counts, and a request *)
(* never starts more submits than it was split into (frank_blk_queue_rq).  *)
(***************************************************************************)
THEOREM TypeCorrect == Spec => []TypeOK
<1>1. DoorbellInv => TypeOK
  BY DEF DoorbellInv
<1> QED
  BY <1>1, InitInv, NextInv, PTL DEF Spec

(***************************************************************************)
(* A kernel that does not give up never lets core 1 see parts of two       *)
(* descriptors, in whatever order its stores arrive before the barrier.    *)
(***************************************************************************)
THEOREM NoTornDescriptor == Spec => []DescriptorIsWhole
<1>1. DoorbellInv => DescriptorIsWhole
  BY DEF DoorbellInv, Lent, Taken, DescriptorIsWhole, Whole, Read
<1> QED
  BY <1>1, InitInv, NextInv, PTL DEF Spec

(***************************************************************************)
(* Nor does such a kernel return, or start another, while core 1 may use   *)
(* the buffer whose address it was given: one mutex and one number.        *)
(***************************************************************************)
THEOREM BuffersAreLent == Spec => [](~GivesUp => BufferIsLent)
<1>1. DoorbellInv => (~GivesUp => BufferIsLent)
  <2> SUFFICES ASSUME DoorbellInv, ~GivesUp, core1 = "run"
               PROVE  kseq = got["addr"] /\ \E c \in Caller : pc[c] = "wait"
    BY DEF BufferIsLent
  <2>1. seq = kseq /\ SomebodyWaits /\ taken = seq
    BY DEF DoorbellInv, Lent, Announced, Taken
  <2>2. got["addr"] = taken
    BY BlkDoorbellAssumption DEF DoorbellInv, Lent, Taken
  <2> QED
    BY <2>1, <2>2 DEF SomebodyWaits
<1> QED
  BY <1>1, InitInv, NextInv, PTL DEF Spec

-----------------------------------------------------------------------------
(* Numbers, and how far they lie back *)

Dist(k, n) == (k - n) % SeqMod
Behind(n) == Dist(kseq, n)

LEMMA Distances ==
  ASSUME NEW k \in Number, NEW n \in Number
  PROVE  Dist(k, n) \in Number /\ Dist(k, n) = IF k >= n THEN k - n ELSE k - n + SeqMod
<1>1. CASE k >= n
  BY <1>1, BlkDoorbellAssumption DEF Dist, Number
<1>2. CASE ~(k >= n)
  <2>1. k - n \in -SeqMod .. -1
    BY <1>2, BlkDoorbellAssumption DEF Number
  <2>2. (k - n) % SeqMod = k - n + SeqMod
    BY <2>1, BlkDoorbellAssumption
  <2> QED
    BY <1>2, <2>2, BlkDoorbellAssumption DEF Dist, Number
<1> QED
  BY <1>1, <1>2

LEMMA SameDistance ==
  ASSUME NEW k \in Number, NEW m \in Number, NEW n \in Number, Dist(k, m) = Dist(k, n)
  PROVE  m = n
<1>1. SeqMod \in Nat \ {0} /\ {k, m, n} \subseteq 0 .. SeqMod - 1
  BY BlkDoorbellAssumption DEF Number
<1> QED
  BY <1>1, Distances

LEMMA NoDistance ==
  ASSUME NEW k \in Number, NEW n \in Number PROVE Dist(k, n) = 0 <=> n = k
<1>1. SeqMod \in Nat \ {0} /\ {k, n} \subseteq 0 .. SeqMod - 1
  BY BlkDoorbellAssumption DEF Number
<1> QED
  BY <1>1, Distances

LEMMA TheNext ==
  ASSUME NEW k \in Number
  PROVE  /\ NextSeq(k) \in Number /\ NextSeq(k) = IF k + 1 < SeqMod THEN k + 1 ELSE k + 1 - SeqMod
         /\ Dist(k, NextSeq(k)) = SeqMod - 1
<1>1. SeqMod \in Nat /\ SeqMod >= 2 /\ k \in 0 .. SeqMod - 1
  BY BlkDoorbellAssumption DEF Number
<1>2. NextSeq(k) \in Number /\ NextSeq(k) = IF k + 1 < SeqMod THEN k + 1 ELSE k + 1 - SeqMod
  BY <1>1, CountsOn, Numbers
<1>3. Dist(k, NextSeq(k)) = IF k >= NextSeq(k) THEN k - NextSeq(k) ELSE k - NextSeq(k) + SeqMod
  BY <1>2, Distances
<1> QED
  BY <1>1, <1>2, <1>3

\* Counting on: every number is one further back, but for the new one.
LEMMA CountingOn ==
  ASSUME NEW k \in Number, NEW n \in Number
  PROVE  Dist(NextSeq(k), n) = IF n = NextSeq(k) THEN 0 ELSE Dist(k, n) + 1
<1>1. SeqMod \in Nat /\ SeqMod >= 2 /\ {k, n} \subseteq 0 .. SeqMod - 1
  BY BlkDoorbellAssumption DEF Number
<1>2. NextSeq(k) \in Number /\ NextSeq(k) = IF k + 1 < SeqMod THEN k + 1 ELSE k + 1 - SeqMod
  BY TheNext
<1>3. /\ Dist(k, n) = IF k >= n THEN k - n ELSE k - n + SeqMod
      /\ Dist(NextSeq(k), n) = IF NextSeq(k) >= n THEN NextSeq(k) - n ELSE NextSeq(k) - n + SeqMod
  BY <1>2, Distances
<1> HIDE DEF Dist
<1> QED
  BY <1>1, <1>2, <1>3 DEF Number

-----------------------------------------------------------------------------
(* The submits still to start *)

LEMMA PromisedFinite == IsFiniteSet(Promised) /\ Cardinality(Promised) \in Nat
<1>1. IsFiniteSet(Caller) /\ IsFiniteSet(1 .. MaxChunks)
  BY BlkDoorbellAssumption, FS_Interval
<1>2. IsFiniteSet(Caller \X (1 .. MaxChunks))
  BY <1>1, FS_Product
<1>3. Promised \in SUBSET (Caller \X (1 .. MaxChunks))
  BY DEF Promised
<1> QED
  BY <1>2, <1>3, FS_Subset, FS_CardinalityType

\* A request that is queued promises its chunks.
LEMMA PromisesMade ==
  ASSUME TypeOK, NEW c \in Caller, NEW k \in 1 .. MaxChunks, chunks' = [chunks EXCEPT ![c] = k]
  PROVE  Cardinality(Promised') =< Cardinality(Promised) + k /\ Cardinality(Promised') \in Nat
<1> DEFINE new == {c} \X (1 .. k)
<1>1. IsFiniteSet({c}) /\ Cardinality({c}) = 1
  BY FS_Singleton
<1>2. IsFiniteSet(1 .. k) /\ Cardinality(1 .. k) = k
  BY FS_Interval
<1>3. IsFiniteSet(new) /\ Cardinality(new) = k
  <2>1. IsFiniteSet(new) /\ Cardinality(new) = Cardinality({c}) * Cardinality(1 .. k)
    BY <1>1, <1>2, FS_Product
  <2>2. 1 * k = k
    OBVIOUS
  <2> QED
    BY <1>1, <1>2, <2>1, <2>2
<1>4. Promised' \in SUBSET (Promised \cup new)
  BY DEF Promised, TypeOK
<1>5. /\ IsFiniteSet(Promised \cup new)
      /\ Cardinality(Promised \cup new) =< Cardinality(Promised) + Cardinality(new)
  <2>1. /\ IsFiniteSet(Promised \cup new)
        /\ Cardinality(Promised \cup new)
             = Cardinality(Promised) + Cardinality(new) - Cardinality(Promised \cap new)
    BY <1>3, PromisedFinite, FS_Union
  <2>2. Cardinality(Promised \cap new) \in Nat
    BY PromisedFinite, FS_Intersection, FS_CardinalityType
  <2> QED
    BY <1>3, <2>1, <2>2, PromisedFinite
<1>6. Cardinality(Promised') =< Cardinality(Promised \cup new)
  BY <1>4, <1>5, FS_Subset
<1>7. Cardinality(Promised \cup new) \in Nat /\ Cardinality(Promised') \in Nat
  <2>1. IsFiniteSet(Promised')
    BY <1>4, <1>5, FS_Subset
  <2> QED
    BY <1>5, <2>1, FS_CardinalityType
<1> QED
  BY <1>3, <1>5, <1>6, <1>7, PromisedFinite

\* A submit keeps one promise.
LEMMA PromiseKept ==
  ASSUME TypeOK, NEW c \in Caller, chunks[c] > 0, chunks' = [chunks EXCEPT ![c] = @ - 1]
  PROVE  Cardinality(Promised') + 1 = Cardinality(Promised) /\ Cardinality(Promised') \in Int
<1>1. <<c, chunks[c]>> \in Promised /\ chunks[c] \in Int
  BY DEF Promised, TypeOK
<1>2. Promised' = Promised \ {<<c, chunks[c]>>}
  <2>1. ASSUME NEW d \in Caller, NEW i \in 1 .. MaxChunks
        PROVE  <<d, i>> \in Promised' <=> <<d, i>> \in Promised \ {<<c, chunks[c]>>}
    BY <1>1 DEF Promised, TypeOK
  <2>2. \A p \in Promised' \cup Promised : \E d \in Caller, i \in 1 .. MaxChunks : p = <<d, i>>
    BY DEF Promised
  <2> QED
    BY <2>1, <2>2
<1>3. Cardinality(Promised') = Cardinality(Promised) - 1
  BY <1>1, <1>2, PromisedFinite, FS_RemoveElement
<1> QED
  BY <1>3, PromisedFinite

\* A request that ends makes none.
LEMMA PromisesDropped ==
  ASSUME TypeOK, NEW c \in Caller, chunks' = chunks \/ chunks' = [chunks EXCEPT ![c] = 0]
  PROVE  Cardinality(Promised') =< Cardinality(Promised) /\ Cardinality(Promised') \in Nat
<1>1. Promised' \in SUBSET Promised
  BY DEF Promised, TypeOK
<1>2. IsFiniteSet(Promised') /\ Cardinality(Promised') =< Cardinality(Promised)
  BY <1>1, PromisedFinite, FS_Subset
<1> QED
  BY <1>2, FS_CardinalityType

-----------------------------------------------------------------------------
(* Whose answer it is *)

AtWork(states) == \E c \in Caller : pc[c] \in states
Working == core1 # "poll"

(***************************************************************************)
(* From the oldest number to the newest there are done, what core 1 has,   *)
(* what is announced and what the kernel counts, and none has come round.  *)
(***************************************************************************)
Spare ==
  /\ GivesUp => Behind(done) + Cardinality(Promised) < SeqMod
  /\ ~GivesUp /\ holder = "none" => done = kseq
  /\ AtWork({"status"}) => done = kseq
  /\ AtWork({"store"}) => seq # kseq
  /\ Behind(seq) =< Behind(done)
  /\ Working => Behind(seq) =< Behind(taken) /\ Behind(taken) < Behind(done)

(***************************************************************************)
(* Nothing newer than done has been executed, but for what is about to be  *)
(* acknowledged.  What the kernel still waits for is read as it was        *)
(* written, and its status is the one to be found.                         *)
(***************************************************************************)
Fresh ==
  \A n \in Number : Behind(n) < Behind(done) /\ ~(core1 = "done" /\ n = taken) => fate[n] = "none"
Waited ==
  /\ core1 = "run" => unread = {}
  /\ AtWork({"wait"}) /\ taken = kseq =>
       /\ core1 \in {"read", "run"} => \A f \in Fields : f \in unread \/ got[f] = taken
       /\ core1 = "done" => fate[taken] = status
  /\ AtWork({"wait", "status"}) /\ done = kseq => fate[kseq] = status

AnswerInv == DoorbellInv /\ (~Rebinds => Spare /\ Fresh /\ Waited)

LEMMA AllAreNumbers ==
  ASSUME TypeOK
  PROVE  /\ kseq \in Number /\ seq \in Number /\ done \in Number /\ taken \in Number
         /\ \A n \in Number : Behind(n) \in Number /\ (Behind(n) = 0 <=> n = kseq)
         /\ Number \subseteq Nat
<1>1. /\ kseq \in Number /\ seq \in Number /\ done \in Number /\ taken \in Number
  BY DEF TypeOK
<1>2. \A n \in Number : Behind(n) \in Number /\ (Behind(n) = 0 <=> n = kseq)
  BY <1>1, Distances, NoDistance DEF Behind
<1>3. Number \subseteq Nat
  BY BlkDoorbellAssumption DEF Number
<1> QED
  BY <1>1, <1>2, <1>3

LEMMA InitAnswers == Init => AnswerInv
<1> SUFFICES ASSUME Init PROVE Spare /\ Fresh /\ Waited
  BY InitInv DEF AnswerInv
<1>1. TypeOK
  BY InitInv DEF DoorbellInv
<1>2. kseq = 0 /\ done = 0 /\ seq = 0 /\ core1 = "poll" /\ chunks = [c \in Caller |-> 0]
      /\ \A c \in Caller : pc[c] = "idle"
  BY DEF Init
<1>3. Promised = {}
  BY <1>2 DEF Promised
<1>4. Cardinality(Promised) = 0
  BY <1>3, FS_EmptySet
<1>5. Behind(done) = 0 /\ Behind(seq) = 0
  BY <1>1, <1>2, AllAreNumbers
<1>6. Spare
  BY <1>2, <1>4, <1>5, BlkDoorbellAssumption DEF Spare, AtWork, Working
<1>7. Fresh
  BY <1>1, <1>5, AllAreNumbers DEF Fresh
<1> QED
  BY <1>2, <1>6, <1>7 DEF Waited, AtWork

LEMMA QueueRqAnswers ==
  ASSUME TypeOK, Spare, Fresh, Waited, NEW c \in Caller, NEW k \in 1 .. MaxChunks, QueueRq(c, k)
  PROVE  Spare' /\ Fresh' /\ Waited'
<1>1. /\ pc[c] = "idle" /\ chunks' = [chunks EXCEPT ![c] = k] /\ pc' = [pc EXCEPT ![c] = "lock"]
      /\ NumbersToSpare(k)
      /\ UNCHANGED <<world, holder, kseq, seq, done, status, core1, taken, unread, got, fate, executed>>
  BY DEF QueueRq, sharedVars, core1Vars, historyVars
<1>2. \A d \in Caller : pc'[d] \in {"store", "wait", "status"} => pc'[d] = pc[d]
  BY <1>1 DEF TypeOK
<1>3. \A n : Behind(n)' = Behind(n)
  BY <1>1 DEF Behind
<1>4. Cardinality(Promised') =< Cardinality(Promised) + k /\ Cardinality(Promised') \in Nat
  BY <1>1, PromisesMade
<1>5. GivesUp' => (Behind(done) + Cardinality(Promised) < SeqMod)'
  BY <1>1, <1>3, <1>4, AllAreNumbers, PromisedFinite, BlkDoorbellAssumption
     DEF NumbersToSpare, GivesUp, Behind, Dist
<1>6. Spare'
  BY <1>1, <1>2, <1>3, <1>5 DEF Spare, AtWork, Working, GivesUp
<1>7. Fresh' /\ Waited'
  BY <1>1, <1>2, <1>3 DEF Fresh, Waited, AtWork
<1> QED
  BY <1>6, <1>7

LEMMA SubmitAnswers ==
  ASSUME TypeOK, Mutex, Spare, Fresh, Waited, NEW c \in Caller, Submit(c)
  PROVE  Spare' /\ Fresh' /\ Waited'
<1>1. /\ pc[c] = "lock" /\ holder = "none" /\ holder' = c /\ kseq' = NextSeq(kseq)
      /\ chunks' = [chunks EXCEPT ![c] = @ - 1] /\ pc' = [pc EXCEPT ![c] = "store"]
      /\ fate' = [fate EXCEPT ![kseq'] = "none"]
      /\ UNCHANGED <<world, seq, done, status, core1, taken, unread, got>>
  BY DEF Submit, sharedVars, core1Vars
<1>2. \A d \in Caller : pc'[d] \notin {"wait", "status"}
  BY <1>1, BlkDoorbellAssumption DEF TypeOK, Mutex, Holds
<1>3. Cardinality(Promised') + 1 = Cardinality(Promised) /\ Cardinality(Promised') \in Int
  <2>1. chunks[c] > 0
    BY <1>1 DEF Mutex
  <2> QED
    BY <1>1, <2>1, PromiseKept
<1>4. Behind(done) + 1 < SeqMod
  <2>1. CASE GivesUp
    <3>1. Cardinality(Promised) >= 1
      <4>1. chunks[c] > 0 /\ <<c, chunks[c]>> \in Promised
        BY <1>1 DEF Mutex, Promised, TypeOK
      <4>2. Cardinality(Promised) # 0
        BY <4>1, PromisedFinite, FS_EmptySet
      <4> QED
        BY <4>2, PromisedFinite
    <3> QED
      BY <2>1, <3>1, AllAreNumbers, PromisedFinite, BlkDoorbellAssumption DEF Spare
  <2>2. CASE ~GivesUp
    BY <1>1, <2>2, AllAreNumbers, BlkDoorbellAssumption DEF Spare
  <2> QED
    BY <2>1, <2>2
<1>5. \A n \in Number : Behind(n)' = IF n = kseq' THEN 0 ELSE Behind(n) + 1
  <2>1. \A n \in Number : Dist(kseq', n) = IF n = kseq' THEN 0 ELSE Dist(kseq, n) + 1
    BY <1>1, AllAreNumbers, CountingOn
  <2> QED
    BY <2>1 DEF Behind, Dist
<1>6. Behind(kseq') = SeqMod - 1 /\ kseq' \in Number
  BY <1>1, AllAreNumbers, TheNext DEF Behind
<1>7. \A n \in Number : Behind(n) =< Behind(done) => Behind(n)' = Behind(n) + 1
  BY <1>4, <1>5, <1>6, AllAreNumbers, BlkDoorbellAssumption
<1>8. Behind(done)' = Behind(done) + 1
  <2>1. Dist(kseq', done) = Behind(done) + 1
    BY <1>7, AllAreNumbers DEF Behind
  <2> QED
    BY <1>1, <2>1 DEF Behind
<1>9. Behind(seq) =< Behind(done) /\ Behind(seq)' = Behind(seq) + 1
  <2>1. Behind(seq) =< Behind(done)
    BY DEF Spare
  <2>2. Dist(kseq', seq) = Behind(seq) + 1
    BY <1>7, <2>1, AllAreNumbers DEF Behind
  <2> QED
    BY <1>1, <2>1, <2>2 DEF Behind
<1>10. ASSUME Working
       PROVE  /\ Behind(seq) =< Behind(taken) /\ Behind(taken) < Behind(done)
              /\ Behind(taken)' = Behind(taken) + 1
  <2>1. Behind(seq) =< Behind(taken) /\ Behind(taken) < Behind(done)
    BY <1>10 DEF Spare
  <2>2. Dist(kseq', taken) = Behind(taken) + 1
    BY <1>7, <2>1, AllAreNumbers DEF Behind
  <2> QED
    BY <1>1, <2>1, <2>2 DEF Behind
<1>11. Behind(seq) \in Nat /\ Behind(done) \in Nat /\ Behind(taken) \in Nat
  BY AllAreNumbers
<1>12. Spare'
  <2>1. GivesUp' => (Behind(done) + Cardinality(Promised) < SeqMod)'
    <3>1. GivesUp' => Behind(done) + Cardinality(Promised) < SeqMod
      BY <1>1 DEF Spare, GivesUp
    <3> QED
      BY <1>3, <1>8, <1>11, <3>1, PromisedFinite, BlkDoorbellAssumption
  <2>2. holder' # "none" /\ ~AtWork({"status"})'
    BY <1>1, <1>2, BlkDoorbellAssumption DEF AtWork
  <2>3. seq' # kseq'
    <3>1. Dist(kseq', kseq') = 0
      BY <1>6, NoDistance
    <3>2. Dist(kseq', seq') # 0
      BY <1>9, <1>11 DEF Behind
    <3> QED
      BY <3>1, <3>2
  <2>4. Working' = Working
    BY <1>1 DEF Working
  <2>5. (Behind(seq) =< Behind(done))'
    BY <1>8, <1>9, <1>11
  <2>6. (Working => Behind(seq) =< Behind(taken) /\ Behind(taken) < Behind(done))'
    BY <1>8, <1>9, <1>10, <1>11, <2>4
  <2> QED
    BY <2>1, <2>2, <2>3, <2>5, <2>6 DEF Spare
<1>13. Fresh'
  <2> SUFFICES ASSUME NEW n \in Number, Behind(n)' < Behind(done)', ~(core1 = "done" /\ n = taken)
               PROVE  fate'[n] = "none"
    BY <1>1 DEF Fresh
  <2>1. CASE n = kseq'
    BY <1>1, <2>1 DEF TypeOK
  <2>2. CASE n # kseq'
    <3>1. Behind(n)' = Behind(n) + 1 /\ Behind(n) \in Nat
      BY <1>5, <2>2, AllAreNumbers
    <3>2. Behind(n) < Behind(done)
      BY <1>8, <1>11, <3>1
    <3> QED
      BY <1>1, <2>2, <3>2 DEF Fresh, TypeOK
  <2> QED
    BY <2>1, <2>2
<1>14. Waited'
  BY <1>1, <1>2 DEF Waited, AtWork
<1> QED
  BY <1>12, <1>13, <1>14

LEMMA PublishAnswers ==
  ASSUME TypeOK, Mutex, Spare, Fresh, Waited, NEW c \in Caller, Publish(c)
  PROVE  Spare' /\ Fresh' /\ Waited'
<1>1. /\ pc[c] = "store" /\ pending = {} /\ seq' = kseq /\ pc' = [pc EXCEPT ![c] = "wait"]
      /\ UNCHANGED <<world, chunks, holder, kseq, done, status, core1, taken, unread, got, fate, executed>>
  BY DEF Publish, core1Vars, historyVars
<1>2. /\ \A d \in Caller : d # c => pc[d] \notin {"store", "wait", "status"} /\ pc'[d] = pc[d]
      /\ pc'[c] = "wait"
  BY <1>1 DEF TypeOK, Mutex, Holds
<1>3. Behind(seq) > 0 /\ Behind(done) > 0 /\ (Working => Behind(taken) > 0)
  <2>1. seq # kseq
    BY <1>1 DEF Spare, AtWork
  <2> QED
    BY <2>1, AllAreNumbers DEF Spare
<1>4. done # kseq /\ (Working => taken # kseq)
  BY <1>3, AllAreNumbers
<1>5. (\A n : Behind(n)' = Behind(n)) /\ Behind(seq)' = 0
  <2>1. \A n : Behind(n)' = Behind(n)
    BY <1>1 DEF Behind
  <2>2. Behind(seq)' = Behind(kseq)
    BY <1>1 DEF Behind
  <2> QED
    BY <2>1, <2>2, AllAreNumbers
<1>6. Spare'
  <2>1. (GivesUp => Behind(done) + Cardinality(Promised) < SeqMod)'
    BY <1>1 DEF Spare, GivesUp, Behind, Promised
  <2>2. holder' # "none" /\ ~AtWork({"status"})' /\ ~AtWork({"store"})'
    BY <1>1, <1>2, BlkDoorbellAssumption DEF AtWork, Mutex, Holds
  <2>3. (Working => Behind(taken) < Behind(done))' /\ Behind(done)' \in Nat /\ Behind(taken)' \in Nat
    BY <1>1, <1>5, AllAreNumbers DEF Spare, Working
  <2> QED
    BY <1>5, <2>1, <2>2, <2>3 DEF Spare
<1>7. Fresh'
  BY <1>1, <1>5 DEF Fresh
<1>8. Waited'
  BY <1>1, <1>4 DEF Waited, Working
<1> QED
  BY <1>6, <1>7, <1>8

\* The wait ends.
LEMMA SeeDoneAnswers ==
  ASSUME TypeOK, Mutex, Spare, Fresh, Waited, NEW c \in Caller, SeeDone(c)
  PROVE  Spare' /\ Fresh' /\ Waited'
<1>1. /\ pc[c] = "wait" /\ done = kseq /\ pc' = [pc EXCEPT ![c] = "status"]
      /\ UNCHANGED <<world, chunks, holder, kseq, seq, done, status, core1, taken, unread, got, fate, executed>>
  BY DEF SeeDone, sharedVars, core1Vars, historyVars
<1>2. \A d \in Caller : pc'[d] = IF d = c THEN "status" ELSE pc[d]
  BY <1>1 DEF TypeOK
<1>3. Spare'
  BY <1>1, <1>2 DEF Spare, AtWork, Working, GivesUp, Behind, Promised
<1>4. Fresh'
  BY <1>1 DEF Fresh, Behind
<1>5. Waited'
  BY <1>1, <1>2 DEF Waited, AtWork
<1> QED
  BY <1>3, <1>4, <1>5

LEMMA UnlockAnswers ==
  ASSUME TypeOK, Mutex, Spare, Fresh, Waited,
         NEW c \in Caller, NEW ok \in BOOLEAN, Unlock(c, ok),
         pc[c] = "status" \/ (pc[c] = "wait" /\ GivesUp)
  PROVE  Spare' /\ Fresh' /\ Waited'
<1>1. /\ holder' = "none"
      /\ pc' = [pc EXCEPT ![c] = IF ok /\ chunks[c] > 0 THEN "lock" ELSE "idle"]
      /\ chunks' = chunks \/ chunks' = [chunks EXCEPT ![c] = 0]
      /\ UNCHANGED <<world, kseq, seq, done, status, core1, taken, unread, got, fate, executed>>
  BY DEF Unlock, sharedVars, core1Vars, historyVars
<1>2. \A d \in Caller : pc'[d] \in {"store", "wait", "status"} => pc'[d] = pc[d] /\ d # c
  BY <1>1 DEF TypeOK
<1>3. Cardinality(Promised') =< Cardinality(Promised) /\ Cardinality(Promised') \in Nat
  BY <1>1, PromisesDropped
<1>4. (\A n : Behind(n)' = Behind(n)) /\ Behind(done)' = Behind(done)
      /\ Behind(seq)' = Behind(seq) /\ Behind(taken)' = Behind(taken)
  BY <1>1 DEF Behind
<1>5. Spare'
  <2>1. (GivesUp => Behind(done) + Cardinality(Promised) < SeqMod)'
    BY <1>1, <1>3, <1>4, AllAreNumbers, PromisedFinite, BlkDoorbellAssumption DEF Spare, GivesUp
  <2>2. ~GivesUp' => done' = kseq'
    BY <1>1 DEF Spare, AtWork, GivesUp
  <2> QED
    BY <1>1, <1>2, <1>4, <2>1, <2>2 DEF Spare, AtWork, Working
<1>6. Fresh'
  BY <1>1, <1>4 DEF Fresh
<1>7. Waited'
  BY <1>1, <1>2 DEF Waited, AtWork
<1> QED
  BY <1>5, <1>6, <1>7

LEMMA PollAnswers ==
  ASSUME TypeOK, Spare, Fresh, Waited, Poll PROVE Spare' /\ Fresh' /\ Waited'
<1>1. /\ core1 = "poll" /\ seq # done /\ taken' = seq /\ core1' = "read" /\ unread' = Fields
      /\ UNCHANGED <<world, pc, chunks, holder, kseq, seq, done, status, got, fate, executed>>
  BY DEF Poll, NewRequest, kernelVars, sharedVars, historyVars
<1>2. Behind(seq) < Behind(done) /\ Behind(seq) =< Behind(seq)
  <2>1. Behind(seq) =< Behind(done) /\ Behind(seq) \in Nat /\ Behind(done) \in Nat
    BY AllAreNumbers DEF Spare
  <2>2. Behind(seq) # Behind(done)
    BY <1>1, AllAreNumbers, SameDistance DEF Behind
  <2> QED
    BY <2>1, <2>2
<1>3. Spare'
  <2>1. (Behind(seq) =< Behind(taken) /\ Behind(taken) < Behind(done))'
    BY <1>1, <1>2 DEF Behind
  <2> QED
    BY <1>1, <2>1 DEF Spare, AtWork, GivesUp, Behind, Promised
<1>4. Fresh'
  BY <1>1 DEF Fresh, Behind
<1>5. Waited'
  BY <1>1 DEF Waited, AtWork
<1> QED
  BY <1>3, <1>4, <1>5

\* Core 1 is behind the kernel as long as it is at work.
LEMMA WorkingIsBehind ==
  ASSUME TypeOK, Spare, Working PROVE done # kseq /\ ~AtWork({"status"})
<1>1. Behind(done) > 0
  BY AllAreNumbers DEF Spare
<1> QED
  BY <1>1, AllAreNumbers DEF Spare

LEMMA ReadFieldAnswers ==
  ASSUME TypeOK, Mutex, Stores, Spare, Fresh, Waited, NEW f \in Fields, ReadField(f)
  PROVE  Spare' /\ Fresh' /\ Waited'
<1>1. /\ core1 = "read" /\ f \in unread /\ unread' = unread \ {f}
      /\ got' = [got EXCEPT ![f] = desc[f]]
      /\ core1' = IF unread' = {} THEN "run" ELSE "read"
      /\ UNCHANGED <<world, pc, chunks, holder, kseq, seq, done, status, taken, fate, executed>>
  BY DEF ReadField, kernelVars, sharedVars, historyVars
<1>2. core1' \in {"read", "run"} /\ (core1' = "run" => unread' = {})
  BY <1>1
<1>3. Spare'
  BY <1>1, <1>2 DEF Spare, AtWork, Working, GivesUp, Behind, Promised
<1>4. Fresh'
  BY <1>1, <1>2 DEF Fresh, Behind
<1>5. ASSUME AtWork({"wait"}), taken = kseq
      PROVE  \A g \in Fields : g \in unread' \/ got'[g] = taken
  <2>1. pending = {} /\ \A g \in Fields : desc[g] = kseq
    <3>1. PICK c \in Caller : pc[c] = "wait"
      BY <1>5 DEF AtWork
    <3>2. pending = {}
      BY <3>1, OneHolder DEF Holds, Stores
    <3> QED
      BY <3>1, <3>2 DEF Stores
  <2>2. \A g \in Fields : g \in unread \/ got[g] = taken
    BY <1>1, <1>5 DEF Waited
  <2> QED
    BY <1>1, <1>5, <2>1, <2>2 DEF TypeOK
<1>6. Waited'
  BY <1>1, <1>2, <1>5 DEF Waited, AtWork
<1> QED
  BY <1>3, <1>4, <1>6

LEMMA ExecuteAnswers ==
  ASSUME TypeOK, Spare, Fresh, Waited, NEW outcome \in Outcome, Execute(outcome)
  PROVE  Spare' /\ Fresh' /\ Waited'
<1>1. /\ core1 = "run" /\ status' = outcome /\ core1' = "done"
      /\ fate' = [fate EXCEPT ![taken] = IF Whole THEN outcome ELSE "torn"]
      /\ UNCHANGED <<world, pc, chunks, holder, kseq, seq, done, taken, unread, got>>
  BY DEF Execute, kernelVars
<1>2. done # kseq
  BY <1>1, WorkingIsBehind DEF Working
<1>3. Spare'
  BY <1>1 DEF Spare, AtWork, Working, GivesUp, Behind, Promised
<1>4. Fresh'
  <2> SUFFICES ASSUME NEW n \in Number, Behind(n) < Behind(done), n # taken PROVE fate'[n] = "none"
    BY <1>1 DEF Fresh, Behind
  <2>1. fate[n] = "none"
    BY <1>1 DEF Fresh
  <2> QED
    BY <1>1, <2>1 DEF TypeOK
<1>5. ASSUME AtWork({"wait"}), taken = kseq PROVE fate'[taken] = status'
  <2>1. Whole
    BY <1>1, <1>5 DEF Waited, Whole, Read
  <2> QED
    BY <1>1, <2>1 DEF TypeOK
<1>6. Waited'
  BY <1>1, <1>2, <1>5 DEF Waited, AtWork
<1> QED
  BY <1>3, <1>4, <1>6

LEMMA FinishAnswers ==
  ASSUME TypeOK, Spare, Fresh, Waited, Finish PROVE Spare' /\ Fresh' /\ Waited'
<1>1. /\ core1 = "done" /\ done' = taken /\ core1' = "poll"
      /\ UNCHANGED <<world, pc, chunks, holder, kseq, seq, status, unread, fate, executed>>
  BY DEF Finish, kernelVars, historyVars
<1>2. done # kseq /\ ~AtWork({"status"})
  BY <1>1, WorkingIsBehind DEF Working
<1>3. Behind(seq) =< Behind(taken) /\ Behind(taken) < Behind(done)
  BY <1>1 DEF Spare, Working
<1>4. Behind(done) \in Nat /\ Behind(taken) \in Nat /\ Cardinality(Promised) \in Nat /\ SeqMod \in Nat
  BY AllAreNumbers, PromisedFinite, BlkDoorbellAssumption
<1>5. (\A n : Behind(n)' = Behind(n)) /\ Behind(done)' = Behind(taken) /\ Behind(seq)' = Behind(seq)
  BY <1>1 DEF Behind
<1>6. Spare'
  <2>1. (GivesUp => Behind(done) + Cardinality(Promised) < SeqMod)'
    <3>1. GivesUp => Behind(done) + Cardinality(Promised) < SeqMod
      BY DEF Spare
    <3>2. GivesUp => Behind(taken) + Cardinality(Promised) < SeqMod
      BY <1>3, <1>4, <3>1
    <3> QED
      BY <1>1, <1>5, <3>2 DEF GivesUp, Promised
  <2>2. (~GivesUp /\ holder = "none" => FALSE)' /\ ~AtWork({"status"})'
    BY <1>1, <1>2 DEF Spare, AtWork, GivesUp
  <2> QED
    BY <1>1, <1>3, <1>5, <2>1, <2>2 DEF Spare, AtWork, Working
<1>7. Fresh'
  <2> SUFFICES ASSUME NEW n \in Number, Behind(n) < Behind(taken) PROVE fate[n] = "none"
    BY <1>1, <1>5 DEF Fresh
  <2>1. Behind(n) < Behind(done) /\ n # taken
    BY <1>3, <1>4, AllAreNumbers
  <2> QED
    BY <2>1 DEF Fresh
<1>8. Waited'
  BY <1>1, <1>2 DEF Waited, AtWork
<1> QED
  BY <1>6, <1>7, <1>8

LEMMA WorldStays == [Next]_vars => world' = world
<1> SUFFICES ASSUME [Next]_vars PROVE world' = world
  OBVIOUS
<1>1. ASSUME NEW c \in Caller, NEW k \in 1 .. MaxChunks, QueueRq(c, k) PROVE world' = world
  BY <1>1 DEF QueueRq
<1>2. ASSUME NEW c \in Caller, Submit(c) \/ Kernel(c) PROVE world' = world
  BY <1>2 DEF Submit, Kernel, Publish, SeeDone, Return, GiveUp, Unlock
<1>3. ASSUME NEW f \in Fields, StoreLands(f) PROVE world' = world
  BY <1>3 DEF StoreLands
<1>4. CASE Rebind \/ Core1
  BY <1>4 DEF Rebind, Core1, Poll, ReadField, Execute, Finish
<1> QED
  BY <1>1, <1>2, <1>3, <1>4 DEF Next, vars

LEMMA NextAnswers == AnswerInv /\ [Next]_vars => AnswerInv'
<1> SUFFICES ASSUME AnswerInv, [Next]_vars, ~Rebinds' PROVE Spare' /\ Fresh' /\ Waited'
  BY NextInv DEF AnswerInv
<1>1. TypeOK /\ Mutex /\ Stores
  BY DEF AnswerInv, DoorbellInv
<1>2. world' = world
  BY WorldStays
<1>3. ~Rebinds /\ Spare /\ Fresh /\ Waited
  BY <1>2 DEF AnswerInv, Rebinds
<1>4. ASSUME NEW c \in Caller, Submit(c) \/ Kernel(c) PROVE Spare' /\ Fresh' /\ Waited'
  <2>1. CASE Return(c)
    <3>1. (status = "ok") \in BOOLEAN
      OBVIOUS
    <3> QED
      BY <1>1, <1>3, <2>1, <3>1, UnlockAnswers DEF Return
  <2>2. CASE GiveUp(c)
    BY <1>1, <1>3, <2>2, UnlockAnswers DEF GiveUp
  <2> QED
    BY <1>1, <1>3, <1>4, <2>1, <2>2, SubmitAnswers, PublishAnswers, SeeDoneAnswers DEF Kernel
<1>5. CASE Core1
  BY <1>1, <1>3, <1>5, PollAnswers, ReadFieldAnswers, ExecuteAnswers, FinishAnswers DEF Core1
<1>6. ASSUME NEW f \in Fields, StoreLands(f) PROVE Spare' /\ Fresh' /\ Waited'
  <2>1. UNCHANGED <<world, pc, chunks, holder, kseq, seq, done, status, core1, taken, unread, got, fate, executed>>
    BY <1>6 DEF StoreLands, core1Vars, historyVars
  <2> QED
    BY <1>3, <2>1 DEF Spare, Fresh, Waited, AtWork, Working, GivesUp, Behind, Promised
<1>7. CASE UNCHANGED vars
  <2>1. UNCHANGED <<world, pc, chunks, holder, kseq, seq, done, status, core1, taken, unread, got, fate, executed>>
    BY <1>7 DEF vars, kernelVars, sharedVars, core1Vars, historyVars
  <2> QED
    BY <1>3, <2>1 DEF Spare, Fresh, Waited, AtWork, Working, GivesUp, Behind, Promised
<1> QED
  BY <1>1, <1>3, <1>4, <1>5, <1>6, <1>7, QueueRqAnswers DEF Next, Rebind

(***************************************************************************)
(* A kernel that waits for done announces no submit that has been          *)
(* executed, whatever an earlier life of the driver has left in the page.  *)
(***************************************************************************)
Unheard ==
  ~GivesUp => /\ core1 # "done" /\ seq # done => seq \notin executed
              /\ AtWork({"store"}) => kseq \notin executed

LEMMA InitUnheard == Init => Unheard
BY DEF Init, Unheard, AtWork

LEMMA NextUnheard == DoorbellInv /\ Unheard /\ [Next]_vars => Unheard'
<1> SUFFICES ASSUME DoorbellInv, Unheard, [Next]_vars PROVE Unheard'
  OBVIOUS
<1>0. world' = world
  BY WorldStays
<1> SUFFICES ASSUME ~GivesUp PROVE Unheard'
  BY <1>0 DEF Unheard, GivesUp
<1>1. TypeOK /\ Mutex /\ Lent /\ kseq \in Number /\ seq \in Number
  BY DEF DoorbellInv, TypeOK
<1>2. /\ core1 # "done" /\ seq # done => seq \notin executed
      /\ AtWork({"store"}) => kseq \notin executed
  BY DEF Unheard
<1>3. ASSUME NEW c \in Caller, NEW k \in 1 .. MaxChunks, QueueRq(c, k) PROVE Unheard'
  <2>1. pc' = [pc EXCEPT ![c] = "lock"] /\ UNCHANGED <<world, kseq, seq, done, core1, executed>>
    BY <1>3 DEF QueueRq, sharedVars, core1Vars, historyVars
  <2> QED
    BY <1>1, <1>2, <2>1 DEF Unheard, AtWork, TypeOK
<1>4. ASSUME NEW c \in Caller, Submit(c) PROVE Unheard'
  <2>1. /\ holder = "none" /\ executed' = executed \ {kseq'}
        /\ UNCHANGED <<world, seq, done, core1>>
    BY <1>4 DEF Submit, sharedVars, core1Vars
  <2>2. seq = done
    <3>1. ~SomebodyWaits
      BY <1>1, <2>1, FreeMeansNobodyHolds DEF SomebodyWaits, Holds
    <3> QED
      BY <3>1, NothingAnnounced
  <2> QED
    BY <2>1, <2>2 DEF Unheard
<1>5. ASSUME NEW c \in Caller, Publish(c) PROVE Unheard'
  <2>1. /\ pc[c] = "store" /\ pc' = [pc EXCEPT ![c] = "wait"] /\ seq' = kseq
        /\ UNCHANGED <<world, kseq, done, core1, executed>>
    BY <1>5 DEF Publish, core1Vars, historyVars
  <2>2. kseq \notin executed
    BY <1>2, <2>1 DEF AtWork
  <2> QED
    BY <2>1, <2>2 DEF Unheard
<1>6. ASSUME NEW c \in Caller, SeeDone(c) \/ Return(c) PROVE Unheard'
  <2>1. /\ UNCHANGED <<world, kseq, seq, done, core1, executed>>
        /\ \A d \in Caller : pc'[d] = "store" => pc[d] = "store"
    BY <1>1, <1>6 DEF SeeDone, Return, Unlock, sharedVars, core1Vars, historyVars, TypeOK
  <2> QED
    BY <1>2, <2>1 DEF Unheard, AtWork
<1>7. ASSUME NEW c \in Caller, GiveUp(c) PROVE FALSE
  BY <1>7 DEF GiveUp
<1>8. CASE (\E f \in Fields : StoreLands(f)) \/ UNCHANGED vars
  <2>1. UNCHANGED <<world, pc, kseq, seq, done, core1, executed>>
    BY <1>8 DEF StoreLands, vars, kernelVars, sharedVars, core1Vars, historyVars
  <2> QED
    BY <1>2, <2>1 DEF Unheard, AtWork
<1>9. CASE Rebind
  <2>1. /\ UNCHANGED <<seq, done, core1, executed, pc>>
        /\ \A c \in Caller : pc[c] = "idle"
    BY <1>9 DEF Rebind, sharedVars, core1Vars
  <2> QED
    BY <1>2, <2>1 DEF Unheard, AtWork
<1>10. CASE Poll \/ \E f \in Fields : ReadField(f)
  <2>1. UNCHANGED <<world, pc, kseq, seq, done, executed>> /\ core1 # "done"
    BY <1>10 DEF Poll, ReadField, kernelVars, sharedVars, historyVars
  <2> QED
    BY <1>2, <2>1 DEF Unheard, AtWork
<1>11. CASE Finish
  <2>1. core1 = "done" /\ done' = taken /\ UNCHANGED <<world, pc, kseq, seq, executed>>
    BY <1>11 DEF Finish, kernelVars, historyVars
  <2>2. taken = seq
    BY <1>1, <2>1 DEF Lent, Taken
  <2> QED
    BY <1>2, <2>1, <2>2 DEF Unheard, AtWork
<1>12. CASE \E outcome \in Outcome : Execute(outcome)
  <2>1. core1 = "run" /\ core1' = "done" /\ UNCHANGED <<world, pc, kseq, seq>>
    BY <1>12 DEF Execute, kernelVars
  <2>2. SomebodyWaits
    BY <1>1, <2>1 DEF Lent, Announced, Taken
  <2>3. ~AtWork({"store"})
    BY <1>1, <2>2, StoringMeansNobodyWaits DEF AtWork
  <2> QED
    BY <2>1, <2>3 DEF Unheard, AtWork
<1>13. ASSUME NEW c \in Caller, Submit(c) \/ Kernel(c) PROVE Unheard'
  BY <1>4, <1>5, <1>6, <1>7, <1>13 DEF Kernel
<1>14. CASE Core1
  BY <1>10, <1>11, <1>12, <1>14 DEF Core1
<1> QED
  BY <1>3, <1>8, <1>9, <1>13, <1>14 DEF Next

-----------------------------------------------------------------------------

(***************************************************************************)
(* A caller that finds its number in done has its own request executed,    *)
(* whole, and reads that request's status, with any number of callers and  *)
(* however many requests before it were given up (frank_blk_submit).       *)
(***************************************************************************)
THEOREM OwnAnswers == Spec => []TheAnswerIsMine
<1>1. AnswerInv => TheAnswerIsMine
  BY DEF AnswerInv, Spare, Waited, AtWork, TheAnswerIsMine
<1> QED
  BY <1>1, InitAnswers, NextAnswers, PTL DEF Spec

(***************************************************************************)
(* Core 1 executes no request a second time for a kernel that waits for    *)
(* its answers, not when a new life of the driver counts from zero either, *)
(* and none a second time under its number when the kernel gives up        *)
(* (frank_blk_service, frank_blk_submit, frank_blk_probe).                 *)
(***************************************************************************)
THEOREM NothingTwice == Spec => []ExecutedOnce
<1>1. AnswerInv /\ Unheard => ExecutedOnce
  <2> SUFFICES ASSUME AnswerInv, Unheard, core1 = "run"
               PROVE  /\ ~GivesUp => ~\E n \in executed : Read(n)
                      /\ ~Rebinds => fate[taken] = "none"
    BY DEF ExecutedOnce
  <2>1. TypeOK /\ Lent
    BY DEF AnswerInv, DoorbellInv
  <2>2. ASSUME ~Rebinds PROVE fate[taken] = "none"
    BY <2>1, <2>2, AllAreNumbers DEF AnswerInv, Spare, Fresh, Working
  <2>3. ASSUME ~GivesUp, NEW n \in executed, Read(n) PROVE FALSE
    <3>1. seq # done /\ got["addr"] = seq
      BY <2>1, <2>3, BlkDoorbellAssumption DEF Lent, Taken
    <3>2. got["addr"] = n
      BY <2>3, BlkDoorbellAssumption DEF Read
    <3> QED
      BY <2>3, <3>1, <3>2 DEF Unheard
  <2> QED
    BY <2>2, <2>3
<1>2. AnswerInv => DoorbellInv
  BY DEF AnswerInv
<1> QED
  BY <1>1, <1>2, InitAnswers, NextAnswers, InitUnheard, NextUnheard, PTL DEF Spec

=============================================================================
