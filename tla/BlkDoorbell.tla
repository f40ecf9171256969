----------------------------- MODULE BlkDoorbell -----------------------------
(***************************************************************************)
(* The block descriptor in the shared page: frank_blk_submit and           *)
(* frank_blk_queue_rq in the kernel (frank-blk.c) against                  *)
(* frank_blk_service on core 1 (core1_blk.c).  The kernel fills the        *)
(* descriptor and then announces it by its sequence number; core 1 copies  *)
(* the number to done when it has executed it.  A field of the descriptor  *)
(* is modelled by the number of the submit that wrote it; what a           *)
(* transaction does with the wire and the card is its outcome.             *)
(***************************************************************************)
EXTENDS Integers, FiniteSets

CONSTANTS
  Caller,      \* contexts that dispatch requests (BLK_MQ_F_BLOCKING, depth 4)
  SeqMod,      \* sequence numbers are taken modulo this; 2^32 in the code
  MaxChunks,   \* bound: submits that a request is split into
  Fields,      \* bound: the descriptor's fields that are told apart
  Worlds       \* which of the two behaviours below may happen together

ASSUME BlkDoorbellAssumption ==
  /\ SeqMod \in Nat /\ SeqMod >= 2
  /\ MaxChunks \in Nat \ {0}
  /\ IsFiniteSet(Caller) /\ "none" \notin Caller
  /\ {"addr"} \subseteq Fields /\ Fields \subseteq {"op", "lba", "count", "addr"}
  /\ Worlds \subseteq [givesUp : BOOLEAN, rebinds : BOOLEAN]

Number == 0 .. SeqMod - 1
Outcome == {"ok", "error"}

VARIABLES
  world,     \* one of Worlds, throughout a behaviour
  pc,        \* each caller: "idle", "lock", "store", "wait" or "status"
  chunks,    \* submits each caller's request has still to start
  holder,    \* fb->lock: the caller that holds it, or "none"
  kseq,      \* fb->seq
  pending,   \* fields stored and not yet visible to core 1
  desc, seq, done, status,     \* the shared frank_blk_t
  core1,     \* what core 1 does: "poll", "read", "run" or "done"
  taken,     \* the number core 1 observed
  unread,    \* the fields it has yet to read
  got,       \* and what it read
  fate,      \* what each number was executed with: "none", an outcome, or
             \* "torn" if the descriptor read was not, or not all, its own
  executed   \* history: the submits whose descriptor has been executed,
             \* under whatever number

kernelVars == <<pc, chunks, holder, kseq, pending>>
sharedVars == <<desc, seq, done, status>>
core1Vars == <<core1, taken, unread, got>>
historyVars == <<fate, executed>>
vars == <<world, kernelVars, sharedVars, core1Vars, historyVars>>

\* The kernel's two seconds may be over before core 1 is done.
GivesUp == world.givesUp
\* The driver may be unbound and bound again.
Rebinds == world.rebinds

Init ==
  /\ world \in Worlds
  /\ pc = [c \in Caller |-> "idle"] /\ chunks = [c \in Caller |-> 0]
  /\ holder = "none" /\ kseq = 0 /\ pending = {}
  /\ desc = [f \in Fields |-> 0] /\ seq = 0 /\ done = 0 /\ status = "ok"
  /\ core1 = "poll" /\ taken = 0 /\ unread = {} /\ got = [f \in Fields |-> 0]
  /\ fate = [n \in Number |-> "none"] /\ executed = {}

\* Mutant: the number does not wrap.
NextSeqUnwrapped(n) == n + 1

NextSeq(n) == (n + 1) % SeqMod

-----------------------------------------------------------------------------
(* The kernel *)

\* The submits that requests under way have still to start.
Promised == {p \in Caller \X (1 .. MaxChunks) : p[2] =< chunks[p[1]]}

\* Bound: core 1 is never so far behind that a number comes round again,
\* which takes 2^32 timeouts in a row.
NumbersToSpare(k) ==
  GivesUp => ((kseq - done) % SeqMod) + Cardinality(Promised) + k < SeqMod

\* frank_blk_queue_rq: a read or a write that needs k submits.
QueueRq(c, k) ==
  /\ pc[c] = "idle"
  /\ NumbersToSpare(k)
  /\ chunks' = [chunks EXCEPT ![c] = k]
  /\ pc' = [pc EXCEPT ![c] = "lock"]
  /\ UNCHANGED <<world, holder, kseq, pending, sharedVars, core1Vars, historyVars>>

\* frank_blk_submit takes the mutex, counts, and stores the descriptor.
Submit(c) ==
  /\ pc[c] = "lock" /\ holder = "none"
  /\ holder' = c
  /\ kseq' = NextSeq(kseq)
  /\ pending' = Fields
  /\ chunks' = [chunks EXCEPT ![c] = @ - 1]
  /\ pc' = [pc EXCEPT ![c] = "store"]
  /\ fate' = [fate EXCEPT ![kseq'] = "none"]
  /\ executed' = executed \ {kseq'}
  /\ UNCHANGED <<world, sharedVars, core1Vars>>

\* A relaxed store becomes visible, in no particular order.
StoreLands(f) ==
  /\ f \in pending
  /\ pending' = pending \ {f}
  /\ desc' = [desc EXCEPT ![f] = kseq]
  /\ UNCHANGED <<world, pc, chunks, holder, kseq, seq, done, status, core1Vars, historyVars>>

\* Mutant: the sequence number is not held back by a barrier.
PublishNoBarrier(c) ==
  /\ pc[c] = "store"
  /\ seq' = kseq
  /\ pc' = [pc EXCEPT ![c] = "wait"]
  /\ UNCHANGED <<world, chunks, holder, kseq, pending, desc, done, status, core1Vars, historyVars>>

\* dmb, then the number that announces the descriptor.
Publish(c) ==
  /\ pc[c] = "store" /\ pending = {}
  /\ seq' = kseq
  /\ pc' = [pc EXCEPT ![c] = "wait"]
  /\ UNCHANGED <<world, chunks, holder, kseq, pending, desc, done, status, core1Vars, historyVars>>

SeeDone(c) ==
  /\ pc[c] = "wait" /\ done = kseq
  /\ pc' = [pc EXCEPT ![c] = "status"]
  /\ UNCHANGED <<world, chunks, holder, kseq, pending, sharedVars, core1Vars, historyVars>>

\* A submit returns: the next chunk, unless this one failed or was the last.
Unlock(c, ok) ==
  LET more == ok /\ chunks[c] > 0
  IN
  /\ holder' = "none"
  /\ pc' = [pc EXCEPT ![c] = IF more THEN "lock" ELSE "idle"]
  /\ chunks' = IF more THEN chunks ELSE [chunks EXCEPT ![c] = 0]
  /\ UNCHANGED <<world, kseq, pending, sharedVars, core1Vars, historyVars>>

Return(c) == pc[c] = "status" /\ Unlock(c, status = "ok")

\* Mutant: the timeout path forgets the mutex.
GiveUpKeepsLock(c) ==
  /\ GivesUp /\ pc[c] = "wait" /\ done # kseq
  /\ pc' = [pc EXCEPT ![c] = "idle"]
  /\ chunks' = [chunks EXCEPT ![c] = 0]
  /\ UNCHANGED <<world, holder, kseq, pending, sharedVars, core1Vars, historyVars>>

\* FRANK_BLK_TIMEOUT_MS have passed.
GiveUp(c) ==
  /\ GivesUp /\ pc[c] = "wait" /\ done # kseq
  /\ Unlock(c, FALSE)

\* frank_blk_remove and frank_blk_probe, through sysfs: no request is in
\* flight, and the new struct frank_blk counts from zero.
Rebind ==
  /\ Rebinds
  /\ \A c \in Caller : pc[c] = "idle"
  /\ kseq' = 0
  /\ fate' = [n \in Number |-> "none"]
  /\ UNCHANGED <<world, pc, chunks, holder, pending, sharedVars, core1Vars, executed>>

-----------------------------------------------------------------------------
(* Core 1 *)

NewRequest == seq # done

\* frank_blk_service, once the link is up and the console pumped.
Poll ==
  /\ core1 = "poll" /\ NewRequest
  /\ taken' = seq /\ unread' = Fields
  /\ core1' = "read"
  /\ UNCHANGED <<world, kernelVars, sharedVars, got, historyVars>>

\* The descriptor is read after the barrier, a field at a time.
ReadField(f) ==
  /\ core1 = "read" /\ f \in unread
  /\ unread' = unread \ {f}
  /\ got' = [got EXCEPT ![f] = desc[f]]
  /\ core1' = IF unread' = {} THEN "run" ELSE "read"
  /\ UNCHANGED <<world, kernelVars, sharedVars, taken, historyVars>>

\* What was read is the descriptor of submit n.
Read(n) == \A f \in Fields : got[f] = n

Whole == Read(taken)

\* The transaction is over, and its status stored.
Execute(outcome) ==
  /\ core1 = "run"
  /\ status' = outcome
  /\ fate' = [fate EXCEPT ![taken] = IF Whole THEN outcome ELSE "torn"]
  /\ executed' = executed \cup {n \in Number : Read(n)}
  /\ core1' = "done"
  /\ UNCHANGED <<world, kernelVars, desc, seq, done, taken, unread, got>>

\* Mutant: whatever is in seq by now is acknowledged.
FinishRereadsSeq ==
  /\ core1 = "done"
  /\ done' = seq
  /\ core1' = "poll"
  /\ taken' = 0 /\ got' = [f \in Fields |-> 0]
  /\ UNCHANGED <<world, kernelVars, desc, seq, status, unread, historyVars>>

\* Mutant: a failed request is not acknowledged, and so tried again.
FinishRetriesErrors ==
  /\ core1 = "done"
  /\ done' = IF status = "ok" THEN taken ELSE done
  /\ core1' = "poll"
  /\ taken' = 0 /\ got' = [f \in Fields |-> 0]
  /\ UNCHANGED <<world, kernelVars, desc, seq, status, unread, historyVars>>

\* A barrier, and done is published last.
Finish ==
  /\ core1 = "done"
  /\ done' = taken
  /\ core1' = "poll"
  /\ taken' = 0 /\ got' = [f \in Fields |-> 0]
  /\ UNCHANGED <<world, kernelVars, desc, seq, status, unread, historyVars>>

-----------------------------------------------------------------------------

Kernel(c) == Publish(c) \/ SeeDone(c) \/ Return(c) \/ GiveUp(c)

Core1 ==
  \/ Poll
  \/ \E f \in Fields : ReadField(f)
  \/ \E outcome \in Outcome : Execute(outcome)
  \/ Finish

Next ==
  \/ \E c \in Caller, k \in 1 .. MaxChunks : QueueRq(c, k)
  \/ \E c \in Caller : Submit(c) \/ Kernel(c)
  \/ \E f \in Fields : StoreLands(f)
  \/ Rebind
  \/ Core1

Spec == Init /\ [][Next]_vars

(***************************************************************************)
(* A submit that holds the mutex goes on, stores land, and the mutex       *)
(* starves nobody (a kernel mutex is handed to its first waiter).          *)
(***************************************************************************)
KernelSpec ==
  /\ Spec
  /\ WF_vars(\E f \in Fields : StoreLands(f))
  /\ \A c \in Caller : WF_vars(Kernel(c)) /\ SF_vars(Submit(c))

\* Core 1 goes round its service loop: every wait in it has a timeout.
Core1GoesOn == WF_vars(Core1)

-----------------------------------------------------------------------------

TypeOK ==
  /\ world \in Worlds
  /\ pc \in [Caller -> {"idle", "lock", "store", "wait", "status"}]
  /\ chunks \in [Caller -> 0 .. MaxChunks]
  /\ holder \in Caller \cup {"none"}
  /\ kseq \in Number /\ pending \in SUBSET Fields
  /\ desc \in [Fields -> Number] /\ {seq, done} \subseteq Number /\ status \in Outcome
  /\ core1 \in {"poll", "read", "run", "done"}
  /\ taken \in Number /\ unread \in SUBSET Fields /\ got \in [Fields -> Number]
  /\ fate \in [Number -> Outcome \cup {"none", "torn"}] /\ executed \subseteq Number

(***************************************************************************)
(* A caller that has seen done equal its number is told what became of its *)
(* own request: it was executed, whole, and with that outcome, however     *)
(* many requests before it timed out; unless the driver was bound again    *)
(* and met the done of an earlier life.                                    *)
(***************************************************************************)
TheAnswerIsMine ==
  ~Rebinds => \A c \in Caller : pc[c] = "status" => fate[kseq] = status

(***************************************************************************)
(* What core 1 is about to execute has not been executed before: no        *)
(* request twice, also when the driver was bound again, as long as the     *)
(* kernel waits for its answers; and no number twice, however many of them *)
(* are given up, unless a new life of the driver counts from zero.  A      *)
(* kernel that gives up may have the request that refills the descriptor   *)
(* executed under the number before it and again under its own, since core *)
(* 1 then reads a descriptor that is not the announced one.                *)
(***************************************************************************)
ExecutedOnce ==
  core1 = "run" =>
    /\ ~GivesUp => ~\E n \in executed : Read(n)
    /\ ~Rebinds => fate[taken] = "none"

(***************************************************************************)
(* "Read the descriptor only after observing the sequence that publishes   *)
(* it" (core1_blk.c:353): as long as the kernel waits, what core 1 is      *)
(* about to execute is the descriptor that the number it observed          *)
(* announced, neither another's nor parts of two, in whatever order the    *)
(* kernel's stores arrive.                                                 *)
(***************************************************************************)
DescriptorIsWhole == ~GivesUp /\ core1 = "run" => Whole

(***************************************************************************)
(* Core 1 writes only to a buffer the kernel has lent it: the submit that  *)
(* gave the address has not returned (frank_blk_submit waits for done).    *)
(***************************************************************************)
BufferIsLent ==
  core1 = "run" => kseq = got["addr"] /\ \E c \in Caller : pc[c] = "wait"

(***************************************************************************)
(* Every request ends: even when core 1 has stopped, if the kernel gives   *)
(* up; and without giving up, if core 1 goes on and answers each of them,  *)
(* whatever a driver that was bound again finds in the shared counters.    *)
(***************************************************************************)
EveryRequestEnds ==
  GivesUp \/ Core1GoesOn =>
    \A c \in Caller : pc[c] = "lock" ~> pc[c] = "idle"

=============================================================================
