------------------------------ MODULE ConsoleTx ------------------------------
(***************************************************************************)
(* Everything that writes to the console ring, from the last part of the   *)
(* boot loader on.  FrankRing is correct because each ring has one         *)
(* producer; this module is about who the producers of the tx ring are:    *)
(*                                                                         *)
(*   afboot   the boot loader on core 0 (firmware/afboot-rp2350)           *)
(*   write    a tty write in the kernel, which drains the kfifo with       *)
(*            interrupts off (frank-ring.c start_tx)                       *)
(*   softirq  the kernel's poll timer, which drains it with interrupts on  *)
(*            (rx_poll as patch 0011 leaves it)                            *)
(*   printk   a kernel message (frank-ring.c console_write)                *)
(*   report   core 1 saying what the capacity probe found (core1_blk.c)    *)
(*                                                                         *)
(* Core 0 runs one context at a time, and only the softirq can be          *)
(* interrupted by another of them.  A put of one byte is two steps, reading *)
(* head and publishing it; FrankRing has the steps in between.             *)
(***************************************************************************)
EXTENDS Integers, Sequences

CONSTANTS
  RingBytes,     \* FRANK_RING_BYTES
  FifoBytes,     \* the size of the tty's kfifo
  AfbootPuts,    \* bound: bytes afboot prints before, and again after, its wait
  ReportPuts,    \* bound: bytes of core 1's report
  MaxMessages,   \* bound: kernel messages
  MessageBytes,  \* bound: bytes of a kernel message
  SlowMaster,    \* the master may answer after afboot has stopped waiting
  IrqPrints      \* an interrupt handler may print

ASSUME ConsoleTxAssumption ==
  /\ RingBytes \in Nat /\ RingBytes >= 2
  /\ FifoBytes \in Nat \ {0}
  /\ {AfbootPuts, ReportPuts, MaxMessages, MessageBytes} \subseteq Nat \ {0}
  /\ {SlowMaster, IrqPrints} \subseteq BOOLEAN

VARIABLES
  phase,         \* where afboot is: "banner", "wait", "summary"; then "linux"
  linkEnabled,   \* blk_link_enabled
  capacity,      \* blk.capacity is no longer zero
  probed,        \* blk_probe_done, or its transaction is over
  head, tail, data,   \* the tx ring
  pc,            \* each context: "idle", "ready" for a byte, "enter", "publish"
  putHead,       \* the head each context read on entering its put
  putLen,        \* and the length it settled on
  left,          \* puts that afboot, report and printk have yet to make
  running,       \* the context core 0 runs, or "none"
  preempted,     \* the context it will go back to, or "none"
  messages,      \* kernel messages printed
  fifo,          \* bytes in the kfifo
  marked,        \* place in the kfifo of a byte to follow, 0 once it is out
  owed           \* bytes accepted and not yet consumed, by who put them

coreVars == <<phase, linkEnabled, capacity, probed>>
ringVars == <<head, tail, data, owed>>
ttyVars == <<fifo, marked>>
vars == <<coreVars, ringVars, pc, putHead, putLen, left, running, preempted,
          messages, ttyVars>>

Contexts == {"afboot", "write", "softirq", "printk", "report"}
Slot == 0 .. RingBytes - 1

-----------------------------------------------------------------------------

Wrap(i) == i % RingBytes
Used == Wrap(head - tail)
Space == RingBytes - 1 - Used

Init ==
  /\ phase = "banner" /\ linkEnabled = FALSE /\ capacity = FALSE /\ probed = FALSE
  /\ head = 0 /\ tail = 0 /\ data = [s \in Slot |-> "write"] /\ owed = <<>>
  /\ pc = [c \in Contexts |-> IF c = "afboot" THEN "ready" ELSE "idle"]
  /\ putHead = [c \in Contexts |-> 0] /\ putLen = [c \in Contexts |-> 0]
  /\ left = [c \in Contexts |-> IF c = "afboot" THEN AfbootPuts ELSE 0]
  /\ running = "afboot" /\ preempted = "none"
  /\ messages = 0
  /\ fifo = 0 /\ marked = 0

OnItsCore(c) == c = "report" \/ running = c

\* Entering a put: the head is read.  frank_ring_put looks at the room itself;
\* the kernel's ring_put leaves that to its callers.
Enter(c) ==
  /\ OnItsCore(c) /\ pc[c] = "enter"
  /\ putHead' = [putHead EXCEPT ![c] = head]
  /\ putLen' = [putLen EXCEPT ![c] =
                  IF c \in {"afboot", "report"} /\ Space = 0 THEN 0 ELSE 1]
  /\ pc' = [pc EXCEPT ![c] = "publish"]
  /\ UNCHANGED <<coreVars, ringVars, left, running, preempted, messages, ttyVars>>

\* Bookkeeping of the model only.  Bound: more than the ring can hold has
\* already broken NothingLost, and is not counted further.
Owe(c) ==
  owed' = IF putLen[c] = 0 \/ Len(owed) = RingBytes THEN owed ELSE Append(owed, c)

\* Mutant: the head is not masked.
PublishUnmasked(c) ==
  /\ OnItsCore(c) /\ pc[c] = "publish"
  /\ data' = IF putLen[c] = 0 THEN data ELSE [data EXCEPT ![putHead[c]] = c]
  /\ head' = putHead[c] + putLen[c]
  /\ Owe(c)
  /\ pc' = [pc EXCEPT ![c] = "ready"]
  /\ putHead' = [putHead EXCEPT ![c] = 0]
  /\ putLen' = [putLen EXCEPT ![c] = 0]
  /\ UNCHANGED <<coreVars, tail, left, running, preempted, messages, ttyVars>>

\* The rest of the put: the byte stored, the head published.
Publish(c) ==
  /\ OnItsCore(c) /\ pc[c] = "publish"
  /\ data' = IF putLen[c] = 0 THEN data ELSE [data EXCEPT ![putHead[c]] = c]
  /\ head' = Wrap(putHead[c] + putLen[c])
  /\ Owe(c)
  /\ pc' = [pc EXCEPT ![c] = "ready"]
  /\ putHead' = [putHead EXCEPT ![c] = 0]
  /\ putLen' = [putLen EXCEPT ![c] = 0]
  /\ UNCHANGED <<coreVars, tail, left, running, preempted, messages, ttyVars>>

-----------------------------------------------------------------------------
(* afboot *)

\* The next byte of frank_ring_puts: what does not fit is not waited for.
AfbootPut ==
  /\ running = "afboot" /\ pc["afboot"] = "ready"
  /\ phase \in {"banner", "summary"} /\ left["afboot"] > 0
  /\ left' = [left EXCEPT !["afboot"] = @ - 1]
  /\ pc' = [pc EXCEPT !["afboot"] = "enter"]
  /\ UNCHANGED <<coreVars, ringVars, putHead, putLen, running, preempted,
                 messages, ttyVars>>

\* frank_link_enable, and the wait for a capacity begins.
AfbootEnableLink ==
  /\ phase = "banner" /\ left["afboot"] = 0 /\ pc["afboot"] = "ready"
  /\ phase' = "wait"
  /\ linkEnabled' = TRUE
  /\ UNCHANGED <<capacity, probed, ringVars, pc, putHead, putLen, left, running,
                 preempted, messages, ttyVars>>

\* The wait ends when there is a capacity, or after a second.
AfbootWaited ==
  /\ phase = "wait"
  /\ capacity \/ SlowMaster
  /\ phase' = "summary"
  /\ left' = [left EXCEPT !["afboot"] = AfbootPuts]
  /\ UNCHANGED <<linkEnabled, capacity, probed, ringVars, pc, putHead, putLen,
                 running, preempted, messages, ttyVars>>

AfbootHandOver ==
  /\ phase = "summary" /\ left["afboot"] = 0 /\ pc["afboot"] = "ready"
  /\ phase' = "linux"
  /\ running' = "none"
  /\ pc' = [pc EXCEPT !["afboot"] = "idle"]
  /\ UNCHANGED <<linkEnabled, capacity, probed, ringVars, putHead, putLen, left,
                 preempted, messages, ttyVars>>

Afboot == AfbootPut \/ AfbootEnableLink \/ AfbootWaited \/ AfbootHandOver

-----------------------------------------------------------------------------
(* Linux *)

LinuxIdle == phase = "linux" /\ running = "none"

\* A process writes n bytes to the tty and the serial core calls start_tx.
\* The byte to follow may be the last of them.
TtyWrite(n) ==
  /\ LinuxIdle
  /\ fifo + n <= FifoBytes
  /\ fifo' = fifo + n
  /\ marked' \in IF marked = 0 /\ n > 0 THEN {0, fifo + n} ELSE {marked}
  /\ running' = "write"
  /\ pc' = [pc EXCEPT !["write"] = "ready"]
  /\ UNCHANGED <<coreVars, ringVars, putHead, putLen, left, preempted, messages>>

\* Mutant: the poll as it was before patch 0011, which only receives.
PollTimerOnlyReceives ==
  /\ LinuxIdle
  /\ UNCHANGED vars

\* The poll timer's softirq.  Receiving does not concern this ring.
PollTimer ==
  /\ LinuxIdle
  /\ running' = "softirq"
  /\ pc' = [pc EXCEPT !["softirq"] = "ready"]
  /\ UNCHANGED <<coreVars, ringVars, putHead, putLen, left, preempted, messages, ttyVars>>

\* Mutant: a byte is taken whether or not there is room for it.
DrainByteUnchecked(c) ==
  /\ running = c /\ pc[c] = "ready"
  /\ fifo > 0
  /\ fifo' = fifo - 1
  /\ marked' = IF marked > 0 THEN marked - 1 ELSE 0
  /\ pc' = [pc EXCEPT ![c] = "enter"]
  /\ UNCHANGED <<coreVars, ringVars, putHead, putLen, left, running, preempted, messages>>

\* One pass of tx_drain's loop: room first, then a byte to fill it with.
DrainByte(c) ==
  /\ running = c /\ pc[c] = "ready"
  /\ Space > 0 /\ fifo > 0
  /\ fifo' = fifo - 1
  /\ marked' = IF marked > 0 THEN marked - 1 ELSE 0
  /\ pc' = [pc EXCEPT ![c] = "enter"]
  /\ UNCHANGED <<coreVars, ringVars, putHead, putLen, left, running, preempted, messages>>

\* The ring is full or the kfifo empty.
DrainEnd(c) ==
  /\ running = c /\ pc[c] = "ready"
  /\ Space = 0 \/ fifo = 0
  /\ running' = "none"
  /\ pc' = [pc EXCEPT ![c] = "idle"]
  /\ UNCHANGED <<coreVars, ringVars, putHead, putLen, left, preempted, messages, ttyVars>>

\* The kernel prints a message of n bytes.  printk disables interrupts, as
\* does a tty write; the poll timer does not.
PrintkBegin(n) ==
  /\ \/ LinuxIdle
     \/ IrqPrints /\ running = "softirq"
  /\ messages < MaxMessages
  /\ messages' = messages + 1
  /\ preempted' = running
  /\ running' = "printk"
  /\ pc' = [pc EXCEPT !["printk"] = "ready"]
  /\ left' = [left EXCEPT !["printk"] = n]
  /\ UNCHANGED <<coreVars, ringVars, putHead, putLen, ttyVars>>

\* ring_putc_bounded, when there is room in time.
PrintkByte ==
  /\ running = "printk" /\ pc["printk"] = "ready" /\ left["printk"] > 0
  /\ Space > 0
  /\ left' = [left EXCEPT !["printk"] = @ - 1]
  /\ pc' = [pc EXCEPT !["printk"] = "enter"]
  /\ UNCHANGED <<coreVars, ringVars, putHead, putLen, running, preempted,
                 messages, ttyVars>>

\* Mutant: the wait for room has no bound.
PrintkDropNever == FALSE /\ UNCHANGED vars

\* ring_putc_bounded, when the spin runs out first: the byte is dropped.
PrintkDrop ==
  /\ running = "printk" /\ pc["printk"] = "ready" /\ left["printk"] > 0
  /\ Space = 0
  /\ left' = [left EXCEPT !["printk"] = @ - 1]
  /\ UNCHANGED <<coreVars, ringVars, pc, putHead, putLen, running, preempted,
                 messages, ttyVars>>

PrintkEnd ==
  /\ running = "printk" /\ pc["printk"] = "ready" /\ left["printk"] = 0
  /\ running' = preempted /\ preempted' = "none"
  /\ pc' = [pc EXCEPT !["printk"] = "idle"]
  /\ UNCHANGED <<coreVars, ringVars, putHead, putLen, left, messages, ttyVars>>

Printk == PrintkByte \/ PrintkDrop \/ PrintkEnd

-----------------------------------------------------------------------------
(* Core 1 *)

\* fan_fill, when some console is there to show it: any number of bytes.
FanFill(n) ==
  /\ pc["report"] = "idle"
  /\ n <= Used
  /\ tail' = Wrap(tail + n)
  /\ owed' = SubSeq(owed, n + 1, Len(owed))
  /\ UNCHANGED <<coreVars, head, data, pc, putHead, putLen, left, running,
                 preempted, messages, ttyVars>>

\* Mutant: the capacity is published before the report.
ProbeAnsweredCapacityFirst ==
  /\ linkEnabled /\ ~probed
  /\ probed' = TRUE
  /\ capacity' = TRUE
  /\ pc' = [pc EXCEPT !["report"] = "ready"]
  /\ left' = [left EXCEPT !["report"] = ReportPuts]
  /\ UNCHANGED <<phase, linkEnabled, ringVars, putHead, putLen, running,
                 preempted, messages, ttyVars>>

\* The master answered the capacity request, and blk_report is called.
ProbeAnswered ==
  /\ linkEnabled /\ ~probed
  /\ probed' = TRUE
  /\ pc' = [pc EXCEPT !["report"] = "ready"]
  /\ left' = [left EXCEPT !["report"] = ReportPuts]
  /\ UNCHANGED <<phase, linkEnabled, capacity, ringVars, putHead, putLen, running,
                 preempted, messages, ttyVars>>

ReportByte ==
  /\ pc["report"] = "ready" /\ left["report"] > 0
  /\ left' = [left EXCEPT !["report"] = @ - 1]
  /\ pc' = [pc EXCEPT !["report"] = "enter"]
  /\ UNCHANGED <<coreVars, ringVars, putHead, putLen, running, preempted,
                 messages, ttyVars>>

\* blk_probe goes on to publish the capacity.
PublishCapacity ==
  /\ pc["report"] = "ready" /\ left["report"] = 0
  /\ capacity' = TRUE
  /\ pc' = [pc EXCEPT !["report"] = "idle"]
  /\ UNCHANGED <<phase, linkEnabled, probed, ringVars, putHead, putLen, left,
                 running, preempted, messages, ttyVars>>

Report == ReportByte \/ PublishCapacity

-----------------------------------------------------------------------------

Put == \E c \in Contexts : Enter(c) \/ Publish(c)

Drain == \E c \in {"write", "softirq"} : DrainByte(c) \/ DrainEnd(c)

Next ==
  \/ Put \/ Afboot
  \/ \E n \in 0 .. FifoBytes : TtyWrite(n)
  \/ PollTimer
  \/ Drain
  \/ \E n \in 1 .. MessageBytes : PrintkBegin(n)
  \/ Printk
  \/ \E n \in 1 .. RingBytes : FanFill(n)
  \/ ProbeAnswered
  \/ Report

Spec == Init /\ [][Next]_vars

(***************************************************************************)
(* Both cores go on running what they run, the poll timer goes on firing.  *)
(* The master need not answer and nothing need ever be written.            *)
(***************************************************************************)
CoresRun ==
  /\ WF_vars(Put) /\ WF_vars(Afboot) /\ WF_vars(Drain) /\ WF_vars(Printk)
  /\ WF_vars(Report) /\ WF_vars(PollTimer)

\* Nobody need be watching: the console ring may never be drained.
FairSpec == Spec /\ CoresRun

\* Somebody is watching, and core 1 goes on filling the fan-out buffer.
Watched == WF_vars(\E n \in 1 .. RingBytes : FanFill(n))

-----------------------------------------------------------------------------

TypeOK ==
  /\ phase \in {"banner", "wait", "summary", "linux"}
  /\ {linkEnabled, capacity, probed} \subseteq BOOLEAN
  /\ head \in Slot /\ tail \in Slot /\ data \in [Slot -> Contexts]
  /\ owed \in Seq(Contexts)
  /\ pc \in [Contexts -> {"idle", "ready", "enter", "publish"}]
  /\ putHead \in [Contexts -> Slot] /\ putLen \in [Contexts -> 0 .. 1]
  /\ left \in [Contexts -> Nat]
  /\ running \in Contexts \cup {"none"} /\ preempted \in Contexts \cup {"none"}
  /\ messages \in 0 .. MaxMessages
  /\ fifo \in 0 .. FifoBytes /\ marked \in 0 .. fifo

(***************************************************************************)
(* The producer owns head: between reading it and publishing it, no one    *)
(* else moves it.  frank_ring.h rests its claim to need no locks on this.  *)
(***************************************************************************)
HeadOwned == \A c \in Contexts : pc[c] = "publish" => head = putHead[c]

(***************************************************************************)
(* The ring holds exactly the bytes that puts accepted and core 1 has not  *)
(* taken, in order: no context overwrites or forgets another's output, and *)
(* a full ring is never taken for an empty one.                            *)
(***************************************************************************)
NothingLost ==
  /\ Len(owed) = Used
  /\ \A k \in 1 .. Used : data[Wrap(tail + k - 1)] = owed[k]

(***************************************************************************)
(* Every byte a process wrote leaves the kfifo for the ring while somebody *)
(* watches, even if nothing is ever written again: what patch 0011 is for. *)
(***************************************************************************)
KfifoDrains == Watched => ((marked > 0) ~> (marked = 0))

(***************************************************************************)
(* A kernel message ends whether or not anybody watches the console: the   *)
(* reason ring_putc_bounded gives up.                                      *)
(***************************************************************************)
PrintkReturns == (running = "printk") ~> (running # "printk")

=============================================================================
