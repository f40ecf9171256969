------------------------------- MODULE LinkBlk -------------------------------
(***************************************************************************)
(* A transaction on the wire: blk_transact on the slave's core 1           *)
(* (core1_blk.c) against the main loop of the master (master-ioserver      *)
(* main.c), with the doorbells and the transfers of link_bus.c.  A frame   *)
(* takes time to send; a receiver that is not armed when it starts hears   *)
(* nothing, and one armed in the middle hears some of its end.  Transmit   *)
(* never stalls, because the sender drives the clock, so the timeouts of   *)
(* link_tx_finish never happen.                                            *)
(***************************************************************************)
EXTENDS Integers

CONSTANT Worlds  \* what may happen together, one record for each case:

(***************************************************************************)
(*   ops     requests besides the probe and KEYS, a CON with nothing to    *)
(*           show, which core 1 sends every five milliseconds              *)
(*   resets  bound: resets of the slave, and as many of the master         *)
(*   prompt  a timeout expires only when nothing is on its way: no frame   *)
(*           outlasts it, no reaction to a doorbell or a frame is late     *)
(*   slow    but a WRITE may outlast the four seconds that the slave waits *)
(*           for it; its 6.5 end before the next transaction gives up too  *)
(***************************************************************************)
ASSUME LinkBlkAssumption ==
  Worlds \subseteq [ops : SUBSET {"READ", "WRITE", "CON"}, resets : Nat,
                    prompt : BOOLEAN, slow : BOOLEAN]

VARIABLES
  world,     \* one of Worlds, throughout a behaviour
  sAt,       \* slave: "boot", "init", "idle", "ask", "header", "gap", "data",
             \* "reply" or "clear"
  sOp, sTag, \* its request, and the model's name for it
  told,      \* what blk_transact is about to return, "late" after a timeout
  probed,    \* blk_probe_done
  mAt,       \* master: "boot", "poll", "header", "data", "card", "reply",
             \* "drop" or "clear"
  mReq,      \* the request it serves
  dbS, dbM,  \* DB_SM and DB_MS
  bus,       \* each direction: the frame being sent and how it is heard
  rx,        \* each direction: words to come, the frame heard, is it intact
  resets     \* of each side

slaveVars == <<sAt, sOp, sTag, told, probed>>
masterVars == <<mAt, mReq>>
vars == <<world, slaveVars, masterVars, dbS, dbM, bus, rx, resets>>

Prompt == world.prompt

Tag == 0 .. 2
Direction == {"up", "down"}
AllOps == {"READ", "WRITE", "CON", "KEYS", "INFO"}
Status == {"ok", "error"}

(* Sizes in words, as small as keeps them apart where the code does.       *)
HeaderSize == 2
HasData(op) == op \in {"WRITE", "CON"}
DataSize(op) == IF op = "WRITE" THEN 3 ELSE 2
\* What blk_transact arms for.
Expected(op) == CASE op = "READ" -> 3 [] op \in {"CON", "KEYS"} -> 2 [] OTHER -> 1
\* What the master sends: a READ that failed has no data.
ReplySize(op, status) == IF op = "READ" /\ status = "error" THEN 1 ELSE Expected(op)

Frame == [kind : {"header", "data", "reply"}, op : AllOps \cup {"junk"},
          tag : Tag, status : Status, size : 1 .. 3]
NoFrame == [kind |-> "none"]
Quiet == [frame |-> NoFrame, heard |-> "none"]
Off == [left |-> 0, from |-> NoFrame, intact |-> TRUE]

Busy(d) == bus[d] # Quiet
Armed(d) == rx[d].left > 0
Full(d) == rx[d].left = 0 /\ rx[d].from # NoFrame

Init ==
  /\ world \in Worlds
  /\ sAt = "boot" /\ sOp = "INFO" /\ sTag = 0 /\ told = "error" /\ probed = FALSE
  /\ mAt = "boot" /\ mReq = NoFrame
  /\ dbS \in BOOLEAN /\ dbM \in BOOLEAN
  /\ bus = [d \in Direction |-> Quiet] /\ rx = [d \in Direction |-> Off]
  /\ resets = [slave |-> 0, master |-> 0]

-----------------------------------------------------------------------------
(* link_bus.c *)

\* Mutant: the receiver is enabled without being restarted.
ArmedForUnaligned(d, n) == [left |-> n, from |-> rx[d].from, intact |-> TRUE]

\* Mutant: the transfer is counted in bytes.
ArmedForBytes(d, n) == [left |-> 4 * n, from |-> NoFrame, intact |-> TRUE]

ArmedFor(d, n) == [left |-> n, from |-> NoFrame, intact |-> TRUE]

\* link_rx_arm: a frame already on its way is heard from here on.
HeardAfterArm(d) == IF Busy(d) THEN [bus[d] EXCEPT !.heard = "tail"] ELSE Quiet

\* link_tx_start.
Started(d, frame) ==
  [frame |-> frame, heard |-> IF Armed(d) THEN "all" ELSE "none"]

\* The receiver once k words of the frame on the wire have reached it.  What
\* does not fit waits in the FIFO until the next link_rx_arm clears it.
Received(d, k) ==
  LET r == rx[d]
  IN  IF k = 0 \/ r.left = 0 THEN r
      ELSE [left |-> IF k < r.left THEN r.left - k ELSE 0,
            from |-> IF r.from = NoFrame THEN bus[d].frame ELSE r.from,
            intact |-> r.intact /\ r.from = NoFrame /\ bus[d].heard = "all"]

\* Words of the frame that reach the receiver, whether or not it is cut short.
Words(d, cut) ==
  IF ~Busy(d) \/ bus[d].heard = "none" THEN {0}
  ELSE IF bus[d].heard = "all" /\ ~cut THEN {bus[d].frame.size}
  ELSE 0 .. bus[d].frame.size - 1

\* A WRITE that the card takes too long for: it is the slave's own, still.
Outlasts == world.slow /\ mReq.op = "WRITE" /\ sOp = "WRITE"

\* Neither waits for the other: it is sending, or has what it waits for.
SlaveActs ==
  \/ sAt \in {"header", "gap", "data"}
  \/ sAt = "ask" /\ dbM
  \/ sAt = "reply" /\ Full("down")
  \/ sAt = "clear" /\ ~dbM
MasterActs ==
  \/ mAt \in {"reply", "drop"}
  \/ mAt = "card" /\ ~Outlasts
  \/ mAt = "poll" /\ dbS
  \/ mAt \in {"header", "data"} /\ Full("up")
  \/ mAt = "clear" /\ ~dbS

-----------------------------------------------------------------------------
(* The slave: blk_transact *)

\* By the end of a block request that timed out, console_pump's five
\* milliseconds are over: core 1 asks for keys before it takes another.
ConsoleIsDue == told = "late" /\ sOp \in {"READ", "WRITE"}

\* Mutant: the probe as it was, made once.
AskProbeOnce(op) ==
  /\ sAt = "idle"
  /\ op = "INFO" <=> ~probed
  /\ op = "INFO" => sTag = 0
  /\ probed /\ ConsoleIsDue => op \in {"CON", "KEYS"}
  /\ sOp' = op /\ sTag' = (sTag + 1) % 3
  /\ dbS' = TRUE
  /\ sAt' = "ask"
  /\ UNCHANGED <<world, told, probed, masterVars, dbM, bus, rx, resets>>

\* Any caller of blk_transact; until it has been answered, only the probe.
Ask(op) ==
  /\ sAt = "idle"
  /\ op = "INFO" <=> ~probed
  /\ probed /\ ConsoleIsDue => op \in {"CON", "KEYS"}
  /\ sOp' = op /\ sTag' = (sTag + 1) % 3
  /\ dbS' = TRUE
  /\ sAt' = "ask"
  /\ UNCHANGED <<world, told, probed, masterVars, dbM, bus, rx, resets>>

\* The receiver is armed before the first byte of the request goes out.  A
\* master that has just given up may be about to lower the doorbell.
Answered ==
  /\ sAt = "ask" /\ dbM
  /\ Prompt => mAt # "drop"
  /\ rx' = [rx EXCEPT !["down"] = ArmedFor("down", Expected(sOp))]
  /\ bus' = [bus EXCEPT
               !["up"] = Started("up", [kind |-> "header", op |-> sOp, tag |-> sTag,
                                        status |-> "ok", size |-> HeaderSize]),
               !["down"] = HeardAfterArm("down")]
  /\ sAt' = "header"
  /\ UNCHANGED <<world, sOp, sTag, told, probed, masterVars, dbS, dbM, resets>>

\* -ETIMEDOUT, without waiting for the master's doorbell to fall.
AskTimeout ==
  /\ sAt = "ask" /\ ~dbM
  /\ Prompt => ~MasterActs
  /\ told' = "late"
  /\ dbS' = FALSE
  /\ sAt' = "idle"
  /\ UNCHANGED <<world, sOp, sTag, probed, masterVars, dbM, bus, rx, resets>>

HeaderSent ==
  /\ sAt = "header"
  /\ \E k \in Words("up", FALSE) : rx' = [rx EXCEPT !["up"] = Received("up", k)]
  /\ bus' = [bus EXCEPT !["up"] = Quiet]
  /\ sAt' = IF HasData(sOp) THEN "gap" ELSE "reply"
  /\ UNCHANGED <<world, sOp, sTag, told, probed, masterVars, dbS, dbM, resets>>

\* Nothing tells the slave that the master has armed for the data.
SendData ==
  /\ sAt = "gap"
  /\ Prompt => ~(mAt = "header" /\ Full("up"))
  /\ bus' = [bus EXCEPT !["up"] =
               Started("up", [kind |-> "data", op |-> sOp, tag |-> sTag,
                              status |-> "ok", size |-> DataSize(sOp)])]
  /\ sAt' = "data"
  /\ UNCHANGED <<world, sOp, sTag, told, probed, masterVars, dbS, dbM, rx, resets>>

DataSent ==
  /\ sAt = "data"
  /\ \E k \in Words("up", FALSE) : rx' = [rx EXCEPT !["up"] = Received("up", k)]
  /\ bus' = [bus EXCEPT !["up"] = Quiet]
  /\ sAt' = "reply"
  /\ UNCHANGED <<world, sOp, sTag, told, probed, masterVars, dbS, dbM, resets>>

\* The reply header is whatever the words that came in say.
ReplyIn ==
  /\ sAt = "reply" /\ Full("down")
  /\ told' \in IF rx["down"].intact THEN {rx["down"].from.status} ELSE Status
  /\ probed' = (probed \/ (sOp = "INFO" /\ told' = "ok"))
  /\ dbS' = FALSE
  /\ sAt' = "clear"
  /\ UNCHANGED <<world, sOp, sTag, masterVars, dbM, bus, rx, resets>>

\* Mutant: the wait for the reply has no end.
ReplyTimeoutNever == FALSE /\ UNCHANGED vars

ReplyTimeout ==
  /\ sAt = "reply" /\ Armed("down")
  /\ Prompt => ~MasterActs /\ mAt # "data"    \* three seconds against two
  /\ told' = "late"
  /\ rx' = [rx EXCEPT !["down"] = Off]
  /\ dbS' = FALSE
  /\ sAt' = "clear"
  /\ UNCHANGED <<world, sOp, sTag, probed, masterVars, dbM, bus, resets>>

\* The wait for the master's doorbell to fall, and its timeout.
SlaveCleared ==
  /\ sAt = "clear"
  /\ Prompt /\ dbM => ~MasterActs
  /\ sAt' = "idle"
  /\ UNCHANGED <<world, sOp, sTag, told, probed, masterVars, dbS, dbM, bus, rx, resets>>

\* The pins float: the master may read the doorbell as raised.
SlaveReset ==
  /\ sAt # "boot" /\ resets.slave < world.resets
  /\ resets' = [resets EXCEPT !.slave = @ + 1]
  /\ sAt' = "boot" /\ probed' = FALSE
  /\ dbS' \in BOOLEAN
  /\ \E k \in Words("up", TRUE) :
       rx' = [rx EXCEPT !["up"] = Received("up", k), !["down"] = Off]
  /\ bus' = [bus EXCEPT !["up"] = Quiet]
  /\ UNCHANGED <<world, sOp, sTag, told, masterVars, dbM>>

\* frank_blk_init.
SlaveInit ==
  /\ sAt = "boot"
  /\ dbS' = FALSE
  /\ sAt' = "init"
  /\ UNCHANGED <<world, sOp, sTag, told, probed, masterVars, dbM, bus, rx, resets>>

\* frank_link_enable and the warm-up: by then, the boot loader has copied a
\* kernel, and Prompt has the master's waits run out.
LinkEnabled ==
  /\ sAt = "init"
  /\ Prompt => mAt \in {"boot", "poll"}
  /\ sAt' = "idle"
  /\ UNCHANGED <<world, sOp, sTag, told, probed, masterVars, dbS, dbM, bus, rx, resets>>

-----------------------------------------------------------------------------
(* The master's main loop *)

Ready ==
  /\ mAt = "poll" /\ dbS
  /\ rx' = [rx EXCEPT !["up"] = ArmedFor("up", HeaderSize)]
  /\ bus' = [bus EXCEPT !["up"] = HeardAfterArm("up")]
  /\ dbM' = TRUE
  /\ mAt' = "header"
  /\ UNCHANGED <<world, slaveVars, mReq, dbS, resets>>

\* The reply is one transfer, begun with the receiver in whatever state.
Reply(req, status, size) ==
  /\ mReq' = req
  /\ mAt' = "reply"
  /\ bus' = [bus EXCEPT !["down"] =
               Started("down", [kind |-> "reply", op |-> req.op, tag |-> req.tag,
                                status |-> status, size |-> size])]

IsRequest(r) == r.intact /\ r.from.kind = "header"

\* do_request turns the request down: a bad magic, a range off the card.
HeaderRejected ==
  LET r == rx["up"]
      req == IF IsRequest(r) THEN r.from ELSE [r.from EXCEPT !.op = "junk"]
  IN
  /\ mAt = "header" /\ Full("up")
  /\ req.op \in {"READ", "WRITE", "junk"}
  /\ \E op \in IF req.op = "junk" THEN {"INFO", "KEYS"} ELSE {req.op} :
       Reply(req, "error", ReplySize(op, "error"))
  /\ UNCHANGED <<world, slaveVars, dbS, dbM, rx, resets>>

\* do_request takes it: on to the data, the card, or straight to the reply.
HeaderTaken ==
  LET r == rx["up"]
      req == r.from
  IN
  /\ mAt = "header" /\ Full("up") /\ IsRequest(r)
  /\ \/ /\ HasData(req.op)
        /\ rx' = [rx EXCEPT !["up"] = ArmedFor("up", DataSize(req.op))]
        /\ bus' = [bus EXCEPT !["up"] = HeardAfterArm("up")]
        /\ mAt' = "data" /\ mReq' = req
     \/ /\ req.op = "READ"
        /\ mAt' = "card" /\ mReq' = req
        /\ UNCHANGED <<world, bus, rx>>
     \/ /\ req.op \in {"INFO", "KEYS"}
        /\ Reply(req, "ok", ReplySize(req.op, "ok"))
        /\ UNCHANGED rx
  /\ UNCHANGED <<world, slaveVars, dbS, dbM, resets>>

\* Mutant: "ready" stands though no request came.
HeaderTimeoutStaysReady ==
  /\ mAt = "header" /\ Armed("up")
  /\ Prompt => ~SlaveActs
  /\ rx' = [rx EXCEPT !["up"] = Off]
  /\ mAt' = "clear"
  /\ UNCHANGED <<world, slaveVars, mReq, dbS, dbM, bus, resets>>

HeaderTimeout ==
  /\ mAt = "header" /\ Armed("up")
  /\ Prompt => ~SlaveActs
  /\ rx' = [rx EXCEPT !["up"] = Off]
  /\ mAt' = "drop"
  /\ UNCHANGED <<world, slaveVars, mReq, dbS, dbM, bus, resets>>

\* Console bytes go to the terminal, sectors to the card.
DataIn ==
  /\ mAt = "data" /\ Full("up")
  /\ \/ /\ mReq.op = "WRITE"
        /\ mAt' = "card"
        /\ UNCHANGED <<world, mReq, bus>>
     \/ mReq.op = "CON" /\ Reply(mReq, "ok", ReplySize("CON", "ok"))
  /\ UNCHANGED <<world, slaveVars, dbS, dbM, rx, resets>>

\* Mutant: data that did not all come is written all the same.
DataTimeoutIgnored ==
  /\ mAt = "data" /\ Armed("up")
  /\ Prompt => ~SlaveActs
  /\ rx' = [rx EXCEPT !["up"].left = 0, !["up"].intact = FALSE]
  /\ mAt' = "card"
  /\ UNCHANGED <<world, slaveVars, mReq, bus, dbS, dbM, resets>>

DataTimeout ==
  /\ mAt = "data" /\ Armed("up")
  /\ Prompt => ~SlaveActs
  /\ rx' = [rx EXCEPT !["up"] = Off]
  /\ Reply(mReq, "error", ReplySize(mReq.op, "error"))
  /\ UNCHANGED <<world, slaveVars, dbS, dbM, resets>>

\* storage_read or storage_write.
CardDone(status) ==
  /\ mAt = "card"
  /\ Reply(mReq, status, ReplySize(mReq.op, status))
  /\ UNCHANGED <<world, slaveVars, dbS, dbM, rx, resets>>

ReplySent ==
  /\ mAt = "reply"
  /\ \E k \in Words("down", FALSE) : rx' = [rx EXCEPT !["down"] = Received("down", k)]
  /\ bus' = [bus EXCEPT !["down"] = Quiet]
  /\ mAt' = "drop"
  /\ UNCHANGED <<world, slaveVars, mReq, dbS, dbM, resets>>

DropDoorbell ==
  /\ mAt = "drop"
  /\ dbM' = FALSE
  /\ mAt' = "clear"
  /\ UNCHANGED <<world, slaveVars, mReq, dbS, bus, rx, resets>>

\* Mutant: the wait as it was, while (link_db_get(&link)).
MasterClearedForever ==
  /\ mAt = "clear" /\ ~dbS
  /\ mAt' = "poll" /\ mReq' = NoFrame
  /\ UNCHANGED <<world, slaveVars, dbS, dbM, bus, rx, resets>>

\* wait_db_clear, and its timeout, which aborts the receiver.
MasterCleared ==
  /\ mAt = "clear"
  /\ Prompt /\ dbS => ~SlaveActs
  /\ rx' = IF dbS THEN [rx EXCEPT !["up"] = Off] ELSE rx
  /\ mAt' = "poll" /\ mReq' = NoFrame
  /\ UNCHANGED <<world, slaveVars, dbS, dbM, bus, resets>>

MasterReset ==
  /\ mAt # "boot" /\ resets.master < world.resets
  /\ resets' = [resets EXCEPT !.master = @ + 1]
  /\ mAt' = "boot" /\ mReq' = NoFrame
  /\ dbM' \in BOOLEAN
  /\ \E k \in Words("down", TRUE) :
       rx' = [rx EXCEPT !["down"] = Received("down", k), !["up"] = Off]
  /\ bus' = [bus EXCEPT !["down"] = Quiet]
  /\ UNCHANGED <<world, slaveVars, dbS>>

\* link_init, at the end of four and a half seconds of bring-up.
MasterBoot ==
  /\ mAt = "boot"
  /\ Prompt => ~SlaveActs
  /\ dbM' = FALSE
  /\ mAt' = "poll"
  /\ UNCHANGED <<world, slaveVars, mReq, dbS, bus, rx, resets>>

-----------------------------------------------------------------------------

Slave ==
  \/ \E op \in world.ops \cup {"INFO", "KEYS"} : Ask(op)
  \/ Answered \/ AskTimeout \/ HeaderSent \/ SendData \/ DataSent
  \/ ReplyIn \/ ReplyTimeout \/ SlaveCleared \/ SlaveInit \/ LinkEnabled

Master ==
  \/ Ready \/ HeaderRejected \/ HeaderTaken \/ HeaderTimeout
  \/ DataIn \/ DataTimeout \/ \E status \in Status : CardDone(status)
  \/ ReplySent \/ DropDoorbell \/ MasterCleared \/ MasterBoot

Next == Slave \/ Master \/ SlaveReset \/ MasterReset

Spec == Init /\ [][Next]_vars

MasterGoesOn == WF_vars(Master)
SlaveGoesOn == WF_vars(Slave)

\* A timeout expires even if the other side stirs now and then.
TimePasses == SF_vars(ReplyTimeout) /\ SF_vars(LinkEnabled) /\ SF_vars(MasterBoot)

\* One side goes on whatever the other does.
OneSideSpec == Spec /\ (MasterGoesOn \/ SlaveGoesOn)

-----------------------------------------------------------------------------

TypeOK ==
  /\ world \in Worlds
  /\ sAt \in {"boot", "init", "idle", "ask", "header", "gap", "data", "reply", "clear"}
  /\ sOp \in AllOps /\ sTag \in Tag /\ told \in Status \cup {"late"} /\ probed \in BOOLEAN
  /\ mAt \in {"boot", "poll", "header", "data", "card", "reply", "drop", "clear"}
  /\ mReq \in Frame \cup {NoFrame}
  /\ {dbS, dbM} \subseteq BOOLEAN
  /\ bus \in [Direction -> [frame : Frame, heard : {"all", "tail", "none"}] \cup {Quiet}]
  /\ rx \in [Direction -> [left : 0 .. 3, from : Frame \cup {NoFrame}, intact : BOOLEAN]]
  /\ resets \in [slave : 0 .. world.resets, master : 0 .. world.resets]

(***************************************************************************)
(* A transaction that returns 0 returns the answer to its own request: the *)
(* frames carry no number that would tell an old reply from a new one, so  *)
(* it rests on the doorbells, on re-arming, and on timing.                 *)
(***************************************************************************)
AnswerIsMine ==
  Prompt /\ sAt = "clear" /\ told = "ok" =>
    /\ rx["down"].intact
    /\ rx["down"].from.op = sOp /\ rx["down"].from.tag = sTag

(***************************************************************************)
(* The master's doorbell means "ready" (link_blk.h): a request goes out to *)
(* a master that has armed for it, and hears all of it, unless it has been *)
(* reset since.                                                            *)
(***************************************************************************)
ReadyMeansArmed ==
  Prompt /\ sAt = "header" /\ mAt # "boot" => bus["up"].heard = "all"

(* So it is as long as the card is quick.  A WRITE that the slave gives up *)
(* leaves the doorbell raised, and the console request that follows takes  *)
(* it for its own (core1_blk.c, blk_transact).                             *)
ReadyIfQuick == ~world.slow => ReadyMeansArmed

(***************************************************************************)
(* What the master writes to the card is the data of the request that it   *)
(* serves, all of it.                                                      *)
(***************************************************************************)
CardGetsTheData ==
  Prompt /\ mAt = "card" /\ mReq.op = "WRITE" =>
    /\ rx["up"].intact
    /\ rx["up"].from.kind = "data" /\ rx["up"].from.tag = mReq.tag

(***************************************************************************)
(* The master always comes back to polling, whatever the slave does or     *)
(* stops doing (main.c, wait_db_clear).  Where Prompt holds, a wait may be *)
(* for the other side to act, which need not happen.                       *)
(***************************************************************************)
MasterComesBack == ~Prompt /\ MasterGoesOn => []<>(mAt = "poll")

(***************************************************************************)
(* blk_transact always returns, whatever the master does: core 1 also      *)
(* services USB.                                                           *)
(***************************************************************************)
SlaveComesBack == ~Prompt /\ SlaveGoesOn => []<>(sAt = "idle")

(***************************************************************************)
(* "The next boot must find a master that still answers": once neither     *)
(* side is reset any more, and both go on, the capacity probe is answered. *)
(***************************************************************************)
Recovers ==
  Prompt /\ MasterGoesOn /\ SlaveGoesOn /\ TimePasses => <>[]probed

=============================================================================
