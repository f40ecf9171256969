------------------------------- MODULE Storage -------------------------------
(***************************************************************************)
(* What the master serves: do_request (master-ioserver main.c), storage.c  *)
(* and the card driver sdcard.c, against a card on SPI.                    *)
(*                                                                         *)
(* The card is external, modelled from what the driver does with it.  It   *)
(* may answer a command or not, be busy for longer than a wait, fail to    *)
(* send a block or refuse one.  It is taken to store the blocks it         *)
(* accepts, to obey STOP_TRANSMISSION and not to send a block that the     *)
(* driver has stopped waiting for, and to ignore the commands that come    *)
(* while it waits for data.                                                *)
(***************************************************************************)
EXTENDS Integers, Sequences

CONSTANTS
  CardSectors,  \* of the card in the slot
  RamSectors,   \* RAMDISK_SECTORS
  MaxSectors,   \* LINK_BLK_MAX_SECTORS
  BlockSize,    \* 512, the unit of a byte-addressed card
  AddrMod,      \* 2^32: sectors and addresses are DWORDs
  MaxRequests,  \* bound: requests served after the probe
  MaxResets     \* bound: resets of the master

ASSUME StorageAssumption ==
  /\ {CardSectors, RamSectors, MaxSectors, BlockSize} \subseteq Nat \ {0}
  /\ {MaxRequests, MaxResets} \subseteq Nat
  /\ AddrMod \in Nat /\ CardSectors < AddrMod /\ RamSectors < AddrMod

VARIABLES
  blockCard,  \* CT_BLOCK: the card counts in blocks, not in bytes
  haveCard, capacity,  \* have_card, capacity_sectors
  told,       \* what Linux has probed: "nothing", "card" or "ramdisk"
  medium,     \* the contents of the card
  ramdisk,
  card,       \* what the card does: "ready", "read" or "write", and the next sector
  at,         \* master: "boot", "idle", "select", "command", "block", "stop", "done"
  req,        \* the request it serves, with its number
  buff,       \* the blocks that have come, or gone
  status,     \* of the request: "ok" or "error"
  hung,       \* history: a wait for the card has timed out since the last reset
  resets

cardVars == <<blockCard, medium, card>>
vars == <<cardVars, haveCard, capacity, told, ramdisk, at, req, buff, status, hung, resets>>

CardSector == 0 .. CardSectors - 1
RamSector == 0 .. RamSectors - 1
Old(s) == <<0, s>>
\* The block that request number n brings for its i-th sector.
New(n, i) == <<n, i>>
NoRequest == [n |-> 0, op |-> "READ", lba |-> 0, count |-> 1]

Init ==
  /\ blockCard \in BOOLEAN
  /\ ~blockCard => CardSectors * BlockSize =< AddrMod  \* a standard capacity card
  /\ medium = [s \in CardSector |-> Old(s)]
  /\ card = [does |-> "ready", next |-> 0]
  /\ haveCard = FALSE /\ capacity = 0 /\ told = "nothing"
  /\ ramdisk = [s \in RamSector |-> Old(s)]
  /\ at = "boot" /\ req = NoRequest /\ buff = <<>> /\ status = "ok"
  /\ hung = FALSE /\ resets = 0

Multi == req.count > 1
Moved == Len(buff)

-----------------------------------------------------------------------------
(* Bring-up *)

\* storage_init: a card that answers CMD0 and all that follows, and tells its
\* capacity, is initialised; otherwise the RAM disk stands in.
StorageInit ==
  /\ at = "boot"
  /\ \E found \in BOOLEAN :
       /\ haveCard' = found
       /\ capacity' = IF found THEN CardSectors ELSE RamSectors
       /\ card' = IF found THEN [card EXCEPT !.does = "ready"] ELSE card
       /\ ramdisk' = IF found THEN ramdisk ELSE [s \in RamSector |-> Old(s)]
  /\ at' = "idle"
  /\ UNCHANGED <<blockCard, told, medium, req, buff, status, hung, resets>>

\* LINK_BLK_OP_INFO: once, when Linux boots.
Info ==
  /\ at = "idle" /\ told = "nothing"
  /\ told' = IF haveCard THEN "card" ELSE "ramdisk"
  /\ UNCHANGED <<cardVars, haveCard, capacity, ramdisk, at, req, buff, status, hung, resets>>

\* The card keeps its power, and whatever transfer was open.
MasterReset ==
  /\ at # "boot" /\ resets < MaxResets
  /\ resets' = resets + 1
  /\ at' = "boot" /\ haveCard' = FALSE /\ capacity' = 0
  /\ req' = [req EXCEPT !.op = "READ"] /\ buff' = <<>> /\ status' = "ok" /\ hung' = FALSE
  /\ UNCHANGED <<cardVars, told, ramdisk>>

-----------------------------------------------------------------------------
(* main.c and storage.c *)

\* do_request: the sum is a DWORD.
InRange(lba, count) ==
  /\ count \in 1 .. MaxSectors
  /\ (lba + count) % AddrMod =< capacity

Return(s) == status' = s /\ at' = "done"

\* memcpy, between the RAM disk and the buffer.
RamdiskMoves(r) ==
  LET mine == r.lba .. r.lba + r.count - 1
  IN  /\ buff' = [i \in 1 .. r.count |->
                    IF r.op = "READ" THEN ramdisk[r.lba + i - 1] ELSE New(r.n, i)]
      /\ ramdisk' = [s \in RamSector |->
                       IF r.op = "WRITE" /\ s \in mine THEN New(r.n, s - r.lba + 1)
                       ELSE ramdisk[s]]

\* A request within what Linux takes the medium to be.
Request(op, lba, count) ==
  LET r == [n |-> req.n + 1, op |-> op, lba |-> lba, count |-> count]
  IN
  /\ at = "idle" /\ req.n < MaxRequests /\ told # "nothing"
  /\ lba + count =< (IF told = "card" THEN CardSectors ELSE RamSectors)
  /\ req' = r
  /\ \/ ~InRange(lba, count) /\ Return("error") /\ buff' = <<>> /\ UNCHANGED ramdisk
     \/ InRange(lba, count) /\ ~haveCard /\ RamdiskMoves(r) /\ Return("ok")
     \/ /\ InRange(lba, count) /\ haveCard
        /\ at' = IF op = "WRITE" THEN "select" ELSE "command"
        /\ buff' = <<>> /\ UNCHANGED <<ramdisk, status>>
  /\ UNCHANGED <<cardVars, haveCard, capacity, told, hung, resets>>

\* The reply goes out.
Replied ==
  /\ at = "done"
  /\ at' = "idle"
  /\ UNCHANGED <<cardVars, haveCard, capacity, told, ramdisk, req, buff, status, hung, resets>>

-----------------------------------------------------------------------------
(* sdcard.c: disk_read and disk_write *)

mainVars == <<haveCard, capacity, told, ramdisk, req, resets, blockCard>>

\* wait_ready has timed out.
TimedOut == hung' = TRUE
InTime == UNCHANGED hung

\* disk_write's own _select.
Select ==
  /\ at = "select"
  /\ \/ at' = "command" /\ InTime /\ UNCHANGED status
     \/ Return("error") /\ TimedOut
  /\ UNCHANGED <<mainVars, medium, card, buff>>

\* Mutant: a byte-addressed card is given the number of the sector.
AddressInBlocks(sector) == sector

\* LBA to byte address, in 32 bits.
Address(sector) == IF blockCard THEN sector ELSE (sector * BlockSize) % AddrMod

\* The sector that the card takes an address for.
SectorAt(address) == IF blockCard THEN address ELSE address \div BlockSize

\* CMD17, CMD18, CMD24 or CMD25: the card takes the command, or something is
\* wrong with it, or send_cmd does not even send it.  Nobody looks at what comes
\* of ACMD23, which goes before CMD25 and has a wait of its own.
Command ==
  LET first == SectorAt(Address(req.lba))
  IN
  /\ at = "command"
  /\ \/ /\ card.does = "ready" /\ first \in CardSector
        /\ card' = [does |-> IF req.op = "READ" THEN "read" ELSE "write", next |-> first]
        /\ InTime \/ (Multi /\ req.op = "WRITE" /\ TimedOut)
        /\ at' = "block" /\ UNCHANGED status
     \/ Return("error") /\ (InTime \/ TimedOut) /\ UNCHANGED card
  /\ UNCHANGED <<mainVars, medium, buff>>

\* Mutant: a transfer that has failed is not stopped.
AfterBlockNoStop(ok) ==
  /\ at' = IF ~ok \/ ~Multi THEN "done" ELSE IF Moved + 1 < req.count THEN "block" ELSE "stop"
  /\ status' = IF ok THEN "ok" ELSE "error"
  /\ card' = IF Multi THEN [card EXCEPT !.next = @ + 1] ELSE [card EXCEPT !.does = "ready"]

\* Mutant: one block too many.
AfterBlockOneMore(ok) ==
  /\ at' = IF Multi /\ ok /\ Moved + 1 =< req.count THEN "block"
            ELSE IF Multi THEN "stop" ELSE "done"
  /\ status' = IF ok THEN "ok" ELSE "error"
  /\ card' = IF Multi THEN [card EXCEPT !.next = @ + 1] ELSE [card EXCEPT !.does = "ready"]

\* Another block, the end of the transfer, or out of the loop by break.
AfterBlock(ok) ==
  IF Multi THEN
    /\ at' = IF ok /\ Moved + 1 < req.count THEN "block" ELSE "stop"
    /\ status' = IF ok THEN "ok" ELSE "error"
    /\ card' = [card EXCEPT !.next = @ + 1]
  ELSE
    /\ Return(IF ok THEN "ok" ELSE "error")
    /\ card' = [card EXCEPT !.does = "ready"]

\* Mutant: the loop is left as if the block had come.
ReadBlockCounted ==
  /\ at = "block" /\ req.op = "READ"
  /\ \/ card.next \in CardSector /\ buff' = Append(buff, medium[card.next])
     \/ UNCHANGED buff
  /\ AfterBlock(TRUE)
  /\ UNCHANGED <<mainVars, medium, hung>>

\* rcvr_datablock: the start token and a block, or no token within 200 ms.
ReadBlock ==
  /\ at = "block" /\ req.op = "READ"
  /\ \/ /\ card.next \in CardSector
        /\ buff' = Append(buff, medium[card.next])
        /\ AfterBlock(TRUE)
     \/ UNCHANGED buff /\ AfterBlock(FALSE)
  /\ UNCHANGED <<mainVars, medium, hung>>

\* Mutant: the card's answer to the block is not looked at.
WriteBlockUnchecked ==
  /\ at = "block" /\ req.op = "WRITE"
  /\ InTime
  /\ buff' = Append(buff, New(req.n, Moved + 1))
  /\ \/ /\ card.next \in CardSector
        /\ medium' = [medium EXCEPT ![card.next] = New(req.n, Moved + 1)]
     \/ UNCHANGED medium
  /\ AfterBlock(TRUE)
  /\ UNCHANGED mainVars

\* xmit_datablock with a data token: the block is accepted, or refused, or
\* the card is still busy with the one before and nothing is sent.
WriteBlock ==
  /\ at = "block" /\ req.op = "WRITE"
  /\ \/ /\ card.next \in CardSector
        /\ buff' = Append(buff, New(req.n, Moved + 1))
        /\ medium' = [medium EXCEPT ![card.next] = New(req.n, Moved + 1)]
        /\ AfterBlock(TRUE) /\ InTime
     \/ UNCHANGED <<buff, medium>> /\ AfterBlock(FALSE) /\ InTime
     \/ /\ at' = IF Multi THEN "stop" ELSE "done"
        /\ status' = "error" /\ TimedOut
        /\ UNCHANGED <<buff, medium, card>>
  /\ UNCHANGED mainVars

\* CMD12 after a read, the STOP_TRAN token after a write; the token is not
\* sent to a card that is busy.
Stop ==
  /\ at = "stop"
  /\ \/ /\ card' = [card EXCEPT !.does = "ready"]
        /\ Return(status) /\ InTime
     \/ req.op = "WRITE" /\ Return("error") /\ TimedOut /\ UNCHANGED card
  /\ UNCHANGED <<mainVars, medium, buff>>

Next ==
  \/ StorageInit \/ Info \/ MasterReset
  \/ \E op \in {"READ", "WRITE"}, lba \in 0 .. CardSectors + RamSectors,
        count \in 1 .. MaxSectors : Request(op, lba, count)
  \/ Replied \/ Select \/ Command \/ ReadBlock \/ WriteBlock \/ Stop

Spec == Init /\ [][Next]_vars

-----------------------------------------------------------------------------

Value == ({0} \X (CardSector \cup RamSector)) \cup ((1 .. MaxRequests) \X (1 .. MaxSectors))

TypeOK ==
  /\ {blockCard, haveCard, hung} \subseteq BOOLEAN
  /\ capacity \in {0, CardSectors, RamSectors}
  /\ told \in {"nothing", "card", "ramdisk"}
  /\ medium \in [CardSector -> Value] /\ ramdisk \in [RamSector -> Value]
  /\ card \in [does : {"ready", "read", "write"}, next : 0 .. CardSectors]
  /\ at \in {"boot", "idle", "select", "command", "block", "stop", "done"}
  /\ req \in [n : 0 .. MaxRequests, op : {"READ", "WRITE"}, lba : Nat, count : Nat]
  /\ buff \in Seq(Value) /\ Len(buff) =< MaxSectors
  /\ status \in {"ok", "error"} /\ resets \in 0 .. MaxResets

\* The sectors of the request, on the medium that serves it.
Served(i) == IF haveCard THEN medium[req.lba + i - 1] ELSE ramdisk[req.lba + i - 1]
Succeeded(op) == at = "done" /\ req.op = op /\ status = "ok"

(***************************************************************************)
(* A read that succeeds returns the sectors that were asked for, all of    *)
(* them and in order, whatever failed before it, and a failed read does    *)
(* not look like one (disk_read, storage_read, do_request).                *)
(***************************************************************************)
ReadIsRight ==
  Succeeded("READ") => buff = [i \in 1 .. req.count |-> Served(i)]

(***************************************************************************)
(* A write puts its blocks where they belong and nowhere else; what it has *)
(* stored when it ends is a beginning of its data, no block after one that *)
(* was refused, not sent or sent twice; and all of it if it succeeds       *)
(* (disk_write, xmit_datablock).                                           *)
(***************************************************************************)
WriteIsAPrefix ==
  /\ \A s \in CardSector : medium[s][1] = req.n /\ req.n > 0 =>
       s = req.lba + medium[s][2] - 1 /\ medium[s][2] =< req.count
  /\ at = "done" /\ req.op = "WRITE" /\ haveCard /\ InRange(req.lba, req.count) =>
       \A i \in 2 .. req.count :
         Served(i) = New(req.n, i) => Served(i - 1) = New(req.n, i - 1)
  /\ Succeeded("WRITE") => \A i \in 1 .. req.count : Served(i) = New(req.n, i)

(***************************************************************************)
(* A request leaves no transfer open on the card, failed or not, unless a  *)
(* wait for the card timed out: the next command would not be heard.       *)
(***************************************************************************)
TransferIsClosed ==
  haveCard /\ at \in {"idle", "done"} /\ ~hung => card.does = "ready"

==============================================================================
