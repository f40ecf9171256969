-------------------------------- MODULE FanOut --------------------------------
(***************************************************************************)
(* Core 1's console fan-out (firmware/common/core1_usb.c): what Linux      *)
(* prints is taken out of the tx ring once, into a buffer that the USB     *)
(* console and the master's terminal each read at its own pace.  One step  *)
(* of the service loop is fan_fill, then the USB half of service_once,     *)
(* then console_pump.  The tx ring is the queue that FrankRing implements. *)
(***************************************************************************)
EXTENDS Integers, Sequences

CONSTANTS
  Byte,        \* the bytes the model tells apart
  TxCapacity,  \* what the tx ring holds
  FanSize,     \* FAN_SIZE
  BufSize,     \* the 64-byte buffer a pass moves at most
  LinkMax,     \* LINK_CON_MAX_TX
  CdcSize      \* TinyUSB's transmit FIFO

ASSUME FanOutAssumption ==
  /\ {TxCapacity, BufSize, LinkMax, CdcSize} \subseteq Nat \ {0}
  /\ FanSize \in Nat /\ FanSize >= 2
  /\ Byte # {}

VARIABLES
  tx,                          \* published bytes in the tx ring, oldest first
  fan, fanHead, usbTail, linkTail,
  usbUp,                       \* tud_ready(): the device is enumerated
  linkUp,                      \* frank_link_console_up()
  cdc,                         \* bytes in the CDC FIFO that no host has read
  step,                        \* what core 1 does next
  usbOwed, linkOwed,           \* what each consumer should still be given
  usbSeen,                     \* history: USB has been enumerated
  unshown                      \* history: printed, and given to no console

fanVars == <<fan, fanHead, usbTail, linkTail>>
owedVars == <<usbOwed, linkOwed>>
seenVars == <<usbSeen, unshown>>
vars == <<tx, fanVars, usbUp, linkUp, cdc, step, owedVars, seenVars>>

FanMask == FanSize - 1
Wrap(i) == i % FanSize
Smaller(m, n) == IF m < n THEN m ELSE n
Larger(m, n) == IF m > n THEN m ELSE n

\* fan_used
Held(tail) == Wrap(fanHead - tail)

Drop(s, n) == SubSeq(s, n + 1, Len(s))

\* The history of what is unshown ends when both consoles have been there.
Unshown(s) == unshown' = IF usbSeen' /\ linkUp' THEN <<>> ELSE s

-----------------------------------------------------------------------------

Init ==
  /\ tx = <<>>
  /\ fan \in [0 .. FanMask -> {CHOOSE b \in Byte : TRUE}]
  /\ fanHead = 0 /\ usbTail = 0 /\ linkTail = 0
  /\ usbUp = FALSE /\ linkUp = FALSE /\ cdc = 0
  /\ step = "fill"
  /\ usbOwed = <<>> /\ linkOwed = <<>>
  /\ usbSeen = FALSE /\ unshown = <<>>

\* Linux prints a byte.
LinuxPuts(b) ==
  /\ Len(tx) < TxCapacity
  /\ tx' = Append(tx, b)
  /\ UNCHANGED <<fanVars, usbUp, linkUp, cdc, step, owedVars, usbSeen>>
  /\ Unshown(Append(unshown, b))

\* The cable, or the host's mind.  Unplugging empties the FIFO.
UsbChanges ==
  /\ usbUp' = ~usbUp
  /\ cdc' = 0
  /\ usbSeen' = (usbSeen \/ usbUp')
  /\ UNCHANGED <<tx, fanVars, linkUp, step, owedVars>>
  /\ Unshown(unshown)

\* The host reads, which it does only while a terminal is open.
HostReads ==
  /\ usbUp /\ cdc > 0
  /\ cdc' = cdc - 1
  /\ UNCHANGED <<tx, fanVars, usbUp, linkUp, step, owedVars, seenVars>>

\* Mutants: an absent consumer keeps its backlog.
UsbTailKept == usbTail
LinkTailKept == linkTail

\* An absent consumer has its tail snapped to the head and holds nothing back.
SnappedUsbTail == IF usbUp THEN usbTail ELSE fanHead
SnappedLinkTail == IF linkUp THEN linkTail ELSE fanHead

\* Mutant: the link's backlog is forgotten.
HeldBackUsbOnly == Held(SnappedUsbTail)

\* The backlog of the slower of the consumers present.
HeldBack == Larger(Held(SnappedUsbTail), Held(SnappedLinkTail))

\* Mutant: the ring is drained for nobody.
NobodyThereIgnored == FALSE

NobodyThere == ~usbUp /\ ~linkUp

FillNothing ==
  /\ step = "fill"
  /\ NobodyThere
  /\ step' = "usb"
  /\ UNCHANGED <<tx, fanVars, usbUp, linkUp, cdc, owedVars, seenVars>>

\* fan_fill past its first return; no room moves no bytes.
FanFill ==
  LET n == Smaller(Smaller(FanMask - HeldBack, BufSize), Len(tx))
      new == SubSeq(tx, 1, n)
  IN
  /\ step = "fill"
  /\ ~NobodyThere
  /\ step' = "usb"
  /\ tx' = Drop(tx, n)
  /\ fan' = [i \in 0 .. FanMask |->
               IF Wrap(i - fanHead) < n THEN tx[Wrap(i - fanHead) + 1] ELSE fan[i]]
  /\ fanHead' = Wrap(fanHead + n)
  /\ usbTail' = SnappedUsbTail
  /\ linkTail' = SnappedLinkTail
  /\ usbOwed' = IF usbUp THEN usbOwed \o new ELSE new
  /\ linkOwed' = IF linkUp THEN linkOwed \o new ELSE new
  /\ UNCHANGED <<usbUp, linkUp, cdc, seenVars>>

\* Mutant: the bytes go to the USB FIFO whether or not it has room.
UsbOutNoBackpressure ==
  LET n == IF usbUp THEN Smaller(BufSize, Held(usbTail)) ELSE 0
  IN
  /\ step = "usb"
  /\ step' = "link"
  /\ usbTail' = Wrap(usbTail + n)
  /\ cdc' = cdc + n
  /\ usbOwed' = Drop(usbOwed, n)
  /\ UNCHANGED <<tx, fan, fanHead, linkTail, usbUp, linkUp, linkOwed, usbSeen>>
  /\ Unshown(Drop(unshown, n))

\* The Linux-to-host half of service_once: fan_take what the FIFO has room for.
UsbOut ==
  LET room == Smaller(CdcSize - cdc, BufSize)
      n == IF usbUp THEN Smaller(room, Held(usbTail)) ELSE 0
  IN
  /\ step = "usb"
  /\ step' = "link"
  /\ usbTail' = Wrap(usbTail + n)
  /\ cdc' = cdc + n
  /\ usbOwed' = Drop(usbOwed, n)
  /\ UNCHANGED <<tx, fan, fanHead, linkTail, usbUp, linkUp, linkOwed, usbSeen>>
  /\ Unshown(Drop(unshown, n))

\* The capacity probe: it succeeds once, and from then on the link counts as
\* present for good.
LinkProbe ==
  /\ step = "link" /\ ~linkUp
  /\ linkUp' \in BOOLEAN
  /\ step' = "fill"
  /\ UNCHANGED <<tx, fanVars, usbUp, cdc, owedVars, usbSeen>>
  /\ Unshown(unshown)

\* console_pump's frank_console_take.  Whether the transaction that carries
\* the bytes succeeds is not this module's.
LinkTake ==
  LET n == Smaller(Held(linkTail), LinkMax)
  IN
  /\ step = "link" /\ linkUp
  /\ linkTail' = Wrap(linkTail + n)
  /\ linkOwed' = Drop(linkOwed, n)
  /\ step' = "fill"
  /\ UNCHANGED <<tx, fan, fanHead, usbTail, usbUp, linkUp, cdc, usbOwed, usbSeen>>
  /\ Unshown(Drop(unshown, n))

Core1 == FillNothing \/ FanFill \/ UsbOut \/ LinkProbe \/ LinkTake

Next ==
  \/ \E b \in Byte : LinuxPuts(b)
  \/ UsbChanges
  \/ HostReads
  \/ Core1

Spec == Init /\ [][Next]_vars

\* Core 1 never stops.  A host is not obliged to read.
Core1Spec == Spec /\ WF_vars(Core1)

\* A terminal is open on the host whenever USB is enumerated.
SomebodyReads == WF_vars(HostReads)

-----------------------------------------------------------------------------

Bytes(tail) == [k \in 1 .. Held(tail) |-> fan[Wrap(tail + k - 1)]]

TypeOK ==
  /\ tx \in Seq(Byte) /\ Len(tx) <= TxCapacity
  /\ fan \in [0 .. FanMask -> Byte]
  /\ {fanHead, usbTail, linkTail} \subseteq 0 .. FanMask
  /\ {usbUp, linkUp} \subseteq BOOLEAN /\ cdc \in 0 .. CdcSize
  /\ step \in {"fill", "usb", "link"}
  /\ usbOwed \in Seq(Byte) /\ linkOwed \in Seq(Byte)
  /\ usbSeen \in BOOLEAN /\ unshown \in Seq(Byte)

(***************************************************************************)
(* Each consumer finds in the buffer exactly what was printed since it was *)
(* last absent and what it has not read, in order: the faster one never    *)
(* makes fan_fill overrun the slower, and snapping an absent consumer's    *)
(* tail never skips or repeats a byte of the other's.                      *)
(***************************************************************************)
EachGetsItsOwn == Bytes(usbTail) = usbOwed /\ Bytes(linkTail) = linkOwed

(***************************************************************************)
(* "Holding it in the ring means it is still there when a console finally  *)
(* appears" (core1_usb.c:75-76): as long as only one of the two consoles   *)
(* has ever been there, it is still owed, in the buffer and then in the    *)
(* ring, every byte printed since the start that it has not been given,    *)
(* however late it comes and however often it goes and comes back.         *)
(***************************************************************************)
FirstConsoleGetsAll ==
  /\ ~linkUp => Bytes(usbTail) \o tx = unshown
  /\ ~usbSeen => Bytes(linkTail) \o tx = unshown

Stuck == Len(tx) = TxCapacity

(***************************************************************************)
(* An unplugged USB cable cannot stop the HDMI console: with the link up,  *)
(* a full ring gets room again unless a USB device is enumerated.          *)
(***************************************************************************)
UnpluggedUsbCannotStopHdmi == (linkUp /\ Stuck) ~> (~Stuck \/ usbUp)

(***************************************************************************)
(* A missing master cannot stop a USB console that somebody reads.         *)
(***************************************************************************)
MissingMasterCannotStopUsb ==
  SomebodyReads => ((usbUp /\ Stuck) ~> (~Stuck \/ ~usbUp))

=============================================================================
