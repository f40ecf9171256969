# A verification project for FRANK Linux

FRANK runs Linux on one RP2350 (the *slave*) and gives its disk, screen and
keyboard to another (the *master*). What is written here for that purpose, apart
from kernel ports, is a small distributed system: three processors, two kinds of
shared memory and one pair of wires, with no locks and no message numbers. This
directory holds TLA+ models of it, the TLC runs that check them and proofs, for
every size, that the safety properties of the runs hold: of its rings, its
descriptor, its link, its storage, its keyboard path and its terminal. All paths
below are relative to the repository's root, which the project sees as `src/`.

## The system

```
  Linux, core 0        |  core 1 (slave)            |  master
                       |                            |
  frank-ring tty  --tx ring-->  fan-out buffer --> USB CDC
                       |              \--- CON ---> |  terminal engine, HDMI
  frank-ring tty  <--rx ring--  USB CDC             |
                       |   <--- keys in CON reply - |  key queue, USB keyboard
  frank-blk  --descriptor, seq/done-->  blk_transact|  do_request, SD card
                shared SRAM page       doorbells and frames on the link
```

| Component | Source | State | Operations | Module |
|---|---|---|---|---|
| shared rings | `firmware/common/frank_ring.h` | head, tail, data of each ring | put, get on two cores | `FrankRing`, `ByteFifo` |
| producers of the tx ring | Linux patches 0003, 0011; `afboot-rp2350/src/main.c`; `core1_blk.c` | phase of the boot, kfifo, who runs on core 0, the ring | afboot's output and wait, tty write, poll timer, printk, core 1's report | `ConsoleTx` |
| console fan-out | `core1_usb.c`, `console_pump` in `core1_blk.c` | buffer, one head, two tails, who is present | fill, send to USB, take for the link | `FanOut` |
| block descriptor | patch 0003 (frank-blk), `frank_blk_service` | four fields, seq, done, status; the mutex and the kernel's counter | queue_rq, submit, timeout, probe; poll, read, execute, finish | `BlkDoorbell` |
| link transactions | `blk_transact`, the master's `main.c`, `link_bus.c` | two doorbells, a frame and a receiver for each direction, where each side is | request, data, reply, every timeout, resets | `LinkBlk` |
| keyboard path | `usbhid/hid_app.c`, `term/input.c`, `term_input.c`, `term_compat.c`, `keyboard_tick` and the console reply in the master's `main.c` | reports, action queue, Shift, decoder state, key queue, the slave's rx ring | report, unplug, poll, decode, feed, answer, take | `KeyPath` |
| terminal engine | `term/terminal.c`, `framebuf.c`, `display_tick.c` | cursor, scroll region, modes, the saved state, inversion and flash, cells | one command of the VT102, the frame tick | `TermScreen` |
| storage, SD driver | `do_request`, `storage.c`, `sdcard/sdcard.c` | card or RAM disk, capacity, the transfer on the card, the request | initialise, probe, read and write, command by command | `Storage` |
| timer | patch 0003 (`rp2350-timer`) | counter, alarm, armed, pending | set_next_event, shutdown, interrupt | not modelled |
| user cmpxchg, masked atomics | patches 0001, 0002, 0010 | a word, the interrupt mask | load, compare, store | not modelled |

They interact through memory (the shared page in SRAM, and the kernel's buffers
in PSRAM whose address the descriptor carries), through two level-triggered
doorbell pins, and through frames whose only framing is that the receiver was
armed for that many words before they came. There are no callbacks into Linux:
everything on the slave polls.

What is hard about it:

* *No locks.* Each ring is right only if it has one producer and one consumer.
  `FrankRing` shows that this is enough; `ConsoleTx` asks whether it is so.
* *Deadlines on one side only.* The kernel waits two seconds for core 1, core 1
  waits up to five and three for the master, the master one and two for the
  slave, the card up to half a second a step. Giving up on one side does not stop
  the other.
* *Independent resets.* Either RP2350 may be reset or flashed at any time, and
  the card keeps its power.
* *Optional consumers.* Nobody need be looking at either console.
* *Long sequences of legal calls.* An application may set a region, a mode or a
  bell while another is in force; a user may hold, release and unplug.

### What makes each part correct

* rings: no slot belongs to both cores at once; bytes arrive in order, once;
  a full ring is not an empty one; a full ring drains.
* producers: nobody moves head under a put; what is in the ring is what was put;
  the kfifo empties; a kernel message ends.
* fan-out: each consumer reads its own stream; an absent one holds nobody up;
  the first console to appear gets everything from the start.
* descriptor: a believed answer belongs to the request, a request is executed
  once and from its own descriptor, its buffer is still lent, every request ends.
* link: a believed reply belongs to the request, a request goes to a master that
  is ready for it, only whole data reaches the card, both sides come back, and
  find each other again after resets.
* storage: a read that succeeds is right; a write stores a beginning of its data,
  and nothing anywhere else; no transfer is left open on the card.
* keys: each key arrives once, in order, with Shift as it was; the escape decoder
  eats nothing; what the terminal sends is got.
* terminal: the cursor is on the screen; a wrap is pending only at the end of a
  line; text leaves what is outside of its region alone; a bell leaves no trace.

## The modules

**`ByteFifo`** is the promise: a bounded queue of bytes, filled and emptied in
batches. **`FrankRing`** is `frank_ring_put` and `frank_ring_get`, one load or
store at a time. The producer's stores go to a store buffer that memory empties
in any order, and the barrier before the new head waits for it. Loads are not
reordered: the two barriers in `frank_ring_get` forbid what would matter, and the
model takes that as given. `ImplementsFifo` says that it implements `ByteFifo`,
with the bytes between tail and head as the queue, what the put under way stored
as `sending` and what the get under way copied as `taken`.

**`ConsoleTx`** has five contexts: afboot, a tty write, the poll timer's softirq,
printk, and core 1's capacity report. `running` and `preempted` say who has core
0; the report runs on core 1 beside them. A put has two steps here, the read of
head and the rest. `frank_ring_put` (afboot, report) looks at the room itself,
the kernel's `ring_put` does not, and the module keeps the difference. The two
assumptions on which single production rests are constants: `SlowMaster` (the
answer comes after afboot's one-second wait) and `IrqPrints` (a message is
printed from an interrupt).

**`FanOut`** is one round of the service loop in three steps: `fan_fill`, the
bytes for USB, then either the capacity probe or the bytes for the link. The tx
ring is a queue, which `FrankRing` justifies. Presence of USB changes at any
time; the link counts as present for good once the probe was answered. Two
histories, `usbSeen` and `unshown`, remember whether USB was ever there and what
was printed and given to nobody, until both consoles have appeared.

**`BlkDoorbell`** writes the descriptor a store at a time and reads it a field at
a time. The content of a field is the number of the submit that wrote it, so that
parts of two descriptors can be told apart. `fate` remembers what became of each
number, and `executed` whose descriptors core 1 has executed, under whatever
number. Numbers are taken modulo `SeqMod`, standing for 2^32;
`NumbersToSpare` keeps the model from timing out so often in a row that a number
comes round again while core 1 still has it. `GivesUp` is the kernel's timeout,
`Rebinds` an unbind and bind through sysfs. Which of the two there is belongs to
the *world*, which `Init` chooses and no step changes, so that one run covers a
kernel that gives up and one whose driver is bound again.

**`LinkBlk`** has the wire. A frame takes two steps, start and end; a receiver
that is not armed at its start hears nothing, one armed in the middle hears some
words of its end. What a receiver got is counted in words, as the DMA does, with
the frame they began with and whether they are all of one frame. A reset lets the
pins float, so that the other side may read either level. `Prompt` is the timing
assumption, spelled out in the actions' guards: a timeout expires only if the
other side is not about to act. That stands for the code's numbers: a doorbell
wait of at least 20 ms against a reaction of 141 us to 2.8 ms, a reply wait of
three seconds against the master's data wait of at most two, frames of
microseconds, and a slave that takes longer to boot (USB, the payload copy, the
wait for a terminal, the warm-up) than the master's longest series of waits.
With a slow card, a WRITE alone is exempt: it may outlast the slave's three seconds
and one, and no more than that transaction. `disk_write` ends after about six and
a half, and between a block request that timed out and the next one core 1 always
asks for keys (`console_pump` runs first, and its five milliseconds are over),
which takes it to the eighth. Here too the world is chosen in `Init`: which
requests there are, how many resets, whether reactions are in time and whether
the card is slow. The tag of a request is the model's own name for it: nothing on
the wire carries one.

**`Storage`** is what the master does between header and reply: `do_request`,
`storage.c`, and `disk_read` and `disk_write` of the SD driver command by command
and block by block. The card is external and modelled from what the driver does
with it: it may be busy for longer than a wait, not answer, refuse a block or not
send one, and it stores what it accepts. It may be addressed in bytes or in
blocks, it goes on through a reset of the master, and the RAM disk stands in when
it does not come up. Sums and addresses are taken modulo `AddrMod`, standing for
2^32. A sector's content names the request and the position it came from, and
`hung` remembers that a wait for the card has timed out.

**`KeyPath`** follows the master's main loop in three phases: USB reports, the
serial line, the link. A report is compared with the one before, the differences
go to the action queue, `input_poll` makes events of them, the terminal engine
makes bytes of the events, and a console transaction carries what is in the key
queue to the slave's rx ring, at the other end of which Linux reads when it likes.
The escape decoder of the serial line and the terminal's own answers feed the same
queue. `mishaps` ends the history of one of the two ways once something has
happened on it that its property excepts, so that the way is judged up to there.

**`TermScreen`** has one action for each command of the VT102 that moves the
cursor, sets the region or a mode, saves and restores, or moves cells. Of the
cells it follows one, the *mark*, wherever scrolling, inserting and deleting take
it: any property of the form "every cell ..." can be asked of it, since `Init`
chooses it freely. The visual bell inverts every cell and the frame tick does so
again. `stale` and `strayed` are histories for the two exceptions of `WrapPending`.

A module named **`X_proofs`** holds the theorems about `X`, and the lemmas they
rest on. The modules whose indices run round a buffer begin with the few lemmas on
their own `Wrap` that the proofs need.

Each `MC` module says what its bounds are there for, and each `.cfg` gives the
constants. The definitions marked *Mutant* are faulty variants of the one below
them, each of which breaks the property that `PROJECT.json` names; no
specification uses them.

## The runs

| Run | Assumes | Shows |
|---|---|---|
| `frank_ring` | weak fairness of steps, polling consumer | all of the ring's properties and the refinement |
| `console_tx` | no slow master, no printing interrupt | one producer at a time, nothing lost; a kernel message ends though nobody drains the ring; the kfifo empties if somebody does (`Watched`) |
| `console_tx_slow_master` | the answer after afboot's wait | **violated**: two producers |
| `fan_out` | core 1 runs | each consumer gets its own, the first one every byte since the start; an unplugged cable does not stop HDMI; a missing master does not stop a USB console that is read (`SomebodyReads`) |
| `blk_doorbell` | the kernel runs; a world in which it times out, and one in which it does not and the driver may be bound again | no request is executed twice unless the kernel gives up, and no number unless the driver was bound again; every request ends, even if core 1 stops as long as the kernel gives up; answers are one's own unless the driver was bound again; whole descriptors unless it gave up |
| `blk_doorbell_late` | a timeout | **violated**: core 1 works with a buffer that was given back |
| `link_blk` | reactions in time with two resets of each side, the same with a slow card and one, and any timing with one; one side runs while the other may stop | answers are one's own also with a slow card, requests go to a master that is ready if it is quick; only whole data is written; the master comes back to polling and `blk_transact` returns whatever the other side does; the probe is answered in the end if both run |
| `link_blk_not_ready` | reactions in time, but a slow card | **violated**: a request is sent to a master that has not armed for it |
| `storage` | any failure of the card, a reset of the master | reads are right, writes are a beginning of their data, transfers are closed |
| `key_path` | any order of reports, bytes, answers and transactions within a budget | keys as pressed, nothing eaten, what is sent is got |
| `key_arrows` | the same | **violated**: an arrow key reaches Linux as a NUL |
| `term_screen` | any sequence of commands, of any length | the cursor on the screen, wraps pending at line ends, bells without trace, text in its region |

A liveness property that needs more than its run's specification grants names
what it needs: `KfifoDrains` is `Watched => ...`, `MasterComesBack` is
`... /\ MasterGoesOn => ...`, and so on. The run then also covers the behaviours in
which that help is missing.

### Bounds

* `FrankRing`: four slots, so that batches of zero to three bytes, both wraps and
  every overlap of a put with a get occur; two bytes tell an order from another.
  The proofs cover every size.
* `ConsoleTx`: a ring for three bytes, a kfifo of two, a byte of afboot before and
  after its wait, a report of two, two messages of up to two: any two producers
  together overfill the ring and its indices wrap.
* `FanOut`: a buffer for three bytes, batches of two, a USB FIFO of one: both
  consumers lag, and either can be the slower one while the buffer wraps. The
  queue behind it holds two bytes.
* `BlkDoorbell`: two callers with up to two chunks, four numbers, two fields: a
  caller can time out, another submit, while core 1 still works on the first, and
  numbers wrap many times. Two fields are enough for a descriptor to be torn. The
  violation run has all four fields and one chunk.
* `LinkBlk`: with reactions in time every kind of request, and enough resets that
  a side is reset again while the other recovers from the first; with a slow card
  every kind and one reset; with any timing one reset of each side and, besides
  the probe and the asking for keys, READ in one world and WRITE in another, data
  in the reply and data before it: CON has the shape of both. Frame sizes are one to three words, chosen so
  that two sizes are equal in the model where they could be confused in the code.
  Three tags tell the current request from the two before it.
* `Storage`: a card of four sectors of two bytes, a RAM disk of two, requests of
  one to three sectors anywhere within what Linux was told of the medium, as the
  kernel's block layer bounds them; the medium may have become the RAM disk since,
  so that a request crosses its end or lies beyond it. No sum and no byte address
  of such a request wraps, and the model has none that does. Three requests, so
  that a failure is followed by requests that meet what it left, and one reset
  between them.
* `KeyPath`: two keyboards, an action queue for four of the five slots, a key
  queue for three of the four, two keys a reply, an rx ring for two bytes: every
  queue runs over. Four cases: three reports; four serial bytes, which is a whole
  arrow's sequence and one more; three and an answer; two reports and a byte.
* `TermScreen`: three rows of two columns, so that a region may be the top, the
  middle or the bottom of the screen and a line has an end and a place before it;
  a flash of two frames; parameters absent, on the screen, beyond it and above
  127, where the count of a scroll turns negative in eight bits. What was
  saved is followed in one case and the mark in the other: they meet only in the
  cursor, the region and the modes, which both cases have. The proofs cover every size and both at once.

All runs check for deadlock, except `storage`: its requests are bounded and the
system stops after the last.

### Fairness

Nothing is assumed of users, hosts or masters that the run does not say. Core 0
and core 1 run their loops (`WF` of a context's steps): core 1 is dedicated to
its service loop, every wait in which has a timeout, and a context on core 0 that
spins or drains with a bound gets to its end. The poll timer goes on firing while
the tty is open. A mutex is handed over (`SF` of `Submit`), as the kernel's mutex
does with its first waiter. Core 1 need not run for a kernel that gives up. In
`LinkBlk`, `OneSideSpec` has at least one of the two sides go on, and `Recovers`
asks for both, and that time passes (`TimePasses`: three timeouts are strongly
fair, since a guard that `Prompt` disables for a moment does not stop the clock).
`Storage`, `KeyPath` and `TermScreen` have safety properties only.

## Where the code and its comments part

Four runs end in a violation. Each contradicts a sentence of the repository,
which `PROJECT.json` quotes.

1. *A slow master* (`console_tx_slow_master`). `blk_report` runs on core 1 and
   puts into the tx ring, whose producer is core 0. If the master first answers
   after afboot has stopped waiting, or later while Linux prints, the two puts
   overlap: bytes are lost, or the ring is taken back by one put's worth.
2. *The kernel's timeout* (`blk_doorbell_late`). At two seconds it is shorter than
   core 1's own waits. The buffer of the abandoned request, returned to the page
   cache, is still read or written by core 1 later.
3. *A slow card* (`link_blk_not_ready`). A raised doorbell of the master means
   "ready", and it stays up while the card works. The slave gives a WRITE up after
   three seconds and one, the card may take six and a half. The console
   transaction that follows takes the doorbell for an answer to its own: its
   header and its bytes go to a master that has not armed, and core 1 waits three
   seconds for a reply. The answers stay one's own, since the late reply to the
   WRITE is shorter than what the console transaction waits for.
4. *Arrow keys* (`key_arrows`). `term_compat.c` says that anything from 0x80 on is
   a special that the engine handles itself, but the function below gives 0 for
   all of them and the engine switches on what it gives. Arrows, function keys,
   Insert, Home and the rest are sent as a NUL, from the USB keyboard and, decoded
   from `ESC [ A`, from the serial line.

Other disagreements are constants or premises of the passing runs, because the
properties need them. For the first four, changing the configuration or dropping
the premise shows why.

5. *Printing interrupts*, `IrqPrints = TRUE` in `MCConsoleTx.cfg`: the drain that
   patch 0011 adds takes the port lock with interrupts on, and printk does not
   take it. A message printed from an interrupt between the drain's read of head
   and its store is overwritten; `HeadOwned` fails.
6. *A refilled descriptor*, the premise `~GivesUp` of `DescriptorIsWhole` and of the
   first half of `ExecutedOnce`: after a timeout the descriptor stays announced, and
   the next submit refills it before its own number. Core 1 may find parts of two
   requests in it, or the whole of the next one, which it then executes under the
   number before and again under its own. The window is the few stores of a submit.
7. *A rebind*, the premise `~Rebinds` of `TheAnswerIsMine`: the driver counts from
   zero again and the shared `done` does not, so the first submit can find its
   number already there. Requests still end.
8. *A card that is stuck*, the premise on `hung` of `TransferIsClosed`: when the
   card is busy beyond the wait, `disk_write` does not get to the stop token, and
   the next command is taken for data. The result of CMD12 is not looked at either.
9. *A closed terminal*: "its own pace" (`core1_usb.c`) ends after 4095 bytes. An
   enumerated USB device whose terminal is closed stops the HDMI console until it
   is unplugged, which is why `UnpluggedUsbCannotStopHdmi` promises room only
   while no device is enumerated.
10. *A failed read* is answered by eight bytes where the slave armed for more: it
    waits its three seconds out and reports EIO, not the master's status. The model
    has it (`ReplySize` against `Expected`), and the properties survive it.
11. *A reset of the master that does not bring the card up again* makes the RAM
    disk answer for the first 128 sectors of what Linux took for a card, with
    status 0. `ReadIsRight` holds of the medium that serves the request and not of
    the one that Linux probed. A write is acknowledged before the card has
    programmed it.
12. *Keyboards*, the exceptions of `KeysAsPressed`: both Shift keys held at once;
    two keyboards, whose reports are compared with each other; too many keys at
    once, which is taken for all of them released; unplugged with a key held.
    `ESC O x` is delivered as `ESC [ x`.
13. *A lost reply* takes its keys with it, and an rx ring that is full drops them:
    the exceptions of `SentIsGot`.
14. *The terminal*: a restore given outside of the region takes over the pending
    wrap and does not move, and a reset forgets what was saved as pending
    (`WrapPending`); a second bell during the flash leaves the screen inverted, and
    cells written during one stay so (`FlashLeavesNoTrace`), though
    `term_compat.c` says that a visual bell still works. `CSI n S` scrolls by
    n(n-1)/2 rows, so by none for n = 1; the count is a signed byte.
    `CSI L` and `CSI M` end at the foot of the screen when origin mode is off, not
    at that of the region. `CSI J` erases a rectangle. A line feed outside of
    the region may jump into it. `CSI r` does not bound its first row. The model has all
    of these; none takes the cursor off the screen.

## What is proved

Everything below is proved with TLAPS for every value of the constants, from the
named assumptions of the modules and nothing else. TLC checked each invariant, and
each part of it, on the runs' instances before it was proved.

### The ring

`FrankRing_proofs`, for every ring size of at least two and every set of bytes:

* `TypeCorrect`, `Spec => []TypeOK`;
* `RingCorrect`, `Spec => []RingInv`;
* `SlotsDisjoint`, `PromiseKept` and `FullIsNotEmpty` (no step moves head onto
  tail), which follow from it;
* `Refinement`, `Spec => ImplementsFifo`, the implementation of `ByteFifo`.

`NoSlotConflict` is not inductive: that a put writes only free slots follows from
the room it counted, which the other core has changed since. The invariant says
why this does no harm. `PutView`: the head that the put latched is still the
head, and the room that it counted is still there, because only its own side
takes room away. `GetView` is its mirror image. `StoresAreSrc` ties each byte
that the put has stored to the slot counted from head, in memory or on its way,
and `CopiesAreContents` each byte copied to the contents at tail. `Barrier` then
turns "on its way" into "in memory" just when the head moves, and the contents
grow by exactly the bytes stored: that is the step of the refinement in which
`ByteFifo` sends. The arithmetic all rests on a few lemmas on `Wrap` over the
range in which the code uses it, which is `-(RingBytes-1) .. 2*RingBytes-1`.

### The two buffers behind it

What a step of head or tail does to the room, and to the distance of a slot from
the tail, is stated once in each module and used throughout:

* `ConsoleTx_proofs`: `TypeCorrect`; `SingleProducer`, `Timely => []HeadOwned`;
  `OutputIsKept`, `Timely => []NothingLost`. `Timely` is `~SlowMaster /\ ~IrqPrints`,
  the two assumptions that the violations show to be needed. `HeadOwned` is
  inductive together with `Order`: the probe comes after the hand-over is armed,
  the report before its capacity ends afboot's wait, nobody but afboot runs on
  core 0 until it is over, and nothing is preempted. `NothingLost` needs `Room`
  besides, that whoever is about to store still has the room it saw, for the
  kernel's `ring_put` does not look.
* `FanOut_proofs`: `TypeCorrect`; `EachIsServed`, `[]EachGetsItsOwn`;
  `BootMessagesWait`, `[]FirstConsoleGetsAll`. `EachGetsItsOwn` is inductive with
  the type: `Matches` ties the bytes owed to a consumer to the slots from its tail
  to the head, a fill extends both of them by the same bytes, since its room is
  that of the slower one, and a take shortens one. `Waits` says of what is owed
  what `FirstConsoleGetsAll` says of the buffer: with the ring behind it, it is all
  that was printed and not given. A fill moves bytes from one to the other, a take
  drops as many from both, and snapping the tail of a console that has never been
  there, or of one that is back, must lose nothing that the other was not given.

### The descriptor

`BlkDoorbell_proofs`, for any number of callers, fields, numbers and chunks:

* `TypeCorrect`; `NoTornDescriptor`, `[]DescriptorIsWhole`; `BuffersAreLent`,
  `[](~GivesUp => BufferIsLent)`, whose premise is what `blk_doorbell_late` violates.
  `DoorbellInv` adds to the type `Mutex` (whoever is past the lock holds it),
  `Stores` (a field that is not still on its way is of the current number) and, for
  a kernel that does not give up, `Lent`: while core 1 works, the caller whose
  number it took waits, and what is announced, taken and current are the same
  number, so that every field read is one of it.
* `OwnAnswers`, `[]TheAnswerIsMine`, for a kernel that gives up as often as it
  likes, as long as `NumbersToSpare` holds: without it a number could come round
  while core 1 is still at its first bearer. Numbers wrap, so that none is larger
  than another; each is known by its distance behind the kernel's counter
  (`Behind`). `Spare` says that `done`, what
  core 1 has, what is announced and the counter come in this order and that none
  has been lapped: the room that is left covers every submit that a caller has
  still promised, which is a set, `Promised`, and loses a member with each
  submit. `Fresh`: but for the one about to be acknowledged, nothing newer than
  `done` has been executed. `Waited`: what the kernel still waits for is
  read as it was written, and its status is the one it will find. All three fall
  with `Rebinds`, when the counter starts over and `done` does not.
* `NothingTwice`, `[]ExecutedOnce`. No request is executed twice by a kernel that
  waits: `Unheard`, which `executed` is for, says that what is announced and not
  acknowledged has not been executed, though the driver was bound again and
  whatever number its earlier life left in the page; `Lent` adds that core 1 reads
  nothing else. And no number is, without a rebind, however many requests are
  given up: that is `Fresh`.

### The link

`LinkBlk_proofs`, for any requests and any number of resets of either side, at
every step of every frame:

* `TypeCorrect`;
* `DataIsTheRequests`, `[]CardGetsTheData`, as long as reactions are in time (the
  premise `Prompt` is in the property), even if the card is slow and the slave has
  given up;
* `AnswersAreMine`, `[]AnswerIsMine`, under the same premise and with a slow card as
  well;
* `NobodyMissesARequest`, `[]ReadyIfQuick`: if the card is quick, besides. The theorem
  needs what `link_blk_not_ready` violates.

None of them says anything of the time before it bites, and the two sides are
never in one state that both know. `LinkInv` builds up what may be said in three
layers. `Lines` holds at any timing: what is on a wire is what its sender is
sending, a doorbell is up while it is meant to be, a receiver is armed only while
its side waits. `Upward` needs reactions in time: whatever the master has received
belongs to the request the slave is at, and the slave waits for the answer, or it
was reset and will not ask before the master has finished with what came from its
earlier life; and a master that is ready hears a header from its beginning.
`Downward` is about replies: the master serves the slave's own request, the only
reply in sight is the one to it, and the slave hears it from its beginning
(`OwnRequest`, `Listening`). With a slow card the master may instead be at a WRITE
that the slave has given up, but then that asks for keys (`Overdue`): the reply to
the WRITE is too short to complete what it has armed for, and what it sends
reaches nobody. `Undivided` is the one part that needs the quick card: a slave that
sends a header sends it to a master that waits for one.

### Storage

`Storage_proofs`, for every size of card, RAM disk and request, either addressing
and any number of requests and resets: `TypeCorrect`; `ReadsAreRight`,
`[]ReadIsRight`; `WritesAreInOrder`, `[]WriteIsAPrefix`; `TransfersAreClosed`,
`[]TransferIsClosed`. `StorageInv` adds `OnTheMedium` (a request at work is within
the medium), `InStep` (the card's next sector is the request's next block), `Come`
and `Gone` (the blocks read so far are the sectors' contents, and those written so
far are on the card, and no other block of this request is) and `Stored`. Sums and
byte addresses of such a request do not wrap (`NoWrap`, `Addressed`); for a
byte-addressed card this uses that `CardSectors * BlockSize` is within 2^32, as it
is on a standard capacity card.

### The terminal

`TermScreen_proofs`, for every screen of up to 255 by 255, every duration of the
flash, every eight-bit parameter and every repertoire: `CursorOnScreen`,
`[]TypeOK`; `PendingOnlyAtTheEnd`, `[]WrapPending`, with `SavedWrap`, which says
the same of what was saved; `NoTrace`, `[]FlashLeavesNoTrace`, with `FlashInv`: a
cell that was not disturbed is inverted if and only if the screen or the flash is,
and not both; `RegionKept`, the action property `TextStaysInRegion`.

### The keyboard path

`KeyPath_proofs`, for any number of keyboards, every size of the two queues and of
the rx ring, every limit on the keys of a reply and every budget: `TypeCorrect`;
`SentArrives`, `[]SentIsGot`; `TypingIsKept`, `[]NothingEaten`; `PressedIsHeard`,
`[]KeysAsPressed`. `KeyInv` is the conjunction of these and, until one of the faults
that `KeysAsPressed` excepts has happened, `OnTheirWay`.

The sends rest on one lemma about the key queue, that a send appends to what waits
in it and a take shortens that, and the decoder on another, `SerialSpells`: what a
round of `keyboard_tick` delivers and still holds spells what was held before and
the byte it read. For the keys, `OneKeyboard` says that the report before is of the
same keyboard and Shift is one key, which is what makes the comparison of two
reports mean anything, and `Tells` relates the action queue to the two ends of the
way: played from the Shift that the terminal knows, the actions in it feed the rest
of what was pressed, and leave Shift as the last report has it. A definition of
"played" would be recursive, and its properties an induction over the queue. `Tells`
gives witnesses instead, a Shift and a count for each point between two actions, so
that adding an action extends the witnesses by a point (`ReportTells` adds up to
eight) and playing one drops their first.

### Only model-checked

Liveness, which the prover does not handle (nor `ENABLED`): `FullRingDrains`,
`KfifoDrains`, `PrintkReturns`, `UnpluggedUsbCannotStopHdmi`,
`MissingMasterCannotStopUsb`, `EveryRequestEnds`, `Recovers`, `MasterComesBack` and
`SlaveComesBack`. Every other property of a run that passes is stated by a theorem.
And that a run's premises can be met is TLC's to show, as is a violation.

## What is not modelled

Time is not: a timeout is a step that may happen, and how long core 1 is held by
a transaction is not expressed. The wire does not corrupt words. Cache and DMA
coherence of the buffers is taken as given, as the repository measured it.

Of parts that are modelled: opening and closing the tty and the receive half of
its poll timer (one action of `KeyPath`); host to Linux over USB and the debounced
DTR; the whole of core 1's loop in one module; of the SD driver the initialisation
by card type and the byte transfers; of the terminal the byte parser (where
parameters are kept in eight bits, so that 1049 arrives as 25, and an SGR 38 as the
last but one reads a parameter that was not sent), colours, character sets, rows
of double width, VT52 and PETSCII; scrolls by `CSI S` and `CSI T` of more than 128,
where the count never reaches its end in the signed byte; Ctrl and Alt, which
travel as Shift does; mouse and raw characters.

Not at all: the timer, which is one comparison with a counter that runs on; user
compare-and-exchange and masked atomics, which on a single core nothing can come
between; PIO programs, clocks, PSRAM and pin set-up, USB itself, MPU tables and
userland patches, gamepads, hardware tests, tools and the build. The display
library is vendored, and it is most of the code by lines. The list with reasons
is in `PROJECT.json`.

## Plan

Done: `ByteFifo` and `FrankRing`; `ConsoleTx`; `FanOut`; `BlkDoorbell`; `LinkBlk`;
`Storage`; `KeyPath`; `TermScreen`; and the proofs above.

What would come next:

1. `Core1Loop`: the whole service loop with the capacity probe, the console
   transaction and the block service, over `FanOut`, `BlkDoorbell` and an
   abstract link that `LinkBlk` implements. Properties: a console byte taken is
   shown or reported lost; a block request is executed by a transaction of its own.
2. `TtyRx`: the rx ring with its two feeders on core 1, open and close of the tty.
3. `TermParser`: the escape parser that turns bytes into the commands of
   `TermScreen`.
