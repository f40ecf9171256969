---------------------------- MODULE Storage_proofs ----------------------------
(***************************************************************************)
(* Proofs about Storage, for every card and RAM disk, size of block and of *)
(* request, and any number of requests and resets: what a read returns,    *)
(* what a write leaves behind, and that no transfer stays open.            *)
(***************************************************************************)
EXTENDS Storage, TLAPS

(***************************************************************************)
(* A request lies on the medium that serves it.                            *)
(***************************************************************************)
Driving == at \in {"select", "command", "block", "stop"}

OnTheMedium ==
  /\ ~blockCard => CardSectors * BlockSize =< AddrMod
  /\ req.count \in 1 .. MaxSectors
  /\ haveCard => capacity = CardSectors
  /\ ~haveCard /\ at # "boot" => capacity = RamSectors
  /\ at = "boot" => req.op = "READ"
  /\ Driving => /\ haveCard /\ req.n > 0
                /\ req.lba + req.count =< CardSectors
                /\ InRange(req.lba, req.count)

(***************************************************************************)
(* What the card is at agrees with what the driver is at.                  *)
(***************************************************************************)
OpenFor == IF req.op = "READ" THEN "read" ELSE "write"

InStep ==
  /\ at \in {"select", "command"} => buff = <<>>
  /\ haveCard /\ at \in {"idle", "done", "select", "command"} /\ ~hung => card.does = "ready"
  /\ at = "block" => /\ card = [does |-> OpenFor, next |-> req.lba + Moved]
                     /\ Moved < req.count
  /\ at = "stop" => /\ Multi /\ card.does = OpenFor
                    /\ status = "ok" => Moved = req.count

(***************************************************************************)
(* The blocks that have come are those of the card.                        *)
(***************************************************************************)
Come ==
  req.op = "READ" /\ at \in {"block", "stop"} =>
    \A i \in 1 .. Moved : buff[i] = medium[req.lba + i - 1]

(***************************************************************************)
(* The blocks that have gone are on the card, where they belong.           *)
(***************************************************************************)
Gone ==
  /\ \A s \in CardSector : medium[s][1] =< req.n
  /\ \A s \in CardSector : medium[s][1] = req.n /\ req.n > 0 =>
       s = req.lba + medium[s][2] - 1 /\ medium[s][2] =< req.count
  /\ req.op = "WRITE" /\ (Driving \/ (at = "done" /\ haveCard /\ InRange(req.lba, req.count))) =>
       \A i \in 1 .. req.count : medium[req.lba + i - 1] = New(req.n, i) <=> i =< Moved

Stored ==
  Succeeded("WRITE") => \A i \in 1 .. req.count : Served(i) = New(req.n, i)

StorageInv ==
  /\ TypeOK /\ OnTheMedium /\ InStep /\ Come /\ Gone
  /\ Stored /\ ReadIsRight /\ TransferIsClosed

-----------------------------------------------------------------------------
(* Sectors, addresses and blocks *)

LEMMA Sizes ==
  /\ CardSectors \in Nat \ {0} /\ RamSectors \in Nat \ {0} /\ MaxSectors \in Nat \ {0}
  /\ BlockSize \in Nat \ {0} /\ MaxRequests \in Nat /\ MaxResets \in Nat
  /\ AddrMod \in Nat /\ CardSectors < AddrMod /\ RamSectors < AddrMod
BY StorageAssumption

LEMMA ModBelow == ASSUME NEW N \in Nat, NEW i \in Nat, i < N PROVE i % N = i
OBVIOUS

LEMMA DivUndoesTimes == ASSUME NEW n \in Nat, NEW k \in Nat \ {0} PROVE (n * k) \div k = n
OBVIOUS

LEMMA LessTimes ==
  ASSUME NEW m \in Nat, NEW n \in Nat, m < n, NEW k \in Nat \ {0} PROVE m * k < n * k
<1>1. m + 1 =< n
  OBVIOUS
<1>2. n * k = m * k + (n - m) * k
  OBVIOUS
<1>3. (n - m) * k > 0
  OBVIOUS
<1> QED
  BY <1>2, <1>3

\* The card is given the address of the sector that was meant.
LEMMA Addressed ==
  ASSUME ~blockCard => CardSectors * BlockSize =< AddrMod, NEW s \in CardSector
  PROVE  SectorAt(Address(s)) = s
<1>1. CASE blockCard
  BY <1>1 DEF SectorAt, Address
<1>2. CASE ~blockCard
  <2>1. s \in Nat /\ s < CardSectors /\ CardSectors \in Nat /\ BlockSize \in Nat \ {0}
    BY Sizes DEF CardSector
  <2>2. s * BlockSize < CardSectors * BlockSize
    BY <2>1, LessTimes
  <2>3. s * BlockSize \in Nat /\ CardSectors * BlockSize \in Nat
    BY <2>1
  <2>4. s * BlockSize < AddrMod
    BY <1>2, <2>2, <2>3, Sizes
  <2>5. (s * BlockSize) % AddrMod = s * BlockSize
    BY <2>3, <2>4, Sizes, ModBelow
  <2>6. (s * BlockSize) \div BlockSize = s
    BY <2>1, DivUndoesTimes
  <2> QED
    BY <1>2, <2>5, <2>6 DEF SectorAt, Address
<1> QED
  BY <1>1, <1>2

LEMMA ValueIsAPair ==
  ASSUME NEW v \in Value PROVE v[1] \in Nat /\ v[2] \in Nat /\ v = <<v[1], v[2]>>
BY Sizes DEF Value, CardSector, RamSector

LEMMA OldIsAValue == ASSUME NEW s \in CardSector \cup RamSector PROVE Old(s) \in Value
BY DEF Old, Value

LEMMA NewIsAValue ==
  ASSUME NEW n \in 1 .. MaxRequests, NEW i \in 1 .. MaxSectors PROVE New(n, i) \in Value
BY DEF New, Value

LEMMA NewsDiffer ==
  ASSUME NEW m, NEW n, NEW i, NEW j, New(m, i) = New(n, j) PROVE m = n /\ i = j
BY DEF New

\* A request within what Linux takes the medium to be is not mistaken for
\* one within the card by the width of the sum.
LEMMA NoWrap ==
  ASSUME NEW lba \in Nat, NEW count \in Nat, InRange(lba, count),
         lba + count =< (IF told = "card" THEN CardSectors ELSE RamSectors)
  PROVE  count \in 1 .. MaxSectors /\ lba + count =< capacity
<1>1. lba + count \in Nat /\ lba + count < AddrMod
  BY Sizes
<1>2. (lba + count) % AddrMod = lba + count
  BY <1>1, Sizes, ModBelow
<1> QED
  BY <1>2 DEF InRange

-----------------------------------------------------------------------------
(* The steps *)

LEMMA InitInv == Init => StorageInv
<1> SUFFICES ASSUME Init PROVE StorageInv
  OBVIOUS
<1>1. TypeOK
  <2>1. medium \in [CardSector -> Value] /\ ramdisk \in [RamSector -> Value]
    BY OldIsAValue DEF Init
  <2>2. card \in [does : {"ready", "read", "write"}, next : 0 .. CardSectors]
    BY Sizes DEF Init
  <2>3. req \in [n : 0 .. MaxRequests, op : {"READ", "WRITE"}, lba : Nat, count : Nat]
    BY Sizes DEF Init, NoRequest
  <2>4. buff \in Seq(Value) /\ Len(buff) =< MaxSectors
    BY Sizes DEF Init
  <2>5. {blockCard, haveCard, hung} \subseteq BOOLEAN
    BY DEF Init
  <2>6. /\ capacity = 0 /\ told = "nothing" /\ at = "boot" /\ status = "ok" /\ resets = 0
        /\ 0 \in 0 .. MaxResets
    BY Sizes DEF Init
  <2> QED
    BY <2>1, <2>2, <2>3, <2>4, <2>5, <2>6 DEF TypeOK
<1>2. OnTheMedium
  BY Sizes DEF Init, OnTheMedium, NoRequest, Driving
<1>3. InStep /\ Come /\ TransferIsClosed /\ ReadIsRight
  BY DEF Init, InStep, Come, TransferIsClosed, ReadIsRight, Succeeded
<1>4. Gone /\ Stored
  <2>1. req.n = 0 /\ req.op = "READ" /\ at = "boot"
    BY DEF Init, NoRequest
  <2>2. \A s \in CardSector : medium[s][1] = 0
    BY DEF Init, Old
  <2> QED
    BY <2>1, <2>2 DEF Gone, Stored, Succeeded
<1> QED
  BY <1>1, <1>2, <1>3, <1>4 DEF StorageInv

\* The RAM disk as a reset leaves it.
LEMMA StorageInitInv == ASSUME StorageInv, StorageInit PROVE StorageInv'
<1> USE DEF StorageInv
<1>1. PICK found \in BOOLEAN :
        /\ haveCard' = found
        /\ capacity' = IF found THEN CardSectors ELSE RamSectors
        /\ card' = IF found THEN [card EXCEPT !.does = "ready"] ELSE card
        /\ ramdisk' = IF found THEN ramdisk ELSE [s \in RamSector |-> Old(s)]
  BY DEF StorageInit
<1>2. /\ at = "boot" /\ at' = "idle" /\ req.op = "READ"
      /\ UNCHANGED <<blockCard, told, medium, req, buff, status, hung, resets>>
  BY DEF StorageInit, OnTheMedium
<1>3. TypeOK'
  <2>1. ramdisk' \in [RamSector -> Value]
    BY <1>1, OldIsAValue DEF TypeOK
  <2>2. card' \in [does : {"ready", "read", "write"}, next : 0 .. CardSectors]
    BY <1>1 DEF TypeOK
  <2>3. {blockCard', haveCard', hung'} \subseteq BOOLEAN
    BY <1>1, <1>2 DEF TypeOK
  <2>4. capacity' \in {0, CardSectors, RamSectors}
    BY <1>1
  <2> QED
    BY <1>2, <2>1, <2>2, <2>3, <2>4 DEF TypeOK
<1>4. OnTheMedium'
  BY <1>1, <1>2 DEF OnTheMedium, Driving
<1>5. InStep' /\ TransferIsClosed'
  <2>1. haveCard' => card'.does = "ready"
    BY <1>1 DEF TypeOK
  <2> QED
    BY <1>2, <2>1 DEF InStep, TransferIsClosed
<1>6. Come' /\ Gone' /\ ReadIsRight' /\ Stored'
  BY <1>2 DEF Come, Gone, ReadIsRight, Stored, Succeeded
<1> QED
  BY <1>3, <1>4, <1>5, <1>6

LEMMA InfoInv == ASSUME StorageInv, Info PROVE StorageInv'
<1> USE DEF StorageInv
<1>1. /\ told' \in {"card", "ramdisk"}
      /\ UNCHANGED <<blockCard, medium, card, haveCard, capacity, ramdisk, at, req, buff,
                     status, hung, resets>>
  BY DEF Info, cardVars
<1>2. TypeOK'
  BY <1>1 DEF TypeOK
<1>3. OnTheMedium' /\ InStep' /\ TransferIsClosed'
  BY <1>1 DEF OnTheMedium, InStep, TransferIsClosed, Driving, Multi, Moved, OpenFor, InRange
<1>4. Come' /\ Gone' /\ ReadIsRight' /\ Stored'
  BY <1>1 DEF Come, Gone, ReadIsRight, Stored, Succeeded, Served, Driving, Moved, InRange
<1> QED
  BY <1>2, <1>3, <1>4

LEMMA MasterResetInv == ASSUME StorageInv, MasterReset PROVE StorageInv'
<1> USE DEF StorageInv
<1>1. /\ at' = "boot" /\ haveCard' = FALSE /\ capacity' = 0
      /\ req' = [req EXCEPT !.op = "READ"] /\ buff' = <<>> /\ status' = "ok" /\ hung' = FALSE
      /\ resets < MaxResets /\ resets' = resets + 1
      /\ UNCHANGED <<blockCard, medium, card, told, ramdisk>>
  BY DEF MasterReset, cardVars
<1>2. req'.op = "READ" /\ req'.n = req.n /\ req'.lba = req.lba /\ req'.count = req.count
  BY <1>1 DEF TypeOK
<1>3. TypeOK'
  <2>1. req' \in [n : 0 .. MaxRequests, op : {"READ", "WRITE"}, lba : Nat, count : Nat]
    BY <1>1 DEF TypeOK
  <2>2. buff' \in Seq(Value) /\ Len(buff') =< MaxSectors
    BY <1>1, Sizes
  <2>3. resets' \in 0 .. MaxResets
    BY <1>1, Sizes DEF TypeOK
  <2>4. {blockCard', haveCard', hung'} \subseteq BOOLEAN
    BY <1>1 DEF TypeOK
  <2> QED
    BY <1>1, <2>1, <2>2, <2>3, <2>4 DEF TypeOK
<1>4. OnTheMedium' /\ InStep' /\ TransferIsClosed'
  BY <1>1, <1>2 DEF OnTheMedium, InStep, TransferIsClosed, Driving
<1>5. Come' /\ Gone' /\ ReadIsRight' /\ Stored'
  BY <1>1, <1>2 DEF Come, Gone, ReadIsRight, Stored, Succeeded, Driving
<1> QED
  BY <1>3, <1>4, <1>5

LEMMA RepliedInv == ASSUME StorageInv, Replied PROVE StorageInv'
<1> USE DEF StorageInv
<1>1. /\ at = "done" /\ at' = "idle"
      /\ UNCHANGED <<blockCard, medium, card, haveCard, capacity, told, ramdisk, req, buff,
                     status, hung, resets>>
  BY DEF Replied, cardVars
<1>2. TypeOK'
  BY <1>1 DEF TypeOK
<1>3. OnTheMedium' /\ InStep' /\ TransferIsClosed'
  BY <1>1 DEF OnTheMedium, InStep, TransferIsClosed, Driving
<1>4. Come' /\ Gone' /\ ReadIsRight' /\ Stored'
  BY <1>1 DEF Come, Gone, ReadIsRight, Stored, Succeeded, Driving
<1> QED
  BY <1>2, <1>3, <1>4

LEMMA SelectInv == ASSUME StorageInv, Select PROVE StorageInv'
<1> USE DEF StorageInv
<1>1. /\ at = "select"
      /\ \/ at' = "command" /\ hung' = hung /\ status' = status
         \/ at' = "done" /\ status' = "error" /\ hung' = TRUE
      /\ UNCHANGED <<blockCard, medium, card, haveCard, capacity, told, ramdisk, req, buff, resets>>
  BY DEF Select, mainVars, Return, TimedOut, InTime
<1>2. TypeOK'
  <2>1. hung' \in BOOLEAN
    BY <1>1 DEF TypeOK
  <2> QED
    BY <1>1, <2>1 DEF TypeOK
<1>3. OnTheMedium' /\ InStep' /\ TransferIsClosed'
  BY <1>1 DEF OnTheMedium, InStep, TransferIsClosed, Driving, InRange
<1>4. Come' /\ Gone'
  BY <1>1 DEF Come, Gone, Driving, Moved, OnTheMedium, InRange
<1>5. ReadIsRight' /\ Stored'
  BY <1>1 DEF ReadIsRight, Stored, Succeeded
<1> QED
  BY <1>2, <1>3, <1>4, <1>5

LEMMA RequestInv ==
  ASSUME StorageInv, NEW op \in {"READ", "WRITE"}, NEW lba \in 0 .. CardSectors + RamSectors,
         NEW count \in 1 .. MaxSectors, Request(op, lba, count)
  PROVE  StorageInv'
<1> USE DEF StorageInv
<1> DEFINE r == [n |-> req.n + 1, op |-> op, lba |-> lba, count |-> count]
<1>1. /\ at = "idle" /\ req.n < MaxRequests /\ req' = r
      /\ lba + count =< (IF told = "card" THEN CardSectors ELSE RamSectors)
      /\ UNCHANGED <<blockCard, medium, card, haveCard, capacity, told, hung, resets>>
  BY DEF Request, cardVars
<1>2. /\ req'.n = req.n + 1 /\ req'.op = op /\ req'.lba = lba /\ req'.count = count
      /\ req.n \in Nat /\ req.n + 1 \in 1 .. MaxRequests /\ lba \in Nat /\ count \in Nat
  BY <1>1, Sizes DEF TypeOK
<1>3. req' \in [n : 0 .. MaxRequests, op : {"READ", "WRITE"}, lba : Nat, count : Nat]
  BY <1>1, <1>2
<1>4. InRange(lba, count) => lba + count =< capacity
  BY <1>1, <1>2, NoWrap
<1>5. \A s \in CardSector : medium[s] \in Value /\ medium[s][1] \in Nat /\ medium[s][1] # req'.n
  <2> SUFFICES ASSUME NEW s \in CardSector
               PROVE  medium[s] \in Value /\ medium[s][1] \in Nat /\ medium[s][1] # req'.n
    OBVIOUS
  <2>1. medium[s] \in Value
    BY DEF TypeOK
  <2>2. medium[s][1] \in Nat
    BY <2>1, ValueIsAPair
  <2>3. medium[s][1] =< req.n
    BY DEF Gone
  <2> QED
    BY <1>2, <2>1, <2>2, <2>3
<1>6. /\ \A s \in CardSector : medium'[s][1] =< req'.n
      /\ \A s \in CardSector : medium'[s][1] # req'.n
  <2>1. \A s \in CardSector : medium[s][1] =< req.n
    BY DEF Gone
  <2> QED
    BY <1>1, <1>2, <1>5, <2>1
<1>7. \A s \in CardSector, k \in Nat : medium'[s] # New(req'.n, k)
  BY <1>6 DEF New
<1>8. CASE ~InRange(lba, count) /\ Return("error") /\ buff' = <<>> /\ UNCHANGED ramdisk
  <2>1. TypeOK'
    BY <1>1, <1>3, <1>8, Sizes DEF TypeOK, Return
  <2>2. OnTheMedium' /\ InStep' /\ Come' /\ TransferIsClosed' /\ ReadIsRight' /\ Stored'
    BY <1>1, <1>2, <1>8 DEF OnTheMedium, InStep, Come, TransferIsClosed, ReadIsRight,
       Stored, Succeeded, Driving, Return
  <2>3. Gone'
    BY <1>1, <1>2, <1>6, <1>8 DEF Gone, Driving, Return, InRange
  <2> QED
    BY <2>1, <2>2, <2>3
<1>9. CASE InRange(lba, count) /\ ~haveCard /\ RamdiskMoves(r) /\ Return("ok")
  <2> DEFINE mine == lba .. lba + count - 1
  <2>1. /\ buff' = [i \in 1 .. count |-> IF op = "READ" THEN ramdisk[lba + i - 1] ELSE New(req'.n, i)]
        /\ ramdisk' = [s \in RamSector |->
                         IF op = "WRITE" /\ s \in mine THEN New(req'.n, s - lba + 1) ELSE ramdisk[s]]
        /\ at' = "done" /\ status' = "ok"
    BY <1>2, <1>9 DEF RamdiskMoves, Return
  <2>2. /\ capacity = RamSectors /\ lba + count =< RamSectors
        /\ \A i \in 1 .. count : /\ lba + i - 1 \in RamSector /\ lba + i - 1 \in mine
                                 /\ lba + i - 1 - lba + 1 = i /\ i \in 1 .. MaxSectors
    BY <1>1, <1>2, <1>4, <1>9, Sizes DEF OnTheMedium, RamSector
  <2>3. buff' \in Seq(Value) /\ Len(buff') =< MaxSectors
    <3>1. \A i \in 1 .. count : buff'[i] \in Value
      BY <1>2, <2>1, <2>2, NewIsAValue DEF TypeOK
    <3>2. buff' \in [1 .. count -> Value]
      BY <2>1, <3>1
    <3>3. buff' \in Seq(Value)
      BY <1>2, <3>2
    <3>4. Len(buff') = count
      BY <1>2, <2>1, <3>3
    <3> QED
      BY <3>3, <3>4, Sizes
  <2>4. ramdisk' \in [RamSector -> Value]
    <3>1. ASSUME NEW s \in RamSector, s \in mine PROVE New(req'.n, s - lba + 1) \in Value
      <4>1. s - lba + 1 \in 1 .. MaxSectors
        BY <1>2, <3>1, Sizes DEF RamSector
      <4> QED
        BY <1>2, <4>1, NewIsAValue
    <3> QED
      BY <2>1, <3>1 DEF TypeOK
  <2>5. TypeOK'
    BY <1>1, <1>3, <2>1, <2>3, <2>4 DEF TypeOK
  <2>6. OnTheMedium' /\ InStep' /\ Come' /\ TransferIsClosed'
    BY <1>1, <1>2, <1>9, <2>1 DEF OnTheMedium, InStep, Come, TransferIsClosed, Driving
  <2>7. Gone'
    BY <1>1, <1>2, <1>6, <1>9, <2>1 DEF Gone, Driving
  <2>8. ReadIsRight'
    <3>1. op = "READ" => ramdisk' = ramdisk
      BY <2>1 DEF TypeOK
    <3>2. ASSUME op = "READ"
          PROVE  buff' = [i \in 1 .. req'.count |-> ramdisk'[req'.lba + i - 1]]
      BY <1>2, <2>1, <3>1, <3>2
    <3> QED
      BY <1>1, <1>2, <1>9, <3>2 DEF ReadIsRight, Succeeded, Served
  <2>9. Stored'
    <3>1. ASSUME op = "WRITE", NEW i \in 1 .. count
          PROVE  ramdisk'[lba + i - 1] = New(req'.n, i)
      BY <2>1, <2>2, <3>1
    <3> QED
      BY <1>1, <1>2, <1>9, <3>1 DEF Stored, Succeeded, Served
  <2> QED
    BY <2>5, <2>6, <2>7, <2>8, <2>9
<1>10. CASE /\ InRange(lba, count) /\ haveCard
            /\ at' = IF op = "WRITE" THEN "select" ELSE "command"
            /\ buff' = <<>> /\ UNCHANGED <<ramdisk, status>>
  <2>1. at' \in {"select", "command"} /\ Len(buff') = 0
    BY <1>10
  <2>2. TypeOK'
    BY <1>1, <1>3, <1>10, <2>1, Sizes DEF TypeOK
  <2>3. lba + count =< CardSectors
    BY <1>4, <1>10 DEF OnTheMedium
  <2>4. OnTheMedium'
    BY <1>1, <1>2, <1>10, <2>1, <2>3 DEF OnTheMedium, InRange
  <2>5. InStep' /\ Come' /\ TransferIsClosed' /\ ReadIsRight' /\ Stored'
    BY <1>1, <1>2, <1>10, <2>1 DEF InStep, Come, TransferIsClosed, ReadIsRight, Stored, Succeeded
  <2>6. Gone'
    <3>1. \A i \in 1 .. count : i \in Nat /\ lba + i - 1 \in CardSector /\ ~(i =< 0)
      BY <1>2, <2>3, Sizes DEF CardSector
    <3>2. \A i \in 1 .. count : medium'[lba + i - 1] = New(req'.n, i) <=> i =< Len(buff')
      BY <1>7, <2>1, <3>1
    <3> QED
      BY <1>2, <1>6, <3>2 DEF Gone, Moved
  <2> QED
    BY <2>2, <2>4, <2>5, <2>6
<1> QED
  BY <1>8, <1>9, <1>10 DEF Request

LEMMA CommandInv == ASSUME StorageInv, Command PROVE StorageInv'
<1> USE DEF StorageInv
<1>1. /\ at = "command" /\ haveCard /\ req.n > 0 /\ req.lba + req.count =< CardSectors
      /\ req.count \in 1 .. MaxSectors /\ req.lba \in Nat /\ buff = <<>>
      /\ req.op \in {"READ", "WRITE"}
      /\ UNCHANGED <<blockCard, medium, haveCard, capacity, told, ramdisk, req, buff, resets>>
  BY DEF Command, mainVars, OnTheMedium, Driving, TypeOK, InStep
<1>2. SectorAt(Address(req.lba)) = req.lba /\ req.lba \in 0 .. CardSectors
  <2>1. req.lba \in CardSector
    BY <1>1, Sizes DEF CardSector
  <2> QED
    BY <2>1, Addressed, Sizes DEF OnTheMedium, CardSector
<1>3. Moved = 0
  BY <1>1 DEF Moved
<1>4. CASE /\ card' = [does |-> OpenFor, next |-> req.lba]
           /\ at' = "block" /\ (hung' = hung \/ hung' = TRUE) /\ status' = status
  <2>1. hung' \in BOOLEAN /\ card' \in [does : {"ready", "read", "write"}, next : 0 .. CardSectors]
    BY <1>2, <1>4 DEF OpenFor, TypeOK
  <2>2. TypeOK'
    BY <1>1, <1>4, <2>1 DEF TypeOK
  <2>3. OnTheMedium'
    BY <1>1, <1>4 DEF OnTheMedium, Driving, InRange
  <2>4. InStep'
    <3>1. req.lba + 0 = req.lba /\ 0 < req.count
      BY <1>1, Sizes
    <3> QED
      BY <1>1, <1>3, <1>4, <3>1 DEF InStep, Moved, OpenFor
  <2>5. Come'
    BY <1>1, <1>3, <1>4 DEF Come, Moved
  <2>6. Gone'
    BY <1>1, <1>4 DEF Gone, Driving, Moved
  <2>7. TransferIsClosed' /\ ReadIsRight' /\ Stored'
    BY <1>4 DEF TransferIsClosed, ReadIsRight, Stored, Succeeded
  <2> QED
    BY <2>2, <2>3, <2>4, <2>5, <2>6, <2>7
<1>5. CASE /\ at' = "done" /\ status' = "error" /\ (hung' = hung \/ hung' = TRUE)
           /\ card' = card
  <2>1. hung' \in BOOLEAN
    BY <1>5 DEF TypeOK
  <2>2. TypeOK'
    BY <1>1, <1>5, <2>1 DEF TypeOK
  <2>3. OnTheMedium' /\ InStep' /\ Come' /\ TransferIsClosed'
    BY <1>1, <1>5 DEF OnTheMedium, InStep, Come, TransferIsClosed, Driving, InRange
  <2>4. Gone'
    BY <1>1, <1>5 DEF Gone, Driving, Moved
  <2>5. ReadIsRight' /\ Stored'
    BY <1>5 DEF ReadIsRight, Stored, Succeeded
  <2> QED
    BY <2>2, <2>3, <2>4, <2>5
<1> QED
  <2>1. \/ /\ card' = [does |-> OpenFor, next |-> req.lba] /\ at' = "block" /\ status' = status
           /\ hung' = hung \/ hung' = TRUE
        \/ at' = "done" /\ status' = "error" /\ (hung' = hung \/ hung' = TRUE) /\ card' = card
    BY <1>2 DEF Command, Return, InTime, TimedOut, OpenFor
  <2> QED
    BY <1>4, <1>5, <2>1

LEMMA StopInv == ASSUME StorageInv, Stop PROVE StorageInv'
<1> USE DEF StorageInv
<1>1. /\ at = "stop" /\ haveCard /\ at' = "done"
      /\ \/ card' = [card EXCEPT !.does = "ready"] /\ status' = status /\ hung' = hung
         \/ card' = card /\ status' = "error" /\ hung' = TRUE
      /\ UNCHANGED <<blockCard, medium, haveCard, capacity, told, ramdisk, req, buff, resets>>
  BY DEF Stop, mainVars, OnTheMedium, Driving, Return, InTime, TimedOut
<1>2. TypeOK'
  <2>1. card' \in [does : {"ready", "read", "write"}, next : 0 .. CardSectors]
    BY <1>1 DEF TypeOK
  <2>2. {blockCard', haveCard', hung'} \subseteq BOOLEAN
    BY <1>1 DEF TypeOK
  <2> QED
    BY <1>1, <2>1, <2>2 DEF TypeOK
<1>3. OnTheMedium' /\ Come'
  BY <1>1 DEF OnTheMedium, Come, Driving
<1>4. InStep' /\ TransferIsClosed'
  <2>1. ~hung' => card'.does = "ready"
    BY <1>1 DEF TypeOK
  <2> QED
    BY <1>1, <2>1 DEF InStep, TransferIsClosed
<1>5. Gone'
  BY <1>1 DEF Gone, Driving, Moved, OnTheMedium
<1>6. ASSUME status' = "ok"
      PROVE  Len(buff) = req.count /\ req.count \in Nat /\ buff \in Seq(Value)
  BY <1>1, <1>6 DEF InStep, Moved, TypeOK
<1>7. ReadIsRight'
  <2>1. ASSUME status' = "ok", req.op = "READ"
        PROVE  buff = [i \in 1 .. req.count |-> medium[req.lba + i - 1]]
    BY <1>1, <1>6, <2>1 DEF Come, Moved
  <2> QED
    BY <1>1, <2>1 DEF ReadIsRight, Succeeded, Served
<1>8. Stored'
  <2>1. ASSUME status' = "ok", req.op = "WRITE", NEW i \in 1 .. req.count
        PROVE  medium[req.lba + i - 1] = New(req.n, i)
    BY <1>1, <1>6, <2>1 DEF Gone, Driving, Moved
  <2> QED
    BY <1>1, <2>1 DEF Stored, Succeeded, Served
<1> QED
  BY <1>2, <1>3, <1>4, <1>5, <1>7, <1>8

\* Where a transfer stands when the next block is due.
LEMMA AtBlock ==
  ASSUME StorageInv, at = "block"
  PROVE  /\ haveCard /\ req.n \in 1 .. MaxRequests /\ req.lba \in Nat
         /\ req.count \in 1 .. MaxSectors /\ req.count \in Nat
         /\ Moved \in Nat /\ Moved < req.count
         /\ card = [does |-> OpenFor, next |-> req.lba + Moved]
         /\ req.lba + Moved \in CardSector /\ req.lba + Moved + 1 \in 0 .. CardSectors
<1> USE DEF StorageInv
<1>1. /\ haveCard /\ req.n > 0 /\ req.lba + req.count =< CardSectors
      /\ req.count \in 1 .. MaxSectors /\ req.count \in Nat /\ req.lba \in Nat
      /\ Moved \in Nat /\ Moved < req.count /\ req.n \in 0 .. MaxRequests
      /\ card = [does |-> OpenFor, next |-> req.lba + Moved]
  BY Sizes DEF OnTheMedium, Driving, InStep, Moved, TypeOK
<1> QED
  BY <1>1, Sizes DEF CardSector

\* The end of a block, as far as the card and the registers are concerned.
LEMMA AfterBlockType ==
  ASSUME StorageInv, at = "block", NEW ok \in BOOLEAN, AfterBlock(ok)
  PROVE  /\ card' \in [does : {"ready", "read", "write"}, next : 0 .. CardSectors]
         /\ status' = (IF ok THEN "ok" ELSE "error")
         /\ at' \in {"block", "stop", "done"}
         /\ at' = "block" => /\ ok /\ Moved + 1 < req.count
                             /\ card' = [does |-> OpenFor, next |-> req.lba + (Moved + 1)]
         /\ at' = "stop" => /\ Multi /\ card'.does = OpenFor
                            /\ ok => Moved + 1 = req.count
         /\ at' = "done" => req.count = 1 /\ Moved = 0 /\ card'.does = "ready"
<1>1. /\ req.count \in Nat /\ req.count >= 1 /\ Moved \in Nat /\ Moved < req.count /\ req.lba \in Nat
      /\ card = [does |-> OpenFor, next |-> req.lba + Moved]
      /\ req.lba + Moved + 1 \in 0 .. CardSectors /\ req.lba + Moved \in 0 .. CardSectors
      /\ OpenFor \in {"read", "write"}
      /\ req.lba + Moved + 1 = req.lba + (Moved + 1)
  BY AtBlock, Sizes DEF CardSector, OpenFor
<1>2. CASE Multi
  <2>1. /\ at' = IF ok /\ Moved + 1 < req.count THEN "block" ELSE "stop"
        /\ status' = IF ok THEN "ok" ELSE "error"
        /\ card' = [card EXCEPT !.next = @ + 1]
    BY <1>2 DEF AfterBlock
  <2>2. card' = [does |-> OpenFor, next |-> req.lba + (Moved + 1)]
    BY <1>1, <2>1
  <2> QED
    BY <1>1, <1>2, <2>1, <2>2
<1>3. CASE ~Multi
  <2>1. /\ at' = "done" /\ status' = IF ok THEN "ok" ELSE "error"
        /\ card' = [card EXCEPT !.does = "ready"]
    BY <1>3 DEF AfterBlock, Return
  <2>2. card' = [does |-> "ready", next |-> req.lba + Moved]
    BY <1>1, <2>1
  <2>3. req.count = 1 /\ Moved = 0
    BY <1>1, <1>3 DEF Multi
  <2> QED
    BY <1>1, <2>1, <2>2, <2>3
<1> QED
  BY <1>2, <1>3

LEMMA ReadBlockInv == ASSUME StorageInv, ReadBlock PROVE StorageInv'
<1> USE DEF StorageInv
<1>1. /\ at = "block" /\ req.op = "READ"
      /\ UNCHANGED <<blockCard, medium, haveCard, capacity, told, ramdisk, req, resets, hung>>
  BY DEF ReadBlock, mainVars
<1>2. PICK ok \in BOOLEAN :
        /\ AfterBlock(ok)
        /\ buff' = IF ok THEN Append(buff, medium[req.lba + Moved]) ELSE buff
  <2>1. card.next = req.lba + Moved
    BY <1>1, AtBlock
  <2>2. CASE buff' = Append(buff, medium[card.next]) /\ AfterBlock(TRUE)
    BY <2>1, <2>2
  <2>3. CASE buff' = buff /\ AfterBlock(FALSE)
    BY <2>3
  <2> QED
    BY <2>2, <2>3 DEF ReadBlock
<1>3. /\ haveCard /\ req.lba \in Nat /\ req.count \in 1 .. MaxSectors /\ req.count \in Nat
      /\ Moved \in Nat /\ Moved < req.count /\ req.lba + Moved \in CardSector
      /\ buff \in Seq(Value) /\ Len(buff) = Moved
  BY <1>1, AtBlock DEF TypeOK, Moved
<1>4. /\ card' \in [does : {"ready", "read", "write"}, next : 0 .. CardSectors]
      /\ status' = (IF ok THEN "ok" ELSE "error")
      /\ at' \in {"block", "stop", "done"}
      /\ at' = "block" => /\ ok /\ Moved + 1 < req.count
                          /\ card' = [does |-> OpenFor, next |-> req.lba + (Moved + 1)]
      /\ at' = "stop" => /\ Multi /\ card'.does = OpenFor
                         /\ ok => Moved + 1 = req.count
      /\ at' = "done" => req.count = 1 /\ Moved = 0 /\ card'.does = "ready"
  BY <1>1, <1>2, AfterBlockType
<1>5. /\ buff' \in Seq(Value) /\ Len(buff') = (IF ok THEN Moved + 1 ELSE Moved)
      /\ Len(buff') \in Nat /\ Len(buff') =< req.count
  <2>1. medium[req.lba + Moved] \in Value
    BY <1>3 DEF TypeOK
  <2> QED
    BY <1>2, <1>3, <2>1
<1>6. \A i \in 1 .. Len(buff') : buff'[i] = medium[req.lba + i - 1]
  <2>1. ASSUME NEW i \in 1 .. Moved PROVE buff[i] = medium[req.lba + i - 1]
    BY <1>1, <2>1 DEF Come
  <2>2. req.lba + Moved = req.lba + (Moved + 1) - 1
    BY <1>3
  <2>3. CASE ok
    <3>1. \A i \in 1 .. Moved : buff'[i] = buff[i]
      BY <1>2, <1>3, <2>3
    <3>2. buff'[Moved + 1] = medium[req.lba + Moved]
      BY <1>2, <1>3, <2>3
    <3>3. \A i \in 1 .. Moved + 1 : i \in 1 .. Moved \/ i = Moved + 1
      BY <1>3
    <3> QED
      BY <1>5, <2>1, <2>2, <2>3, <3>1, <3>2, <3>3
  <2>4. CASE ~ok
    BY <1>2, <1>5, <2>1, <2>4
  <2> QED
    BY <2>3, <2>4
<1>7. TypeOK'
  <2>1. Len(buff') =< MaxSectors
    BY <1>3, <1>5, Sizes
  <2> QED
    BY <1>1, <1>4, <1>5, <2>1 DEF TypeOK
<1>8. OnTheMedium'
  BY <1>1, <1>4 DEF OnTheMedium, Driving, InRange
<1>9. InStep' /\ TransferIsClosed'
  <2>1. Len(buff') = IF ok THEN Moved + 1 ELSE Moved
    BY <1>5
  <2> QED
    BY <1>1, <1>4, <2>1 DEF InStep, TransferIsClosed, Moved, Multi, OpenFor
<1>10. Come' /\ Gone' /\ Stored'
  <2>1. Come'
    BY <1>1, <1>6 DEF Come, Moved
  <2>2. Gone'
    BY <1>1 DEF Gone
  <2>3. Stored'
    BY <1>1 DEF Stored, Succeeded
  <2> QED
    BY <2>1, <2>2, <2>3
<1>11. ReadIsRight'
  <2>1. ASSUME at' = "done", ok
        PROVE  buff' = [i \in 1 .. req.count |-> medium[req.lba + i - 1]]
    <3>1. Len(buff') = req.count
      BY <1>4, <1>5, <2>1
    <3> QED
      BY <1>5, <1>6, <3>1
  <2> QED
    BY <1>1, <1>3, <1>4, <2>1 DEF ReadIsRight, Succeeded, Served
<1> QED
  BY <1>7, <1>8, <1>9, <1>10, <1>11

LEMMA WriteBlockInv == ASSUME StorageInv, WriteBlock PROVE StorageInv'
<1> USE DEF StorageInv
<1> DEFINE here == req.lba + Moved
           block == New(req.n, Moved + 1)
<1>1. /\ at = "block" /\ req.op = "WRITE" /\ card.next = here
      /\ UNCHANGED <<blockCard, haveCard, capacity, told, ramdisk, req, resets>>
  BY AtBlock DEF WriteBlock, mainVars
<1>2. /\ haveCard /\ req.lba \in Nat /\ req.count \in 1 .. MaxSectors /\ req.count \in Nat
      /\ req.n \in 1 .. MaxRequests /\ req.n \in Nat
      /\ Moved \in Nat /\ Moved < req.count /\ here \in CardSector
      /\ buff \in Seq(Value) /\ Len(buff) = Moved /\ medium \in [CardSector -> Value]
      /\ req.lba + req.count =< CardSectors
      /\ card = [does |-> OpenFor, next |-> here] /\ here \in 0 .. CardSectors
      /\ card \in [does : {"ready", "read", "write"}, next : 0 .. CardSectors]
  BY <1>1, AtBlock, Sizes DEF TypeOK, Moved, OnTheMedium, Driving, CardSector
<1>3. PICK ok \in BOOLEAN :
        /\ buff' = IF ok THEN Append(buff, block) ELSE buff
        /\ medium' = IF ok THEN [medium EXCEPT ![here] = block] ELSE medium
        /\ status' = IF ok THEN "ok" ELSE "error"
        /\ card' \in [does : {"ready", "read", "write"}, next : 0 .. CardSectors]
        /\ at' \in {"block", "stop", "done"} /\ hung' \in BOOLEAN
        /\ at' = "block" => /\ ok /\ Moved + 1 < req.count
                            /\ card' = [does |-> OpenFor, next |-> req.lba + (Moved + 1)]
        /\ at' = "stop" => /\ Multi /\ card'.does = OpenFor
                           /\ ok => Moved + 1 = req.count
        /\ at' = "done" => /\ ok => Moved + 1 = req.count
                           /\ hung' \/ card'.does = "ready"
  <2>1. CASE /\ buff' = Append(buff, block) /\ medium' = [medium EXCEPT ![here] = block]
             /\ AfterBlock(TRUE) /\ hung' = hung
    <3>1. hung \in BOOLEAN
      BY DEF TypeOK
    <3>2. at' = "done" => Moved + 1 = req.count
      <4>1. at' = "done" => req.count = 1 /\ Moved = 0
        BY <1>1, <2>1, AfterBlockType
      <4> QED
        BY <4>1
    <3> QED
      BY <1>1, <2>1, <3>1, <3>2, AfterBlockType
  <2>2. CASE buff' = buff /\ medium' = medium /\ AfterBlock(FALSE) /\ hung' = hung
    <3>1. hung \in BOOLEAN
      BY DEF TypeOK
    <3> QED
      BY <1>1, <2>2, <3>1, AfterBlockType
  <2>3. CASE /\ buff' = buff /\ medium' = medium /\ card' = card /\ status' = "error"
             /\ hung' = TRUE /\ at' = IF Multi THEN "stop" ELSE "done"
    BY <1>2, <2>3
  <2> QED
    BY <1>1, <2>1, <2>2, <2>3 DEF WriteBlock, InTime, TimedOut
<1>4. /\ buff' \in Seq(Value) /\ Len(buff') = (IF ok THEN Moved + 1 ELSE Moved)
      /\ Len(buff') \in Nat /\ Len(buff') =< req.count /\ block \in Value
  <2>1. block \in Value
    <3>1. Moved + 1 \in 1 .. MaxSectors
      BY <1>2, Sizes
    <3> QED
      BY <1>2, <3>1, NewIsAValue
  <2> HIDE DEF block
  <2> QED
    BY <1>2, <1>3, <2>1
<1>5. \A s \in CardSector : medium'[s] = IF ok /\ s = here THEN block ELSE medium[s]
  <2> HIDE DEF here, block
  <2> QED
    BY <1>2, <1>3
<1>6. block[1] = req.n /\ block[2] = Moved + 1
  BY DEF New
<1>7. TypeOK'
  <2>1. Len(buff') =< MaxSectors
    BY <1>2, <1>4, Sizes
  <2>2. medium' \in [CardSector -> Value]
    <3> HIDE DEF here, block
    <3> QED
      BY <1>2, <1>3, <1>4
  <2>3. {blockCard', haveCard', hung'} \subseteq BOOLEAN
    BY <1>1, <1>3 DEF TypeOK
  <2>4. status' \in {"ok", "error"}
    BY <1>3
  <2>5. /\ capacity' \in {0, CardSectors, RamSectors} /\ told' \in {"nothing", "card", "ramdisk"}
        /\ ramdisk' \in [RamSector -> Value] /\ resets' \in 0 .. MaxResets
        /\ req' \in [n : 0 .. MaxRequests, op : {"READ", "WRITE"}, lba : Nat, count : Nat]
    BY <1>1 DEF TypeOK
  <2>6. at' \in {"boot", "idle", "select", "command", "block", "stop", "done"}
    BY <1>3
  <2>7. card' \in [does : {"ready", "read", "write"}, next : 0 .. CardSectors]
    BY <1>3
  <2> QED
    BY <1>4, <2>1, <2>2, <2>3, <2>4, <2>5, <2>6, <2>7 DEF TypeOK
<1>8. OnTheMedium'
  BY <1>1, <1>3 DEF OnTheMedium, Driving, InRange
<1>9. InStep' /\ TransferIsClosed'
  <2>1. Len(buff') = IF ok THEN Moved + 1 ELSE Moved
    BY <1>4
  <2>2. req' = req /\ haveCard' = haveCard
    BY <1>1
  <2> HIDE DEF here, block
  <2> QED
    BY <1>3, <2>1, <2>2 DEF InStep, TransferIsClosed, Moved, Multi, OpenFor
<1>10. Come' /\ ReadIsRight'
  BY <1>1 DEF Come, ReadIsRight, Succeeded
<1>11. \A i \in 1 .. req.count : medium'[req.lba + i - 1] = New(req.n, i) <=> i =< Len(buff')
  <2> SUFFICES ASSUME NEW i \in 1 .. req.count
               PROVE  medium'[req.lba + i - 1] = New(req.n, i) <=> i =< Len(buff')
    OBVIOUS
  <2>1. req.lba + i - 1 \in CardSector /\ (req.lba + i - 1 = here <=> i = Moved + 1)
    <3>1. /\ i \in Nat /\ i >= 1 /\ i =< req.count /\ req.lba \in Nat /\ Moved \in Nat
          /\ req.lba + req.count =< CardSectors /\ CardSectors \in Nat /\ req.count \in Nat
      BY <1>2, Sizes
    <3>2. req.lba + i - 1 \in 0 .. CardSectors - 1
      BY <3>1
    <3>3. req.lba + i - 1 = req.lba + Moved <=> i = Moved + 1
      BY <3>1
    <3> QED
      BY <3>2, <3>3 DEF CardSector
  <2>2. medium[req.lba + i - 1] = New(req.n, i) <=> i =< Moved
    BY <1>1 DEF Gone, Driving
  <2>3. CASE ok /\ i = Moved + 1
    BY <1>2, <1>4, <1>5, <2>1, <2>3
  <2>4. CASE ~(ok /\ i = Moved + 1)
    <3>1. medium'[req.lba + i - 1] = medium[req.lba + i - 1]
      BY <1>5, <2>1, <2>4
    <3>2. i =< Len(buff') <=> i =< Moved
      BY <1>2, <1>4, <2>4
    <3> QED
      BY <2>2, <3>1, <3>2
  <2> QED
    BY <2>3, <2>4
<1>12. Gone'
  <2>1. \A s \in CardSector : medium[s][1] =< req.n
    BY DEF Gone
  <2>2. \A s \in CardSector : medium[s][1] = req.n =>
          s = req.lba + medium[s][2] - 1 /\ medium[s][2] =< req.count
    BY <1>2 DEF Gone
  <2>3. here = req.lba + (Moved + 1) - 1 /\ Moved + 1 =< req.count
    BY <1>2
  <2> HIDE DEF here, block
  <2>4. \A s \in CardSector : medium'[s][1] =< req.n
    BY <1>2, <1>5, <1>6, <2>1
  <2>5. \A s \in CardSector : medium'[s][1] = req.n =>
          s = req.lba + medium'[s][2] - 1 /\ medium'[s][2] =< req.count
    BY <1>5, <1>6, <2>2, <2>3
  <2> QED
    BY <1>1, <1>11, <2>4, <2>5 DEF Gone, Moved
<1>13. Stored'
  <2>1. ASSUME at' = "done", ok, NEW i \in 1 .. req.count
        PROVE  medium'[req.lba + i - 1] = New(req.n, i)
    <3>1. i =< Len(buff')
      BY <1>2, <1>3, <1>4, <2>1
    <3> QED
      BY <1>11, <3>1
  <2>2. status' = "ok" => ok
    BY <1>3
  <2> QED
    BY <1>1, <1>2, <2>1, <2>2 DEF Stored, Succeeded, Served
<1> QED
  BY <1>7, <1>8, <1>9, <1>10, <1>12, <1>13

LEMMA Stutters == ASSUME StorageInv, UNCHANGED vars PROVE StorageInv'
<1> USE DEF StorageInv
<1>1. UNCHANGED <<blockCard, medium, card, haveCard, capacity, told, ramdisk, at, req, buff,
                  status, hung, resets>>
  BY DEF vars, cardVars
<1>2. TypeOK'
  BY <1>1 DEF TypeOK
<1>3. OnTheMedium' /\ InStep' /\ TransferIsClosed'
  BY <1>1 DEF OnTheMedium, InStep, TransferIsClosed, Driving, Multi, Moved, OpenFor, InRange
<1>4. Come' /\ Gone' /\ ReadIsRight' /\ Stored'
  BY <1>1 DEF Come, Gone, ReadIsRight, Stored, Succeeded, Served, Driving, Moved, InRange
<1> QED
  BY <1>2, <1>3, <1>4

LEMMA NextInv == StorageInv /\ [Next]_vars => StorageInv'
<1> SUFFICES ASSUME StorageInv, [Next]_vars PROVE StorageInv'
  OBVIOUS
<1>1. ASSUME NEW op \in {"READ", "WRITE"}, NEW lba \in 0 .. CardSectors + RamSectors,
             NEW count \in 1 .. MaxSectors, Request(op, lba, count)
      PROVE  StorageInv'
  BY <1>1, RequestInv
<1> QED
  BY <1>1, StorageInitInv, InfoInv, MasterResetInv, RepliedInv, SelectInv, CommandInv,
     ReadBlockInv, WriteBlockInv, StopInv, Stutters DEF Next

\* What Gone says of a write that is over.
LEMMA PrefixOfGone == StorageInv => WriteIsAPrefix
<1> SUFFICES ASSUME StorageInv PROVE WriteIsAPrefix
  OBVIOUS
<1>1. ASSUME at = "done", req.op = "WRITE", haveCard, InRange(req.lba, req.count),
             NEW i \in 2 .. req.count, Served(i) = New(req.n, i)
      PROVE  Served(i - 1) = New(req.n, i - 1)
  <2>1. req.count \in Nat /\ Moved \in Nat
    BY DEF StorageInv, TypeOK, Moved
  <2>2. i \in 1 .. req.count /\ i - 1 \in 1 .. req.count
    BY <2>1
  <2>3. \A j \in 1 .. req.count : Served(j) = New(req.n, j) <=> j =< Moved
    BY <1>1 DEF StorageInv, Gone, Served
  <2>4. i =< Moved
    BY <1>1, <2>2, <2>3
  <2>5. i - 1 =< Moved
    BY <2>1, <2>4
  <2> QED
    BY <2>2, <2>3, <2>5
<1>2. \A s \in CardSector : medium[s][1] = req.n /\ req.n > 0 =>
        s = req.lba + medium[s][2] - 1 /\ medium[s][2] =< req.count
  BY DEF StorageInv, Gone
<1>3. Stored
  BY DEF StorageInv
<1> QED
  BY <1>1, <1>2, <1>3 DEF WriteIsAPrefix, Stored

-----------------------------------------------------------------------------

(***************************************************************************)
(* No request moves more blocks than the buffer holds, and the card's next *)
(* sector stays on the card (do_request, disk_read, disk_write).           *)
(***************************************************************************)
THEOREM TypeCorrect == Spec => []TypeOK
<1>1. StorageInv => TypeOK
  BY DEF StorageInv
<1> QED
  BY <1>1, InitInv, NextInv, PTL DEF Spec

(***************************************************************************)
(* A read that succeeds returns the sectors asked for, whatever requests   *)
(* failed and however often the master was reset before it.                *)
(***************************************************************************)
THEOREM ReadsAreRight == Spec => []ReadIsRight
<1>1. StorageInv => ReadIsRight
  BY DEF StorageInv
<1> QED
  BY <1>1, InitInv, NextInv, PTL DEF Spec

(***************************************************************************)
(* A write stores a beginning of its data where it belongs, nothing        *)
(* elsewhere, and all of it if it succeeds.                                *)
(***************************************************************************)
THEOREM WritesAreInOrder == Spec => []WriteIsAPrefix
BY PrefixOfGone, InitInv, NextInv, PTL DEF Spec

(***************************************************************************)
(* No transfer is left open on the card by a request that is over, failed  *)
(* or not, unless the card kept a wait waiting too long.                   *)
(***************************************************************************)
THEOREM TransfersAreClosed == Spec => []TransferIsClosed
<1>1. StorageInv => TransferIsClosed
  BY DEF StorageInv
<1> QED
  BY <1>1, InitInv, NextInv, PTL DEF Spec

=============================================================================
