SPECIFICATION Spec
CONSTANTS
  CardSectors = 4
  RamSectors = 2
  MaxSectors = 3
  BlockSize = 2
  AddrMod = 16
  MaxRequests = 3
  MaxResets = 1
INVARIANTS TypeOK ReadIsRight WriteIsAPrefix TransferIsClosed
CHECK_DEADLOCK FALSE
