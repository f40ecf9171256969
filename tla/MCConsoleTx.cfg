SPECIFICATION FairSpec
CONSTANTS
  RingBytes = 4
  FifoBytes = 2
  AfbootPuts = 1
  ReportPuts = 2
  MaxMessages = 2
  MessageBytes = 2
  SlowMaster = FALSE
  IrqPrints = FALSE
INVARIANTS TypeOK HeadOwned NothingLost
PROPERTIES KfifoDrains PrintkReturns
