SPECIFICATION FairSpec
CONSTANTS
  Byte = {x, y}
  RingBytes = 4
INVARIANTS TypeOK NoSlotConflict PromisedIsVisible RingInv
PROPERTIES ImplementsFifo FullRingDrains
