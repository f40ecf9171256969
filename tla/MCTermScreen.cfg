SPECIFICATION Spec
CONSTANTS
  NRows = 3
  NCols = 2
  FlashFrames = 2
  Param <- Params
  Repertoires <- Both
INVARIANTS TypeOK WrapPending FlashLeavesNoTrace
PROPERTIES TextStaysInRegion
