SPECIFICATION Core1Spec
CONSTANTS
  Byte = {x, y}
  TxCapacity = 2
  FanSize = 4
  BufSize = 2
  LinkMax = 2
  CdcSize = 1
INVARIANTS TypeOK EachGetsItsOwn FirstConsoleGetsAll
PROPERTIES UnpluggedUsbCannotStopHdmi MissingMasterCannotStopUsb
