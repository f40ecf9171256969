SPECIFICATION KernelSpec
CONSTANTS
  Caller = {p, q}
  SeqMod = 4
  MaxChunks = 2
  Fields = {"lba", "addr"}
  Worlds <- BothWorlds
INVARIANTS TypeOK TheAnswerIsMine ExecutedOnce DescriptorIsWhole
PROPERTIES EveryRequestEnds
