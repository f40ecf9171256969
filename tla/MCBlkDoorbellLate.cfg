SPECIFICATION Spec
CONSTANTS
  Caller = {p, q}
  SeqMod = 4
  MaxChunks = 1
  Fields = {"op", "lba", "count", "addr"}
  Worlds <- OnlyImpatient
INVARIANTS BufferIsLent
