SPECIFICATION Spec
CONSTANTS
  Keyboard = {k1, k2}
  ActionQueueSize = 5
  KeyqSize = 4
  MaxKeys = 2
  RxSize = 2
  Budgets <- Cases
INVARIANTS TypeOK KeysAsPressed NothingEaten SentIsGot
