SPECIFICATION Spec
CONSTANTS
  P = P
  C = C
  D = D
  Threads = {P, C, D}
  Producer = P
  Consumer = C
  Capacities = {1, 2, 4}
  MaxPuts = 7
INVARIANTS
  LengthIsPromise
  RecvWakeupComing
  OneLateSend
  WholeSnapshot
PROPERTIES
  QueueInOrder
CHECK_DEADLOCK FALSE
