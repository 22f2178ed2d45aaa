SPECIFICATION Spec
CONSTANTS
  A = A
  B = B
  Children = {A, B}
  Src <- ABA
  MaxCalls = 2
  MaxPosts = 2
INVARIANTS
  TypeOK
  IndexReady
  PointersOfThisCall
PROPERTIES
  SelectGivesIndex
  TimedReturns
  NotifiedReturns
CHECK_DEADLOCK FALSE
