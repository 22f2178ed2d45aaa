SPECIFICATION Spec
CONSTANTS
  A = A
  B = B
  Children = {A, B}
  Src <- AB
  MaxCalls = 2
  MaxPosts = 1
PROPERTIES
  BlocksUntilMessage
CHECK_DEADLOCK FALSE
