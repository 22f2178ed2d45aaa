SPECIFICATION Spec
CONSTANTS
  A = A
  B = B
  Root = Root
  NoChild = NoChild
  Children = {A, B}
  Parent <- Chain
  Waiters = {Root, A}
  Catchers = {}
  MaxPosts <- OneForA
INVARIANTS
  HandleOutlivesUse
  DestroyedOnce
PROPERTIES
  DestroyReturnsOrBlocked
CHECK_DEADLOCK FALSE
