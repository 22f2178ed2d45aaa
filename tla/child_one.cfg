SPECIFICATION Spec
CONSTANTS
  A = A
  B = B
  Root = Root
  NoChild = NoChild
  Children = {A}
  Parent <- OneChild
  Waiters = {Root}
  Catchers = {}
  MaxPosts <- Two
INVARIANTS
  TypeOK
  ChildWakeupComing
  ParentWakeupComing
  DrainedBeforeExit
PROPERTIES
  ErrorSettledByDone
  DestroyReturns
  RecvReturnsAtExit
  UpMailbox
  DownMailbox
CHECK_DEADLOCK FALSE
