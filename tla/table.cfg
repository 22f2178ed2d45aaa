SPECIFICATION Spec
CONSTANTS
  x = x
  x2 = x2
  y = y
  Ints <- IntsSmall
  Strings = {x, x2, y}
  Content <- Contents3
  Home <- HomeLow
  Vals = {u, w}
  Absent = Absent
  Empty = Empty
  Tombstone = Tombstone
  NoOrder = NoOrder
  ArrayLimit = 6
  BigArray = 1024
  Word = 16
INVARIANTS
  TypeOK
  CountIsLength
  RoomForNewKey
  ListedIsLive
  GetIsMap
  InlineGetIsMap
SYMMETRY TableSymmetry
CHECK_DEADLOCK FALSE
