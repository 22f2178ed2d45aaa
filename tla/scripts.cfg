CONSTANTS
  Source <- Scripts
  HotCount = 3
  NumRegs = 40

SPECIFICATION Spec

INVARIANTS
  ResultIsMeaning
  UncheckedAreInts

PROPERTY
  Ends
