CONSTANTS
  Source <- Negative
  HotCount = 32
  NumRegs = 40

SPECIFICATION Spec

INVARIANT
  ResultIsMeaning
