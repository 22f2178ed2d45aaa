SPECIFICATION Spec
CONSTANTS
  Depth <- CallAndReturn
  BreakSets <- Breaks
  MaxSessions = 1
  MaxEvals = 0
PROPERTIES
  ContinueResumes
CHECK_DEADLOCK FALSE
