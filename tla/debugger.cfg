SPECIFICATION Spec
CONSTANTS
  Depth <- CallAndReturn
  BreakSets <- Breaks
  MaxSessions = 2
  MaxEvals = 2
INVARIANTS
  StoppedIsTrue
PROPERTIES
  StepIsTaken
  EvaluateAnswers
CHECK_DEADLOCK FALSE
