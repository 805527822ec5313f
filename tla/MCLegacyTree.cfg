SPECIFICATION Spec
CONSTANTS
  n1 = n1
  p1 = p1
  p2 = p2
  Names <- MCNames
  Patterns <- MCPatterns
  Slotted <- MCSlotted
  Labels = {}
  Formats = {"DEFAULT"}
  StepTypes = {"ACTION_STEP"}
  MaxSuites = 2
  MaxCases = 1
  MaxSteps = 2
  MaxDepth = 2
  MaxTime = 1
INVARIANTS
  TypeOK
  SingleRunningPath
  HandlersFindTheirTarget
  RunningStepsBalance
  StepsCloseInStartOrder
  VerdictsPropagate
  OnlyFinishedIsPublished
  IntervalsNest
PROPERTIES
  RunPublishesEverySuite
  FinishedIsFrozen
  RefinesLog
