SPECIFICATION FairSpec
CONSTANTS
  n1 = n1
  p1 = p1
  Names <- MCNames
  Patterns <- MCPatterns
  Slotted <- MCPatterns
  Labels = {}
  Formats = {"DEFAULT"}
  StepTypes = {"ACTION_STEP"}
  MaxSuites = 1
  MaxCases = 2
  MaxSteps = 2
  MaxDepth = 2
  MaxTime = 1
INVARIANTS
  IntervalsNest
PROPERTIES
  StartedCasesGetVerdicts
