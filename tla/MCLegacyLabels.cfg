SPECIFICATION Spec
CONSTANTS
  n1 = n1
  n2 = n2
  epic = epic
  custom = custom
  p1 = p1
  Names <- MCNames
  Labels <- MCLabels
  Patterns <- MCPatterns
  Slotted <- MCPatterns
  Formats = {"DEFAULT", "ALLURE_FOR_JENKINS"}
  StepTypes = {"ACTION_STEP"}
  MaxSuites = 1
  MaxCases = 1
  MaxSteps = 0
  MaxDepth = 1
  MaxTime = 0
INVARIANTS
  LabelsUnique
PROPERTIES
  RefinesLog
