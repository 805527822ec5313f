SPECIFICATION BothSpec
CONSTANTS
  n1 = n1
  n2 = n2
  p1 = p1
  NoText = NoText
  Names <- MCNames
  GTestNames <- MCGTestNames
  Texts <- MCTexts
  Patterns <- MCPatterns
  Slotted <- MCPatterns
  Labels = {}
  Formats = {"DEFAULT"}
  StepTypes = {"ACTION_STEP"}
  MaxSuites = 1
  MaxCases = 1
  MaxSteps = 3
  MaxDepth = 2
  MaxTime = 1
INVARIANTS
  StepsAgree
  CaseAndResultAgree
  CaseNamesAgree
  LegacyReportIsAskedFor
  StepsCloseInStartOrder
