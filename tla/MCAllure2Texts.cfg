SPECIFICATION Spec
CONSTANTS
  t1 = t1
  t2 = t2
  n1 = n1
  p1 = p1
  NoText = NoText
  GTestNames <- MCGTestNames
  Names <- MCNames
  Labels = {"FEATURE"}
  Patterns <- MCPatterns
  Slotted <- MCPatterns
  MaxSteps = 0
  MaxItems = 0
  MaxDepth = 0
  MaxTime = 0
PROPERTIES
  CaseNameIsOwn
