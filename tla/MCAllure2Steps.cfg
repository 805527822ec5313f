SPECIFICATION Spec
CONSTANTS
  t1 = t1
  NoText = NoText
  GTestNames <- MCGTestNames
  Names = {}
  Labels = {}
  Patterns = {}
  Slotted = {}
  MaxSteps = 2
  MaxItems = 2
  MaxDepth = 2
  MaxTime = 1
INVARIANTS
  TypeOK
  ActiveStepIsLive
  ResultTimesNest
  ResultVerdictsAgree
PROPERTIES
  StepsReportedOnce
  NothingAddedIsLost
