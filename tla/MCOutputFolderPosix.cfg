SPECIFICATION Spec
CONSTANTS
  l1 = l1
  l2 = l2
  a1 = a1
  Programs <- MCPrograms
  Legacy <- MCLegacy
  Depth = 2
  Settings = {"posix"}
  Base = 2
  UUIDs <- MCUUIDs
  MaxFaults = 0
CHECK_DEADLOCK FALSE
INVARIANTS
  ReportsAreInOutputFolder
