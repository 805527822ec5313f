SPECIFICATION FairSpec
CONSTANTS
  l1 = l1
  l2 = l2
  a1 = a1
  Programs <- MCPrograms
  Legacy <- MCLegacy
  Depth = 2
  Settings = {"windows", "posix", "posixAbsolute"}
  Base = 2
  UUIDs <- MCUUIDs
  MaxFaults = 2
CHECK_DEADLOCK FALSE
INVARIANTS
  TypeOK
  FolderIsThereWhenOpened
  OnlyFailedCallsLoseReports
PROPERTIES
  FinishedReportsStay
  SomeReportIsSaved
