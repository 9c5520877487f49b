SPECIFICATION Spec
CONSTANTS
  n1 = n1
  n2 = n2
  p1 = p1
  p2 = p2
  good = good
  better = better
  poisoned = poisoned
  unlinted = unlinted
  Absent = Absent
  Torn = Torn
  Names = {n1, n2}
  Procs = {p1}
  Contents = {good, better, poisoned, unlinted}
  Poisoned = {poisoned}
  Unlinted = {unlinted}
  Snapshot <- TheSnapshot
  Ops = {"create", "edit", "patch", "activate", "view", "pin", "archive", "lifecycle", "rollback"}
  StaleAfter = 1
  ArchiveAfter = 2
  MaxDay = 2
  MaxCalls = 4
  MaxCrashes = 1
  MaxIOErrors = 1
  MaxBadReads = 0
CHECK_DEADLOCK FALSE
INVARIANTS
  TypeOK
  CountersExact
  ArchivedIsRecorded
  RollbackExact
PROPERTIES
  PinnedNotArchived
  ArchiveKept
  
