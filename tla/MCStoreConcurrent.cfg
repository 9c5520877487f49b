SPECIFICATION FairSpec
CONSTANTS
  n1 = n1
  n2 = n2
  p1 = p1
  p2 = p2
  good = good
  better = better
  poisoned = poisoned
  unlinted = unlinted
  Absent = Absent
  Torn = Torn
  Names = {n1}
  Procs = {p1, p2}
  Contents = {good}
  Poisoned = {}
  Unlinted = {}
  Snapshot <- TheSnapshot
  Ops = {"create", "edit", "activate", "pin", "archive", "lifecycle"}
  StaleAfter = 1
  ArchiveAfter = 2
  MaxDay = 1
  MaxCalls = 3
  MaxCrashes = 1
  MaxIOErrors = 1
  MaxBadReads = 1
CHECK_DEADLOCK FALSE
INVARIANTS
  CountersExact
PROPERTIES
  CallReturns
