SPECIFICATION Spec
CONSTANTS
  n1 = n1
  n2 = n2
  p1 = p1
  p2 = p2
  good = good
  better = better
  poisoned = poisoned
  unlinted = unlinted
  Absent = Absent
  Torn = Torn
  Names = {n1}
  Procs = {p1, p2}
  Contents = {good}
  Poisoned = {}
  Unlinted = {}
  Snapshot <- UnusedSnapshot
  Ops = {"activate", "rollback"}
  StaleAfter = 1
  ArchiveAfter = 2
  MaxDay = 0
  MaxCalls = 3
  MaxCrashes = 0
  MaxIOErrors = 0
  MaxBadReads = 0
CHECK_DEADLOCK FALSE
INVARIANTS
  UpdatesKept
