SPECIFICATION Spec
SYMMETRY Interchangeable
CONSTANTS
  c1 = c1
  c2 = c2
  c3 = c3
  plain = plain
  timed = timed
  Corr = {c1, c2, c3}
  Hdrs = {timed}
  Timed = {timed}
  OwnHdr <- AllTimed
  MaxInFlight = 2
  MaxBody = 2
  OutCap = 1
  MaxFrags = 2
  Faults = 0
  HandlerResults <- ShortResult
  HasHandler = TRUE
INVARIANTS
  WholeRequest
