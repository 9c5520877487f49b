SPECIFICATION Spec
SYMMETRY Interchangeable
CONSTANTS
  c1 = c1
  c2 = c2
  c3 = c3
  plain = plain
  timed = timed
  Corr = {c1, c2}
  Hdrs = {plain, timed}
  Timed = {timed}
  OwnHdr <- AllTimed
  MaxInFlight = 1
  MaxBody = 2
  OutCap = 1
  MaxFrags = 3
  Faults = 1
  HandlerResults <- AllResults
  HasHandler = TRUE
INVARIANTS
  TypeOK
  SendNeverBlocks
  TablesBounded
  WholeOrRefused
  SecondReplyOnlyAfterRefusal
  ShutdownJoins
  NoSplice
