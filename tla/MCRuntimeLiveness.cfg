SPECIFICATION FairSpec
CONSTANTS
  c1 = c1
  c2 = c2
  c3 = c3
  plain = plain
  timed = timed
  Corr = {c1, c2}
  Hdrs = {plain, timed}
  Timed = {timed}
  OwnHdr <- OneTimed
  MaxInFlight = 1
  MaxBody = 2
  OutCap = 1
  MaxFrags = 2
  Faults = 0
  HandlerResults <- ShortResult
  HasHandler = TRUE
PROPERTIES
  RequestAnswered
  ShutdownTerminates
  CancelWins
