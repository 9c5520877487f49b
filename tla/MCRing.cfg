SPECIFICATION FairSpec
CONSTANTS
  f1 = f1
  f2 = f2
  bad = bad
  None = None
  Torn = Torn
  Frames = {f1, f2, bad}
  Undecodable = {bad}
  Cap = 4
  Modulus = 8
INVARIANTS
  TypeOK
  PayloadStable
PROPERTIES
  IsBoundedQueue
  RoomAgain
