SPECIFICATION FairSpec
CONSTANTS
  MaxCalls = 2
  MaxFrags = 2
  MaxReply = 3
  Limit = 2
  OutCap = 2
  InCap = 2
  MaxJunk = 1
CHECK_DEADLOCK FALSE
INVARIANTS
  TypeOK
  AnswerIsWhole
  RefusedNeverSucceeds
  UnfinishedOnlyIfNotSent

  
