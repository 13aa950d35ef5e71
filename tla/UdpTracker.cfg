SPECIFICATION FairSpec
CONSTANTS
  MaxAttempts = 3
  Ids = {i1, i2}
INVARIANTS
  NoExchangeOnceAborted
  AnswerIsForThisAnnounce
  OnlyGarbageIsMisread
  AnnouncesWithIssuedId
  AttemptsBounded
PROPERTIES ImplementsScopedCalls Settles
\* an announce that is done does nothing more
CHECK_DEADLOCK FALSE
