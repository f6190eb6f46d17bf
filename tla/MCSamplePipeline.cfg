CONSTANTS
  Clients = {c1, c2}
  SemMax = 2
  MaxSamples = 3
SPECIFICATION FairSpec
INVARIANT TypeOK
INVARIANT MutexAccounting
INVARIANT ExitLeavesMutexFree
INVARIANT LinesAreFresh
INVARIANT LaterClientsSeeNoOlder
PROPERTY ImplementsChannel
PROPERTY EverySampleReachesTheFile
\* Both processes stop at the bound, or when killed.
CHECK_DEADLOCK FALSE
