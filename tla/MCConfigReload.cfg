CONSTANTS
  PtrBytes = 4
  PipeMax = 2
  MaxVersion = 3
SPECIFICATION FairSpec
INVARIANT TypeOK
INVARIANT IdleMeansSent
PROPERTY RequestApplied
\* Both processes may have ended, with nothing left to edit.
CHECK_DEADLOCK FALSE
