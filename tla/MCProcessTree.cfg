CONSTANT MaxStarts = 2
SPECIFICATION FairSpec
INVARIANT TypeOK
INVARIANT SegmentHasOneSet
PROPERTY FailedStartEnds
\* All processes may be dead, with no start left.
CHECK_DEADLOCK FALSE
