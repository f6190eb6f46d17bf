CONSTANTS
  Contents <- MCContents
  MaxLines = 4
SPECIFICATION ParserSpec
INVARIANT ParserTypeOK
INVARIANT ParsedAsWritten
INVARIANT NeverMoreThanWritten
INVARIANT FittingLinesDoNotFault
\* A reader may have exited or faulted.
CHECK_DEADLOCK FALSE
