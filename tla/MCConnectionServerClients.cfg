CONSTANTS
  Conns = {c1, c2}
  MaxConn = 2
  NumFds = 4
  Word = 8
SPECIFICATION FairSpec
INVARIANT ThreadOwnsConnection
PROPERTY RequestsEnd
CHECK_DEADLOCK FALSE
