CONSTANTS
  Conns = {c1, c2}
  MaxConn = 2
  NumFds = 4
  Word = 8
SPECIFICATION Spec
INVARIANT OneThreadPerClient
CHECK_DEADLOCK FALSE
