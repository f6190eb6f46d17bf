CONSTANTS
  Conns = {c1, c2, c3}
  MaxConn = 2
  NumFds = 2
  Word = 8
SPECIFICATION Spec
SYMMETRY Symmetry
INVARIANT TypeOK
INVARIANT CountIsExact
INVARIANT ThreadsAreLimited
INVARIANT ThreadOwnsConnection
INVARIANT NoConnectionLeaks
\* main waits for ever once no peer is left.
CHECK_DEADLOCK FALSE
