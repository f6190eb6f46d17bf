CONSTANTS
  Procs = {p1}
  Blocks = {b1, b2}
  NULL = NULL
SPECIFICATION FairSpec
PROPERTY ReadCompletes
