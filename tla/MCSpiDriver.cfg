CONSTANTS
  Procs = {p1, p2}
  Blocks = {b1, b2, b3, b4}
  NULL = NULL
SPECIFICATION Spec
SYMMETRY Symmetry
INVARIANT TypeOK
INVARIANT OneUserAtATime
INVARIANT HeapSafe
INVARIANT NoLeak
INVARIANT ChipSelectFollowsTransfer
