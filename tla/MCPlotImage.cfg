CONSTANTS
  Threads = {t1, t2}
  MaxLines = 3
  Picture <- MCPicture
  FileBuf = 4
SPECIFICATION Spec
SYMMETRY Symmetry
INVARIANT TypeOK
INVARIANT PictureIsWholeAndFresh
\* The server may be dead, and data.dat complete.
CHECK_DEADLOCK FALSE
