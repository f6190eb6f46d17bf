CONSTANT Users = {u1, u2}
SPECIFICATION Spec
INVARIANT TypeOK
INVARIANT CleanUnload
INVARIANT NoDoubleRelease
INVARIANT OpenFileKeepsDevice
\* After an oops nothing more happens to the module.
CHECK_DEADLOCK FALSE
