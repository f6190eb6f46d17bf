--------------------------- MODULE MCProcessTree ---------------------------
(***************************************************************************)
(* An instance of ProcessTree for TLC; the constants are in the .cfg.      *)
(***************************************************************************)
EXTENDS ProcessTree
=============================================================================
