---------------------------- MODULE MCConfigReload ----------------------------
(* Instances of ConfigReload for TLC; the bounds are in the .cfg files.    *)
EXTENDS ConfigReload
=============================================================================
