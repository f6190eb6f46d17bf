---------------------------- MODULE MCSpiDriver ----------------------------
(* Instances of SpiDriver for TLC.  Neither the processes nor the blocks   *)
(* are told apart, so the safety run uses both symmetries.                 *)
EXTENDS SpiDriver, TLC

Symmetry == Permutations(Procs) \cup Permutations(Blocks)

=============================================================================
