------------------------- MODULE MCConnectionServer -------------------------
(* Instances of ConnectionServer for TLC.  The connections are not told    *)
(* apart, so the safety runs use their symmetry.                           *)
EXTENDS ConnectionServer, TLC

Symmetry == Permutations(Conns)

=============================================================================
