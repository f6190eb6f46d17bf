--------------------------- MODULE MCMeasurement ---------------------------
EXTENDS Measurement

(* What the source returns, and readings of 6 and 30 degrees.              *)
MCReadings == {0, 1, 7389440, 8643328, 16777215}

MCLeftovers == {[num |-> 7, den |-> 1], [num |-> -5, den |-> 2]}
=============================================================================
