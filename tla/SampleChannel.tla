--------------------------- MODULE SampleChannel ---------------------------
(***************************************************************************)
(* What the shared segment and its semaphores promise to the two processes *)
(* that use them, with no process, semaphore or file in sight.             *)
(*                                                                         *)
(* The temperature cell always holds the newest sample.  A consumer may    *)
(* read it at most once per sample stored, and a read returns the newest   *)
(* sample.  Samples are named by their number, 1 for the first; 0 names    *)
(* whatever the segment held before this run of the server.                *)
(***************************************************************************)
EXTENDS Naturals

VARIABLES
  latest,   (* number of the sample the cell holds  *)
  reads,    (* how many times the cell was read     *)
  got       (* number of the sample last read       *)

chanVars == <<latest, reads, got>>

Init == latest = 0 /\ reads = 0 /\ got = 0

Put == latest' = latest + 1 /\ UNCHANGED <<reads, got>>

Get ==
  /\ reads < latest
  /\ reads' = reads + 1
  /\ got' = latest
  /\ UNCHANGED latest

Next == Put \/ Get

Spec == Init /\ [][Next]_chanVars

=============================================================================
