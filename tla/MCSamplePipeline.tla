-------------------------- MODULE MCSamplePipeline --------------------------
(* Instances of SamplePipeline for TLC; the bounds are in the .cfg files.  *)
EXTENDS SamplePipeline
=============================================================================
