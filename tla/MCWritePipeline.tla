-------------------------- MODULE MCWritePipeline --------------------------
(* The write pipeline on small instances; see the .cfg files.              *)
EXTENDS WritePipeline
=============================================================================
