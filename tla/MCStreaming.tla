---------------------------- MODULE MCStreaming ----------------------------
(* Instances of Streaming for TLC; the cfg of each run gives the sizes and *)
(* the faults.                                                             *)
EXTENDS StreamingInvariant
=============================================================================
