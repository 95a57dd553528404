------------------------------ MODULE MCServer ------------------------------
(* Instances of Server for TLC: the constants are plain numbers and sets,  *)
(* given in the cfg of each run. Sessions are numbered in accept order, so *)
(* they are not symmetric.                                                 *)
EXTENDS ServerInvariant
=============================================================================
