------------------------------ MODULE MCLogger ------------------------------
(* An instance of Logger for TLC: two workers and the main thread.         *)
EXTENDS Logger
=============================================================================
