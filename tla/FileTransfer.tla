---------------------------- MODULE FileTransfer ----------------------------
(***************************************************************************)
(* What a GET promises the client: a size is announced, the bytes of the   *)
(* file arrive in order and never beyond that size, and the client reports *)
(* success only with all of them. Everything else ends in failure.         *)
(***************************************************************************)
EXTENDS Integers

VARIABLES announced,   \* the size in the header, NoSize before there is one
          delivered,   \* bytes of the file the client holds, from its start
          outcome      \* "none", "success" or "failure"

NoSize == -1

transferVars == <<announced, delivered, outcome>>

Init ==
    /\ announced = NoSize
    /\ delivered = 0
    /\ outcome = "none"

Announce ==
    /\ outcome = "none"
    /\ announced = NoSize
    /\ announced' \in Nat
    /\ UNCHANGED <<delivered, outcome>>

Deliver ==
    /\ outcome = "none"
    /\ delivered < announced
    /\ delivered' = delivered + 1
    /\ UNCHANGED <<announced, outcome>>

Succeed ==
    /\ outcome = "none"
    /\ delivered = announced
    /\ outcome' = "success"
    /\ UNCHANGED <<announced, delivered>>

Fail ==
    /\ outcome = "none"
    /\ outcome' = "failure"
    /\ UNCHANGED <<announced, delivered>>

Next == Announce \/ Deliver \/ Succeed \/ Fail

Spec == Init /\ [][Next]_transferVars
=============================================================================
