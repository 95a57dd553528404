--------------------------- MODULE ServerLifecycle ---------------------------
(***************************************************************************)
(* What the server promises its owner and its sessions: it serves until it *)
(* is stopped and never again afterwards; sessions start in the order of   *)
(* their ids and end once; when it has been stopped at most one more       *)
(* session starts, the one whose connection was already being accepted;    *)
(* and it goes only when every session is over, unless the process dies.   *)
(***************************************************************************)
EXTENDS Integers

CONSTANT Count       \* sessions are numbered 1 .. Count

VARIABLES phase,     \* how far the server's life has got
          session    \* session[s] is "new", "open" or "over"

lifeVars == <<phase, session>>

Ids   == 1 .. Count
Alive == {"starting", "serving", "draining", "drained"}

Init ==
    /\ phase = "starting"
    /\ session = [s \in Ids |-> "new"]

Moves(from, to) == phase \in from /\ phase' \in to

Serve  == Moves({"starting"}, {"serving"}) /\ UNCHANGED session
GiveUp == Moves({"starting"}, {"drained"}) /\ UNCHANGED session
Stop   == Moves({"serving"}, {"draining", "drained"}) /\ UNCHANGED session
Drain  == Moves({"draining"}, {"drained"}) /\ UNCHANGED session

\* A stopped server opens a session only with its last step of serving.
Open(s) ==
    /\ Moves({"serving"}, {"serving"}) \/ Moves({"draining"}, {"drained"})
    /\ session[s] = "new"
    /\ \A t \in 1 .. s - 1 : session[t] # "new"
    /\ session' = [session EXCEPT ![s] = "open"]

Close(s) ==
    /\ phase \in Alive
    /\ session[s] = "open"
    /\ session' = [session EXCEPT ![s] = "over"]
    /\ UNCHANGED phase

Finish ==
    /\ Moves({"drained"}, {"gone"})
    /\ \A s \in Ids : session[s] # "open"
    /\ UNCHANGED session

Die == Moves(Alive, {"dead"}) /\ UNCHANGED session

Next ==
    \/ Serve \/ GiveUp \/ Stop \/ Drain \/ Finish \/ Die
    \/ \E s \in Ids : Open(s) \/ Close(s)

Spec == Init /\ [][Next]_lifeVars
=============================================================================
