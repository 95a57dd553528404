--------------------------- MODULE ServerInvariant ---------------------------
(***************************************************************************)
(* The inductive invariant behind the safety properties of Server. Each    *)
(* part says what one piece of the code relies on.                         *)
(***************************************************************************)
EXTENDS Server

Early   == {"init", "publish", "listen", "run"}          \* before is_running_
Holding == {"clock", "cvisit", "cjoin", "push", "spawn"} \* an unpushed session
Tail    == {"loop", "exit", "close", "closing", "done"}  \* no client needed

Live(s) == wpc[s] \notin {"none", "done"}

\* workers_mutex_ is held exactly where the code holds it.
MutexInv ==
    /\ mpc \in {"cvisit", "cjoin", "spawn"} <=> workers_mutex = "main"
    /\ \A c \in Callers : spc[c] \in Looping <=> workers_mutex = c

\* A live worker thread is in workers_; session ids are used once; the session
\* that accept_loop has made and not yet pushed has no thread.
ThreadInv ==
    /\ \A s \in Sessions : Live(s) => s \in workers
    /\ \A s \in workers : wpc[s] # "none"
    /\ \A s \in Sessions : s >= next_session_id => wpc[s] = "none"
    /\ mpc \in Holding => /\ next_session_id > 1
                          /\ wpc[next_session_id - 1] = "none"

\* Every id that was given out has its thread, but for the session that
\* accept_loop still holds: the threads are made in the order of the ids.
OrderInv ==
    \A s \in Sessions :
        s < next_session_id /\ wpc[s] = "none"
            => mpc \in Holding /\ s = next_session_id - 1

\* is_active_ is FALSE in front of a receive or a handler only because stop()
\* is at work; nobody can stop a session before it is pushed.
ActiveInv ==
    /\ \A s \in Sessions :
         wpc[s] \in {"start", "recv", "blocked", "handle"} /\ ~active[s]
            => workers_mutex \in Callers
    /\ mpc \in Holding => active[next_session_id - 1]

\* A descriptor that is gone has been closed.
DescriptorInv ==
    /\ \A s \in Sessions :
         s < next_session_id /\ ~fd[s] => closes[s] >= 1
    /\ \A s \in Sessions : wpc[s] = "done" => ~fd[s]

\* is_running_ is TRUE only while the accept loop runs and before stop().
RunningInv ==
    /\ is_running => /\ mpc \notin Early \cup {"returned"}
                     /\ \A c \in Callers : spc[c] \notin Body
                     /\ lfd /\ lstate = "listening"
    /\ mpc \in Early => \A c \in Callers : spc[c] \notin Body
    /\ mpc = "run" => lfd /\ lstate = "listening"

\* Who calls stop() when, and what a handler's thread can be.
CallerInv ==
    /\ ~ExternalStop => spc["owner"] = "idle"
    /\ spc["owner"] # "load" /\ spc["dtor"] # "load"
    /\ spc["dtor"] # "idle" => /\ mpc = "returned"
                               /\ spc["owner"] \in {"idle", "ret"}
    /\ spc["handler"] = "idle" <=> sigOn = NoThread
    /\ sigOn \in Sessions => Live(sigOn)
    /\ destroyed => /\ workers = {}
                    /\ spc["dtor"] = "ret"
                    /\ sigOn = NoThread

\* If the accept loop is left, stop() is at work or has reset the pointer.
InstanceInv ==
    mpc \notin Early /\ ~is_running /\ running_instance =>
        \/ startFailed
        \/ \E c \in Callers : spc[c] \in Body

\* The erasing loop has not passed a session that was over at its start.
ReapInv ==
    /\ mpc \in {"cvisit", "cjoin"} =>
         \A s \in ended \cap workers :
            s \in mtodo /\ ~active[s] /\ wpc[s] \in Tail
    /\ mpc \in {"push", "spawn"} => ended \cap workers = {}

\* The inductive invariant of Server: everything above together.
IInv ==
    /\ TypeOK /\ MutexInv /\ IteratorsValid /\ ThreadInv /\ ActiveInv
    /\ CleanupNeverWaitsForClient /\ DescriptorInv /\ RunningInv /\ CallerInv
    /\ OnlyOneStopper /\ StopFindsListener /\ InstanceInv /\ ReapInv
    /\ OrderInv
=============================================================================
