------------------------------- MODULE Server -------------------------------
(***************************************************************************)
(* The server's life cycle: Server::start, accept_loop, the reaping of     *)
(* finished sessions, Server::stop called by its owner, by the signal      *)
(* handler and by the destructor, and the worker thread of every session   *)
(* (ClientSession::run), interleaved at each access to shared state.       *)
(*                                                                         *)
(* What a session says to its client is in Streaming; here a request is    *)
(* only what it does to is_active_.                                        *)
(***************************************************************************)
EXTENDS Integers, FiniteSets

CONSTANTS MaxSessions,    \* bound on accepted connections
          ExternalStop,   \* TRUE: another thread, too, may call stop(), as in
                          \* the tests; FALSE: server_main
          SignalTargets,  \* threads SIGINT or SIGTERM may be delivered to
          MaxSignals      \* bound on delivered signals

Sessions == 1 .. MaxSessions
Main     == 0             \* the thread that runs start()
NoThread == -1

Callers == {"owner", "handler", "dtor"}   \* who may call Server::stop

ASSUME ConstantsAssumption ==
    /\ MaxSessions \in Nat \ {0}
    /\ ExternalStop \in BOOLEAN
    /\ SignalTargets \subseteq Sessions \cup {Main}
    /\ MaxSignals \in Nat

VARIABLES
    is_running,        \* atomic<bool> Server::is_running_
    running_instance,  \* running_instance_ points at the server
    handlers,          \* sigaction has installed handle_signal
    lfd,               \* server_socket_.fd_ >= 0
    lstate,            \* the kernel's listening socket
    workers_mutex,     \* who holds workers_mutex_
    workers,           \* the sessions in workers_; the vector is in sid order
    mpc,               \* where the thread running start() is
    next_session_id,
    mtodo,             \* entries cleanup_finished_sessions has still to visit
    spc,               \* where each caller of stop() is
    stodo,             \* entries stop()'s current loop has still to visit
    active,            \* atomic<bool> ClientSession::is_active_
    fd,                \* the session's socket_.fd_ >= 0
    conn,              \* the kernel's connection
    closes,            \* number of ::close calls on the session's descriptor
    wpc,               \* where each worker thread is
    sigOn,             \* the thread that runs the signal handler
    signals,           \* signals delivered so far
    crash,             \* why std::terminate was called, or "none"
    destroyed,         \* ~Server has completed
    ended,             \* history: sessions over when cleanup took the mutex
    startFailed        \* history: start() returned false

runVars  == <<is_running, running_instance, handlers>>
netVars  == <<lfd, lstate>>
poolVars == <<workers_mutex, workers>>
mainVars == <<mpc, next_session_id, mtodo, ended, startFailed>>
stopVars == <<spc, stodo>>
sessVars == <<active, fd, conn, closes, wpc>>
sigVars  == <<sigOn, signals>>
endVars  == <<crash, destroyed>>
vars == <<runVars, netVars, poolVars, mainVars, stopVars, sessVars, sigVars,
          endVars>>

MainPC == {"init", "publish", "listen", "run", "loop", "accept", "blocked",
           "failed", "clock", "cvisit", "cjoin", "push", "spawn", "returned"}
StopPC == {"idle", "load", "cas", "shutl", "closel", "lock", "visit", "sshut",
           "scheck", "sclose", "join", "ret"}
WorkPC == {"none", "start", "loop", "recv", "blocked", "handle", "exit",
           "close", "closing", "done"}

TypeOK ==
    /\ is_running \in BOOLEAN
    /\ running_instance \in BOOLEAN
    /\ handlers \in BOOLEAN
    /\ lfd \in BOOLEAN
    /\ lstate \in {"none", "listening", "shut"}
    /\ workers_mutex \in {"none", "main"} \cup Callers
    /\ workers \subseteq Sessions
    /\ mpc \in MainPC
    /\ next_session_id \in 1 .. MaxSessions + 1
    /\ mtodo \subseteq Sessions
    /\ spc \in [Callers -> StopPC]
    /\ stodo \subseteq Sessions
    /\ active \in [Sessions -> BOOLEAN]
    /\ fd \in [Sessions -> BOOLEAN]
    /\ conn \in [Sessions -> {"none", "open", "shut"}]
    /\ closes \in [Sessions -> Nat]
    /\ wpc \in [Sessions -> WorkPC]
    /\ sigOn \in Sessions \cup {Main, NoThread}
    /\ signals \in 0 .. MaxSignals
    /\ crash \in {"none", "orphan", "spawn", "selfjoin", "throw"}
    /\ destroyed \in BOOLEAN
    /\ ended \subseteq Sessions
    /\ startFailed \in BOOLEAN

Init ==
    /\ is_running = FALSE
    /\ running_instance = FALSE
    /\ handlers = FALSE
    /\ lfd = FALSE
    /\ lstate = "none"
    /\ workers_mutex = "none"
    /\ workers = {}
    /\ mpc = "init"
    /\ next_session_id = 1
    /\ mtodo = {}
    /\ spc = [c \in Callers |-> "idle"]
    /\ stodo = {}
    /\ active = [s \in Sessions |-> FALSE]
    /\ fd = [s \in Sessions |-> FALSE]
    /\ conn = [s \in Sessions |-> "none"]
    /\ closes = [s \in Sessions |-> 0]
    /\ wpc = [s \in Sessions |-> "none"]
    /\ sigOn = NoThread
    /\ signals = 0
    /\ crash = "none"
    /\ destroyed = FALSE
    /\ ended = {}
    /\ startFailed = FALSE

-----------------------------------------------------------------------------
(* Scheduling: a thread makes no step of its own while it runs the handler, *)
(* and none does once std::terminate has been called.                       *)

Runs(t) == crash = "none" /\ ~(spc["handler"] # "idle" /\ sigOn = t)

\* The destructor runs on the main thread in server_main, so a signal can
\* suspend it; in the tests it runs when that thread has been joined, with its
\* handler. The owner and the handler are never suspended themselves.
CallerRuns(c) == crash = "none" /\ (c = "dtor" => Runs(Main))

\* s is the entry a loop over the vector visits next.
IsFirst(s, todo) == s \in todo /\ \A t \in todo : s <= t

\* The thread that runs start() is at one place and goes to another, ...
MainFrom(from, to) == Runs(Main) /\ mpc = from /\ mpc' = to

\* ... a caller of stop() does, ...
CallerFrom(c, from, to) ==
    CallerRuns(c) /\ spc[c] = from /\ spc' = [spc EXCEPT ![c] = to]

\* ... a worker does.
WorkerFrom(s, from, to) ==
    Runs(s) /\ wpc[s] = from /\ wpc' = [wpc EXCEPT ![s] = to]

\* What a step of each kind leaves alone, unless its action says otherwise.
notMain   == <<stopVars, sigVars, endVars>>
notCaller == <<handlers, mainVars, wpc, sigVars, endVars>>
notWorker == <<runVars, netVars, poolVars, mainVars, stopVars, sigVars,
               endVars>>
notPool   == <<notMain, runVars, netVars, sessVars, next_session_id,
               startFailed>>
notLoop   == <<notCaller, is_running, running_instance, netVars, poolVars>>

\* Steps that change nothing but the pc.
MainMoves(from, to) ==
    /\ MainFrom(from, to)
    /\ UNCHANGED <<notPool, poolVars, mtodo, ended>>

CallerMoves(c, from, to) ==
    /\ CallerFrom(c, from, to)
    /\ UNCHANGED <<runVars, netVars, poolVars, mainVars, stodo, sessVars,
                   sigVars, endVars>>

WorkerMoves(s, from, to) ==
    /\ WorkerFrom(s, from, to)
    /\ UNCHANGED <<notWorker, active, fd, conn, closes>>

-----------------------------------------------------------------------------
(* Server::start *)

StartFails(from) ==
    /\ MainFrom(from, "returned")
    /\ startFailed' = TRUE
    /\ UNCHANGED <<notMain, runVars, netVars, poolVars, sessVars,
                   next_session_id, mtodo, ended>>

StartInit == MainMoves("init", "publish") \/ StartFails("init")

\* running_instance_ and the signal handlers.
Publish(running) ==
    /\ MainFrom("publish", "listen")
    /\ running_instance' = TRUE
    /\ handlers' = TRUE
    /\ is_running' = running
    /\ UNCHANGED <<notMain, netVars, poolVars, sessVars, next_session_id,
                   mtodo, ended, startFailed>>

\* Mutant: is_running_ is set before the socket listens.
StartPublishRunning == Publish(TRUE)

StartPublish == Publish(is_running)

\* create_tcp, bind and listen: no other thread looks at the socket before
\* is_running_ is set. A failure leaves the descriptor closed.
StartListen ==
    \/ /\ MainFrom("listen", "run")
       /\ lfd' = TRUE
       /\ lstate' = "listening"
       /\ UNCHANGED <<notMain, runVars, poolVars, sessVars, next_session_id,
                      mtodo, ended, startFailed>>
    \/ StartFails("listen")

StartRun ==
    /\ MainFrom("run", "loop")
    /\ is_running' = TRUE
    /\ UNCHANGED <<notMain, running_instance, handlers, netVars, poolVars,
                   sessVars, next_session_id, mtodo, ended, startFailed>>

-----------------------------------------------------------------------------
(* Server::accept_loop *)

\* Mutant: the loop is endless and trusts accept() to fail after stop().
LoopEndless == MainMoves("loop", "accept")

LoopTest == MainMoves("loop", IF is_running THEN "accept" ELSE "returned")

\* Socket::accept: is_valid() first, then the thread is inside ::accept, which
\* keeps waiting when the descriptor is closed without a shutdown.
AcceptCall == MainMoves("accept", IF lfd THEN "blocked" ELSE "failed")

\* A client connects; the session's constructor initialises is_active_.
Accepted(is_active) ==
    /\ MainFrom("blocked", "clock")
    /\ lstate = "listening"
    /\ next_session_id <= MaxSessions
    /\ active' = [active EXCEPT ![next_session_id] = is_active]
    /\ fd' = [fd EXCEPT ![next_session_id] = TRUE]
    /\ conn' = [conn EXCEPT ![next_session_id] = "open"]
    /\ next_session_id' = next_session_id + 1
    /\ UNCHANGED <<notMain, runVars, netVars, poolVars, mtodo, ended,
                   startFailed, closes, wpc>>

\* Mutant: the constructor leaves is_active_ FALSE until run() sets it.
AcceptOkInactive == Accepted(FALSE)

AcceptOk == Accepted(TRUE)

\* ::accept returns -1: EINTR, ECONNABORTED, EMFILE...
AcceptError == MainMoves("blocked", "failed")

\* ... or EINVAL because the listening socket has been shut down.
AcceptShut == lstate = "shut" /\ AcceptError

AcceptFailed == MainMoves("failed", IF ~is_running THEN "returned" ELSE "loop")

-----------------------------------------------------------------------------
\* Entries of workers_ go, and a session goes with its last owner (its thread,
\* while it runs, is one): ~ClientSession finds is_active_ FALSE, and ~Socket
\* closes a descriptor that is still open.
Release(gone) ==
    LET open == {s \in gone : wpc[s] = "done" /\ fd[s]}
    IN  /\ fd' = [s \in Sessions |-> s \notin open /\ fd[s]]
        /\ closes' = [s \in Sessions |-> IF s \in open THEN closes[s] + 1
                                         ELSE closes[s]]

-----------------------------------------------------------------------------
(* Server::cleanup_finished_sessions *)

CleanupLock ==
    /\ MainFrom("clock", "cvisit")
    /\ workers_mutex = "none"
    /\ workers_mutex' = "main"
    /\ mtodo' = workers
    /\ ended' = {s \in workers : ~active[s]}
    /\ UNCHANGED <<notPool, workers>>

CleanupSkip ==
    /\ MainFrom("cvisit", "cvisit")
    /\ \E s \in mtodo : IsFirst(s, mtodo) /\ active[s] /\ mtodo' = mtodo \ {s}
    /\ UNCHANGED <<notPool, poolVars, ended>>

CleanupFound ==
    /\ \E s \in mtodo : IsFirst(s, mtodo) /\ ~active[s]
    /\ MainMoves("cvisit", "cjoin")

\* The entry s is erased, and the loop goes on with those of rest(s).
Erase(ready(_), rest(_)) ==
    /\ MainFrom("cjoin", "cvisit")
    /\ \E s \in mtodo :
         /\ IsFirst(s, mtodo)
         /\ ready(s)
         /\ workers' = workers \ {s}
         /\ mtodo' = rest(s)
         /\ Release({s})
    /\ UNCHANGED <<notMain, runVars, netVars, active, conn, wpc, workers_mutex,
                   next_session_id, ended, startFailed>>

\* join() returns when the worker has.
Joined(s) == wpc[s] = "done"

\* Mutant: the loop advances after erase() and so skips the next entry.
CleanupJoinSkip ==
    Erase(Joined, LAMBDA s : {t \in mtodo \ {s} : ~IsFirst(t, mtodo \ {s})})

\* Mutant: the entry is erased without a join.
CleanupNoJoin == Erase(LAMBDA s : TRUE, LAMBDA s : mtodo \ {s})

CleanupJoin == Erase(Joined, LAMBDA s : mtodo \ {s})

CleanupUnlock ==
    /\ MainFrom("cvisit", "push")
    /\ mtodo = {}
    /\ workers_mutex' = "none"
    /\ UNCHANGED <<notPool, workers, mtodo, ended>>

-----------------------------------------------------------------------------
(* The end of an accept_loop iteration: the worker thread is made and      *)
(* pushed under the mutex, which the iteration's end releases.             *)

PushLock ==
    /\ MainFrom("push", "spawn")
    /\ workers_mutex = "none"
    /\ workers_mutex' = "main"
    /\ UNCHANGED <<notPool, workers, mtodo, ended>>

PushWorker(sid) ==
    /\ MainFrom("spawn", "loop")
    /\ workers' = workers \cup {sid}
    /\ wpc' = [wpc EXCEPT ![sid] = "start"]
    /\ workers_mutex' = "none"
    /\ ended' = {}
    /\ UNCHANGED <<notMain, runVars, netVars, next_session_id, mtodo,
                   startFailed, active, fd, conn, closes>>

\* Mutant: the id is read after the increment.
SpawnNextId == PushWorker(next_session_id)

Spawn == PushWorker(next_session_id - 1)

\* std::thread's constructor throws; nothing catches it.
SpawnFail ==
    /\ Runs(Main) /\ mpc = "spawn"
    /\ crash' = "spawn"
    /\ UNCHANGED <<runVars, netVars, poolVars, mainVars, stopVars, sessVars,
                   sigVars, destroyed>>

-----------------------------------------------------------------------------
(* Server::stop, run by caller c *)

StopTakes(c, running) ==
    /\ CallerFrom(c, "cas", IF is_running THEN "shutl" ELSE "ret")
    /\ is_running' = running
    /\ UNCHANGED <<notCaller, running_instance, netVars, poolVars, stodo,
                   active, fd, conn, closes>>

\* Mutant: stop() tests is_running_ and does not clear it in the same step.
StopTestOnly(c) == StopTakes(c, is_running)

\* The compare-exchange of is_running_.
StopCas(c) == StopTakes(c, FALSE)

\* Mutant: stop() closes the listening socket without shutting it down.
StopCloseOnly(c) == CallerMoves(c, "shutl", "closel")

StopShutdownListener(c) ==
    /\ CallerFrom(c, "shutl", "closel")
    /\ lstate' = IF lfd THEN "shut" ELSE lstate
    /\ UNCHANGED <<notCaller, is_running, running_instance, lfd, poolVars,
                   stodo, active, fd, conn, closes>>

StopCloseListener(c) ==
    /\ CallerFrom(c, "closel", "lock")
    /\ lfd' = FALSE
    /\ UNCHANGED <<notCaller, is_running, running_instance, lstate, poolVars,
                   stodo, active, fd, conn, closes>>

\* The session loop begins.
StopEnters(c, holder) ==
    /\ CallerFrom(c, "lock", "visit")
    /\ workers_mutex' = holder
    /\ stodo' = workers
    /\ UNCHANGED <<notCaller, is_running, running_instance, netVars, workers,
                   active, fd, conn, closes>>

\* Mutant: stop() does not take workers_mutex_.
StopNoLock(c) == StopEnters(c, workers_mutex)

StopLock(c) == workers_mutex = "none" /\ StopEnters(c, c)

\* ClientSession::stop of the next session: the compare-exchange fails, ...
SessionCasFail(c) ==
    /\ CallerFrom(c, "visit", "visit")
    /\ \E s \in stodo : IsFirst(s, stodo) /\ ~active[s] /\ stodo' = stodo \ {s}
    /\ UNCHANGED <<notLoop, active, fd, conn, closes>>

\* ... or succeeds; ...
SessionCas(c) ==
    /\ CallerFrom(c, "visit", "sshut")
    /\ \E s \in stodo : /\ IsFirst(s, stodo) /\ active[s]
                        /\ active' = [active EXCEPT ![s] = FALSE]
    /\ UNCHANGED <<notLoop, stodo, fd, conn, closes>>

\* Mutant: ClientSession::stop closes the socket without shutting it down.
SessionNoShutdown(c) == CallerMoves(c, "sshut", "scheck")

\* ... then socket_.shutdown(SHUT_RDWR) ...
SessionShutdown(c) ==
    /\ CallerFrom(c, "sshut", "scheck")
    /\ \E s \in stodo :
         /\ IsFirst(s, stodo)
         /\ conn' = [conn EXCEPT ![s] = IF fd[s] THEN "shut" ELSE @]
    /\ UNCHANGED <<notLoop, stodo, active, fd, closes>>

\* ... and socket_.close(), whose test of the plain int fd_ and whose ::close
\* are two steps: the worker's own close() may come between them.
SessionNotOpen(c) ==
    /\ CallerFrom(c, "scheck", "visit")
    /\ \E s \in stodo : IsFirst(s, stodo) /\ ~fd[s] /\ stodo' = stodo \ {s}
    /\ UNCHANGED <<notLoop, active, fd, conn, closes>>

SessionOpen(c) ==
    /\ \E s \in stodo : IsFirst(s, stodo) /\ fd[s]
    /\ CallerMoves(c, "scheck", "sclose")

SessionClose(c) ==
    /\ CallerFrom(c, "sclose", "visit")
    /\ \E s \in stodo :
         /\ IsFirst(s, stodo)
         /\ closes' = [closes EXCEPT ![s] = @ + 1]
         /\ fd' = [fd EXCEPT ![s] = FALSE]
         /\ stodo' = stodo \ {s}
    /\ UNCHANGED <<notLoop, active, conn>>

\* The join loop.
StopJoinBegin(c) ==
    /\ CallerFrom(c, "visit", "join")
    /\ stodo = {}
    /\ stodo' = workers
    /\ UNCHANGED <<notLoop, active, fd, conn, closes>>

PassWorker(c, ready(_)) ==
    /\ CallerFrom(c, "join", "join")
    /\ \E s \in stodo : IsFirst(s, stodo) /\ ready(s) /\ stodo' = stodo \ {s}
    /\ UNCHANGED <<notLoop, active, fd, conn, closes>>

\* Mutant: stop() detaches the workers instead of joining them.
StopDetach(c) == PassWorker(c, LAMBDA s : TRUE)

StopJoin(c) == PassWorker(c, Joined)

\* The handler runs on the very thread it has to join: join() throws
\* resource_deadlock_would_occur and nothing catches it.
StopJoinSelf(c) ==
    /\ CallerRuns(c) /\ spc[c] = "join"
    /\ c = "handler"
    /\ IsFirst(sigOn, stodo)
    /\ crash' = "selfjoin"
    /\ UNCHANGED <<runVars, netVars, poolVars, mainVars, stopVars, sessVars,
                   sigVars, destroyed>>

StopLeaves(c, instance) ==
    /\ CallerFrom(c, "join", "ret")
    /\ stodo = {}
    /\ workers' = {}
    /\ Release(workers)
    /\ running_instance' = instance
    /\ workers_mutex' = "none"
    /\ UNCHANGED <<notCaller, is_running, netVars, stodo, active, conn>>

\* Mutant: stop() does not reset running_instance_.
StopClearOnly(c) == StopLeaves(c, running_instance)

StopClear(c) == StopLeaves(c, FALSE)

Stop(c) ==
    \/ StopCas(c) \/ StopShutdownListener(c) \/ StopCloseListener(c)
    \/ StopLock(c)
    \/ SessionCasFail(c) \/ SessionCas(c) \/ SessionShutdown(c)
    \/ SessionNotOpen(c) \/ SessionOpen(c) \/ SessionClose(c)
    \/ StopJoinBegin(c) \/ StopJoin(c) \/ StopJoinSelf(c) \/ StopClear(c)

-----------------------------------------------------------------------------
(* The three callers of stop() *)

OwnerCallsStop ==
    /\ ExternalStop
    /\ spc["dtor"] = "idle"
    /\ CallerMoves("owner", "idle", "cas")

Alive(t) == IF t = Main THEN ~destroyed ELSE wpc[t] \notin {"none", "done"}

SignalArrives ==
    /\ handlers
    /\ CallerFrom("handler", "idle", "load")
    /\ signals < MaxSignals
    /\ signals' = signals + 1
    /\ \E t \in SignalTargets : Alive(t) /\ sigOn' = t
    /\ UNCHANGED <<runVars, netVars, poolVars, mainVars, stodo, sessVars,
                   endVars>>

HandlerLoad ==
    CallerMoves("handler", "load", IF running_instance THEN "cas" ELSE "ret")

HandlerReturn ==
    /\ CallerFrom("handler", "ret", "idle")
    /\ sigOn' = NoThread
    /\ UNCHANGED <<runVars, netVars, poolVars, mainVars, stodo, sessVars,
                   signals, endVars>>

\* ~Server runs when start() has returned and the owner, which has joined the
\* thread that ran it, is not inside stop().
DtorBegin ==
    /\ mpc = "returned"
    /\ spc["owner"] \in {"idle", "ret"}
    /\ CallerMoves("dtor", "idle", "cas")

\* The members go: a std::thread that is still joinable calls std::terminate.
DtorMembers ==
    /\ CallerRuns("dtor") /\ spc["dtor"] = "ret" /\ ~destroyed
    /\ \/ /\ workers = {}
          /\ destroyed' = TRUE
          /\ lfd' = FALSE
          /\ UNCHANGED crash
       \/ /\ workers # {}
          /\ crash' = "orphan"
          /\ UNCHANGED <<destroyed, lfd>>
    /\ UNCHANGED <<runVars, lstate, poolVars, mainVars, stopVars, sessVars,
                   sigVars>>

-----------------------------------------------------------------------------
(* ClientSession::run, on worker thread s *)

\* A send or receive on s can still reach the client.
Connected(s) == fd[s] /\ conn[s] = "open"

RunStart(s) ==
    /\ WorkerFrom(s, "start", "loop")
    /\ active' = [active EXCEPT ![s] = TRUE]
    /\ UNCHANGED <<notWorker, fd, conn, closes>>

RunTest(s) == WorkerMoves(s, "loop", IF active[s] THEN "recv" ELSE "exit")

\* recv_line: is_valid() first, then the thread is inside ::recv.
RecvCall(s) == WorkerMoves(s, "recv", IF fd[s] THEN "blocked" ELSE "exit")

\* A request line; after a shutdown it can only be one already buffered.
RecvLine(s) == fd[s] /\ WorkerMoves(s, "blocked", "handle")

\* End of stream, an error or SO_RCVTIMEO.
RecvFail(s) == WorkerMoves(s, "blocked", "exit")

\* QUIT, or a LIST or GET reply that could not be sent.
HandleLast(s) ==
    /\ WorkerFrom(s, "handle", "loop")
    /\ active' = [active EXCEPT ![s] = FALSE]
    /\ UNCHANGED <<notWorker, fd, conn, closes>>

\* A reply is sent and the session goes on.
HandleReply(s) == Connected(s) /\ WorkerMoves(s, "handle", "loop")

\* An ERROR reply that cannot be sent: the result is ignored.
HandleError(s) == ~Connected(s) /\ WorkerMoves(s, "handle", "loop")

\* An exception leaves a handler (list_files increments its iterator without an
\* error code) and nothing on the thread catches it.
HandleThrows(s) ==
    /\ Runs(s) /\ wpc[s] = "handle"
    /\ crash' = "throw"
    /\ UNCHANGED <<runVars, netVars, poolVars, mainVars, stopVars, sessVars,
                   sigVars, destroyed>>

RunExit(s) ==
    /\ WorkerFrom(s, "exit", "close")
    /\ active' = [active EXCEPT ![s] = FALSE]
    /\ UNCHANGED <<notWorker, fd, conn, closes>>

\* Mutant: run() leaves the socket to the destructor's stop(), a no-op by then.
CloseTestNone(s) == WorkerMoves(s, "close", "done")

\* socket_.close(), again in two steps.
CloseTest(s) == WorkerMoves(s, "close", IF fd[s] THEN "closing" ELSE "done")

Close(s) ==
    /\ WorkerFrom(s, "closing", "done")
    /\ closes' = [closes EXCEPT ![s] = @ + 1]
    /\ fd' = [fd EXCEPT ![s] = FALSE]
    /\ UNCHANGED <<notWorker, active, conn>>

Run(s) ==
    \/ RunStart(s) \/ RunTest(s)
    \/ RecvCall(s) \/ RecvLine(s) \/ RecvFail(s)
    \/ HandleLast(s) \/ HandleReply(s) \/ HandleError(s)
    \/ RunExit(s) \/ CloseTest(s) \/ Close(s)

-----------------------------------------------------------------------------
Start == StartInit \/ StartPublish \/ StartListen \/ StartRun

AcceptLoop ==
    \/ LoopTest \/ AcceptCall \/ AcceptOk \/ AcceptError \/ AcceptFailed
    \/ CleanupLock \/ CleanupSkip \/ CleanupFound \/ CleanupJoin
    \/ CleanupUnlock
    \/ PushLock \/ Spawn \/ SpawnFail

Lifecycle ==
    \/ OwnerCallsStop \/ SignalArrives \/ HandlerLoad \/ HandlerReturn
    \/ DtorBegin \/ DtorMembers

\* The process is over.
Ended == (destroyed \/ crash # "none") /\ UNCHANGED vars

Next ==
    \/ Start
    \/ AcceptLoop
    \/ Lifecycle
    \/ \E c \in Callers : Stop(c)
    \/ \E s \in Sessions : Run(s)
    \/ \E s \in Sessions : HandleThrows(s)
    \/ Ended

Spec == Init /\ [][Next]_vars

(***************************************************************************)
(* Fairness: a thread that can make a step eventually does. What waits for *)
(* the outside is not fair: a client to connect, to send a request, to     *)
(* read a reply or to leave; a timeout, which the configuration may turn   *)
(* off; the owner's decision to stop; a signal.                            *)
(***************************************************************************)
MainOwnStep ==
    \/ Start
    \/ LoopTest \/ AcceptCall \/ AcceptShut \/ AcceptFailed
    \/ CleanupLock \/ CleanupSkip \/ CleanupFound \/ CleanupJoin
    \/ CleanupUnlock
    \/ PushLock \/ Spawn

WorkerOwnStep(s) ==
    /\ wpc[s] \notin {"none", "done"}
    /\ \/ RunStart(s) \/ RunTest(s) \/ RecvCall(s)
       \/ conn[s] = "shut" /\ RecvFail(s)
       \/ ~Connected(s) /\ (HandleLast(s) \/ HandleError(s))
       \/ RunExit(s) \/ CloseTest(s) \/ Close(s)

\* Every call of stop() is finite, so it is enough that one of them moves.
StopOwnStep ==
    \/ \E c \in Callers : spc[c] \notin {"idle", "ret"} /\ Stop(c)
    \/ HandlerLoad \/ HandlerReturn \/ DtorBegin \/ DtorMembers

Fairness ==
    /\ WF_vars(MainOwnStep)
    /\ WF_vars(StopOwnStep)
    /\ \A s \in Sessions : WF_vars(WorkerOwnStep(s))

FairSpec == Spec /\ Fairness

-----------------------------------------------------------------------------
(* Properties *)

Body == StopPC \ {"idle", "load", "cas", "ret"}   \* past the compare-exchange
Looping == {"visit", "sshut", "scheck", "sclose", "join"}

\* cleanup_finished_sessions joins while it holds workers_mutex_. The worker it
\* waits for has already left its last request: it is not inside recv or a
\* handler, where only its client, a timeout or stop() could release it.
CleanupNeverWaitsForClient ==
    mpc = "cjoin" =>
        \A s \in mtodo : IsFirst(s, mtodo) =>
            /\ ~active[s]
            /\ wpc[s] \in {"loop", "exit", "close", "closing", "done"}

\* The vector that cleanup_finished_sessions or stop() iterates over is changed
\* by nobody else: every entry still to be visited is in it, and what stop()'s
\* join loop has passed are finished threads.
IteratorsValid ==
    /\ mpc \in {"cvisit", "cjoin"} => mtodo \subseteq workers
    /\ \A c \in Callers :
         /\ spc[c] \in Looping => stodo \subseteq workers
         /\ spc[c] = "join" => \A s \in workers \ stodo : wpc[s] = "done"

\* When cleanup_finished_sessions is done, every session that was over when it
\* took the mutex has left workers_ (no zombie skipped by the erasing loop).
EndedSessionsReaped ==
    mpc \in {"push", "spawn"} => ended \cap workers = {}

\* A server that is destroyed without std::terminate leaves no running worker
\* thread behind to use it (the session holds file_manager_ by reference).
NoThreadLeak ==
    destroyed => \A s \in Sessions : wpc[s] \in {"none", "done"}

\* The descriptor of every session whose worker has ended has been closed, by
\* run() or by ClientSession::stop(), and fd_ says so: the client need not wait
\* for ~Socket, which comes only when another client connects or stop() does.
NoDescriptorLeak ==
    \A s \in Sessions : wpc[s] = "done" => closes[s] >= 1 /\ ~fd[s]

\* Whatever the order of signals, the owner and the destructor, the body of
\* stop() is run by one caller at most, and never by the destructor: by then
\* the accept loop has seen is_running_ FALSE, so ~Server's stop() does nothing.
OnlyOneStopper ==
    /\ \A c, d \in Callers : spc[c] \in Body /\ spc[d] \in Body => c = d
    /\ spc["dtor"] \notin Body

\* stop() shuts down a socket that is listening: start() publishes is_running_
\* only after listen(), so stop() never races with the assignment of the socket.
StopFindsListener ==
    \A c \in Callers : spc[c] = "shutl" => lfd /\ lstate = "listening"

\* running_instance_ outlives the server only if start() had failed: stop()
\* returned early there and nobody reset the pointer the handler will follow.
DanglingOnlyAfterFailedStart ==
    destroyed /\ running_instance => startFailed

\* Once the owner's stop() has passed the compare-exchange, the blocked accept
\* and the blocked workers are woken, everything is joined and the server is
\* destroyed, whatever clients do, unless std::terminate is called.
ShutdownCompletes ==
    (spc["owner"] = "shutl") ~> (destroyed \/ crash # "none")

\* start(), accept_loop, stop() from anywhere, the workers and ~Server together
\* implement the life that ServerLifecycle promises: in particular a stopped
\* server starts at most the one session it was already accepting, and it is
\* destroyed only when every session is over.
Life == INSTANCE ServerLifecycle WITH
    Count   <- MaxSessions,
    phase   <- IF crash # "none" THEN "dead"
               ELSE IF destroyed THEN "gone"
               ELSE IF is_running THEN "serving"
               ELSE IF mpc \in {"init", "publish", "listen", "run"}
                    THEN "starting"
               ELSE IF mpc \in {"loop", "failed", "returned"} THEN "drained"
               ELSE "draining",
    session <- [s \in Sessions |-> IF wpc[s] = "none" THEN "new"
                                   ELSE IF wpc[s] = "done" THEN "over"
                                   ELSE "open"]

LifecycleSpec == Life!Spec

\* Server.cpp: "Register SIGINT and SIGTERM handlers for graceful shutdown".
\* The handler must not wait for a mutex that the thread it interrupted holds,
\* or whose holder waits for that thread: cleanup_finished_sessions joins
\* workers under the mutex.
HandlerNeverWaitsForItself ==
    ~ /\ spc["handler"] = "lock"
      /\ workers_mutex = "main"
      /\ sigOn = Main \/ (mpc = "cjoin" /\ IsFirst(sigOn, mtodo))

\* A handler that has passed the compare-exchange of stop(), on whatever thread,
\* ends the server or the process, unless it waits for a mutex that its own
\* thread holds or whose holder joins its thread: no client and no blocked call
\* can keep a signal from ending it (the mutex of Logger is not modelled).
SignalShutdownCompletes ==
    (spc["handler"] = "shutl") ~>
        \/ destroyed
        \/ crash # "none"
        \/ [](~HandlerNeverWaitsForItself)

\* Server.hpp says of stop(): "Gracefully stop the server, disconnect clients,
\* join worker threads". A worker pushed after stop() emptied workers_ is never
\* joined, and destroying the vector calls std::terminate.
EveryWorkerJoined == crash # "orphan"

\* README: "Move-only semantics prevent descriptor leaks and double-close bugs".
\* stop() and run() can both pass the test of fd_ and both call ::close.
NoDoubleClose == \A s \in Sessions : closes[s] <= 1

\* Server.cpp: "Register SIGINT and SIGTERM handlers for graceful shutdown".
\* A signal whose handler ran stop() ends the server. One that
\* comes before is_running_ is set is forgotten.
SignalEndsServer ==
    (spc["handler"] = "ret") ~> [](~is_running \/ crash # "none")

=============================================================================
