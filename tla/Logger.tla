------------------------------- MODULE Logger -------------------------------
(***************************************************************************)
(* The Logger singleton: a mutex around a level, a log file and the        *)
(* console, used by every thread of the server, by a signal handler on top *)
(* of any of them, and at the end by its own destructor.                   *)
(***************************************************************************)
EXTENDS Integers, Sequences

CONSTANTS Workers,      \* worker threads, positive numbers
          Levels,       \* levels that calls name; DEBUG is 0, ERROR is 3
          MaxLogs,      \* bound on the log calls of each context
          MaxSignals    \* bound on delivered signals

Main    == 0
Handler == -1           \* the signal handler, a context of its own
NoOne   == -2

Threads  == Workers \cup {Main}
Contexts == Threads \cup {Handler}

ASSUME LoggerAssumption ==
    /\ Workers \subseteq Nat \ {0}
    /\ Levels \subseteq 0 .. 3
    /\ MaxLogs \in Nat /\ MaxSignals \in Nat

VARIABLES
    mutex,       \* who holds mutex_
    min_level,   \* min_level_
    fstate,      \* file_stream_: never opened, open, closed
    pc,          \* where each context is
    rec,         \* the record each context is logging
    logs,        \* calls made by each context
    file,        \* records written to the log file
    screen,      \* records written to the console
    sigOn,       \* the thread that runs the handler
    signals      \* signals delivered so far

sinkVars == <<file, screen>>
confVars == <<min_level, fstate>>
callVars == <<rec, logs>>
sigVars  == <<sigOn, signals>>
vars == <<mutex, confVars, pc, callVars, sinkVars, sigVars>>

PCs == {"init", "idle", "lock", "check", "file", "console", "unlock",
        "dlock", "dclose", "exited"}

Records == [by : Contexts, n : 0 .. MaxLogs, level : 0 .. 3]

TypeOK ==
    /\ mutex \in Contexts \cup {NoOne}
    /\ min_level \in 0 .. 3
    /\ fstate \in {"none", "open", "closed"}
    /\ pc \in [Contexts -> PCs]
    /\ rec \in [Contexts -> Records]
    /\ logs \in [Contexts -> 0 .. MaxLogs]
    /\ file \in Seq(Records) /\ screen \in Seq(Records)
    /\ sigOn \in Threads \cup {NoOne} /\ signals \in 0 .. MaxSignals

Init ==
    /\ mutex = NoOne
    /\ min_level = 1
    /\ fstate = "none"
    /\ pc = [c \in Contexts |-> IF c = Main THEN "init" ELSE "idle"]
    /\ rec = [c \in Contexts |-> [by |-> c, n |-> 0, level |-> 0]]
    /\ logs = [c \in Contexts |-> 0]
    /\ file = <<>> /\ screen = <<>>
    /\ sigOn = NoOne /\ signals = 0

-----------------------------------------------------------------------------
\* A thread makes no step of its own while it runs the handler; the handler
\* makes one only when it has been called; nobody does when the process is over.
Runs(c) ==
    /\ pc[Main] # "exited"
    /\ IF c = Handler THEN sigOn # NoOne ELSE sigOn # c

From(c, from, to) == Runs(c) /\ pc[c] = from /\ pc' = [pc EXCEPT ![c] = to]

\* Mutant: a word that server_main does not know stands for no level.
LevelOrNone == [debug |-> 0, info |-> 1, warn |-> 2, error |-> 3, other |-> 4]

\* server_main's table: a word it does not know stands for INFO.
LevelOf == [debug |-> 0, info |-> 1, warn |-> 2, error |-> 3, other |-> 1]

\* Logger::init, called by server_main before there is another thread and before
\* the handlers are installed. The log file may fail to open. The client never
\* calls it.
InitLogger ==
    /\ From(Main, "init", "idle")
    /\ mutex = NoOne
    /\ \/ /\ \E word \in DOMAIN LevelOf : min_level' = LevelOf[word]
          /\ fstate' \in {"none", "open"}
       \/ UNCHANGED confVars
    /\ UNCHANGED <<mutex, callVars, sinkVars, sigVars>>

\* Logger::set_level, one critical section that does nothing else. No code of
\* the repository calls it; here the main thread may.
SetLevel ==
    /\ From(Main, "idle", "idle")
    /\ mutex = NoOne
    /\ logs[Main] < MaxLogs
    /\ logs' = [logs EXCEPT ![Main] = @ + 1]
    /\ min_level' \in Levels
    /\ UNCHANGED <<mutex, fstate, rec, sinkVars, sigVars>>

-----------------------------------------------------------------------------
(* Logger::log_string, run by context c *)

\* One of the LOG_ macros.
Call(c) ==
    /\ From(c, "idle", "lock")
    /\ pc[Main] # "init"
    /\ logs[c] < MaxLogs
    /\ logs' = [logs EXCEPT ![c] = @ + 1]
    /\ \E level \in Levels :
         rec' = [rec EXCEPT ![c] = [by |-> c, n |-> logs[c], level |-> level]]
    /\ UNCHANGED <<mutex, confVars, sinkVars, sigVars>>

Lock(c) ==
    /\ From(c, "lock", "check")
    /\ mutex = NoOne
    /\ mutex' = c
    /\ UNCHANGED <<confVars, callVars, sinkVars, sigVars>>

\* A level below the minimum returns early, which leaves the mutex to holder.
Checks(c, holder) ==
    /\ \/ /\ From(c, "check", "file")
          /\ rec[c].level >= min_level
          /\ UNCHANGED mutex
       \/ /\ From(c, "check", "idle")
          /\ rec[c].level < min_level
          /\ mutex' = holder
    /\ UNCHANGED <<confVars, callVars, sinkVars, sigVars>>

\* Mutant: the early return forgets to unlock.
CheckKeeps(c) == Checks(c, mutex)

Check(c) == Checks(c, NoOne)

\* The record goes to the file if it is open, and the mutex to holder.
Writes(c, holder) ==
    /\ From(c, "file", "console")
    /\ file' = IF fstate = "open" THEN Append(file, rec[c]) ELSE file
    /\ mutex' = holder
    /\ UNCHANGED <<confVars, callVars, screen, sigVars>>

\* Mutant: the mutex guards the file only.
WriteFileUnlock(c) == Writes(c, NoOne)

WriteFile(c) == Writes(c, mutex)

WriteConsole(c) ==
    /\ From(c, "console", "unlock")
    /\ screen' = Append(screen, rec[c])
    /\ UNCHANGED <<mutex, confVars, callVars, file, sigVars>>

Unlock(c) ==
    /\ From(c, "unlock", "idle")
    /\ mutex' = NoOne
    /\ UNCHANGED <<confVars, callVars, sinkVars, sigVars>>

LogString(c) ==
    \/ Lock(c) \/ Check(c) \/ WriteFile(c) \/ WriteConsole(c) \/ Unlock(c)

-----------------------------------------------------------------------------
(* Signals, the end of the workers and of main, and ~Logger *)

SignalArrives ==
    /\ pc[Main] \notin {"init", "exited"}
    /\ sigOn = NoOne
    /\ signals < MaxSignals
    /\ signals' = signals + 1
    /\ \E t \in Threads : pc[t] # "exited" /\ sigOn' = t
    /\ UNCHANGED <<mutex, confVars, pc, callVars, sinkVars>>

HandlerReturns ==
    /\ Runs(Handler)
    /\ pc[Handler] = "idle"
    /\ sigOn' = NoOne
    /\ UNCHANGED <<mutex, confVars, pc, callVars, sinkVars, signals>>

WorkerEnds(w) ==
    /\ From(w, "idle", "exited")
    /\ UNCHANGED <<mutex, confVars, callVars, sinkVars, sigVars>>

\* main returns when it has joined the workers; static objects are destroyed.
MainReturns ==
    /\ From(Main, "idle", "dlock")
    /\ \A w \in Workers : pc[w] = "exited"
    /\ UNCHANGED <<mutex, confVars, callVars, sinkVars, sigVars>>

DtorLock ==
    /\ From(Main, "dlock", "dclose")
    /\ mutex = NoOne
    /\ mutex' = Main
    /\ UNCHANGED <<confVars, callVars, sinkVars, sigVars>>

DtorClose ==
    /\ From(Main, "dclose", "exited")
    /\ fstate' = IF fstate = "open" THEN "closed" ELSE fstate
    /\ mutex' = NoOne
    /\ UNCHANGED <<min_level, callVars, sinkVars, sigVars>>

Lives ==
    \/ InitLogger \/ SetLevel \/ SignalArrives \/ HandlerReturns
    \/ MainReturns \/ DtorLock \/ DtorClose

Ended == pc[Main] = "exited" /\ UNCHANGED vars

Next ==
    \/ Lives
    \/ \E c \in Contexts : Call(c) \/ LogString(c)
    \/ \E w \in Workers : WorkerEnds(w)
    \/ Ended

Spec == Init /\ [][Next]_vars

(***************************************************************************)
(* Fairness: a context that is inside log_string goes on when it can, and  *)
(* so do a handler that has nothing more to log and the destructor. No     *)
(* thread has to log or to end. The mutex is not fair; a thread gets it    *)
(* because the others make finitely many calls.                            *)
(***************************************************************************)
FairSpec ==
    /\ Spec
    /\ \A c \in Contexts : WF_vars(LogString(c))
    /\ WF_vars(HandlerReturns)
    /\ WF_vars(DtorLock \/ DtorClose)

-----------------------------------------------------------------------------
(* Properties *)

Inside == {"check", "file", "console", "unlock", "dclose"}

\* The file and the console show the same records in the same order: they differ
\* at most by the record that the holder of the mutex has put into the file and
\* not yet on the console, whatever threads and handlers log.
SinksAgree ==
    fstate = "open" =>
        \/ file = screen
        \/ \E c \in Contexts : /\ pc[c] = "console" /\ mutex = c
                               /\ file = Append(screen, rec[c])

\* A handler waits for the mutex that the thread it interrupted holds.
SelfWait == pc[Handler] = "lock" /\ mutex = sigOn

\* Every call of log_string returns, also the early return below the minimum
\* level, unless a handler on top of the mutex's holder waits for it for ever,
\* and every thread that logs with it.
CallsReturn ==
    \A c \in Contexts : (pc[c] = "lock") ~> (pc[c] = "idle" \/ []SelfWait)
=============================================================================
