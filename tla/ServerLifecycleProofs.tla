------------------------ MODULE ServerLifecycleProofs ------------------------
(***************************************************************************)
(* The threads of Server together implement ServerLifecycle, for every     *)
(* number of sessions and signals. The invariant of ServerInvariant says   *)
(* which steps are possible in which phase; here each of them is mapped to *)
(* a step of the abstract life or to none.                                 *)
(***************************************************************************)
EXTENDS ServerProofs

\* The two expressions that Life puts for the abstract variables.
Phase ==
    IF crash # "none" THEN "dead"
    ELSE IF destroyed THEN "gone"
    ELSE IF is_running THEN "serving"
    ELSE IF mpc \in {"init", "publish", "listen", "run"} THEN "starting"
    ELSE IF mpc \in {"loop", "failed", "returned"} THEN "drained"
    ELSE "draining"

Session == [s \in Sessions |-> IF wpc[s] = "none" THEN "new"
                               ELSE IF wpc[s] = "done" THEN "over"
                               ELSE "open"]

\* A step that changes neither is none of the abstract life.
LEMMA LifeStutter ==
    ASSUME UNCHANGED <<Phase, Session>>
    PROVE  UNCHANGED Life!lifeVars
BY DEF Life!lifeVars, Phase, Session

\* The phase looks at these variables only.
LEMMA PhaseStays ==
    UNCHANGED <<crash, destroyed, is_running, mpc>> => UNCHANGED Phase
BY DEF Phase

\* The sessions look at their workers only.
LEMMA SessionStays == UNCHANGED wpc => UNCHANGED Session
BY DEF Session

\* The constructed Server maps to the start of the abstract life.
LEMMA LifeInit == Init => Life!Init
BY DEF Init, Life!Init, Life!Ids, Sessions

\* Once ~Server has completed nothing is left that could make a step.
LEMMA NothingAfterDestruction ==
    ASSUME IInv, destroyed, Next
    PROVE  UNCHANGED vars
<1>1. /\ mpc = "returned" /\ spc["dtor"] = "ret" /\ spc["handler"] = "idle"
      /\ spc["owner"] \in {"idle", "ret"}
      /\ \A s \in Sessions : ~Live(s)
  BY DEF IInv, CallerInv, ThreadInv
<1>2. ~Start
  BY <1>1 DEF Start, StartInit, MainMoves, StartFails, StartPublish, Publish,
              StartListen, StartRun, MainFrom
<1>3. ~AcceptLoop
  BY <1>1 DEF AcceptLoop, LoopTest, AcceptCall, AcceptOk, Accepted,
              AcceptError, AcceptFailed, CleanupLock, CleanupSkip,
              CleanupFound, CleanupJoin, Erase, CleanupUnlock, PushLock,
              Spawn, PushWorker, SpawnFail, MainMoves, MainFrom
<1>4. ~Lifecycle
  <2>1. ~SignalArrives
    BY <1>1, ConstantsAssumption DEF SignalArrives, Alive, Live
  <2>2. ~OwnerCallsStop /\ ~HandlerLoad /\ ~HandlerReturn
    BY <1>1
    DEF OwnerCallsStop, HandlerLoad, HandlerReturn, CallerMoves, CallerFrom
  <2>3. ~DtorBegin /\ ~DtorMembers
    BY <1>1 DEF DtorBegin, DtorMembers, CallerMoves, CallerFrom
  <2> QED
    BY <2>1, <2>2, <2>3 DEF Lifecycle
<1>5. ASSUME NEW c \in Callers PROVE ~Stop(c)
  <2>1. spc[c] \in {"idle", "ret"}
    BY <1>1 DEF Callers
  <2> QED
    BY <2>1
    DEF Stop, StopCas, StopTakes, StopShutdownListener, StopCloseListener,
        StopLock, StopEnters, SessionCasFail, SessionCas, SessionShutdown,
        SessionNotOpen, SessionOpen, SessionClose, StopJoinBegin, StopJoin,
        PassWorker, StopJoinSelf, StopClear, StopLeaves, CallerMoves,
        CallerFrom
<1>6. ASSUME NEW s \in Sessions PROVE ~Run(s) /\ ~HandleThrows(s)
  BY <1>1, WorkerStep DEF HandleThrows, Live
<1> QED
  BY <1>2, <1>3, <1>4, <1>5, <1>6 DEF Next, Ended

\* The steps of the abstract life that only move its phase.
LEMMA LifeMoves ==
    ASSUME UNCHANGED Session,
           \/ Phase = "starting" /\ Phase' \in {"serving", "drained"}
           \/ Phase = "serving" /\ Phase' \in {"draining", "drained"}
           \/ Phase = "draining" /\ Phase' = "drained"
           \/ /\ Phase \in {"starting", "serving", "draining", "drained"}
              /\ Phase' = "dead"
    PROVE  Life!Next
<1>1. CASE Phase = "starting" /\ Phase' \in {"serving", "drained"}
  <2>1. Life!Serve \/ Life!GiveUp
    BY <1>1 DEF Life!Serve, Life!GiveUp, Life!Moves, Phase, Session
  <2> QED
    BY <2>1 DEF Life!Next
<1>2. CASE Phase = "serving" /\ Phase' \in {"draining", "drained"}
  <2>1. Life!Stop
    BY <1>2 DEF Life!Stop, Life!Moves, Phase, Session
  <2> QED
    BY <2>1 DEF Life!Next
<1>3. CASE Phase = "draining" /\ Phase' = "drained"
  <2>1. Life!Drain
    BY <1>3 DEF Life!Drain, Life!Moves, Phase, Session
  <2> QED
    BY <2>1 DEF Life!Next
<1>4. CASE /\ Phase \in {"starting", "serving", "draining", "drained"}
           /\ Phase' = "dead"
  <2>1. Life!Die
    BY <1>4 DEF Life!Die, Life!Moves, Life!Alive, Phase, Session
  <2> QED
    BY <2>1 DEF Life!Next
<1> QED
  BY <1>1, <1>2, <1>3, <1>4

\* start() reaches the accept loop or gives up.
LEMMA StartLife ==
    ASSUME IInv, ~destroyed, Start
    PROVE  [Life!Next]_(Life!lifeVars)
<1> USE DEF runVars, netVars, poolVars, mainVars, sessVars, endVars, notMain,
            notPool
<1>1. /\ mpc \in {"init", "publish", "listen", "run"} /\ crash = "none"
      /\ UNCHANGED <<crash, destroyed, wpc>>
  BY DEF Start, StartInit, StartPublish, Publish, StartListen, StartRun,
         StartFails, MainMoves, MainFrom, Runs
<1>2. ~is_running
  BY <1>1 DEF IInv, RunningInv, Early
<1>3. UNCHANGED Session
  BY <1>1, SessionStays
<1>4. Phase = "starting"
  BY <1>1, <1>2 DEF Phase
<1>5. CASE StartRun
  <2>1. Phase' = "serving"
    BY <1>1, <1>5 DEF StartRun, Phase
  <2> QED
    BY <1>3, <1>4, <2>1, LifeMoves
<1>6. CASE StartFails("init") \/ StartFails("listen")
  <2>1. Phase' = "drained"
    BY <1>1, <1>2, <1>6 DEF StartFails, MainFrom, Phase
  <2> QED
    BY <1>3, <1>4, <2>1, LifeMoves
<1>7. CASE \/ MainMoves("init", "publish") \/ StartPublish
           \/ MainFrom("listen", "run") /\ UNCHANGED runVars
  <2>1. Phase' = "starting"
    BY <1>1, <1>2, <1>7
    DEF StartPublish, Publish, MainMoves, MainFrom, Phase
  <2> QED
    BY <1>3, <1>4, <2>1, LifeStutter
<1> QED
  BY <1>5, <1>6, <1>7 DEF Start, StartInit, StartListen

\* The accept loop drains with its last iteration, which may still open the
\* session whose connection it had accepted.
LEMMA AcceptLife ==
    ASSUME IInv, ~destroyed, AcceptLoop
    PROVE  [Life!Next]_(Life!lifeVars)
<1> USE DEF runVars, netVars, poolVars, mainVars, sessVars, endVars, notMain,
            notPool
<1>1. crash = "none" /\ UNCHANGED <<destroyed, is_running>>
  BY DEF AcceptLoop, LoopTest, AcceptCall, AcceptOk, Accepted, AcceptError,
         AcceptFailed, CleanupLock, CleanupSkip, CleanupFound, CleanupJoin,
         Erase, CleanupUnlock, PushLock, Spawn, PushWorker, SpawnFail,
         MainMoves, MainFrom, Runs
<1>2. CASE LoopTest \/ AcceptFailed
  <2>1. /\ mpc \in {"loop", "failed"} /\ UNCHANGED <<crash, wpc>>
        /\ ~is_running => mpc' = "returned"
    BY <1>2 DEF LoopTest, AcceptFailed, MainMoves, MainFrom
  <2>2. UNCHANGED Phase
    BY <1>1, <2>1 DEF Phase
  <2> QED
    BY <2>1, <2>2, SessionStays, LifeStutter
<1>3. CASE AcceptCall \/ AcceptError
  <2>1. /\ mpc \in {"accept", "blocked"} /\ mpc' \in {"blocked", "failed"}
        /\ UNCHANGED <<crash, wpc>>
    BY <1>3 DEF AcceptCall, AcceptError, MainMoves, MainFrom
  <2>2. UNCHANGED Session
    BY <2>1, SessionStays
  <2>3. CASE is_running \/ mpc' = "blocked"
    <3>1. UNCHANGED Phase
      BY <1>1, <2>1, <2>3 DEF Phase
    <3> QED
      BY <2>2, <3>1, LifeStutter
  <2>4. CASE ~is_running /\ mpc' = "failed"
    <3>1. Phase = "draining" /\ Phase' = "drained"
      BY <1>1, <2>1, <2>4 DEF Phase
    <3> QED
      BY <2>2, <3>1, LifeMoves
  <2> QED
    BY <2>1, <2>3, <2>4
<1>4. CASE AcceptOk \/ CleanupLock \/ CleanupSkip \/ CleanupFound
             \/ CleanupJoin \/ CleanupUnlock \/ PushLock
  <2>1. /\ mpc \in {"blocked", "clock", "cvisit", "cjoin", "push"}
        /\ mpc' \in {"clock", "cvisit", "cjoin", "push", "spawn"}
        /\ UNCHANGED <<crash, wpc>>
    BY <1>4
    DEF AcceptOk, Accepted, CleanupLock, CleanupSkip, CleanupFound,
        CleanupJoin, Erase, CleanupUnlock, PushLock, MainMoves, MainFrom
  <2>2. UNCHANGED Phase
    BY <1>1, <2>1 DEF Phase
  <2> QED
    BY <2>1, <2>2, SessionStays, LifeStutter
<1>5. CASE Spawn
  <2>0. PICK sid \in Int : sid = next_session_id - 1
    BY DEF IInv, TypeOK
  <2>1. /\ mpc = "spawn" /\ mpc' = "loop" /\ UNCHANGED crash
        /\ wpc' = [wpc EXCEPT ![sid] = "start"]
    BY <1>5, <2>0 DEF Spawn, PushWorker, MainFrom
  <2>2. \/ Phase = "serving" /\ Phase' = "serving"
        \/ Phase = "draining" /\ Phase' = "drained"
    BY <1>1, <2>1 DEF Phase
  <2>3. sid \in Sessions /\ wpc[sid] = "none"
    BY <2>0, <2>1, ConstantsAssumption
    DEF IInv, ThreadInv, TypeOK, Holding, Sessions
  <2>4. \A t \in 1 .. sid - 1 : t \in Sessions /\ wpc[t] # "none"
    BY <2>0, <2>3, ConstantsAssumption DEF IInv, OrderInv, TypeOK, Sessions
  <2>5. Session[sid] = "new" /\ \A t \in 1 .. sid - 1 : Session[t] # "new"
    BY <2>3, <2>4 DEF Session
  <2>6. Session' = [Session EXCEPT ![sid] = "open"]
    BY <2>1, <2>3 DEF Session, IInv, TypeOK
  <2>7. Life!Open(sid)
    <3>1. \/ Life!Moves({"serving"}, {"serving"})
          \/ Life!Moves({"draining"}, {"drained"})
      BY <2>2 DEF Life!Moves, Phase
    <3> QED
      BY <2>5, <2>6, <3>1 DEF Life!Open, Session
  <2> QED
    BY <2>3, <2>7 DEF Life!Next, Life!Ids, Sessions
<1>6. CASE SpawnFail
  <2>1. crash' = "spawn" /\ UNCHANGED wpc
    BY <1>6 DEF SpawnFail
  <2>2. Phase \in {"starting", "serving", "draining", "drained"}
        /\ Phase' = "dead"
    BY <1>1, <2>1 DEF Phase
  <2> QED
    BY <2>1, <2>2, SessionStays, LifeMoves
<1> QED
  BY <1>2, <1>3, <1>4, <1>5, <1>6 DEF AcceptLoop

\* The calls of stop() change nothing before its compare-exchange; ~Server
\* ends the life, or std::terminate does.
LEMMA OwnerLife ==
    ASSUME IInv, ~destroyed, Lifecycle
    PROVE  [Life!Next]_(Life!lifeVars)
<1> USE DEF runVars, mainVars, sessVars, endVars
<1>1. CASE DtorMembers
  <2>1. crash = "none" /\ spc["dtor"] = "ret" /\ UNCHANGED wpc
    BY <1>1 DEF DtorMembers, CallerRuns
  <2>2. mpc = "returned" /\ ~is_running
    BY <2>1 DEF IInv, CallerInv, RunningInv
  <2>3. Phase = "drained" /\ UNCHANGED Session
    BY <2>1, <2>2, SessionStays DEF Phase
  <2>4. CASE workers = {}
    <3>1. Phase' = "gone"
      BY <1>1, <2>1, <2>4 DEF DtorMembers, Phase
    <3>2. \A s \in Sessions : Session[s] # "open"
      BY <2>4 DEF IInv, ThreadInv, Live, Session
    <3>3. Life!Finish
      BY <2>3, <3>1, <3>2
      DEF Life!Finish, Life!Moves, Life!Ids, Sessions, Phase, Session
    <3> QED
      BY <3>3 DEF Life!Next
  <2>5. CASE workers # {}
    <3>1. Phase' = "dead"
      BY <1>1, <2>5 DEF DtorMembers, Phase
    <3> QED
      BY <2>3, <3>1, LifeMoves
  <2> QED
    BY <2>4, <2>5
<1>2. CASE ~DtorMembers
  <2>1. UNCHANGED <<crash, destroyed, is_running, mpc, wpc>>
    BY <1>2 DEF Lifecycle, OwnerCallsStop, SignalArrives, HandlerLoad,
                HandlerReturn, DtorBegin, CallerMoves
  <2> QED
    BY <2>1, PhaseStays, SessionStays, LifeStutter
<1> QED
  BY <1>1, <1>2

\* stop() ends serving with its compare-exchange, and the process when the
\* handler runs on a thread that it has to join.
LEMMA StopLife ==
    ASSUME IInv, ~destroyed, NEW c \in Callers, Stop(c)
    PROVE  [Life!Next]_(Life!lifeVars)
<1> USE DEF runVars, mainVars, sessVars, endVars, notCaller, notLoop
<1>1. CASE StopCas(c)
  <2>1. /\ crash = "none" /\ is_running' = FALSE
        /\ UNCHANGED <<crash, destroyed, mpc, wpc>>
    BY <1>1, ConstantsAssumption DEF StopCas, StopTakes, CallerFrom, CallerRuns
  <2>2. CASE is_running
    <3>1. mpc \notin {"init", "publish", "listen", "run"}
      BY <2>2 DEF IInv, RunningInv, Early
    <3>2. Phase = "serving" /\ Phase' \in {"draining", "drained"}
      BY <2>1, <2>2, <3>1 DEF Phase
    <3> QED
      BY <2>1, <3>2, SessionStays, LifeMoves
  <2>3. CASE ~is_running
    <3>1. UNCHANGED Phase
      BY <2>1, <2>3 DEF Phase
    <3> QED
      BY <2>1, <3>1, SessionStays, LifeStutter
  <2> QED
    BY <2>2, <2>3
<1>2. CASE StopJoinSelf(c)
  <2>1. crash = "none" /\ crash' = "selfjoin" /\ UNCHANGED wpc
    BY <1>2 DEF StopJoinSelf, CallerRuns
  <2>2. Phase \in {"starting", "serving", "draining", "drained"}
        /\ Phase' = "dead"
    BY <2>1 DEF Phase
  <2> QED
    BY <2>1, <2>2, SessionStays, LifeMoves
<1>3. CASE ~StopCas(c) /\ ~StopJoinSelf(c)
  <2>1. UNCHANGED <<crash, destroyed, is_running, mpc, wpc>>
    BY <1>3
    DEF Stop, StopShutdownListener, StopCloseListener, StopLock, StopEnters,
        SessionCasFail, SessionCas, SessionShutdown, SessionNotOpen,
        SessionOpen, SessionClose, StopJoinBegin, StopJoin, PassWorker,
        StopClear, StopLeaves, CallerMoves
  <2> QED
    BY <2>1, PhaseStays, SessionStays, LifeStutter
<1> QED
  BY <1>1, <1>2, <1>3

\* A worker's last step ends its session; the others are not seen.
LEMMA WorkerLife ==
    ASSUME IInv, ~destroyed, NEW s \in Sessions, Run(s)
    PROVE  [Life!Next]_(Life!lifeVars)
<1> USE DEF runVars, mainVars, endVars, notWorker
<1>1. PICK q \in WorkPC \ {"none"} : wpc' = [wpc EXCEPT ![s] = q]
  BY WorkerStep
<1>2. Live(s) /\ UNCHANGED <<crash, destroyed, is_running, mpc>>
  BY WorkerStep
<1>3. crash = "none"
  BY DEF Run, RunStart, RunTest, RecvCall, RecvLine, RecvFail, HandleLast,
         HandleReply, HandleError, RunExit, CloseTest, Close, WorkerMoves,
         WorkerFrom, Runs
<1>4. UNCHANGED Phase
  BY <1>2, PhaseStays
<1>5. Session[s] = "open" /\ wpc \in [Sessions -> WorkPC]
  BY <1>2 DEF Session, Live, IInv, TypeOK
<1>6. CASE q = "done"
  <2>1. Session' = [Session EXCEPT ![s] = "over"]
    BY <1>1, <1>5, <1>6 DEF Session
  <2>2. Phase \in {"starting", "serving", "draining", "drained"}
    BY <1>3 DEF Phase
  <2>3. Life!Close(s)
    BY <1>4, <1>5, <2>1, <2>2 DEF Life!Close, Life!Alive, Phase, Session
  <2> QED
    BY <2>3 DEF Life!Next, Life!Ids, Sessions
<1>7. CASE q # "done"
  <2>1. \A t \in Sessions : Session'[t] = Session[t]
    BY <1>1, <1>2, <1>5, <1>7 DEF Session, Live
  <2>2. UNCHANGED Session
    BY <2>1 DEF Session
  <2> QED
    BY <1>4, <2>2, LifeStutter
<1> QED
  BY <1>6, <1>7

\* An exception out of a handler ends the life.
LEMMA ThrowLife ==
    ASSUME ~destroyed, NEW s \in Sessions, HandleThrows(s)
    PROVE  [Life!Next]_(Life!lifeVars)
<1>1. crash = "none" /\ crash' = "throw" /\ UNCHANGED wpc
  BY DEF HandleThrows, Runs, sessVars
<1>2. /\ Phase \in {"starting", "serving", "draining", "drained"}
      /\ Phase' = "dead"
  BY <1>1 DEF Phase
<1> QED
  BY <1>1, <1>2, SessionStays, LifeMoves

\* Every step is a step of the abstract life or is not seen by it.
LEMMA LifeNext ==
    ASSUME IInv, [Next]_vars
    PROVE  [Life!Next]_(Life!lifeVars)
<1> USE DEF vars, runVars, netVars, poolVars, mainVars, stopVars, sessVars,
            sigVars, endVars, notMain, notCaller, notWorker, notPool, notLoop
<1>1. CASE UNCHANGED vars
  BY <1>1, PhaseStays, SessionStays, LifeStutter
<1>2. CASE destroyed
  BY <1>1, <1>2, NothingAfterDestruction
<1>3. CASE ~destroyed /\ Start
  BY <1>3, StartLife
<1>4. CASE ~destroyed /\ AcceptLoop
  BY <1>4, AcceptLife
<1>5. CASE ~destroyed /\ Lifecycle
  BY <1>5, OwnerLife
<1>6. ASSUME ~destroyed, NEW c \in Callers, Stop(c)
      PROVE  [Life!Next]_(Life!lifeVars)
  BY <1>6, StopLife
<1>7. ASSUME ~destroyed, NEW s \in Sessions, Run(s)
      PROVE  [Life!Next]_(Life!lifeVars)
  BY <1>7, WorkerLife
<1>8. ASSUME ~destroyed, NEW s \in Sessions, HandleThrows(s)
      PROVE  [Life!Next]_(Life!lifeVars)
  BY <1>8, ThrowLife
<1> QED
  BY <1>1, <1>2, <1>3, <1>4, <1>5, <1>6, <1>7, <1>8 DEF Next, Ended

\* Server implements ServerLifecycle.
THEOREM LifecycleRefinement == Spec => LifecycleSpec
<1>1. IInv /\ [Next]_vars => [Life!Next]_(Life!lifeVars)
  BY LifeNext
<1> QED
  BY <1>1, LifeInit, Invariance, PTL DEF Spec, LifecycleSpec, Life!Spec
=============================================================================
