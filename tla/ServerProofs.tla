---------------------------- MODULE ServerProofs ----------------------------
(***************************************************************************)
(* The invariant of ServerInvariant is inductive, for every number of      *)
(* sessions and signals, with and without an owner thread; the safety      *)
(* properties of Server follow. One lemma per part of the invariant, one   *)
(* step per action that can disturb it; actions that leave its variables   *)
(* alone are taken together.                                               *)
(***************************************************************************)
EXTENDS ServerInvariant, TLAPS

\* The invariant holds when the Server object has been constructed.
LEMMA InitInv == Init => IInv
<1> SUFFICES ASSUME Init PROVE IInv
  OBVIOUS
<1> USE ConstantsAssumption DEF Init, Callers, Sessions, Main, NoThread
<1>1. /\ is_running \in BOOLEAN /\ running_instance \in BOOLEAN
      /\ handlers \in BOOLEAN /\ lfd \in BOOLEAN
      /\ destroyed \in BOOLEAN /\ startFailed \in BOOLEAN
  BY Zenon
<1>2. TypeOK BY <1>1 DEF TypeOK, MainPC, StopPC, WorkPC
<1>3. MutexInv /\ IteratorsValid /\ CleanupNeverWaitsForClient
  BY DEF MutexInv, IteratorsValid, CleanupNeverWaitsForClient, Looping
<1>4. ThreadInv /\ OrderInv /\ ActiveInv /\ ReapInv
  BY DEF ThreadInv, OrderInv, ActiveInv, ReapInv, Live, Holding
<1>5. DescriptorInv BY DEF DescriptorInv
<1>6. RunningInv BY DEF RunningInv, Early, Body
<1>7. CallerInv BY DEF CallerInv
<1>8. OnlyOneStopper /\ StopFindsListener /\ InstanceInv
  BY DEF OnlyOneStopper, StopFindsListener, InstanceInv, Early, Body
<1> QED BY <1>2, <1>3, <1>4, <1>5, <1>6, <1>7, <1>8, Zenon DEF IInv

\* A worker's step moves its own pc among the pcs of a live thread, or ends it,
\* and touches nothing but the session.
LEMMA WorkerStep ==
    ASSUME NEW s \in Sessions, Run(s)
    PROVE  /\ Live(s)
           /\ \E q \in WorkPC \ {"none"} : wpc' = [wpc EXCEPT ![s] = q]
           /\ sigOn = s => spc["handler"] = "idle"
           /\ UNCHANGED <<notWorker, conn>>
<1> USE DEF WorkerMoves, WorkerFrom, Runs, Live, WorkPC
<1>1. CASE RunTest(s)
  <2>1. wpc' = [wpc EXCEPT ![s] = "recv"] \/ wpc' = [wpc EXCEPT ![s] = "exit"]
    BY <1>1 DEF RunTest
  <2> QED BY <1>1, <2>1 DEF RunTest
<1>2. CASE RecvCall(s)
  <2>1. \/ wpc' = [wpc EXCEPT ![s] = "blocked"]
        \/ wpc' = [wpc EXCEPT ![s] = "exit"]
    BY <1>2 DEF RecvCall
  <2> QED BY <1>2, <2>1 DEF RecvCall
<1>3. CASE CloseTest(s)
  <2>1. \/ wpc' = [wpc EXCEPT ![s] = "closing"]
        \/ wpc' = [wpc EXCEPT ![s] = "done"]
    BY <1>3 DEF CloseTest
  <2> QED BY <1>3, <2>1 DEF CloseTest
<1>4. CASE RunStart(s) \/ RunExit(s) BY <1>4 DEF RunStart, RunExit
<1>5. CASE RecvLine(s) \/ RecvFail(s) BY <1>5 DEF RecvLine, RecvFail
<1>6. CASE HandleLast(s) \/ HandleReply(s) \/ HandleError(s)
  BY <1>6 DEF HandleLast, HandleReply, HandleError
<1>7. CASE Close(s) BY <1>7 DEF Close
<1> QED BY <1>1, <1>2, <1>3, <1>4, <1>5, <1>6, <1>7 DEF Run

\* A session whose worker has ended has nothing open for ~Socket to close.
LEMMA NothingToRelease ==
    ASSUME TypeOK, DescriptorInv, NEW gone, gone \subseteq Sessions,
           Release(gone)
    PROVE  UNCHANGED <<fd, closes>>
<1>1. {s \in gone : wpc[s] = "done" /\ fd[s]} = {}
  BY DEF DescriptorInv
<1>2. /\ fd' = [s \in Sessions |-> fd[s]]
      /\ closes' = [s \in Sessions |-> closes[s]]
  <2>1. \A s \in Sessions : fd[s] \in BOOLEAN
    BY DEF TypeOK
  <2> QED BY <1>1, <2>1 DEF Release
<1> QED BY <1>2 DEF TypeOK

\* Erasing an entry, by cleanup or by stop(), therefore changes no descriptor.
LEMMA ErasedWasClosed ==
    ASSUME IInv, CleanupJoin \/ \E c \in Callers : StopClear(c)
    PROVE  UNCHANGED <<fd, closes>>
<1>0. TypeOK /\ DescriptorInv /\ workers \subseteq Sessions
      /\ mtodo \subseteq Sessions
  BY DEF IInv, TypeOK
<1>1. CASE CleanupJoin
  <2>1. PICK s \in mtodo : Release({s})
    BY <1>1 DEF CleanupJoin, Erase
  <2>2. {s} \subseteq Sessions
    BY <1>0
  <2> QED BY <1>0, <2>1, <2>2, NothingToRelease
<1>2. CASE \E c \in Callers : StopClear(c)
  <2>1. Release(workers)
    BY <1>2 DEF StopClear, StopLeaves
  <2> QED BY <1>0, <2>1, NothingToRelease
<1> QED BY <1>1, <1>2

\* Type correctness: the ids that accept_loop pushes are ids it has given out.
LEMMA TypeStep == IInv /\ [Next]_vars => TypeOK'
<1> SUFFICES ASSUME IInv, [Next]_vars PROVE TypeOK'
  OBVIOUS
<1> USE ConstantsAssumption DEF IInv, TypeOK, ThreadInv, Callers, Sessions,
    Holding, MainPC, StopPC, WorkPC, Main, NoThread, vars, runVars, netVars,
    poolVars, mainVars, stopVars, sessVars, sigVars, endVars, notMain,
    notCaller, notWorker, notPool, notLoop
<1>1. CASE Start
  <2>1. ASSUME NEW from \in MainPC, StartFails(from) PROVE TypeOK'
    <3>1. startFailed' \in BOOLEAN BY <2>1, Zenon DEF StartFails
    <3> QED BY <2>1, <3>1 DEF StartFails, MainFrom
  <2>2. CASE StartInit
    <3>1. CASE MainMoves("init", "publish") BY <3>1 DEF MainMoves, MainFrom
    <3> QED BY <2>1, <2>2, <3>1 DEF StartInit
  <2>3. CASE StartPublish BY <2>3 DEF StartPublish, Publish, MainFrom
  <2>4. CASE StartListen
    <3>1. CASE StartFails("listen") BY <2>1, <3>1
    <3>2. CASE /\ MainFrom("listen", "run")
               /\ lfd' = TRUE
               /\ lstate' = "listening"
               /\ UNCHANGED <<notMain, runVars, poolVars, sessVars,
                              next_session_id, mtodo, ended, startFailed>>
      BY <3>2 DEF MainFrom
    <3> QED BY <2>4, <3>1, <3>2 DEF StartListen
  <2>5. CASE StartRun BY <2>5 DEF StartRun, MainFrom
  <2> QED BY <1>1, <2>2, <2>3, <2>4, <2>5 DEF Start
<1>2. CASE AcceptLoop
  <2>1. CASE LoopTest BY <2>1 DEF LoopTest, MainMoves, MainFrom, Runs
  <2>2. CASE AcceptCall BY <2>2 DEF AcceptCall, MainMoves, MainFrom, Runs
  <2>3. CASE AcceptOk BY <2>3 DEF AcceptOk, Accepted, MainFrom, Runs
  <2>4. CASE AcceptError BY <2>4 DEF AcceptError, MainMoves, MainFrom, Runs
  <2>5. CASE AcceptFailed BY <2>5 DEF AcceptFailed, MainMoves, MainFrom, Runs
  <2>6. CASE CleanupLock BY <2>6, ZenonT(60) DEF CleanupLock, MainFrom, Runs
  <2>7. CASE CleanupSkip BY <2>7 DEF CleanupSkip, IsFirst, MainFrom, Runs
  <2>8. CASE CleanupFound BY <2>8 DEF CleanupFound, IsFirst, MainMoves,
      MainFrom, Runs
  <2>9. CASE CleanupJoin
    <3>1. UNCHANGED <<fd, closes>> BY <2>9, ErasedWasClosed
    <3> QED BY <2>9, <3>1 DEF CleanupJoin, Erase, Joined, IsFirst, MainFrom
  <2>10. CASE CleanupUnlock BY <2>10 DEF CleanupUnlock, MainFrom, Runs
  <2>11. CASE PushLock BY <2>11 DEF PushLock, MainFrom, Runs
  <2>12. CASE Spawn BY <2>12 DEF Spawn, PushWorker, MainFrom, Runs
  <2>13. CASE SpawnFail BY <2>13 DEF SpawnFail, MainFrom, Runs
  <2> QED BY <1>2, <2>1, <2>2, <2>3, <2>4, <2>5, <2>6, <2>7, <2>8, <2>9,
      <2>10, <2>11, <2>12, <2>13 DEF AcceptLoop
<1>3. CASE Lifecycle
  <2>1. CASE OwnerCallsStop BY <2>1 DEF OwnerCallsStop, CallerMoves,
      CallerFrom, CallerRuns, Runs
  <2>2. CASE SignalArrives BY <2>2 DEF SignalArrives, Alive, CallerFrom,
      CallerRuns
  <2>3. CASE HandlerLoad BY <2>3 DEF HandlerLoad, CallerMoves, CallerFrom,
      CallerRuns, Runs
  <2>4. CASE HandlerReturn BY <2>4 DEF HandlerReturn, CallerFrom, CallerRuns,
      Runs
  <2>5. CASE DtorBegin BY <2>5 DEF DtorBegin, CallerMoves, CallerFrom,
      CallerRuns, Runs
  <2>6. CASE DtorMembers
    <3>1. lfd' \in BOOLEAN BY <2>6, Zenon DEF DtorMembers
    <3>2. destroyed' \in BOOLEAN BY <2>6, Zenon DEF DtorMembers
    <3>3. crash' \in {"none", "orphan", "spawn", "selfjoin", "throw"}
      BY <2>6 DEF DtorMembers
    <3> QED BY <2>6, <3>1, <3>2, <3>3 DEF DtorMembers
  <2> QED BY <1>3, <2>1, <2>2, <2>3, <2>4, <2>5, <2>6 DEF Lifecycle
<1>4. ASSUME NEW c \in Callers, Stop(c) PROVE TypeOK'
  <2>1. CASE StopCas(c)
    <3>1. spc' \in [Callers -> StopPC]
      BY <2>1 DEF StopCas, StopTakes, CallerFrom
    <3>2. is_running' \in BOOLEAN BY <2>1, Zenon DEF StopCas, StopTakes
    <3> QED BY <2>1, <3>1, <3>2 DEF StopCas, StopTakes
  <2>2. CASE StopShutdownListener(c) BY <2>2 DEF StopShutdownListener,
      CallerFrom, CallerRuns, Runs
  <2>3. CASE StopCloseListener(c)
    <3>1. lfd' \in BOOLEAN BY <2>3, Zenon DEF StopCloseListener
    <3> QED BY <2>3, <3>1 DEF StopCloseListener, CallerFrom
  <2>4. CASE StopLock(c) BY <2>4 DEF StopLock, StopEnters, CallerFrom,
      CallerRuns, Runs
  <2>5. CASE SessionCasFail(c) BY <2>5 DEF SessionCasFail, IsFirst,
      CallerFrom, CallerRuns, Runs
  <2>6. CASE SessionCas(c) BY <2>6 DEF SessionCas, IsFirst, CallerFrom,
      CallerRuns, Runs
  <2>7. CASE SessionShutdown(c) BY <2>7 DEF SessionShutdown, IsFirst,
      CallerFrom, CallerRuns, Runs
  <2>8. CASE SessionNotOpen(c) BY <2>8 DEF SessionNotOpen, IsFirst,
      CallerFrom, CallerRuns, Runs
  <2>9. CASE SessionOpen(c) BY <2>9 DEF SessionOpen, IsFirst, CallerMoves,
      CallerFrom, CallerRuns, Runs
  <2>10. CASE SessionClose(c) BY <2>10 DEF SessionClose, IsFirst, CallerFrom,
      CallerRuns, Runs
  <2>11. CASE StopJoinBegin(c) BY <2>11 DEF StopJoinBegin, CallerFrom,
      CallerRuns, Runs
  <2>12. CASE StopJoin(c) BY <2>12 DEF StopJoin, PassWorker, Joined, IsFirst,
      CallerFrom, CallerRuns, Runs
  <2>13. CASE StopJoinSelf(c) BY <2>13 DEF StopJoinSelf, IsFirst, CallerRuns,
      Runs
  <2>14. CASE StopClear(c)
    <3>1. running_instance' \in BOOLEAN
      BY <2>14, Zenon DEF StopClear, StopLeaves
    <3>2. UNCHANGED <<fd, closes>> BY <2>14, ErasedWasClosed
    <3> QED BY <2>14, <3>1, <3>2 DEF StopClear, StopLeaves, CallerFrom
  <2> QED BY <1>4, <2>1, <2>2, <2>3, <2>4, <2>5, <2>6, <2>7, <2>8, <2>9,
      <2>10, <2>11, <2>12, <2>13, <2>14 DEF Stop
<1>5. ASSUME NEW s \in Sessions, Run(s) PROVE TypeOK'
  <2>1. CASE RunStart(s) BY <2>1 DEF RunStart, WorkerFrom, Runs
  <2>2. CASE RunTest(s) BY <2>2 DEF RunTest, WorkerMoves, WorkerFrom, Runs
  <2>3. CASE RecvCall(s) BY <2>3 DEF RecvCall, WorkerMoves, WorkerFrom, Runs
  <2>4. CASE RecvLine(s) BY <2>4 DEF RecvLine, WorkerMoves, WorkerFrom, Runs
  <2>5. CASE RecvFail(s) BY <2>5 DEF RecvFail, WorkerMoves, WorkerFrom, Runs
  <2>6. CASE HandleLast(s) BY <2>6 DEF HandleLast, WorkerFrom, Runs
  <2>7. CASE HandleReply(s) BY <2>7 DEF HandleReply, WorkerMoves, WorkerFrom,
      Runs
  <2>8. CASE HandleError(s) BY <2>8 DEF HandleError, WorkerMoves, WorkerFrom,
      Runs
  <2>9. CASE RunExit(s) BY <2>9 DEF RunExit, WorkerFrom, Runs
  <2>10. CASE CloseTest(s) BY <2>10 DEF CloseTest, WorkerMoves, WorkerFrom,
      Runs
  <2>11. CASE Close(s) BY <2>11 DEF Close, WorkerFrom, Runs
  <2> QED BY <1>5, <2>1, <2>2, <2>3, <2>4, <2>5, <2>6, <2>7, <2>8, <2>9,
      <2>10, <2>11 DEF Run
<1>6. CASE UNCHANGED vars BY <1>6
<1>7. ASSUME NEW s \in Sessions, HandleThrows(s) PROVE TypeOK'
  BY <1>7 DEF HandleThrows
<1> QED BY <1>1, <1>2, <1>3, <1>4, <1>5, <1>6, <1>7
    DEF Next, Ended

\* The lock_guards: workers_mutex_ is taken and released where the pcs say.
LEMMA MutexStep == IInv /\ [Next]_vars => MutexInv'
<1> SUFFICES ASSUME IInv, [Next]_vars PROVE MutexInv'
  OBVIOUS
<1> USE ConstantsAssumption DEF IInv, TypeOK, MutexInv, Callers, Looping,
    StopPC, MainPC, vars, runVars, netVars, poolVars, mainVars, stopVars,
    sessVars, sigVars, endVars, notMain, notCaller, notWorker, notPool,
    notLoop
<1>1. CASE Start
  BY <1>1 DEF Start, StartInit, MainMoves, StartFails, MainFrom, Runs,
      StartPublish, Publish, StartListen, StartRun
<1>2. CASE AcceptLoop
  BY <1>2 DEF AcceptLoop, LoopTest, MainMoves, MainFrom, Runs, AcceptCall,
      AcceptOk, Accepted, AcceptError, AcceptFailed, CleanupLock, CleanupSkip,
      IsFirst, CleanupFound, CleanupJoin, Erase, Joined, CleanupUnlock,
      PushLock, Spawn, PushWorker, SpawnFail
<1>3. CASE Lifecycle
  BY <1>3 DEF Lifecycle, OwnerCallsStop, CallerMoves, CallerFrom, CallerRuns,
      Runs, SignalArrives, Alive, HandlerLoad, HandlerReturn, DtorBegin,
      DtorMembers
<1>4. ASSUME NEW c \in Callers, Stop(c) PROVE MutexInv'
  BY <1>4 DEF Stop, StopCas, StopTakes, CallerFrom, CallerRuns, Runs,
      StopShutdownListener, StopCloseListener, StopLock, StopEnters,
      SessionCasFail, IsFirst, SessionCas, SessionShutdown, SessionNotOpen,
      SessionOpen, CallerMoves, SessionClose, StopJoinBegin, StopJoin,
      PassWorker, Joined, StopJoinSelf, StopClear, StopLeaves
<1>5. ASSUME NEW s \in Sessions, Run(s) PROVE MutexInv'
  BY <1>5 DEF Run, RunStart, WorkerFrom, Runs, RunTest, WorkerMoves, RecvCall,
      RecvLine, RecvFail, HandleLast, HandleReply, HandleError, RunExit,
      CloseTest, Close
<1>6. CASE UNCHANGED vars BY <1>6
<1>7. ASSUME NEW s \in Sessions, HandleThrows(s) PROVE MutexInv'
  BY <1>7 DEF HandleThrows
<1> QED BY <1>1, <1>2, <1>3, <1>4, <1>5, <1>6, <1>7
    DEF Next, Ended

\* Nobody changes workers_ under an iteration: that needs the mutex.
LEMMA IteratorsStep == IInv /\ [Next]_vars => IteratorsValid'
<1> SUFFICES ASSUME IInv, [Next]_vars PROVE IteratorsValid'
  OBVIOUS
<1> USE ConstantsAssumption DEF IInv, TypeOK, MutexInv, IteratorsValid,
    ThreadInv, Callers, Looping, StopPC, MainPC, Live, vars, runVars, netVars,
    poolVars, mainVars, stopVars, sessVars, sigVars, endVars, notMain,
    notCaller, notWorker, notPool, notLoop
<1>1. CASE Start
  BY <1>1 DEF Start, StartInit, MainMoves, StartFails, MainFrom, Runs,
      StartPublish, Publish, StartListen, StartRun
<1>2. CASE AcceptLoop
  BY <1>2 DEF AcceptLoop, LoopTest, MainMoves, MainFrom, Runs, AcceptCall,
      AcceptOk, Accepted, AcceptError, AcceptFailed, CleanupLock, CleanupSkip,
      IsFirst, CleanupFound, CleanupJoin, Erase, Joined, CleanupUnlock,
      PushLock, Spawn, PushWorker, SpawnFail
<1>3. CASE Lifecycle
  <2>1. CASE OwnerCallsStop BY <2>1 DEF OwnerCallsStop, CallerMoves,
      CallerFrom, CallerRuns, Runs
  <2>2. CASE SignalArrives BY <2>2 DEF SignalArrives, Alive, CallerFrom,
      CallerRuns
  <2>3. CASE HandlerLoad BY <2>3 DEF HandlerLoad, CallerMoves, CallerFrom,
      CallerRuns, Runs
  <2>4. CASE HandlerReturn BY <2>4 DEF HandlerReturn, CallerFrom, CallerRuns,
      Runs
  <2>5. CASE DtorBegin BY <2>5 DEF DtorBegin, CallerMoves, CallerFrom,
      CallerRuns, Runs
  <2>6. CASE UNCHANGED <<mpc, mtodo, workers, spc, stodo, wpc>>
    BY <2>6
  <2> QED BY <1>3, <2>1, <2>2, <2>3, <2>4, <2>5, <2>6 DEF Lifecycle,
      DtorMembers, CallerFrom
<1>4. ASSUME NEW c \in Callers, Stop(c) PROVE IteratorsValid'
  <2>1. CASE StopCas(c) BY <2>1 DEF StopCas, StopTakes, CallerFrom,
      CallerRuns, Runs
  <2>2. CASE StopShutdownListener(c) BY <2>2 DEF StopShutdownListener,
      CallerFrom, CallerRuns, Runs
  <2>3. CASE StopCloseListener(c) BY <2>3 DEF StopCloseListener, CallerFrom,
      CallerRuns, Runs
  <2>4. CASE StopLock(c) BY <2>4 DEF StopLock, StopEnters, CallerFrom,
      CallerRuns, Runs
  <2>5. CASE SessionCasFail(c) BY <2>5 DEF SessionCasFail, IsFirst,
      CallerFrom, CallerRuns, Runs
  <2>6. CASE SessionCas(c) BY <2>6 DEF SessionCas, IsFirst, CallerFrom,
      CallerRuns, Runs
  <2>7. CASE SessionShutdown(c) BY <2>7 DEF SessionShutdown, IsFirst,
      CallerFrom, CallerRuns, Runs
  <2>8. CASE SessionNotOpen(c) BY <2>8 DEF SessionNotOpen, IsFirst,
      CallerFrom, CallerRuns, Runs
  <2>9. CASE SessionOpen(c) BY <2>9 DEF SessionOpen, IsFirst, CallerMoves,
      CallerFrom, CallerRuns, Runs
  <2>10. CASE SessionClose(c) BY <2>10 DEF SessionClose, IsFirst, CallerFrom,
      CallerRuns, Runs
  <2>11. CASE StopJoinBegin(c) BY <2>11 DEF StopJoinBegin, CallerFrom,
      CallerRuns, Runs
  <2>12. CASE StopJoin(c) BY <2>12 DEF StopJoin, PassWorker, Joined, IsFirst,
      CallerFrom, CallerRuns, Runs
  <2>13. CASE StopClear(c) BY <2>13 DEF StopClear, StopLeaves, CallerFrom,
      CallerRuns, Runs
  <2>14. CASE UNCHANGED <<mpc, mtodo, workers, spc, stodo, wpc>>
    BY <2>14
  <2> QED BY <1>4, <2>1, <2>2, <2>3, <2>4, <2>5, <2>6, <2>7, <2>8, <2>9,
      <2>10, <2>11, <2>12, <2>13, <2>14 DEF Stop, StopJoinSelf
<1>5. ASSUME NEW s \in Sessions, Run(s) PROVE IteratorsValid'
  BY <1>5, WorkerStep DEF WorkPC
<1>6. CASE UNCHANGED vars BY <1>6
<1>7. ASSUME NEW s \in Sessions, HandleThrows(s) PROVE IteratorsValid'
  BY <1>7 DEF HandleThrows
<1> QED BY <1>1, <1>2, <1>3, <1>4, <1>5, <1>6, <1>7
    DEF Next, Ended

\* A worker thread enters workers_ when it is made and leaves it only joined.
LEMMA ThreadStep == IInv /\ [Next]_vars => ThreadInv'
<1> SUFFICES ASSUME IInv, [Next]_vars PROVE ThreadInv'
  OBVIOUS
<1> USE ConstantsAssumption DEF IInv, TypeOK, MutexInv, IteratorsValid,
    ThreadInv, Callers, Sessions, Holding, Live, Looping, vars, runVars,
    netVars, poolVars, mainVars, stopVars, sessVars, sigVars, endVars,
    notMain, notCaller, notWorker, notPool, notLoop
<1>1. CASE Start
  BY <1>1, ZenonT(60) DEF Start, StartInit, MainMoves, StartFails, MainFrom,
      Runs, StartPublish, Publish, StartListen, StartRun
<1>2. CASE AcceptLoop
  <2>1. CASE LoopTest BY <2>1 DEF LoopTest, MainMoves, MainFrom, Runs
  <2>2. CASE AcceptCall BY <2>2 DEF AcceptCall, MainMoves, MainFrom, Runs
  <2>3. CASE AcceptOk BY <2>3 DEF AcceptOk, Accepted, MainFrom, Runs
  <2>4. CASE AcceptError BY <2>4 DEF AcceptError, MainMoves, MainFrom, Runs
  <2>5. CASE AcceptFailed BY <2>5 DEF AcceptFailed, MainMoves, MainFrom, Runs
  <2>6. CASE CleanupLock BY <2>6 DEF CleanupLock, MainFrom, Runs
  <2>7. CASE CleanupFound BY <2>7 DEF CleanupFound, IsFirst, MainMoves,
      MainFrom, Runs
  <2>8. CASE CleanupJoin BY <2>8 DEF CleanupJoin, Erase, Joined, IsFirst,
      MainFrom, Runs
  <2>9. CASE CleanupUnlock BY <2>9 DEF CleanupUnlock, MainFrom, Runs
  <2>10. CASE PushLock BY <2>10 DEF PushLock, MainFrom, Runs
  <2>11. CASE Spawn BY <2>11 DEF Spawn, PushWorker, MainFrom, Runs
  <2>12. CASE UNCHANGED <<wpc, workers, next_session_id, mpc>>
    BY <2>12
  <2> QED BY <1>2, <2>1, <2>2, <2>3, <2>4, <2>5, <2>6, <2>7, <2>8, <2>9,
      <2>10, <2>11, <2>12 DEF AcceptLoop, CleanupSkip, MainFrom, SpawnFail
<1>3. CASE Lifecycle
  <2>1. CASE UNCHANGED <<wpc, workers, next_session_id, mpc>>
    BY <2>1
  <2> QED BY <1>3, <2>1 DEF Lifecycle, OwnerCallsStop, CallerMoves,
      CallerFrom, SignalArrives, HandlerLoad, HandlerReturn, DtorBegin,
      DtorMembers
<1>4. ASSUME NEW c \in Callers, Stop(c) PROVE ThreadInv'
  <2>1. CASE StopClear(c) BY <2>1 DEF StopClear, StopLeaves, CallerFrom,
      CallerRuns, Runs
  <2>2. CASE UNCHANGED <<wpc, workers, next_session_id, mpc>>
    BY <2>2
  <2> QED BY <1>4, <2>1, <2>2 DEF Stop, StopCas, StopTakes, CallerFrom,
      StopShutdownListener, StopCloseListener, StopLock, StopEnters,
      SessionCasFail, SessionCas, SessionShutdown, SessionNotOpen,
      SessionOpen, CallerMoves, SessionClose, StopJoinBegin, StopJoin,
      PassWorker, StopJoinSelf
<1>5. ASSUME NEW s \in Sessions, Run(s) PROVE ThreadInv'
  <2>1. PICK q \in WorkPC \ {"none"} : wpc' = [wpc EXCEPT ![s] = q]
    BY <1>5, WorkerStep
  <2>2. Live(s) /\ UNCHANGED <<workers, next_session_id, mpc>>
    BY <1>5, WorkerStep
  <2>3. mpc \in Holding => next_session_id - 1 # s BY <2>2
  <2> QED BY <2>1, <2>2, <2>3
<1>6. CASE UNCHANGED vars BY <1>6
<1>7. ASSUME NEW s \in Sessions, HandleThrows(s) PROVE ThreadInv'
  BY <1>7 DEF HandleThrows
<1> QED BY <1>1, <1>2, <1>3, <1>4, <1>5, <1>6, <1>7
    DEF Next, Ended

\* The threads are made in the order of the ids.
LEMMA OrderStep == IInv /\ [Next]_vars => OrderInv'
<1> SUFFICES ASSUME IInv, [Next]_vars PROVE OrderInv'
  OBVIOUS
<1> USE ConstantsAssumption DEF IInv, TypeOK, ThreadInv, OrderInv, Sessions,
    Holding, vars, runVars, netVars, poolVars, mainVars, stopVars, sessVars,
    sigVars, endVars, notMain, notCaller, notWorker, notPool, notLoop
<1>1. CASE Start
  BY <1>1 DEF Start, StartInit, MainMoves, StartFails, MainFrom, Runs,
      StartPublish, Publish, StartListen, StartRun
<1>2. CASE AcceptLoop
  <2>1. CASE LoopTest \/ AcceptCall \/ AcceptError \/ AcceptFailed
    BY <2>1
    DEF LoopTest, AcceptCall, AcceptError, AcceptFailed, MainMoves, MainFrom
  <2>2. CASE AcceptOk BY <2>2 DEF AcceptOk, Accepted, MainFrom
  <2>3. CASE CleanupLock \/ CleanupSkip \/ CleanupFound \/ CleanupJoin
               \/ CleanupUnlock \/ PushLock
    BY <2>3 DEF CleanupLock, CleanupSkip, CleanupFound, CleanupJoin, Erase,
        CleanupUnlock, PushLock, MainMoves, MainFrom
  <2>4. CASE Spawn BY <2>4 DEF Spawn, PushWorker, MainFrom
  <2>5. CASE SpawnFail BY <2>5 DEF SpawnFail
  <2> QED BY <1>2, <2>1, <2>2, <2>3, <2>4, <2>5 DEF AcceptLoop
<1>3. CASE UNCHANGED <<wpc, next_session_id, mpc>> BY <1>3
<1>4. CASE Lifecycle
  BY <1>3, <1>4 DEF Lifecycle, OwnerCallsStop, CallerMoves, CallerFrom,
      SignalArrives, HandlerLoad, HandlerReturn, DtorBegin, DtorMembers
<1>5. ASSUME NEW c \in Callers, Stop(c) PROVE OrderInv'
  BY <1>3, <1>5 DEF Stop, StopCas, StopTakes, CallerFrom, StopShutdownListener,
      StopCloseListener, StopLock, StopEnters, SessionCasFail, SessionCas,
      SessionShutdown, SessionNotOpen, SessionOpen, CallerMoves, SessionClose,
      StopJoinBegin, StopJoin, PassWorker, StopJoinSelf, StopClear, StopLeaves
<1>6. ASSUME NEW s \in Sessions, Run(s) PROVE OrderInv'
  <2>1. PICK q \in WorkPC \ {"none"} : wpc' = [wpc EXCEPT ![s] = q]
    BY <1>6, WorkerStep
  <2>2. UNCHANGED <<next_session_id, mpc>>
    BY <1>6, WorkerStep
  <2> QED BY <2>1, <2>2
<1>7. CASE UNCHANGED vars BY <1>7
<1>8. ASSUME NEW s \in Sessions, HandleThrows(s) PROVE OrderInv'
  BY <1>8 DEF HandleThrows
<1> QED BY <1>1, <1>2, <1>4, <1>5, <1>6, <1>7, <1>8
    DEF Next, Ended

\* is_active_ of a session whose worker still serves is TRUE outside stop().
LEMMA ActiveStep == IInv /\ [Next]_vars => ActiveInv'
<1> SUFFICES ASSUME IInv, [Next]_vars PROVE ActiveInv'
  OBVIOUS
<1> USE ConstantsAssumption DEF IInv, TypeOK, MutexInv, IteratorsValid,
    ThreadInv, ActiveInv, Callers, Sessions, Holding, Live, Looping, WorkPC,
    vars, runVars, netVars, poolVars, mainVars, stopVars, sessVars, sigVars,
    endVars, notMain, notCaller, notWorker, notPool, notLoop
<1>1. CASE Start
  BY <1>1 DEF Start, StartInit, MainMoves, StartFails, MainFrom, Runs,
      StartPublish, Publish, StartListen, StartRun
<1>2. CASE AcceptLoop
  <2>1. CASE LoopTest BY <2>1 DEF LoopTest, MainMoves, MainFrom, Runs
  <2>2. CASE AcceptCall BY <2>2 DEF AcceptCall, MainMoves, MainFrom, Runs
  <2>3. CASE AcceptOk BY <2>3 DEF AcceptOk, Accepted, MainFrom, Runs
  <2>4. CASE AcceptError BY <2>4 DEF AcceptError, MainMoves, MainFrom, Runs
  <2>5. CASE AcceptFailed BY <2>5 DEF AcceptFailed, MainMoves, MainFrom, Runs
  <2>6. CASE CleanupLock BY <2>6 DEF CleanupLock, MainFrom, Runs
  <2>7. CASE CleanupFound BY <2>7 DEF CleanupFound, IsFirst, MainMoves,
      MainFrom, Runs
  <2>8. CASE CleanupJoin BY <2>8 DEF CleanupJoin, Erase, Joined, IsFirst,
      MainFrom, Runs
  <2>9. CASE CleanupUnlock BY <2>9 DEF CleanupUnlock, MainFrom, Runs
  <2>10. CASE PushLock BY <2>10 DEF PushLock, MainFrom, Runs
  <2>11. CASE Spawn BY <2>11 DEF Spawn, PushWorker, MainFrom, Runs
  <2>12. CASE UNCHANGED <<wpc, active, workers_mutex, mpc, next_session_id>>
    BY <2>12
  <2> QED BY <1>2, <2>1, <2>2, <2>3, <2>4, <2>5, <2>6, <2>7, <2>8, <2>9,
      <2>10, <2>11, <2>12 DEF AcceptLoop, CleanupSkip, MainFrom, SpawnFail
<1>3. CASE Lifecycle
  BY <1>3 DEF Lifecycle, OwnerCallsStop, CallerMoves, CallerFrom, CallerRuns,
      Runs, SignalArrives, Alive, HandlerLoad, HandlerReturn, DtorBegin,
      DtorMembers
<1>4. ASSUME NEW c \in Callers, Stop(c) PROVE ActiveInv'
  <2>1. CASE StopLock(c) BY <2>1 DEF StopLock, StopEnters, CallerFrom,
      CallerRuns, Runs
  <2>2. CASE SessionCas(c)
    <3>1. PICK s \in stodo : active' = [active EXCEPT ![s] = FALSE]
      BY <2>2 DEF SessionCas
    <3>2. workers_mutex = c /\ workers_mutex' = c /\ s \in workers
      BY <2>2, <3>1 DEF SessionCas, CallerFrom
    <3>3. mpc \in Holding => next_session_id - 1 # s
      BY <3>2
    <3>4. UNCHANGED <<wpc, mpc, next_session_id>>
      BY <2>2 DEF SessionCas
    <3> QED BY <3>1, <3>2, <3>3, <3>4
  <2>3. CASE StopClear(c) BY <2>3 DEF StopClear, StopLeaves, CallerFrom,
      CallerRuns, Runs
  <2>4. CASE UNCHANGED <<wpc, active, workers_mutex, mpc, next_session_id>>
    BY <2>4
  <2> QED BY <1>4, <2>1, <2>2, <2>3, <2>4 DEF Stop, StopCas, StopTakes,
      CallerFrom, StopShutdownListener, StopCloseListener, SessionCasFail,
      SessionShutdown, SessionNotOpen, SessionOpen, CallerMoves, SessionClose,
      StopJoinBegin, StopJoin, PassWorker, StopJoinSelf
<1>5. ASSUME NEW s \in Sessions, Run(s) PROVE ActiveInv'
  <2>1. CASE RunStart(s) BY <2>1 DEF RunStart, WorkerFrom, Runs
  <2>2. CASE RunTest(s) BY <2>2 DEF RunTest, WorkerMoves, WorkerFrom, Runs
  <2>3. CASE RecvCall(s) BY <2>3 DEF RecvCall, WorkerMoves, WorkerFrom, Runs
  <2>4. CASE RecvLine(s) BY <2>4 DEF RecvLine, WorkerMoves, WorkerFrom, Runs
  <2>5. CASE RecvFail(s) BY <2>5 DEF RecvFail, WorkerMoves, WorkerFrom, Runs
  <2>6. CASE HandleLast(s) BY <2>6 DEF HandleLast, WorkerFrom, Runs
  <2>7. CASE HandleReply(s) BY <2>7 DEF HandleReply, WorkerMoves, WorkerFrom,
      Runs
  <2>8. CASE HandleError(s) BY <2>8 DEF HandleError, WorkerMoves, WorkerFrom,
      Runs
  <2>9. CASE RunExit(s) BY <2>9 DEF RunExit, WorkerFrom, Runs
  <2>10. CASE CloseTest(s) BY <2>10 DEF CloseTest, WorkerMoves, WorkerFrom,
      Runs
  <2>11. CASE Close(s) BY <2>11 DEF Close, WorkerFrom, Runs
  <2> QED BY <1>5, <2>1, <2>2, <2>3, <2>4, <2>5, <2>6, <2>7, <2>8, <2>9,
      <2>10, <2>11 DEF Run
<1>6. CASE UNCHANGED vars BY <1>6
<1>7. ASSUME NEW s \in Sessions, HandleThrows(s) PROVE ActiveInv'
  BY <1>7 DEF HandleThrows
<1> QED BY <1>1, <1>2, <1>3, <1>4, <1>5, <1>6, <1>7
    DEF Next, Ended

\* What cleanup joins has left its loop's body and cannot enter it again.
LEMMA CleanupStep == IInv /\ [Next]_vars => CleanupNeverWaitsForClient'
<1> SUFFICES ASSUME IInv, [Next]_vars PROVE CleanupNeverWaitsForClient'
  OBVIOUS
<1> USE ConstantsAssumption DEF IInv, TypeOK, MutexInv, IteratorsValid,
    ThreadInv, ActiveInv, CleanupNeverWaitsForClient, Callers, Sessions,
    WorkPC, Looping, Live, vars, runVars, netVars, poolVars, mainVars,
    stopVars, sessVars, sigVars, endVars, notMain, notCaller, notWorker,
    notPool, notLoop
<1>1. CASE Start
  BY <1>1 DEF Start, StartInit, MainMoves, StartFails, MainFrom, Runs,
      StartPublish, Publish, StartListen, StartRun
<1>2. CASE AcceptLoop
  <2>1. CASE LoopTest BY <2>1 DEF LoopTest, MainMoves, MainFrom, Runs
  <2>2. CASE AcceptCall BY <2>2 DEF AcceptCall, MainMoves, MainFrom, Runs
  <2>3. CASE AcceptOk BY <2>3 DEF AcceptOk, Accepted, MainFrom, Runs
  <2>4. CASE AcceptError BY <2>4 DEF AcceptError, MainMoves, MainFrom, Runs
  <2>5. CASE AcceptFailed BY <2>5 DEF AcceptFailed, MainMoves, MainFrom, Runs
  <2>6. CASE CleanupLock BY <2>6 DEF CleanupLock, MainFrom, Runs
  <2>7. CASE CleanupSkip BY <2>7 DEF CleanupSkip, IsFirst, MainFrom, Runs
  <2>8. CASE CleanupFound
    <3>1. PICK s \in mtodo : IsFirst(s, mtodo) /\ ~active[s]
      BY <2>8 DEF CleanupFound
    <3>2. mpc = "cvisit" /\ UNCHANGED <<mtodo, active, wpc>>
      BY <2>8 DEF CleanupFound, MainMoves, MainFrom
    <3>3. s \in workers /\ wpc[s] # "none" /\ workers_mutex = "main"
      BY <3>1, <3>2
    <3>4. \A t \in mtodo : IsFirst(t, mtodo) => t = s
      BY <3>1 DEF IsFirst
    <3>5. wpc[s] \in {"loop", "exit", "close", "closing", "done"}
      BY <3>1, <3>3
    <3> QED BY <3>1, <3>2, <3>4, <3>5
  <2>9. CASE CleanupJoin BY <2>9 DEF CleanupJoin, Erase, Joined, IsFirst,
      MainFrom, Runs
  <2>10. CASE CleanupUnlock BY <2>10 DEF CleanupUnlock, MainFrom, Runs
  <2>11. CASE PushLock BY <2>11 DEF PushLock, MainFrom, Runs
  <2>12. CASE Spawn BY <2>12 DEF Spawn, PushWorker, MainFrom, Runs
  <2>13. CASE UNCHANGED <<mpc, mtodo, active, wpc>>
    BY <2>13
  <2> QED BY <1>2, <2>1, <2>2, <2>3, <2>4, <2>5, <2>6, <2>7, <2>8, <2>9,
      <2>10, <2>11, <2>12, <2>13 DEF AcceptLoop, SpawnFail, MainFrom
<1>3. CASE Lifecycle
  <2>1. CASE UNCHANGED <<mpc, mtodo, active, wpc>>
    BY <2>1
  <2> QED BY <1>3, <2>1 DEF Lifecycle, OwnerCallsStop, CallerMoves,
      CallerFrom, SignalArrives, HandlerLoad, HandlerReturn, DtorBegin,
      DtorMembers
<1>4. ASSUME NEW c \in Callers, Stop(c) PROVE CleanupNeverWaitsForClient'
  <2>1. CASE SessionCas(c) BY <2>1 DEF SessionCas, IsFirst, CallerFrom,
      CallerRuns, Runs
  <2>2. CASE UNCHANGED <<mpc, mtodo, active, wpc>>
    BY <2>2
  <2> QED BY <1>4, <2>1, <2>2 DEF Stop, StopCas, StopTakes, CallerFrom,
      StopShutdownListener, StopCloseListener, StopLock, StopEnters,
      SessionCasFail, SessionShutdown, SessionNotOpen, SessionOpen,
      CallerMoves, SessionClose, StopJoinBegin, StopJoin, PassWorker,
      StopJoinSelf, StopClear, StopLeaves
<1>5. ASSUME NEW s \in Sessions, Run(s) PROVE CleanupNeverWaitsForClient'
  <2>1. CASE RunStart(s) BY <2>1 DEF RunStart, WorkerFrom, Runs
  <2>2. CASE RunTest(s) BY <2>2 DEF RunTest, WorkerMoves, WorkerFrom, Runs
  <2>3. CASE RecvCall(s) BY <2>3 DEF RecvCall, WorkerMoves, WorkerFrom, Runs
  <2>4. CASE RecvLine(s) BY <2>4 DEF RecvLine, WorkerMoves, WorkerFrom, Runs
  <2>5. CASE RecvFail(s) BY <2>5 DEF RecvFail, WorkerMoves, WorkerFrom, Runs
  <2>6. CASE HandleLast(s) BY <2>6 DEF HandleLast, WorkerFrom, Runs
  <2>7. CASE HandleReply(s) BY <2>7 DEF HandleReply, WorkerMoves, WorkerFrom,
      Runs
  <2>8. CASE HandleError(s) BY <2>8 DEF HandleError, WorkerMoves, WorkerFrom,
      Runs
  <2>9. CASE RunExit(s) BY <2>9 DEF RunExit, WorkerFrom, Runs
  <2>10. CASE CloseTest(s) BY <2>10 DEF CloseTest, WorkerMoves, WorkerFrom,
      Runs
  <2>11. CASE Close(s) BY <2>11 DEF Close, WorkerFrom, Runs
  <2> QED BY <1>5, <2>1, <2>2, <2>3, <2>4, <2>5, <2>6, <2>7, <2>8, <2>9,
      <2>10, <2>11 DEF Run
<1>6. CASE UNCHANGED vars BY <1>6
<1>7. ASSUME NEW s \in Sessions, HandleThrows(s)
      PROVE  CleanupNeverWaitsForClient'
  BY <1>7 DEF HandleThrows
<1> QED BY <1>1, <1>2, <1>3, <1>4, <1>5, <1>6, <1>7
    DEF Next, Ended

\* fd_ becomes -1 only after ::close, and run() returns only then.
LEMMA DescriptorStep == IInv /\ [Next]_vars => DescriptorInv'
<1> SUFFICES ASSUME IInv, [Next]_vars PROVE DescriptorInv'
  OBVIOUS
<1> USE ConstantsAssumption DEF IInv, TypeOK, ThreadInv, DescriptorInv,
    Sessions, Callers, Live, vars, runVars, netVars, poolVars, mainVars,
    stopVars, sessVars, sigVars, endVars, notMain, notCaller, notWorker,
    notPool, notLoop
<1>1. CASE Start
  BY <1>1 DEF Start, StartInit, MainMoves, StartFails, MainFrom, Runs,
      StartPublish, Publish, StartListen, StartRun
<1>2. CASE AcceptLoop
  <2>1. CASE AcceptOk BY <2>1 DEF AcceptOk, Accepted, MainFrom, Runs
  <2>2. CASE Spawn BY <2>2 DEF Spawn, PushWorker, MainFrom, Runs
  <2>3. CASE UNCHANGED <<next_session_id, fd, closes, wpc>>
    BY <2>3
  <2>4. CASE CleanupJoin
    <3>1. UNCHANGED <<fd, closes>> BY <2>4, ErasedWasClosed
    <3> QED BY <2>3, <2>4, <3>1 DEF CleanupJoin, Erase
  <2> QED BY <1>2, <2>1, <2>2, <2>3, <2>4 DEF AcceptLoop, LoopTest, MainMoves,
      MainFrom, AcceptCall, AcceptError, AcceptFailed, CleanupLock,
      CleanupSkip, CleanupFound, CleanupUnlock, PushLock, SpawnFail
<1>3. CASE Lifecycle
  BY <1>3 DEF Lifecycle, OwnerCallsStop, CallerMoves, CallerFrom, CallerRuns,
      Runs, SignalArrives, Alive, HandlerLoad, HandlerReturn, DtorBegin,
      DtorMembers
<1>4. ASSUME NEW c \in Callers, Stop(c) PROVE DescriptorInv'
  <2>1. CASE SessionClose(c) BY <2>1 DEF SessionClose, IsFirst, CallerFrom,
      CallerRuns, Runs
  <2>2. CASE UNCHANGED <<next_session_id, fd, closes, wpc>>
    BY <2>2
  <2>3. CASE StopClear(c)
    <3>1. UNCHANGED <<fd, closes>> BY <2>3, ErasedWasClosed
    <3> QED BY <2>2, <2>3, <3>1 DEF StopClear, StopLeaves
  <2> QED BY <1>4, <2>1, <2>2, <2>3 DEF Stop, StopCas, StopTakes, CallerFrom,
      StopShutdownListener, StopCloseListener, StopLock, StopEnters,
      SessionCasFail, SessionCas, SessionShutdown, SessionNotOpen,
      SessionOpen, CallerMoves, StopJoinBegin, StopJoin, PassWorker,
      StopJoinSelf
<1>5. ASSUME NEW s \in Sessions, Run(s) PROVE DescriptorInv'
  <2>1. CASE RunStart(s) BY <2>1 DEF RunStart, WorkerFrom, Runs
  <2>2. CASE RunTest(s) BY <2>2 DEF RunTest, WorkerMoves, WorkerFrom, Runs
  <2>3. CASE RecvCall(s) BY <2>3 DEF RecvCall, WorkerMoves, WorkerFrom, Runs
  <2>4. CASE RecvLine(s) BY <2>4 DEF RecvLine, WorkerMoves, WorkerFrom, Runs
  <2>5. CASE RecvFail(s) BY <2>5 DEF RecvFail, WorkerMoves, WorkerFrom, Runs
  <2>6. CASE HandleLast(s) BY <2>6 DEF HandleLast, WorkerFrom, Runs
  <2>7. CASE HandleReply(s) BY <2>7 DEF HandleReply, WorkerMoves, WorkerFrom,
      Runs
  <2>8. CASE HandleError(s) BY <2>8 DEF HandleError, WorkerMoves, WorkerFrom,
      Runs
  <2>9. CASE RunExit(s) BY <2>9 DEF RunExit, WorkerFrom, Runs
  <2>10. CASE CloseTest(s) BY <2>10 DEF CloseTest, WorkerMoves, WorkerFrom,
      Runs
  <2>11. CASE Close(s) BY <2>11 DEF Close, WorkerFrom, Runs
  <2> QED BY <1>5, <2>1, <2>2, <2>3, <2>4, <2>5, <2>6, <2>7, <2>8, <2>9,
      <2>10, <2>11 DEF Run
<1>6. CASE UNCHANGED vars BY <1>6
<1>7. ASSUME NEW s \in Sessions, HandleThrows(s) PROVE DescriptorInv'
  BY <1>7 DEF HandleThrows
<1> QED BY <1>1, <1>2, <1>3, <1>4, <1>5, <1>6, <1>7
    DEF Next, Ended

\* is_running_ is set once, after listen(), and reset by the one that stops.
LEMMA RunningStep == IInv /\ [Next]_vars => RunningInv'
<1> SUFFICES ASSUME IInv, [Next]_vars PROVE RunningInv'
  OBVIOUS
<1> USE ConstantsAssumption DEF IInv, TypeOK, RunningInv, CallerInv, Callers,
    Early, Body, StopPC, MainPC, vars, runVars, netVars, poolVars, mainVars,
    stopVars, sessVars, sigVars, endVars, notMain, notCaller, notWorker,
    notPool, notLoop
<1>1. CASE Start
  BY <1>1 DEF Start, StartInit, MainMoves, StartFails, MainFrom, Runs,
      StartPublish, Publish, StartListen, StartRun
<1>2. CASE AcceptLoop
  BY <1>2 DEF AcceptLoop, LoopTest, MainMoves, MainFrom, Runs, AcceptCall,
      AcceptOk, Accepted, AcceptError, AcceptFailed, CleanupLock, CleanupSkip,
      IsFirst, CleanupFound, CleanupJoin, Erase, Joined, CleanupUnlock,
      PushLock, Spawn, PushWorker, SpawnFail
<1>3. CASE Lifecycle
  BY <1>3 DEF Lifecycle, OwnerCallsStop, CallerMoves, CallerFrom, CallerRuns,
      Runs, SignalArrives, Alive, HandlerLoad, HandlerReturn, DtorBegin,
      DtorMembers
<1>4. ASSUME NEW c \in Callers, Stop(c) PROVE RunningInv'
  BY <1>4 DEF Stop, StopCas, StopTakes, CallerFrom, CallerRuns, Runs,
      StopShutdownListener, StopCloseListener, StopLock, StopEnters,
      SessionCasFail, IsFirst, SessionCas, SessionShutdown, SessionNotOpen,
      SessionOpen, CallerMoves, SessionClose, StopJoinBegin, StopJoin,
      PassWorker, Joined, StopJoinSelf, StopClear, StopLeaves
<1>5. ASSUME NEW s \in Sessions, Run(s) PROVE RunningInv'
  BY <1>5 DEF Run, RunStart, WorkerFrom, Runs, RunTest, WorkerMoves, RecvCall,
      RecvLine, RecvFail, HandleLast, HandleReply, HandleError, RunExit,
      CloseTest, Close
<1>6. CASE UNCHANGED vars BY <1>6
<1>7. ASSUME NEW s \in Sessions, HandleThrows(s) PROVE RunningInv'
  BY <1>7 DEF HandleThrows
<1> QED BY <1>1, <1>2, <1>3, <1>4, <1>5, <1>6, <1>7
    DEF Next, Ended

\* ~Server runs last; the handler's thread stays alive under it.
LEMMA CallerStep == IInv /\ [Next]_vars => CallerInv'
<1> SUFFICES ASSUME IInv, [Next]_vars PROVE CallerInv'
  OBVIOUS
<1> USE ConstantsAssumption DEF IInv, TypeOK, MutexInv, IteratorsValid,
    ThreadInv, CallerInv, RunningInv, Callers, Sessions, Main, NoThread, Live,
    Looping, Body, Early, StopPC, vars, runVars, netVars, poolVars, mainVars,
    stopVars, sessVars, sigVars, endVars, notMain, notCaller, notWorker,
    notPool, notLoop
<1>1. CASE Start
  BY <1>1 DEF Start, StartInit, MainMoves, StartFails, MainFrom, Runs,
      StartPublish, Publish, StartListen, StartRun
<1>2. CASE AcceptLoop
  BY <1>2, SMTT(20)
  DEF AcceptLoop, LoopTest, MainMoves, MainFrom, Runs, AcceptCall,
      AcceptOk, Accepted, AcceptError, AcceptFailed, CleanupLock, CleanupSkip,
      IsFirst, CleanupFound, CleanupJoin, Erase, Joined, CleanupUnlock,
      PushLock, Spawn, PushWorker, SpawnFail
<1>3. CASE Lifecycle
  <2>1. CASE OwnerCallsStop BY <2>1 DEF OwnerCallsStop, CallerMoves,
      CallerFrom, CallerRuns, Runs
  <2>2. CASE SignalArrives BY <2>2 DEF SignalArrives, Alive, CallerFrom,
      CallerRuns
  <2>3. CASE HandlerLoad BY <2>3 DEF HandlerLoad, CallerMoves, CallerFrom,
      CallerRuns, Runs
  <2>4. CASE HandlerReturn BY <2>4 DEF HandlerReturn, CallerFrom, CallerRuns,
      Runs
  <2>5. CASE DtorBegin BY <2>5 DEF DtorBegin, CallerMoves, CallerFrom,
      CallerRuns, Runs
  <2>6. CASE DtorMembers BY <2>6 DEF DtorMembers, CallerFrom, CallerRuns, Runs
  <2> QED BY <1>3, <2>1, <2>2, <2>3, <2>4, <2>5, <2>6 DEF Lifecycle
<1>4. ASSUME NEW c \in Callers, Stop(c) PROVE CallerInv'
  BY <1>4, SMTT(20) DEF Stop, StopCas, StopTakes, CallerFrom, CallerRuns, Runs,
      StopShutdownListener, StopCloseListener, StopLock, StopEnters,
      SessionCasFail, IsFirst, SessionCas, SessionShutdown, SessionNotOpen,
      SessionOpen, CallerMoves, SessionClose, StopJoinBegin, StopJoin,
      PassWorker, Joined, StopJoinSelf, StopClear, StopLeaves
<1>5. ASSUME NEW s \in Sessions, Run(s) PROVE CallerInv'
  BY <1>5, WorkerStep DEF WorkPC
<1>6. CASE UNCHANGED vars BY <1>6
<1>7. ASSUME NEW s \in Sessions, HandleThrows(s) PROVE CallerInv'
  BY <1>7 DEF HandleThrows
<1> QED BY <1>1, <1>2, <1>3, <1>4, <1>5, <1>6, <1>7
    DEF Next, Ended

\* The compare-exchange lets one caller through, and never ~Server.
LEMMA StopperStep == IInv /\ [Next]_vars => OnlyOneStopper'
<1> SUFFICES ASSUME IInv, [Next]_vars PROVE OnlyOneStopper'
  OBVIOUS
<1> USE ConstantsAssumption DEF IInv, TypeOK, RunningInv, CallerInv,
    OnlyOneStopper, Callers, Body, StopPC, Early, vars, runVars, netVars,
    poolVars, mainVars, stopVars, sessVars, sigVars, endVars, notMain,
    notCaller, notWorker, notPool, notLoop
<1>1. CASE Start
  BY <1>1 DEF Start, StartInit, MainMoves, StartFails, MainFrom, Runs,
      StartPublish, Publish, StartListen, StartRun
<1>2. CASE AcceptLoop
  BY <1>2 DEF AcceptLoop, LoopTest, MainMoves, MainFrom, Runs, AcceptCall,
      AcceptOk, Accepted, AcceptError, AcceptFailed, CleanupLock, CleanupSkip,
      IsFirst, CleanupFound, CleanupJoin, Erase, Joined, CleanupUnlock,
      PushLock, Spawn, PushWorker, SpawnFail
<1>3. CASE Lifecycle
  BY <1>3 DEF Lifecycle, OwnerCallsStop, CallerMoves, CallerFrom, CallerRuns,
      Runs, SignalArrives, Alive, HandlerLoad, HandlerReturn, DtorBegin,
      DtorMembers
<1>4. ASSUME NEW c \in Callers, Stop(c) PROVE OnlyOneStopper'
  BY <1>4 DEF Stop, StopCas, StopTakes, CallerFrom, CallerRuns, Runs,
      StopShutdownListener, StopCloseListener, StopLock, StopEnters,
      SessionCasFail, IsFirst, SessionCas, SessionShutdown, SessionNotOpen,
      SessionOpen, CallerMoves, SessionClose, StopJoinBegin, StopJoin,
      PassWorker, Joined, StopJoinSelf, StopClear, StopLeaves
<1>5. ASSUME NEW s \in Sessions, Run(s) PROVE OnlyOneStopper'
  BY <1>5 DEF Run, RunStart, WorkerFrom, Runs, RunTest, WorkerMoves, RecvCall,
      RecvLine, RecvFail, HandleLast, HandleReply, HandleError, RunExit,
      CloseTest, Close
<1>6. CASE UNCHANGED vars BY <1>6
<1>7. ASSUME NEW s \in Sessions, HandleThrows(s) PROVE OnlyOneStopper'
  BY <1>7 DEF HandleThrows
<1> QED BY <1>1, <1>2, <1>3, <1>4, <1>5, <1>6, <1>7
    DEF Next, Ended

\* The caller that won the compare-exchange finds the listening socket.
LEMMA ListenerStep == IInv /\ [Next]_vars => StopFindsListener'
<1> SUFFICES ASSUME IInv, [Next]_vars PROVE StopFindsListener'
  OBVIOUS
<1> USE ConstantsAssumption DEF IInv, TypeOK, RunningInv, CallerInv,
    ThreadInv, StopFindsListener, OnlyOneStopper, Callers, Body, StopPC, Live,
    Main, Sessions, NoThread, Early, vars, runVars, netVars, poolVars,
    mainVars, stopVars, sessVars, sigVars, endVars, notMain, notCaller,
    notWorker, notPool, notLoop
<1>1. CASE Start
  BY <1>1 DEF Start, StartInit, MainMoves, StartFails, MainFrom, Runs,
      StartPublish, Publish, StartListen, StartRun
<1>2. CASE AcceptLoop
  BY <1>2 DEF AcceptLoop, LoopTest, MainMoves, MainFrom, Runs, AcceptCall,
      AcceptOk, Accepted, AcceptError, AcceptFailed, CleanupLock, CleanupSkip,
      IsFirst, CleanupFound, CleanupJoin, Erase, Joined, CleanupUnlock,
      PushLock, Spawn, PushWorker, SpawnFail
<1>3. CASE Lifecycle
  BY <1>3 DEF Lifecycle, OwnerCallsStop, CallerMoves, CallerFrom, CallerRuns,
      Runs, SignalArrives, Alive, HandlerLoad, HandlerReturn, DtorBegin,
      DtorMembers
<1>4. ASSUME NEW c \in Callers, Stop(c) PROVE StopFindsListener'
  BY <1>4 DEF Stop, StopCas, StopTakes, CallerFrom, CallerRuns, Runs,
      StopShutdownListener, StopCloseListener, StopLock, StopEnters,
      SessionCasFail, IsFirst, SessionCas, SessionShutdown, SessionNotOpen,
      SessionOpen, CallerMoves, SessionClose, StopJoinBegin, StopJoin,
      PassWorker, Joined, StopJoinSelf, StopClear, StopLeaves
<1>5. ASSUME NEW s \in Sessions, Run(s) PROVE StopFindsListener'
  BY <1>5 DEF Run, RunStart, WorkerFrom, Runs, RunTest, WorkerMoves, RecvCall,
      RecvLine, RecvFail, HandleLast, HandleReply, HandleError, RunExit,
      CloseTest, Close
<1>6. CASE UNCHANGED vars BY <1>6
<1>7. ASSUME NEW s \in Sessions, HandleThrows(s) PROVE StopFindsListener'
  BY <1>7 DEF HandleThrows
<1> QED BY <1>1, <1>2, <1>3, <1>4, <1>5, <1>6, <1>7
    DEF Next, Ended

\* Who resets running_instance_: the caller in the body of stop().
LEMMA InstanceStep == IInv /\ [Next]_vars => InstanceInv'
<1> SUFFICES ASSUME IInv, [Next]_vars PROVE InstanceInv'
  OBVIOUS
<1> USE ConstantsAssumption DEF IInv, TypeOK, RunningInv, InstanceInv,
    CallerInv, Callers, Body, StopPC, Early, vars, runVars, netVars, poolVars,
    mainVars, stopVars, sessVars, sigVars, endVars, notMain, notCaller,
    notWorker, notPool, notLoop
<1>1. CASE Start
  BY <1>1 DEF Start, StartInit, MainMoves, StartFails, MainFrom, Runs,
      StartPublish, Publish, StartListen, StartRun
<1>2. CASE AcceptLoop
  BY <1>2 DEF AcceptLoop, LoopTest, MainMoves, MainFrom, Runs, AcceptCall,
      AcceptOk, Accepted, AcceptError, AcceptFailed, CleanupLock, CleanupSkip,
      IsFirst, CleanupFound, CleanupJoin, Erase, Joined, CleanupUnlock,
      PushLock, Spawn, PushWorker, SpawnFail
<1>3. CASE Lifecycle
  <2>1. CASE OwnerCallsStop BY <2>1 DEF OwnerCallsStop, CallerMoves,
      CallerFrom, CallerRuns, Runs
  <2>2. CASE SignalArrives BY <2>2 DEF SignalArrives, Alive, CallerFrom,
      CallerRuns
  <2>3. CASE HandlerLoad BY <2>3 DEF HandlerLoad, CallerMoves, CallerFrom,
      CallerRuns, Runs
  <2>4. CASE HandlerReturn BY <2>4 DEF HandlerReturn, CallerFrom, CallerRuns,
      Runs
  <2>5. CASE DtorBegin BY <2>5 DEF DtorBegin, CallerMoves, CallerFrom,
      CallerRuns, Runs
  <2>6. CASE UNCHANGED <<mpc, is_running, running_instance, startFailed, spc>>
    BY <2>6
  <2> QED BY <1>3, <2>1, <2>2, <2>3, <2>4, <2>5, <2>6 DEF Lifecycle,
      DtorMembers, CallerFrom
<1>4. ASSUME NEW c \in Callers, Stop(c) PROVE InstanceInv'
  <2>1. CASE StopCas(c) BY <2>1 DEF StopCas, StopTakes, CallerFrom,
      CallerRuns, Runs
  <2>2. CASE StopShutdownListener(c) BY <2>2 DEF StopShutdownListener,
      CallerFrom, CallerRuns, Runs
  <2>3. CASE StopCloseListener(c) BY <2>3 DEF StopCloseListener, CallerFrom,
      CallerRuns, Runs
  <2>4. CASE StopLock(c) BY <2>4 DEF StopLock, StopEnters, CallerFrom,
      CallerRuns, Runs
  <2>5. CASE SessionCas(c) BY <2>5 DEF SessionCas, IsFirst, CallerFrom,
      CallerRuns, Runs
  <2>6. CASE SessionShutdown(c) BY <2>6 DEF SessionShutdown, IsFirst,
      CallerFrom, CallerRuns, Runs
  <2>7. CASE SessionNotOpen(c) BY <2>7 DEF SessionNotOpen, IsFirst,
      CallerFrom, CallerRuns, Runs
  <2>8. CASE SessionOpen(c) BY <2>8 DEF SessionOpen, IsFirst, CallerMoves,
      CallerFrom, CallerRuns, Runs
  <2>9. CASE SessionClose(c) BY <2>9 DEF SessionClose, IsFirst, CallerFrom,
      CallerRuns, Runs
  <2>10. CASE StopJoinBegin(c) BY <2>10 DEF StopJoinBegin, CallerFrom,
      CallerRuns, Runs
  <2>11. CASE StopClear(c) BY <2>11 DEF StopClear, StopLeaves, CallerFrom,
      CallerRuns, Runs
  <2>12. CASE UNCHANGED <<mpc, is_running, running_instance, startFailed, spc>>
    BY <2>12
  <2> QED BY <1>4, <2>1, <2>2, <2>3, <2>4, <2>5, <2>6, <2>7, <2>8, <2>9,
      <2>10, <2>11, <2>12 DEF Stop, SessionCasFail, CallerFrom, StopJoin,
      PassWorker, StopJoinSelf
<1>5. ASSUME NEW s \in Sessions, Run(s) PROVE InstanceInv'
  BY <1>5 DEF Run, RunStart, WorkerFrom, Runs, RunTest, WorkerMoves, RecvCall,
      RecvLine, RecvFail, HandleLast, HandleReply, HandleError, RunExit,
      CloseTest, Close
<1>6. CASE UNCHANGED vars BY <1>6
<1>7. ASSUME NEW s \in Sessions, HandleThrows(s) PROVE InstanceInv'
  BY <1>7 DEF HandleThrows
<1> QED BY <1>1, <1>2, <1>3, <1>4, <1>5, <1>6, <1>7
    DEF Next, Ended

\* The erasing loop does not lose a session that was over at its start.
LEMMA ReapStep == IInv /\ [Next]_vars => ReapInv'
<1> SUFFICES ASSUME IInv, [Next]_vars PROVE ReapInv'
  OBVIOUS
<1> USE ConstantsAssumption DEF IInv, TypeOK, MutexInv, IteratorsValid,
    ThreadInv, ActiveInv, ReapInv, Callers, Sessions, WorkPC, Looping, Live,
    Tail, Holding, vars, runVars, netVars, poolVars, mainVars, stopVars,
    sessVars, sigVars, endVars, notMain, notCaller, notWorker, notPool,
    notLoop
<1>1. CASE Start
  BY <1>1 DEF Start, StartInit, MainMoves, StartFails, MainFrom, Runs,
      StartPublish, Publish, StartListen, StartRun
<1>2. CASE AcceptLoop
  <2>1. CASE LoopTest BY <2>1 DEF LoopTest, MainMoves, MainFrom, Runs
  <2>2. CASE AcceptCall BY <2>2 DEF AcceptCall, MainMoves, MainFrom, Runs
  <2>3. CASE AcceptOk BY <2>3 DEF AcceptOk, Accepted, MainFrom, Runs
  <2>4. CASE AcceptError BY <2>4 DEF AcceptError, MainMoves, MainFrom, Runs
  <2>5. CASE AcceptFailed BY <2>5 DEF AcceptFailed, MainMoves, MainFrom, Runs
  <2>6. CASE CleanupLock BY <2>6 DEF CleanupLock, MainFrom, Runs
  <2>7. CASE CleanupSkip BY <2>7 DEF CleanupSkip, IsFirst, MainFrom, Runs
  <2>8. CASE CleanupFound BY <2>8 DEF CleanupFound, IsFirst, MainMoves,
      MainFrom, Runs
  <2>9. CASE CleanupJoin BY <2>9 DEF CleanupJoin, Erase, Joined, IsFirst,
      MainFrom, Runs
  <2>10. CASE CleanupUnlock BY <2>10 DEF CleanupUnlock, MainFrom, Runs
  <2>11. CASE PushLock BY <2>11 DEF PushLock, MainFrom, Runs
  <2>12. CASE Spawn BY <2>12 DEF Spawn, PushWorker, MainFrom, Runs
  <2>13. CASE UNCHANGED <<mpc, ended, workers, mtodo, active, wpc>>
    BY <2>13
  <2> QED BY <1>2, <2>1, <2>2, <2>3, <2>4, <2>5, <2>6, <2>7, <2>8, <2>9,
      <2>10, <2>11, <2>12, <2>13 DEF AcceptLoop, SpawnFail, MainFrom
<1>3. CASE Lifecycle
  <2>1. CASE UNCHANGED <<mpc, ended, workers, mtodo, active, wpc>>
    BY <2>1
  <2> QED BY <1>3, <2>1 DEF Lifecycle, OwnerCallsStop, CallerMoves,
      CallerFrom, SignalArrives, HandlerLoad, HandlerReturn, DtorBegin,
      DtorMembers
<1>4. ASSUME NEW c \in Callers, Stop(c) PROVE ReapInv'
  <2>1. CASE SessionCas(c) BY <2>1 DEF SessionCas, IsFirst, CallerFrom,
      CallerRuns, Runs
  <2>2. CASE StopClear(c) BY <2>2 DEF StopClear, StopLeaves, CallerFrom,
      CallerRuns, Runs
  <2>3. CASE UNCHANGED <<mpc, ended, workers, mtodo, active, wpc>>
    BY <2>3
  <2> QED BY <1>4, <2>1, <2>2, <2>3 DEF Stop, StopCas, StopTakes, CallerFrom,
      StopShutdownListener, StopCloseListener, StopLock, StopEnters,
      SessionCasFail, SessionShutdown, SessionNotOpen, SessionOpen,
      CallerMoves, SessionClose, StopJoinBegin, StopJoin, PassWorker,
      StopJoinSelf
<1>5. ASSUME NEW s \in Sessions, Run(s) PROVE ReapInv'
  <2>1. CASE RunStart(s) BY <2>1 DEF RunStart, WorkerFrom, Runs
  <2>2. CASE RunTest(s) BY <2>2 DEF RunTest, WorkerMoves, WorkerFrom, Runs
  <2>3. CASE RecvCall(s) BY <2>3 DEF RecvCall, WorkerMoves, WorkerFrom, Runs
  <2>4. CASE RecvLine(s) BY <2>4 DEF RecvLine, WorkerMoves, WorkerFrom, Runs
  <2>5. CASE RecvFail(s) BY <2>5 DEF RecvFail, WorkerMoves, WorkerFrom, Runs
  <2>6. CASE HandleLast(s) BY <2>6 DEF HandleLast, WorkerFrom, Runs
  <2>7. CASE HandleReply(s) BY <2>7 DEF HandleReply, WorkerMoves, WorkerFrom,
      Runs
  <2>8. CASE HandleError(s) BY <2>8 DEF HandleError, WorkerMoves, WorkerFrom,
      Runs
  <2>9. CASE RunExit(s) BY <2>9 DEF RunExit, WorkerFrom, Runs
  <2>10. CASE CloseTest(s) BY <2>10 DEF CloseTest, WorkerMoves, WorkerFrom,
      Runs
  <2>11. CASE Close(s) BY <2>11 DEF Close, WorkerFrom, Runs
  <2> QED BY <1>5, <2>1, <2>2, <2>3, <2>4, <2>5, <2>6, <2>7, <2>8, <2>9,
      <2>10, <2>11 DEF Run
<1>6. CASE UNCHANGED vars BY <1>6
<1>7. ASSUME NEW s \in Sessions, HandleThrows(s) PROVE ReapInv'
  BY <1>7 DEF HandleThrows
<1> QED BY <1>1, <1>2, <1>3, <1>4, <1>5, <1>6, <1>7
    DEF Next, Ended

-----------------------------------------------------------------------------
\* The inductive invariant of the server's life cycle holds in every reachable
\* state: start, accept_loop, cleanup, stop, the handler and run() keep it.
THEOREM Invariance == Spec => []IInv
<1>1. IInv /\ [Next]_vars => IInv'
  BY TypeStep, MutexStep, IteratorsStep, ThreadStep, ActiveStep, CleanupStep,
     DescriptorStep, RunningStep, CallerStep, StopperStep, ListenerStep,
     InstanceStep, ReapStep, OrderStep DEF IInv
<1> QED BY InitInv, <1>1, PTL DEF Spec

\* Type correctness of the life cycle's state.
THEOREM TypeCorrect == Spec => []TypeOK
BY Invariance, PTL DEF IInv

\* cleanup_finished_sessions, which joins under workers_mutex_, never waits for
\* a worker that only its client, a timeout or stop() could release.
THEOREM CleanupNeverBlocks == Spec => []CleanupNeverWaitsForClient
BY Invariance, PTL DEF IInv

\* Neither loop over workers_ has its vector changed under it, and stop()'s
\* join loop leaves only finished threads behind.
THEOREM IterationSafe == Spec => []IteratorsValid
BY Invariance, PTL DEF IInv

\* Every session that was over when cleanup began is out of workers_ when the
\* next worker is pushed.
THEOREM ReapingComplete == Spec => []EndedSessionsReaped
<1>1. IInv => EndedSessionsReaped BY DEF IInv, ReapInv, EndedSessionsReaped
<1> QED BY <1>1, Invariance, PTL

\* ~Server completes only when no worker thread is left: they refer to members.
THEOREM ThreadsJoined == Spec => []NoThreadLeak
<1>1. IInv => NoThreadLeak
  BY DEF IInv, ThreadInv, CallerInv, NoThreadLeak, Live
<1> QED BY <1>1, Invariance, PTL

\* A worker that has returned leaves no open descriptor.
THEOREM DescriptorsClosed == Spec => []NoDescriptorLeak
<1>1. IInv => NoDescriptorLeak
  <2> SUFFICES ASSUME IInv, NEW s \in Sessions, wpc[s] = "done"
               PROVE  closes[s] >= 1 /\ ~fd[s]
    BY DEF NoDescriptorLeak
  <2>1. s < next_session_id
    BY ConstantsAssumption DEF IInv, TypeOK, ThreadInv, Sessions
  <2> QED BY <2>1 DEF IInv, DescriptorInv
<1> QED BY <1>1, Invariance, PTL

\* At most one caller is ever past stop()'s compare-exchange, and it is never
\* the destructor.
THEOREM SingleStopper == Spec => []OnlyOneStopper
BY Invariance, PTL DEF IInv

\* The caller past the compare-exchange finds the socket listening.
THEOREM ListenerPublished == Spec => []StopFindsListener
BY Invariance, PTL DEF IInv

\* running_instance_ dangles after ~Server only if start() had failed.
THEOREM InstanceReset == Spec => []DanglingOnlyAfterFailedStart
<1>1. IInv => DanglingOnlyAfterFailedStart
  <2> SUFFICES ASSUME IInv, destroyed, running_instance PROVE startFailed
    BY DEF DanglingOnlyAfterFailedStart
  <2>1. spc["dtor"] = "ret" /\ spc["handler"] = "idle" /\ mpc = "returned"
    BY DEF IInv, CallerInv
  <2>2. spc["owner"] \in {"idle", "ret"}
    BY <2>1, ConstantsAssumption DEF IInv, CallerInv
  <2>3. \A c \in Callers : spc[c] \notin Body
    BY <2>1, <2>2 DEF Callers, Body
  <2> QED BY <2>1, <2>3 DEF IInv, InstanceInv, RunningInv, Early
<1> QED BY <1>1, Invariance, PTL
=============================================================================
