---------------------------- MODULE LoggerProofs ----------------------------
(***************************************************************************)
(* Proofs about Logger, for any number of threads, calls and signals: the  *)
(* types, who holds the mutex, and that file and console agree.            *)
(***************************************************************************)
EXTENDS Logger, TLAPS

\* A context is inside a critical section if and only if it holds mutex_.
MutexInv == \A c \in Contexts : pc[c] \in Inside <=> mutex = c

\* Before Logger::init nobody has logged.
EarlyInv ==
    pc[Main] = "init" =>
        /\ file = <<>> /\ screen = <<>>
        /\ \A c \in Contexts \ {Main} : pc[c] \in {"idle", "exited"}

\* What the open file is ahead of the console by.
SinksInv ==
    fstate = "open" =>
        \/ /\ \A c \in Contexts : pc[c] # "console"
           /\ file = screen
        \/ \E c \in Contexts : pc[c] = "console"
                               /\ file = Append(screen, rec[c])

LoggerInv == TypeOK /\ MutexInv /\ EarlyInv /\ SinksInv

-----------------------------------------------------------------------------
\* The contexts are different from each other and from NoOne.
LEMMA ContextsDiffer ==
    /\ Main \in Contexts /\ Main \in Threads /\ Handler \in Contexts
    /\ NoOne \notin Contexts /\ Threads \subseteq Contexts
    /\ Workers \subseteq Contexts /\ Main \notin Workers
    /\ Handler # Main
BY LoggerAssumption DEF Contexts, Threads, Main, Handler, NoOne

\* The logger starts well typed.
LEMMA TypeInit == Init => TypeOK
BY LoggerAssumption, ContextsDiffer DEF Init, TypeOK, Records, PCs

\* A step moves one context from one place to another.
LEMMA FromType ==
    ASSUME TypeOK, NEW c \in Contexts, NEW a, NEW b \in PCs, From(c, a, b)
    PROVE  pc' \in [Contexts -> PCs]
BY DEF From, TypeOK

\* Every action of Logger keeps the types.
LEMMA TypeNext ==
    ASSUME TypeOK, [Next]_vars
    PROVE  TypeOK'
<1> USE LoggerAssumption, ContextsDiffer
<1>1. CASE InitLogger
  <2>1. min_level' \in 0 .. 3 /\ fstate' \in {"none", "open", "closed"}
    BY <1>1 DEF InitLogger, LevelOf, TypeOK, confVars
  <2>2. pc' \in [Contexts -> PCs]
    BY <1>1, FromType DEF InitLogger, PCs
  <2> QED
    BY <1>1, <2>1, <2>2
    DEF InitLogger, TypeOK, callVars, sinkVars, sigVars
<1>2. CASE SetLevel
  <2>1. pc' \in [Contexts -> PCs]
    BY <1>2, FromType DEF SetLevel, PCs
  <2>2. logs' \in [Contexts -> 0 .. MaxLogs]
    BY <1>2 DEF SetLevel, TypeOK
  <2>3. min_level' \in 0 .. 3
    BY <1>2 DEF SetLevel
  <2> QED
    BY <1>2, <2>1, <2>2, <2>3 DEF SetLevel, TypeOK, sinkVars, sigVars
<1>3. ASSUME NEW c \in Contexts, Call(c)
      PROVE  TypeOK'
  <2>1. pc' \in [Contexts -> PCs]
    BY <1>3, FromType DEF Call, PCs
  <2>2. logs' \in [Contexts -> 0 .. MaxLogs]
    BY <1>3 DEF Call, TypeOK
  <2>3. PICK level \in Levels :
           rec' = [rec EXCEPT ![c] = [by |-> c, n |-> logs[c],
                                      level |-> level]]
    BY <1>3 DEF Call
  <2>4. rec' \in [Contexts -> Records]
    BY <2>3 DEF TypeOK, Records
  <2> QED
    BY <1>3, <2>1, <2>2, <2>4 DEF Call, TypeOK, confVars, sinkVars, sigVars
<1>4. ASSUME NEW c \in Contexts, LogString(c)
      PROVE  TypeOK'
  <2>1. CASE Lock(c)
    <3>1. pc' \in [Contexts -> PCs]
      BY <2>1, FromType DEF Lock, PCs
    <3> QED
      BY <2>1, <3>1
      DEF Lock, TypeOK, confVars, callVars, sinkVars, sigVars
  <2>2. CASE Check(c)
    <3>1. pc' \in [Contexts -> PCs]
      BY <2>2, FromType DEF Check, Checks, PCs
    <3> QED
      BY <2>2, <3>1
      DEF Check, Checks, TypeOK, confVars, callVars, sinkVars, sigVars
  <2>3. CASE WriteFile(c)
    <3>1. pc' \in [Contexts -> PCs]
      BY <2>3, FromType DEF WriteFile, Writes, PCs
    <3>2. file' \in Seq(Records)
      BY <2>3 DEF WriteFile, Writes, TypeOK
    <3> QED
      BY <2>3, <3>1, <3>2
      DEF WriteFile, Writes, TypeOK, confVars, callVars, sigVars
  <2>4. CASE WriteConsole(c)
    <3>1. pc' \in [Contexts -> PCs]
      BY <2>4, FromType DEF WriteConsole, PCs
    <3>2. screen' \in Seq(Records)
      BY <2>4 DEF WriteConsole, TypeOK
    <3> QED
      BY <2>4, <3>1, <3>2
      DEF WriteConsole, TypeOK, confVars, callVars, sigVars
  <2>5. CASE Unlock(c)
    <3>1. pc' \in [Contexts -> PCs]
      BY <2>5, FromType DEF Unlock, PCs
    <3> QED
      BY <2>5, <3>1
      DEF Unlock, TypeOK, confVars, callVars, sinkVars, sigVars
  <2> QED
    BY <1>4, <2>1, <2>2, <2>3, <2>4, <2>5 DEF LogString
<1>5. CASE SignalArrives
  BY <1>5 DEF SignalArrives, TypeOK, confVars, callVars, sinkVars
<1>6. CASE HandlerReturns
  BY <1>6 DEF HandlerReturns, TypeOK, confVars, callVars, sinkVars
<1>7. ASSUME NEW w \in Workers, WorkerEnds(w)
      PROVE  TypeOK'
  <2>1. pc' \in [Contexts -> PCs]
    BY <1>7, FromType DEF WorkerEnds, PCs
  <2> QED
    BY <1>7, <2>1 DEF WorkerEnds, TypeOK, confVars, callVars, sinkVars, sigVars
<1>8. CASE MainReturns
  <2>1. pc' \in [Contexts -> PCs]
    BY <1>8, FromType DEF MainReturns, PCs
  <2> QED
    BY <1>8, <2>1
    DEF MainReturns, TypeOK, confVars, callVars, sinkVars, sigVars
<1>9. CASE DtorLock
  <2>1. pc' \in [Contexts -> PCs]
    BY <1>9, FromType DEF DtorLock, PCs
  <2> QED
    BY <1>9, <2>1 DEF DtorLock, TypeOK, confVars, callVars, sinkVars, sigVars
<1>10. CASE DtorClose
  <2>1. pc' \in [Contexts -> PCs]
    BY <1>10, FromType DEF DtorClose, PCs
  <2> QED
    BY <1>10, <2>1 DEF DtorClose, TypeOK, callVars, sinkVars, sigVars
<1>11. CASE UNCHANGED vars
  BY <1>11 DEF vars, TypeOK, confVars, callVars, sinkVars, sigVars
<1> QED
  BY <1>1, <1>2, <1>3, <1>4, <1>5, <1>6, <1>7, <1>8, <1>9, <1>10, <1>11
  DEF Next, Lives, Ended

-----------------------------------------------------------------------------
(* The mutex *)

\* Locking, unlocking and the early return are the only steps into and out of
\* a critical section.
LEMMA MutexNext ==
    ASSUME TypeOK, MutexInv, [Next]_vars
    PROVE  MutexInv'
<1> USE ContextsDiffer
<1>1. CASE InitLogger
  BY <1>1 DEF InitLogger, From, TypeOK, MutexInv, Inside
<1>2. CASE SetLevel
  BY <1>2 DEF SetLevel, From, TypeOK, MutexInv, Inside
<1>3. ASSUME NEW c \in Contexts, Call(c)
      PROVE  MutexInv'
  BY <1>3 DEF Call, From, TypeOK, MutexInv, Inside
<1>4. ASSUME NEW c \in Contexts, LogString(c)
      PROVE  MutexInv'
  <2>1. CASE Lock(c)
    BY <2>1 DEF Lock, From, TypeOK, MutexInv, Inside
  <2>2. CASE Check(c)
    BY <2>2 DEF Check, Checks, From, TypeOK, MutexInv, Inside
  <2>3. CASE WriteFile(c)
    BY <2>3 DEF WriteFile, Writes, From, TypeOK, MutexInv, Inside
  <2>4. CASE WriteConsole(c)
    BY <2>4 DEF WriteConsole, From, TypeOK, MutexInv, Inside
  <2>5. CASE Unlock(c)
    BY <2>5 DEF Unlock, From, TypeOK, MutexInv, Inside
  <2> QED
    BY <1>4, <2>1, <2>2, <2>3, <2>4, <2>5 DEF LogString
<1>5. CASE SignalArrives \/ HandlerReturns
  BY <1>5 DEF SignalArrives, HandlerReturns, MutexInv
<1>6. ASSUME NEW w \in Workers, WorkerEnds(w)
      PROVE  MutexInv'
  BY <1>6 DEF WorkerEnds, From, TypeOK, MutexInv, Inside
<1>7. CASE MainReturns
  BY <1>7 DEF MainReturns, From, TypeOK, MutexInv, Inside
<1>8. CASE DtorLock
  BY <1>8 DEF DtorLock, From, TypeOK, MutexInv, Inside
<1>9. CASE DtorClose
  BY <1>9 DEF DtorClose, From, TypeOK, MutexInv, Inside
<1>10. CASE UNCHANGED vars
  BY <1>10 DEF vars, MutexInv
<1> QED
  BY <1>1, <1>2, <1>3, <1>4, <1>5, <1>6, <1>7, <1>8, <1>9, <1>10
  DEF Next, Lives, Ended

-----------------------------------------------------------------------------
(* Before Logger::init *)

\* A context leaves "init" in InitLogger only, and nobody calls before.
LEMMA EarlyNext ==
    ASSUME TypeOK, EarlyInv, [Next]_vars
    PROVE  EarlyInv'
<1> USE ContextsDiffer
<1>1. CASE InitLogger
  BY <1>1 DEF InitLogger, From, TypeOK, EarlyInv
<1>2. CASE SetLevel
  BY <1>2 DEF SetLevel, From, TypeOK, EarlyInv
<1>3. ASSUME NEW c \in Contexts, Call(c)
      PROVE  EarlyInv'
  BY <1>3 DEF Call, From, TypeOK, EarlyInv
<1>4. ASSUME NEW c \in Contexts, LogString(c)
      PROVE  EarlyInv'
  <2>1. pc[Main] # "init" /\ pc'[Main] # "init"
    BY <1>4
    DEF LogString, Lock, Check, Checks, WriteFile, Writes, WriteConsole, Unlock,
        From, TypeOK, EarlyInv
  <2> QED
    BY <2>1 DEF EarlyInv
<1>5. CASE SignalArrives \/ HandlerReturns
  BY <1>5 DEF SignalArrives, HandlerReturns, EarlyInv, sinkVars
<1>6. ASSUME NEW w \in Workers, WorkerEnds(w)
      PROVE  EarlyInv'
  BY <1>6 DEF WorkerEnds, From, TypeOK, EarlyInv, sinkVars
<1>7. CASE MainReturns \/ DtorLock \/ DtorClose
  BY <1>7 DEF MainReturns, DtorLock, DtorClose, From, TypeOK, EarlyInv
<1>8. CASE UNCHANGED vars
  BY <1>8 DEF vars, EarlyInv, sinkVars
<1> QED
  BY <1>1, <1>2, <1>3, <1>4, <1>5, <1>6, <1>7, <1>8 DEF Next, Lives, Ended

-----------------------------------------------------------------------------
(* The file and the console *)

\* Two contexts are not inside at the same time.
LEMMA OneInside ==
    ASSUME MutexInv, NEW c \in Contexts, NEW d \in Contexts,
           pc[c] \in Inside, pc[d] \in Inside
    PROVE  c = d
BY DEF MutexInv

\* A step that touches neither the sinks nor the file's state, and no context at
\* the console, keeps what the sinks agree about.
LEMMA SinksStay ==
    ASSUME SinksInv,
           UNCHANGED <<file, screen>>, fstate' = "open" => fstate = "open",
           \A c \in Contexts : pc[c] = "console" => rec'[c] = rec[c],
           \A c \in Contexts : pc'[c] = "console" <=> pc[c] = "console"
    PROVE  SinksInv'
BY DEF SinksInv

\* The record in the file that is not on the console yet is the one of the
\* context that holds the mutex.
LEMMA SinksNext ==
    ASSUME TypeOK, MutexInv, EarlyInv, SinksInv, [Next]_vars
    PROVE  SinksInv'
<1> USE ContextsDiffer
<1>1. CASE InitLogger
  BY <1>1 DEF InitLogger, From, TypeOK, EarlyInv, SinksInv, sinkVars
<1>2. CASE SetLevel
  BY <1>2, SinksStay DEF SetLevel, From, TypeOK, sinkVars
<1>3. ASSUME NEW c \in Contexts, Call(c)
      PROVE  SinksInv'
  BY <1>3, SinksStay DEF Call, From, TypeOK, sinkVars, confVars
<1>4. ASSUME NEW c \in Contexts, LogString(c)
      PROVE  SinksInv'
  <2>1. CASE Lock(c)
    BY <2>1, SinksStay DEF Lock, From, TypeOK, sinkVars, confVars, callVars
  <2>2. CASE Check(c)
    BY <2>2, SinksStay
    DEF Check, Checks, From, TypeOK, sinkVars, confVars, callVars
  <2>3. CASE WriteFile(c)
    <3>1. \A d \in Contexts : pc[d] # "console"
      BY <2>3, OneInside DEF WriteFile, Writes, From, Inside
    <3>2. pc'[c] = "console"
      BY <2>3 DEF WriteFile, Writes, From, TypeOK
    <3>3. fstate = "open" => file' = Append(screen', rec'[c])
      BY <2>3, <3>1 DEF WriteFile, Writes, SinksInv, callVars
    <3> QED
      BY <2>3, <3>2, <3>3 DEF WriteFile, Writes, SinksInv, confVars
  <2>4. CASE WriteConsole(c)
    <3>1. \A d \in Contexts : pc[d] = "console" => d = c
      BY <2>4, OneInside DEF WriteConsole, From, Inside
    <3>2. \A d \in Contexts : pc'[d] # "console"
      BY <2>4, <3>1 DEF WriteConsole, From, TypeOK
    <3>3. fstate = "open" => file = Append(screen, rec[c])
      BY <2>4, <3>1 DEF WriteConsole, From, SinksInv
    <3> QED
      BY <2>4, <3>2, <3>3 DEF WriteConsole, SinksInv, confVars
  <2>5. CASE Unlock(c)
    BY <2>5, SinksStay DEF Unlock, From, TypeOK, sinkVars, confVars, callVars
  <2> QED
    BY <1>4, <2>1, <2>2, <2>3, <2>4, <2>5 DEF LogString
<1>5. CASE SignalArrives \/ HandlerReturns
  BY <1>5, SinksStay
  DEF SignalArrives, HandlerReturns, sinkVars, confVars, callVars
<1>6. ASSUME NEW w \in Workers, WorkerEnds(w)
      PROVE  SinksInv'
  BY <1>6, SinksStay DEF WorkerEnds, From, TypeOK, sinkVars, confVars, callVars
<1>7. CASE MainReturns \/ DtorLock
  BY <1>7, SinksStay
  DEF MainReturns, DtorLock, From, TypeOK, sinkVars, confVars, callVars
<1>8. CASE DtorClose
  BY <1>8, SinksStay DEF DtorClose, From, TypeOK, sinkVars, callVars
<1>9. CASE UNCHANGED vars
  BY <1>9, SinksStay DEF vars, sinkVars, confVars, callVars
<1> QED
  BY <1>1, <1>2, <1>3, <1>4, <1>5, <1>6, <1>7, <1>8, <1>9
  DEF Next, Lives, Ended

-----------------------------------------------------------------------------
\* The inductive invariant of the logger: types, who holds the mutex, nobody
\* logs before init, and by what file and console differ.
THEOREM LoggerInvariance == Spec => []LoggerInv
<1>1. Init => LoggerInv
  <2> SUFFICES ASSUME Init PROVE LoggerInv
    OBVIOUS
  <2>1. MutexInv /\ EarlyInv /\ SinksInv
    BY ContextsDiffer DEF Init, MutexInv, EarlyInv, SinksInv, Inside
  <2> QED
    BY <2>1, TypeInit DEF LoggerInv
<1>2. LoggerInv /\ [Next]_vars => LoggerInv'
  BY TypeNext, MutexNext, EarlyNext, SinksNext DEF LoggerInv
<1> QED
  BY <1>1, <1>2, PTL DEF Spec

\* Every variable of the logger keeps its type: the records in both sinks are
\* ones that some context has made.
THEOREM LoggerTypes == Spec => []TypeOK
<1>1. LoggerInv => TypeOK
  BY DEF LoggerInv
<1> QED
  BY <1>1, LoggerInvariance, PTL

\* log_string's one critical section around both sinks keeps the file and the
\* console equal up to the record being written, for any number of threads.
THEOREM SinksStayEqual == Spec => []SinksAgree
<1>1. LoggerInv => SinksAgree
  BY DEF LoggerInv, SinksInv, MutexInv, SinksAgree, Inside
<1> QED
  BY <1>1, LoggerInvariance, PTL
=============================================================================
