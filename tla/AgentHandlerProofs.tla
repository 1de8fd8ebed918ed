------------------------- MODULE AgentHandlerProofs -------------------------
(* Proofs about AgentHandler, for every set of requests, every size of the *)
(* thread pool and every kind of credentials.                              *)
EXTENDS AgentHandler, FiniteSetTheorems, TLAPS

(* Every action of the handler, the thread pool, the director and the host *)
(* preserves the types.                                                    *)
LEMMA TypeStep == TypeOK /\ [Next]_vars => TypeOK'
<1> SUFFICES ASSUME TypeOK, [Next]_vars PROVE TypeOK'
  OBVIOUS
<1> USE DEF TypeOK, At, killVars, historyVars, PC, Active, Holding, NatsSteps, NatsIdle
<1>1. ASSUME NEW r \in Requests, Send(r) PROVE TypeOK'
  BY <1>1 DEF Send
<1>2. ASSUME NEW r \in Requests, HandleMessage(r) PROVE TypeOK'
  BY <1>2 DEF HandleMessage, DropMessage, QueueWorkItem, HandleShutdown
<1>3. ASSUME NEW r \in Requests, AskTask(r) PROVE TypeOK'
  BY <1>3 DEF AskTask
<1>4. CASE LookInTasks
  BY <1>4 DEF LookInTasks
<1>5. CASE OpenResults
  BY <1>5 DEF OpenResults
<1>6. CASE ScanResults
  BY <1>6 DEF ScanResults
<1>7. CASE PublishAnswer
  BY <1>7 DEF PublishAnswer, AnswerOf, Answers
<1>8. ASSUME NEW r \in Requests, PoolThread(r) PROVE TypeOK'
  <2>1. CASE TakeWorkItem(r)
    BY <2>1 DEF TakeWorkItem
  <2>2. CASE CheckRestarting(r)
    BY <2>2 DEF CheckRestarting
  <2>3. CASE AcquireLock(r)
    BY <2>3 DEF AcquireLock
  <2>4. CASE RegisterTask(r)
    BY <2>4 DEF RegisterTask
  <2>5. CASE RejectTask(r)
    BY <2>5 DEF RejectTask
  <2>6. CASE AnnounceTask(r)
    BY <2>6 DEF AnnounceTask
  <2>7. CASE ProcessTask(r)
    BY <2>7 DEF ProcessTask, KillMainThreadIn
  <2>8. CASE RecordResult(r)
    BY <2>8 DEF RecordResult
  <2>9. CASE RemoveTask(r)
    BY <2>9 DEF RemoveTask
  <2>10. CASE ReleaseLock(r)
    BY <2>10 DEF ReleaseLock
  <2>11. CASE ProcessShort(r)
    BY <2>11 DEF ProcessShort, KillMainThreadIn
  <2>12. CASE ReplyShort(r)
    BY <2>12 DEF ReplyShort
  <2>13. CASE TakeKill(r)
    BY <2>13 DEF TakeKill
  <2> QED
    BY <1>8, <2>1, <2>2, <2>3, <2>4, <2>5, <2>6, <2>7, <2>8, <2>9, <2>10,
       <2>11, <2>12, <2>13 DEF PoolThread
<1>9. ASSUME ProcessEnds PROVE TypeOK'
  BY <1>9 DEF ProcessEnds, Answers
<1>10. CASE Restart
  BY <1>10 DEF Restart
<1>11. CASE UNCHANGED vars
  BY <1>11 DEF vars
<1> QED
  BY <1>1, <1>2, <1>3, <1>4, <1>5, <1>6, <1>7, <1>8, <1>9, <1>10, <1>11
  DEF Next, NatsThread, Kill, Halt, Crash

(* The handler's variables always have their types.                        *)
THEOREM HandlerTypes == Spec => []TypeOK
<1>1. Init => TypeOK
  <2> SUFFICES ASSUME Init PROVE TypeOK
    OBVIOUS
  <2>1. pc \in [Requests -> PC] /\ answered \in [Requests -> Answers]
    BY DEF Init, PC, Answers
  <2>2. nats \in [step : NatsSteps, id : Requests \cup {NoRequest},
                 snapshot : SUBSET Requests]
    BY DEF Init, NatsIdle, NatsSteps
  <2>3. up \in BOOLEAN /\ restarting \in BOOLEAN /\ halting \in BOOLEAN
    BY Zenon DEF Init
  <2> QED
    BY <2>1, <2>2, <2>3 DEF Init, TypeOK
<1> QED
  BY <1>1, TypeStep, PTL DEF Spec

-----------------------------------------------------------------------------
(* The NATS thread and the director touch neither the mutex nor the two    *)
(* collections: what their steps can disturb is PollInv and DirectorInv.   *)
LEMMA NatsStep ==
  ASSUME HandlerInv, TypeOK',
         \/ \E r \in Requests : Send(r) \/ HandleMessage(r) \/ AskTask(r)
         \/ LookInTasks \/ OpenResults \/ ScanResults \/ PublishAnswer
  PROVE  HandlerInv'
<1> USE DEF HandlerInv, TypeOK, LockInv, TaskInv, ResultInv, DirectorInv, PollInv,
        killVars, historyVars, NatsIdle
<1>1. ASSUME NEW r \in Requests, Send(r) PROVE HandlerInv'
  BY <1>1 DEF Send, At, Holding, Registered
<1>2. ASSUME NEW r \in Requests, HandleMessage(r) PROVE HandlerInv'
  <2>1. /\ pc[r] = "sent"
        /\ \E p \in {"queued", "done"} : pc' = [pc EXCEPT ![r] = p]
    BY <1>2 DEF HandleMessage, DropMessage, QueueWorkItem, HandleShutdown, At
  <2>2. UNCHANGED <<nats, lock, tasks, results, announced, forgotten, answered>>
    BY <1>2 DEF HandleMessage
  <2> QED
    BY <2>1, <2>2 DEF Holding, Registered
<1>3. ASSUME NEW r \in Requests, AskTask(r) PROVE HandlerInv'
  BY <1>3 DEF AskTask
<1>4. CASE LookInTasks
  BY <1>4 DEF LookInTasks
<1>5. CASE OpenResults
  BY <1>5 DEF OpenResults
<1>6. CASE ScanResults
  BY <1>6 DEF ScanResults
<1>7. CASE PublishAnswer
  <2>1. nats.id \in Requests /\ nats' = NatsIdle
    BY <1>7 DEF PublishAnswer
  <2>2. \A t \in Requests :
          /\ answered'[t] = "unknown" => t \in forgotten
          /\ answered'[t] = "result" => t \in results \ tasks
    <3>1. CASE answered' = [answered EXCEPT ![nats.id] = AnswerOf(nats.step)]
      BY <1>7, <2>1, <3>1 DEF PublishAnswer, AnswerOf
    <3>2. CASE UNCHANGED answered
      BY <3>2
    <3> QED
      BY <1>7, <3>1, <3>2 DEF PublishAnswer
  <2> QED
    BY <1>7, <2>1, <2>2 DEF PublishAnswer
<1> QED
  BY <1>1, <1>2, <1>3, <1>4, <1>5, <1>6, <1>7

(* The steps of one request on its thread of the pool.                     *)
LEMMA PoolStep ==
  ASSUME HandlerInv, TypeOK', NEW r \in Requests, PoolThread(r)
  PROVE  HandlerInv'
<1> USE DEF HandlerInv, TypeOK, LockInv, TaskInv, ResultInv, DirectorInv, PollInv,
        killVars, historyVars, NatsIdle, At, Holding, Registered
<1>1. CASE TakeWorkItem(r)
  BY <1>1 DEF TakeWorkItem
<1>2. CASE CheckRestarting(r)
  BY <1>2 DEF CheckRestarting
<1>3. CASE AcquireLock(r)
  BY <1>3, HandlerAssumption DEF AcquireLock
<1>4. CASE RegisterTask(r)
  BY <1>4 DEF RegisterTask
<1>5. CASE RejectTask(r)
  BY <1>5 DEF RejectTask
<1>6. CASE AnnounceTask(r)
  BY <1>6 DEF AnnounceTask
<1>7. CASE ProcessTask(r)
  BY <1>7 DEF ProcessTask
<1>8. CASE RecordResult(r)
  BY <1>8 DEF RecordResult
<1>9. CASE RemoveTask(r)
  BY <1>9 DEF RemoveTask
<1>10. CASE ReleaseLock(r)
  BY <1>10, HandlerAssumption DEF ReleaseLock
<1>11. CASE ProcessShort(r)
  BY <1>11 DEF ProcessShort
<1>12. CASE ReplyShort(r)
  BY <1>12 DEF ReplyShort
<1>13. CASE TakeKill(r)
  BY <1>13 DEF TakeKill
<1> QED
  BY <1>1, <1>2, <1>3, <1>4, <1>5, <1>6, <1>7, <1>8, <1>9, <1>10, <1>11, <1>12,
     <1>13 DEF PoolThread

(* The end of the process, whatever its cause, and its restart.            *)
LEMMA HostStep ==
  ASSUME HandlerInv, TypeOK', Kill \/ Halt \/ Crash \/ Restart
  PROVE  HandlerInv'
<1> USE DEF HandlerInv, LockInv, TaskInv, ResultInv, DirectorInv, PollInv
<1>1. CASE ProcessEnds
  BY <1>1, HandlerAssumption DEF ProcessEnds, NatsIdle, Holding, Registered, TypeOK
<1>2. CASE Restart
  BY <1>2 DEF Restart, killVars, historyVars
<1> QED
  BY <1>1, <1>2 DEF Kill, Halt, Crash

(* HandlerInv is inductive.                                                *)
LEMMA HandlerInvStep == HandlerInv /\ [Next]_vars => HandlerInv'
<1> SUFFICES ASSUME HandlerInv, [Next]_vars PROVE HandlerInv'
  OBVIOUS
<1>1. TypeOK'
  BY TypeStep DEF HandlerInv
<1>2. CASE Next
  BY <1>1, <1>2, NatsStep, PoolStep, HostStep DEF Next, NatsThread
<1>3. CASE UNCHANGED vars
  BY <1>1, <1>3 DEF vars, HandlerInv, LockInv, TaskInv, ResultInv, DirectorInv, PollInv
<1> QED
  BY <1>2, <1>3

(* The invariant that ties the mutex, the two collections, the polls and   *)
(* what the director knows holds in every reachable state.                 *)
THEOREM HandlerInvariant == Spec => []HandlerInv
<1>1. Init /\ TypeOK => HandlerInv
  BY HandlerAssumption
  DEF Init, HandlerInv, LockInv, TaskInv, ResultInv, DirectorInv, PollInv, NatsIdle,
      Holding, Registered
<1> QED
  BY <1>1, HandlerTypes, HandlerInvStep, PTL DEF Spec

(* The "already running" branch of ProcessInThread is unreachable: whoever *)
(* gets the mutex finds no task registered.                                *)
THEOREM NoRejection == Spec => []NeverRejected
<1>1. HandlerInv => NeverRejected
  BY DEF HandlerInv, NeverRejected, LockInv, TaskInv, TypeOK, Holding, Registered
<1> QED
  BY <1>1, HandlerInvariant, PTL

(* get_task never calls a task unknown that this process announced.        *)
THEOREM AnnouncedTasksAreKnown == Spec => []AnnouncedIsKnown
<1>1. HandlerInv => AnnouncedIsKnown
  BY DEF HandlerInv, AnnouncedIsKnown, DirectorInv, TypeOK
<1> QED
  BY <1>1, HandlerInvariant, PTL

-----------------------------------------------------------------------------
(* A get_task answer that delivers a result is never taken back while the  *)
(* process lives.                                                          *)
THEOREM FinalAnswers == Spec => AnswersAreFinal
<1>1. HandlerInv /\ [Next]_vars =>
        [\A t \in Requests :
           answered[t] = "result" /\ up' => answered'[t] = "result"]_vars
  <2> SUFFICES ASSUME HandlerInv, Next, NEW t \in Requests,
                      answered[t] = "result", up'
               PROVE  answered'[t] = "result"
    BY DEF vars
  <2>1. CASE PublishAnswer
    <3>1. t \in results \ tasks /\ t \notin forgotten
      BY DEF HandlerInv, DirectorInv, TypeOK
    <3>2. nats.id = t => nats.step = "found"
      BY <2>1, <3>1 DEF PublishAnswer, HandlerInv, PollInv
    <3> QED
      BY <2>1, <3>2 DEF PublishAnswer, AnswerOf, HandlerInv, TypeOK
  <2>2. CASE ProcessEnds
    BY <2>2 DEF ProcessEnds
  <2>3. CASE UNCHANGED answered
    BY <2>3
  <2>4. ASSUME NEW r \in Requests, Send(r) \/ HandleMessage(r) \/ AskTask(r)
        PROVE  UNCHANGED answered
    BY <2>4 DEF Send, HandleMessage, AskTask, historyVars
  <2>5. ASSUME LookInTasks \/ OpenResults \/ ScanResults \/ Restart
        PROVE  UNCHANGED answered
    BY <2>5 DEF LookInTasks, OpenResults, ScanResults, Restart, historyVars
  <2>6. ASSUME NEW r \in Requests, PoolThread(r) PROVE UNCHANGED answered
    BY <2>6 DEF PoolThread, TakeWorkItem, CheckRestarting, AcquireLock, RegisterTask,
                RejectTask, AnnounceTask, ProcessTask, RecordResult, RemoveTask,
                ReleaseLock, ProcessShort, ReplyShort, TakeKill, historyVars
  <2> QED
    BY <2>1, <2>2, <2>3, <2>4, <2>5, <2>6 DEF Next, NatsThread, Kill, Halt, Crash
<1> QED
  BY <1>1, HandlerInvariant, PTL DEF Spec, AnswersAreFinal

(* A free thread is what lets the pool take one more work item.            *)
LEMMA ThreadTaken ==
  ASSUME TypeOK, PoolInv, ThreadFree, NEW r \in Requests, r \notin Threads,
         Threads' = Threads \cup {r}, UNCHANGED killAsleep
  PROVE  PoolInv'
<1>1. IsFiniteSet(Threads') /\ Cardinality(Threads') = Cardinality(Threads) + 1
  BY FS_AddElement DEF PoolInv
<1>2. Cardinality(Threads) \in Nat /\ Cardinality(killAsleep) \in Nat
  BY FS_CardinalityType DEF PoolInv
<1> QED
  BY <1>1, <1>2, HandlerAssumption DEF PoolInv, ThreadFree

(* A request that has a thread keeps it or gives it back.                  *)
LEMMA ThreadKept ==
  ASSUME PoolInv, Threads' \subseteq Threads, UNCHANGED killAsleep
  PROVE  PoolInv'
<1>1. IsFiniteSet(Threads') /\ Cardinality(Threads') <= Cardinality(Threads)
  BY FS_Subset DEF PoolInv
<1>2. /\ Cardinality(Threads) \in Nat /\ Cardinality(killAsleep) \in Nat
      /\ Cardinality(Threads') \in Nat
  BY <1>1, FS_CardinalityType DEF PoolInv
<1> QED
  BY <1>1, <1>2, HandlerAssumption DEF PoolInv

(* Nobody joins those who read the flag before it was set: the bound stays.*)
LEMMA StaleKept ==
  ASSUME StaleInv, IsFiniteSet(Threads), Waiting \subseteq Threads,
         UNCHANGED restarting, late' \subseteq late \cup Waiting,
         restarting => Waiting' \subseteq Waiting,
         ~restarting => late' = {}
  PROVE  StaleInv'
<1>1. IsFiniteSet(late \cup Waiting)
  <2>1. IsFiniteSet(Waiting)
    BY FS_Subset
  <2> QED
    BY <2>1, FS_Union DEF StaleInv
<1>2. IsFiniteSet(late')
  BY <1>1, FS_Subset
<1>3. ASSUME restarting PROVE Cardinality((late \cup Waiting)') < MaxThreads
  <2>1. (late \cup Waiting)' \subseteq late \cup Waiting
    BY <1>3
  <2>2. /\ IsFiniteSet((late \cup Waiting)')
        /\ Cardinality((late \cup Waiting)') <= Cardinality(late \cup Waiting)
    BY <1>1, <2>1, FS_Subset
  <2>3. Cardinality((late \cup Waiting)') \in Nat /\ Cardinality(late \cup Waiting) \in Nat
    BY <1>1, <2>2, FS_CardinalityType
  <2> QED
    BY <1>3, <2>2, <2>3, HandlerAssumption DEF StaleInv
<1> QED
  BY <1>2, <1>3 DEF StaleInv

(* The request that sets the flag has a thread itself: when it does, fewer *)
(* requests than threads have read it as false.                            *)
LEMMA FlagSet ==
  ASSUME PoolInv, StaleInv, NEW r \in Threads, r \notin Waiting, Waiting \subseteq Threads,
         restarting', UNCHANGED <<late, Waiting>>
  PROVE  StaleInv'
<1>1. IsFiniteSet(Threads) /\ IsFiniteSet(killAsleep)
  BY DEF PoolInv
<1>2. IsFiniteSet(Threads \ {r}) /\ Cardinality(Threads \ {r}) = Cardinality(Threads) - 1
  BY <1>1, FS_RemoveElement
<1>3. IsFiniteSet(Waiting) /\ Cardinality(Waiting) <= Cardinality(Threads \ {r})
  BY <1>2, FS_Subset
<1>4. /\ Cardinality(Threads) \in Nat /\ Cardinality(Waiting) \in Nat
      /\ Cardinality(killAsleep) \in Nat
  BY <1>1, <1>3, FS_CardinalityType
<1>5. Cardinality(Waiting) < MaxThreads
  BY <1>2, <1>3, <1>4, HandlerAssumption DEF PoolInv
<1>6. CASE restarting
  BY <1>6 DEF StaleInv
<1>7. CASE ~restarting
  <2>1. late = {} /\ late \cup Waiting = Waiting
    BY <1>7 DEF StaleInv
  <2> QED
    BY <1>5, <2>1, FS_EmptySet DEF StaleInv
<1> QED
  BY <1>6, <1>7

(* The threads of the pool and the late starts, step by step.              *)
LEMMA RestartInvStep == RestartInv /\ [Next]_vars => RestartInv'
<1> SUFFICES ASSUME RestartInv, [Next]_vars PROVE RestartInv'
  OBVIOUS
<1>1. TypeOK' /\ TypeOK /\ PoolInv /\ StaleInv
  BY TypeStep DEF RestartInv
<1>2. Waiting \subseteq Threads /\ IsFiniteSet(Threads)
  BY DEF Waiting, Threads, Active, PoolInv, RestartInv
<1> USE DEF At, killVars, historyVars
<1>3. ASSUME UNCHANGED <<restarting, killAsleep, late>>, Threads' = Threads, Waiting' = Waiting
      PROVE  RestartInv'
  <2>1. ~restarting => late' = {}
    BY <1>1, <1>3 DEF StaleInv
  <2> QED
    BY <1>1, <1>2, <1>3, <2>1, ThreadKept, StaleKept DEF RestartInv
<1>4. ASSUME NEW r \in Requests, UNCHANGED <<restarting, killAsleep>>,
             NEW p, pc' = [pc EXCEPT ![r] = p], p # "waiting", r \in Threads,
             late' \subseteq late \cup Waiting, ~restarting => late' = {}
      PROVE  RestartInv'
  <2>1. Threads' \subseteq Threads /\ Waiting' \subseteq Waiting
    BY <1>1, <1>4 DEF Threads, Waiting, TypeOK
  <2> QED
    BY <1>1, <1>2, <1>4, <2>1, ThreadKept, StaleKept DEF RestartInv
<1>5. ASSUME NEW r \in Requests, Send(r) \/ HandleMessage(r) \/ AskTask(r)
      PROVE  RestartInv'
  <2>1. UNCHANGED <<restarting, killAsleep, late>>
    BY <1>5 DEF Send, HandleMessage, AskTask
  <2>2. UNCHANGED pc \/ (pc[r] \in {"unsent", "sent"} /\
          \E p \in {"sent", "lost", "queued", "done"} : pc' = [pc EXCEPT ![r] = p])
    BY <1>5 DEF Send, HandleMessage, AskTask, QueueWorkItem, HandleShutdown, DropMessage
  <2>3. Threads' = Threads /\ Waiting' = Waiting
    BY <1>1, <2>2 DEF Threads, Waiting, TypeOK, Active, Holding
  <2> QED
    BY <1>3, <2>1, <2>3
<1>6. ASSUME LookInTasks \/ OpenResults \/ ScanResults \/ PublishAnswer \/ Restart
      PROVE  RestartInv'
  <2>1. UNCHANGED <<restarting, killAsleep, late, pc>>
    BY <1>6 DEF LookInTasks, OpenResults, ScanResults, PublishAnswer, Restart
  <2> QED
    BY <1>3, <2>1 DEF Threads, Waiting
<1>7. ASSUME NEW r \in Requests, PoolThread(r) PROVE RestartInv'
  <2>1. CASE TakeWorkItem(r)
    <3>1. /\ r \notin Threads /\ Threads' = Threads \cup {r} /\ Waiting' = Waiting
          /\ ThreadFree /\ UNCHANGED <<restarting, killAsleep, late>>
      BY <1>1, <2>1 DEF TakeWorkItem, Threads, Waiting, TypeOK, Active, Holding
    <3>2. PoolInv'
      BY <1>1, <3>1, ThreadTaken
    <3>3. ~restarting => late' = {}
      BY <1>1, <3>1 DEF StaleInv
    <3> QED
      BY <1>1, <1>2, <3>1, <3>2, <3>3, StaleKept DEF RestartInv
  <2>2. CASE CheckRestarting(r)
    <3>1. /\ r \in Threads /\ Threads' \subseteq Threads
          /\ restarting => Waiting' \subseteq Waiting
          /\ UNCHANGED <<restarting, killAsleep, late>>
      BY <1>1, <2>2 DEF CheckRestarting, Threads, Waiting, TypeOK, Active, Holding
    <3>2. ~restarting => late' = {}
      BY <1>1, <3>1 DEF StaleInv
    <3> QED
      BY <1>1, <1>2, <3>1, <3>2, ThreadKept, StaleKept DEF RestartInv
  <2>3. CASE AcquireLock(r)
    <3>1. r \in Waiting /\ r \in Threads /\ UNCHANGED <<restarting, killAsleep>>
      BY <2>3 DEF AcquireLock, Waiting, Threads, Active
    <3>2. late' \subseteq late \cup Waiting
      BY <2>3, <3>1 DEF AcquireLock
    <3>3. ~restarting => late' = {}
      BY <1>1, <2>3 DEF AcquireLock, StaleInv
    <3>4. pc' = [pc EXCEPT ![r] = "locked"]
      BY <2>3 DEF AcquireLock
    <3> QED
      BY <1>4, <3>1, <3>2, <3>3, <3>4
  <2>4. CASE \/ RegisterTask(r) \/ RejectTask(r) \/ AnnounceTask(r) \/ RecordResult(r)
             \/ RemoveTask(r) \/ ReleaseLock(r) \/ ReplyShort(r)
    <3>1. r \in Threads /\ UNCHANGED <<restarting, killAsleep, late>>
      BY <2>4 DEF RegisterTask, RejectTask, AnnounceTask, RecordResult, RemoveTask,
                  ReleaseLock, ReplyShort, Threads, Active, Holding
    <3>2. \E p \in {"registered", "releasing", "running", "recorded", "done"} :
            pc' = [pc EXCEPT ![r] = p]
      BY <2>4 DEF RegisterTask, RejectTask, AnnounceTask, RecordResult, RemoveTask,
                  ReleaseLock, ReplyShort
    <3>3. ~restarting => late' = {}
      BY <1>1, <3>1 DEF StaleInv
    <3> QED
      BY <1>4, <3>1, <3>2, <3>3
  <2>5. CASE ProcessTask(r) \/ ProcessShort(r)
    <3>1. /\ r \in Threads /\ r \notin Waiting /\ Waiting' = Waiting /\ Threads' = Threads
          /\ UNCHANGED <<killAsleep, late>>
      BY <1>1, <2>5 DEF ProcessTask, ProcessShort, KillMainThreadIn, Threads, Waiting,
                        TypeOK, Active, Holding
    <3>2. UNCHANGED restarting \/ restarting'
      BY <2>5 DEF ProcessTask, ProcessShort, KillMainThreadIn
    <3>3. CASE UNCHANGED restarting
      BY <1>3, <3>1, <3>3
    <3>4. CASE restarting'
      BY <1>1, <1>2, <3>1, <3>4, FlagSet, ThreadKept DEF RestartInv
    <3> QED
      BY <3>2, <3>3, <3>4
  <2>6. CASE TakeKill(r)
    <3>1. /\ Threads' = Threads /\ Waiting' = Waiting /\ UNCHANGED <<restarting, late>>
          /\ killAsleep' = killAsleep \cup {r} /\ ThreadFree
      BY <2>6 DEF TakeKill, Threads, Waiting
    <3>2. /\ IsFiniteSet(killAsleep') /\ Cardinality(killAsleep') \in Nat
          /\ Cardinality(killAsleep') <= Cardinality(killAsleep) + 1
      <4>1. IsFiniteSet(killAsleep) /\ Cardinality(killAsleep) \in Nat
        BY <1>1, FS_CardinalityType DEF PoolInv
      <4> QED
        BY <3>1, <4>1, FS_AddElement
    <3>3. PoolInv'
      <4>1. Cardinality(killAsleep) \in Nat /\ Cardinality(Threads) \in Nat
        BY <1>1, FS_CardinalityType DEF PoolInv
      <4> QED
        BY <1>1, <3>1, <3>2, <4>1, HandlerAssumption DEF PoolInv, ThreadFree
    <3>4. ~restarting => late' = {}
      BY <1>1, <3>1 DEF StaleInv
    <3> QED
      BY <1>1, <1>2, <3>1, <3>3, <3>4, StaleKept DEF RestartInv
  <2> QED
    BY <1>7, <2>1, <2>2, <2>3, <2>4, <2>5, <2>6 DEF PoolThread
<1>8. CASE ProcessEnds
  <2>1. ~restarting' /\ late' = {} /\ killAsleep' = {} /\ Threads' = {}
    BY <1>8 DEF ProcessEnds, Threads, Active, Holding
  <2> QED
    BY <1>1, <2>1, FS_EmptySet, HandlerAssumption DEF RestartInv, PoolInv, StaleInv
<1>9. CASE UNCHANGED vars
  BY <1>3, <1>9 DEF vars, Threads, Waiting
<1> QED
  BY <1>5, <1>6, <1>7, <1>8, <1>9 DEF Next, NatsThread, Kill, Halt, Crash

(* A thread that acts on a stale read of RestartingAgent is one of the     *)
(* others of the pool: fewer long running requests than the pool has       *)
(* threads start once the agent is to be restarted, for every number of    *)
(* requests and every size of the pool.                                    *)
THEOREM StaleStarts == Spec => []StaleStartsBounded
<1>1. Init /\ TypeOK => RestartInv
  <2> SUFFICES ASSUME Init, TypeOK PROVE RestartInv
    OBVIOUS
  <2>1. Threads = {} /\ killAsleep = {} /\ late = {} /\ ~restarting
    BY DEF Init, Threads, Active, Holding
  <2> QED
    BY <2>1, FS_EmptySet, HandlerAssumption DEF RestartInv, PoolInv, StaleInv
<1>2. RestartInv => StaleStartsBounded
  <2> SUFFICES ASSUME RestartInv PROVE Cardinality(late) < MaxThreads
    BY DEF StaleStartsBounded
  <2>1. CASE restarting
    <3>1. IsFiniteSet(Waiting)
      <4>1. Waiting \subseteq Threads
        BY DEF Waiting, Threads, Active
      <4> QED
        BY <4>1, FS_Subset DEF RestartInv, PoolInv
    <3>2. IsFiniteSet(late \cup Waiting)
      BY <3>1, FS_Union DEF RestartInv, StaleInv
    <3>3. IsFiniteSet(late) /\ Cardinality(late) <= Cardinality(late \cup Waiting)
      BY <3>2, FS_Subset
    <3>4. Cardinality(late) \in Nat /\ Cardinality(late \cup Waiting) \in Nat
      BY <3>2, <3>3, FS_CardinalityType
    <3> QED
      BY <2>1, <3>3, <3>4, HandlerAssumption DEF RestartInv, StaleInv
  <2>2. CASE ~restarting
    BY <2>2, FS_EmptySet, HandlerAssumption DEF RestartInv, StaleInv
  <2> QED
    BY <2>1, <2>2
<1> QED
  BY <1>1, <1>2, HandlerTypes, RestartInvStep, PTL DEF Spec

(* An id that Publish leaked is the end of long running work: this process *)
(* registers and announces nothing more.  The leaked id is the only one    *)
(* registered, and its request is done: no other request can be between    *)
(* its Add and its Remove, and none passes the test of the count.          *)
THEOREM LeaksBlock == Spec => LeakedTaskBlocks
<1>1. HandlerInv /\ [Next]_vars =>
        [\A t \in tasks : pc[t] = "done" /\ up' =>
           tasks' = tasks /\ announced' = announced]_vars
  <2> SUFFICES ASSUME HandlerInv, Next, NEW t \in tasks, pc[t] = "done", up'
               PROVE  tasks' = tasks /\ announced' = announced
    BY DEF vars
  <2> USE DEF historyVars
  <2>1. \A r \in Requests : pc[r] \notin Registered
    BY DEF HandlerInv, TaskInv, Registered
  <2>2. ASSUME NEW r \in Requests, Send(r) \/ HandleMessage(r) \/ AskTask(r)
        PROVE  tasks' = tasks /\ announced' = announced
    BY <2>2 DEF Send, HandleMessage, AskTask
  <2>3. ASSUME LookInTasks \/ OpenResults \/ ScanResults \/ PublishAnswer \/ Restart
        PROVE  tasks' = tasks /\ announced' = announced
    BY <2>3 DEF LookInTasks, OpenResults, ScanResults, PublishAnswer, Restart
  <2>4. ASSUME NEW r \in Requests, PoolThread(r)
        PROVE  tasks' = tasks /\ announced' = announced
    <3>1. ~RegisterTask(r)
      BY DEF RegisterTask
    <3>2. ~AnnounceTask(r) /\ ~RemoveTask(r)
      BY <2>1 DEF AnnounceTask, RemoveTask, Registered
    <3> QED
      BY <2>4, <3>1, <3>2
      DEF PoolThread, TakeWorkItem, CheckRestarting, AcquireLock, RejectTask,
          ProcessTask, RecordResult, ReleaseLock, ProcessShort, ReplyShort, TakeKill
  <2>5. ~ProcessEnds
    BY DEF ProcessEnds
  <2> QED
    BY <2>2, <2>3, <2>4, <2>5 DEF Next, NatsThread, Kill, Halt, Crash
<1> QED
  BY <1>1, HandlerInvariant, PTL DEF Spec, LeakedTaskBlocks

-----------------------------------------------------------------------------
(* The handler implements TaskService.                                     *)

(* The status a poll that decided for this step has found.                 *)
AnswerStatus(step) ==
  CASE step = "running" -> "running"
    [] step = "found"   -> "finished"
    [] OTHER            -> "absent"

(* The two reads of HandleGetTask, made without the mutex, answer as if    *)
(* they were one.                                                          *)
LEMMA PollRefines ==
  ASSUME HandlerInv, LookInTasks \/ OpenResults \/ ScanResults \/ PublishAnswer
  PROVE  [TS!Next]_(TS!vars)
<1>1. UNCHANGED <<tasks, results>> /\ nats.step # "idle"
  BY DEF LookInTasks, OpenResults, ScanResults, PublishAnswer
<1>2. UNCHANGED [t \in Requests |-> TaskStatus(t)]
  BY <1>1 DEF TaskStatus
<1>3. nats.id \in Requests /\ nats.id # NoRequest
  BY <1>1, HandlerAssumption DEF HandlerInv, PollInv, TypeOK
<1>4. nats' = NatsIdle => TS!Answer
  BY <1>2, <1>3 DEF TS!Answer, NatsIdle, PollSeen
<1>5. ASSUME NEW step \in {"tasks", "results", "scanning"}, nats.step = step,
             NEW next \in {"running", "found", "unknown"},
             nats' = [nats EXCEPT !.step = next],
             TaskStatus(nats.id) = AnswerStatus(next)
      PROVE  TS!Decide
  <2>1. nats'.id = nats.id /\ nats'.step = next
    BY <1>5 DEF HandlerInv, TypeOK
  <2>2. PollSeen = "undecided" /\ PollSeen' = AnswerStatus(next)
    BY <1>5, <2>1 DEF PollSeen, AnswerStatus
  <2> QED
    BY <1>2, <1>3, <1>5, <2>1, <2>2 DEF TS!Decide
<1>6. ASSUME NEW next \in {"results", "scanning"}, nats'.step = next, nats'.id = nats.id,
             nats.step \in {"tasks", "results"}
      PROVE  UNCHANGED TS!vars
  BY <1>2, <1>6 DEF TS!vars, PollSeen
<1>7. CASE LookInTasks
  <2>1. CASE nats.id \in tasks
    BY <1>5, <1>7, <2>1 DEF LookInTasks, TaskStatus, AnswerStatus, TS!Next
  <2>2. CASE nats.id \notin tasks
    BY <1>6, <1>7, <2>2 DEF LookInTasks, HandlerInv, TypeOK
  <2> QED
    BY <2>1, <2>2
<1>8. CASE OpenResults
  BY <1>6, <1>8 DEF OpenResults, HandlerInv, TypeOK
<1>9. CASE ScanResults
  <2>1. nats.id \notin tasks
    BY <1>9 DEF ScanResults, HandlerInv, PollInv
  <2>2. CASE nats' = NatsIdle
    BY <1>4, <2>2 DEF TS!Next
  <2>3. CASE nats' = [nats EXCEPT !.step = "found"] /\ nats.id \in nats.snapshot
    <3>1. nats.id \in results
      BY <1>9, <2>3 DEF ScanResults, HandlerInv, PollInv
    <3> QED
      BY <1>5, <1>9, <2>1, <2>3, <3>1 DEF ScanResults, TaskStatus, AnswerStatus, TS!Next
  <2>4. CASE nats' = [nats EXCEPT !.step = "unknown"] /\ nats.id \notin nats.snapshot
    <3>1. nats.id \notin results
      BY <1>1, <1>9, <2>4 DEF ScanResults, HandlerInv, PollInv, DirectorInv
    <3> QED
      BY <1>5, <1>9, <2>1, <2>4, <3>1 DEF ScanResults, TaskStatus, AnswerStatus, TS!Next
  <2> QED
    BY <1>9, <2>2, <2>3, <2>4 DEF ScanResults
<1>10. CASE PublishAnswer
  BY <1>4, <1>10 DEF PublishAnswer, TS!Next
<1> QED
  BY <1>7, <1>8, <1>9, <1>10

(* The other steps of the NATS thread and the director: a poll begins, or  *)
(* nothing of TaskService moves.                                           *)
LEMMA DirectorRefines ==
  ASSUME HandlerInv, NEW r \in Requests, Send(r) \/ HandleMessage(r) \/ AskTask(r)
  PROVE  [TS!Next]_(TS!vars)
<1>1. UNCHANGED <<tasks, results>>
  BY DEF Send, HandleMessage, AskTask
<1>2. UNCHANGED [t \in Requests |-> TaskStatus(t)]
  BY <1>1 DEF TaskStatus
<1>3. CASE UNCHANGED nats
  BY <1>2, <1>3 DEF TS!vars, PollSeen
<1>4. CASE AskTask(r)
  BY <1>2, <1>4 DEF AskTask, TS!Next, TS!Ask, HandlerInv, PollInv, NatsIdle, PollSeen
<1> QED
  BY <1>3, <1>4 DEF Send, HandleMessage

(* A registration is the start of a task and a removal its end; the other  *)
(* steps of a pool thread are invisible.                                   *)
LEMMA PoolRefines ==
  ASSUME HandlerInv, NEW r \in Requests, PoolThread(r)
  PROVE  [TS!Next]_(TS!vars)
<1> DEFINE status == [t \in Requests |-> TaskStatus(t)]
<1>1. UNCHANGED nats /\ UNCHANGED PollSeen
  BY DEF PoolThread, TakeWorkItem, CheckRestarting, AcquireLock, RegisterTask,
         RejectTask, AnnounceTask, ProcessTask, RecordResult, RemoveTask,
         ReleaseLock, ProcessShort, ReplyShort, TakeKill, PollSeen
<1>2. CASE UNCHANGED <<tasks, results>>
  BY <1>1, <1>2 DEF TS!vars, TaskStatus
<1>3. CASE RegisterTask(r)
  <2>1. r \notin results
    BY <1>3 DEF RegisterTask, HandlerInv, ResultInv
  <2>2. status' = [status EXCEPT ![r] = "running"]
    BY <1>3, <2>1 DEF RegisterTask, TaskStatus
  <2>3. TS!Start(r)
    BY <1>1, <1>3, <2>1, <2>2 DEF RegisterTask, TS!Start, TaskStatus
  <2> QED
    BY <2>3 DEF TS!Next
<1>4. CASE RecordResult(r)
  <2>1. r \in tasks
    BY <1>4 DEF RecordResult, HandlerInv, TaskInv, Registered
  <2>2. UNCHANGED status
    BY <1>4, <2>1 DEF RecordResult, TaskStatus
  <2> QED
    BY <1>1, <2>2 DEF TS!vars
<1>5. CASE RemoveTask(r)
  <2>1. r \in tasks /\ r \in results
    BY <1>5 DEF RemoveTask, HandlerInv, TaskInv, ResultInv, Registered
  <2>2. status' = [status EXCEPT ![r] = "finished"]
    BY <1>5, <2>1 DEF RemoveTask, TaskStatus
  <2>3. TS!Finish(r)
    BY <1>1, <2>1, <2>2 DEF TS!Finish, TaskStatus
  <2> QED
    BY <2>3 DEF TS!Next
<1> QED
  BY <1>2, <1>3, <1>4, <1>5
  DEF PoolThread, TakeWorkItem, CheckRestarting, AcquireLock, RejectTask, AnnounceTask,
      ProcessTask, ReleaseLock, ProcessShort, ReplyShort, TakeKill

(* The detailed handler is a correct implementation of the task service.   *)
THEOREM Refinement == Spec => ImplementsTaskService
<1>1. Init => TS!Init
  BY DEF Init, TS!Init, TaskStatus, PollSeen, NatsIdle
<1>2. HandlerInv /\ [Next]_vars => [TS!Next]_(TS!vars)
  <2> SUFFICES ASSUME HandlerInv, [Next]_vars PROVE [TS!Next]_(TS!vars)
    OBVIOUS
  <2>1. CASE ProcessEnds
    BY <2>1 DEF ProcessEnds, TS!Next, TS!Forget, TaskStatus, PollSeen, NatsIdle
  <2>2. CASE Restart \/ UNCHANGED vars
    BY <2>2 DEF Restart, vars, TS!vars, TaskStatus, PollSeen
  <2> QED
    BY <2>1, <2>2, PollRefines, DirectorRefines, PoolRefines
    DEF Next, NatsThread, Kill, Halt, Crash
<1> QED
  BY <1>1, <1>2, HandlerInvariant, PTL DEF Spec, TS!Spec, ImplementsTaskService
=============================================================================
