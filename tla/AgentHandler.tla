---------------------------- MODULE AgentHandler ----------------------------
(***************************************************************************)
(* The message bus handler of the agent (Uhuru.BOSH.Agent/Handler.cs): one *)
(* NATS thread runs HandleMessage for each request, a thread pool runs     *)
(* ProcessInThread, long running requests run one at a time under a mutex  *)
(* and are polled with get_task, an unexpected error ends the process 15   *)
(* seconds later, and the service host starts it again.                    *)
(*                                                                         *)
(* A request is identified with its delivery: a director that retries      *)
(* sends another element of Requests.  GenerateAgentTaskId draws a fresh   *)
(* GUID per execution, so the task id of a long request is the request.    *)
(***************************************************************************)
EXTENDS Naturals, FiniteSets

CONSTANTS
  Requests,      \* deliveries the director may make
  LongRunning,   \* those whose processor answers IsLongRunning() = true
  NetworkChange, \* prepare_network_change: its reply carries a callback
  Shutdown,      \* shutdown, handled on the NATS thread
  Unhandled,     \* no reply_to, or a method nobody implements
  Endless,       \* long running requests whose Process never returns
  MaxThreads,    \* size of the thread pool
  Credentials,   \* "null", "empty" or "set": Config.Credentials
  NoRequest      \* stands for null

ASSUME HandlerAssumption ==
  /\ NoRequest \notin Requests
  /\ LongRunning \subseteq Requests
  /\ NetworkChange \subseteq Requests \ LongRunning
  /\ Shutdown \subseteq Requests \ (LongRunning \cup NetworkChange)
  /\ Unhandled \subseteq Requests \ (LongRunning \cup NetworkChange \cup Shutdown)
  /\ Endless \subseteq LongRunning
  /\ MaxThreads \in Nat \ {0}
  /\ Credentials \in {"null", "empty", "set"}

VARIABLES
  up,          \* the agent process is alive and subscribed
  pc,          \* where the delivery of each request is
  nats,        \* what the NATS thread is doing
  lock,        \* owner of Handler.Lock, or NoRequest
  tasks,       \* Handler.LongRunningAgentTask
  results,     \* Handler.Results, the ids it has an entry for
  restarting,  \* Handler.RestartingAgent
  killQueued,  \* kill work items of KillMainThreadIn waiting for a thread
  killAsleep,  \* kill work items in their 15 second sleep
  halting,     \* the callback of a delivered reply is about to end the process
  announced,   \* tasks whose "running" reply this process delivered
  forgotten,   \* tasks announced by an earlier process
  answered,    \* last get_task answer of this process, by task
  late         \* history: requests that got the mutex after the restart began

vars == <<up, pc, nats, lock, tasks, results, restarting, killQueued,
          killAsleep, halting, announced, forgotten, answered, late>>

killVars == <<restarting, killQueued, killAsleep>>

(* What the director was told, and what it is too late to take back: no    *)
(* step of the handler reads these.                                        *)
historyVars == <<announced, forgotten, answered, late>>

-----------------------------------------------------------------------------
(* Positions of a request.                                                 *)

(* Between WaitOne and ReleaseMutex.                                       *)
Holding == {"locked", "registered", "running", "processed", "recorded",
            "releasing"}

(* Occupying a thread of the pool.                                         *)
Active == {"checking", "waiting", "answering"} \cup Holding

PC == {"unsent", "sent", "queued", "done", "lost"} \cup Active

NatsIdle == [step |-> "idle", id |-> NoRequest, snapshot |-> {}]

NatsSteps == {"idle", "tasks", "running", "results", "scanning", "found",
              "unknown"}

Answers == {"none", "running", "result", "unknown"}

Threads == {r \in Requests : pc[r] \in Active}

ThreadFree == Cardinality(Threads) + Cardinality(killAsleep) < MaxThreads

(* Publish encrypts the payload whenever Credentials is not null, and      *)
(* Encrypt always throws: it assigns a member of a bare object.            *)
PublishThrows == Credentials # "null"

(* CheckCredentials decrypts only if Credentials is neither null nor       *)
(* empty; Decrypt then takes no message that was parsed from JSON.         *)
MessagesDropped == Credentials = "set"

At(r, position) == pc' = [pc EXCEPT ![r] = position]

TypeOK ==
  /\ up \in BOOLEAN
  /\ pc \in [Requests -> PC]
  /\ nats \in [step : NatsSteps, id : Requests \cup {NoRequest},
               snapshot : SUBSET Requests]
  /\ lock \in Requests \cup {NoRequest}
  /\ tasks \in SUBSET Requests
  /\ results \in SUBSET Requests
  /\ restarting \in BOOLEAN
  /\ killQueued \in SUBSET Requests
  /\ killAsleep \in SUBSET Requests
  /\ halting \in BOOLEAN
  /\ announced \in SUBSET Requests
  /\ forgotten \in SUBSET Requests
  /\ answered \in [Requests -> Answers]
  /\ late \in SUBSET Requests

Init ==
  /\ up = TRUE
  /\ pc = [r \in Requests |-> "unsent"]
  /\ nats = NatsIdle
  /\ lock = NoRequest
  /\ tasks = {}
  /\ results = {}
  /\ restarting = FALSE
  /\ killQueued = {}
  /\ killAsleep = {}
  /\ halting = FALSE
  /\ announced = {}
  /\ forgotten = {}
  /\ answered = [r \in Requests |-> "none"]
  /\ late = {}

-----------------------------------------------------------------------------
(* The bus and the NATS thread.                                            *)

(* The director publishes a request; nobody is subscribed when the process *)
(* is down, and the bus keeps nothing.                                     *)
Send(r) ==
  /\ pc[r] = "unsent"
  /\ At(r, IF up THEN "sent" ELSE "lost")
  /\ UNCHANGED <<up, nats, lock, tasks, results, killVars, halting, historyVars>>

(* HandleMessage, on the NATS thread, for the requests that have a         *)
(* processor: a work item is queued.                                       *)
QueueWorkItem(r) ==
  /\ r \notin Shutdown \cup Unhandled
  /\ At(r, "queued")
  /\ UNCHANGED halting

(* HandleShutdown: the process ends in the callback of the reply, if the   *)
(* reply leaves (Publish swallows the errors of NATS).                     *)
HandleShutdown(r) ==
  /\ r \in Shutdown
  /\ At(r, "done")
  /\ halting' \in IF PublishThrows THEN {halting} ELSE {halting, TRUE}

(* No reply_to, bad credentials, or an unknown method, whose error reply   *)
(* dies in RemoteException.ToHash: the message is logged and dropped.      *)
DropMessage(r) ==
  /\ At(r, "done")
  /\ UNCHANGED halting

HandleMessage(r) ==
  /\ up
  /\ nats.step = "idle"
  /\ pc[r] = "sent"
  /\ IF MessagesDropped \/ r \in Unhandled
     THEN DropMessage(r)
     ELSE QueueWorkItem(r) \/ HandleShutdown(r)
  /\ UNCHANGED <<up, nats, lock, tasks, results, killVars, historyVars>>

-----------------------------------------------------------------------------
(* HandleGetTask, inline on the NATS thread and without the mutex.  The    *)
(* director asks about tasks it was told of.                               *)

AskTask(t) ==
  /\ up
  /\ nats.step = "idle"
  /\ t \in announced \cup forgotten
  /\ nats' = [step |-> "tasks", id |-> t, snapshot |-> {}]
  /\ UNCHANGED <<up, pc, lock, tasks, results, killVars, halting, historyVars>>

(* LongRunningAgentTask.Contains(agentTaskId).                             *)
LookInTasks ==
  /\ nats.step = "tasks"
  /\ nats' = [nats EXCEPT !.step = IF nats.id \in tasks THEN "running"
                                   ELSE "results"]
  /\ UNCHANGED <<up, pc, lock, tasks, results, killVars, halting, historyVars>>

(* Results.FirstOrDefault opens an enumerator on the live collection ...   *)
OpenResults ==
  /\ nats.step = "results"
  /\ nats' = [nats EXCEPT !.step = "scanning", !.snapshot = results]
  /\ UNCHANGED <<up, pc, lock, tasks, results, killVars, halting, historyVars>>

(* ... and walks it.  An Add during the walk may make MoveNext throw: the  *)
(* exception ends in HandleMessage and the director gets no answer.        *)
ScanResults ==
  /\ nats.step = "scanning"
  /\ \/ nats' = [nats EXCEPT !.step = IF nats.id \in nats.snapshot THEN "found"
                                      ELSE "unknown"]
     \/ nats.snapshot # results /\ nats' = NatsIdle
  /\ UNCHANGED <<up, pc, lock, tasks, results, killVars, halting, historyVars>>

AnswerOf(step) ==
  CASE step = "running" -> "running"
    [] step = "found"   -> "result"
    [] OTHER            -> "unknown"

(* The answer is published, or lost in Publish.                            *)
PublishAnswer ==
  /\ nats.step \in {"running", "found", "unknown"}
  /\ nats' = NatsIdle
  /\ \/ /\ ~PublishThrows
        /\ answered' = [answered EXCEPT ![nats.id] = AnswerOf(nats.step)]
     \/ UNCHANGED answered
  /\ UNCHANGED <<up, pc, lock, tasks, results, killVars, halting,
                 announced, forgotten, late>>

-----------------------------------------------------------------------------
(* ProcessInThread, on a thread of the pool.                               *)

(* A thread of the pool takes the work item.                               *)
TakeWorkItem(r) ==
  /\ pc[r] = "queued"
  /\ ThreadFree
  /\ At(r, "checking")
  /\ UNCHANGED <<up, nats, lock, tasks, results, killVars, halting, historyVars>>

(* Variant: the RestartingAgent test is forgotten.                         *)
CheckNothing(r) ==
  /\ pc[r] = "checking"
  /\ r \in LongRunning
  /\ At(r, "waiting")
  /\ UNCHANGED <<up, nats, lock, tasks, results, killVars, halting, historyVars>>

(* RestartingAgent is read before the mutex is taken.  The "restarting     *)
(* agent" reply dies in ToHash.                                            *)
CheckRestarting(r) ==
  /\ pc[r] = "checking"
  /\ r \in LongRunning
  /\ At(r, IF restarting THEN "done" ELSE "waiting")
  /\ UNCHANGED <<up, nats, lock, tasks, results, killVars, halting, historyVars>>

(* Lock.WaitOne().                                                         *)
AcquireLock(r) ==
  /\ pc[r] = "waiting"
  /\ lock = NoRequest
  /\ lock' = r
  /\ At(r, "locked")
  /\ late' = IF restarting THEN late \cup {r} ELSE late
  /\ UNCHANGED <<up, nats, tasks, results, killVars, halting, announced,
                 forgotten, answered>>

(* Variant: the count is not looked at.                                    *)
RegisterAnyTask(r) ==
  /\ pc[r] = "locked"
  /\ tasks' = tasks \cup {r}
  /\ At(r, "registered")
  /\ UNCHANGED <<up, nats, lock, results, killVars, halting, historyVars>>

(* LongRunningAgentTask.Count == 0: ProcessLongRunning registers the id.   *)
RegisterTask(r) ==
  /\ pc[r] = "locked"
  /\ tasks = {}
  /\ tasks' = tasks \cup {r}
  /\ At(r, "registered")
  /\ UNCHANGED <<up, nats, lock, results, killVars, halting, historyVars>>

(* Otherwise the "already running" reply is built, and dies in ToHash.     *)
RejectTask(r) ==
  /\ pc[r] = "locked"
  /\ tasks # {}
  /\ At(r, "releasing")
  /\ UNCHANGED <<up, nats, lock, tasks, results, killVars, halting, historyVars>>

(* The "running" reply leaves, or is lost, before the work is done.  When  *)
(* Publish throws the id stays registered and only the mutex is released.  *)
AnnounceTask(r) ==
  /\ pc[r] = "registered"
  /\ At(r, IF PublishThrows THEN "releasing" ELSE "running")
  /\ announced' \in IF PublishThrows THEN {announced}
                    ELSE {announced, announced \cup {r}}
  /\ UNCHANGED <<up, nats, lock, tasks, results, killVars, halting,
                 forgotten, answered, late>>

(* Variant: the flag is set and nobody is asked to kill.                   *)
FlagOnly(r) ==
  /\ restarting' = TRUE
  /\ UNCHANGED <<killQueued, killAsleep>>

(* KillMainThreadIn: the flag is set and the kill is queued to the pool.   *)
KillMainThreadIn(r) ==
  /\ restarting' = TRUE
  /\ killQueued' = killQueued \cup {r}
  /\ UNCHANGED killAsleep

(* Variant: Process may return null, and null.ToString() skips the rest.   *)
ProcessTaskOrNull(r) ==
  /\ pc[r] = "running"
  /\ r \notin Endless
  /\ pc' \in {[pc EXCEPT ![r] = p] : p \in {"processed", "releasing"}}
  /\ UNCHANGED <<up, nats, lock, tasks, results, killVars, halting, historyVars>>

(* Variant: the id is removed before its result is recorded.               *)
ProcessAndUnregister(r) ==
  /\ pc[r] = "running"
  /\ r \notin Endless
  /\ At(r, "processed")
  /\ tasks' = tasks \ {r}
  /\ UNCHANGED <<up, nats, lock, results, killVars, halting, historyVars>>

(* Process returns a value, or an exception payload after it has decided   *)
(* to restart the agent (no exception the handlers raise is an             *)
(* AgentException).                                                        *)
ProcessTask(r) ==
  /\ pc[r] = "running"
  /\ r \notin Endless
  /\ At(r, "processed")
  /\ KillMainThreadIn(r) \/ UNCHANGED killVars
  /\ UNCHANGED <<up, nats, lock, tasks, results, halting, historyVars>>

(* Variant: only the latest result is kept.                                *)
KeepLastResult(r) ==
  /\ pc[r] = "processed"
  /\ results' = {r}
  /\ At(r, "recorded")
  /\ UNCHANGED <<up, nats, lock, tasks, killVars, halting, historyVars>>

(* Results.Add, then LongRunningAgentTask.Remove.                          *)
RecordResult(r) ==
  /\ pc[r] = "processed"
  /\ results' = results \cup {r}
  /\ At(r, "recorded")
  /\ UNCHANGED <<up, nats, lock, tasks, killVars, halting, historyVars>>

RemoveTask(r) ==
  /\ pc[r] = "recorded"
  /\ tasks' = tasks \ {r}
  /\ At(r, "releasing")
  /\ UNCHANGED <<up, nats, lock, results, killVars, halting, historyVars>>

(* Variant: the mutex is not in a finally and stays taken.                 *)
KeepLock(r) ==
  /\ pc[r] = "releasing"
  /\ At(r, "done")
  /\ UNCHANGED <<up, nats, lock, tasks, results, killVars, halting, historyVars>>

ReleaseLock(r) ==
  /\ pc[r] = "releasing"
  /\ lock' = NoRequest
  /\ At(r, "done")
  /\ UNCHANGED <<up, nats, tasks, results, killVars, halting, historyVars>>

(* Any other method is processed without the mutex ...                     *)
ProcessShort(r) ==
  /\ pc[r] = "checking"
  /\ r \notin LongRunning
  /\ At(r, "answering")
  /\ KillMainThreadIn(r) \/ UNCHANGED killVars
  /\ UNCHANGED <<up, nats, lock, tasks, results, halting, historyVars>>

(* ... and answered; PostPrepareNetworkChange ends the session once the    *)
(* reply to prepare_network_change has left.                               *)
ReplyShort(r) ==
  /\ pc[r] = "answering"
  /\ At(r, "done")
  /\ halting' \in IF PublishThrows \/ r \notin NetworkChange THEN {halting}
                  ELSE {halting, TRUE}
  /\ UNCHANGED <<up, nats, lock, tasks, results, killVars, historyVars>>

-----------------------------------------------------------------------------
(* The end of the process and its restart.                                 *)

(* The kill work item also needs a thread of the pool for its sleep.       *)
TakeKill(r) ==
  /\ r \in killQueued
  /\ ThreadFree
  /\ killQueued' = killQueued \ {r}
  /\ killAsleep' = killAsleep \cup {r}
  /\ UNCHANGED <<up, pc, nats, lock, tasks, results, restarting, halting,
                 historyVars>>

(* Whatever ends the process, all its memory and threads are gone.         *)
ProcessEnds ==
  /\ up' = FALSE
  /\ pc' = [r \in Requests |-> IF pc[r] \in {"unsent", "done"} THEN pc[r]
                               ELSE "lost"]
  /\ nats' = NatsIdle
  /\ lock' = NoRequest
  /\ tasks' = {}
  /\ results' = {}
  /\ restarting' = FALSE
  /\ killQueued' = {}
  /\ killAsleep' = {}
  /\ halting' = FALSE
  /\ announced' = {}
  /\ forgotten' = forgotten \cup announced
  /\ answered' = [r \in Requests |-> "none"]
  /\ late' = {}

(* GetCurrentProcess().Kill() after the sleep.                             *)
Kill ==
  /\ killAsleep # {}
  /\ ProcessEnds

(* Shutdown() or the end of the session.                                   *)
Halt ==
  /\ halting
  /\ ProcessEnds

(* Power failure, FailFast, or the service control manager.                *)
Crash ==
  /\ up
  /\ ProcessEnds

(* The service host starts the agent again: every field is as new.         *)
Restart ==
  /\ ~up
  /\ up' = TRUE
  /\ UNCHANGED <<pc, nats, lock, tasks, results, killVars, halting, historyVars>>

-----------------------------------------------------------------------------
NatsThread ==
  \/ \E r \in Requests : HandleMessage(r)
  \/ LookInTasks
  \/ OpenResults
  \/ ScanResults
  \/ PublishAnswer

PoolThread(r) ==
  \/ TakeWorkItem(r)
  \/ CheckRestarting(r)
  \/ AcquireLock(r)
  \/ RegisterTask(r)
  \/ RejectTask(r)
  \/ AnnounceTask(r)
  \/ ProcessTask(r)
  \/ RecordResult(r)
  \/ RemoveTask(r)
  \/ ReleaseLock(r)
  \/ ProcessShort(r)
  \/ ReplyShort(r)
  \/ TakeKill(r)

Next ==
  \/ NatsThread
  \/ \E r \in Requests : Send(r) \/ AskTask(r) \/ PoolThread(r)
  \/ Kill
  \/ Halt
  \/ Crash
  \/ Restart

Spec == Init /\ [][Next]_vars

(* The threads of the process run: a ready thread is scheduled, the pool   *)
(* serves its queue, the sleep of a kill ends.  Nothing obliges the        *)
(* director to send or poll, nor the host to crash, halt or restart.       *)
Fairness ==
  /\ WF_vars(NatsThread)
  /\ \A r \in Requests : WF_vars(PoolThread(r))
  /\ WF_vars(Kill)

FairSpec == Spec /\ Fairness

-----------------------------------------------------------------------------
(* Safety.                                                                 *)

(* ProcessInThread blocks a second long running request on the mutex, so   *)
(* the "already running long running task" branch is dead: whoever gets    *)
(* the mutex finds no task registered, however earlier tasks ended.  Only  *)
(* empty credentials, which make Publish throw between Add and Remove,     *)
(* leave an id behind.                                                     *)
NeverRejected ==
  ~PublishThrows => \A r \in Requests : pc[r] = "locked" => tasks = {}

(* A task the director was told of is registered or has a result, and      *)
(* get_task never calls it unknown, although it reads the two collections  *)
(* one after the other and without the mutex.                              *)
AnnouncedIsKnown ==
  \A t \in announced : t \in tasks \cup results /\ answered[t] # "unknown"

(* Once get_task has delivered the result of a task, no later answer of    *)
(* the same process says anything else.                                    *)
AnswersAreFinal ==
  [][\A t \in Requests :
       answered[t] = "result" /\ up' => answered'[t] = "result"]_vars

(* Requests that have read RestartingAgent as false and wait for the mutex *)
(* with what they read.                                                    *)
Waiting == {r \in Requests : pc[r] = "waiting"}

(* The flag is read before the mutex is waited for, so a thread may act on *)
(* a stale read and start work that the kill will cut short.  How much:    *)
(* the request that sets the flag has a thread itself, whoever reads the   *)
(* flag later is turned away, and so at most as many requests start late   *)
(* as the pool has other threads, however long the kill takes and however  *)
(* many requests the director sends meanwhile.                             *)
StaleStartsBounded == Cardinality(late) < MaxThreads

(* A leaked id is the end of long running work: from then on this process  *)
(* registers nothing and announces nothing.                                *)
LeakedTaskBlocks ==
  [][\A t \in tasks : pc[t] = "done" /\ up' => tasks' = tasks /\ announced' = announced]_vars

-----------------------------------------------------------------------------
(* The inductive invariant behind the safety properties.                   *)

(* Positions in which the id of the task is registered.                    *)
Registered == {"registered", "running", "processed", "recorded"}

LockInv == \A r \in Requests : pc[r] \in Holding <=> lock = r

TaskInv ==
  /\ \A r \in Requests : pc[r] \in Registered => r \in tasks
  /\ \A r \in tasks :
       pc[r] \in Registered \/ (PublishThrows /\ pc[r] \in {"releasing", "done"})
  /\ \A r, s \in tasks : r = s

ResultInv ==
  /\ \A r \in Requests : pc[r] = "recorded" => r \in results
  /\ \A r \in results : pc[r] \in {"recorded", "releasing", "done"}

DirectorInv ==
  /\ PublishThrows => announced = {} /\ forgotten = {}
  /\ \A t \in announced : t \in tasks \cup results
  /\ \A t \in forgotten : pc[t] \in {"done", "lost"} /\ t \notin tasks \cup results
  /\ \A t \in Requests :
       /\ answered[t] = "unknown" => t \in forgotten
       /\ answered[t] = "result" => t \in results \ tasks

PollInv ==
  /\ nats.step = "idle" => nats = NatsIdle
  /\ nats.step # "idle" => nats.id \in announced \cup forgotten
  /\ nats.step = "running" =>
       nats.id \in announced /\ answered[nats.id] # "result"
  /\ nats.step \in {"results", "scanning", "found", "unknown"} =>
       nats.id \notin tasks /\ (nats.id \in announced => nats.id \in results)
  /\ nats.step = "scanning" =>
       /\ nats.snapshot \subseteq results
       /\ nats.id \in announced => nats.id \in nats.snapshot
  /\ nats.step = "found" => nats.id \in results
  /\ nats.step = "unknown" => nats.id \in forgotten

(* What the threads of the pool can hold, and how many of them can still   *)
(* start late.                                                             *)
PoolInv ==
  /\ IsFiniteSet(Threads)
  /\ IsFiniteSet(killAsleep)
  /\ Cardinality(Threads) + Cardinality(killAsleep) <= MaxThreads

StaleInv ==
  /\ ~restarting => late = {}
  /\ IsFiniteSet(late)
  /\ restarting => Cardinality(late \cup Waiting) < MaxThreads

RestartInv == TypeOK /\ PoolInv /\ StaleInv

HandlerInv == TypeOK /\ LockInv /\ TaskInv /\ ResultInv /\ DirectorInv /\ PollInv

-----------------------------------------------------------------------------
(* Liveness.                                                               *)

EndlessRuns == \E e \in Endless : pc[e] = "running"

(* KillMainThreadIn does end the process, unless a task that never ends    *)
(* and the requests behind it leave its work item no thread.               *)
EventuallyKilled == restarting ~> ~up \/ EndlessRuns

(* A long running request that was queued is run, refused or lost with the *)
(* process: the mutex comes back whatever the task did, if it ends.        *)
LongRequestSettles ==
  \A r \in LongRunning :
    pc[r] = "queued" ~> pc[r] \in {"done", "lost"} \/ EndlessRuns

(* get_task is served even while the pool is exhausted by requests blocked *)
(* behind a task that never ends.                                          *)
PollsAreServed == nats.step # "idle" ~> nats.step = "idle"

(* Neither the mutex nor the pool keeps work of the handler waiting for    *)
(* ever, unless a task that never ends has them, and a poll not even then. *)
WorkSettles == EventuallyKilled /\ LongRequestSettles /\ PollsAreServed

-----------------------------------------------------------------------------
(* The handler implements the promise of TaskService.                      *)

TaskStatus(t) ==
  IF t \in tasks THEN "running"
  ELSE IF t \in results THEN "finished" ELSE "absent"

PollSeen ==
  CASE nats.step = "running" -> "running"
    [] nats.step = "found"   -> "finished"
    [] nats.step = "unknown" -> "absent"
    [] OTHER                 -> "undecided"

TS == INSTANCE TaskService WITH
  Tasks  <- Requests,
  NoTask <- NoRequest,
  status <- [t \in Requests |-> TaskStatus(t)],
  asked  <- nats.id,
  seen   <- PollSeen

ImplementsTaskService == TS!Spec
=============================================================================
