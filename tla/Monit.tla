-------------------------------- MODULE Monit --------------------------------
(***************************************************************************)
(* Service control: the singleton Monit, its lock, its two dictionaries    *)
(* and the threads that use it.  The timer runs Run; the execution thread  *)
(* of AgentRunner and the start requests run StartServices; the one long   *)
(* running request there is at a time runs StopServices or RunPrescripts;  *)
(* heartbeats and get_state requests read GetServiceGroupState without the *)
(* lock.  The services belong to the Windows service control manager and   *)
(* go their own way; the process may end and start again at any step.      *)
(***************************************************************************)
EXTENDS Naturals

CONSTANTS
  Services,   \* display names of services
  Starters,   \* threads that serve start requests
  Readers,    \* threads that ask for the group state
  MaxEvents   \* bound: requests and things that happen to the host

ASSUME MonitAssumption ==
  /\ MaxEvents \in Nat
  /\ Starters \cap {"timer", "runner", "worker"} = {}

VARIABLES
  agent,      \* the process: down, starting, serving, or to be killed soon
  events,     \* how many more events there may be
  real,       \* the state of each service
  disabled,   \* services whose start type is disabled
  described,  \* services named by the monit files of the job directory
  specified,  \* services of specifiedJobs
  statuses,   \* serviceControllers
  locker,     \* the thread that holds the lock
  thread,     \* what each thread that takes the lock is doing
  reader,     \* what each reader is doing
  failed,     \* services the current StopServices has given up
  outside     \* services somebody else has removed since StopServices began,
              \* or started while it did not keep them disabled

vars == <<agent, events, real, disabled, described, specified, statuses,
          locker, thread, reader, failed, outside>>

host == <<events, described, outside>>
memory == <<specified, statuses>>

Threads == Starters \cup {"timer", "runner", "worker"}
Status == {"stopped", "starting", "running", "stopping"}
Answers == {"running", "starting", "failing"}
Steps == {"idle", "listed", "start", "stop", "hook",       \* without the lock
          "jobs", "recording", "added", "written", "starting",
          "stopping", "pending", "stopone", "wait", "recheck", "enable",
          "script"}

RunSteps == {"jobs", "recording", "added", "written"}
StopSteps == {"stopping", "pending", "stopone", "wait", "recheck", "enable"}

(* A thread: the services left to handle, the one being handled, and its   *)
(* ServiceController objects with the status they hold.                    *)
ThreadStates == [step : Steps, todo : SUBSET Services, cur : SUBSET Services,
                 list : [Services -> Status \cup {"absent"}]]
IdleThread == [step |-> "idle", todo |-> {}, cur |-> {},
               list |-> [s \in Services |-> "absent"]]

(* A reader: the entries visited, whether the version of the dictionary    *)
(* has changed, and every answer that was right at some time since it      *)
(* began.                                                                  *)
ReaderStates == [step : Answers \cup {"idle", "reading", "threw"},
                 visited : SUBSET Services, touched : BOOLEAN,
                 could : SUBSET Answers]
IdleReader == [step |-> "idle", visited |-> {}, touched |-> FALSE,
               could |-> {}]

TypeOK ==
  /\ agent \in {"down", "starting", "serving", "restarting"}
  /\ events \in 0..MaxEvents
  /\ real \in [Services -> Status \cup {"absent"}]
  /\ disabled \in SUBSET Services
  /\ described \in SUBSET Services
  /\ specified \in SUBSET Services
  /\ statuses \in [Services -> Status \cup {"none", "blank"}]
  /\ locker \in SUBSET Threads
  /\ thread \in [Threads -> ThreadStates]
  /\ reader \in [Readers -> ReaderStates]
  /\ failed \in SUBSET Services
  /\ outside \in SUBSET Services

Init ==
  /\ agent = "down"
  /\ events = MaxEvents
  /\ real \in [Services -> {"absent", "stopped", "running"}]
  /\ disabled = {}
  /\ described \in SUBSET Services
  /\ specified = {}
  /\ statuses = [s \in Services |-> "none"]
  /\ locker = {}
  /\ thread = [t \in Threads |-> IdleThread]
  /\ reader = [r \in Readers |-> IdleReader]
  /\ failed = {}
  /\ outside = {}

Entries(st) == {s \in Services : st[s] # "none"}

(* What GetServiceGroupState may say of a dictionary.                      *)
Groups(st) ==
  {a \in Answers :
     CASE a = "running"  -> \A s \in Entries(st) : st[s] = "running"
       [] a = "starting" -> \E s \in Entries(st) : st[s] = "starting"
       [] a = "failing"  -> \E s \in Entries(st) :
                              st[s] \notin {"running", "starting"}}

Event == events > 0 /\ events' = events - 1
At(t, step) == thread[t].step = step
Move(t, new) == thread' = [thread EXCEPT ![t] = new]
Go(t, step) == Move(t, [thread[t] EXCEPT !.step = step])

TakeLock(t) == locker = {} /\ locker' = {t}
ReleaseLock(t) == locker' = locker \ {t}

-----------------------------------------------------------------------------
(* Run.                                                                    *)

(* The timer lists the services before it asks for the lock.               *)
ListServices ==
  /\ agent # "down"
  /\ At("timer", "idle")
  /\ Move("timer", [IdleThread EXCEPT !.step = "listed", !.list = real])
  /\ UNCHANGED <<agent, host, real, disabled, memory, locker, reader, failed>>

EnterRun ==
  /\ At("timer", "listed")
  /\ TakeLock("timer")
  /\ Go("timer", "jobs")
  /\ UNCHANGED <<agent, host, real, disabled, memory, reader, failed>>

(* Variant: services that were not listed are looked at too.               *)
MonitorUnlisted(t) ==
  /\ At(t, "jobs")
  /\ specified' = described
  /\ Move(t, [thread[t] EXCEPT !.step = "recording", !.todo = described])
  /\ UNCHANGED <<agent, host, real, disabled, statuses, locker, reader, failed>>

(* MonitorServices reads the monit files anew; only services that were     *)
(* listed are looked at.                                                   *)
MonitorServices(t) ==
  /\ At(t, "jobs")
  /\ specified' = described
  /\ Move(t, [thread[t] EXCEPT !.step = "recording",
                !.todo = {s \in described : thread[t].list[s] # "absent"}])
  /\ UNCHANGED <<agent, host, real, disabled, statuses, locker, reader, failed>>

Store(s, value) ==
  /\ statuses' = [statuses EXCEPT ![s] = value]
  /\ reader' = [r \in Readers |->
                  IF reader[r].step = "reading"
                  THEN [reader[r] EXCEPT !.could = @ \cup Groups(statuses')]
                  ELSE reader[r]]

(* Dictionary.Add makes the entry visible before it fills it.              *)
AddEntry(t, s) ==
  /\ At(t, "recording")
  /\ s \in thread[t].todo
  /\ statuses[s] = "none"
  /\ Store(s, "blank")
  /\ Move(t, [thread[t] EXCEPT !.step = "added", !.cur = {s}])
  /\ UNCHANGED <<agent, host, real, disabled, specified, locker, failed>>

(* The value of an entry is written: a new one, or one that has changed.   *)
WriteStatus(t, s) ==
  /\ \/ At(t, "added") /\ s \in thread[t].cur
     \/ /\ At(t, "recording")
        /\ s \in thread[t].todo
        /\ statuses[s] \notin {"none", thread[t].list[s]}
  /\ Store(s, thread[t].list[s])
  /\ Move(t, [thread[t] EXCEPT !.step = "written", !.cur = {s}])
  /\ UNCHANGED <<agent, host, real, disabled, specified, locker, failed>>

(* Last of all the dictionary counts its version up.                       *)
CountVersion(t) ==
  /\ At(t, "written")
  /\ reader' = [r \in Readers |->
                  IF reader[r].step = "reading"
                  THEN [reader[r] EXCEPT !.touched = TRUE]
                  ELSE reader[r]]
  /\ Move(t, [thread[t] EXCEPT !.step = "recording", !.cur = {},
                               !.todo = @ \ thread[t].cur])
  /\ UNCHANGED <<agent, host, real, disabled, memory, locker, failed>>

(* Variant: an entry that exists is left as it is.                         *)
KnownStatus(t, s) ==
  /\ At(t, "recording")
  /\ s \in thread[t].todo
  /\ statuses[s] # "none"
  /\ Move(t, [thread[t] EXCEPT !.todo = @ \ {s}])
  /\ UNCHANGED <<agent, host, real, disabled, memory, locker, reader, failed>>

SameStatus(t, s) ==
  /\ At(t, "recording")
  /\ s \in thread[t].todo
  /\ statuses[s] = thread[t].list[s]
  /\ Move(t, [thread[t] EXCEPT !.todo = @ \ {s}])
  /\ UNCHANGED <<agent, host, real, disabled, memory, locker, reader, failed>>

Recorded(t) == At(t, "recording") /\ thread[t].todo = {}

(* Variant: the timer keeps the lock.                                      *)
LeaveRunLocked ==
  /\ Recorded("timer")
  /\ Move("timer", IdleThread)
  /\ UNCHANGED <<agent, host, real, disabled, memory, locker, reader, failed>>

LeaveRun ==
  /\ Recorded("timer")
  /\ ReleaseLock("timer")
  /\ Move("timer", IdleThread)
  /\ UNCHANGED <<agent, host, real, disabled, memory, reader, failed>>

(* The body of Run.                                                        *)
Run(t) ==
  \/ MonitorServices(t)
  \/ CountVersion(t)
  \/ \E s \in Services : AddEntry(t, s) \/ WriteStatus(t, s) \/ SameStatus(t, s)

-----------------------------------------------------------------------------
(* StartServices.                                                          *)

AskStart(t) ==
  /\ agent = "serving"
  /\ Event
  /\ t \in Starters
  /\ At(t, "idle")
  /\ Go(t, "start")
  /\ UNCHANGED <<agent, real, disabled, described, memory, locker, reader,
                 failed, outside>>

(* It takes the lock and calls Run, which lists the services.              *)
EnterStart(t) ==
  /\ At(t, "start")
  /\ TakeLock(t)
  /\ Move(t, [IdleThread EXCEPT !.step = "jobs", !.list = real])
  /\ UNCHANGED <<agent, host, real, disabled, memory, reader, failed>>

(* After Run it lists them again, and goes through the dictionary.         *)
ListAgain(t) ==
  /\ t # "timer"
  /\ Recorded(t)
  /\ Move(t, [thread[t] EXCEPT !.step = "starting", !.todo = Entries(statuses),
                               !.list = real])
  /\ UNCHANGED <<agent, host, real, disabled, memory, locker, reader, failed>>

(* Variant: Start without the sc config before it.                         *)
StartUnconfigured(t, s) ==
  /\ At(t, "starting")
  /\ s \in thread[t].todo
  /\ thread[t].list[s] # "absent"
  /\ real' = IF real[s] = "stopped" /\ s \notin disabled
             THEN [real EXCEPT ![s] = "starting"] ELSE real
  /\ Move(t, [thread[t] EXCEPT !.todo = @ \ {s}])
  /\ UNCHANGED <<agent, host, disabled, memory, locker, reader, failed>>

(* sc config start= demand, then Start, whose failure is only logged.      *)
StartService(t, s) ==
  /\ At(t, "starting")
  /\ s \in thread[t].todo
  /\ thread[t].list[s] # "absent"
  /\ disabled' = disabled \ {s}
  /\ real' = IF real[s] = "stopped" THEN [real EXCEPT ![s] = "starting"]
             ELSE real
  /\ Move(t, [thread[t] EXCEPT !.todo = @ \ {s}])
  /\ UNCHANGED <<agent, host, memory, locker, reader, failed>>

LeaveStart(t) ==
  /\ At(t, "starting")
  /\ thread[t].todo = {}
  /\ ReleaseLock(t)
  /\ Move(t, IdleThread)
  /\ agent' = IF t = "runner" /\ agent = "starting" THEN "serving" ELSE agent
  /\ UNCHANGED <<host, real, disabled, memory, reader, failed>>

-----------------------------------------------------------------------------
(* StopServices.                                                           *)

(* A stop, prepare or apply request; one at a time, by Handler.Lock.       *)
AskStop ==
  /\ agent = "serving"
  /\ Event
  /\ At("worker", "idle")
  /\ Go("worker", "stop")
  /\ UNCHANGED <<agent, real, disabled, described, memory, locker, reader,
                 failed, outside>>

EnterStop ==
  /\ At("worker", "stop")
  /\ TakeLock("worker")
  /\ Move("worker", [IdleThread EXCEPT !.step = "stopping", !.list = real,
                                       !.todo = Entries(statuses)])
  /\ failed' = {}
  /\ outside' = {}
  /\ UNCHANGED <<agent, events, real, disabled, described, memory, reader>>

(* Variant: the start type is left alone.                                  *)
DisableNothing(s) ==
  /\ At("worker", "stopping")
  /\ s \in thread["worker"].todo
  /\ thread["worker"].list[s] # "absent"
  /\ Move("worker", [thread["worker"] EXCEPT !.step = "pending", !.cur = {s}])
  /\ UNCHANGED <<agent, host, real, disabled, memory, locker, reader, failed>>

(* sc config start= disabled.                                              *)
DisableService(s) ==
  /\ At("worker", "stopping")
  /\ s \in thread["worker"].todo
  /\ thread["worker"].list[s] # "absent"
  /\ disabled' = IF real[s] = "absent" THEN disabled ELSE disabled \cup {s}
  /\ Move("worker", [thread["worker"] EXCEPT !.step = "pending", !.cur = {s}])
  /\ UNCHANGED <<agent, host, real, memory, locker, reader, failed>>

Held(s) == thread["worker"].list[s]

(* While the status it holds is a pending one: sleep, Refresh.             *)
RefreshPending(s) ==
  /\ At("worker", "pending")
  /\ s \in thread["worker"].cur
  /\ Held(s) \in {"starting", "stopping"}
  /\ real[s] # "absent"
  /\ Move("worker", [thread["worker"] EXCEPT !.list[s] = real[s]])
  /\ UNCHANGED <<agent, host, real, disabled, memory, locker, reader, failed>>

(* The 30 seconds are over: KillService, which throws without a process.   *)
KillService(s) ==
  /\ At("worker", "pending")
  /\ s \in thread["worker"].cur
  /\ Held(s) \in {"starting", "stopping"}
  /\ IF real[s] \in {"stopped", "absent"}
     THEN /\ failed' = failed \cup {s}
          /\ Go("worker", "enable")
          /\ UNCHANGED real
     ELSE /\ real' = [real EXCEPT ![s] = "stopped"]
          /\ Go("worker", "stopone")
          /\ UNCHANGED failed
  /\ UNCHANGED <<agent, host, disabled, memory, locker, reader>>

NotPending(s) ==
  /\ At("worker", "pending")
  /\ s \in thread["worker"].cur
  /\ Held(s) \notin {"starting", "stopping"}
  /\ Go("worker", "stopone")
  /\ UNCHANGED <<agent, host, real, disabled, memory, locker, reader, failed>>

(* Refresh; nothing to do if stopped, otherwise Stop, which throws unless  *)
(* the service runs.                                                       *)
StopService(s) ==
  /\ At("worker", "stopone")
  /\ s \in thread["worker"].cur
  /\ CASE real[s] = "stopped" -> Go("worker", "enable") /\ UNCHANGED <<real, failed>>
       [] real[s] = "running" -> /\ real' = [real EXCEPT ![s] = "stopping"]
                                 /\ Go("worker", "wait")
                                 /\ UNCHANGED failed
       [] OTHER -> /\ failed' = failed \cup {s}
                   /\ Go("worker", "enable")
                   /\ UNCHANGED real
  /\ UNCHANGED <<agent, host, disabled, memory, locker, reader>>

(* WaitForStatus returns when the service has stopped, or throws.          *)
WaitForStatus(s) ==
  /\ At("worker", "wait")
  /\ s \in thread["worker"].cur
  /\ \/ real[s] = "stopped" /\ Go("worker", "recheck") /\ UNCHANGED failed
     \/ /\ real[s] # "stopped"
        /\ Go("worker", "enable")
        /\ failed' = failed \cup {s}
  /\ UNCHANGED <<agent, host, real, disabled, memory, locker, reader>>

(* Refresh, and KillService should it have come back.                      *)
Recheck(s) ==
  /\ At("worker", "recheck")
  /\ s \in thread["worker"].cur
  /\ failed' = IF real[s] = "absent" THEN failed \cup {s} ELSE failed
  /\ real' = IF real[s] = "absent" THEN real ELSE [real EXCEPT ![s] = "stopped"]
  /\ Go("worker", "enable")
  /\ UNCHANGED <<agent, host, disabled, memory, locker, reader>>

(* finally: sc config start= demand.                                       *)
EnableService(s) ==
  /\ At("worker", "enable")
  /\ s \in thread["worker"].cur
  /\ disabled' = disabled \ {s}
  /\ Move("worker", [thread["worker"] EXCEPT !.step = "stopping", !.cur = {},
                                             !.todo = @ \ {s}])
  /\ UNCHANGED <<agent, host, real, memory, locker, reader, failed>>

Stopped == At("worker", "stopping") /\ thread["worker"].todo = {}

LeaveStop ==
  /\ Stopped
  /\ ReleaseLock("worker")
  /\ Move("worker", IdleThread)
  /\ failed' = {}
  /\ outside' = {}
  /\ UNCHANGED <<agent, events, real, disabled, described, memory, reader>>

-----------------------------------------------------------------------------
(* RunPrescripts, from ConfigureJob of an apply.                           *)

AskHook ==
  /\ agent = "serving"
  /\ Event
  /\ At("worker", "idle")
  /\ Go("worker", "hook")
  /\ UNCHANGED <<agent, real, disabled, described, memory, locker, reader,
                 failed, outside>>

(* It reads the monit files, and runs the scripts holding the lock.        *)
EnterHook ==
  /\ At("worker", "hook")
  /\ TakeLock("worker")
  /\ specified' = described
  /\ Go("worker", "script")
  /\ UNCHANGED <<agent, host, real, disabled, statuses, reader, failed>>

LeaveHook ==
  /\ At("worker", "script")
  /\ ReleaseLock("worker")
  /\ Move("worker", IdleThread)
  /\ UNCHANGED <<agent, host, real, disabled, memory, reader, failed>>

-----------------------------------------------------------------------------
(* The end of the process and its start.                                   *)

ProcessEnds ==
  /\ agent' = "down"
  /\ specified' = {}
  /\ statuses' = [s \in Services |-> "none"]
  /\ locker' = {}
  /\ thread' = [t \in Threads |-> IdleThread]
  /\ reader' = [r \in Readers |-> IdleReader]

(* First() finds no service of that name: the lock is given back; on the   *)
(* execution thread nobody catches the exception, in a request it makes    *)
(* the handler restart the agent.                                          *)
NoSuchService(t, s) ==
  /\ At(t, "starting") \/ At(t, "stopping")
  /\ s \in thread[t].todo
  /\ thread[t].list[s] = "absent"
  /\ IF t = "runner"
     THEN ProcessEnds
     ELSE /\ ReleaseLock(t)
          /\ Move(t, IdleThread)
          /\ agent' = "restarting"
          /\ UNCHANGED <<memory, reader>>
  /\ UNCHANGED <<host, real, disabled, failed>>

Kill ==
  /\ agent = "restarting"
  /\ ProcessEnds
  /\ UNCHANGED <<host, real, disabled, failed>>

Crash ==
  /\ agent # "down"
  /\ Event
  /\ ProcessEnds
  /\ UNCHANGED <<real, disabled, described, failed, outside>>

(* AgentRunner starts the timer, then the services, then the handler.      *)
Boot ==
  /\ agent = "down"
  /\ agent' = "starting"
  /\ Go("runner", "start")
  /\ UNCHANGED <<host, real, disabled, memory, locker, reader, failed>>

-----------------------------------------------------------------------------
(* GetServiceGroupState: an enumeration without the lock, in which each    *)
(* MoveNext throws if the version has changed.                             *)

BeginReport(r) ==
  /\ agent \in {"serving", "restarting"}
  /\ reader[r].step = "idle"
  /\ reader' = [reader EXCEPT ![r] = [IdleReader EXCEPT !.step = "reading",
                                        !.could = Groups(statuses)]]
  /\ UNCHANGED <<agent, host, real, disabled, memory, locker, thread, failed>>

Answer(r, a) == reader' = [reader EXCEPT ![r].step = a]
Visit(r, s) == reader' = [reader EXCEPT ![r].visited = @ \cup {s}]

(* The body of the loop: the next entry, in any order, or the end.         *)
NextEntry(r) ==
  \/ Entries(statuses) \subseteq reader[r].visited /\ Answer(r, "running")
  \/ \E s \in Entries(statuses) \ reader[r].visited :
       \/ statuses[s] = "running" /\ Visit(r, s)
       \/ statuses[s] = "starting" /\ Answer(r, "starting")
       \/ statuses[s] \notin {"running", "starting"} /\ Answer(r, "failing")

(* Variant: the enumeration does not look at the version.                  *)
EnumerateUnchecked(r) ==
  /\ reader[r].step = "reading"
  /\ NextEntry(r)
  /\ UNCHANGED <<agent, host, real, disabled, memory, locker, thread, failed>>

Enumerate(r) ==
  /\ reader[r].step = "reading"
  /\ \/ reader[r].touched /\ Answer(r, "threw")
     \/ ~reader[r].touched /\ NextEntry(r)
  /\ UNCHANGED <<agent, host, real, disabled, memory, locker, thread, failed>>

(* The answer has been sent; an exception costs a heartbeat, or, thrown by *)
(* get_state, makes the handler restart the agent.                         *)
EndReport(r) ==
  /\ reader[r].step \in Answers \cup {"threw"}
  /\ reader' = [reader EXCEPT ![r] = IdleReader]
  /\ \/ UNCHANGED agent
     \/ reader[r].step = "threw" /\ agent' = "restarting"
  /\ UNCHANGED <<host, real, disabled, memory, locker, thread, failed>>

GetServiceGroupState(r) == BeginReport(r) \/ Enumerate(r) \/ EndReport(r)

-----------------------------------------------------------------------------
(* The host.                                                               *)

Become(s, state) == real' = [real EXCEPT ![s] = state]
Stopping == thread["worker"].step \in StopSteps

(* A service that starts runs or fails, one that stops stops.              *)
Settle(s) ==
  /\ \/ real[s] = "starting" /\ (Become(s, "running") \/ Become(s, "stopped"))
     \/ real[s] = "stopping" /\ Become(s, "stopped")
  /\ UNCHANGED <<agent, host, disabled, memory, locker, thread, reader, failed>>

(* A service dies, or is installed.                                        *)
ServiceChanges(s) ==
  /\ Event
  /\ real[s] \in {"running", "absent"}
  /\ Become(s, "stopped")
  /\ UNCHANGED <<agent, disabled, described, memory, locker, thread, reader,
                 failed, outside>>

(* A service is removed, and its start type with it.                       *)
RemoveService(s) ==
  /\ Event
  /\ real[s] = "stopped"
  /\ Become(s, "absent")
  /\ disabled' = disabled \ {s}
  /\ outside' = IF Stopping THEN outside \cup {s} ELSE outside
  /\ UNCHANGED <<agent, described, memory, locker, thread, reader, failed>>

(* Somebody else starts a service: a recovery action, a dependent.         *)
OutsideStart(s) ==
  /\ Event
  /\ real[s] = "stopped"
  /\ s \notin disabled
  /\ Become(s, "starting")
  /\ outside' = IF Stopping /\ s \notin thread["worker"].cur
                THEN outside \cup {s} ELSE outside
  /\ UNCHANGED <<agent, disabled, described, memory, locker, thread, reader,
                 failed>>

(* An apply replaces the monit files, between StopServices and the hooks.  *)
Describe ==
  /\ Event
  /\ agent \in {"serving", "restarting"}
  /\ At("worker", "idle")
  /\ described' \in SUBSET Services
  /\ UNCHANGED <<agent, real, disabled, memory, locker, thread, reader, failed,
                 outside>>

-----------------------------------------------------------------------------
Timer == ListServices \/ EnterRun \/ Run("timer") \/ LeaveRun

StartServices(t) ==
  \/ EnterStart(t) \/ Run(t) \/ ListAgain(t) \/ LeaveStart(t)
  \/ \E s \in Services : StartService(t, s) \/ NoSuchService(t, s)

StopServices ==
  \/ EnterStop \/ LeaveStop
  \/ \E s \in Services :
       \/ DisableService(s) \/ RefreshPending(s) \/ KillService(s)
       \/ NotPending(s) \/ StopService(s) \/ WaitForStatus(s) \/ Recheck(s)
       \/ EnableService(s) \/ NoSuchService("worker", s)

RunPrescripts == EnterHook \/ LeaveHook

Next ==
  \/ Timer
  \/ \E t \in Starters \cup {"runner"} : AskStart(t) \/ StartServices(t)
  \/ AskStop \/ StopServices
  \/ AskHook \/ RunPrescripts
  \/ Kill \/ Crash \/ Boot \/ Describe
  \/ \E r \in Readers : GetServiceGroupState(r)
  \/ \E s \in Services :
       Settle(s) \/ ServiceChanges(s) \/ RemoveService(s) \/ OutsideStart(s)

Spec == Init /\ [][Next]_vars

(* Each thread goes on, the decided kill happens, and who waits for the    *)
(* lock gets it: the timer leaves it alone for six seconds after each Run. *)
(* Nothing obliges the host, the services or the requests.                 *)
Enter(t) == EnterStart(t) \/ (t = "timer" /\ EnterRun)
            \/ (t = "worker" /\ (EnterStop \/ EnterHook))

FairSpec ==
  /\ Spec
  /\ WF_vars(Timer)
  /\ WF_vars(StopServices \/ RunPrescripts)
  /\ \A t \in Starters \cup {"runner"} : WF_vars(StartServices(t))
  /\ \A t \in Threads : SF_vars(Enter(t))
  /\ WF_vars(Kill)

-----------------------------------------------------------------------------
(* Properties.                                                             *)

(* When StopServices lets go, every service it knew of is down, unless it  *)
(* logged a failure or somebody else has started or removed the service:   *)
(* no start request comes between, and none comes back while it is handled.*)
HandledStayStopped ==
  Stopping =>
    \A s \in Entries(statuses) \ (thread["worker"].todo \cup failed \cup outside) :
      real[s] \in {"stopped", "absent"}

(* A StopServices cut short by the end of the process leaves services      *)
(* disabled: StartServices makes each one it handles startable again, and  *)
(* no StopServices disables it meanwhile.                                  *)
StartedAreNotDisabled ==
  \A t \in Threads : At(t, "starting") =>
    disabled \cap Entries(statuses) \subseteq thread[t].todo

(* GetServiceGroupState takes no lock, but what it answers was the state   *)
(* of the dictionary at some time while it ran.                            *)
ReportsWereTrue ==
  \A r \in Readers :
    reader[r].step \in Answers => reader[r].step \in reader[r].could

(* Lists taken before the lock may put old statuses over new ones, but not *)
(* for ever: once the host is quiet the dictionary agrees with it.         *)
StatusesCatchUp ==
  <>[](agent = "down" \/ \A s \in described :
         real[s] # "absent" => statuses[s] = real[s])

(* The lock is given back on every path, so each request ends.             *)
RequestsFinish ==
  \A t \in Starters \cup {"worker"} :
    thread[t].step # "idle" ~> thread[t].step = "idle"

(* Both: the monitor neither stays behind the host nor keeps the lock.     *)
MonitSettles == StatusesCatchUp /\ RequestsFinish

(* The lock: who is at a step between its two ends holds it, and nobody    *)
(* else.                                                                   *)
LockInv ==
  /\ \A t \in Threads :
       t \in locker <=> thread[t].step \in RunSteps \cup StopSteps
                                           \cup {"starting", "script"}
  /\ \A t, u \in locker : t = u

(* A process that is down has no threads.                                  *)
DownInv == agent = "down" => \A t \in Threads : At(t, "idle")

(* What Run is about to write, and the entry it has written: while that    *)
(* entry is being added it is blank.                                       *)
WriteInv ==
  \A t \in Threads :
    /\ thread[t].step \in {"recording", "added", "written"} =>
         \A s \in thread[t].todo : thread[t].list[s] # "absent"
    /\ At(t, "added") =>
         \A s \in thread[t].cur : thread[t].list[s] # "absent"
                                 /\ statuses[s] = "blank"
    /\ At(t, "written") => \A p, s \in thread[t].cur : p = s

(* A service StopServices handles stays disabled, unless somebody else     *)
(* removes it, and is down at the end, unless a failure was logged.        *)
StopInv ==
  LET me == thread["worker"]
  IN  me.step \in StopSteps =>
        /\ \A s \in Services :
             me.list[s] # "absent" /\ real[s] = "absent" => s \in outside
        /\ me.step = "stopping" => me.cur = {}
        /\ \A p, s \in me.cur : p = s
        /\ \A s \in me.cur \ outside :
             /\ s \in disabled
             /\ me.step = "enable" /\ s \notin failed =>
                  real[s] \in {"stopped", "absent"}

(* An enumeration whose version has not changed has seen entries that are  *)
(* still running, but for one that is just being written.                  *)
Pending(s) == \E t \in Threads : At(t, "written") /\ s \in thread[t].cur

ReportInv ==
  \A r \in Readers : reader[r].step = "reading" =>
    /\ Groups(statuses) \subseteq reader[r].could
    /\ ~reader[r].touched =>
         \A s \in reader[r].visited :
           \/ statuses[s] = "running"
           \/ /\ Pending(s)
              /\ Groups([statuses EXCEPT ![s] = "running"])
                    \subseteq reader[r].could

MonitInv ==
  /\ TypeOK
  /\ LockInv
  /\ DownInv
  /\ WriteInv
  /\ StopInv
  /\ HandledStayStopped
  /\ StartedAreNotDisabled
  /\ ReportInv
  /\ ReportsWereTrue

=============================================================================
