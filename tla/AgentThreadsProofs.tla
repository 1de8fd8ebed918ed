------------------------- MODULE AgentThreadsProofs -------------------------
(***************************************************************************)
(* Proofs about the agent's two groups of threads: those of Monit, for any *)
(* set of services, of threads that serve start requests and of readers,   *)
(* and any number of events; and the calls of StartHandler (NatsStartup),  *)
(* for any number of retries and of calls.                                 *)
(***************************************************************************)
EXTENDS Monit, NatsStartup, TLAPS

-----------------------------------------------------------------------------
(* Types.                                                                  *)

(* A thread may be given any state of a thread.                            *)
LEMMA MoveType ==
  ASSUME TypeOK, NEW t \in Threads, NEW new \in ThreadStates, Move(t, new)
  PROVE  thread' \in [Threads -> ThreadStates]
BY DEF Move, TypeOK

(* A thread may go to any step.                                            *)
LEMMA GoType ==
  ASSUME TypeOK, NEW t \in Threads, NEW to \in Steps, Go(t, to)
  PROVE  thread' \in [Threads -> ThreadStates]
<1>1. [thread[t] EXCEPT !.step = to] \in ThreadStates
  BY DEF TypeOK, ThreadStates
<1> QED BY <1>1, MoveType DEF Go

(* The states in which threads and readers begin.                          *)
LEMMA IdleTypes ==
  /\ IdleThread \in ThreadStates
  /\ IdleReader \in ReaderStates
BY DEF IdleThread, ThreadStates, Steps, IdleReader, ReaderStates

(* The body of Run writes statuses only.                                   *)
LEMMA RunType ==
  ASSUME TypeOK, WriteInv, NEW t \in Threads, Run(t)
  PROVE  TypeOK'
<1>1. thread[t] \in ThreadStates
  BY DEF TypeOK
<1>2. CASE MonitorServices(t)
  <2>1. [thread[t] EXCEPT !.step = "recording",
           !.todo = {s \in described : thread[t].list[s] # "absent"}]
          \in ThreadStates
    BY <1>1 DEF TypeOK, ThreadStates, Steps
  <2> QED BY <1>2, <2>1, MoveType DEF MonitorServices, TypeOK, host
<1>3. CASE CountVersion(t)
  <2>1. [thread[t] EXCEPT !.step = "recording", !.cur = {},
                          !.todo = @ \ thread[t].cur] \in ThreadStates
    BY <1>1 DEF ThreadStates, Steps
  <2>2. \A r \in Readers : [reader[r] EXCEPT !.touched = TRUE] \in ReaderStates
    BY DEF TypeOK, ReaderStates
  <2> QED
    BY <1>3, <2>1, <2>2, MoveType DEF CountVersion, TypeOK, host, memory
<1>4. ASSUME NEW s \in Services, SameStatus(t, s) PROVE TypeOK'
  <2>1. [thread[t] EXCEPT !.todo = @ \ {s}] \in ThreadStates
    BY <1>1 DEF ThreadStates
  <2> QED BY <1>4, <2>1, MoveType DEF SameStatus, TypeOK, host, memory
<1>5. ASSUME NEW s \in Services, NEW v \in Status \cup {"blank"},
             Store(s, v)
      PROVE  /\ statuses' \in [Services -> Status \cup {"none", "blank"}]
             /\ reader' \in [Readers -> ReaderStates]
  <2>1. statuses' \in [Services -> Status \cup {"none", "blank"}]
    BY <1>5 DEF Store, TypeOK
  <2>2. \A r \in Readers :
          [reader[r] EXCEPT !.could = @ \cup Groups(statuses')] \in ReaderStates
    BY DEF TypeOK, ReaderStates, Groups
  <2> QED BY <1>5, <2>1, <2>2 DEF Store, TypeOK
<1>6. ASSUME NEW s \in Services, AddEntry(t, s) PROVE TypeOK'
  <2>1. [thread[t] EXCEPT !.step = "added", !.cur = {s}] \in ThreadStates
    BY <1>1 DEF ThreadStates, Steps
  <2> QED BY <1>5, <1>6, <2>1, MoveType DEF AddEntry, TypeOK, host
<1>7. ASSUME NEW s \in Services, WriteStatus(t, s) PROVE TypeOK'
  <2>1. [thread[t] EXCEPT !.step = "written", !.cur = {s}] \in ThreadStates
    BY <1>1 DEF ThreadStates, Steps
  <2>2. thread[t].list[s] \in Status
    BY <1>1, <1>7 DEF WriteStatus, At, WriteInv, ThreadStates
  <2> QED BY <1>5, <1>7, <2>1, <2>2, MoveType DEF WriteStatus, TypeOK, host
<1> QED BY <1>2, <1>3, <1>4, <1>6, <1>7 DEF Run

(* A process that ends leaves nothing in memory.                           *)
LEMMA ProcessEndsType ==
  ASSUME TypeOK, ProcessEnds, UNCHANGED <<real, disabled, described, failed, outside>>,
         events' \in 0..MaxEvents
  PROVE  TypeOK'
BY IdleTypes DEF ProcessEnds, TypeOK

(* So does a service that First() does not find, on the execution thread.  *)
LEMMA NoSuchServiceType ==
  ASSUME TypeOK, NEW t \in Threads, NEW s \in Services, NoSuchService(t, s)
  PROVE  TypeOK'
<1>1. CASE ProcessEnds
  BY <1>1, ProcessEndsType DEF NoSuchService, host, TypeOK
<1>2. CASE ReleaseLock(t) /\ Move(t, IdleThread) /\ agent' = "restarting"
           /\ UNCHANGED <<memory, reader>>
  BY <1>2, IdleTypes, MoveType
     DEF NoSuchService, host, memory, TypeOK, ReleaseLock
<1> QED BY <1>1, <1>2 DEF NoSuchService

(* Types: StartServices.                                                   *)
LEMMA StartType ==
  ASSUME TypeOK, WriteInv, NEW t \in Threads, StartServices(t) \/ AskStart(t)
  PROVE  TypeOK'
<1>1. thread[t] \in ThreadStates
  BY DEF TypeOK
<1>2. CASE AskStart(t)
  BY <1>2, GoType, MonitAssumption DEF AskStart, Event, TypeOK, memory, Steps
<1>3. CASE EnterStart(t)
  <2>1. [IdleThread EXCEPT !.step = "jobs", !.list = real] \in ThreadStates
    BY IdleTypes DEF TypeOK, ThreadStates, Steps
  <2> QED BY <1>3, <2>1, MoveType DEF EnterStart, TakeLock, TypeOK, host, memory
<1>4. CASE Run(t)
  BY <1>4, RunType
<1>5. CASE ListAgain(t)
  <2>1. [thread[t] EXCEPT !.step = "starting", !.todo = Entries(statuses),
                          !.list = real] \in ThreadStates
    BY <1>1 DEF TypeOK, ThreadStates, Steps, Entries
  <2> QED BY <1>5, <2>1, MoveType DEF ListAgain, TypeOK, host, memory
<1>6. CASE LeaveStart(t)
  BY <1>6, IdleTypes, MoveType DEF LeaveStart, ReleaseLock, TypeOK, host, memory
<1>7. ASSUME NEW s \in Services, StartService(t, s) PROVE TypeOK'
  <2>1. [thread[t] EXCEPT !.todo = @ \ {s}] \in ThreadStates
    BY <1>1 DEF ThreadStates
  <2>2. real' \in [Services -> Status \cup {"absent"}]
    BY <1>7 DEF StartService, TypeOK, Status
  <2> QED BY <1>7, <2>1, <2>2, MoveType DEF StartService, TypeOK, host, memory
<1>8. ASSUME NEW s \in Services, NoSuchService(t, s) PROVE TypeOK'
  BY <1>8, NoSuchServiceType
<1> QED BY <1>2, <1>3, <1>4, <1>5, <1>6, <1>7, <1>8 DEF StartServices

(* Types: StopServices and what else the worker runs.                      *)
LEMMA StopType ==
  ASSUME TypeOK, StopServices \/ AskStop
  PROVE  TypeOK'
<1>1. "worker" \in Threads /\ thread["worker"] \in ThreadStates
  BY DEF TypeOK, Threads
<1>2. CASE AskStop
  BY <1>1, <1>2, GoType, MonitAssumption DEF AskStop, Event, TypeOK, memory, Steps
<1>3. CASE EnterStop
  <2>1. [IdleThread EXCEPT !.step = "stopping", !.list = real,
                           !.todo = Entries(statuses)] \in ThreadStates
    BY IdleTypes DEF TypeOK, ThreadStates, Steps, Entries
  <2> QED BY <1>1, <1>3, <2>1, MoveType DEF EnterStop, TakeLock, TypeOK, memory
<1>4. CASE LeaveStop
  BY <1>1, <1>4, IdleTypes, MoveType
     DEF LeaveStop, ReleaseLock, TypeOK, host, memory
<1>5. ASSUME NEW s \in Services, DisableService(s) PROVE TypeOK'
  <2>1. [thread["worker"] EXCEPT !.step = "pending", !.cur = {s}]
          \in ThreadStates
    BY <1>1 DEF ThreadStates, Steps
  <2> QED BY <1>1, <1>5, <2>1, MoveType DEF DisableService, TypeOK, host, memory
<1>6. ASSUME NEW s \in Services, RefreshPending(s) PROVE TypeOK'
  <2>1. [thread["worker"] EXCEPT !.list[s] = real[s]] \in ThreadStates
    BY <1>1 DEF ThreadStates, TypeOK
  <2> QED BY <1>1, <1>6, <2>1, MoveType DEF RefreshPending, TypeOK, host, memory
<1>7. ASSUME NEW s \in Services,
             \/ KillService(s) \/ NotPending(s) \/ StopService(s)
             \/ WaitForStatus(s) \/ Recheck(s)
      PROVE  TypeOK'
  <2>1. thread' \in [Threads -> ThreadStates]
    BY <1>1, <1>7, GoType
       DEF KillService, NotPending, StopService, WaitForStatus, Recheck, Steps
  <2>2. real' \in [Services -> Status \cup {"absent"}]
    BY <1>7 DEF KillService, NotPending, StopService, WaitForStatus, Recheck,
                TypeOK, Status
  <2>3. failed' \in SUBSET Services
    BY <1>7 DEF KillService, NotPending, StopService, WaitForStatus, Recheck,
                TypeOK
  <2> QED
    BY <1>7, <2>1, <2>2, <2>3
       DEF KillService, NotPending, StopService, WaitForStatus, Recheck, TypeOK,
           host, memory
<1>8. ASSUME NEW s \in Services, EnableService(s) PROVE TypeOK'
  <2>1. [thread["worker"] EXCEPT !.step = "stopping", !.cur = {},
                                 !.todo = @ \ {s}] \in ThreadStates
    BY <1>1 DEF ThreadStates, Steps
  <2> QED BY <1>1, <1>8, <2>1, MoveType DEF EnableService, TypeOK, host, memory
<1>9. ASSUME NEW s \in Services, NoSuchService("worker", s) PROVE TypeOK'
  BY <1>1, <1>9, NoSuchServiceType
<1> QED
  BY <1>2, <1>3, <1>4, <1>5, <1>6, <1>7, <1>8, <1>9 DEF StopServices

(* Types: GetServiceGroupState.                                            *)
LEMMA ReportType ==
  ASSUME TypeOK, NEW r \in Readers, GetServiceGroupState(r)
  PROVE  TypeOK'
<1>1. reader[r] \in ReaderStates
  BY DEF TypeOK
<1>2. CASE BeginReport(r)
  <2>1. [IdleReader EXCEPT !.step = "reading", !.could = Groups(statuses)]
          \in ReaderStates
    BY IdleTypes DEF ReaderStates, Groups
  <2> QED BY <1>2, <2>1 DEF BeginReport, TypeOK, host, memory
<1>3. CASE Enumerate(r)
  <2>1. reader' \in [Readers -> ReaderStates]
    <3>1. \A a \in Answers \cup {"threw"} :
            [reader[r] EXCEPT !.step = a] \in ReaderStates
      BY <1>1 DEF ReaderStates
    <3>2. \A s \in Services :
            [reader[r] EXCEPT !.visited = @ \cup {s}] \in ReaderStates
      BY <1>1 DEF ReaderStates
    <3>3. ASSUME NEW a \in Answers \cup {"threw"}, Answer(r, a)
          PROVE  reader' \in [Readers -> ReaderStates]
      BY <3>1, <3>3 DEF Answer, TypeOK
    <3>4. ASSUME NEW s \in Services, Visit(r, s)
          PROVE  reader' \in [Readers -> ReaderStates]
      BY <3>2, <3>4 DEF Visit, TypeOK
    <3> QED BY <1>3, <3>3, <3>4 DEF Enumerate, NextEntry, Entries, Answers
  <2> QED BY <1>3, <2>1 DEF Enumerate, TypeOK, host, memory
<1>4. CASE EndReport(r)
  BY <1>4, IdleTypes DEF EndReport, TypeOK, host, memory
<1> QED BY <1>2, <1>3, <1>4 DEF GetServiceGroupState

(* Types: what happens on the host.                                        *)
LEMMA HostType ==
  ASSUME TypeOK, NEW s \in Services,
         Settle(s) \/ ServiceChanges(s) \/ RemoveService(s) \/ OutsideStart(s)
  PROVE  TypeOK'
<1>1. real' \in [Services -> Status \cup {"absent"}]
  BY DEF Settle, ServiceChanges, RemoveService, OutsideStart, Become, TypeOK, Status
<1>2. events' \in 0..MaxEvents
  BY MonitAssumption
     DEF Settle, ServiceChanges, RemoveService, OutsideStart, Event, TypeOK, host
<1> QED
  BY <1>1, <1>2
     DEF Settle, ServiceChanges, RemoveService, OutsideStart, TypeOK, host, memory

(* Every step keeps the types.                                             *)
LEMMA TypeStep == TypeOK /\ WriteInv /\ [Next]_vars => TypeOK'
<1> SUFFICES ASSUME TypeOK, WriteInv, [Next]_vars PROVE TypeOK'
  OBVIOUS
<1> USE DEF TypeOK, host, memory
<1>1. {"timer", "runner", "worker"} \subseteq Threads /\ Starters \subseteq Threads
  BY DEF Threads
<1>2. CASE Timer
  <2>1. CASE ListServices
    <3>1. [IdleThread EXCEPT !.step = "listed", !.list = real] \in ThreadStates
      BY IdleTypes DEF ThreadStates, Steps
    <3> QED BY <1>1, <2>1, <3>1, MoveType DEF ListServices
  <2>2. CASE EnterRun
    BY <1>1, <2>2, GoType DEF EnterRun, TakeLock, Steps
  <2>3. CASE LeaveRun
    BY <1>1, <2>3, IdleTypes, MoveType DEF LeaveRun, ReleaseLock
  <2> QED BY <1>1, <1>2, <2>1, <2>2, <2>3, RunType DEF Timer
<1>3. ASSUME NEW t \in Starters \cup {"runner"}, AskStart(t) \/ StartServices(t)
      PROVE  TypeOK'
  BY <1>1, <1>3, StartType
<1>4. CASE AskStop \/ StopServices
  BY <1>4, StopType
<1>5. CASE AskHook \/ RunPrescripts
  <2>1. CASE AskHook
    BY <1>1, <2>1, GoType, MonitAssumption DEF AskHook, Event, Steps
  <2>2. CASE EnterHook
    BY <1>1, <2>2, GoType DEF EnterHook, TakeLock, Steps
  <2>3. CASE LeaveHook
    BY <1>1, <2>3, IdleTypes, MoveType DEF LeaveHook, ReleaseLock
  <2> QED BY <1>5, <2>1, <2>2, <2>3 DEF RunPrescripts
<1>6. CASE Kill \/ Crash
  <2>1. ProcessEnds /\ UNCHANGED <<real, disabled, described, failed, outside>>
    BY <1>6 DEF Kill, Crash
  <2>2. events' \in 0..MaxEvents
    BY <1>6, MonitAssumption DEF Kill, Crash, Event
  <2> QED BY <2>1, <2>2, ProcessEndsType
<1>7. CASE Boot
  BY <1>1, <1>7, GoType DEF Boot, Steps
<1>8. CASE Describe
  BY <1>8, MonitAssumption DEF Describe, Event
<1>9. ASSUME NEW r \in Readers, GetServiceGroupState(r) PROVE TypeOK'
  BY <1>9, ReportType
<1>10. ASSUME NEW s \in Services,
              Settle(s) \/ ServiceChanges(s) \/ RemoveService(s) \/ OutsideStart(s)
       PROVE  TypeOK'
  BY <1>10, HostType
<1>11. CASE UNCHANGED vars
  BY <1>11 DEF vars
<1> QED
  BY <1>2, <1>3, <1>4, <1>5, <1>6, <1>7, <1>8, <1>9, <1>10, <1>11 DEF Next

-----------------------------------------------------------------------------
(* The lock.                                                               *)

(* Every step keeps a process that is down without threads.                *)
LEMMA DownStep == DownInv /\ [Next]_vars => DownInv'
<1> SUFFICES ASSUME DownInv, [Next]_vars, agent' = "down"
             PROVE  \A t \in Threads : At(t, "idle")'
  BY DEF DownInv
<1>1. {"timer", "runner", "worker"} \subseteq Threads /\ Starters \subseteq Threads
  BY DEF Threads
<1>2. CASE ProcessEnds
  BY <1>2 DEF ProcessEnds, IdleThread, At
<1>3. CASE ~ProcessEnds
  <2>1. agent = "down"
    BY <1>3 DEF Next, Timer, StartServices, StopServices, RunPrescripts, Run,
                ListServices, EnterRun, LeaveRun, MonitorServices, CountVersion,
                AddEntry, WriteStatus, SameStatus, AskStart, EnterStart, ListAgain,
                StartService, LeaveStart, AskStop, EnterStop, DisableService,
                RefreshPending, KillService, NotPending, StopService,
                WaitForStatus, Recheck, EnableService, LeaveStop, AskHook,
                EnterHook, LeaveHook, NoSuchService, Kill, Crash, Boot,
                GetServiceGroupState, BeginReport, Enumerate, EndReport, Settle,
                ServiceChanges, RemoveService, OutsideStart, Describe, vars
  <2>2. \A t \in Threads : At(t, "idle")
    BY <2>1 DEF DownInv
  <2>3. UNCHANGED thread
    <3> USE <1>1, <1>3, <2>1, <2>2 DEF At
    <3>1. ~Timer
      BY DEF Timer, Run, ListServices, EnterRun, LeaveRun, Recorded,
             MonitorServices, CountVersion, AddEntry, WriteStatus, SameStatus
    <3>2. ASSUME NEW t \in Starters \cup {"runner"},
                 AskStart(t) \/ StartServices(t)
          PROVE  FALSE
      BY <3>2 DEF StartServices, Run, Recorded, AskStart, EnterStart, ListAgain,
                  StartService, LeaveStart, NoSuchService, MonitorServices,
                  CountVersion, AddEntry, WriteStatus, SameStatus
    <3>3. ~AskStop /\ ~StopServices
      BY DEF AskStop, StopServices, EnterStop, Stopped, DisableService,
             RefreshPending, KillService, NotPending, StopService, WaitForStatus,
             Recheck, EnableService, LeaveStop, NoSuchService
    <3>4. ~AskHook /\ ~RunPrescripts /\ ~Kill /\ ~Crash /\ ~Boot
      BY DEF AskHook, RunPrescripts, EnterHook, LeaveHook, Kill, Crash, Boot
    <3> QED
      BY <3>1, <3>2, <3>3, <3>4
         DEF Next, Describe, GetServiceGroupState, BeginReport, Enumerate,
             EndReport, Settle, ServiceChanges, RemoveService, OutsideStart, vars
  <2> QED BY <2>2, <2>3 DEF At
<1> QED BY <1>2, <1>3

(* Every step keeps the lock with the one thread between its two ends.     *)
LEMMA LockStep == TypeOK /\ LockInv /\ DownInv /\ [Next]_vars => LockInv'
<1> SUFFICES ASSUME TypeOK, LockInv, DownInv, [Next]_vars PROVE LockInv'
  OBVIOUS
<1> DEFINE Inside == RunSteps \cup StopSteps \cup {"starting", "script"}
<1>1. {"timer", "runner", "worker"} \subseteq Threads /\ Starters \subseteq Threads
  BY DEF Threads
<1>2. thread \in [Threads -> ThreadStates]
  BY DEF TypeOK
<1>3. "idle" \notin Inside /\ IdleThread.step = "idle"
  BY DEF RunSteps, StopSteps, IdleThread
<1>4. ASSUME NEW t \in Threads, NEW new, Move(t, new), UNCHANGED locker,
             new.step \in Inside <=> thread[t].step \in Inside
      PROVE  LockInv'
  BY <1>2, <1>4 DEF LockInv, Move
<1>5. ASSUME NEW t \in Threads, NEW new, Move(t, new), TakeLock(t),
             new.step \in Inside
      PROVE  LockInv'
  BY <1>2, <1>5 DEF LockInv, Move, TakeLock
<1>6. ASSUME NEW t \in Threads, Move(t, IdleThread), ReleaseLock(t)
      PROVE  LockInv'
  BY <1>2, <1>3, <1>6 DEF LockInv, Move, ReleaseLock
<1>7. ASSUME ProcessEnds PROVE LockInv'
  BY <1>3, <1>7 DEF LockInv, ProcessEnds
<1>8. ASSUME UNCHANGED <<locker, thread>> PROVE LockInv'
  BY <1>8 DEF LockInv
<1>9. ASSUME NEW t \in Threads, NEW to \in Steps
      PROVE  [thread[t] EXCEPT !.step = to].step = to
  BY <1>2 DEF ThreadStates
<1>10. ASSUME NEW t \in Threads, Run(t) PROVE LockInv'
  <2>1. CASE MonitorServices(t)
    BY <1>2, <1>4, <2>1 DEF MonitorServices, At, ThreadStates, RunSteps
  <2>2. CASE CountVersion(t)
    BY <1>2, <1>4, <2>2 DEF CountVersion, At, ThreadStates, RunSteps
  <2>3. ASSUME NEW s \in Services, AddEntry(t, s) PROVE LockInv'
    BY <1>2, <1>4, <2>3 DEF AddEntry, At, ThreadStates, RunSteps
  <2>4. ASSUME NEW s \in Services, WriteStatus(t, s) PROVE LockInv'
    BY <1>2, <1>4, <2>4 DEF WriteStatus, At, ThreadStates, RunSteps
  <2>5. ASSUME NEW s \in Services, SameStatus(t, s) PROVE LockInv'
    BY <1>2, <1>4, <2>5 DEF SameStatus, ThreadStates
  <2> QED BY <1>10, <2>1, <2>2, <2>3, <2>4, <2>5 DEF Run
<1>11. ASSUME NEW t \in Threads, NEW s \in Services, NoSuchService(t, s)
       PROVE  LockInv'
  BY <1>6, <1>7, <1>11 DEF NoSuchService
<1>12. CASE Timer
  <2>1. CASE ListServices
    BY <1>1, <1>2, <1>4, <2>1
       DEF ListServices, At, IdleThread, RunSteps, StopSteps
  <2>2. CASE EnterRun
    BY <1>1, <1>2, <1>5, <1>9, <2>2 DEF EnterRun, Go, Steps, RunSteps
  <2>3. CASE LeaveRun
    BY <1>1, <1>6, <2>3 DEF LeaveRun
  <2> QED BY <1>1, <1>10, <1>12, <2>1, <2>2, <2>3 DEF Timer
<1>13. ASSUME NEW t \in Starters \cup {"runner"}, AskStart(t) \/ StartServices(t)
       PROVE  LockInv'
  <2>0. t \in Threads
    BY <1>1
  <2>1. CASE AskStart(t)
    BY <1>4, <1>9, <2>0, <2>1 DEF AskStart, Go, At, Steps, RunSteps, StopSteps
  <2>2. CASE EnterStart(t)
    BY <1>5, <2>0, <2>2 DEF EnterStart, IdleThread, RunSteps
  <2>3. CASE ListAgain(t)
    BY <1>2, <1>4, <2>0, <2>3
       DEF ListAgain, Recorded, At, ThreadStates, RunSteps
  <2>4. CASE LeaveStart(t)
    BY <1>6, <2>0, <2>4 DEF LeaveStart
  <2>5. ASSUME NEW s \in Services, StartService(t, s) PROVE LockInv'
    BY <1>2, <1>4, <2>0, <2>5 DEF StartService, ThreadStates
  <2> QED BY <1>10, <1>11, <1>13, <2>0, <2>1, <2>2, <2>3, <2>4, <2>5
          DEF StartServices
<1>14. CASE AskStop \/ AskHook
  <2>1. thread["worker"].step \notin Inside /\ UNCHANGED locker
    BY <1>14 DEF AskStop, AskHook, At, RunSteps, StopSteps
  <2>2. \E to \in {"stop", "hook"} : Go("worker", to)
    BY <1>14 DEF AskStop, AskHook
  <2>3. \A to \in {"stop", "hook"} : to \in Steps /\ to \notin Inside
    BY DEF Steps, RunSteps, StopSteps
  <2> QED BY <1>1, <1>4, <1>9, <2>1, <2>2, <2>3 DEF Go
<1>15. CASE StopServices
  <2>1. CASE EnterStop
    BY <1>1, <1>5, <2>1 DEF EnterStop, IdleThread, StopSteps
  <2>2. CASE LeaveStop
    BY <1>1, <1>6, <2>2 DEF LeaveStop
  <2>3. ASSUME NEW s \in Services, DisableService(s) \/ EnableService(s)
        PROVE  LockInv'
    BY <1>1, <1>2, <1>4, <2>3
       DEF DisableService, EnableService, At, ThreadStates, StopSteps
  <2>4. ASSUME NEW s \in Services, RefreshPending(s) PROVE LockInv'
    BY <1>1, <1>2, <1>4, <2>4 DEF RefreshPending, ThreadStates
  <2>5. ASSUME NEW s \in Services,
               \/ KillService(s) \/ NotPending(s) \/ StopService(s)
               \/ WaitForStatus(s) \/ Recheck(s)
        PROVE  LockInv'
    <3>1. UNCHANGED locker /\ thread["worker"].step \in StopSteps
      BY <2>5 DEF KillService, NotPending, StopService, WaitForStatus, Recheck,
                  At, StopSteps
    <3>2. \E to \in StopSteps : Go("worker", to)
      BY <2>5 DEF KillService, NotPending, StopService, WaitForStatus, Recheck,
                  StopSteps
    <3>3. StopSteps \subseteq Steps
      BY DEF StopSteps, Steps
    <3> QED BY <1>1, <1>4, <1>9, <3>1, <3>2, <3>3 DEF Go
  <2> QED BY <1>1, <1>11, <1>15, <2>1, <2>2, <2>3, <2>4, <2>5 DEF StopServices
<1>16. CASE RunPrescripts
  <2>1. CASE EnterHook
    BY <1>1, <1>5, <1>9, <2>1 DEF EnterHook, Go, Steps
  <2>2. CASE LeaveHook
    BY <1>1, <1>6, <2>2 DEF LeaveHook
  <2> QED BY <1>16, <2>1, <2>2 DEF RunPrescripts
<1>17. CASE Kill \/ Crash
  BY <1>7, <1>17 DEF Kill, Crash
<1>18. CASE Boot
  <2>1. thread["runner"].step \notin Inside
    BY <1>1, <1>18 DEF Boot, DownInv, At, RunSteps, StopSteps
  <2> QED BY <1>1, <1>4, <1>9, <1>18, <2>1 DEF Boot, Go, Steps, RunSteps, StopSteps
<1>19. ASSUME NEW r \in Readers, GetServiceGroupState(r) PROVE LockInv'
  BY <1>8, <1>19 DEF GetServiceGroupState, BeginReport, Enumerate, EndReport
<1>20. ASSUME NEW s \in Services,
              Settle(s) \/ ServiceChanges(s) \/ RemoveService(s) \/ OutsideStart(s)
       PROVE  LockInv'
  BY <1>8, <1>20 DEF Settle, ServiceChanges, RemoveService, OutsideStart
<1>21. CASE Describe \/ UNCHANGED vars
  BY <1>8, <1>21 DEF Describe, vars
<1> QED
  BY <1>12, <1>13, <1>14, <1>15, <1>16, <1>17, <1>18, <1>19, <1>20, <1>21
     DEF Next

(* The dictionary changes only in the hands of the holder of the lock, at  *)
(* a step of Run, or with the end of the process.                          *)
LEMMA WhoWrites ==
  ASSUME [Next]_vars, ~ProcessEnds
  PROVE  \/ UNCHANGED statuses
         \/ \E t \in Threads, s \in Services : AddEntry(t, s) \/ WriteStatus(t, s)
<1>1. {"timer", "runner", "worker"} \subseteq Threads /\ Starters \subseteq Threads
  BY DEF Threads
<1>2. ASSUME NEW t \in Threads, Run(t)
      PROVE  \/ UNCHANGED statuses
             \/ \E s \in Services : AddEntry(t, s) \/ WriteStatus(t, s)
  BY <1>2 DEF Run, MonitorServices, CountVersion, SameStatus, memory
<1>3. CASE Timer
  BY <1>1, <1>2, <1>3 DEF Timer, ListServices, EnterRun, LeaveRun, memory
<1>4. ASSUME NEW t \in Starters \cup {"runner"}, AskStart(t) \/ StartServices(t)
      PROVE  \/ UNCHANGED statuses
             \/ \E s \in Services : AddEntry(t, s) \/ WriteStatus(t, s)
  BY <1>1, <1>2, <1>4
     DEF StartServices, AskStart, EnterStart, ListAgain, StartService, LeaveStart,
         NoSuchService, memory
<1>5. CASE AskStop \/ StopServices
  BY <1>5 DEF AskStop, StopServices, EnterStop, DisableService, RefreshPending,
              KillService, NotPending, StopService, WaitForStatus, Recheck,
              EnableService, LeaveStop, NoSuchService, memory
<1>6. CASE AskHook \/ RunPrescripts \/ Boot \/ Describe \/ UNCHANGED vars
  BY <1>6 DEF AskHook, RunPrescripts, EnterHook, LeaveHook, Boot, Describe, memory,
              vars
<1>7. ASSUME NEW r \in Readers, GetServiceGroupState(r) PROVE UNCHANGED statuses
  BY <1>7 DEF GetServiceGroupState, BeginReport, Enumerate, EndReport, memory
<1>8. ASSUME NEW s \in Services,
             Settle(s) \/ ServiceChanges(s) \/ RemoveService(s) \/ OutsideStart(s)
      PROVE  UNCHANGED statuses
  BY <1>8 DEF Settle, ServiceChanges, RemoveService, OutsideStart, memory
<1> QED
  BY <1>1, <1>3, <1>4, <1>5, <1>6, <1>7, <1>8 DEF Next, Kill, Crash

(* Nobody else touches the state of a thread.                              *)
LEMMA Alone ==
  ASSUME LockInv, NEW t \in Threads, NEW u \in Threads,
         thread[t].step \in RunSteps \cup StopSteps \cup {"starting", "script"},
         thread[u].step \in RunSteps \cup StopSteps \cup {"starting", "script"}
  PROVE  t = u
BY DEF LockInv

(* A step that neither writes nor moves a thread into Run.                 *)
LEMMA WriteQuiet ==
  ASSUME TypeOK, WriteInv, UNCHANGED statuses,
         \/ UNCHANGED thread
         \/ \E t \in Threads, new \in ThreadStates :
              Move(t, new) /\ new.step \notin {"recording", "added", "written"}
  PROVE  WriteInv'
<1>1. thread \in [Threads -> ThreadStates]
  BY DEF TypeOK
<1>2. CASE UNCHANGED thread
  BY <1>2 DEF WriteInv, At
<1>3. ASSUME NEW t \in Threads, NEW new \in ThreadStates, Move(t, new),
             new.step \notin {"recording", "added", "written"}
      PROVE  WriteInv'
  <2> SUFFICES ASSUME NEW u \in Threads,
                      thread'[u].step \in {"recording", "added", "written"}
               PROVE  thread'[u] = thread[u]
    BY DEF WriteInv, At
  <2> QED BY <1>1, <1>3 DEF Move
<1> QED BY <1>2, <1>3

(* The steps of Run itself.                                                *)
LEMMA WriteRun ==
  ASSUME TypeOK, LockInv, WriteInv, NEW t \in Threads, Run(t)
  PROVE  WriteInv'
<1>1. thread \in [Threads -> ThreadStates]
  BY DEF TypeOK
<1>2. thread[t].step \in RunSteps
  BY DEF Run, MonitorServices, CountVersion, AddEntry, WriteStatus, SameStatus, At,
         RunSteps
<1>3. \A u \in Threads \ {t} :
        thread[u].step \notin {"recording", "added", "written"}
  BY <1>2, Alone DEF RunSteps
<1>4. ASSUME NEW new \in ThreadStates, Move(t, new),
             new.step \in {"recording", "added", "written"} =>
               \A s \in new.todo : new.list[s] # "absent",
             new.step = "added" =>
               \A s \in new.cur : new.list[s] # "absent" /\ statuses'[s] = "blank",
             new.step = "written" => \A p, s \in new.cur : p = s
      PROVE  WriteInv'
  <2>1. \A u \in Threads : thread'[u] = IF u = t THEN new ELSE thread[u]
    BY <1>1, <1>4 DEF Move
  <2> QED BY <1>3, <1>4, <2>1 DEF WriteInv, At
<1>5. CASE MonitorServices(t)
  <2>1. [thread[t] EXCEPT !.step = "recording",
           !.todo = {s \in described : thread[t].list[s] # "absent"}]
          \in ThreadStates
    BY <1>1 DEF TypeOK, ThreadStates, Steps
  <2> QED BY <1>1, <1>4, <1>5, <2>1 DEF MonitorServices, ThreadStates
<1>6. CASE CountVersion(t)
  <2>1. [thread[t] EXCEPT !.step = "recording", !.cur = {},
                          !.todo = @ \ thread[t].cur] \in ThreadStates
    BY <1>1 DEF ThreadStates, Steps
  <2> DEFINE new == [thread[t] EXCEPT !.step = "recording", !.cur = {},
                                      !.todo = @ \ thread[t].cur]
  <2>2. /\ new.step = "recording" /\ new.list = thread[t].list
        /\ new.todo \subseteq thread[t].todo
    BY <1>1 DEF ThreadStates
  <2>3. \A s \in thread[t].todo : thread[t].list[s] # "absent"
    BY <1>6 DEF CountVersion, At, WriteInv
  <2>4. Move(t, new)
    BY <1>6 DEF CountVersion
  <2> HIDE DEF new
  <2> QED BY <1>4, <2>1, <2>2, <2>3, <2>4 DEF new
<1>7. ASSUME NEW s \in Services, SameStatus(t, s) PROVE WriteInv'
  <2>1. [thread[t] EXCEPT !.todo = @ \ {s}] \in ThreadStates
    BY <1>1 DEF ThreadStates
  <2> QED BY <1>1, <1>4, <1>7, <2>1 DEF SameStatus, ThreadStates, WriteInv, At
<1>8. ASSUME NEW s \in Services, AddEntry(t, s) PROVE WriteInv'
  <2>1. [thread[t] EXCEPT !.step = "added", !.cur = {s}] \in ThreadStates
    BY <1>1 DEF ThreadStates, Steps
  <2>2. statuses'[s] = "blank"
    BY <1>8 DEF AddEntry, Store, TypeOK
  <2> DEFINE new == [thread[t] EXCEPT !.step = "added", !.cur = {s}]
  <2>3. /\ new.step = "added" /\ new.list = thread[t].list
        /\ new.todo = thread[t].todo /\ new.cur = {s}
    BY <1>1 DEF ThreadStates
  <2>4. s \in thread[t].todo
        /\ \A q \in thread[t].todo : thread[t].list[q] # "absent"
    BY <1>8 DEF AddEntry, At, WriteInv
  <2>5. Move(t, new)
    BY <1>8 DEF AddEntry
  <2> HIDE DEF new
  <2> QED BY <1>4, <2>1, <2>2, <2>3, <2>4, <2>5 DEF new
<1>9. ASSUME NEW s \in Services, WriteStatus(t, s) PROVE WriteInv'
  <2>1. [thread[t] EXCEPT !.step = "written", !.cur = {s}] \in ThreadStates
    BY <1>1 DEF ThreadStates, Steps
  <2> QED BY <1>1, <1>4, <1>9, <2>1 DEF WriteStatus, ThreadStates, WriteInv, At
<1> QED BY <1>5, <1>6, <1>7, <1>8, <1>9 DEF Run

(* Whoever moves outside Run moves to a step outside Run, and nobody moves *)
(* from where he has yet to count the version up.                          *)
LEMMA WhoMoves ==
  ASSUME TypeOK, DownInv, [Next]_vars, ~ProcessEnds,
         \A t \in Threads : ~Run(t)
  PROVE  \/ UNCHANGED thread
         \/ \E t \in Threads, new \in ThreadStates :
              /\ Move(t, new)
              /\ thread[t].step # "written"
              /\ new.step \notin {"recording", "added", "written"}
<1> USE DEF At, Recorded, Stopped
<1> DEFINE Quiet == \/ UNCHANGED thread
                    \/ \E t \in Threads, new \in ThreadStates :
                         /\ Move(t, new)
                         /\ thread[t].step # "written"
                         /\ new.step \notin {"recording", "added", "written"}
           Rest == Steps \ {"recording", "added", "written"}
<1> SUFFICES Quiet
  OBVIOUS
<1>1. {"timer", "runner", "worker"} \subseteq Threads /\ Starters \subseteq Threads
  BY DEF Threads
<1>2. ASSUME NEW t \in Threads, NEW new \in ThreadStates, Move(t, new),
             thread[t].step # "written", new.step \in Rest
      PROVE  Quiet
  BY <1>2
<1>3. ASSUME NEW t \in Threads, NEW to \in Rest, Go(t, to),
             thread[t].step # "written"
      PROVE  Quiet
  <2>1. /\ [thread[t] EXCEPT !.step = to] \in ThreadStates
        /\ [thread[t] EXCEPT !.step = to].step = to
    BY DEF TypeOK, ThreadStates
  <2> QED BY <1>2, <1>3, <2>1 DEF Go
<1>4. ASSUME NEW t \in Threads, Move(t, IdleThread), thread[t].step # "written"
      PROVE  Quiet
  BY <1>2, <1>4, IdleTypes DEF IdleThread, Steps
<1>5. \A t \in Threads : thread[t] \in ThreadStates
  BY DEF TypeOK
<1>6. CASE Timer
  <2>1. CASE ListServices
    <3>1. [IdleThread EXCEPT !.step = "listed", !.list = real] \in ThreadStates
      BY IdleTypes DEF TypeOK, ThreadStates, Steps
    <3> QED BY <1>1, <1>2, <2>1, <3>1 DEF ListServices, Steps, IdleThread
  <2>2. CASE EnterRun
    BY <1>1, <1>3, <2>2 DEF EnterRun, Steps
  <2>3. CASE LeaveRun
    BY <1>1, <1>4, <2>3 DEF LeaveRun
  <2> QED BY <1>1, <1>6, <2>1, <2>2, <2>3 DEF Timer
<1>7. ASSUME NEW t \in Starters \cup {"runner"}, AskStart(t) \/ StartServices(t)
      PROVE  Quiet
  <2>0. t \in Threads /\ ~Run(t)
    BY <1>1
  <2>1. CASE AskStart(t)
    BY <1>3, <2>0, <2>1 DEF AskStart, Steps
  <2>2. CASE EnterStart(t)
    <3>1. [IdleThread EXCEPT !.step = "jobs", !.list = real] \in ThreadStates
      BY IdleTypes DEF TypeOK, ThreadStates, Steps
    <3> QED BY <1>2, <2>0, <2>2, <3>1 DEF EnterStart, Steps, IdleThread
  <2>3. CASE ListAgain(t)
    <3>1. /\ [thread[t] EXCEPT !.step = "starting", !.todo = Entries(statuses),
                               !.list = real] \in ThreadStates
          /\ [thread[t] EXCEPT !.step = "starting", !.todo = Entries(statuses),
                               !.list = real].step = "starting"
      BY <1>5, <2>0 DEF TypeOK, ThreadStates, Steps, Entries
    <3> QED BY <1>2, <2>0, <2>3, <3>1 DEF ListAgain, Steps
  <2>4. CASE LeaveStart(t)
    BY <1>4, <2>0, <2>4 DEF LeaveStart
  <2>5. ASSUME NEW s \in Services, StartService(t, s) PROVE Quiet
    <3>1. /\ [thread[t] EXCEPT !.todo = @ \ {s}] \in ThreadStates
          /\ [thread[t] EXCEPT !.todo = @ \ {s}].step = "starting"
      BY <1>5, <2>0, <2>5 DEF StartService, At, ThreadStates
    <3> QED BY <1>2, <2>0, <2>5, <3>1 DEF StartService, Steps
  <2>6. ASSUME NEW s \in Services, NoSuchService(t, s) PROVE Quiet
    BY <1>4, <2>0, <2>6 DEF NoSuchService
  <2> QED BY <1>7, <2>0, <2>1, <2>2, <2>3, <2>4, <2>5, <2>6 DEF StartServices
<1>8. CASE AskStop \/ AskHook
  BY <1>1, <1>3, <1>8 DEF AskStop, AskHook, Steps
<1>9. CASE StopServices
  <2>1. CASE EnterStop
    <3>1. [IdleThread EXCEPT !.step = "stopping", !.list = real,
                             !.todo = Entries(statuses)] \in ThreadStates
      BY IdleTypes DEF TypeOK, ThreadStates, Steps, Entries
    <3> QED BY <1>1, <1>2, <2>1, <3>1 DEF EnterStop, Steps, IdleThread
  <2>2. CASE LeaveStop
    BY <1>1, <1>4, <2>2 DEF LeaveStop
  <2>3. ASSUME NEW s \in Services, DisableService(s) PROVE Quiet
    <3>1. /\ [thread["worker"] EXCEPT !.step = "pending", !.cur = {s}]
               \in ThreadStates
          /\ [thread["worker"] EXCEPT !.step = "pending", !.cur = {s}].step
               = "pending"
      BY <1>1, <1>5 DEF ThreadStates, Steps
    <3> QED BY <1>1, <1>2, <2>3, <3>1 DEF DisableService, Steps
  <2>4. ASSUME NEW s \in Services, EnableService(s) PROVE Quiet
    <3>1. /\ [thread["worker"] EXCEPT !.step = "stopping", !.cur = {},
                                      !.todo = @ \ {s}] \in ThreadStates
          /\ [thread["worker"] EXCEPT !.step = "stopping", !.cur = {},
                                      !.todo = @ \ {s}].step = "stopping"
      BY <1>1, <1>5 DEF ThreadStates, Steps
    <3> QED BY <1>1, <1>2, <2>4, <3>1 DEF EnableService, Steps
  <2>5. ASSUME NEW s \in Services, RefreshPending(s) PROVE Quiet
    <3>1. /\ [thread["worker"] EXCEPT !.list[s] = real[s]] \in ThreadStates
          /\ [thread["worker"] EXCEPT !.list[s] = real[s]].step = "pending"
      BY <1>1, <1>5, <2>5 DEF RefreshPending, At, TypeOK, ThreadStates
    <3> QED BY <1>1, <1>2, <2>5, <3>1 DEF RefreshPending, Steps
  <2>6. ASSUME NEW s \in Services,
               \/ KillService(s) \/ NotPending(s) \/ StopService(s)
               \/ WaitForStatus(s) \/ Recheck(s)
        PROVE  Quiet
    <3>1. /\ \E to \in StopSteps : Go("worker", to)
          /\ thread["worker"].step # "written"
      BY <2>6 DEF KillService, NotPending, StopService, WaitForStatus, Recheck,
                  StopSteps
    <3>2. StopSteps \subseteq Rest
      BY DEF StopSteps, Steps
    <3> QED BY <1>1, <1>3, <3>1, <3>2
  <2>7. ASSUME NEW s \in Services, NoSuchService("worker", s) PROVE Quiet
    BY <1>1, <1>4, <2>7 DEF NoSuchService
  <2> QED BY <1>9, <2>1, <2>2, <2>3, <2>4, <2>5, <2>6, <2>7 DEF StopServices
<1>10. CASE RunPrescripts
  <2>1. CASE EnterHook
    BY <1>1, <1>3, <2>1 DEF EnterHook, Steps
  <2>2. CASE LeaveHook
    BY <1>1, <1>4, <2>2 DEF LeaveHook
  <2> QED BY <1>10, <2>1, <2>2 DEF RunPrescripts
<1>11. CASE Boot
  BY <1>1, <1>3, <1>11 DEF Boot, Steps, DownInv
<1>12. CASE Describe \/ UNCHANGED vars
  BY <1>12 DEF Describe, vars
<1>13. ASSUME NEW r \in Readers, GetServiceGroupState(r) PROVE Quiet
  BY <1>13 DEF GetServiceGroupState, BeginReport, Enumerate, EndReport
<1>14. ASSUME NEW s \in Services,
              Settle(s) \/ ServiceChanges(s) \/ RemoveService(s) \/ OutsideStart(s)
       PROVE  Quiet
  BY <1>14 DEF Settle, ServiceChanges, RemoveService, OutsideStart
<1> QED
  BY <1>6, <1>7, <1>8, <1>9, <1>10, <1>11, <1>12, <1>13, <1>14
     DEF Next, Kill, Crash

(* Every step keeps what Run is about to write.                            *)
LEMMA WriteStep ==
  TypeOK /\ LockInv /\ DownInv /\ WriteInv /\ [Next]_vars => WriteInv'
<1> SUFFICES ASSUME TypeOK, LockInv, DownInv, WriteInv, [Next]_vars PROVE WriteInv'
  OBVIOUS
<1>1. CASE ProcessEnds
  BY <1>1 DEF ProcessEnds, IdleThread, WriteInv, At
<1>2. CASE \E t \in Threads : Run(t)
  BY <1>2, WriteRun
<1>3. CASE ~ProcessEnds /\ \A t \in Threads : ~Run(t)
  <2>1. UNCHANGED statuses
    BY <1>3, WhoWrites DEF Run
  <2> QED BY <1>3, <2>1, WhoMoves, WriteQuiet
<1> QED BY <1>1, <1>2, <1>3

-----------------------------------------------------------------------------
(* StopServices.                                                           *)

(* What StopServices relies on, while nothing of it changes.               *)
LEMMA StopFrame ==
  ASSUME StopInv, HandledStayStopped, UNCHANGED <<thread["worker"], statuses,
         real, disabled, failed, outside>>
  PROVE  StopInv' /\ HandledStayStopped'
BY DEF StopInv, Stopping, HandledStayStopped, Entries

(* The steps of StopServices itself.                                       *)
LEMMA StopOwnStep ==
  ASSUME TypeOK, StopInv, HandledStayStopped, StopServices
  PROVE  StopInv' /\ HandledStayStopped'
<1>1. /\ "worker" \in Threads
      /\ thread \in [Threads -> ThreadStates]
      /\ thread["worker"] \in ThreadStates
      /\ real \in [Services -> Status \cup {"absent"}]
      /\ Entries(statuses) \subseteq Services
  BY DEF TypeOK, Threads, Entries
<1> DEFINE me == thread["worker"]
<1>2. ASSUME thread'["worker"].step \notin StopSteps
      PROVE  StopInv' /\ HandledStayStopped'
  BY <1>2 DEF StopInv, Stopping, HandledStayStopped
<1>3. ASSUME Move("worker", IdleThread) \/ ProcessEnds
      PROVE  StopInv' /\ HandledStayStopped'
  BY <1>1, <1>2, <1>3 DEF Move, ProcessEnds, IdleThread, StopSteps
<1>4. CASE EnterStop
  <2>1. /\ thread'["worker"].step = "stopping"
        /\ thread'["worker"].cur = {}
        /\ thread'["worker"].list = real
        /\ thread'["worker"].todo = Entries(statuses)
    BY <1>1, <1>4 DEF EnterStop, Move, IdleThread
  <2>2. UNCHANGED <<real, statuses>>
    BY <1>4 DEF EnterStop, memory
  <2> QED BY <2>1, <2>2 DEF StopInv, Stopping, HandledStayStopped, Entries
<1>5. CASE LeaveStop
  BY <1>3, <1>5 DEF LeaveStop
<1>6. ASSUME NEW s \in Services, DisableService(s)
      PROVE  StopInv' /\ HandledStayStopped'
  <2>1. /\ thread'["worker"].step = "pending"
        /\ thread'["worker"].cur = {s}
        /\ thread'["worker"].list = me.list
        /\ thread'["worker"].todo = me.todo
    BY <1>1, <1>6 DEF DisableService, Move, ThreadStates
  <2>2. /\ me.step = "stopping" /\ me.list[s] # "absent"
        /\ disabled' = IF real[s] = "absent" THEN disabled ELSE disabled \cup {s}
        /\ UNCHANGED <<real, statuses, failed, outside>>
    BY <1>6 DEF DisableService, At, host, memory
  <2> QED BY <2>1, <2>2 DEF StopInv, Stopping, HandledStayStopped, Entries, StopSteps
<1>7. ASSUME NEW s \in Services, RefreshPending(s)
      PROVE  StopInv' /\ HandledStayStopped'
  <2>1. /\ thread'["worker"].step = me.step
        /\ thread'["worker"].cur = me.cur
        /\ thread'["worker"].list = [me.list EXCEPT ![s] = real[s]]
        /\ thread'["worker"].todo = me.todo
    BY <1>1, <1>7 DEF RefreshPending, Move, ThreadStates
  <2>2. /\ me.step = "pending" /\ real[s] # "absent"
        /\ me.list \in [Services -> Status \cup {"absent"}]
        /\ UNCHANGED <<real, statuses, disabled, failed, outside>>
    BY <1>1, <1>7 DEF RefreshPending, At, ThreadStates, host, memory
  <2> QED BY <2>1, <2>2 DEF StopInv, Stopping, HandledStayStopped, Entries, StopSteps
<1>8. ASSUME NEW to, Go("worker", to), me.step \in StopSteps \ {"stopping"},
             to \in StopSteps \ {"stopping"},
             UNCHANGED <<statuses, disabled, outside>>,
             failed \subseteq failed',
             \A s \in Services :
               \/ real'[s] = real[s]
               \/ real'[s] = "stopped" /\ real[s] # "absent"
               \/ s \in me.cur /\ real[s] = "running" /\ real'[s] = "stopping"
                  /\ to = "wait" /\ UNCHANGED failed,
             to = "enable" =>
               me.step # "enable"
               /\ \A s \in me.cur \ failed' : real'[s] \in {"stopped", "absent"}
      PROVE  StopInv' /\ HandledStayStopped'
  <2>1. /\ thread'["worker"].step = to
        /\ thread'["worker"].cur = me.cur
        /\ thread'["worker"].list = me.list
        /\ thread'["worker"].todo = me.todo
    BY <1>1, <1>8 DEF Go, Move, ThreadStates
  <2>2. me.cur \subseteq Services
    BY <1>1 DEF ThreadStates
  <2>3. StopInv'
    BY <1>8, <2>1, <2>2 DEF StopInv
  <2>4. HandledStayStopped'
    BY <1>1, <1>8, <2>1 DEF Stopping, HandledStayStopped, Entries
  <2> QED BY <2>3, <2>4
<1>9. ASSUME NEW s \in Services, s \in me.cur, me.step \in StopSteps
      PROVE  me.cur = {s}
  BY <1>9 DEF StopInv
<1> USE DEF At, host, memory, StopSteps
<1>10. ASSUME NEW s \in Services, KillService(s)
       PROVE  StopInv' /\ HandledStayStopped'
  <2>1. me.step = "pending" /\ me.cur = {s}
    BY <1>9, <1>10 DEF KillService
  <2>2. UNCHANGED <<statuses, disabled, outside>>
    BY <1>10 DEF KillService
  <2>3. CASE real[s] \in {"stopped", "absent"}
    BY <1>8, <1>10, <2>1, <2>2, <2>3 DEF KillService
  <2>4. CASE real[s] \notin {"stopped", "absent"}
    BY <1>1, <1>8, <1>10, <2>1, <2>2, <2>4 DEF KillService
  <2> QED BY <2>3, <2>4
<1>11. ASSUME NEW s \in Services, NotPending(s)
       PROVE  StopInv' /\ HandledStayStopped'
  BY <1>8, <1>11 DEF NotPending
<1>12. ASSUME NEW s \in Services, StopService(s)
       PROVE  StopInv' /\ HandledStayStopped'
  <2>1. me.step = "stopone" /\ me.cur = {s}
    BY <1>9, <1>12 DEF StopService
  <2>2. UNCHANGED <<statuses, disabled, outside>>
    BY <1>12 DEF StopService
  <2>3. CASE real[s] = "stopped"
    BY <1>8, <1>12, <2>1, <2>2, <2>3 DEF StopService
  <2>4. CASE real[s] = "running"
    BY <1>1, <1>8, <1>12, <2>1, <2>2, <2>4 DEF StopService
  <2>5. CASE real[s] \notin {"stopped", "running"}
    BY <1>8, <1>12, <2>1, <2>2, <2>5 DEF StopService
  <2> QED BY <2>3, <2>4, <2>5
<1>13. ASSUME NEW s \in Services, WaitForStatus(s)
       PROVE  StopInv' /\ HandledStayStopped'
  <2>1. me.step = "wait" /\ me.cur = {s}
    BY <1>9, <1>13 DEF WaitForStatus
  <2>2. UNCHANGED <<real, statuses, disabled, outside>>
    BY <1>13 DEF WaitForStatus
  <2>3. CASE Go("worker", "recheck") /\ UNCHANGED failed
    BY <1>8, <2>1, <2>2, <2>3
  <2>4. CASE Go("worker", "enable") /\ failed' = failed \cup {s}
    BY <1>8, <2>1, <2>2, <2>4
  <2> QED BY <1>13, <2>3, <2>4 DEF WaitForStatus
<1>14. ASSUME NEW s \in Services, Recheck(s)
       PROVE  StopInv' /\ HandledStayStopped'
  <2>1. me.step = "recheck" /\ me.cur = {s}
    BY <1>9, <1>14 DEF Recheck
  <2>2. UNCHANGED <<statuses, disabled, outside>> /\ Go("worker", "enable")
    BY <1>14 DEF Recheck
  <2>3. CASE real[s] = "absent"
    BY <1>8, <1>14, <2>1, <2>2, <2>3 DEF Recheck
  <2>4. CASE real[s] # "absent"
    BY <1>1, <1>8, <1>14, <2>1, <2>2, <2>4 DEF Recheck
  <2> QED BY <2>3, <2>4
<1>15. ASSUME NEW s \in Services, EnableService(s)
       PROVE  StopInv' /\ HandledStayStopped'
  <2>1. me.step = "enable" /\ me.cur = {s}
    BY <1>9, <1>15 DEF EnableService
  <2>2. /\ thread'["worker"].step = "stopping"
        /\ thread'["worker"].cur = {}
        /\ thread'["worker"].list = me.list
        /\ thread'["worker"].todo = me.todo \ {s}
    BY <1>1, <1>15 DEF EnableService, Move, ThreadStates
  <2>3. UNCHANGED <<real, statuses, failed, outside>>
    BY <1>15 DEF EnableService
  <2>4. s \notin failed \cup outside => real[s] \in {"stopped", "absent"}
    BY <2>1 DEF StopInv
  <2> QED BY <2>1, <2>2, <2>3, <2>4 DEF StopInv, Stopping, HandledStayStopped, Entries
<1>16. ASSUME NEW s \in Services, NoSuchService("worker", s)
       PROVE  StopInv' /\ HandledStayStopped'
  BY <1>3, <1>16 DEF NoSuchService
<1> QED
  BY <1>4, <1>5, <1>6, <1>7, <1>10, <1>11, <1>12, <1>13, <1>14, <1>15, <1>16
     DEF StopServices

(* What the host does to the services meanwhile.                           *)
LEMMA StopHostStep ==
  ASSUME TypeOK, StopInv, HandledStayStopped, NEW s \in Services,
         Settle(s) \/ ServiceChanges(s) \/ RemoveService(s) \/ OutsideStart(s)
  PROVE  StopInv' /\ HandledStayStopped'
<1> USE DEF StopInv, Stopping, HandledStayStopped, Entries, Become, TypeOK, host, memory
<1>1. CASE Settle(s) BY <1>1 DEF Settle
<1>2. CASE ServiceChanges(s) BY <1>2 DEF ServiceChanges
<1>3. CASE RemoveService(s) BY <1>3 DEF RemoveService
<1>4. CASE OutsideStart(s) BY <1>4 DEF OutsideStart
<1> QED BY <1>1, <1>2, <1>3, <1>4

(* Nobody else comes between: who starts services needs the lock.          *)
LEMMA StopStep ==
  /\ TypeOK /\ LockInv /\ StopInv /\ HandledStayStopped
  /\ [Next]_vars
  => StopInv' /\ HandledStayStopped'
<1> SUFFICES ASSUME TypeOK, LockInv, StopInv, HandledStayStopped, [Next]_vars
             PROVE  StopInv' /\ HandledStayStopped'
  OBVIOUS
<1> DEFINE Both == StopInv' /\ HandledStayStopped'
<1>1. /\ {"timer", "runner", "worker"} \subseteq Threads
      /\ Starters \subseteq Threads
      /\ \A t \in Starters \cup {"timer", "runner"} : t # "worker"
  BY MonitAssumption DEF Threads
<1>2. ASSUME thread'["worker"].step \notin StopSteps PROVE Both
  BY <1>2 DEF StopInv, Stopping, HandledStayStopped
<1>3. CASE ProcessEnds
  BY <1>1, <1>2, <1>3 DEF ProcessEnds, IdleThread, StopSteps
<1>4. CASE thread["worker"].step \notin StopSteps /\ UNCHANGED thread["worker"]
  BY <1>2, <1>4
<1>5. ASSUME thread["worker"].step \in StopSteps
      PROVE  \A t \in Starters \cup {"timer", "runner"} :
               /\ thread[t].step \notin RunSteps \cup {"starting"}
               /\ ~TakeLock(t)
  BY <1>1, <1>5, Alone DEF TakeLock, LockInv
<1>6. \A t \in Threads : \A new : Move(t, new) /\ t # "worker" =>
        thread'["worker"] = thread["worker"]
  BY <1>1 DEF Move, TypeOK
<1>7. CASE Timer
  <2>1. CASE ListServices
    BY <1>1, <1>6, <2>1, StopFrame DEF ListServices, host, memory
  <2>2. CASE EnterRun
    BY <1>1, <1>4, <1>5, <1>6, <2>2 DEF EnterRun, Go
  <2>3. CASE Run("timer")
    BY <1>1, <1>4, <1>5, <1>6, <2>3
       DEF Run, MonitorServices, CountVersion, AddEntry, WriteStatus, SameStatus,
           At, RunSteps
  <2>4. CASE LeaveRun
    BY <1>1, <1>4, <1>5, <1>6, <2>4 DEF LeaveRun, Recorded, At, RunSteps
  <2> QED BY <1>7, <2>1, <2>2, <2>3, <2>4 DEF Timer
<1>8. ASSUME NEW t \in Starters \cup {"runner"}, AskStart(t) \/ StartServices(t)
      PROVE  Both
  <2>1. CASE AskStart(t)
    BY <1>1, <1>6, <2>1, StopFrame DEF AskStart, Go, memory
  <2>2. CASE EnterStart(t)
    BY <1>1, <1>4, <1>5, <1>6, <2>2 DEF EnterStart
  <2>3. CASE Run(t)
    BY <1>1, <1>4, <1>5, <1>6, <2>3
       DEF Run, MonitorServices, CountVersion, AddEntry, WriteStatus, SameStatus,
           At, RunSteps
  <2>4. CASE ListAgain(t)
    BY <1>1, <1>4, <1>5, <1>6, <2>4 DEF ListAgain, Recorded, At, RunSteps
  <2>5. CASE LeaveStart(t)
    BY <1>1, <1>4, <1>5, <1>6, <2>5 DEF LeaveStart, At
  <2>6. ASSUME NEW s \in Services, StartService(t, s) PROVE Both
    BY <1>1, <1>4, <1>5, <1>6, <2>6 DEF StartService, At
  <2>7. ASSUME NEW s \in Services, NoSuchService(t, s) PROVE Both
    <3>1. CASE Move(t, IdleThread) /\ UNCHANGED <<memory, host, real, disabled, failed>>
      BY <1>1, <1>6, <3>1, StopFrame DEF memory, host
    <3> QED BY <1>3, <2>7, <3>1 DEF NoSuchService
  <2> QED BY <1>8, <2>1, <2>2, <2>3, <2>4, <2>5, <2>6, <2>7 DEF StartServices
<1>9. CASE StopServices
  BY <1>9, StopOwnStep
<1>10. CASE AskStop \/ AskHook \/ RunPrescripts
  <2>1. \E to \in {"stop", "hook", "script"} :
           Go("worker", to) \/ Move("worker", IdleThread)
    BY <1>10 DEF AskStop, AskHook, RunPrescripts, EnterHook, LeaveHook
  <2>2. thread["worker"] \in ThreadStates
    BY <1>1 DEF TypeOK
  <2>3. thread'["worker"].step \in {"stop", "hook", "script", "idle"}
    BY <1>1, <2>1, <2>2 DEF Go, Move, ThreadStates, IdleThread, TypeOK
  <2> QED BY <1>2, <2>3 DEF StopSteps
<1>11. CASE Kill \/ Crash
  BY <1>3, <1>11 DEF Kill, Crash
<1>12. CASE Boot
  BY <1>1, <1>6, <1>12, StopFrame DEF Boot, Go, host, memory
<1>13. CASE Describe \/ UNCHANGED vars
  BY <1>13, StopFrame DEF Describe, vars, memory
<1>14. ASSUME NEW r \in Readers, GetServiceGroupState(r) PROVE Both
  BY <1>14, StopFrame
     DEF GetServiceGroupState, BeginReport, Enumerate, EndReport, host, memory
<1>15. ASSUME NEW s \in Services,
              Settle(s) \/ ServiceChanges(s) \/ RemoveService(s) \/ OutsideStart(s)
       PROVE  Both
  BY <1>15, StopHostStep
<1> QED
  BY <1>7, <1>8, <1>9, <1>10, <1>11, <1>12, <1>13, <1>14, <1>15 DEF Next

-----------------------------------------------------------------------------
(* StartServices.                                                          *)

(* Whoever is starting services holds the lock, so nobody disables one.    *)
LEMMA StartedStep ==
  TypeOK /\ LockInv /\ StartedAreNotDisabled /\ [Next]_vars
  => StartedAreNotDisabled'
<1> SUFFICES ASSUME TypeOK, LockInv, StartedAreNotDisabled, [Next]_vars
             PROVE  StartedAreNotDisabled'
  OBVIOUS
<1> DEFINE Inside == RunSteps \cup StopSteps \cup {"starting", "script"}
<1> USE DEF At, host, memory
<1>1. {"timer", "runner", "worker"} \subseteq Threads /\ Starters \subseteq Threads
  BY DEF Threads
<1>2. thread \in [Threads -> ThreadStates]
  BY DEF TypeOK
<1>3. ASSUME UNCHANGED <<thread, statuses>>, disabled' \subseteq disabled
      PROVE  StartedAreNotDisabled'
  BY <1>3 DEF StartedAreNotDisabled, Entries
<1>4. ASSUME NEW u \in Threads, NEW new, Move(u, new), new.step # "starting",
             UNCHANGED <<disabled, statuses>>
      PROVE  StartedAreNotDisabled'
  BY <1>2, <1>4 DEF StartedAreNotDisabled, Entries, Move
<1>5. ASSUME NEW u \in Threads, NEW new, Move(u, new), new.step # "starting",
             thread[u].step \in Inside
      PROVE  StartedAreNotDisabled'
  <2>1. \A t \in Threads \ {u} : thread[t].step # "starting"
    BY <1>5, Alone
  <2> QED BY <1>2, <1>5, <2>1 DEF StartedAreNotDisabled, Move
<1>6. ASSUME NEW u \in Threads, NEW to, Go(u, to), to # "starting",
             \/ UNCHANGED <<disabled, statuses>>
             \/ thread[u].step \in Inside
      PROVE  StartedAreNotDisabled'
  <2>1. [thread[u] EXCEPT !.step = to].step = to
    BY <1>2, <1>6 DEF ThreadStates
  <2> QED BY <1>4, <1>5, <1>6, <2>1 DEF Go
<1>7. ASSUME NEW u \in Threads, Move(u, IdleThread),
             UNCHANGED <<disabled, statuses>>
      PROVE  StartedAreNotDisabled'
  BY <1>4, <1>7 DEF IdleThread
<1>8. CASE ProcessEnds
  BY <1>8 DEF ProcessEnds, IdleThread, StartedAreNotDisabled
<1>9. ASSUME NEW t \in Threads, Run(t) PROVE StartedAreNotDisabled'
  <2>1. thread[t].step \in Inside
    BY <1>9 DEF Run, MonitorServices, CountVersion, AddEntry, WriteStatus,
                SameStatus, RunSteps
  <2>2. CASE MonitorServices(t)
    BY <1>2, <1>5, <2>1, <2>2 DEF MonitorServices, ThreadStates
  <2>3. CASE CountVersion(t)
    BY <1>2, <1>5, <2>1, <2>3 DEF CountVersion, ThreadStates
  <2>4. ASSUME NEW s \in Services, AddEntry(t, s) PROVE StartedAreNotDisabled'
    BY <1>2, <1>5, <2>1, <2>4 DEF AddEntry, ThreadStates
  <2>5. ASSUME NEW s \in Services, WriteStatus(t, s) PROVE StartedAreNotDisabled'
    BY <1>2, <1>5, <2>1, <2>5 DEF WriteStatus, ThreadStates
  <2>6. ASSUME NEW s \in Services, SameStatus(t, s) PROVE StartedAreNotDisabled'
    BY <1>2, <1>5, <2>1, <2>6 DEF SameStatus, ThreadStates
  <2> QED BY <1>9, <2>2, <2>3, <2>4, <2>5, <2>6 DEF Run
<1>10. ASSUME NEW t \in Threads, NEW s \in Services, NoSuchService(t, s)
       PROVE  StartedAreNotDisabled'
  BY <1>7, <1>8, <1>10 DEF NoSuchService
<1>11. CASE Timer
  <2>1. CASE ListServices
    BY <1>1, <1>4, <2>1 DEF ListServices, IdleThread
  <2>2. CASE EnterRun
    BY <1>1, <1>6, <2>2 DEF EnterRun
  <2>3. CASE LeaveRun
    BY <1>1, <1>7, <2>3 DEF LeaveRun
  <2> QED BY <1>1, <1>9, <1>11, <2>1, <2>2, <2>3 DEF Timer
<1>12. ASSUME NEW t \in Starters \cup {"runner"}, AskStart(t) \/ StartServices(t)
       PROVE  StartedAreNotDisabled'
  <2>0. t \in Threads
    BY <1>1
  <2>1. CASE AskStart(t)
    BY <1>6, <2>0, <2>1 DEF AskStart
  <2>2. CASE EnterStart(t)
    BY <1>4, <2>0, <2>2 DEF EnterStart, IdleThread
  <2>3. CASE ListAgain(t)
    <3>1. thread[t].step \in Inside
      BY <2>3 DEF ListAgain, Recorded, RunSteps
    <3>2. \A u \in Threads \ {t} : thread'[u].step # "starting"
      BY <1>2, <2>0, <2>3, <3>1, Alone DEF ListAgain, Move
    <3>3. thread'[t].todo = Entries(statuses) /\ UNCHANGED statuses
      BY <1>2, <2>0, <2>3 DEF ListAgain, Move, ThreadStates
    <3> QED BY <3>2, <3>3 DEF StartedAreNotDisabled, Entries
  <2>4. CASE LeaveStart(t)
    BY <1>7, <2>0, <2>4 DEF LeaveStart
  <2>5. ASSUME NEW s \in Services, StartService(t, s) PROVE StartedAreNotDisabled'
    <3>1. thread[t].step \in Inside
      BY <2>5 DEF StartService
    <3>2. \A u \in Threads \ {t} : thread'[u].step # "starting"
      BY <1>2, <2>0, <2>5, <3>1, Alone DEF StartService, Move
    <3>3. thread'[t].todo = thread[t].todo \ {s}
      BY <1>2, <2>0, <2>5 DEF StartService, Move, ThreadStates
    <3>4. disabled' = disabled \ {s} /\ UNCHANGED statuses
      BY <2>5 DEF StartService
    <3> QED
      BY <2>0, <2>5, <3>2, <3>3, <3>4
         DEF StartedAreNotDisabled, Entries, StartService
  <2> QED BY <1>9, <1>10, <1>12, <2>0, <2>1, <2>2, <2>3, <2>4, <2>5 DEF StartServices
<1>13. CASE AskStop \/ AskHook \/ RunPrescripts
  BY <1>1, <1>6, <1>7, <1>13
     DEF AskStop, AskHook, RunPrescripts, EnterHook, LeaveHook
<1>14. CASE StopServices
  <2>1. CASE EnterStop
    BY <1>1, <1>4, <2>1 DEF EnterStop, IdleThread
  <2>2. CASE LeaveStop
    BY <1>1, <1>7, <2>2 DEF LeaveStop
  <2>3. ASSUME NEW s \in Services,
               DisableService(s) \/ RefreshPending(s) \/ EnableService(s)
        PROVE  StartedAreNotDisabled'
    <3>1. thread["worker"].step \in Inside
      BY <2>3 DEF DisableService, RefreshPending, EnableService, StopSteps
    <3>2. CASE DisableService(s)
      <4> DEFINE new == [thread["worker"] EXCEPT !.step = "pending", !.cur = {s}]
      <4>1. new.step = "pending"
        BY <1>1, <1>2 DEF ThreadStates
      <4> QED BY <1>1, <1>5, <3>1, <3>2, <4>1 DEF DisableService
    <3>3. CASE RefreshPending(s)
      <4> DEFINE new == [thread["worker"] EXCEPT !.list[s] = real[s]]
      <4>1. new.step = thread["worker"].step
        BY <1>1, <1>2 DEF ThreadStates
      <4> QED BY <1>1, <1>5, <3>1, <3>3, <4>1 DEF RefreshPending
    <3>4. CASE EnableService(s)
      <4> DEFINE new == [thread["worker"] EXCEPT !.step = "stopping", !.cur = {},
                                                 !.todo = @ \ {s}]
      <4>1. new.step = "stopping"
        BY <1>1, <1>2 DEF ThreadStates
      <4> QED BY <1>1, <1>5, <3>1, <3>4, <4>1 DEF EnableService
    <3> QED BY <2>3, <3>2, <3>3, <3>4
  <2>4. ASSUME NEW s \in Services,
               \/ KillService(s) \/ NotPending(s) \/ StopService(s)
               \/ WaitForStatus(s) \/ Recheck(s)
        PROVE  StartedAreNotDisabled'
    <3>1. UNCHANGED <<disabled, statuses>>
      BY <2>4 DEF KillService, NotPending, StopService, WaitForStatus, Recheck
    <3>2. \E to \in {"stopone", "wait", "recheck", "enable"} : Go("worker", to)
      BY <2>4 DEF KillService, NotPending, StopService, WaitForStatus, Recheck
    <3> QED BY <1>1, <1>6, <3>1, <3>2
  <2> QED BY <1>1, <1>10, <1>14, <2>1, <2>2, <2>3, <2>4 DEF StopServices
<1>15. CASE Kill \/ Crash
  BY <1>8, <1>15 DEF Kill, Crash
<1>16. CASE Boot
  BY <1>1, <1>6, <1>16 DEF Boot
<1>17. CASE Describe \/ UNCHANGED vars
  BY <1>3, <1>17 DEF Describe, vars
<1>18. ASSUME NEW r \in Readers, GetServiceGroupState(r)
       PROVE  StartedAreNotDisabled'
  BY <1>3, <1>18 DEF GetServiceGroupState, BeginReport, Enumerate, EndReport
<1>19. ASSUME NEW s \in Services,
              Settle(s) \/ ServiceChanges(s) \/ RemoveService(s) \/ OutsideStart(s)
       PROVE  StartedAreNotDisabled'
  BY <1>3, <1>19 DEF Settle, ServiceChanges, RemoveService, OutsideStart
<1> QED
  BY <1>11, <1>12, <1>13, <1>14, <1>15, <1>16, <1>17, <1>18, <1>19 DEF Next

-----------------------------------------------------------------------------
(* GetServiceGroupState.                                                   *)

(* What the readers know changes only in an enumeration, where the         *)
(* dictionary is written, and with the end of the process.                 *)
LEMMA WhoReads ==
  ASSUME [Next]_vars, ~ProcessEnds
  PROVE  \/ UNCHANGED reader
         \/ \E t \in Threads, s \in Services : AddEntry(t, s) \/ WriteStatus(t, s)
         \/ \E t \in Threads : CountVersion(t)
         \/ \E r \in Readers : GetServiceGroupState(r)
<1> DEFINE Seen == \/ UNCHANGED reader
                   \/ \E t \in Threads, s \in Services :
                        AddEntry(t, s) \/ WriteStatus(t, s)
                   \/ \E t \in Threads : CountVersion(t)
                   \/ \E r \in Readers : GetServiceGroupState(r)
<1> SUFFICES Seen
  OBVIOUS
<1>1. {"timer", "runner", "worker"} \subseteq Threads /\ Starters \subseteq Threads
  BY DEF Threads
<1>2. ASSUME NEW t \in Threads, Run(t) PROVE Seen
  BY <1>2 DEF Run, MonitorServices, SameStatus
<1>3. CASE Timer
  BY <1>1, <1>2, <1>3 DEF Timer, ListServices, EnterRun, LeaveRun
<1>4. ASSUME NEW t \in Starters \cup {"runner"}, AskStart(t) \/ StartServices(t)
      PROVE  Seen
  BY <1>1, <1>2, <1>4
     DEF StartServices, AskStart, EnterStart, ListAgain, StartService, LeaveStart,
         NoSuchService
<1>5. CASE AskStop \/ StopServices
  BY <1>5 DEF AskStop, StopServices, EnterStop, DisableService, RefreshPending,
              KillService, NotPending, StopService, WaitForStatus, Recheck,
              EnableService, LeaveStop, NoSuchService
<1>6. CASE AskHook \/ RunPrescripts \/ Boot \/ Describe \/ UNCHANGED vars
  BY <1>6 DEF AskHook, RunPrescripts, EnterHook, LeaveHook, Boot, Describe, vars
<1>7. ASSUME NEW s \in Services,
             Settle(s) \/ ServiceChanges(s) \/ RemoveService(s) \/ OutsideStart(s)
      PROVE  Seen
  BY <1>7 DEF Settle, ServiceChanges, RemoveService, OutsideStart
<1> QED
  BY <1>1, <1>3, <1>4, <1>5, <1>6, <1>7 DEF Next, Kill, Crash

(* Only the holder of the lock can be about to count the version up.       *)
LEMMA PendingAlone ==
  ASSUME LockInv, NEW t \in Threads, NEW s \in Services, Pending(s),
         thread[t].step \in RunSteps \cup StopSteps \cup {"starting", "script"}
  PROVE  At(t, "written") /\ s \in thread[t].cur
<1>1. PICK u \in Threads : At(u, "written") /\ s \in thread[u].cur
  BY DEF Pending
<1>2. t = u
  BY <1>1, Alone DEF At, RunSteps
<1> QED BY <1>1, <1>2

(* What was visited are services.                                          *)
LEMMA VisitedType ==
  ASSUME TypeOK, NEW r \in Readers
  PROVE  reader[r].visited \subseteq Services /\ reader[r].could \subseteq Answers
BY DEF TypeOK, ReaderStates

(* A step that leaves the dictionary and the readers alone.                *)
LEMMA ReportFrame ==
  ASSUME TypeOK, ReportInv, UNCHANGED <<statuses, reader>>,
         \A s \in Services : Pending(s) => Pending(s)'
  PROVE  ReportInv'
<1>1. Groups(statuses)' = Groups(statuses)
  BY DEF Groups, Entries
<1>2. \A s \in Services : Groups([statuses EXCEPT ![s] = "running"])'
                            = Groups([statuses EXCEPT ![s] = "running"])
  BY DEF Groups, Entries
<1> QED BY <1>1, <1>2, VisitedType DEF ReportInv

(* An entry is added: nobody can have visited it.                          *)
LEMMA ReportAdd ==
  ASSUME TypeOK, LockInv, ReportInv, ReportsWereTrue,
         NEW t \in Threads, NEW s \in Services, AddEntry(t, s)
  PROVE  ReportInv' /\ ReportsWereTrue'
<1>1. \A v \in Services : ~Pending(v)
  BY PendingAlone DEF AddEntry, At, RunSteps
<1>2. statuses' = [statuses EXCEPT ![s] = "blank"] /\ statuses[s] = "none"
  BY DEF AddEntry, Store
<1>3. ASSUME NEW r \in Readers, reader[r].step # "reading"
      PROVE  reader'[r] = reader[r]
  BY <1>3 DEF AddEntry, Store
<1>4. ASSUME NEW r \in Readers, reader[r].step = "reading"
      PROVE  /\ reader'[r].step = "reading"
             /\ reader'[r].visited = reader[r].visited
             /\ Groups(statuses') \subseteq reader'[r].could
             /\ \A v \in reader[r].visited :
                  reader[r].touched \/ statuses'[v] = "running"
             /\ reader'[r].touched = reader[r].touched
  <2>1. reader'[r] = [reader[r] EXCEPT !.could = @ \cup Groups(statuses')]
    BY <1>4 DEF AddEntry, Store
  <2>2. ASSUME NEW v \in reader[r].visited, ~reader[r].touched
        PROVE  v # s /\ statuses[v] = "running"
    <3>1. v \in Services
      BY VisitedType
    <3>2. statuses[v] = "running"
      BY <1>1, <1>4, <2>2, <3>1 DEF ReportInv
    <3> QED BY <1>2, <3>2
  <2> QED BY <1>2, <1>4, <2>1, <2>2, VisitedType DEF TypeOK, ReaderStates
<1> QED
  BY <1>3, <1>4 DEF ReportInv, ReportsWereTrue, Answers, Groups, Entries

(* The status of an entry is written: a new one nobody has visited, and    *)
(* whoever has visited another one knows the answer it was part of.        *)
LEMMA ReportWrite ==
  ASSUME TypeOK, LockInv, WriteInv, ReportInv, ReportsWereTrue,
         NEW t \in Threads, NEW s \in Services, WriteStatus(t, s)
  PROVE  ReportInv' /\ ReportsWereTrue'
<1>1. \A v \in Services : ~Pending(v)
  BY PendingAlone DEF WriteStatus, At, RunSteps
<1>2. statuses' = [statuses EXCEPT ![s] = thread[t].list[s]]
  BY DEF WriteStatus, Store
<1>3. Pending(s)'
  <2>1. /\ [thread[t] EXCEPT !.step = "written", !.cur = {s}].step = "written"
        /\ [thread[t] EXCEPT !.step = "written", !.cur = {s}].cur = {s}
    BY DEF TypeOK, ThreadStates
  <2>2. thread'[t] = [thread[t] EXCEPT !.step = "written", !.cur = {s}]
    BY DEF WriteStatus, Move, TypeOK
  <2> QED BY <2>1, <2>2 DEF Pending, At
<1>4. ASSUME NEW r \in Readers, reader[r].step # "reading"
      PROVE  reader'[r] = reader[r]
  BY <1>4 DEF WriteStatus, Store
<1>5. ASSUME NEW r \in Readers, reader[r].step = "reading"
      PROVE  /\ reader'[r].step = "reading"
             /\ reader'[r].visited = reader[r].visited
             /\ reader'[r].touched = reader[r].touched
             /\ Groups(statuses') \subseteq reader'[r].could
             /\ reader[r].could \subseteq reader'[r].could
  <2>1. reader'[r] = [reader[r] EXCEPT !.could = @ \cup Groups(statuses')]
    BY <1>5 DEF WriteStatus, Store
  <2> QED BY <1>5, <2>1 DEF TypeOK, ReaderStates
<1>6. ASSUME NEW r \in Readers, reader[r].step = "reading", ~reader[r].touched,
             NEW v \in reader[r].visited
      PROVE  \/ statuses'[v] = "running"
             \/ /\ Pending(v)'
                /\ Groups([statuses' EXCEPT ![v] = "running"])
                      \subseteq reader'[r].could
  <2>1. v \in Services
    BY VisitedType
  <2>2. statuses[v] = "running"
    BY <1>1, <1>6, <2>1 DEF ReportInv
  <2>3. CASE v # s
    BY <1>2, <2>2, <2>3
  <2>4. CASE v = s
    <3>1. [statuses' EXCEPT ![v] = "running"] = statuses
      BY <1>2, <2>1, <2>2, <2>4 DEF TypeOK
    <3>2. Groups(statuses) \subseteq reader[r].could
      BY <1>6 DEF ReportInv
    <3> QED BY <1>3, <1>5, <1>6, <2>4, <3>1, <3>2
  <2> QED BY <2>3, <2>4
<1>7. ReportsWereTrue'
  BY <1>4, <1>5 DEF ReportsWereTrue, Answers
<1>8. ReportInv'
  BY <1>4, <1>5, <1>6 DEF ReportInv, Groups, Entries
<1> QED BY <1>7, <1>8

(* Counting the version up ends every enumeration that is under way.       *)
LEMMA ReportCount ==
  ASSUME TypeOK, ReportInv, ReportsWereTrue, NEW t \in Threads, CountVersion(t)
  PROVE  ReportInv' /\ ReportsWereTrue'
<1>1. ASSUME NEW r \in Readers, reader[r].step = "reading"
      PROVE  /\ reader'[r].step = "reading"
             /\ reader'[r].touched
             /\ reader'[r].could = reader[r].could
  <2>1. reader'[r] = [reader[r] EXCEPT !.touched = TRUE]
    BY <1>1 DEF CountVersion
  <2> QED BY <1>1, <2>1 DEF TypeOK, ReaderStates
<1>2. ASSUME NEW r \in Readers, reader[r].step # "reading"
      PROVE  reader'[r] = reader[r]
  BY <1>2 DEF CountVersion
<1>3. Groups(statuses)' = Groups(statuses)
  BY DEF Groups, Entries, CountVersion, memory
<1> QED BY <1>1, <1>2, <1>3 DEF ReportInv, ReportsWereTrue, Answers

(* Whoever has visited every entry: all of them were running, the one that *)
(* is just being written before it was.                                    *)
LEMMA ReportRunning ==
  ASSUME LockInv, WriteInv, ReportInv, TypeOK, NEW r \in Readers,
         reader[r].step = "reading", ~reader[r].touched,
         Entries(statuses) \subseteq reader[r].visited
  PROVE  "running" \in reader[r].could
<1>1. Groups(statuses) \subseteq reader[r].could
  BY DEF ReportInv
<1>2. CASE \A s \in Entries(statuses) : statuses[s] = "running"
  BY <1>1, <1>2 DEF Groups, Answers
<1>3. ASSUME NEW s \in Entries(statuses), statuses[s] # "running"
      PROVE  "running" \in reader[r].could
  <2>1. s \in Services /\ s \in reader[r].visited
    BY <1>3 DEF Entries
  <2>2. /\ Pending(s)
        /\ Groups([statuses EXCEPT ![s] = "running"]) \subseteq reader[r].could
    BY <1>3, <2>1 DEF ReportInv
  <2>3. PICK t \in Threads : At(t, "written") /\ s \in thread[t].cur
    BY <2>2 DEF Pending
  <2>4. ASSUME NEW v \in Entries(statuses), v # s PROVE statuses[v] = "running"
    <3>1. v \in Services /\ v \in reader[r].visited
      BY <2>4 DEF Entries
    <3>2. ~Pending(v)
      BY <2>3, <2>4, <3>1, PendingAlone DEF WriteInv, At, RunSteps
    <3> QED BY <3>1, <3>2 DEF ReportInv
  <2>5. \A v \in Entries([statuses EXCEPT ![s] = "running"]) :
          [statuses EXCEPT ![s] = "running"][v] = "running"
    BY <2>1, <2>4 DEF Entries, TypeOK
  <2>6. "running" \in Groups([statuses EXCEPT ![s] = "running"])
    BY <2>5 DEF Groups, Answers
  <2> QED BY <2>2, <2>6
<1> QED BY <1>2, <1>3

(* A step of the enumeration itself.                                       *)
LEMMA ReportOwnStep ==
  ASSUME TypeOK, LockInv, WriteInv, ReportInv, ReportsWereTrue,
         NEW r \in Readers, GetServiceGroupState(r)
  PROVE  ReportInv' /\ ReportsWereTrue'
<1>1. UNCHANGED <<statuses, thread>>
  BY DEF GetServiceGroupState, BeginReport, Enumerate, EndReport, memory
<1>2. /\ Groups(statuses)' = Groups(statuses)
      /\ \A s \in Services : Groups([statuses EXCEPT ![s] = "running"])'
                               = Groups([statuses EXCEPT ![s] = "running"])
      /\ \A s \in Services : Pending(s)' = Pending(s)
  BY <1>1 DEF Groups, Entries, Pending, At
<1>3. \A q \in Readers \ {r} : reader'[q] = reader[q]
  BY DEF GetServiceGroupState, BeginReport, Enumerate, NextEntry, Answer, Visit,
         EndReport, TypeOK
<1>4. reader[r] \in ReaderStates
  BY DEF TypeOK
<1>5. ASSUME NEW new, reader' = [reader EXCEPT ![r] = new],
             new.step = "reading" =>
               /\ Groups(statuses) \subseteq new.could
               /\ ~new.touched =>
                    \A s \in new.visited :
                      \/ statuses[s] = "running"
                      \/ /\ s \in Services
                         /\ Pending(s)
                         /\ Groups([statuses EXCEPT ![s] = "running"])
                               \subseteq new.could,
             new.step \in Answers => new.step \in new.could
      PROVE  ReportInv' /\ ReportsWereTrue'
  <2>1. reader'[r] = new
    BY <1>5 DEF TypeOK
  <2>2. ReportsWereTrue'
    BY <1>3, <1>5, <2>1 DEF ReportsWereTrue
  <2>3. ReportInv'
    <3> SUFFICES ASSUME NEW q \in Readers, reader'[q].step = "reading"
                 PROVE  /\ Groups(statuses)' \subseteq reader'[q].could
                        /\ ~reader'[q].touched =>
                             \A s \in reader'[q].visited :
                               \/ statuses'[s] = "running"
                               \/ /\ Pending(s)'
                                  /\ Groups([statuses EXCEPT ![s] = "running"])'
                                        \subseteq reader'[q].could
      BY DEF ReportInv
    <3>1. CASE q = r
      BY <1>1, <1>2, <1>5, <2>1, <3>1
    <3>2. CASE q # r
      BY <1>1, <1>2, <1>3, <3>2, VisitedType DEF ReportInv
    <3> QED BY <3>1, <3>2
  <2> QED BY <2>2, <2>3
<1>6. CASE BeginReport(r)
  <2> DEFINE new == [IdleReader EXCEPT !.step = "reading",
                                       !.could = Groups(statuses)]
  <2>1. /\ new.step = "reading" /\ new.could = Groups(statuses)
        /\ new.visited = {}
    BY DEF IdleReader
  <2>2. reader' = [reader EXCEPT ![r] = new]
    BY <1>6 DEF BeginReport
  <2> HIDE DEF new
  <2> QED BY <1>5, <2>1, <2>2 DEF Answers
<1>7. CASE EndReport(r)
  BY <1>5, <1>7 DEF EndReport, IdleReader, Answers
<1>8. ASSUME reader[r].step = "reading", NEW a, a # "reading", Answer(r, a),
             a \in Answers => a \in reader[r].could
      PROVE  ReportInv' /\ ReportsWereTrue'
  <2> DEFINE new == [reader[r] EXCEPT !.step = a]
  <2>1. new.step = a /\ new.could = reader[r].could
    BY <1>4 DEF ReaderStates
  <2>2. reader' = [reader EXCEPT ![r] = new]
    BY <1>8 DEF Answer
  <2> HIDE DEF new
  <2> QED BY <1>5, <1>8, <2>1, <2>2
<1>9. CASE Enumerate(r)
  <2>1. /\ reader[r].step = "reading"
        /\ Groups(statuses) \subseteq reader[r].could
    BY <1>9 DEF Enumerate, ReportInv
  <2>2. CASE reader[r].touched /\ Answer(r, "threw")
    BY <1>8, <2>1, <2>2 DEF Answers
  <2>3. CASE ~reader[r].touched /\ Entries(statuses) \subseteq reader[r].visited
             /\ Answer(r, "running")
    BY <1>8, <2>1, <2>3, ReportRunning
  <2>4. ASSUME NEW s \in Entries(statuses), statuses[s] = "starting",
               Answer(r, "starting")
        PROVE  ReportInv' /\ ReportsWereTrue'
    BY <1>8, <2>1, <2>4 DEF Groups, Answers
  <2>5. ASSUME NEW s \in Entries(statuses),
               statuses[s] \notin {"running", "starting"}, Answer(r, "failing")
        PROVE  ReportInv' /\ ReportsWereTrue'
    BY <1>8, <2>1, <2>5 DEF Groups, Answers
  <2>6. ASSUME NEW s \in Entries(statuses), statuses[s] = "running", Visit(r, s),
               ~reader[r].touched
        PROVE  ReportInv' /\ ReportsWereTrue'
    <3> DEFINE new == [reader[r] EXCEPT !.visited = @ \cup {s}]
    <3>1. /\ new.step = "reading" /\ new.could = reader[r].could
          /\ new.visited = reader[r].visited \cup {s}
      BY <1>4, <2>1 DEF ReaderStates
    <3>2. reader' = [reader EXCEPT ![r] = new]
      BY <2>6 DEF Visit
    <3>3. \A v \in reader[r].visited :
            \/ statuses[v] = "running"
            \/ /\ v \in Services
               /\ Pending(v)
               /\ Groups([statuses EXCEPT ![v] = "running"])
                     \subseteq reader[r].could
      BY <2>1, <2>6, VisitedType DEF ReportInv
    <3> HIDE DEF new
    <3> QED BY <1>5, <2>1, <2>6, <3>1, <3>2, <3>3 DEF Answers
  <2> QED BY <1>9, <2>2, <2>3, <2>4, <2>5, <2>6 DEF Enumerate, NextEntry
<1> QED BY <1>6, <1>7, <1>9 DEF GetServiceGroupState

(* Every step keeps the answers true.                                      *)
LEMMA ReportStep ==
  /\ TypeOK /\ LockInv /\ DownInv /\ WriteInv /\ ReportInv /\ ReportsWereTrue
  /\ [Next]_vars
  => ReportInv' /\ ReportsWereTrue'
<1> SUFFICES ASSUME TypeOK, LockInv, DownInv, WriteInv, ReportInv, ReportsWereTrue,
                    [Next]_vars
             PROVE  ReportInv' /\ ReportsWereTrue'
  OBVIOUS
<1>1. CASE ProcessEnds
  BY <1>1 DEF ProcessEnds, IdleReader, ReportInv, ReportsWereTrue, Answers
<1>2. ASSUME NEW t \in Threads, NEW s \in Services, AddEntry(t, s) \/ WriteStatus(t, s)
      PROVE  ReportInv' /\ ReportsWereTrue'
  BY <1>2, ReportAdd, ReportWrite
<1>3. ASSUME NEW t \in Threads, CountVersion(t)
      PROVE  ReportInv' /\ ReportsWereTrue'
  BY <1>3, ReportCount
<1>4. ASSUME NEW r \in Readers, GetServiceGroupState(r)
      PROVE  ReportInv' /\ ReportsWereTrue'
  BY <1>4, ReportOwnStep
<1>5. CASE /\ ~ProcessEnds
           /\ UNCHANGED <<statuses, reader>>
           /\ \A t \in Threads : ~CountVersion(t)
           /\ \A t \in Threads, s \in Services : ~AddEntry(t, s) /\ ~WriteStatus(t, s)
  <2>1. \A t \in Threads : At(t, "written") => thread'[t] = thread[t]
    <3>1. CASE \E u \in Threads : Run(u)
      <4>1. PICK u \in Threads : Run(u)
        BY <3>1
      <4>2. thread[u].step \in {"jobs", "recording"}
        BY <1>5, <4>1 DEF Run, MonitorServices, SameStatus, At
      <4> QED BY <4>2, Alone DEF At, RunSteps
    <3>2. CASE \A u \in Threads : ~Run(u)
      BY <1>5, <3>2, WhoMoves DEF Move, TypeOK, At
    <3> QED BY <3>1, <3>2
  <2>2. \A s \in Services : Pending(s) => Pending(s)'
    BY <2>1 DEF Pending, At
  <2>3. ReportInv'
    BY <1>5, <2>2, ReportFrame
  <2>4. ReportsWereTrue'
    BY <1>5 DEF ReportsWereTrue
  <2> QED BY <2>3, <2>4
<1> QED BY <1>1, <1>2, <1>3, <1>4, <1>5, WhoReads, WhoWrites

-----------------------------------------------------------------------------
(* The theorems.                                                           *)

(* The initial states.                                                     *)
LEMMA MonitInit == Init => MonitInv
<1> SUFFICES ASSUME Init PROVE MonitInv
  OBVIOUS
<1>1. TypeOK
  BY IdleTypes, MonitAssumption DEF Init, TypeOK, Status
<1>2. LockInv /\ DownInv /\ WriteInv /\ StopInv
  BY DEF Init, LockInv, DownInv, WriteInv, StopInv, At, IdleThread, RunSteps,
         StopSteps, Threads
<1>3. HandledStayStopped /\ StartedAreNotDisabled /\ ReportInv /\ ReportsWereTrue
  BY DEF Init, Stopping, HandledStayStopped, StartedAreNotDisabled, ReportInv,
         ReportsWereTrue, At, IdleThread, IdleReader, StopSteps, Answers, Threads
<1> QED BY <1>1, <1>2, <1>3 DEF MonitInv

(* The lock, the steps of its holder, the service being stopped and the    *)
(* enumerations that are under way stay in the relation described in Monit.*)
THEOREM MonitInvariant == Spec => []MonitInv
<1>1. MonitInv /\ [Next]_vars => MonitInv'
  BY TypeStep, LockStep, DownStep, WriteStep, StopStep, StartedStep, ReportStep
     DEF MonitInv
<1> QED BY <1>1, MonitInit, PTL DEF Spec

(* The variables of service control keep their types.                      *)
THEOREM MonitTypes == Spec => []TypeOK
<1>1. MonitInv => TypeOK
  BY DEF MonitInv
<1> QED BY <1>1, MonitInvariant, PTL

(* Of the services StopServices has handled, each one is down until it     *)
(* lets go of the lock, but for those whose failure it logged and those    *)
(* somebody outside the agent has started or removed.                      *)
THEOREM StoppedUntilReleased == Spec => []HandledStayStopped
<1>1. MonitInv => HandledStayStopped
  BY DEF MonitInv
<1> QED BY <1>1, MonitInvariant, PTL

(* No service StartServices has handled is disabled while it is at work,   *)
(* whatever an earlier process has left behind.                            *)
THEOREM StartableWhenStarted == Spec => []StartedAreNotDisabled
<1>1. MonitInv => StartedAreNotDisabled
  BY DEF MonitInv
<1> QED BY <1>1, MonitInvariant, PTL

(* Every answer of GetServiceGroupState was the state of the dictionary at *)
(* some time while it ran, although it takes no lock.                      *)
THEOREM ReportsAreTrue == Spec => []ReportsWereTrue
<1>1. MonitInv => ReportsWereTrue
  BY DEF MonitInv
<1> QED BY <1>1, MonitInvariant, PTL

-----------------------------------------------------------------------------
(* NatsStartup.                                                            *)

(* The first state: nothing runs but the first work item, nothing is open. *)
LEMMA StartupInitInv == StartupInit => StartupInv
<1> USE NatsStartupAssumption DEF Calls
<1> SUFFICES ASSUME StartupInit PROVE StartupInv
  OBVIOUS
<1>1. step \in [Calls -> StartupSteps]
  BY DEF StartupInit, StartupSteps
<1>2. /\ retries \in [Calls -> 0..MaxRetries]
      /\ conn \in [Calls -> {"none", "open", "closed"}]
      /\ connected \in [Calls -> BOOLEAN]
  BY DEF StartupInit
<1>3. /\ nats \in 0..MaxStarts
      /\ configNats \in 0..MaxStarts
      /\ failCount \in Nat
      /\ subscribed \in SUBSET (Calls \X Calls)
  BY DEF StartupInit
<1>4. StartupTypeOK
  BY <1>1, <1>2, <1>3 DEF StartupInit, StartupTypeOK
<1>5. ChainOfCalls /\ ReactorInv
  BY DEF StartupInit, ChainOfCalls, ReactorInv
<1> QED BY <1>4, <1>5 DEF StartupInv

(* Every step keeps the types; that NatsOnConnect finds a reactor in       *)
(* this.Nats needs the chain of calls.                                     *)
LEMMA StartupTypeStep == StartupInv /\ [StartupNext]_startupVars => StartupTypeOK'
<1> USE NatsStartupAssumption DEF Calls
<1> SUFFICES ASSUME StartupTypeOK, ReactorInv, [StartupNext]_startupVars PROVE StartupTypeOK'
  BY DEF StartupInv
<1> USE DEF StartupTypeOK, StartupSteps, GoOn, network
<1>1. ASSUME NEW c \in Calls, WorkItem(c) PROVE StartupTypeOK'
  <2>1. CASE Begin(c) BY <1>1, <2>1 DEF Begin
  <2>2. CASE StartNats(c) BY <1>1, <2>2 DEF StartNats
  <2>3. CASE Nap(c) BY <1>1, <2>3 DEF Nap
  <2>4. CASE Enable(c) BY <1>1, <2>4 DEF Enable
  <2>5. CASE CountFailure(c) BY <1>1, <2>5 DEF CountFailure
  <2>6. CASE Retry(c) BY <1>1, <2>6 DEF Retry
  <2>7. CASE FailFast(c) BY <1>1, <2>7 DEF FailFast
  <2> QED BY <1>1, <2>1, <2>2, <2>3, <2>4, <2>5, <2>6, <2>7 DEF WorkItem
<1>2. ASSUME NEW c \in Calls, NatsOnConnect(c) PROVE StartupTypeOK'
  <2>1. nats \in Calls
    BY <1>2 DEF NatsOnConnect, ReactorInv
  <2> QED BY <1>2, <2>1 DEF NatsOnConnect
<1>3. ASSUME NEW c \in Calls, NatsOnError(c) \/ Reconnect(c) PROVE StartupTypeOK'
  BY <1>3 DEF NatsOnError, Reconnect
<1>4. CASE BusGoes \/ BusReturns BY <1>4 DEF BusGoes, BusReturns
<1>5. CASE UNCHANGED startupVars BY <1>5 DEF startupVars
<1> QED BY <1>1, <1>2, <1>3, <1>4, <1>5 DEF StartupNext

(* Every step keeps the chain: a call of StartHandler is made only by the  *)
(* last one there is, and that one then fails.                             *)
LEMMA ChainStep == StartupInv /\ [StartupNext]_startupVars => ChainOfCalls'
<1> USE NatsStartupAssumption DEF Calls
<1> SUFFICES ASSUME StartupTypeOK, ChainOfCalls, ReactorInv, [StartupNext]_startupVars
             PROVE  ChainOfCalls'
  BY DEF StartupInv
<1> USE DEF StartupTypeOK, GoOn, network, ChainOfCalls
<1>1. ASSUME NEW c \in Calls, WorkItem(c) PROVE ChainOfCalls'
  <2>1. CASE Begin(c) BY <1>1, <2>1 DEF Begin
  <2>2. CASE StartNats(c) BY <1>1, <2>2 DEF StartNats
  <2>3. CASE Nap(c) BY <1>1, <2>3 DEF Nap
  <2>4. CASE Enable(c)
    <3>1. PICK s \in {"done", "caught"} : step' = [step EXCEPT ![c] = s]
      BY <2>4 DEF Enable
    <3>2. UNCHANGED nats
      BY <2>4 DEF Enable
    <3> QED BY <2>4, <3>1, <3>2 DEF Enable
  <2>5. CASE CountFailure(c) BY <1>1, <2>5 DEF CountFailure
  <2>6. CASE Retry(c)
    <3>1. step[c] = "retrying" /\ UNCHANGED nats
      BY <2>6 DEF Retry
    <3>2. \A d \in Calls : d > c => step[d] = "none"
      BY <3>1
    <3>3. CASE /\ c < MaxStarts
               /\ step' = [step EXCEPT ![c] = "failing", ![c + 1] = "queued"]
      BY <3>1, <3>2, <3>3
    <3>4. CASE step' = [step EXCEPT ![c] = "failing"]
      BY <3>1, <3>4
    <3> QED BY <2>6, <3>3, <3>4 DEF Retry
  <2>7. CASE FailFast(c) BY <1>1, <2>7 DEF FailFast
  <2> QED BY <1>1, <2>1, <2>2, <2>3, <2>4, <2>5, <2>6, <2>7 DEF WorkItem
<1>2. ASSUME NEW c \in Calls, NatsOnConnect(c) PROVE ChainOfCalls'
  BY <1>2 DEF NatsOnConnect
<1>3. ASSUME NEW c \in Calls, NatsOnError(c) \/ Reconnect(c) PROVE ChainOfCalls'
  BY <1>3 DEF NatsOnError, Reconnect
<1>4. CASE BusGoes \/ BusReturns BY <1>4 DEF BusGoes, BusReturns
<1>5. CASE UNCHANGED startupVars BY <1>5 DEF startupVars
<1> QED BY <1>1, <1>2, <1>3, <1>4, <1>5 DEF StartupNext

(* Every step keeps what is known of the reactors.                         *)
LEMMA ReactorStep == StartupInv /\ [StartupNext]_startupVars => ReactorInv'
<1> USE NatsStartupAssumption DEF Calls
<1> SUFFICES ASSUME StartupTypeOK, ChainOfCalls, ReactorInv, [StartupNext]_startupVars
             PROVE  ReactorInv'
  BY DEF StartupInv
<1> USE DEF StartupTypeOK, GoOn, network, ChainOfCalls, ReactorInv
<1>1. ASSUME NEW c \in Calls, WorkItem(c) PROVE ReactorInv'
  <2>1. CASE Begin(c) BY <1>1, <2>1 DEF Begin
  <2>2. CASE StartNats(c) BY <1>1, <2>2 DEF StartNats
  <2>3. CASE Nap(c) BY <1>1, <2>3 DEF Nap
  <2>4. CASE Enable(c) BY <1>1, <2>4 DEF Enable
  <2>5. CASE CountFailure(c) BY <1>1, <2>5 DEF CountFailure
  <2>6. CASE Retry(c) BY <1>1, <2>6 DEF Retry
  <2>7. CASE FailFast(c) BY <1>1, <2>7 DEF FailFast
  <2> QED BY <1>1, <2>1, <2>2, <2>3, <2>4, <2>5, <2>6, <2>7 DEF WorkItem
<1>2. ASSUME NEW c \in Calls, NatsOnConnect(c) PROVE ReactorInv'
  <2>1. /\ conn[c] = "open" /\ ~connected[c]
        /\ connected' = [connected EXCEPT ![c] = TRUE]
        /\ UNCHANGED <<step, conn, nats>>
    BY <1>2 DEF NatsOnConnect
  <2>2. subscribed' \in {subscribed, subscribed \cup {<<c, nats>>}}
    BY <1>2 DEF NatsOnConnect
  <2>3. \A p \in subscribed : p[1] \in Calls /\ p[1] # c
    BY <2>1
  <2>4. \A p \in subscribed' : connected'[p[1]]
    BY <2>1, <2>2, <2>3
  <2>5. ASSUME NEW p \in subscribed', NEW q \in subscribed', p[1] = q[1]
        PROVE  p = q
    <3>1. CASE p \in subscribed /\ q \in subscribed
      BY <2>5, <3>1
    <3>2. CASE p = <<c, nats>> /\ q \in subscribed
      BY <2>3, <2>5, <3>2
    <3>3. CASE q = <<c, nats>> /\ p \in subscribed
      BY <2>3, <2>5, <3>3
    <3> QED BY <2>2, <2>5, <3>1, <3>2, <3>3
  <2> QED BY <2>1, <2>4, <2>5
<1>3. ASSUME NEW c \in Calls, NatsOnError(c) \/ Reconnect(c) PROVE ReactorInv'
  BY <1>3 DEF NatsOnError, Reconnect
<1>4. CASE BusGoes \/ BusReturns BY <1>4 DEF BusGoes, BusReturns
<1>5. CASE UNCHANGED startupVars BY <1>5 DEF startupVars
<1> QED BY <1>1, <1>2, <1>3, <1>4, <1>5 DEF StartupNext

(* In every reachable state the calls of StartHandler form a chain in      *)
(* which all but the last are about to end the process, this.Nats is the   *)
(* reactor of a call that has begun, and no reactor subscribes twice.      *)
THEOREM StartupInvariant == StartupSpec => []StartupInv
<1>1. StartupInv /\ [StartupNext]_startupVars => StartupInv'
  BY StartupTypeStep, ChainStep, ReactorStep DEF StartupInv
<1> QED BY StartupInitInv, <1>1, PTL DEF StartupSpec

(* Requests are handled once: NatsOnConnect and Retry leave two            *)
(* subscriptions only in a process that is ending.                         *)
THEOREM SingleListener == StartupSpec => []OneListener
<1>1. StartupInv => OneListener
  <2> USE NatsStartupAssumption DEF Calls
  <2> SUFFICES ASSUME StartupInv, NEW p \in subscribed, NEW q \in subscribed,
                      p # q
               PROVE  \E c \in Calls : step[c] = "failing"
    BY DEF OneListener
  <2>1. /\ p[1] \in Calls /\ q[1] \in Calls
        /\ p[1] # q[1]
    BY DEF StartupInv, StartupTypeOK, ReactorInv
  <2>2. step[p[1]] # "none" /\ step[q[1]] # "none"
    BY <2>1 DEF StartupInv, StartupTypeOK, ReactorInv
  <2>3. CASE p[1] < q[1]
    BY <2>1, <2>2, <2>3 DEF StartupInv, ChainOfCalls
  <2>4. CASE q[1] < p[1]
    BY <2>1, <2>2, <2>4 DEF StartupInv, ChainOfCalls
  <2> QED BY <2>1, <2>3, <2>4
<1> QED BY StartupInvariant, <1>1, PTL
=============================================================================
