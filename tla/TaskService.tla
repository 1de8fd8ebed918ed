----------------------------- MODULE TaskService -----------------------------
(***************************************************************************)
(* What the agent promises the director about long running tasks, with no  *)
(* threads, locks or collections: a task is absent, running or finished,   *)
(* at most one runs, a poll is answered with the status the task had at    *)
(* one instant between the question and the answer, and everything is      *)
(* forgotten when the agent process ends.                                  *)
(***************************************************************************)
CONSTANTS
  Tasks,      \* ids a task may get
  NoTask      \* the value of asked when no poll is being answered; no task

VARIABLES
  status,     \* status[t]: what the agent knows of task t
  asked,      \* the task a poll asks about, or NoTask
  seen        \* the status found for that poll: "undecided" until it is read

vars == <<status, asked, seen>>

Statuses == {"absent", "running", "finished"}

Init ==
  /\ status = [t \in Tasks |-> "absent"]
  /\ asked = NoTask
  /\ seen = "undecided"

(* A task starts only when no other task runs, and runs at most once.      *)
Start(t) ==
  /\ \A u \in Tasks : status[u] # "running"
  /\ status[t] = "absent"
  /\ status' = [status EXCEPT ![t] = "running"]
  /\ UNCHANGED <<asked, seen>>

Finish(t) ==
  /\ status[t] = "running"
  /\ status' = [status EXCEPT ![t] = "finished"]
  /\ UNCHANGED <<asked, seen>>

(* One poll is served at a time.                                           *)
Ask(t) ==
  /\ asked = NoTask
  /\ asked' = t
  /\ UNCHANGED <<status, seen>>

(* The instant at which the answer is decided.                             *)
Decide ==
  /\ asked # NoTask
  /\ seen = "undecided"
  /\ seen' = status[asked]
  /\ UNCHANGED <<status, asked>>

(* The answer leaves, or is given up: the director may get no answer, never *)
(* a wrong one.                                                            *)
Answer ==
  /\ asked # NoTask
  /\ asked' = NoTask
  /\ seen' = "undecided"
  /\ UNCHANGED status

(* The process ends: statuses and the poll in progress are gone.           *)
Forget ==
  /\ status' = [t \in Tasks |-> "absent"]
  /\ asked' = NoTask
  /\ seen' = "undecided"

Next ==
  \/ \E t \in Tasks : Start(t) \/ Finish(t) \/ Ask(t)
  \/ Decide
  \/ Answer
  \/ Forget

Spec == Init /\ [][Next]_vars
=============================================================================
