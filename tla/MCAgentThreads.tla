--------------------------- MODULE MCAgentThreads ---------------------------
(* The threads of Monit and the calls of StartHandler, under fair          *)
(* scheduling.  They share nothing: a behaviour is one of either.          *)
EXTENDS Monit, NatsStartup

VARIABLE part

threadsVars == <<part, vars, startupVars>>

ThreadsInit ==
  /\ part \in {"monit", "startup"}
  /\ Init /\ StartupInit
  /\ part = "startup" => described = {} /\ real = [s \in Services |-> "absent"]
  /\ part = "monit" => ~bus

ThreadsNext ==
  \/ part = "monit" /\ Next /\ UNCHANGED <<part, startupVars>>
  \/ part = "startup" /\ StartupNext /\ UNCHANGED <<part, vars>>

Monits(A) == part = "monit" /\ A /\ UNCHANGED <<part, startupVars>>

\* As FairSpec and StartupFairSpec.
ThreadsSpec ==
  /\ ThreadsInit /\ [][ThreadsNext]_threadsVars
  /\ WF_threadsVars(Monits(Timer))
  /\ WF_threadsVars(Monits(StopServices \/ RunPrescripts))
  /\ \A t \in Starters \cup {"runner"} : WF_threadsVars(Monits(StartServices(t)))
  /\ \A t \in Threads : SF_threadsVars(Monits(Enter(t)))
  /\ WF_threadsVars(Monits(Kill))
  /\ \A c \in Calls : WF_threadsVars(part = "startup" /\ WorkItem(c) /\ UNCHANGED <<part, vars>>)

\* The first call of StartHandler and those that follow come to an end, with
\* the timer of the heartbeat started or the process exited (Handler.cs).
CallsSettle == [](part # "startup") \/ StartupSettles
=============================================================================
