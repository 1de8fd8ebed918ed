----------------------------- MODULE NatsStartup -----------------------------
(***************************************************************************)
(* How the agent gets onto the bus (Handler.StartHandler, NatsOnConnect,   *)
(* Retry and HeartbeatProcessor.Enable): a work item of the pool tries to  *)
(* start a reactor a few times, enables the heartbeat timer, and on a      *)
(* failure counts it, queues another such work item and exits.  The        *)
(* reactor, a library, connects, raises OnConnect on a thread of its own,  *)
(* loses the connection and may get it back.                               *)
(*                                                                         *)
(* Calls of StartHandler are numbered; this.Nats, Config.Nats and the      *)
(* reactors are named by the call that created them.                       *)
(***************************************************************************)
EXTENDS Naturals

CONSTANTS
  MaxRetries,  \* MAX_NATS_RETRIES
  MaxStarts    \* bound: calls of StartHandler in the life of the process

ASSUME NatsStartupAssumption ==
  /\ MaxRetries \in Nat \ {0}
  /\ MaxStarts \in Nat \ {0}

VARIABLES
  bus,          \* the bus can be reached
  exited,       \* Environment.FailFast has ended the process
  step,         \* what the work item of each call of StartHandler is doing
  retries,      \* its local variable
  conn,         \* the connection of its reactor
  connected,    \* its reactor has raised OnConnect
  nats,         \* this.Nats: the call whose reactor it is, or 0
  configNats,   \* Config.Nats, likewise
  subscribed,   \* <<call whose OnConnect subscribed, reactor it did so on>>
  failCount,    \* NatsFailCount
  timer         \* the heartbeat timer runs

startupVars == <<bus, exited, step, retries, conn, connected, nats, configNats,
          subscribed, failCount, timer>>

Calls == 1..MaxStarts
StartupSteps == {"none", "queued", "starting", "napping", "enabling", "caught",
          "retrying", "failing", "done"}

StartupTypeOK ==
  /\ bus \in BOOLEAN
  /\ exited \in BOOLEAN
  /\ step \in [Calls -> StartupSteps]
  /\ retries \in [Calls -> 0..MaxRetries]
  /\ conn \in [Calls -> {"none", "open", "closed"}]
  /\ connected \in [Calls -> BOOLEAN]
  /\ nats \in 0..MaxStarts
  /\ configNats \in 0..MaxStarts
  /\ subscribed \in SUBSET (Calls \X Calls)
  /\ failCount \in Nat
  /\ timer \in BOOLEAN

StartupInit ==
  /\ bus \in BOOLEAN
  /\ exited = FALSE
  /\ step = [c \in Calls |-> IF c = 1 THEN "queued" ELSE "none"]
  /\ retries = [c \in Calls |-> 0]
  /\ conn = [c \in Calls |-> "none"]
  /\ connected = [c \in Calls |-> FALSE]
  /\ nats = 0
  /\ configNats = 0
  /\ subscribed = {}
  /\ failCount = 0
  /\ timer = FALSE

GoOn(c, s) == step' = [step EXCEPT ![c] = s]

network == <<bus, conn, connected, subscribed>>

-----------------------------------------------------------------------------
(* The work item of StartHandler.                                          *)

(* It creates its first reactor.                                           *)
Begin(c) ==
  /\ step[c] = "queued"
  /\ GoOn(c, "starting")
  /\ retries' = [retries EXCEPT ![c] = MaxRetries]
  /\ nats' = c
  /\ UNCHANGED <<exited, network, configNats, failCount, timer>>

(* this.Nats.Start connects, or throws when the bus cannot be reached.     *)
StartNats(c) ==
  /\ step[c] = "starting"
  /\ IF bus
     THEN /\ conn' = [conn EXCEPT ![c] = "open"]
          /\ configNats' = nats
          /\ GoOn(c, "enabling")
     ELSE /\ GoOn(c, "napping")
          /\ UNCHANGED <<conn, configNats>>
  /\ UNCHANGED <<bus, connected, subscribed, exited, retries, nats, failCount,
                 timer>>

(* Variant: the loop does not count.                                       *)
NapUncounted(c) ==
  /\ step[c] = "napping"
  /\ GoOn(c, "starting")
  /\ nats' = c
  /\ UNCHANGED <<exited, network, retries, configNats, failCount, timer>>

(* After the sleep: while (retries-- > 0), with a new reactor, or on to    *)
(* the heartbeat although none could be started.                           *)
Nap(c) ==
  /\ step[c] = "napping"
  /\ IF retries[c] > 0
     THEN /\ GoOn(c, "starting")
          /\ retries' = [retries EXCEPT ![c] = @ - 1]
          /\ nats' = c
     ELSE /\ GoOn(c, "enabling")
          /\ UNCHANGED <<retries, nats>>
  /\ UNCHANGED <<exited, network, configNats, failCount, timer>>

(* HeartbeatProcessor.Enable throws if Config.Nats is null or not open.    *)
Enable(c) ==
  /\ step[c] = "enabling"
  /\ IF configNats # 0 /\ conn[configNats] = "open"
     THEN GoOn(c, "done") /\ timer' = TRUE
     ELSE GoOn(c, "caught") /\ UNCHANGED timer
  /\ UNCHANGED <<exited, network, retries, nats, configNats, failCount>>

(* The catch block counts the failure and sleeps.                          *)
CountFailure(c) ==
  /\ step[c] = "caught"
  /\ failCount' = failCount + 1
  /\ GoOn(c, "retrying")
  /\ UNCHANGED <<exited, network, retries, nats, configNats, timer>>

(* Variant: the work item that has queued another one returns.             *)
RetryAndReturn(c) ==
  /\ step[c] = "retrying"
  /\ IF failCount < MaxRetries /\ c < MaxStarts
     THEN step' = [step EXCEPT ![c] = "done", ![c + 1] = "queued"]
     ELSE GoOn(c, "failing")
  /\ UNCHANGED <<exited, network, retries, nats, configNats, failCount, timer>>

(* NatsFailCount < MAX_NATS_RETRIES: StartHandler is called again; either  *)
(* way the next statement is the FailFast.                                 *)
Retry(c) ==
  /\ step[c] = "retrying"
  /\ IF failCount < MaxRetries /\ c < MaxStarts
     THEN step' = [step EXCEPT ![c] = "failing", ![c + 1] = "queued"]
     ELSE GoOn(c, "failing")
  /\ UNCHANGED <<exited, network, retries, nats, configNats, failCount, timer>>

FailFast(c) ==
  /\ step[c] = "failing"
  /\ exited' = TRUE
  /\ UNCHANGED <<network, step, retries, nats, configNats, failCount, timer>>

WorkItem(c) ==
  /\ ~exited
  /\ \/ Begin(c) \/ StartNats(c) \/ Nap(c) \/ Enable(c) \/ CountFailure(c)
     \/ Retry(c) \/ FailFast(c)

-----------------------------------------------------------------------------
(* The reactors and the bus.                                               *)

(* NatsOnConnect subscribes on this.Nats, whatever reactor raised the      *)
(* event; a failure is only counted.                                       *)
NatsOnConnect(c) ==
  /\ ~exited
  /\ conn[c] = "open"
  /\ ~connected[c]
  /\ connected' = [connected EXCEPT ![c] = TRUE]
  /\ IF conn[nats] = "open"
     THEN /\ subscribed' = subscribed \cup {<<c, nats>>}
          /\ failCount' = 0
     ELSE /\ failCount' = failCount + 1
          /\ UNCHANGED subscribed
  /\ UNCHANGED <<bus, exited, step, retries, conn, nats, configNats, timer>>

(* Nats_OnError throws on the thread of the reactor: unless the library    *)
(* catches it, that is the end of the process.                             *)
NatsOnError(c) ==
  /\ ~exited
  /\ conn[c] = "closed"
  /\ exited' = TRUE
  /\ UNCHANGED <<network, step, retries, nats, configNats, failCount, timer>>

(* The bus goes away, and with it every connection.                        *)
BusGoes ==
  /\ bus
  /\ bus' = FALSE
  /\ conn' = [c \in Calls |-> IF conn[c] = "open" THEN "closed" ELSE conn[c]]
  /\ UNCHANGED <<exited, step, retries, connected, nats, configNats,
                 subscribed, failCount, timer>>

BusReturns ==
  /\ ~bus
  /\ bus' = TRUE
  /\ UNCHANGED <<exited, step, retries, conn, connected, nats, configNats,
                 subscribed, failCount, timer>>

(* AttemptReconnect of the library.                                        *)
Reconnect(c) ==
  /\ ~exited
  /\ bus
  /\ conn[c] = "closed"
  /\ conn' = [conn EXCEPT ![c] = "open"]
  /\ UNCHANGED <<bus, exited, step, retries, connected, nats, configNats,
                 subscribed, failCount, timer>>

StartupNext ==
  \/ \E c \in Calls :
       WorkItem(c) \/ NatsOnConnect(c) \/ NatsOnError(c) \/ Reconnect(c)
  \/ BusGoes
  \/ BusReturns

StartupSpec == StartupInit /\ [][StartupNext]_startupVars

(* The pool runs the work items.  Nothing obliges the bus or the library.  *)
StartupFairSpec == StartupSpec /\ \A c \in Calls : WF_startupVars(WorkItem(c))

-----------------------------------------------------------------------------
(* Properties.                                                             *)

(* Each request is handled once: two subscriptions, and with them two work *)
(* items for each message, exist only while some call of StartHandler has  *)
(* nothing left to do but end the process.                                 *)
OneListener ==
  \A p, q \in subscribed : p # q => \E c \in Calls : step[c] = "failing"

(* Getting onto the bus does not go on for ever: the heartbeat timer runs  *)
(* or the process exits, however the bus comes and goes.                   *)
StartupSettles == <>(timer \/ exited)

(* Behind OneListener: a call of StartHandler is made only by one that     *)
(* fails at the next statement.                                            *)
ChainOfCalls ==
  /\ \A c, d \in Calls : c < d /\ step[d] # "none" => step[c] = "failing"
  /\ nats # 0 => step[nats] # "none"
  /\ \A c \in Calls : step[c] \in {"starting", "napping"} => nats = c

(* A reactor has a connection only if its call has begun, and subscribes   *)
(* only once.                                                              *)
ReactorInv ==
  /\ \A c \in Calls : step[c] = "none" => conn[c] = "none" /\ ~connected[c]
  /\ nats = 0 => \A c \in Calls : conn[c] = "none"
  /\ \A p \in subscribed : connected[p[1]]
  /\ \A p, q \in subscribed : p[1] = q[1] => p = q

StartupInv == StartupTypeOK /\ ChainOfCalls /\ ReactorInv
=============================================================================
