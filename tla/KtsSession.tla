----------------------------- MODULE KtsSession -----------------------------
(***************************************************************************)
(* The session processes of one user of the bundled telnet and SSH server  *)
(* (KSession.hxx).  Each has a thread for its client (main), one for the   *)
(* login of the console, a health monitor, and in the end one that shuts   *)
(* it down.  A session whose client went away keeps its shell, says so in  *)
(* the name of a file (KSessionState.hxx) and waits at a pipe (KPipe.hxx); *)
(* a later session of the user may connect to it and become its proxy.     *)
(***************************************************************************)
EXTENDS FiniteSets, Integers

CONSTANTS
  Sessions,    \* connections of the user
  Telnet,      \* those that are not SSH
  Prefix,      \* Prefix[s]: sessions whose file names start with s's name
  Underscored, \* the name of the user has an underscore
  Scenes       \* bound: records of the sessions that come; of those that begin
               \* with waiting for a proxy; of the faulty: they meet refusals,
               \* limits of time and dying shells, and do more than run a shell;
               \* and whether the service may stop

ASSUME SessionAssumption ==
  /\ Telnet \subseteq Sessions /\ Underscored \in BOOLEAN
  /\ \A c \in Scenes : c.come \subseteq Sessions /\ c.faulty \cup c.waiting \subseteq c.come
  /\ \A s \in Sessions : s \in Prefix[s] /\ Prefix[s] \subseteq Sessions
  /\ "none" \notin Sessions   \* None

VARIABLES
  ses,     \* ses[s]: the process of the session, a record, see Fresh
  files,   \* the files of active_sessions_dir: pairs of a session and a state
  service, \* daemon.exe runs
  scene    \* who comes, see Scenes

vars == <<ses, files, service, scene>>

None == "none"

Fresh ==
  [life |-> "new",     \* "alive", then how the process ended
   client |-> FALSE,   \* the client is connected
   main |-> "init",    \* what the threads are about to do
   login |-> "none",
   monitor |-> "watch",
   asked |-> {},       \* threads that are inside one of SetStateX
   state |-> "started", \* KSessionState::state
   proxy |-> FALSE, shellFlag |-> FALSE, \* raised flags
   ending |-> "no",    \* "raised": the flag terminate; "closed": SetStateClosed
   lock |-> "free",    \* the critical section: StartShell's, or of the ShutDownThread
   shell |-> "none",   \* "loose": not in the job yet; "job"; "dead"
   rest |-> {},        \* sessions ChooseDisconnectedSession has yet to look at,
   list |-> {},        \* and those it offers
   ready |-> {},       \* history: the sessions that waited for the user, and
   gone |-> {},        \* those that had ended, when it began
   target |-> None,    \* the session to connect to
   victim |-> None,    \* whose file becomes a zombie's
   pipe |-> FALSE, peer |-> None]

\* A session whose client left, with nobody at its pipe.
Waiter == [Fresh EXCEPT !.life = "alive", !.main = "accept", !.login = "done",
             !.state = "disconnected", !.shellFlag = TRUE, !.shell = "job", !.pipe = TRUE]

Init ==
  /\ scene \in Scenes
  /\ ses = [s \in Sessions |-> IF s \in scene.waiting THEN Waiter ELSE Fresh]
  /\ files = {<<s, "disconnected">> : s \in scene.waiting}
  /\ service = TRUE

Alive(s) == ses[s].life = "alive"
Set(s, r) == ses' = [ses EXCEPT ![s] = r]
Thread(s) == IF s \in Telnet THEN "login" ELSE "main"
At(s, thread, place) == Alive(s) /\ ses[s][thread] = place
Goes(s, thread, place) == Set(s, [ses[s] EXCEPT ![thread] = place])

-----------------------------------------------------------------------------
(* KSessionState.hxx *)

\* DeleteStateFile: all of the process's files, whatever state they tell.
DeleteStateFile(s) == {f \in files : f[1] # s}

\* Where a thread calls SetStateX: the state, and what the thread does next.
SetPoint(place) ==
  CASE place = "set logged"  -> <<"logged", "access">>
    [] place = "set sftp"    -> <<"sftp", "sftp">>
    [] place = "set shell"   -> <<"shell", "job">>
    [] place = "set proxy"   -> <<"proxy", "connect">>
    [] place = "first set disconnected" -> <<"disconnected", "accept">>
    [] place = "set disconnected" -> <<"disconnected", "close">>
    [] place = "set pipe"    -> <<"pipe", "loop">>
    [] OTHER                 -> <<None, place>>

\* SetStateX asks for "closed" first, without the lock.
AsksClosed(s, thread) ==
  /\ Alive(s) /\ thread \notin ses[s].asked
  /\ LET p == SetPoint(ses[s][thread])
     IN  /\ p[1] # None
         /\ IF ses[s].state = "closed" THEN Goes(s, thread, p[2])
            ELSE Set(s, [ses[s] EXCEPT !.asked = @ \cup {thread}])
  /\ UNCHANGED <<files, service>>

\* Then the old files go and the new one is made.
SetsState(s, thread) ==
  /\ Alive(s) /\ thread \in ses[s].asked
  /\ LET p == SetPoint(ses[s][thread])
     IN  /\ Set(s, [ses[s] EXCEPT !.asked = @ \ {thread}, !.state = p[1], ![thread] = p[2]])
         /\ files' = DeleteStateFile(s) \cup {<<s, p[1]>>}
  /\ UNCHANGED service

SetStateClosed(s) ==
  /\ files' = DeleteStateFile(s)
  /\ UNCHANGED service

\* FindDisconnectedSessions, and FromString, that wants six underscores in a
\* file's name: with another one it reads no process number, and the session
\* counts as dead.
Disconnected == {f[1] : f \in {g \in files : g[2] = "disconnected"}}
Readable == IF Underscored THEN {} ELSE Disconnected

IsSessionAlive(s) == ses[s].life = "alive"

Zombie(s) == (files \ {<<s, "disconnected">>}) \cup {<<s, "zombie">>}

\* SetStateZombie finds a file by its prefix, in whatever order.
Found(t) == Readable \cap Prefix[t]

\* A session that its user may come back to.
Waiting(s) == At(s, "main", "accept") /\ ses[s].peer = None

\* ChooseDisconnectedSession lists the files, and looks at one after the other.
Looked(r) ==
  [r EXCEPT !.login = IF r.rest # {} THEN "look" ELSE IF r.list # {} THEN "pick" ELSE "start"]
Lists(s) ==
  /\ At(s, "login", "choose")
  /\ Set(s, Looked([ses[s] EXCEPT
                !.rest = Readable,
                !.ready = {t \in Sessions : Waiting(t) /\ ses[t].ending = "no" /\ <<t, "zombie">> \notin files},
                !.gone = {t \in Sessions : ses[t].life \notin {"new", "alive"}}]))
  /\ UNCHANGED <<files, service>>

\* Mutant: whoever is listed counts as alive.
LooksAtNone(s) ==
  /\ At(s, "login", "look")
  /\ \E t \in ses[s].rest : Set(s, Looked([ses[s] EXCEPT !.rest = @ \ {t}, !.list = @ \cup {t}]))
  /\ UNCHANGED <<files, service>>

\* A session that lives is offered; for one that does not a file is to be found.
Looks(s) ==
  /\ At(s, "login", "look")
  /\ \E t \in ses[s].rest :
       LET r == [ses[s] EXCEPT !.rest = @ \ {t}]
       IN  \/ IsSessionAlive(t) /\ Set(s, Looked([r EXCEPT !.list = @ \cup {t}]))
           \/ ~IsSessionAlive(t) /\ Found(t) = {} /\ Set(s, Looked(r))
           \/ /\ ~IsSessionAlive(t)
              /\ \E v \in Found(t) : Set(s, [r EXCEPT !.victim = v, !.login = "mark"])
  /\ UNCHANGED <<files, service>>

\* It becomes a zombie's, whosever it is by now.
Marks(s) ==
  /\ At(s, "login", "mark")
  /\ files' = Zombie(ses[s].victim)
  /\ Set(s, Looked([ses[s] EXCEPT !.victim = None]))
  /\ UNCHANGED service

-----------------------------------------------------------------------------
(* The end of a session *)

\* TerminateSession: the first caller starts ShutDownThread and waits; a later
\* one returns, and its thread goes on with back.
TerminateSession(s, thread, back) ==
  /\ ses[s].lock = "free"
  /\ IF ses[s].ending = "no"
     THEN Set(s, [ses[s] EXCEPT !.ending = "raised", ![thread] = "parked"])
     ELSE Goes(s, thread, back)
  /\ UNCHANGED <<files, service>>

\* What is left of a process: its job is ended, or not.
Dead(r, how, jobEnded) ==
  [Fresh EXCEPT !.life = how,
                !.shell = IF r.shell = "job" /\ jobEnded THEN "dead" ELSE r.shell]

\* ShutDownThread takes the lock and keeps it.
ShutDown(s) ==
  /\ Alive(s) /\ ses[s].ending = "raised" /\ ses[s].lock = "free"
  /\ Set(s, [ses[s] EXCEPT !.ending = "closed", !.lock = "shutdown", !.state = "closed"])
  /\ SetStateClosed(s)

\* comm.Close( true ).
ShutDownCloses(s) ==
  /\ Alive(s) /\ ses[s].ending = "closed" /\ ses[s].client
  /\ Set(s, [ses[s] EXCEPT !.client = FALSE])
  /\ UNCHANGED <<files, service>>

ShutDownExits(s) ==
  /\ Alive(s) /\ ses[s].ending = "closed" /\ ~ses[s].client
  /\ Set(s, Dead(ses[s], "shut down", TRUE))
  /\ UNCHANGED <<files, service>>

\* The caller that waits three seconds for ShutDownThread, which does not come
\* by, or hangs in comm.Close.
GivesUp(s) ==
  /\ Alive(s) /\ ses[s].ending \in {"raised", "closed"}
  /\ Set(s, Dead([ses[s] EXCEPT !.state = "closed"], "given up", TRUE))
  /\ IF ses[s].state # "closed" THEN SetStateClosed(s) ELSE UNCHANGED <<files, service>>

\* Run's last call returns because somebody else ends the process: main does.
MainReturns(s) ==
  /\ At(s, "main", "return")
  /\ Set(s, Dead(ses[s], "returned", FALSE))
  /\ UNCHANGED <<files, service>>

MainEnds(s) == At(s, "main", "end") /\ TerminateSession(s, "main", "return")

\* HealthMonitorThread leaves its loop for one of these reasons, and for good.
\* The limit of the login or the one of idle time counts but in these loops.
TimeIsUp(s) == ses[s].main \notin {"set sftp", "sftp", "forward"}
MonitorSees(s) ==
  /\ At(s, "monitor", "watch")
  /\ \/ ~service
     \/ ses[s].shellFlag /\ ses[s].shell \in {"none", "dead"}
     \/ ses[s].ending # "no"
  /\ Goes(s, "monitor", "ends")
  /\ UNCHANGED <<files, service>>
TimeOut(s) ==
  /\ At(s, "monitor", "watch") /\ TimeIsUp(s)
  /\ Goes(s, "monitor", "ends")
  /\ UNCHANGED <<files, service>>
MonitorEnds(s) == At(s, "monitor", "ends") /\ TerminateSession(s, "monitor", "done")

-----------------------------------------------------------------------------
(* The login                                                               *)

\* The daemon starts the process and hands the socket over: Init.
Connects(s) ==
  /\ ses[s].life = "new" /\ service
  /\ LET r == [ses[s] EXCEPT !.life = "alive", !.client = TRUE]
     IN  Set(s, IF s \in Telnet THEN [r EXCEPT !.main = "socket", !.login = "auth"]
                ELSE [r EXCEPT !.main = "auth"])
  /\ files' = files \cup {<<s, "started">>}
  /\ UNCHANGED service

\* The hand-off failed.
ConnectFails(s) ==
  /\ ses[s].life = "new" /\ service
  /\ Set(s, Dead(ses[s], "returned", FALSE))
  /\ UNCHANGED <<files, service>>

\* LogonUser1 of LoginSSH or LoginTelnetThread.
LogsOn(s) ==
  /\ At(s, Thread(s), "auth") /\ ses[s].client
  /\ Goes(s, Thread(s), "set logged")
  /\ UNCHANGED <<files, service>>

\* No more attempts, or no client any more.
LogonFails(s) ==
  /\ At(s, Thread(s), "auth")
  /\ TerminateSession(s, Thread(s), "auth")

\* CheckAccess: SSH goes on with LoginSSHThread beside it, or with sftp.
Granted(s) ==
  IF s \in Telnet THEN {[ses[s] EXCEPT !.login = "choose"]}
  ELSE {[ses[s] EXCEPT !.main = "socket", !.login = "choose"]}
         \cup IF s \in scene.faulty THEN {[ses[s] EXCEPT !.main = "set sftp"]} ELSE {}
Access(s) ==
  /\ At(s, Thread(s), "access")
  /\ \E r \in Granted(s) : Set(s, r)
  /\ UNCHANGED <<files, service>>
AccessDenied(s) ==
  /\ At(s, Thread(s), "access") /\ ses[s].ending = "no"
  /\ TerminateSession(s, Thread(s), "access")

SftpEnds(s) == At(s, "main", "sftp") /\ ~ses[s].client /\ TerminateSession(s, "main", "socket")

\* The user's choice, or the only one there is; by now it may be stale.
Picks(s) ==
  /\ At(s, "login", "pick")
  /\ \E t \in ses[s].list \cup {None} :
       Set(s, [ses[s] EXCEPT !.list = {}, !.ready = {}, !.gone = {}, !.target = t, !.proxy = t # None,
                             !.login = IF t = None THEN "start" ELSE "done"])
  /\ UNCHANGED <<files, service>>

\* StartShell: the process, its state and its job under the lock.
StartShell(s) ==
  /\ At(s, "login", "start") /\ ses[s].lock = "free"
  /\ Set(s, [ses[s] EXCEPT !.lock = "shell", !.shell = "loose", !.login = "set shell"])
  /\ UNCHANGED <<files, service>>
StartShellFails(s) ==
  /\ At(s, "login", "start") /\ ses[s].lock = "free"
  /\ Set(s, [ses[s] EXCEPT !.login = "done", !.shellFlag = TRUE])
  /\ UNCHANGED <<files, service>>

\* Mutant: the lock is not left.
CreateJobLocked(s) ==
  /\ At(s, "login", "job")
  /\ Set(s, [ses[s] EXCEPT !.shellFlag = TRUE, !.login = "done",
                           !.shell = IF @ = "loose" THEN "job" ELSE @])
  /\ UNCHANGED <<files, service>>

CreateJob(s) ==
  /\ At(s, "login", "job")
  /\ Set(s, [ses[s] EXCEPT !.lock = "free", !.shellFlag = TRUE, !.login = "done",
                           !.shell = IF @ = "loose" THEN "job" ELSE @])
  /\ UNCHANGED <<files, service>>

-----------------------------------------------------------------------------
(* Run: the loops of the main thread *)

\* Behind SocketCommunicationLoop, and PortForwardLoop if it was entered.
NextLoop(s) == IF ses[s].proxy THEN "set proxy" ELSE IF ses[s].shellFlag THEN "create" ELSE "end"
LeavesSocketLoop(s) ==
  /\ At(s, "main", "socket") /\ (ses[s].proxy \/ ~ses[s].client)
  /\ Goes(s, "main", NextLoop(s))
  /\ UNCHANGED <<files, service>>

\* The client of an SSH session asks for a forward before it asks for a shell.
PortForwardBegins(s) ==
  /\ At(s, "main", "socket") /\ s \notin Telnet /\ ses[s].client
  /\ Goes(s, "main", "forward")
  /\ UNCHANGED <<files, service>>
PortForwardEnds(s) ==
  At(s, "main", "forward") /\ ~ses[s].client /\ TerminateSession(s, "main", NextLoop(s))

\* CheckAccess( "port-forward" ): whoever lacks it ends where others go on.
PortForwardDenied(s) ==
  /\ At(s, "main", "socket") /\ s \notin Telnet /\ (ses[s].proxy \/ ~ses[s].client)
  /\ ses[s].ending = "no" /\ TerminateSession(s, "main", "end")

\* PipeCommunicationLoop begins: the pipe exists before the session is listed.
CreatesPipe(s) ==
  /\ At(s, "main", "create")
  /\ Set(s, [ses[s] EXCEPT !.client = FALSE, !.pipe = TRUE, !.peer = None,
                           !.main = "first set disconnected"])
  /\ UNCHANGED <<files, service>>

AcceptsPipe(s) ==
  /\ At(s, "main", "accept") /\ ses[s].peer # None
  /\ Goes(s, "main", "set pipe")
  /\ UNCHANGED <<files, service>>

Relays(s) == Alive(s) /\ ses[s].main = "relay"
Broken(s) == ses[s].peer # None /\ ~Relays(ses[s].peer)

\* WritePipe or ReadPipe fails.
PipeBreaks(s) ==
  /\ At(s, "main", "loop") /\ Broken(s)
  /\ Goes(s, "main", "set disconnected")
  /\ UNCHANGED <<files, service>>

\* Then ClosePipe, CreatePipe, AcceptPipe.
ClosesPipe(s) ==
  /\ At(s, "main", "close")
  /\ Set(s, [ses[s] EXCEPT !.pipe = FALSE, !.main = "create again"])
  /\ UNCHANGED <<files, service>>
CreatesPipeAgain(s) ==
  /\ At(s, "main", "create again")
  /\ Set(s, [ses[s] EXCEPT !.pipe = TRUE, !.peer = None, !.main = "accept"])
  /\ UNCHANGED <<files, service>>

\* Mutant: any instance of the pipe will do, a connected one too.
CanConnectAny(t) == Alive(t) /\ ses[t].pipe

\* KPipe::Connect: there is a pipe of that name that nobody is connected to.
CanConnect(t) == Alive(t) /\ ses[t].pipe /\ ses[t].peer = None

ConnectsPipe(s) ==
  /\ At(s, "main", "connect") /\ CanConnect(ses[s].target)
  /\ ses' = [ses EXCEPT ![s].main = "relay", ![ses[s].target].peer = s]
  /\ UNCHANGED <<files, service>>

\* Otherwise SetStateZombie.
FindsZombie(s) ==
  /\ At(s, "main", "connect") /\ ~CanConnect(ses[s].target)
  /\ \/ \E v \in Found(ses[s].target) : Set(s, [ses[s] EXCEPT !.victim = v, !.main = "zombie"])
     \/ Found(ses[s].target) = {} /\ Goes(s, "main", "end")
  /\ UNCHANGED <<files, service>>
MakesZombie(s) ==
  /\ At(s, "main", "zombie")
  /\ files' = Zombie(ses[s].victim)
  /\ Set(s, [ses[s] EXCEPT !.victim = None, !.main = "end"])
  /\ UNCHANGED service

\* ProxyCommunicationLoop ends with the client or the pipe.
RelayEnds(s) ==
  /\ At(s, "main", "relay")
  /\ ~ses[s].client \/ ~Alive(ses[s].target)
  /\ Goes(s, "main", "end")
  /\ UNCHANGED <<files, service>>

-----------------------------------------------------------------------------
(* The world *)

ClientLeaves(s) ==
  /\ Alive(s) /\ ses[s].client
  /\ Set(s, [ses[s] EXCEPT !.client = FALSE])
  /\ UNCHANGED <<files, service>>

ShellDies(s) ==
  /\ Alive(s) /\ ses[s].shell \in {"loose", "job"}
  /\ Set(s, [ses[s] EXCEPT !.shell = "dead"])
  /\ UNCHANGED <<files, service>>

ServiceStops == scene.stops /\ service /\ service' = FALSE /\ UNCHANGED <<ses, files>>

Main(s) ==
  \/ AsksClosed(s, "main") \/ SetsState(s, "main") \/ MainReturns(s) \/ MainEnds(s)
  \/ SftpEnds(s) \/ LeavesSocketLoop(s) \/ PortForwardEnds(s)
  \/ CreatesPipe(s) \/ AcceptsPipe(s) \/ PipeBreaks(s) \/ ClosesPipe(s) \/ CreatesPipeAgain(s)
  \/ ConnectsPipe(s) \/ FindsZombie(s) \/ MakesZombie(s) \/ RelayEnds(s)
Login(s) ==
  \/ AsksClosed(s, "login") \/ SetsState(s, "login") \/ Access(s)
  \/ Lists(s) \/ Looks(s) \/ Marks(s)
  \/ StartShell(s) \/ CreateJob(s)
Monitor(s) == MonitorSees(s) \/ MonitorEnds(s)
ShuttingDown(s) == ShutDown(s) \/ ShutDownCloses(s) \/ ShutDownExits(s)

Ending(s) == Monitor(s) \/ ShuttingDown(s)
User(s) == LogsOn(s) \/ Picks(s) \/ ClientLeaves(s)
Fault(s) ==
  \/ ConnectFails(s) \/ LogonFails(s) \/ AccessDenied(s) \/ StartShellFails(s)
  \/ PortForwardBegins(s) \/ PortForwardDenied(s) \/ TimeOut(s) \/ ShellDies(s) \/ GivesUp(s)

Next ==
  /\ \/ ServiceStops
     \/ \E s \in scene.come : Connects(s) \/ Main(s) \/ Login(s) \/ Ending(s) \/ User(s)
     \/ \E s \in scene.faulty : Fault(s)
  /\ UNCHANGED scene

\* Threads run and time passes.  Nobody makes a user log on, choose or leave;
\* the idle time counts on while no proxy brings input.
Spec ==
  /\ Init /\ [][Next]_vars
  /\ \A s \in Sessions :
       /\ WF_vars(Main(s) /\ UNCHANGED scene) /\ WF_vars(Login(s) /\ UNCHANGED scene)
       /\ WF_vars(Monitor(s) /\ UNCHANGED scene) /\ WF_vars(ShuttingDown(s) /\ UNCHANGED scene)
       /\ WF_vars(s \in scene.faulty /\ Waiting(s) /\ TimeOut(s) /\ UNCHANGED scene)

-----------------------------------------------------------------------------
(* Properties *)

Places == {"init", "auth", "set logged", "access", "set sftp", "sftp", "socket", "forward",
           "set proxy", "connect", "relay", "zombie", "create", "first set disconnected",
           "accept", "set pipe", "loop", "set disconnected", "close", "create again",
           "end", "return", "parked"}
LoginPlaces == {"none", "auth", "set logged", "access", "choose", "look", "mark", "pick", "start",
                "set shell", "job", "done", "parked"}

\* Threads are where the code has them; a process that is no proxy connects
\* nowhere (Run), and one that waits or talks at its pipe has one.
TypeOK ==
  \A s \in Sessions :
    LET r == ses[s]
    IN  /\ r.main \in Places /\ r.monitor \in {"watch", "ends", "done", "parked"}
        /\ r.login \in LoginPlaces
        /\ r.ending \in {"no", "raised", "closed"} /\ r.lock \in {"free", "shell", "shutdown"}
        /\ r.lock = "shell" => r.login \in {"set shell", "job"}
        /\ r.main \in {"set proxy", "connect", "relay"} => r.proxy /\ r.target # s /\ r.list = {}
        /\ Alive(s) /\ r.main \in {"accept", "set pipe", "loop"} => r.pipe

\* What the directory says of a running session is what the session believes,
\* or that it is a zombie: other processes rename its file (SetStateZombie) and
\* three threads of its own change its state.
FilesTellState ==
  \A s \in Sessions : Alive(s) =>
    LET told == {f[2] : f \in {g \in files : g[1] = s}}
    IN  /\ told \subseteq {ses[s].state, "zombie"}
        /\ ses[s].state # "closed" => told # {}

\* Nobody is told to connect to a session that talks to its user.
Advertised ==
  \A s \in Sessions : Alive(s) /\ <<s, "disconnected">> \in files =>
    ses[s].main \in {"accept", "set pipe", "close", "create again"}

\* Two clients never share a shell: a session has one proxy at a time, though
\* several may have chosen it from their lists (KPipe::Connect).
OneProxyEach ==
  \A s, u \in Sessions : Relays(s) /\ Relays(u) /\ ses[s].target = ses[u].target => s = u

\* A proxy shows another session's shell and has none of its own.
ProxyHasNoShell ==
  \A s \in Sessions : ses[s].proxy => ses[s].shell = "none" /\ ses[s].login # "start"

\* ShutDownThread ends the whole session: StartShell, which may run beside it,
\* leaves no shell outside the job and no file that tells of one.
ShutDownIsClean ==
  \A s \in Sessions : ses[s].life = "shut down" =>
    ses[s].shell \in {"none", "dead"} /\ <<s, "shell">> \notin files

\* A session that is told to end, whose service is gone, or that is the proxy of
\* one that is gone, does not stay: TerminateSession, whoever holds the lock.
SessionsEnd ==
  []<>(\A s \in Sessions : Alive(s) =>
         service /\ ses[s].ending = "no" /\ (Relays(s) => Alive(ses[s].target)))

\* A session without a client gets a proxy or ends.
LonelyEnd == []<>(\A s \in scene.faulty : ~Waiting(s))

\* Files, threads, pipes and shells of the sessions of a user agree, though each
\* session has four threads and others rename its files: the directory tells the
\* truth of a session that runs, a shell is shown to one client, and one that
\* ShutDownThread ended leaves no shell and no file that tells of one.
SessionInv ==
  /\ TypeOK /\ FilesTellState /\ Advertised
  /\ OneProxyEach /\ ProxyHasNoShell /\ ShutDownIsClean

\* A user who may choose is offered each session that waited for him when the
\* files were listed and is still there, if it was not to end and nobody had made
\* its file a zombie's, and none that had ended by then: the sessions run on while
\* the files are looked at, other sessions rename them, and some outlive their
\* processes, for a thread that asked in time makes one after SetStateClosed
\* (ChooseDisconnectedSession).
OffersExactly ==
  [][\A s \in Sessions :
       ses[s].login \in {"choose", "look", "mark"} /\ ses'[s].login \in {"pick", "start"} =>
         /\ ~Underscored => \A t \in ses'[s].ready : Alive(t) => t \in ses'[s].list
         /\ ses'[s].list \cap ses'[s].gone = {}]_vars

\* No process stays without a reason: one that is to end ends, and one without a
\* client has somebody who may come, or its limit of time.
NoneStays == SessionsEnd /\ LonelyEnd

-----------------------------------------------------------------------------
(* What these follow from *)

States == {"started", "logged", "sftp", "shell", "proxy", "disconnected", "pipe", "closed"}

\* All that a record of a session may hold.
SessionType ==
  [life : {"new", "alive", "shut down", "given up", "returned"}, client : BOOLEAN,
   main : Places, login : LoginPlaces, monitor : {"watch", "ends", "done", "parked"},
   asked : SUBSET {"main", "login"}, state : States, proxy : BOOLEAN, shellFlag : BOOLEAN,
   ending : {"no", "raised", "closed"}, lock : {"free", "shell", "shutdown"},
   shell : {"none", "loose", "job", "dead"}, rest : SUBSET Sessions, list : SUBSET Sessions,
   ready : SUBSET Sessions, gone : SUBSET Sessions,
   target : Sessions \cup {None}, victim : Sessions \cup {None},
   pipe : BOOLEAN, peer : Sessions \cup {None}]

SessionTypes ==
  /\ ses \in [Sessions -> SessionType]
  /\ files \subseteq Sessions \X (States \cup {"zombie"})
  /\ scene \in Scenes

\* A process that is not there yet, or no more, has no threads.
NoThreads(r) ==
  /\ r.main = "init" /\ r.login = "none" /\ r.asked = {} /\ r.lock = "free"
  /\ ~r.proxy /\ r.rest = {} /\ r.list = {} /\ r.target = None
  /\ r.life = "new" => r = Fresh
  /\ r.life = "shut down" => r.shell \in {"none", "dead"}

\* A thread stays where it asked until it has set the state.
AsksWhereItSets(r) ==
  /\ "main" \in r.asked => r.main \in {"set logged", "set sftp", "set proxy", "first set disconnected",
                                       "set disconnected", "set pipe"}
  /\ "login" \in r.asked => r.login \in {"set logged", "set shell"}

\* There is a shell or a target once the login is over, and not both.
LoginTells(r) ==
  /\ r.login \notin {"set shell", "job", "done"} => r.shell = "none"
  /\ r.login # "done" => ~r.shellFlag /\ ~r.proxy
  /\ r.login \in {"set shell", "job"} <=> r.lock = "shell"
  /\ r.login = "mark" => r.victim # None
  /\ r.shell = "loose" => r.lock = "shell"
  /\ r.proxy => r.shell = "none" /\ ~r.shellFlag /\ r.list = {} /\ r.target # None

\* Whoever is in the proxy's loop has a target, whoever is at the pipe a shell;
\* who logs on in the main thread has no other login.
PipeMade == {"first set disconnected", "accept", "set pipe", "loop", "set disconnected", "close"}
MainTells(r) ==
  /\ r.main \in {"auth", "set logged", "access"} => r.login = "none"
  /\ r.main = "zombie" => r.victim # None
  /\ r.main \in {"set proxy", "connect", "relay", "zombie"} => r.proxy
  /\ r.main \in {"create", "create again"} \cup PipeMade => r.shellFlag
  /\ r.pipe <=> r.main \in PipeMade
  /\ r.peer # None => r.main \in {"create again"} \cup PipeMade
  /\ r.main \in {"set pipe", "loop", "set disconnected", "close", "create again"} => r.peer # None
  /\ r.state = "disconnected" => r.main \in {"accept", "set pipe", "close", "create again"}
  /\ r.main \in {"accept", "close", "create again"} => r.state \in {"disconnected", "closed"}

ClosedForGood(r) ==
  /\ r.state = "closed" => r.ending = "closed"
  /\ r.ending = "closed" <=> r.lock = "shutdown"

Holds(r) ==
  IF r.life = "alive" THEN AsksWhereItSets(r) /\ LoginTells(r) /\ MainTells(r) /\ ClosedForGood(r)
  ELSE NoThreads(r)

\* The files of a session, given what its process believes.
FilesOf(s, r) ==
  /\ r.life = "alive" =>
       /\ \A st \in States \ {r.state} : <<s, st>> \notin files
       /\ r.state # "closed" => \E st \in {r.state, "zombie"} : <<s, st>> \in files
  /\ <<s, "closed">> \notin files
  /\ r.life = "new" => \A st \in States : <<s, st>> \notin files
  /\ r.ending = "closed" \/ r.life = "shut down" => <<s, "shell">> \notin files

\* Whom a session lists, offers, or connects to, is another that has begun.
OffersOthers ==
  \A s \in Sessions : \A t \in ses[s].rest \cup ses[s].list \cup {ses[s].target} :
    t # None => t # s /\ ses[t].life # "new"

\* A session whose proxy is there knows it and listens to it.
KnowsItsProxy ==
  \A s \in Sessions : Relays(s) /\ Alive(ses[s].target) =>
    /\ ses[ses[s].target].peer = s
    /\ ses[ses[s].target].main \notin {"set disconnected", "close", "create again"}

\* The sessions that waited when the files were listed are offered or yet to be
\* looked at, unless they ended, and those that had ended are not offered.
Chosen(r) ==
  /\ \A t \in r.ready : ses[t].life # "new"
  /\ ~Underscored => \A t \in r.ready : Alive(t) => t \in r.rest \cup r.list
  /\ r.list \cap r.gone = {}
ChoiceTells ==
  \A s \in Sessions :
    /\ \A t \in ses[s].gone : ses[t].life \notin {"new", "alive"}
    /\ IF ses[s].login \in {"look", "mark", "pick"} THEN Chosen(ses[s]) ELSE ses[s].list = {}

SessionIndInv ==
  /\ SessionTypes
  /\ \A s \in Sessions : Holds(ses[s]) /\ FilesOf(s, ses[s])
  /\ OffersOthers /\ KnowsItsProxy /\ OneProxyEach
=============================================================================
