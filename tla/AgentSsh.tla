------------------------------ MODULE AgentSsh ------------------------------
(***************************************************************************)
(* The ssh requests of the agent (Message/Ssh.cs) and the service they     *)
(* start and stop (SshdMonitor.cs).  They are short requests: any number   *)
(* runs at a time, each on a thread of its own, for one user or several.   *)
(*                                                                         *)
(* A password and the salt taken from it are named by the setup that       *)
(* brought them.  The timer of SshdMonitor is never enabled.  The accounts *)
(* of Windows and the service control manager are external.                *)
(***************************************************************************)
EXTENDS Naturals, FiniteSets

CONSTANTS
  Setups, Cleanups,     \* the requests, disjoint
  UserOf,               \* whom each is about
  Guests,               \* users that may have an account and a salt at the start
  SshdMonitorEnabled,   \* of settings.json
  DefaultNetwork,       \* the state names a default network, whose address is the reply's
  SshRestarts           \* bound on ends of the process

\* A request is of one kind, and named like no mark on an account, a salt or
\* a lock.
ASSUME SshAssumption ==
  /\ Setups \cap Cleanups = {}
  /\ {"none", "earlier", "torn"} \cap (Setups \cup Cleanups) = {}

VARIABLES
  step,       \* where each request is
  answer,     \* what it was answered
  account, admins, salt, \* of each user
  saltFile,   \* who has its salt file open
  sshd,       \* the state of the service
  sshdLock,   \* SshdMonitor.locker
  startTime,  \* SshdMonitor.startTime: never, recent (not older than startDelay) or old
  sshRestarts,
  \* history:
  since,      \* the requests about the same user that ran since one began
  fresh,      \* startDelay has not passed since the latest StartSshd
  promised    \* and a setup found the service running meanwhile

accountVars == <<account, admins, salt, saltFile>>
sshdVars == <<sshd, sshdLock, startTime, fresh, promised>>
sshVars == <<step, answer, accountVars, sshdVars, sshRestarts, since>>

SshRequests == Setups \cup Cleanups
NoOne == "none"
Users == {UserOf[r] : r \in SshRequests}

SshInit ==
  /\ step = [r \in SshRequests |-> "arrives"]
  /\ answer = [r \in SshRequests |-> "none"]
  /\ admins \in SUBSET Guests
  /\ account = [u \in Users |-> IF u \in admins THEN "earlier" ELSE NoOne]
  /\ salt = account
  /\ saltFile = [u \in Users |-> NoOne]
  /\ sshd \in {"stopped", "running"}
  /\ sshdLock = NoOne
  /\ startTime = "never"
  /\ sshRestarts = 0
  /\ since = [r \in SshRequests |-> {}]
  /\ fresh = FALSE /\ promised = FALSE

UnderWay(r) == step[r] \notin {"arrives", "over"}

Goes(r, to) == step' = [step EXCEPT ![r] = to] /\ UNCHANGED answer

\* The request is answered, or its exception restarts the agent.
AnswersWith(r, status) ==
  /\ step' = [step EXCEPT ![r] = "over"]
  /\ answer' = [answer EXCEPT ![r] = status]

\* The reply of a setup ends with Config.DefaultIP, outside of its try.
AnswersSetup(r, status) == AnswersWith(r, IF DefaultNetwork THEN status ELSE "exception")

-----------------------------------------------------------------------------
Begin(r) ==
  LET sameUser == {q \in SshRequests \ {r} : UserOf[q] = UserOf[r] /\ step[q] # "arrives"}
  IN  /\ step[r] = "arrives"
      /\ Goes(r, IF r \in Setups THEN "openSalt" ELSE "deleteUser")
      /\ since' = [q \in SshRequests |-> IF q \in sameUser THEN since[q] \cup {r}
                                         ELSE IF q = r THEN {p \in sameUser : UnderWay(p)} ELSE since[q]]
      /\ UNCHANGED <<accountVars, sshdVars, sshRestarts>>

\* SaveSaltInFile: two at a time cannot write one file, and the exception is
\* nobody's.
OpenSalt(r) ==
  LET u == UserOf[r]
  IN  /\ step[r] = "openSalt"
      /\ \/ /\ saltFile[u] = NoOne
            /\ saltFile' = [saltFile EXCEPT ![u] = r]
            /\ salt' = [salt EXCEPT ![u] = "torn"]
            /\ Goes(r, "writeSalt")
         \/ saltFile[u] # NoOne /\ AnswersWith(r, "exception") /\ UNCHANGED <<salt, saltFile>>
      /\ UNCHANGED <<account, admins, sshdVars, sshRestarts, since>>

WriteSalt(r) ==
  /\ step[r] = "writeSalt"
  /\ salt' = [salt EXCEPT ![UserOf[r]] = r]
  /\ saltFile' = [saltFile EXCEPT ![UserOf[r]] = NoOne]
  /\ Goes(r, "createUser")
  /\ UNCHANGED <<account, admins, sshdVars, sshRestarts, since>>

\* WindowsVCAPUsers.CreateUser throws when there is such a user.
CreateUser(r) ==
  LET u == UserOf[r]
  IN  /\ step[r] = "createUser"
      /\ \/ /\ account[u] = NoOne
            /\ account' = [account EXCEPT ![u] = r]
            /\ Goes(r, "addToGroup")
         \/ account[u] # NoOne /\ AnswersSetup(r, "failed") /\ UNCHANGED account
      /\ UNCHANGED <<admins, salt, saltFile, sshdVars, sshRestarts, since>>

AddUserToGroup(r) ==
  LET u == UserOf[r]
  IN  /\ step[r] = "addToGroup"
      /\ \/ account[u] # NoOne /\ admins' = admins \cup {u} /\ Goes(r, "lockToStart")
         \/ account[u] = NoOne /\ AnswersSetup(r, "failed") /\ UNCHANGED admins
      /\ UNCHANGED <<account, salt, saltFile, sshdVars, sshRestarts, since>>

DeleteUser(r) ==
  LET u == UserOf[r]
  IN  /\ step[r] = "deleteUser"
      /\ \/ /\ account[u] # NoOne
            /\ account' = [account EXCEPT ![u] = NoOne] /\ admins' = admins \ {u}
            /\ Goes(r, "deleteSalt")
         \/ account[u] = NoOne /\ AnswersWith(r, "failed") /\ UNCHANGED <<account, admins>>
      /\ UNCHANGED <<salt, saltFile, sshdVars, sshRestarts, since>>

\* File.Delete throws while the file is open, not when it is absent.
DeleteSalt(r) ==
  LET u == UserOf[r]
  IN  /\ step[r] = "deleteSalt"
      /\ \/ saltFile[u] = NoOne /\ salt' = [salt EXCEPT ![u] = NoOne] /\ Goes(r, "lockToStop")
         \/ saltFile[u] # NoOne /\ AnswersWith(r, "failed") /\ UNCHANGED salt
      /\ UNCHANGED <<account, admins, saltFile, sshdVars, sshRestarts, since>>

-----------------------------------------------------------------------------
\* SshdMonitor.

Lock(r) ==
  /\ step[r] \in {"lockToStart", "lockToStop"}
  /\ sshdLock = NoOne
  /\ sshdLock' = r
  /\ Goes(r, IF step[r] = "lockToStart" THEN "start" ELSE "stop")
  /\ UNCHANGED <<accountVars, sshd, startTime, fresh, promised, sshRestarts, since>>

\* Variant: the time is taken only from a service that had to be started.
StartsAnew == startTime' = IF sshd = "stopped" THEN "recent" ELSE startTime
SetsStartTime == startTime' = "recent"

StartSshd(r) ==
  /\ step[r] = "start"
  /\ sshd' = IF sshd = "stopped" THEN "start pending" ELSE sshd
  /\ SetsStartTime /\ fresh' = TRUE
  /\ Goes(r, "testRunning")
  /\ UNCHANGED <<accountVars, sshdLock, promised, sshRestarts, since>>

OkToStop == SshdMonitorEnabled /\ startTime # "recent"

StopSshd(r) ==
  /\ step[r] = "stop"
  /\ \/ /\ OkToStop
        /\ sshd' = IF sshd = "running" THEN "stop pending" ELSE sshd
        /\ startTime' = "never"
        /\ Goes(r, "testStopped") /\ UNCHANGED sshdLock
     \/ ~OkToStop /\ AnswersWith(r, "success") /\ sshdLock' = NoOne /\ UNCHANGED <<sshd, startTime>>
  /\ UNCHANGED <<accountVars, fresh, promised, sshRestarts, since>>

\* TestService: it waits while the service is on its way, ten seconds at the
\* most, and StartSshd and StopSshd throw when it is not there.
TestRunning(r) ==
  /\ step[r] = "testRunning"
  /\ AnswersSetup(r, IF sshd = "running" THEN "success" ELSE "failed")
  /\ promised' = (promised \/ (sshd = "running" /\ fresh))
  /\ sshdLock' = NoOne
  /\ UNCHANGED <<accountVars, sshd, startTime, fresh, sshRestarts, since>>

TestStopped(r) ==
  /\ step[r] = "testStopped"
  /\ AnswersWith(r, IF sshd = "stopped" THEN "success" ELSE "failed")
  /\ sshdLock' = NoOne
  /\ UNCHANGED <<accountVars, sshd, startTime, fresh, promised, sshRestarts, since>>

-----------------------------------------------------------------------------
\* The service comes up or goes down, and may end by itself.
SshdChanges ==
  /\ \/ sshd = "start pending" /\ sshd' = "running" /\ UNCHANGED promised
     \/ sshd = "stop pending" /\ sshd' = "stopped" /\ UNCHANGED promised
     \/ sshd \in {"running", "start pending"} /\ sshd' = "stopped" /\ promised' = FALSE
  /\ UNCHANGED <<step, answer, accountVars, sshdLock, startTime, fresh, sshRestarts, since>>

\* startDelay passes without another start.
TimePasses ==
  /\ fresh
  /\ startTime' = IF startTime = "recent" THEN "old" ELSE startTime
  /\ fresh' = FALSE /\ promised' = FALSE
  /\ UNCHANGED <<step, answer, accountVars, sshd, sshdLock, sshRestarts, since>>

\* The agent is restarted: what runs is lost, and SshdMonitor.Enable knows of
\* no start.
AgentRestarts ==
  /\ sshRestarts < SshRestarts /\ sshRestarts' = sshRestarts + 1
  /\ step' = [r \in SshRequests |-> IF UnderWay(r) THEN "over" ELSE step[r]]
  /\ saltFile' = [u \in Users |-> NoOne]
  /\ sshdLock' = NoOne /\ startTime' = "never" /\ fresh' = FALSE /\ promised' = FALSE
  /\ UNCHANGED <<answer, account, admins, salt, sshd, since>>

SshNext ==
  \/ \E r \in SshRequests :
       \/ Begin(r) \/ OpenSalt(r) \/ WriteSalt(r) \/ CreateUser(r) \/ AddUserToGroup(r)
       \/ DeleteUser(r) \/ DeleteSalt(r)
       \/ Lock(r) \/ StartSshd(r) \/ StopSshd(r) \/ TestRunning(r) \/ TestStopped(r)
  \/ SshdChanges \/ TimePasses \/ AgentRestarts

SshSpec == SshInit /\ [][SshNext]_sshVars

-----------------------------------------------------------------------------
\* A setup that succeeded leaves its user with the account it made until a
\* cleanup names it again, and with the salt of its password until any
\* request does: a second setup replaces the salt, though it cannot replace
\* the account (Ssh.SetupSsh).
SetupStands ==
  \A r \in Setups : answer[r] = "success" =>
    /\ since[r] \cap Cleanups = {} => account[UserOf[r]] = r /\ UserOf[r] \in admins
    /\ since[r] = {} => salt[UserOf[r]] = r

\* A cleanup that succeeded leaves neither account nor salt until another
\* request names the user (Ssh.CleanupSsh).
CleanupStands ==
  \A r \in Cleanups : answer[r] = "success" /\ since[r] = {} =>
    account[UserOf[r]] = NoOne /\ salt[UserOf[r]] = NoOne

\* Who was told that the setup succeeded finds the service running until
\* startDelay has passed, whatever cleanups of others do, unless it ends by
\* itself or the agent restarts (SshdMonitor.OkToStop).
SshdStays == promised => sshd = "running"

SshInv == SetupStands /\ CleanupStands /\ SshdStays

-----------------------------------------------------------------------------
\* What these follow from.

SshTypeOK ==
  /\ step \in [SshRequests ->
       {"arrives", "openSalt", "writeSalt", "createUser", "addToGroup", "deleteUser", "deleteSalt",
        "lockToStart", "start", "testRunning", "lockToStop", "stop", "testStopped", "over"}]
  /\ answer \in [SshRequests -> {"none", "success", "failed", "exception"}]
  /\ account \in [Users -> Setups \cup {NoOne, "earlier"}]
  /\ salt \in [Users -> Setups \cup {NoOne, "earlier", "torn"}]
  /\ saltFile \in [Users -> Setups \cup {NoOne}]
  /\ sshd \in {"stopped", "start pending", "running", "stop pending"}
  /\ sshdLock \in SshRequests \cup {NoOne}
  /\ startTime \in {"never", "recent", "old"}
  /\ since \in [SshRequests -> SUBSET SshRequests]
  /\ fresh \in BOOLEAN /\ promised \in BOOLEAN

OfKind ==
  /\ \A r \in SshRequests : step[r] \in {"openSalt", "writeSalt", "createUser", "addToGroup"} => r \in Setups
  /\ \A r \in SshRequests : step[r] \in {"lockToStart", "start", "testRunning"} => r \in Setups
  /\ \A r \in SshRequests : step[r] \in {"deleteUser", "deleteSalt"} => r \in Cleanups
  /\ \A r \in SshRequests : step[r] \in {"lockToStop", "stop", "testStopped"} => r \in Cleanups

Answered == \A r \in SshRequests : answer[r] # "none" => step[r] = "over"

\* Who runs while another request about the same user does, or after it, is
\* noted.
Overlaps ==
  \A p, q \in SshRequests :
    p # q /\ UserOf[p] = UserOf[q] /\ step[p] # "arrives" /\ UnderWay(q) => q \in since[p]

\* How far a request has got, or got before it succeeded.
HasReached(r, steps) == step[r] \in steps \/ answer[r] = "success"

SetupsStand ==
  \A r \in Setups :
    /\ HasReached(r, {"addToGroup", "lockToStart", "start", "testRunning"}) /\ since[r] \cap Cleanups = {}
         => account[UserOf[r]] = r
    /\ HasReached(r, {"lockToStart", "start", "testRunning"}) /\ since[r] \cap Cleanups = {}
         => UserOf[r] \in admins
    /\ HasReached(r, {"createUser", "addToGroup", "lockToStart", "start", "testRunning"}) /\ since[r] = {}
         => salt[UserOf[r]] = r

CleanupsStand ==
  \A r \in Cleanups :
    /\ HasReached(r, {"deleteSalt", "lockToStop", "stop", "testStopped"}) /\ since[r] = {}
         => account[UserOf[r]] = NoOne
    /\ HasReached(r, {"lockToStop", "stop", "testStopped"}) /\ since[r] = {} => salt[UserOf[r]] = NoOne

PromiseKept == (promised => fresh /\ sshd = "running") /\ (fresh => startTime = "recent")

SshIndInv == SshTypeOK /\ OfKind /\ Answered /\ Overlaps /\ SetupsStand /\ CleanupsStand /\ PromiseKept
=============================================================================
