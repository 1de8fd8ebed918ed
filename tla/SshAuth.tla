------------------------------ MODULE SshAuth ------------------------------
(***************************************************************************)
(* How a user of the bundled SSH server logs on: processServerAuth of the  *)
(* library (ssh2_auths.c) reads a request, KSsh::Login hands its           *)
(* credentials to the loop of KSession::LoginSSH, that asks Windows, and   *)
(* the verdict goes to the client with the next call into the library.     *)
(* Beside it the health monitor counts the time and ends the process.      *)
(***************************************************************************)
EXTENDS Integers, Sequences, FiniteSets

CONSTANTS
  Users,        \* user names clients send
  Keys,         \* public keys they hold
  Texts,        \* passwords they type
  Account,      \* Account[u]: the password Windows knows for u, see Salt
  Salted,       \* users with a file in C:\vcap\bosh\salt
  Logons,       \* publickey_logon.ini: records [key, user, pass]
  DebugFlag,    \* debug_flag: the process was started for tests
  MaxAttempts,  \* max_login_attempts
  RequestBound, \* bound: requests of the client
  LogonBound    \* bound: turns of LoginSSH, which goes round without requests
                \* once the process ends

ASSUME AuthAssumption ==
  /\ MaxAttempts \in Nat \ {0} /\ RequestBound \in Nat /\ LogonBound \in Nat
  /\ Salted \subseteq Users /\ DebugFlag \in BOOLEAN
  /\ "none" \notin Keys \cup Texts   \* None

VARIABLES
  auth,     \* the library: SSH_INFO, the session's attributes, ke_publickey
  main,     \* the thread in LoginSSH
  ending,   \* the health monitor and what it has begun
  client,   \* the client: where it is, its requests and the answers it got
  toServer, \* requests under way
  toClient, \* answers under way
  checked   \* history: the request the library last left to the caller

vars == <<auth, main, ending, client, toServer, toClient, checked>>

None == "none"
EmptyPassword == "KE_EMPTY_PASSWORD"   \* to the caller a password of no characters
Query == "query"
Password == "password"
Publickey == "publickey"
Unknown == "unknown"   \* hostbased, keyboard-interactive

\* SSH2_MSG_USERAUTH_REQUEST.  signed: the request holds a signature, which is
\* good or not; without one it asks whether the key would do.
Request(user, method, key, text, signed, good) ==
  [user |-> user, method |-> method, key |-> key, text |-> text,
   signed |-> signed, good |-> good]

\* Before the first request the strings of KSsh are empty.
NoRequest == Request(None, None, None, EmptyPassword, FALSE, FALSE)

\* A password comes with the method of that name, a key with publickey.
Requests ==
  {r \in [user : Users, method : {Query, Unknown, Password, Publickey}, key : Keys \cup {None},
          text : Texts \cup {None, EmptyPassword}, signed : BOOLEAN, good : BOOLEAN] :
     /\ r.text # None <=> r.method = Password
     /\ r.key # None <=> r.method = Publickey
     /\ r.signed => r.method = Publickey
     /\ r.good => r.signed}

Init ==
  /\ auth = [read |-> FALSE, response |-> "none", type |-> None, name |-> None,
             user |-> None, pass |-> None, key |-> None]
  /\ main = [at |-> "login", loop |-> 0, attempts |-> 0, reads |-> 0,
             user |-> None, pass |-> EmptyPassword, key |-> None, logons |-> 0]
  /\ ending = [timer |-> TRUE, raised |-> FALSE, terminate |-> FALSE, exited |-> FALSE]
  /\ client = [at |-> "ready", sent |-> 0, got |-> 0]
  /\ toServer = <<>>
  /\ toClient = <<>>
  /\ checked = NoRequest

-----------------------------------------------------------------------------
(* ssh2_auths.c *)

\* Answers of the server.
sendResponseSuccess == "success"
sendResponseFailure(further) == IF further THEN "failure" ELSE "final failure"
PkOk == "pk ok"

\* checkCredentialsConsistent: the same user throughout, one query at most.
\* The method may change.
checkCredentialsConsistent(a, req, initial) ==
  IF initial THEN "OK"
  ELSE IF a.name # req.user THEN "INVALID"
  ELSE IF a.type = Query /\ req.method = Query THEN "BADDATA"
  ELSE "OK"

\* What it leaves in SSH_INFO: the type is kept but for a query's.
Consistent(a, req, initial) ==
  [a EXCEPT !.name = IF initial THEN req.user ELSE @,
            !.type = IF initial \/ @ = Query THEN req.method ELSE @]

Verdict(a, st, said) == [auth |-> a, st |-> st, said |-> said]

\* doPublickeyAuth without a signature, and with one: a bad one is fatal.
doPublickeyQuery(a) == Verdict(a, "NOOP", <<PkOk>>)
doPublickeyAuth(a, req) ==
  IF ~req.good THEN Verdict(a, "SIGNATURE", <<>>)
  ELSE Verdict([a EXCEPT !.key = req.key, !.pass = EmptyPassword], "CALLERCHECK", <<>>)

\* Mutant: a password request leaves the key of an earlier one in place.
processUserAuthKeepsKey(a, req, initial) ==
  LET st == checkCredentialsConsistent(a, req, initial)
      b == [Consistent(a, req, initial) EXCEPT !.user = req.user]
  IN  IF req.method = Unknown THEN Verdict(a, "BADDATA", <<>>)
      ELSE IF st # "OK" THEN Verdict(a, st, <<>>)
      ELSE CASE req.method = Query -> Verdict(b, "NOOP", <<sendResponseFailure(TRUE)>>)
             [] req.method = Password -> Verdict([b EXCEPT !.pass = req.text], "CALLERCHECK", <<>>)
             [] req.method = Publickey /\ req.signed -> doPublickeyAuth(b, req)
             [] OTHER -> doPublickeyQuery(b)

\* processUserAuth with CREDENTIAL_NONE (initial) or CREDENTIAL_USERNAME: the
\* method must be known, then the credentials consistent; a password, before
\* anything else, drops the key of an earlier request.
processUserAuth(a, req, initial) ==
  LET st == checkCredentialsConsistent(a, req, initial)
      b == [Consistent(a, req, initial) EXCEPT
              !.key = IF req.method = Password THEN None ELSE @]
      c == [b EXCEPT !.user = req.user]
  IN  IF req.method = Unknown THEN Verdict(a, "BADDATA", <<>>)
      ELSE IF st # "OK" THEN Verdict(a, st, <<>>)
      ELSE IF ~initial /\ a.user # req.user
      THEN Verdict(b, "WRONGKEY", <<sendResponseFailure(FALSE)>>)
      ELSE CASE req.method = Query -> Verdict(c, "NOOP", <<sendResponseFailure(TRUE)>>)
             [] req.method = Password -> Verdict([c EXCEPT !.pass = req.text],
                                                 "CALLERCHECK", <<>>)
             [] req.method = Publickey /\ req.signed -> doPublickeyAuth(c, req)
             [] OTHER -> doPublickeyQuery(c)

\* processServerAuth up to its first read: a refusal of the caller's is passed on.
ServerAuthBegins(a) ==
  Verdict([a EXCEPT !.response = IF a.read THEN "none" ELSE @], "OK",
          IF a.read THEN <<sendResponseFailure(TRUE)>> ELSE <<>>)

\* processServerAuth behind a read: no-ops are read over, at most two and in
\* the first call only; a third counts as credentials, of which there are none.
ServerAuthStep(a, st, reads) ==
  IF st # "NOOP" THEN st
  ELSE IF a.read THEN "INTERNAL"
  ELSE IF reads < 2 THEN "again" ELSE "CALLERCHECK"

-----------------------------------------------------------------------------
(* KSession and KSsh *)

\* GetSalt and the hash the agent puts into the accounts it makes.
Salt(user, text) == IF user \in Salted THEN <<text, "salt">> ELSE <<text>>

\* KPublickeyLogon::GetPublickeyCredentials.
GetPublickeyCredentials(key, user) == {l \in Logons : l.key = key /\ l.user = user}

\* The password LoginSSH tries: of the account the key stands for, or the
\* one of the request.
TriedPassword(user, pass, key) ==
  LET found == GetPublickeyCredentials(key, user)
  IN  IF key # None /\ found # {} THEN (CHOOSE l \in found : TRUE).pass
      ELSE Salt(user, pass)

\* LogonUser1: a password that must change is a success to the caller.
LogonUser1(user, pass) == DebugFlag \/ (user \in DOMAIN Account /\ Account[user] = pass)

\* TerminateSession: whoever comes first ends the process, whoever comes
\* later returns and goes on as m, at.
TerminateSession(m, at) ==
  /\ ending' = [ending EXCEPT !.terminate = TRUE]
  /\ main' = [m EXCEPT !.at = IF ending.terminate THEN at ELSE "parked"]

Running == ~ending.exited

\* KSsh::Login: from the second time on the last credentials were refused.
LoginBegins ==
  /\ Running /\ main.at = "login"
  /\ \E o \in {ServerAuthBegins(auth)} :
       /\ auth' = o.auth
       /\ toClient' = toClient \o o.said
  /\ main' = [main EXCEPT !.at = "read", !.reads = 0]
  /\ UNCHANGED <<ending, client, toServer, checked>>

\* KSsh::Login after processServerAuth: the attributes are fetched, of which
\* the password may be missing when the user is known, and is not counted then.
LoginReads ==
  /\ Running /\ main.at = "read" /\ toServer # <<>>
  /\ toServer' = Tail(toServer)
  /\ \E o \in {processUserAuth(auth, Head(toServer), ~auth.read /\ main.reads = 0)} :
       LET st == ServerAuthStep(auth, o.st, main.reads)
           a == [o.auth EXCEPT !.read = @ \/ st \notin {"again", "INTERNAL"}]
       IN  /\ auth' = a
           /\ toClient' = toClient \o o.said
           /\ checked' = IF o.st = "CALLERCHECK" THEN Head(toServer) ELSE checked
           /\ CASE st = "again" -> /\ main' = [main EXCEPT !.reads = @ + 1]
                                   /\ UNCHANGED ending
                [] st = "CALLERCHECK" /\ a.pass # None ->
                     /\ main' = [main EXCEPT !.at = "logon", !.user = a.user, !.pass = a.pass,
                                             !.key = a.key, !.attempts = @ + 1]
                     /\ UNCHANGED ending
                [] OTHER -> TerminateSession([main EXCEPT !.user = IF st = "CALLERCHECK"
                                                                   THEN a.user ELSE @], "logon")
  /\ UNCHANGED client

\* The connection is gone, or was closed by the thread that ends the process.
LoginFails ==
  /\ Running /\ main.at = "read" /\ toServer = <<>>
  /\ client.at = "left" \/ ending.terminate
  /\ TerminateSession(main, "logon")
  /\ UNCHANGED <<auth, client, toServer, toClient, checked>>

\* The verdict on the credentials of the moment.
Good(m) == LogonUser1(m.user, TriedPassword(m.user, m.pass, m.key))

\* LoginSSH between two calls of Login: LogonUser1 and the count of refusals.
Logon ==
  /\ Running /\ main.at = "logon" /\ main.logons < LogonBound
  /\ LET m == [main EXCEPT !.logons = @ + 1]
     IN  \/ /\ Good(main)
            /\ main' = [m EXCEPT !.at = "accept"]
            /\ UNCHANGED ending
         \/ /\ ~Good(main) /\ (main.loop + 1 < MaxAttempts \/ ending.terminate)
            /\ main' = [m EXCEPT !.at = "login", !.loop = @ + 1]
            /\ UNCHANGED ending
         \/ /\ ~Good(main) /\ main.loop + 1 >= MaxAttempts /\ ~ending.terminate
            /\ main' = [m EXCEPT !.at = "parked", !.loop = @ + 1]
            /\ ending' = [ending EXCEPT !.terminate = TRUE]
  /\ UNCHANGED <<auth, client, toServer, toClient, checked>>

\* KSsh::Login( true ): the library sends the success, and waits for the
\* client to open its channel.
LoginAccepts ==
  /\ Running /\ main.at = "accept"
  /\ auth' = [auth EXCEPT !.response = "success"]
  /\ toClient' = Append(toClient, sendResponseSuccess)
  /\ main' = [main EXCEPT !.at = "opening"]
  /\ UNCHANGED <<ending, client, toServer, checked>>

\* The flag pass_timeout is disabled when the channel is open.
LoginCompletes ==
  /\ Running /\ main.at = "opening" /\ client.at = "open"
  /\ main' = [main EXCEPT !.at = "in"]
  /\ ending' = [ending EXCEPT !.timer = FALSE, !.raised = FALSE]
  /\ UNCHANGED <<auth, client, toServer, toClient, checked>>

\* The client left before it opened a channel, or the process ends.
LoginNotCompleted ==
  /\ Running /\ main.at = "opening"
  /\ client.at = "left" \/ ending.terminate
  /\ TerminateSession(main, "in")
  /\ UNCHANGED <<auth, client, toServer, toClient, checked>>

\* Mutant: the flag is enabled by a request, not by the start of the login.
PassTimeoutAsked ==
  /\ Running /\ ending.timer /\ ~ending.raised /\ auth.read
  /\ ending' = [ending EXCEPT !.raised = TRUE]
  /\ UNCHANGED <<auth, main, client, toServer, toClient, checked>>

\* HealthMonitorThread: the flag pass_timeout, which is enabled as long as the
\* login lasts.
PassTimeout ==
  /\ Running /\ ending.timer /\ ~ending.raised
  /\ ending' = [ending EXCEPT !.raised = TRUE]
  /\ UNCHANGED <<auth, main, client, toServer, toClient, checked>>

\* The monitor has left its loop for good when it saw the flag.
MonitorTerminates ==
  /\ Running /\ ending.raised /\ ~ending.terminate
  /\ ending' = [ending EXCEPT !.terminate = TRUE]
  /\ UNCHANGED <<auth, main, client, toServer, toClient, checked>>

\* ShutDownThread.
Exit ==
  /\ Running /\ ending.terminate
  /\ ending' = [ending EXCEPT !.exited = TRUE]
  /\ main' = [main EXCEPT !.at = "parked"]
  /\ UNCHANGED <<auth, client, toServer, toClient, checked>>

-----------------------------------------------------------------------------
(* The client: one request at a time, as RFC 4252 has it. *)

ClientAsks ==
  /\ client.at = "ready" /\ client.sent < RequestBound
  /\ \E req \in Requests : toServer' = Append(toServer, req)
  /\ client' = [client EXCEPT !.at = "waits", !.sent = @ + 1]
  /\ UNCHANGED <<auth, main, ending, toClient, checked>>

ClientReads ==
  /\ client.at = "waits" /\ toClient # <<>>
  /\ toClient' = Tail(toClient)
  /\ client' = [client EXCEPT !.got = @ + 1,
                  !.at = CASE Head(toClient) = sendResponseSuccess -> "in"
                           [] Head(toClient) = sendResponseFailure(FALSE) -> "left"
                           [] OTHER -> "ready"]
  /\ UNCHANGED <<auth, main, ending, toServer, checked>>

ClientOpens ==
  /\ client.at = "in"
  /\ client' = [client EXCEPT !.at = "open"]
  /\ UNCHANGED <<auth, main, ending, toServer, toClient, checked>>

ClientLeaves ==
  /\ client.at \in {"ready", "waits", "in"}
  /\ client' = [client EXCEPT !.at = "left"]
  /\ UNCHANGED <<auth, main, ending, toServer, toClient, checked>>

Main ==
  \/ LoginBegins \/ LoginReads \/ LoginFails
  \/ Logon \/ LoginAccepts \/ LoginCompletes \/ LoginNotCompleted

Next ==
  \/ Main \/ PassTimeout \/ MonitorTerminates \/ Exit
  \/ ClientAsks \/ ClientReads \/ ClientOpens \/ ClientLeaves

\* The process runs, time passes, and what is sent arrives; nobody makes the
\* client ask, or open its channel.
Spec == Init /\ [][Next]_vars /\ WF_vars(Main) /\ WF_vars(PassTimeout)
             /\ WF_vars(MonitorTerminates) /\ WF_vars(Exit) /\ WF_vars(ClientReads)

-----------------------------------------------------------------------------
(* Properties *)

AuthType ==
  [read : BOOLEAN, response : {"none", "success"}, type : {None, Query, Password, Publickey},
   name : Users \cup {None}, user : Users \cup {None}, pass : Texts \cup {None, EmptyPassword},
   key : Keys \cup {None}]
MainType ==
  [at : {"login", "read", "logon", "accept", "opening", "in", "parked"},
   loop : Nat, attempts : Nat, reads : 0..2, user : Users \cup {None},
   pass : Texts \cup {None, EmptyPassword}, key : Keys \cup {None}, logons : 0..LogonBound]
EndingType == [timer : BOOLEAN, raised : BOOLEAN, terminate : BOOLEAN, exited : BOOLEAN]
ClientType == [at : {"ready", "waits", "in", "open", "left"}, sent : 0..RequestBound, got : Nat]

\* The threads and the library are in states the code has; at most two no-ops
\* are read over (processServerAuth).
TypeOK ==
  /\ auth \in AuthType /\ main \in MainType /\ ending \in EndingType /\ client \in ClientType
  /\ checked \in Requests \cup {NoRequest}

\* What LoginSSH asks Windows about comes from one request of the client: three
\* attributes and a global of the library hold the credentials, and none of
\* them is left over from an earlier attempt (LoginReads, processUserAuth).  Only
\* the process that already ends asks about a user whom no-ops alone have named.
CredentialsOfOneRequest ==
  /\ main.user = checked.user \/ (checked = NoRequest /\ ending.terminate)
  /\ main.key = IF checked.signed THEN checked.key ELSE None
  /\ main.pass = IF checked.signed THEN EmptyPassword ELSE checked.text
  /\ checked.signed => checked.good

\* What is judged: the last request, or, before any, the user no-ops have named.
Judged == IF checked = NoRequest THEN [NoRequest EXCEPT !.user = main.user] ELSE checked

\* What it shows is good: Windows knows the password, or the one that
\* publickey_logon.ini gives the key that signed.
Deserved ==
  LET rows == {l \in Logons : Judged.signed /\ l.key = Judged.key /\ l.user = Judged.user}
  IN  \/ DebugFlag
      \/ \E l \in rows : Account[Judged.user] = l.pass
      \/ rows = {} /\ Account[Judged.user]
                        = Salt(Judged.user, IF Judged.signed THEN EmptyPassword ELSE Judged.text)

\* Nobody is let in but by the verdict on the last request; a user without a
\* password is, by whoever names it.
AdmittedByRequest ==
  main.at \in {"accept", "opening"} \/ client.at \in {"in", "open"} => Deserved

\* One answer to each request, though the answer to a refused attempt is sent
\* with the next call of Login, and no-ops are answered inside the library.
OneAnswerEach ==
  ~ending.terminate =>
    client.got + Len(toClient)
      = client.sent - Len(toServer)
          - IF auth.read /\ main.at \in {"login", "logon", "accept"} THEN 1 ELSE 0

\* Windows is asked no more than max_login_attempts times, unless the process
\* already ends: then LoginSSH goes round with what it last read.
AttemptsBounded == main.logons > MaxAttempts => ending.terminate

\* A login does not last: it is completed, or pass_timeout ends the process.
LoginEnds == <>(main.at = "in" \/ ending.exited)

\* Whoever is let in is so by the credentials of one request, which are judged
\* once and answered once, with attempts refused, keys tried and the health
\* monitor raising its flag in between (processServerAuth, LoginSSH).
AuthInv ==
  /\ TypeOK /\ CredentialsOfOneRequest /\ AdmittedByRequest
  /\ OneAnswerEach /\ AttemptsBounded

-----------------------------------------------------------------------------
\* What these follow from.

AuthAnswers == {sendResponseSuccess, sendResponseFailure(TRUE), sendResponseFailure(FALSE), PkOk}
AuthWire == toServer \in Seq(Requests) /\ toClient \in Seq(AuthAnswers)

\* A password is noted with credentials that were read, not before.
NothingBeforeRead == ~auth.read => auth.pass = None /\ checked = NoRequest

JudgedWhenRead == main.at \in {"logon", "accept"} /\ ~ending.terminate => auth.read

\* Unless the process ends, Windows is asked once a turn of the loop.
TurnsCounted ==
  ~ending.terminate =>
    /\ main.at # "parked"
    /\ main.at \in {"login", "read", "logon"} => main.logons = main.loop /\ main.loop < MaxAttempts
    /\ main.logons <= MaxAttempts

\* A success is told when nothing more is read.
Admitted == client.at \in {"in", "open"} \/ \E i \in 1..Len(toClient) : toClient[i] = sendResponseSuccess
AdmittedLast ==
  /\ Admitted => main.at \in {"opening", "in", "parked"} /\ Deserved
  /\ main.at \in {"accept", "opening"} => Deserved

AuthIndInv ==
  /\ TypeOK /\ AuthWire /\ CredentialsOfOneRequest /\ OneAnswerEach
  /\ NothingBeforeRead /\ JudgedWhenRead /\ TurnsCounted /\ AdmittedLast
=============================================================================
