----------------------------- MODULE MCSshLogin -----------------------------
(* Instances of the two loops that answer a client inside a session: the    *)
(* authentication and sftp.  They share no state: a behaviour is one of one *)
(* of them, and the other rests in one initial state.                       *)
EXTENDS SshAuth, Sftp

(* The authentication. *)

\* A user the agent made, whose password is hashed, and one without a password.
MCAccount == [u \in Users |-> IF u \in Salted THEN <<"right", "salt">> ELSE <<EmptyPassword>>]

\* One row holds the account's password, the others do not.
MCLogons == {[key |-> "k1", user |-> "vcap", pass |-> <<"right">>],
             [key |-> "k2", user |-> "vcap", pass |-> <<"right", "salt">>],
             [key |-> "k2", user |-> "guest", pass |-> <<"old">>]}

(* Sftp: what a client asks.  It reads, writes, lists, or meets failures. *)

Ask(type, path, off) == [type |-> type, path |-> path, to |-> "/c/g", off |-> off,
                         data |-> <<"a", "b", "c">>[off + 1], id |-> 0, handle |-> NoHandle]
Menu(requests, faulty) == [requests |-> requests, faulty |-> faulty]
MCMenus ==
  {Menu({Ask("OPEN", "/c/f", 0), Ask("OPEN", "/c/g", 0), Ask("READ", "", 0), Ask("READ", "", 2),
         Ask("WRITE", "", 0), Ask("FSTAT", "", 0), Ask("CLOSE", "", 0)}, FALSE),
   Menu({Ask("OPEN", "/c/g", 0), Ask("WRITE", "", 0), Ask("WRITE", "", 1), Ask("WRITE", "", 2),
         Ask("REMOVE", "/c/g", 0)}, FALSE),
   Menu({Ask("OPENDIR", "/c/d", 0), Ask("OPENDIR", "d", 0), Ask("READDIR", "", 0), Ask("REALPATH", ".", 0),
         Ask("REALPATH", "/c/d", 0), Ask("RMDIR", "/c/d", 0), Ask("MKDIR", "d", 0), Ask("CLOSE", "", 0)}, FALSE),
   Menu({Ask("OPEN", "/c/f", 0), Ask("OPEN", "/n/f", 0), Ask("OPENDIR", "/", 0), Ask("READDIR", "", 0),
         Ask("RENAME", "/c/f", 0), Ask("STAT", "/c/f", 0), Ask("FSETSTAT", "/c/f", 0), Ask("INIT", "", 0),
         Ask("SYMLINK", "", 0), Ask("malformed", "", 0)}, TRUE)}

-----------------------------------------------------------------------------

VARIABLE part

loginVars == <<part, vars, sftpVars>>

LoginInit ==
  /\ part \in {"auth", "sftp"}
  /\ Init /\ SftpInit
  /\ part # "sftp" => sftpUser.menu = CHOOSE menu \in SftpMenus : TRUE

OfAuth(A) == part = "auth" /\ A /\ UNCHANGED <<part, sftpVars>>
OfSftp(A) == part = "sftp" /\ A /\ UNCHANGED <<part, vars>>

LoginNext == OfAuth(Next) \/ OfSftp(SftpNext)

\* As the Spec of SshAuth and SftpSpec.
LoginSpec ==
  /\ LoginInit /\ [][LoginNext]_loginVars
  /\ WF_loginVars(OfAuth(Main))
  /\ WF_loginVars(OfAuth(PassTimeout))
  /\ WF_loginVars(OfAuth(MonitorTerminates))
  /\ WF_loginVars(OfAuth(Exit))
  /\ WF_loginVars(OfAuth(ClientReads))
  /\ WF_loginVars(OfSftp(SftpLoop))

\* Every login comes to an end: the user is in or the process exits.
LoginsEnd == [](part # "auth") \/ LoginEnds

\* Both loops get to an answer: of the login, and of each request of sftp.
LoopsAnswer == LoginsEnd /\ SftpAnswers
=============================================================================
