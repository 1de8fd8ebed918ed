------------------------------ MODULE KtsDaemon ------------------------------
(***************************************************************************)
(* daemon.exe of the bundled server: the loop that accepts connections     *)
(* (KDaemon.hxx), counts the sessions it started (KTermSessions.hxx) and   *)
(* hands each socket to a process of its own (KSocketDup.hxx), and the     *)
(* directory in which these processes count the attempts of an address     *)
(* (KIPBan.hxx), several at a time and without a lock.                     *)
(***************************************************************************)
EXTENDS Integers, Sequences, FiniteSets, SequencesExt

CONSTANTS
  Conns,       \* connections
  Ip,          \* Ip[c]: the address c comes from
  MaxSessions, \* max_sessions
  MaxBan,      \* ban_max_connections; 0 turns the counting off
  RestartBound \* bound: restarts of the service

NoPid == "no process"
BANNED == 99999

\* A ban_max_connections of BANNED or more would make the number of a ban an
\* attempt that is allowed.
ASSUME DaemonAssumption ==
  /\ MaxSessions \in Nat \ {0} /\ MaxBan \in 0..(BANNED - 1) /\ RestartBound \in Nat
  /\ Ip \in [Conns -> STRING] /\ NoPid \notin Conns

VARIABLES
  worker,  \* the thread in AcceptConnections, and the restarts so far
  backlog, \* connections nobody has accepted yet
  conn,    \* conn[c]: what became of the connection
  pids,    \* KTermSessions: process numbers, here the connection or NoPid
  proc,    \* proc[c]: the session process: pc, the file it computes, is it of an earlier run
  ban,     \* files of ban_ip_directory: pairs of a count and an address
  counted  \* history, by address: attempts since the last reset, in all, and
           \* whether two sessions were in the directory at a time

daemonVars == <<worker, backlog, conn, pids, proc, ban, counted>>

Ips == {Ip[c] : c \in Conns}
Dead == {"none", "dead"}
Active(pid) == pid # NoPid /\ proc[pid].pc \notin Dead

DaemonInit ==
  /\ worker = [pc |-> "accept", conn |-> NoPid, restarts |-> 0]
  /\ backlog = <<>>
  /\ conn = [c \in Conns |-> "none"]
  /\ pids = <<>>
  /\ proc = [c \in Conns |-> [pc |-> "none", n |-> <<0, 0>>, old |-> FALSE]]
  /\ ban = {}
  /\ counted = [i \in Ips |-> [since |-> 0, all |-> 0, overlap |-> FALSE]]

-----------------------------------------------------------------------------
(* The directory of KIPBan *)

\* FindIPConnectionState: the count of the first file of the address.
FindIPConnectionState(ip) ==
  LET found == {f[1] : f \in {g \in ban : g[2] = ip}}
  IN  IF found = {} THEN {0} ELSE found

IsBanned(ip) == IF MaxBan = 0 THEN {FALSE} ELSE {n = BANNED : n \in FindIPConnectionState(ip)}

\* Mutant: the last attempt that is allowed already bans.
NextCountEarly(n) == IF n + 1 >= MaxBan THEN BANNED ELSE n + 1

NextCount(n) == IF n + 1 > MaxBan THEN BANNED ELSE n + 1

InDirectory == {"add", "find", "delete", "create", "reset find", "reset delete"}
Others(c) == {d \in Conns \ {c} : Ip[d] = Ip[c] /\ proc[d].pc \in InDirectory}

Counts(c, since, all) ==
  counted' = [counted EXCEPT ![Ip[c]] =
                [since |-> since, all |-> @.all + all,
                 overlap |-> @.overlap \/ Others(c) # {}]]

Proceeds(c, pc, n) == proc' = [proc EXCEPT ![c].pc = pc, ![c].n = n]

\* AddIPBanConnection: the count is read, then ResetIPState reads it again.
AddReads(c) ==
  /\ proc[c].pc = "add"
  /\ \E n \in FindIPConnectionState(Ip[c]) : Proceeds(c, "find", <<NextCount(n), 0>>)
  /\ Counts(c, counted[Ip[c]].since, 1)
  /\ UNCHANGED <<worker, backlog, conn, pids, ban>>

\* ResetIPState: the file that was found is deleted, by its name.
ResetFinds(c) ==
  /\ proc[c].pc \in {"find", "reset find"}
  /\ \E d \in FindIPConnectionState(Ip[c]) :
       Proceeds(c, IF proc[c].pc = "find" THEN "delete" ELSE "reset delete", <<proc[c].n[1], d>>)
  /\ Counts(c, counted[Ip[c]].since, 0)
  /\ UNCHANGED <<worker, backlog, conn, pids, ban>>

ResetDeletes(c) ==
  /\ proc[c].pc \in {"delete", "reset delete"}
  /\ ban' = ban \ {<<proc[c].n[2], Ip[c]>>}
  /\ Proceeds(c, IF proc[c].pc = "delete" THEN "create" ELSE "run", <<proc[c].n[1], 0>>)
  /\ Counts(c, IF proc[c].pc = "delete" THEN counted[Ip[c]].since ELSE 0, 0)
  /\ UNCHANGED <<worker, backlog, conn, pids>>

CreateIPState(c) ==
  /\ proc[c].pc = "create"
  /\ ban' = ban \cup {<<proc[c].n[1], Ip[c]>>}
  /\ Proceeds(c, "login", <<0, 0>>)
  /\ Counts(c, counted[Ip[c]].since + 1, 0)
  /\ UNCHANGED <<worker, backlog, conn, pids>>

\* ResetIPBanConnection, after a logon.
LoggedOn(c) ==
  /\ proc[c].pc = "login"
  /\ Proceeds(c, IF MaxBan = 0 THEN "run" ELSE "reset find", <<0, 0>>)
  /\ UNCHANGED <<worker, backlog, conn, pids, ban, counted>>

-----------------------------------------------------------------------------
(* AcceptConnections *)

At(pc) == worker.pc = pc
Current == worker.conn

Works(pc, c) == worker' = [worker EXCEPT !.pc = pc, !.conn = c]

\* Accept and IsBanned.
Accept ==
  /\ At("accept") /\ backlog # <<>>
  /\ backlog' = Tail(backlog)
  /\ conn' = [conn EXCEPT ![Head(backlog)] = "accepted"]
  /\ \E banned \in IsBanned(Ip[Head(backlog)]) :
       Works(IF banned THEN "refuse" ELSE "count", Head(backlog))
  /\ UNCHANGED <<pids, proc, ban, counted>>

\* KTermSessions::Count, which takes the last of the dead ones out of the list.
Ended(s) == {i \in DOMAIN s : ~Active(s[i])}
Count(s) == Cardinality(DOMAIN s \ Ended(s))

TakesOut ==
  IF Ended(pids) = {} THEN UNCHANGED pids
  ELSE \E last \in Ended(pids) : /\ \A i \in Ended(pids) : i <= last
                                /\ pids' = RemoveAt(pids, last)

CountSessions ==
  /\ At("count")
  /\ TakesOut
  /\ Works(IF Count(pids) >= MaxSessions THEN "refuse" ELSE "create", Current)
  /\ UNCHANGED <<backlog, conn, proc, ban, counted>>

\* Close: half of the connection is shut, then the thread reads until the
\* client shuts the other half.
Refuse ==
  /\ At("refuse") /\ conn[Current] = "accepted"
  /\ conn' = [conn EXCEPT ![Current] = "shut"]
  /\ UNCHANGED <<worker, backlog, pids, proc, ban, counted>>
RefusedCloses ==
  /\ At("refuse") /\ conn[Current] = "closed"
  /\ Works("accept", NoPid)
  /\ UNCHANGED <<backlog, conn, pids, proc, ban, counted>>

\* shlex.exe starts the session and ends; whether it could start it is not known.
CreateProcess ==
  /\ At("create")
  /\ \E pc \in {"starting", "dead"} : proc' = [proc EXCEPT ![Current].pc = pc]
  /\ Works("connect", Current)
  /\ UNCHANGED <<backlog, conn, pids, ban, counted>>

\* shlex.exe could not be started: the loop is left.
CreateProcessFails ==
  /\ At("create")
  /\ conn' = [conn EXCEPT ![Current] = "closed"]
  /\ Works("returned", NoPid)
  /\ UNCHANGED <<backlog, pids, proc, ban, counted>>

\* SendSocket: the pipe of the session is there within 30 seconds, or not.
ConnectsPipe ==
  /\ At("connect") /\ proc[Current].pc = "listening"
  /\ Works("send", Current)
  /\ UNCHANGED <<backlog, conn, pids, proc, ban, counted>>

\* Mutant: Connect without the number of seconds.
SendFailsUnlimited ==
  /\ At("send") /\ proc[Current].pc = "dead"
  /\ \E pid \in Conns \cup {NoPid} : pids' = Append(pids, pid)
  /\ conn' = [conn EXCEPT ![Current] = "closed"]
  /\ Works("accept", NoPid)
  /\ UNCHANGED <<backlog, proc, ban, counted>>

\* A failure before the number of the process was read: what is put down is
\* whatever the variable holds.
SendFails ==
  /\ At("connect") \/ (At("send") /\ proc[Current].pc = "dead")
  /\ \E pid \in Conns \cup {NoPid} : pids' = Append(pids, pid)
  /\ conn' = [conn EXCEPT ![Current] = "closed"]
  /\ Works("accept", NoPid)
  /\ UNCHANGED <<backlog, proc, ban, counted>>

\* The socket cannot be duplicated or described to the process, which ends.
DuplicateFails ==
  /\ At("send") /\ proc[Current].pc = "listening"
  /\ pids' = Append(pids, Current)
  /\ proc' = [proc EXCEPT ![Current].pc = "dead"]
  /\ conn' = [conn EXCEPT ![Current] = "closed"]
  /\ Works("accept", NoPid)
  /\ UNCHANGED <<backlog, ban, counted>>

\* Mutant: the number of the process is put down before it is read.
SendSocketAddsFirst ==
  /\ At("send") /\ proc[Current].pc = "listening"
  /\ pids' = Append(pids, NoPid)
  /\ proc' = [proc EXCEPT ![Current].pc = IF MaxBan = 0 THEN "login" ELSE "add"]
  /\ conn' = [conn EXCEPT ![Current] = "served"]
  /\ Works("accept", NoPid)
  /\ UNCHANGED <<backlog, ban, counted>>

SendSocket ==
  /\ At("send") /\ proc[Current].pc = "listening"
  /\ pids' = Append(pids, Current)
  /\ proc' = [proc EXCEPT ![Current].pc = IF MaxBan = 0 THEN "login" ELSE "add"]
  /\ conn' = [conn EXCEPT ![Current] = "served"]
  /\ Works("accept", NoPid)
  /\ UNCHANGED <<backlog, ban, counted>>

-----------------------------------------------------------------------------
(* Session processes, clients and the service *)

\* GetSocket: the pipe is made.
Listens(c) ==
  /\ proc[c].pc = "starting"
  /\ proc' = [proc EXCEPT ![c].pc = "listening"]
  /\ UNCHANGED <<worker, backlog, conn, pids, ban, counted>>

\* A session may end anywhere; one that nobody hands a socket does, by pipe_io_timeout.
SessionEnds(c) ==
  /\ proc[c].pc \notin Dead
  /\ proc' = [proc EXCEPT ![c].pc = "dead", ![c].n = <<0, 0>>]
  /\ conn' = [conn EXCEPT ![c] = IF @ = "served" THEN "closed" ELSE @]
  /\ counted' = [counted EXCEPT ![Ip[c]].overlap = @ \/ proc[c].pc \in InDirectory]
  /\ UNCHANGED <<worker, backlog, pids, ban>>

Connect(c) ==
  /\ conn[c] = "none" /\ worker.pc # "stopped"
  /\ conn' = [conn EXCEPT ![c] = "queued"]
  /\ backlog' = Append(backlog, c)
  /\ UNCHANGED <<worker, pids, proc, ban, counted>>

\* A refused client closes its half.
ClientCloses(c) ==
  /\ conn[c] = "shut"
  /\ conn' = [conn EXCEPT ![c] = "closed"]
  /\ UNCHANGED <<worker, backlog, pids, proc, ban, counted>>

\* ServiceCtrlHandler terminates the thread wherever it is.
ServiceStops ==
  /\ worker.pc # "stopped" /\ worker.restarts < RestartBound
  /\ worker' = [worker EXCEPT !.pc = "stopped", !.conn = NoPid]
  /\ conn' = [c \in Conns |-> IF conn[c] \in {"queued", "accepted", "shut"} THEN "closed" ELSE conn[c]]
  /\ backlog' = <<>>
  /\ proc' = [c \in Conns |-> [proc[c] EXCEPT !.old = @ \/ proc[c].pc # "none"]]
  /\ UNCHANGED <<pids, ban, counted>>
ServiceStarts ==
  /\ worker.pc = "stopped"
  /\ worker' = [worker EXCEPT !.pc = "accept", !.restarts = @ + 1]
  /\ pids' = <<>>
  /\ UNCHANGED <<backlog, conn, proc, ban, counted>>

AcceptConnections ==
  \/ Accept \/ CountSessions \/ Refuse \/ RefusedCloses \/ CreateProcess
  \/ ConnectsPipe \/ SendFails \/ DuplicateFails \/ SendSocket

DaemonNext ==
  \/ AcceptConnections \/ CreateProcessFails \/ ServiceStops \/ ServiceStarts
  \/ \E c \in Conns :
       \/ Listens(c) \/ SessionEnds(c) \/ Connect(c) \/ ClientCloses(c)
       \/ AddReads(c) \/ ResetFinds(c) \/ ResetDeletes(c) \/ CreateIPState(c) \/ LoggedOn(c)

\* The thread runs, and refused clients close.
DaemonFairness ==
  /\ WF_daemonVars(AcceptConnections)
  /\ \A c \in Conns : WF_daemonVars(ClientCloses(c))

DaemonSpec == DaemonInit /\ [][DaemonNext]_daemonVars /\ DaemonFairness

-----------------------------------------------------------------------------
(* Properties *)

\* The list of processes does not grow: Count takes out at most one for each
\* that is put down, dead or made up by a failed hand-off.
DaemonTypeOK ==
  /\ worker.pc \in {"accept", "count", "refuse", "create", "connect", "send", "returned", "stopped"}
  /\ worker.conn \in Conns \cup {NoPid}
  /\ \A c \in Conns : conn[c] \in {"none", "queued", "accepted", "shut", "served", "closed"}
  /\ pids \in Seq(Conns \cup {NoPid}) /\ Len(pids) <= MaxSessions
  /\ \A f \in ban : f[1] \in 1..MaxBan \cup {BANNED} /\ f[2] \in Ips

\* No more clients are served than max_sessions, whatever numbers failed
\* hand-offs leave in the list; sessions of an earlier run do not count.
SessionsBounded ==
  Cardinality({c \in Conns : conn[c] = "served" /\ ~proc[c].old}) <= MaxSessions

\* Lost updates never ban an address early: a count has that many attempts
\* behind it, and a ban more than ban_max_connections.
BansAreEarned ==
  \A f \in ban : IF f[1] = BANNED THEN counted[f[2]].all > MaxBan
                 ELSE counted[f[2]].all >= f[1]

\* As long as the sessions of an address use the directory one at a time, one
\* file tells the attempts since the last logon (AddIPBanConnection and
\* ResetIPBanConnection read, delete and create it in three steps).
CountsExactly ==
  \A i \in Ips : ~counted[i].overlap /\ (\A c \in Conns : Ip[c] = i => proc[c].pc \notin InDirectory) =>
    LET n == counted[i].since
    IN  {f \in ban : f[2] = i} = IF n = 0 \/ MaxBan = 0 THEN {}
                                 ELSE {<<IF n > MaxBan THEN BANNED ELSE n, i>>}

\* A client is accepted as long as the loop runs, though the thread waits for
\* processes that never come and for refused clients.
ClientsAccepted == []<>(worker.pc = "returned" \/ \A c \in Conns : conn[c] # "queued")

\* The files of the ban directory tell attempts that were made (KIPBan.hxx): never
\* more than there were, and as many as there were if nobody came between.
BanCounts == BansAreEarned /\ CountsExactly
=============================================================================
