--------------------------- MODULE KtsDaemonProofs ---------------------------
(***************************************************************************)
(* Proofs about KtsDaemon, for any connections, from any addresses, any    *)
(* max_sessions and ban_max_connections, and any number of restarts, and   *)
(* about KtsSetup, for any kts.ini, height of the screen and characters.   *)
(***************************************************************************)
EXTENDS KtsDaemon, KtsSetup, FiniteSetTheorems, SequenceTheorems, WellFoundedInduction, TLAPS

-----------------------------------------------------------------------------
(* Types.                                                                  *)

Places == {"accept", "count", "refuse", "create", "connect", "send", "returned", "stopped"}
ConnStates == {"none", "queued", "accepted", "shut", "served", "closed"}
ProcPlaces == {"none", "dead", "starting", "listening", "login", "run"} \cup InDirectory
Workers == [pc : Places, conn : Conns \cup {NoPid}, restarts : Nat]
Procs == [pc : ProcPlaces, n : Nat \X Nat, old : BOOLEAN]
Tallies == [since : Nat, all : Nat, overlap : BOOLEAN]
FileCounts == 1..MaxBan \cup {BANNED}

Types ==
  /\ worker \in Workers
  /\ backlog \in Seq(Conns)
  /\ conn \in [Conns -> ConnStates]
  /\ pids \in Seq(Conns \cup {NoPid})
  /\ proc \in [Conns -> Procs]
  /\ ban \subseteq FileCounts \X Ips
  /\ counted \in [Ips -> Tallies]

(* A thread of a known place and connection is a worker.                   *)
LEMMA WorksType ==
  ASSUME worker \in Workers, NEW pc \in Places, NEW c \in Conns \cup {NoPid}, Works(pc, c)
  PROVE  worker' \in Workers /\ worker'.pc = pc /\ worker'.conn = c
BY DEF Works, Workers

(* A process goes to a place and a count of the directory, the others stay.*)
LEMMA ProceedsType ==
  ASSUME proc \in [Conns -> Procs], NEW c \in Conns, NEW pc \in ProcPlaces,
         NEW n \in Nat \X Nat, Proceeds(c, pc, n)
  PROVE  /\ proc' \in [Conns -> Procs]
         /\ proc'[c].pc = pc /\ proc'[c].n = n /\ proc'[c].old = proc[c].old
         /\ \A d \in Conns \ {c} : proc'[d] = proc[d]
<1>1. proc[c] \in Procs
  BY DEF Procs
<1>2. proc' = [proc EXCEPT ![c] = [proc[c] EXCEPT !.pc = pc, !.n = n]]
  BY <1>1 DEF Proceeds, Procs
<1>3. [proc[c] EXCEPT !.pc = pc, !.n = n] \in Procs
  BY <1>1 DEF Procs
<1> QED BY <1>1, <1>2, <1>3 DEF Procs

(* A process goes to a place and keeps its count.                          *)
LEMMA PlaceType ==
  ASSUME proc \in [Conns -> Procs], NEW c \in Conns, NEW pc \in ProcPlaces,
         proc' = [proc EXCEPT ![c].pc = pc]
  PROVE  /\ proc' \in [Conns -> Procs]
         /\ proc'[c].pc = pc /\ proc'[c].n = proc[c].n /\ proc'[c].old = proc[c].old
         /\ \A d \in Conns \ {c} : proc'[d] = proc[d]
<1>1. proc[c] \in Procs
  BY DEF Procs
<1>2. [proc[c] EXCEPT !.pc = pc] \in Procs
  BY <1>1 DEF Procs
<1> QED BY <1>1, <1>2 DEF Procs

(* A process that is none of the connections' changes nothing.             *)
LEMMA PlaceOrNoneType ==
  ASSUME proc \in [Conns -> Procs], NEW c, NEW pc \in ProcPlaces,
         proc' = [proc EXCEPT ![c].pc = pc]
  PROVE  proc' \in [Conns -> Procs]
<1>1. CASE c \in Conns
  BY <1>1, PlaceType
<1>2. CASE c \notin Conns
  BY <1>2
<1> QED BY <1>1, <1>2

(* Where the places behind a removed one lie: past the part before it.     *)
LEMMA PlaceAfterTaken ==
  ASSUME NEW n \in Nat, NEW k \in 1..n, NEW i \in 1..(n - k), NEW a, NEW b, a = k - 1, b = n - k
  PROVE  k - 1 + i \in 1..(a + b) /\ ~(k - 1 + i <= a) /\ k - 1 + i - a = i
OBVIOUS

(* Taking a process out of the list leaves every process that is alive in  *)
(* it, and one less where there was a dead one.                            *)
LEMMA TakesOutProperties ==
  ASSUME pids \in Seq(Conns \cup {NoPid}), TakesOut
  PROVE  /\ pids' \in Seq(Conns \cup {NoPid})
         /\ IF Ended(pids) = {} THEN Len(pids') = Len(pids) ELSE Len(pids') = Len(pids) - 1
         /\ \A i \in DOMAIN pids : Active(pids[i]) => \E j \in DOMAIN pids' : pids'[j] = pids[i]
<1> DEFINE S == Conns \cup {NoPid}
<1>1. CASE Ended(pids) = {}
  BY <1>1 DEF TakesOut
<1>2. CASE Ended(pids) # {}
  <2>1. PICK last \in DOMAIN pids : ~Active(pids[last]) /\ pids' = RemoveAt(pids, last)
    BY <1>2 DEF TakesOut, Ended
  <2> DEFINE l == SubSeq(pids, 1, last - 1)
             r == SubSeq(pids, last + 1, Len(pids))
  <2>2. /\ l \in Seq(S) /\ Len(l) = last - 1
        /\ \A i \in 1..(last - 1) : l[i] = pids[i]
    BY <2>1, SubSeqProperties
  <2>3. /\ r \in Seq(S) /\ Len(r) = Len(pids) - last
        /\ \A i \in 1..(Len(pids) - last) : r[i] = pids[last + i]
    BY <2>1, SubSeqProperties
  <2>4. pids' = l \o r
    BY <2>1 DEF RemoveAt
  <2> HIDE DEF l, r, S
  <2>5. /\ pids' \in Seq(S) /\ Len(pids') = Len(pids) - 1
        /\ \A i \in 1..(last - 1) : pids'[i] = pids[i]
        /\ \A i \in 1..(Len(pids) - last) : pids'[last - 1 + i] = pids[last + i]
    <3>1. last \in 1..Len(pids) /\ Len(pids) \in Nat
      BY <2>1
    <3>2. /\ pids' \in Seq(S) /\ Len(pids') = Len(l) + Len(r)
          /\ \A k \in 1..(Len(l) + Len(r)) :
                pids'[k] = IF k <= Len(l) THEN l[k] ELSE r[k - Len(l)]
      BY <2>2, <2>3, <2>4, ConcatProperties, Zenon
    <3>3. ASSUME NEW i \in 1..(last - 1) PROVE pids'[i] = pids[i]
      <4>1. i \in 1..(Len(l) + Len(r)) /\ i <= Len(l)
        <5>1. Len(l) = last - 1 /\ Len(r) = Len(pids) - last
          BY <2>2, <2>3
        <5> QED BY <3>1, <3>3, <5>1
      <4>2. pids'[i] = l[i]
        BY <3>2, <4>1
      <4> QED BY <2>2, <3>3, <4>2
    <3>4. ASSUME NEW i \in 1..(Len(pids) - last)
          PROVE  pids'[last - 1 + i] = pids[last + i]
      <4>1. /\ last - 1 + i \in 1..(Len(l) + Len(r))
            /\ ~(last - 1 + i <= Len(l)) /\ last - 1 + i - Len(l) = i
        <5>1. Len(l) = last - 1 /\ Len(r) = Len(pids) - last
          BY <2>2, <2>3
        <5>2. last \in 1..Len(pids) /\ Len(pids) \in Nat /\ i \in 1..(Len(pids) - last)
          BY <3>1
        <5> QED BY <5>1, <5>2, PlaceAfterTaken
      <4>2. pids'[last - 1 + i] = r[last - 1 + i - Len(l)]
        BY <4>1, <3>2
      <4>3. r[last - 1 + i - Len(l)] = r[i]
        BY <4>1
      <4> QED BY <4>2, <4>3, <2>3
    <3> QED BY <2>2, <2>3, <3>1, <3>2, <3>3, <3>4
  <2>6. ASSUME NEW i \in DOMAIN pids, Active(pids[i])
        PROVE  \E j \in DOMAIN pids' : pids'[j] = pids[i]
    <3>1. CASE i < last
      BY <3>1, <2>1, <2>5
    <3>2. CASE i > last
      <4>1. i - last \in 1..(Len(pids) - last) /\ i - 1 \in DOMAIN pids'
        BY <3>2, <2>1, <2>5
      <4>2. pids'[last - 1 + (i - last)] = pids[last + (i - last)]
        BY <4>1, <2>5
      <4>3. last - 1 + (i - last) = i - 1 /\ last + (i - last) = i
        BY <2>1
      <4> QED BY <4>1, <4>2, <4>3
    <3> QED BY <3>1, <3>2, <2>1, <2>6
  <2> QED BY <1>2, <2>5, <2>6 DEF S
<1> QED BY <1>1, <1>2

(* The address of a connection is one of the addresses.                    *)
LEMMA IpType == ASSUME NEW c \in Conns PROVE Ip[c] \in Ips
BY DEF Ips

(* Counting an attempt never makes the attempts of an address fewer.       *)
LEMMA CountsType ==
  ASSUME counted \in [Ips -> Tallies], NEW c \in Conns, NEW since \in Nat, NEW all \in Nat,
         Counts(c, since, all)
  PROVE  /\ counted' \in [Ips -> Tallies]
         /\ counted'[Ip[c]].all = counted[Ip[c]].all + all
         /\ \A i \in Ips : counted'[i].all >= counted[i].all
<1>1. counted[Ip[c]] \in Tallies
  BY IpType
<1>2. (counted[Ip[c]].overlap \/ Others(c) # {}) \in BOOLEAN
  BY <1>1 DEF Tallies
<1> DEFINE new == [since |-> since, all |-> counted[Ip[c]].all + all,
                   overlap |-> counted[Ip[c]].overlap \/ Others(c) # {}]
<1>3. counted' = [counted EXCEPT ![Ip[c]] = new]
  BY DEF Counts
<1>4. new \in Tallies /\ new.all = counted[Ip[c]].all + all
  BY <1>1, <1>2 DEF Tallies
<1> HIDE DEF new
<1> QED BY <1>1, <1>3, <1>4, IpType DEF Tallies

(* A step that counts no attempt leaves the attempts of every address.     *)
LEMMA NothingCounted ==
  ASSUME counted \in [Ips -> Tallies], NEW c \in Conns, NEW since \in Nat, Counts(c, since, 0)
  PROVE  \A i \in Ips : counted'[i].all = counted[i].all
<1>1. counted[Ip[c]].all \in Nat
  BY IpType DEF Tallies
<1> DEFINE new == [since |-> since, all |-> counted[Ip[c]].all + 0,
                   overlap |-> counted[Ip[c]].overlap \/ Others(c) # {}]
<1>2. counted' = [counted EXCEPT ![Ip[c]] = new]
  BY DEF Counts
<1>3. new.all = counted[Ip[c]].all
  BY <1>1
<1> HIDE DEF new
<1> QED BY <1>2, <1>3, IpType

(* That two sessions were in the directory at a time changes no count.     *)
LEMMA OverlapType ==
  ASSUME counted \in [Ips -> Tallies], NEW c \in Conns, NEW b \in BOOLEAN,
         counted' = [counted EXCEPT ![Ip[c]].overlap = @ \/ b]
  PROVE  /\ counted' \in [Ips -> Tallies]
         /\ \A i \in Ips : counted'[i].all = counted[i].all /\ counted'[i].since = counted[i].since
<1>1. counted[Ip[c]] \in Tallies
  BY IpType
<1>2. (counted[Ip[c]].overlap \/ b) \in BOOLEAN
  BY <1>1 DEF Tallies
<1> DEFINE new == [counted[Ip[c]] EXCEPT !.overlap = counted[Ip[c]].overlap \/ b]
<1>3. counted' = [counted EXCEPT ![Ip[c]] = new]
  OBVIOUS
<1>4. new \in Tallies /\ new.all = counted[Ip[c]].all /\ new.since = counted[Ip[c]].since
  BY <1>1, <1>2 DEF Tallies
<1> HIDE DEF new
<1> QED BY <1>1, <1>3, <1>4, IpType DEF Tallies

(* The number of a ban is no attempt that is allowed.                      *)
LEMMA BanBounds == MaxBan \in Nat /\ MaxBan < BANNED /\ BANNED \in Nat /\ BANNED = 99999
<1>1. BANNED \in Nat /\ BANNED = 99999
  BY DEF BANNED
<1>2. MaxBan \in 0..(BANNED - 1)
  BY DaemonAssumption
<1>3. PICK b \in Nat : b = BANNED
  BY <1>1
<1>4. MaxBan \in 0..(b - 1)
  BY <1>2, <1>3
<1>5. MaxBan \in Nat /\ MaxBan < b
  BY <1>4
<1> QED BY <1>1, <1>3, <1>5

(* Counts of files are numbers, and the next count is one of them.         *)
LEMMA NextCountType ==
  /\ FileCounts \subseteq Nat
  /\ \A n \in Nat : NextCount(n) \in FileCounts
<1>1. MaxBan \in Nat /\ MaxBan < BANNED /\ BANNED \in Nat
  BY BanBounds
<1>2. FileCounts \subseteq Nat
  BY <1>1 DEF FileCounts
<1>3. ASSUME NEW n \in Nat PROVE NextCount(n) \in FileCounts
  <2>1. CASE n + 1 > MaxBan
    BY <2>1 DEF FileCounts, NextCount
  <2>2. CASE n + 1 <= MaxBan
    BY <1>1, <2>2 DEF FileCounts, NextCount
  <2> QED BY <1>1, <2>1, <2>2
<1> QED BY <1>2, <1>3

(* What is read of the directory is nothing or a count of a file in it.    *)
LEMMA FindType ==
  ASSUME ban \subseteq FileCounts \X Ips, NEW i \in Ips, NEW n \in FindIPConnectionState(i)
  PROVE  n \in Nat /\ (n = 0 \/ (n \in FileCounts /\ <<n, i>> \in ban))
<1> DEFINE found == {f[1] : f \in {g \in ban : g[2] = i}}
<1>1. CASE found = {}
  BY <1>1 DEF FindIPConnectionState
<1>2. CASE found # {}
  <2>1. n \in found
    BY <1>2 DEF FindIPConnectionState
  <2>2. PICK f \in ban : f[2] = i /\ n = f[1]
    BY <2>1
  <2>3. f = <<n, i>> /\ n \in FileCounts
    BY <2>2
  <2>4. n \in Nat
    BY <2>3, NextCountType
  <2> QED BY <2>2, <2>3, <2>4
<1> QED BY <1>1, <1>2

(***************************************************************************)
(* The initial state is well typed.                                        *)
(***************************************************************************)
LEMMA TypesInit == DaemonInit => Types
<1> SUFFICES ASSUME DaemonInit PROVE Types
  OBVIOUS
<1>1. worker \in Workers
  BY DEF DaemonInit, Workers, Places
<1>2. proc \in [Conns -> Procs]
  BY DEF DaemonInit, Procs, ProcPlaces
<1>3. counted \in [Ips -> Tallies]
  BY DEF DaemonInit, Tallies
<1> QED BY <1>1, <1>2, <1>3 DEF DaemonInit, Types, ConnStates

(* The steps of the thread that accepts keep the types.                    *)
LEMMA WorkerTypes ==
  ASSUME Types, AcceptConnections \/ CreateProcessFails
  PROVE  Types'
<1> USE DEF Types
<1>1. NoPid \in Conns \cup {NoPid} /\ Current \in Conns \cup {NoPid}
      /\ {"accept", "count", "refuse", "create", "connect", "send", "returned"} \subseteq Places
  BY DEF Current, Workers, Places
<1>2. CASE Accept
  <2>1. Head(backlog) \in Conns /\ Tail(backlog) \in Seq(Conns)
    BY <1>2 DEF Accept
  <2>2. worker' \in Workers
    <3>1. PICK banned \in IsBanned(Ip[Head(backlog)]) :
            Works(IF banned THEN "refuse" ELSE "count", Head(backlog))
      BY <1>2 DEF Accept
    <3> QED BY <3>1, <2>1, <1>1, WorksType
  <2>3. conn' \in [Conns -> ConnStates]
    BY <1>2 DEF Accept, ConnStates
  <2> QED BY <1>2, <2>1, <2>2, <2>3 DEF Accept
<1>3. CASE CountSessions
  <2>1. worker' \in Workers
    BY <1>3, <1>1, WorksType DEF CountSessions
  <2>2. pids' \in Seq(Conns \cup {NoPid})
    BY <1>3, TakesOutProperties DEF CountSessions
  <2> QED BY <1>3, <2>1, <2>2 DEF CountSessions
<1>4. CASE Refuse
  <2>1. conn' \in [Conns -> ConnStates]
    BY <1>4 DEF Refuse, ConnStates
  <2> QED BY <1>4, <2>1 DEF Refuse
<1>5. CASE RefusedCloses
  BY <1>5, <1>1, WorksType DEF RefusedCloses
<1>6. CASE CreateProcess
  <2>1. worker' \in Workers
    BY <1>6, <1>1, WorksType DEF CreateProcess
  <2>2. PICK pc \in {"starting", "dead"} : proc' = [proc EXCEPT ![Current].pc = pc]
    BY <1>6 DEF CreateProcess
  <2>3. proc' \in [Conns -> Procs]
    BY <2>2, PlaceOrNoneType DEF ProcPlaces
  <2> QED BY <1>6, <2>1, <2>3 DEF CreateProcess
<1>7. CASE CreateProcessFails
  <2>1. worker' \in Workers
    BY <1>7, <1>1, WorksType DEF CreateProcessFails
  <2>2. conn' \in [Conns -> ConnStates]
    BY <1>7 DEF CreateProcessFails, ConnStates
  <2> QED BY <1>7, <2>1, <2>2 DEF CreateProcessFails
<1>8. CASE ConnectsPipe
  BY <1>8, <1>1, WorksType DEF ConnectsPipe
<1>9. CASE SendFails
  <2>1. worker' \in Workers
    BY <1>9, <1>1, WorksType DEF SendFails
  <2>2. conn' \in [Conns -> ConnStates]
    BY <1>9 DEF SendFails, ConnStates
  <2>3. pids' \in Seq(Conns \cup {NoPid})
    BY <1>9 DEF SendFails
  <2> QED BY <1>9, <2>1, <2>2, <2>3 DEF SendFails
<1>10. ASSUME DuplicateFails \/ SendSocket PROVE Types'
  <2>1. worker' \in Workers
    BY <1>10, <1>1, WorksType DEF DuplicateFails, SendSocket
  <2>2. conn' \in [Conns -> ConnStates]
    BY <1>10 DEF DuplicateFails, SendSocket, ConnStates
  <2>3. pids' \in Seq(Conns \cup {NoPid})
    <3>1. pids' = Append(pids, Current)
      BY <1>10 DEF DuplicateFails, SendSocket
    <3> QED BY <3>1, <1>1, AppendProperties
  <2>4. PICK pc \in {"dead", "login", "add"} : proc' = [proc EXCEPT ![Current].pc = pc]
    BY <1>10 DEF DuplicateFails, SendSocket
  <2>5. proc' \in [Conns -> Procs]
    BY <2>4, PlaceOrNoneType DEF ProcPlaces, InDirectory
  <2> QED BY <1>10, <2>1, <2>2, <2>3, <2>5 DEF DuplicateFails, SendSocket
<1> QED
  BY <1>2, <1>3, <1>4, <1>5, <1>6, <1>7, <1>8, <1>9, <1>10 DEF AcceptConnections

(***************************************************************************)
(* What BansAreEarned needs of the sessions in the directory: the count    *)
(* one has computed and not yet written has its attempts behind it too.    *)
(***************************************************************************)
Earned(n, all) == IF n = BANNED THEN all > MaxBan ELSE all >= n
Counted ==
  \A c \in Conns : proc[c].pc \in {"find", "delete", "create"} =>
    proc[c].n[1] \in FileCounts /\ Earned(proc[c].n[1], counted[Ip[c]].all)

(* The steps of processes, clients and the service keep the types.         *)
LEMMA OtherTypes ==
  ASSUME Types, Counted,
         \/ ServiceStops \/ ServiceStarts
         \/ \E c \in Conns :
              \/ Listens(c) \/ SessionEnds(c) \/ Connect(c) \/ ClientCloses(c)
              \/ AddReads(c) \/ ResetFinds(c) \/ ResetDeletes(c) \/ CreateIPState(c) \/ LoggedOn(c)
  PROVE  Types'
<1> USE DEF Types
<1>1. CASE ServiceStops
  <2>1. worker' \in Workers
    BY <1>1 DEF ServiceStops, Workers, Places
  <2>2. conn' \in [Conns -> ConnStates]
    BY <1>1 DEF ServiceStops, ConnStates
  <2>3. ASSUME NEW c \in Conns
        PROVE  [proc[c] EXCEPT !.old = @ \/ proc[c].pc # "none"] \in Procs
    <3>1. proc[c] \in Procs
      OBVIOUS
    <3>2. (proc[c].old \/ proc[c].pc # "none") \in BOOLEAN
      BY <3>1 DEF Procs
    <3> QED BY <3>1, <3>2 DEF Procs
  <2>4. proc' \in [Conns -> Procs]
    BY <1>1, <2>3 DEF ServiceStops
  <2> QED BY <1>1, <2>1, <2>2, <2>4 DEF ServiceStops
<1>2. CASE ServiceStarts
  <2>1. worker' \in Workers
    <3>1. worker.restarts + 1 \in Nat
      BY DEF Workers
    <3>2. worker' = [worker EXCEPT !.pc = "accept", !.restarts = worker.restarts + 1]
      BY <1>2 DEF ServiceStarts
    <3> QED BY <3>1, <3>2 DEF Workers, Places
  <2> QED BY <1>2, <2>1 DEF ServiceStarts
<1>3. ASSUME NEW c \in Conns, Listens(c) PROVE Types'
  <2>1. proc' \in [Conns -> Procs]
    BY <1>3, PlaceType DEF Listens, ProcPlaces
  <2> QED BY <1>3, <2>1 DEF Listens
<1>4. ASSUME NEW c \in Conns, SessionEnds(c) PROVE Types'
  <2>1. Proceeds(c, "dead", <<0, 0>>)
    BY <1>4 DEF SessionEnds, Proceeds
  <2>2. proc' \in [Conns -> Procs]
    BY <2>1, ProceedsType DEF ProcPlaces
  <2>3. conn' \in [Conns -> ConnStates]
    BY <1>4 DEF SessionEnds, ConnStates
  <2>4. counted' \in [Ips -> Tallies]
    BY <1>4, OverlapType DEF SessionEnds
  <2> QED BY <1>4, <2>2, <2>3, <2>4 DEF SessionEnds
<1>5. ASSUME NEW c \in Conns, Connect(c) PROVE Types'
  <2>1. conn' \in [Conns -> ConnStates]
    BY <1>5 DEF Connect, ConnStates
  <2>2. backlog' \in Seq(Conns)
    BY <1>5 DEF Connect
  <2> QED BY <1>5, <2>1, <2>2 DEF Connect
<1>6. ASSUME NEW c \in Conns, ClientCloses(c) PROVE Types'
  <2>1. conn' \in [Conns -> ConnStates]
    BY <1>6 DEF ClientCloses, ConnStates
  <2> QED BY <1>6, <2>1 DEF ClientCloses
<1>7. ASSUME NEW c \in Conns, AddReads(c) PROVE Types'
  <2>1. PICK n \in FindIPConnectionState(Ip[c]) : Proceeds(c, "find", <<NextCount(n), 0>>)
    BY <1>7 DEF AddReads
  <2>2. <<NextCount(n), 0>> \in Nat \X Nat
    BY <2>1, IpType, FindType, NextCountType
  <2>3. proc' \in [Conns -> Procs]
    BY <2>1, <2>2, ProceedsType DEF ProcPlaces, InDirectory
  <2>4. counted' \in [Ips -> Tallies]
    BY <1>7, IpType, CountsType DEF AddReads, Tallies
  <2> QED BY <1>7, <2>3, <2>4 DEF AddReads
<1>8. ASSUME NEW c \in Conns, ResetFinds(c) PROVE Types'
  <2>1. PICK d \in FindIPConnectionState(Ip[c]) :
          Proceeds(c, IF proc[c].pc = "find" THEN "delete" ELSE "reset delete", <<proc[c].n[1], d>>)
    BY <1>8 DEF ResetFinds
  <2>2. <<proc[c].n[1], d>> \in Nat \X Nat
    <3>1. d \in Nat
      <4>1. d \in FindIPConnectionState(Ip[c]) /\ Ip[c] \in Ips /\ ban \subseteq FileCounts \X Ips
        BY <2>1, IpType
      <4> QED BY <4>1, FindType
    <3>2. proc[c].n \in Nat \X Nat
      BY DEF Procs
    <3> QED BY <3>1, <3>2
  <2>3. proc' \in [Conns -> Procs]
    BY <2>1, <2>2, ProceedsType DEF ProcPlaces, InDirectory
  <2>4. counted' \in [Ips -> Tallies]
    BY <1>8, IpType, CountsType DEF ResetFinds, Tallies
  <2> QED BY <1>8, <2>3, <2>4 DEF ResetFinds
<1>9. ASSUME NEW c \in Conns, ResetDeletes(c) PROVE Types'
  <2>1. <<proc[c].n[1], 0>> \in Nat \X Nat
    <3>1. proc[c].n \in Nat \X Nat
      BY DEF Procs
    <3> QED BY <3>1
  <2>2. proc' \in [Conns -> Procs]
    BY <1>9, <2>1, ProceedsType DEF ResetDeletes, ProcPlaces, InDirectory
  <2>3. counted' \in [Ips -> Tallies]
    <3>1. PICK since \in Nat : Counts(c, since, 0)
      BY <1>9, IpType DEF ResetDeletes, Tallies
    <3> QED BY <3>1, CountsType
  <2> QED BY <1>9, <2>2, <2>3 DEF ResetDeletes
<1>10. ASSUME NEW c \in Conns, CreateIPState(c) PROVE Types'
  <2>1. <<proc[c].n[1], Ip[c]>> \in FileCounts \X Ips
    BY <1>10, IpType DEF Counted, CreateIPState
  <2>2. proc' \in [Conns -> Procs]
    BY <1>10, ProceedsType DEF CreateIPState, ProcPlaces
  <2>3. counted' \in [Ips -> Tallies]
    <3>1. PICK since \in Nat : Counts(c, since, 0)
      BY <1>10, IpType DEF CreateIPState, Tallies
    <3> QED BY <3>1, CountsType
  <2> QED BY <1>10, <2>1, <2>2, <2>3 DEF CreateIPState
<1>11. ASSUME NEW c \in Conns, LoggedOn(c) PROVE Types'
  <2>1. proc' \in [Conns -> Procs]
    BY <1>11, ProceedsType DEF LoggedOn, ProcPlaces, InDirectory
  <2> QED BY <1>11, <2>1 DEF LoggedOn
<1> QED
  BY <1>1, <1>2, <1>3, <1>4, <1>5, <1>6, <1>7, <1>8, <1>9, <1>10, <1>11

-----------------------------------------------------------------------------
(* Bans.                                                                   *)

(* More attempts never take a count its attempts away.                     *)
LEMMA EarnedMonotone ==
  ASSUME NEW n \in FileCounts, NEW before \in Nat, NEW after \in Nat, after >= before,
         Earned(n, before)
  PROVE  Earned(n, after)
<1>1. n \in Nat /\ MaxBan \in Nat
  BY NextCountType, DaemonAssumption
<1> QED BY <1>1 DEF Earned

(* The attempts of an address are a number before and after a step.        *)
LEMMA AllType ==
  ASSUME counted \in [Ips -> Tallies], NEW i \in Ips
  PROVE  counted[i].all \in Nat
BY DEF Tallies

(* A step that counts and changes one session's place only: if the count   *)
(* this session has is earned, all are.                                    *)
LEMMA CountedStep ==
  ASSUME Types, Types', Counted, NEW c \in Conns,
         \A i \in Ips : counted'[i].all >= counted[i].all,
         \A d \in Conns \ {c} : proc'[d] = proc[d],
         proc'[c].pc \in {"find", "delete", "create"} =>
           proc'[c].n[1] \in FileCounts /\ Earned(proc'[c].n[1], counted'[Ip[c]].all)
  PROVE  Counted'
<1>1. ASSUME NEW d \in Conns, proc'[d].pc \in {"find", "delete", "create"}
      PROVE  proc'[d].n[1] \in FileCounts /\ Earned(proc'[d].n[1], counted'[Ip[d]].all)
  <2>1. CASE d = c
    BY <1>1, <2>1
  <2>2. CASE d # c
    <3>1. proc'[d] = proc[d] /\ proc[d].n[1] \in FileCounts /\ Earned(proc[d].n[1], counted[Ip[d]].all)
      BY <1>1, <2>2 DEF Counted
    <3>2. counted[Ip[d]].all \in Nat /\ counted'[Ip[d]].all \in Nat
      BY IpType DEF Types, Tallies
    <3> QED BY <3>1, <3>2, EarnedMonotone, IpType
  <2> QED BY <2>1, <2>2
<1> QED BY <1>1 DEF Counted

(* The thread that accepts counts no attempt.                              *)
LEMMA WorkerKeepsTallies ==
  ASSUME AcceptConnections \/ CreateProcessFails
  PROVE  counted' = counted
BY DEF AcceptConnections, CreateProcessFails, Accept, CountSessions, Refuse, RefusedCloses,
       CreateProcess, ConnectsPipe, SendFails, DuplicateFails, SendSocket

(* The thread that accepts puts no session where a count matters.          *)
LEMMA WorkerCounted ==
  ASSUME Types, Types', Counted, AcceptConnections \/ CreateProcessFails
  PROVE  Counted'
<1>1. counted' = counted
  BY WorkerKeepsTallies
<1>2. \/ proc' = proc
      \/ \E pc \in {"starting", "dead", "login", "add"} : proc' = [proc EXCEPT ![Current].pc = pc]
  BY DEF AcceptConnections, CreateProcessFails, Accept, CountSessions, Refuse, RefusedCloses,
         CreateProcess, ConnectsPipe, SendFails, DuplicateFails, SendSocket
<1>3. ASSUME NEW d \in Conns, proc'[d].pc \in {"find", "delete", "create"}
      PROVE  proc'[d] = proc[d]
  <2>1. CASE proc' = proc
    BY <2>1
  <2>2. ASSUME NEW pc \in {"starting", "dead", "login", "add"}, proc' = [proc EXCEPT ![Current].pc = pc]
        PROVE  proc'[d] = proc[d]
    <3>1. proc \in [Conns -> Procs] /\ pc \in ProcPlaces
      BY DEF Types, ProcPlaces, InDirectory
    <3>2. CASE d = Current
      <4>1. proc'[d].pc = pc
        BY <3>1, <3>2, <2>2, PlaceType
      <4> QED BY <4>1, <1>3
    <3>3. CASE d # Current
      BY <3>1, <3>3, <2>2
    <3> QED BY <3>2, <3>3
  <2> QED BY <1>2, <2>1, <2>2
<1> QED BY <1>1, <1>3 DEF Counted

(* The steps of processes, clients and the service keep counts earned.     *)
LEMMA OtherCounted ==
  ASSUME Types, Types', Counted, BansAreEarned,
         \/ ServiceStops \/ ServiceStarts
         \/ \E c \in Conns :
              \/ Listens(c) \/ SessionEnds(c) \/ Connect(c) \/ ClientCloses(c)
              \/ AddReads(c) \/ ResetFinds(c) \/ ResetDeletes(c) \/ CreateIPState(c) \/ LoggedOn(c)
  PROVE  Counted'
<1>1. /\ proc \in [Conns -> Procs] /\ counted \in [Ips -> Tallies] /\ ban \subseteq FileCounts \X Ips
      /\ \A c \in Conns : proc[c] \in Procs /\ proc[c].n \in Nat \X Nat
  BY DEF Types, Procs
<1>2. CASE ServiceStops
  <2>1. ASSUME NEW c \in Conns PROVE proc'[c].pc = proc[c].pc /\ proc'[c].n = proc[c].n
    BY <1>1, <1>2 DEF ServiceStops, Procs
  <2> QED BY <1>2, <2>1 DEF Counted, ServiceStops
<1>3. CASE ServiceStarts
  BY <1>3 DEF Counted, ServiceStarts
<1>4. ASSUME NEW c \in Conns, Listens(c) PROVE Counted'
  <2>1. proc'[c].pc = "starting" \/ proc'[c].pc = "listening"
    BY <1>1, <1>4, PlaceType DEF Listens, ProcPlaces
  <2>2. \A d \in Conns \ {c} : proc'[d] = proc[d]
    BY <1>1, <1>4, PlaceType DEF Listens, ProcPlaces
  <2>3. counted' = counted
    BY <1>4 DEF Listens
  <2> QED BY <2>1, <2>2, <2>3 DEF Counted
<1>5. ASSUME NEW c \in Conns, SessionEnds(c) PROVE Counted'
  <2>1. Proceeds(c, "dead", <<0, 0>>)
    BY <1>5 DEF SessionEnds, Proceeds
  <2>2. proc'[c].pc = "dead" /\ \A d \in Conns \ {c} : proc'[d] = proc[d]
    BY <1>1, <2>1, ProceedsType DEF ProcPlaces
  <2>3. \A i \in Ips : counted'[i].all = counted[i].all
    BY <1>1, <1>5, OverlapType DEF SessionEnds
  <2> QED BY <2>2, <2>3, IpType DEF Counted
<1>6. ASSUME NEW c \in Conns, Connect(c) \/ ClientCloses(c) PROVE Counted'
  BY <1>6 DEF Counted, Connect, ClientCloses
<1>7. ASSUME NEW c \in Conns, AddReads(c) PROVE Counted'
  <2>1. PICK n \in FindIPConnectionState(Ip[c]) : Proceeds(c, "find", <<NextCount(n), 0>>)
    BY <1>7 DEF AddReads
  <2>2. n = 0 \/ (n \in FileCounts /\ <<n, Ip[c]>> \in ban)
    BY <1>1, <2>1, IpType, FindType
  <2>3. n \in Nat /\ NextCount(n) \in FileCounts
    <3>1. n \in Nat
      BY <1>1, <2>1, IpType, FindType
    <3> QED BY <3>1, NextCountType
  <2>4. /\ proc'[c].n = <<NextCount(n), 0>>
        /\ \A d \in Conns \ {c} : proc'[d] = proc[d]
    <3>1. <<NextCount(n), 0>> \in Nat \X Nat
      BY <2>3, NextCountType
    <3>2. "find" \in ProcPlaces
      BY DEF ProcPlaces, InDirectory
    <3> QED BY <1>1, <2>1, <3>1, <3>2, ProceedsType
  <2>5. /\ counted'[Ip[c]].all = counted[Ip[c]].all + 1
        /\ \A i \in Ips : counted'[i].all >= counted[i].all
    <3>1. counted[Ip[c]].since \in Nat
      BY <1>1, IpType DEF Tallies
    <3> QED BY <1>1, <1>7, <3>1, CountsType DEF AddReads
  <2>6. Earned(NextCount(n), counted'[Ip[c]].all)
    <3>1. MaxBan \in Nat /\ MaxBan < BANNED /\ BANNED = 99999
      BY BanBounds
    <3>2. counted[Ip[c]].all \in Nat
      BY <1>1, IpType, AllType
    <3>3. n = 0 \/ Earned(n, counted[Ip[c]].all)
      BY <2>2 DEF BansAreEarned, Earned
    <3> QED BY <2>3, <2>5, <3>1, <3>2, <3>3 DEF Earned, NextCount
  <2> QED BY <2>3, <2>4, <2>5, <2>6, CountedStep
<1>8. ASSUME NEW c \in Conns, ResetFinds(c) PROVE Counted'
  <2>1. PICK d \in FindIPConnectionState(Ip[c]) :
          Proceeds(c, IF proc[c].pc = "find" THEN "delete" ELSE "reset delete", <<proc[c].n[1], d>>)
    BY <1>8 DEF ResetFinds
  <2>2. d \in Nat
    BY <1>1, <2>1, IpType, FindType
  <2>3. <<proc[c].n[1], d>> \in Nat \X Nat
    BY <1>1, <2>2
  <2>4. /\ proc'[c].pc = IF proc[c].pc = "find" THEN "delete" ELSE "reset delete"
        /\ proc'[c].n[1] = proc[c].n[1]
        /\ \A e \in Conns \ {c} : proc'[e] = proc[e]
    <3> DEFINE pc == IF proc[c].pc = "find" THEN "delete" ELSE "reset delete"
               n == <<proc[c].n[1], d>>
    <3>1. pc \in ProcPlaces /\ Proceeds(c, pc, n)
      BY <2>1 DEF ProcPlaces, InDirectory
    <3>2. n \in Nat \X Nat /\ n[1] = proc[c].n[1]
      BY <2>3
    <3> HIDE DEF pc, n
    <3>3. /\ proc'[c].pc = pc /\ proc'[c].n = n
          /\ \A e \in Conns \ {c} : proc'[e] = proc[e]
      BY <1>1, <3>1, <3>2, ProceedsType
    <3> QED BY <3>2, <3>3 DEF pc
  <2>5. \A i \in Ips : counted'[i].all = counted[i].all
    <3>1. counted[Ip[c]].since \in Nat /\ counted[Ip[c]].all \in Nat
      BY <1>1, IpType DEF Tallies
    <3> QED BY <1>1, <1>8, <3>1, NothingCounted DEF ResetFinds
  <2> QED BY <2>4, <2>5, IpType DEF Counted
<1>9. ASSUME NEW c \in Conns, ResetDeletes(c) PROVE Counted'
  <2>1. <<proc[c].n[1], 0>> \in Nat \X Nat
    BY <1>1
  <2>2. /\ proc'[c].pc = IF proc[c].pc = "delete" THEN "create" ELSE "run"
        /\ proc'[c].n[1] = proc[c].n[1]
        /\ \A e \in Conns \ {c} : proc'[e] = proc[e]
    <3> DEFINE pc == IF proc[c].pc = "delete" THEN "create" ELSE "run"
    <3>1. pc \in ProcPlaces /\ Proceeds(c, pc, <<proc[c].n[1], 0>>)
      BY <1>9 DEF ResetDeletes, ProcPlaces, InDirectory
    <3> HIDE DEF pc
    <3>2. /\ proc'[c].pc = pc /\ proc'[c].n = <<proc[c].n[1], 0>>
          /\ \A e \in Conns \ {c} : proc'[e] = proc[e]
      BY <1>1, <2>1, <3>1, ProceedsType
    <3> QED BY <3>2 DEF pc
  <2>3. \A i \in Ips : counted'[i].all = counted[i].all
    <3>1. PICK since \in Nat : Counts(c, since, 0)
      BY <1>1, <1>9, IpType DEF ResetDeletes, Tallies
    <3> QED BY <1>1, <3>1, NothingCounted
  <2>4. proc[c].pc = "delete" \/ proc[c].pc = "reset delete"
    BY <1>9 DEF ResetDeletes
  <2> QED BY <2>2, <2>3, <2>4, IpType DEF Counted
<1>10. ASSUME NEW c \in Conns, CreateIPState(c) PROVE Counted'
  <2>1. /\ proc'[c].pc = "login"
        /\ \A e \in Conns \ {c} : proc'[e] = proc[e]
    BY <1>1, <1>10, ProceedsType DEF CreateIPState, ProcPlaces
  <2>2. \A i \in Ips : counted'[i].all = counted[i].all
    <3>1. PICK since \in Nat : Counts(c, since, 0)
      BY <1>1, <1>10, IpType DEF CreateIPState, Tallies
    <3> QED BY <1>1, <3>1, NothingCounted
  <2> QED BY <2>1, <2>2, IpType DEF Counted
<1>11. ASSUME NEW c \in Conns, LoggedOn(c) PROVE Counted'
  <2>1. /\ proc'[c].pc \in {"run", "reset find"}
        /\ \A e \in Conns \ {c} : proc'[e] = proc[e]
    BY <1>1, <1>11, ProceedsType DEF LoggedOn, ProcPlaces, InDirectory
  <2>2. counted' = counted
    BY <1>11 DEF LoggedOn
  <2> QED BY <2>1, <2>2 DEF Counted
<1> QED
  BY <1>2, <1>3, <1>4, <1>5, <1>6, <1>7, <1>8, <1>9, <1>10, <1>11

(* No step makes the attempts of an address fewer.                         *)
LEMMA MoreAttempts ==
  ASSUME Types, DaemonNext
  PROVE  \A i \in Ips : counted'[i].all >= counted[i].all
<1>1. counted \in [Ips -> Tallies] /\ \A i \in Ips : counted[i].all \in Nat
  BY DEF Types, Tallies
<1>2. ASSUME NEW c \in Conns, SessionEnds(c) PROVE \A i \in Ips : counted'[i].all = counted[i].all
  BY <1>1, <1>2, OverlapType DEF SessionEnds
<1>3. ASSUME NEW c \in Conns,
             AddReads(c) \/ ResetFinds(c) \/ ResetDeletes(c) \/ CreateIPState(c)
      PROVE  \A i \in Ips : counted'[i].all >= counted[i].all
  <2>1. counted[Ip[c]].since \in Nat
    BY <1>1, IpType DEF Tallies
  <2>2. CASE AddReads(c)
    BY <1>1, <2>1, <2>2, CountsType DEF AddReads
  <2>3. CASE ResetFinds(c)
    BY <1>1, <2>1, <2>3, CountsType DEF ResetFinds
  <2>4. CASE ResetDeletes(c)
    <3>1. PICK since \in Nat : Counts(c, since, 0)
      BY <2>1, <2>4 DEF ResetDeletes
    <3> QED BY <1>1, <3>1, CountsType
  <2>5. CASE CreateIPState(c)
    <3>1. counted[Ip[c]].since + 1 \in Nat /\ Counts(c, counted[Ip[c]].since + 1, 0)
      BY <2>1, <2>5 DEF CreateIPState
    <3> QED BY <1>1, <3>1, CountsType
  <2> QED BY <1>3, <2>2, <2>3, <2>4, <2>5
<1>4. CASE UNCHANGED counted
  BY <1>1, <1>4
<1>5. CASE AcceptConnections \/ CreateProcessFails
  BY <1>4, <1>5, WorkerKeepsTallies
<1>6. CASE ServiceStops \/ ServiceStarts
  BY <1>4, <1>6 DEF ServiceStops, ServiceStarts
<1>7. ASSUME NEW c \in Conns, Listens(c) \/ Connect(c) \/ ClientCloses(c) \/ LoggedOn(c)
      PROVE  \A i \in Ips : counted'[i].all >= counted[i].all
  BY <1>4, <1>7 DEF Listens, Connect, ClientCloses, LoggedOn
<1>8. ASSUME NEW c \in Conns, SessionEnds(c) PROVE \A i \in Ips : counted'[i].all >= counted[i].all
  BY <1>1, <1>2, <1>8
<1> QED
  BY <1>3, <1>5, <1>6, <1>7, <1>8 DEF DaemonNext

(* Every file the directory gets is earned.                                *)
LEMMA BansStep ==
  ASSUME Types, Types', Counted, BansAreEarned, DaemonNext
  PROVE  BansAreEarned'
<1>1. /\ counted \in [Ips -> Tallies] /\ ban \subseteq FileCounts \X Ips
      /\ counted' \in [Ips -> Tallies]
  BY DEF Types
<1>2. \A i \in Ips : counted'[i].all >= counted[i].all
  BY <1>1, MoreAttempts
<1>3. ASSUME NEW f \in ban PROVE Earned(f[1], counted'[f[2]].all)
  <2>1. f[1] \in FileCounts /\ f[2] \in Ips /\ Earned(f[1], counted[f[2]].all)
    BY <1>1 DEF BansAreEarned, Earned
  <2>2. counted[f[2]].all \in Nat /\ counted'[f[2]].all \in Nat
        /\ counted'[f[2]].all >= counted[f[2]].all
    BY <1>1, <1>2, <2>1 DEF Tallies
  <2> QED BY <2>1, <2>2, EarnedMonotone
<1>4. ASSUME NEW f \in ban', f \notin ban
      PROVE  Earned(f[1], counted'[f[2]].all)
  <2>1. PICK c \in Conns : CreateIPState(c)
    BY <1>4 DEF DaemonNext, AcceptConnections, CreateProcessFails, Accept, CountSessions, Refuse,
         RefusedCloses, CreateProcess, ConnectsPipe, SendFails, DuplicateFails, SendSocket,
         ServiceStops, ServiceStarts, Listens, SessionEnds, Connect, ClientCloses, AddReads,
         ResetFinds, ResetDeletes, LoggedOn
  <2>2. f = <<proc[c].n[1], Ip[c]>>
    BY <1>4, <2>1 DEF CreateIPState
  <2>3. proc[c].n[1] \in FileCounts /\ Earned(proc[c].n[1], counted[Ip[c]].all)
    BY <2>1 DEF Counted, CreateIPState
  <2>4. Earned(proc[c].n[1], counted'[Ip[c]].all)
    <3>1. counted[Ip[c]].all \in Nat /\ counted'[Ip[c]].all \in Nat
          /\ counted'[Ip[c]].all >= counted[Ip[c]].all
      BY <1>1, <1>2, IpType DEF Tallies
    <3> QED BY <2>3, <3>1, EarnedMonotone
  <2> QED BY <2>2, <2>4
<1>5. \A f \in ban' : Earned(f[1], counted'[f[2]].all)
  BY <1>3, <1>4
<1> QED BY <1>5 DEF BansAreEarned, Earned

-----------------------------------------------------------------------------
(* Sessions.                                                               *)

(***************************************************************************)
(* What the bound on sessions needs: a connection the thread works on is   *)
(* accepted and not served, so that starting its process ends no session;  *)
(* there is room in the list for the process that is put down next; every  *)
(* session of this run has a living process that is in the list.           *)
(***************************************************************************)
Served(c) == conn[c] = "served" /\ ~proc[c].old
Listed ==
  /\ worker.pc \in {"count", "create", "connect", "send"} =>
       worker.conn \in Conns /\ conn[worker.conn] = "accepted"
  /\ Len(pids) <= MaxSessions
  /\ worker.pc \in {"create", "connect", "send"} => Len(pids) < MaxSessions
  /\ \A c \in Conns : conn[c] = "served" => proc[c].pc \notin Dead
  /\ \A c \in Conns : Served(c) => worker.pc # "stopped" /\ \E i \in DOMAIN pids : pids[i] = c

(* The length of the list is a number.                                     *)
LEMMA LenType == ASSUME Types PROVE Len(pids) \in Nat
BY DEF Types

(* The list after a process was put down.                                  *)
LEMMA PutDown ==
  ASSUME Types, NEW pid \in Conns \cup {NoPid}, pids' = Append(pids, pid)
  PROVE  /\ Len(pids') = Len(pids) + 1
         /\ \A i \in DOMAIN pids : i \in DOMAIN pids' /\ pids'[i] = pids[i]
         /\ Len(pids') \in DOMAIN pids' /\ pids'[Len(pids')] = pid
<1>1. pids \in Seq(Conns \cup {NoPid})
  BY DEF Types
<1> QED BY <1>1, AppendProperties

(* The thread that accepts keeps the list: while it works on a connection  *)
(* nothing it does touches a session.                                      *)
LEMMA WorkerListed ==
  ASSUME Types, Types', Listed, AcceptConnections \/ CreateProcessFails
  PROVE  Listed'
<1>1. /\ worker \in Workers /\ conn \in [Conns -> ConnStates] /\ proc \in [Conns -> Procs]
      /\ pids \in Seq(Conns \cup {NoPid}) /\ Len(pids) \in Nat /\ MaxSessions \in Nat \ {0}
  BY LenType, DaemonAssumption DEF Types
<1>2. CASE Accept
  <2>1. Head(backlog) \in Conns
    BY <1>2 DEF Accept, Types
  <2>2. PICK pc \in {"refuse", "count"} : Works(pc, Head(backlog))
    BY <1>2 DEF Accept
  <2>3. worker'.pc = pc /\ worker'.conn = Head(backlog)
    BY <1>1, <2>1, <2>2, WorksType DEF Places
  <2>4. /\ conn'[Head(backlog)] = "accepted"
        /\ \A d \in Conns : conn'[d] = "served" => conn[d] = "served"
        /\ pids' = pids /\ proc' = proc
    BY <1>1, <1>2, <2>1 DEF Accept
  <2> QED BY <2>1, <2>2, <2>3, <2>4 DEF Listed, Served
<1>3. CASE CountSessions
  <2>1. conn' = conn /\ proc' = proc /\ TakesOut
        /\ Works(IF Count(pids) >= MaxSessions THEN "refuse" ELSE "create", Current)
        /\ worker.pc = "count"
    BY <1>3 DEF CountSessions, At
  <2>2. worker'.conn = worker.conn
        /\ worker'.pc = IF Count(pids) >= MaxSessions THEN "refuse" ELSE "create"
    BY <1>1, <2>1, WorksType DEF Current, Places, Workers
  <2>3. worker.conn \in Conns /\ conn[worker.conn] = "accepted"
    BY <2>1 DEF Listed
  <2>4. Len(pids') <= MaxSessions
    BY <1>1, <2>1, TakesOutProperties DEF Listed
  <2>5. worker'.pc = "create" => Len(pids') < MaxSessions
    <3>1. CASE Ended(pids) = {}
      <4>1. Count(pids) = Len(pids)
        <5>1. DOMAIN pids \ Ended(pids) = 1..Len(pids)
          BY <1>1, <3>1
        <5>2. Cardinality(1..Len(pids)) = Len(pids)
          BY <1>1, FS_Interval
        <5> QED BY <5>1, <5>2 DEF Count
      <4> QED BY <1>1, <2>1, <2>2, <3>1, <4>1, TakesOutProperties
    <3>2. CASE Ended(pids) # {}
      BY <1>1, <2>1, <3>2, TakesOutProperties DEF Listed
    <3> QED BY <3>1, <3>2
  <2>6. ASSUME NEW c \in Conns, Served(c)
        PROVE  \E i \in DOMAIN pids' : pids'[i] = c
    <3>1. PICK i \in DOMAIN pids : pids[i] = c
      BY <2>6 DEF Listed
    <3>2. Active(pids[i])
      BY <2>6, <3>1, DaemonAssumption DEF Active, Served, Listed
    <3> QED BY <1>1, <2>1, <3>1, <3>2, TakesOutProperties
  <2> QED BY <2>1, <2>2, <2>3, <2>4, <2>5, <2>6 DEF Listed, Served
<1>4. CASE Refuse
  <2>1. /\ worker' = worker /\ pids' = pids /\ proc' = proc /\ worker.pc = "refuse"
        /\ \A d \in Conns : conn'[d] = "served" => conn[d] = "served"
    BY <1>1, <1>4 DEF Refuse, At
  <2> QED BY <2>1 DEF Listed, Served
<1>5. CASE RefusedCloses
  <2>1. worker'.pc = "accept" /\ pids' = pids /\ proc' = proc /\ conn' = conn
    BY <1>1, <1>5, WorksType DEF RefusedCloses, Places
  <2> QED BY <2>1 DEF Listed, Served
<1>6. CASE CreateProcess
  <2>1. worker.pc = "create" /\ worker.conn \in Conns /\ conn[worker.conn] = "accepted"
    BY <1>6 DEF CreateProcess, At, Listed
  <2>2. PICK pc \in {"starting", "dead"} : proc' = [proc EXCEPT ![worker.conn].pc = pc]
    BY <1>6 DEF CreateProcess, Current
  <2>3. \A d \in Conns \ {worker.conn} : proc'[d] = proc[d]
    BY <1>1, <2>1, <2>2, PlaceType DEF ProcPlaces
  <2>4. worker'.pc = "connect" /\ worker'.conn = worker.conn /\ pids' = pids /\ conn' = conn
    BY <1>1, <1>6, <2>1, WorksType DEF CreateProcess, Places, Current
  <2> QED BY <2>1, <2>3, <2>4 DEF Listed, Served
<1>7. CASE CreateProcessFails
  <2>1. /\ worker'.pc = "returned" /\ pids' = pids /\ proc' = proc
        /\ \A d \in Conns : conn'[d] = "served" => conn[d] = "served"
    BY <1>1, <1>7, WorksType DEF CreateProcessFails, Places
  <2> QED BY <2>1 DEF Listed, Served
<1>8. CASE ConnectsPipe
  <2>1. /\ worker'.pc = "send" /\ worker'.conn = worker.conn
        /\ pids' = pids /\ proc' = proc /\ conn' = conn /\ worker.pc = "connect"
    BY <1>1, <1>8, WorksType DEF ConnectsPipe, Places, At, Current, Workers
  <2> QED BY <2>1 DEF Listed, Served
<1>9. CASE SendFails
  <2>1. PICK pid \in Conns \cup {NoPid} : pids' = Append(pids, pid)
    BY <1>9 DEF SendFails
  <2>2. /\ worker'.pc = "accept" /\ proc' = proc /\ worker.pc \in {"connect", "send"}
        /\ \A d \in Conns : conn'[d] = "served" => conn[d] = "served"
    BY <1>1, <1>9, WorksType DEF SendFails, Places, At
  <2> QED BY <1>1, <2>1, <2>2, PutDown DEF Listed, Served
<1>10. CASE DuplicateFails
  <2>1. /\ worker.pc = "send" /\ worker.conn \in Conns /\ conn[worker.conn] = "accepted"
        /\ pids' = Append(pids, worker.conn)
    BY <1>10 DEF DuplicateFails, At, Listed, Current
  <2>2. \A d \in Conns \ {worker.conn} : proc'[d] = proc[d]
    BY <1>1, <1>10, <2>1, PlaceType DEF DuplicateFails, ProcPlaces, Current
  <2>3. /\ worker'.pc = "accept" /\ conn'[worker.conn] = "closed"
        /\ \A d \in Conns : conn'[d] = "served" => conn[d] = "served"
    BY <1>1, <1>10, <2>1, WorksType DEF DuplicateFails, Places, Current
  <2> QED BY <1>1, <2>1, <2>2, <2>3, PutDown DEF Listed, Served
<1>11. CASE SendSocket
  <2>1. /\ worker.pc = "send" /\ worker.conn \in Conns /\ conn[worker.conn] = "accepted"
        /\ pids' = Append(pids, worker.conn)
    BY <1>11 DEF SendSocket, At, Listed, Current
  <2>2. PICK pc \in {"login", "add"} : proc' = [proc EXCEPT ![worker.conn].pc = pc]
    BY <1>11 DEF SendSocket, Current
  <2>3. proc'[worker.conn].pc = pc /\ \A d \in Conns \ {worker.conn} : proc'[d] = proc[d]
    BY <1>1, <2>1, <2>2, PlaceType DEF ProcPlaces, InDirectory
  <2>4. /\ worker'.pc = "accept"
        /\ \A d \in Conns \ {worker.conn} : conn'[d] = conn[d]
    BY <1>1, <1>11, <2>1, WorksType DEF SendSocket, Places, Current
  <2>5. /\ Len(pids') = Len(pids) + 1 /\ Len(pids) < MaxSessions
        /\ \A i \in DOMAIN pids : i \in DOMAIN pids' /\ pids'[i] = pids[i]
        /\ Len(pids') \in DOMAIN pids' /\ pids'[Len(pids')] = worker.conn
    BY <2>1, PutDown DEF Listed
  <2>6. ASSUME NEW c \in Conns, conn'[c] = "served"
        PROVE  proc'[c].pc \notin Dead
    BY <2>2, <2>3, <2>4, <2>6 DEF Listed, Dead
  <2>7. ASSUME NEW c \in Conns, conn'[c] = "served", ~proc'[c].old
        PROVE  \E i \in DOMAIN pids' : pids'[i] = c
    <3>1. CASE c = worker.conn
      BY <2>5, <3>1
    <3>2. CASE c # worker.conn
      <4>1. Served(c)
        BY <2>3, <2>4, <2>7, <3>2 DEF Served
      <4> QED BY <2>5, <4>1 DEF Listed
    <3> QED BY <3>1, <3>2
  <2> QED BY <1>1, <2>4, <2>5, <2>6, <2>7 DEF Listed, Served
<1> QED
  BY <1>2, <1>3, <1>4, <1>5, <1>6, <1>7, <1>8, <1>9, <1>10, <1>11 DEF AcceptConnections

(* A step of one process that stays alive changes nothing of the list.     *)
LEMMA LiveListed ==
  ASSUME Listed, NEW c \in Conns, proc'[c].pc \notin Dead, proc'[c].old = proc[c].old,
         \A d \in Conns \ {c} : proc'[d] = proc[d],
         worker' = worker, conn' = conn, pids' = pids
  PROVE  Listed'
BY DEF Listed, Served

(* A session in the directory goes on to where it is alive.                *)
LEMMA DirectoryPlaces ==
  ASSUME Types, NEW c \in Conns,
         AddReads(c) \/ ResetFinds(c) \/ ResetDeletes(c) \/ CreateIPState(c) \/ LoggedOn(c)
  PROVE  /\ proc'[c].pc \notin Dead /\ proc'[c].old = proc[c].old
         /\ \A d \in Conns \ {c} : proc'[d] = proc[d]
<1>0. PICK pc \in ProcPlaces \ Dead : \E n : Proceeds(c, pc, n)
  BY DEF AddReads, ResetFinds, ResetDeletes, CreateIPState, LoggedOn, ProcPlaces, InDirectory, Dead
<1>1. PICK n : Proceeds(c, pc, n)
  BY <1>0
<1>2. proc[c] \in Procs /\ proc \in [Conns -> Procs]
  BY DEF Types
<1>3. proc' = [proc EXCEPT ![c] = [proc[c] EXCEPT !.pc = pc, !.n = n]]
  BY <1>1, <1>2 DEF Proceeds, Procs
<1>4. proc'[c] = [proc[c] EXCEPT !.pc = pc, !.n = n]
  BY <1>2, <1>3
<1>5. proc'[c].pc = pc /\ proc'[c].old = proc[c].old
  BY <1>2, <1>4 DEF Procs
<1> QED BY <1>1, <1>2, <1>3, <1>5

(* The steps of processes, clients and the service keep the list.          *)
LEMMA OtherListed ==
  ASSUME Types, Types', Listed,
         \/ ServiceStops \/ ServiceStarts
         \/ \E c \in Conns :
              \/ Listens(c) \/ SessionEnds(c) \/ Connect(c) \/ ClientCloses(c)
              \/ AddReads(c) \/ ResetFinds(c) \/ ResetDeletes(c) \/ CreateIPState(c) \/ LoggedOn(c)
  PROVE  Listed'
<1>1. /\ worker \in Workers /\ conn \in [Conns -> ConnStates] /\ proc \in [Conns -> Procs]
      /\ pids \in Seq(Conns \cup {NoPid}) /\ Len(pids) \in Nat /\ MaxSessions \in Nat \ {0}
  BY LenType, DaemonAssumption DEF Types
<1>2. CASE ServiceStops
  <2>1. ASSUME NEW c \in Conns, conn'[c] = "served"
        PROVE  conn[c] = "served" /\ proc'[c].pc = proc[c].pc /\ proc'[c].old
    <3>1. conn[c] = "served" /\ proc[c].pc # "none"
      BY <1>1, <1>2, <2>1 DEF ServiceStops, Listed, Dead
    <3>2. proc[c] \in Procs /\ proc'[c] = [proc[c] EXCEPT !.old = @ \/ proc[c].pc # "none"]
      BY <1>1, <1>2 DEF ServiceStops
    <3> QED BY <3>1, <3>2 DEF Procs
  <2>2. worker'.pc = "stopped" /\ pids' = pids
    BY <1>1, <1>2 DEF ServiceStops, Workers
  <2> QED BY <2>1, <2>2 DEF Listed, Served
<1>3. CASE ServiceStarts
  <2>1. /\ worker'.pc = "accept" /\ worker.pc = "stopped"
        /\ pids' = <<>> /\ conn' = conn /\ proc' = proc
    BY <1>1, <1>3 DEF ServiceStarts, Workers
  <2>2. Len(pids') = 0
    BY <2>1
  <2> QED BY <1>1, <2>1, <2>2 DEF Listed, Served
<1>4. ASSUME NEW c \in Conns, Listens(c) PROVE Listed'
  <2>1. /\ proc'[c].pc = "listening" /\ proc'[c].old = proc[c].old
        /\ \A d \in Conns \ {c} : proc'[d] = proc[d]
    BY <1>1, <1>4, PlaceType DEF Listens, ProcPlaces
  <2>2. worker' = worker /\ conn' = conn /\ pids' = pids
    BY <1>4 DEF Listens
  <2> QED BY <2>1, <2>2, LiveListed DEF Dead
<1>5. ASSUME NEW c \in Conns, SessionEnds(c) PROVE Listed'
  <2>1. Proceeds(c, "dead", <<0, 0>>)
    BY <1>5 DEF SessionEnds, Proceeds
  <2>2. \A d \in Conns \ {c} : proc'[d] = proc[d]
    BY <1>1, <2>1, ProceedsType DEF ProcPlaces
  <2>3. /\ conn'[c] # "served"
        /\ conn[c] = "accepted" => conn'[c] = "accepted"
        /\ \A d \in Conns \ {c} : conn'[d] = conn[d]
        /\ worker' = worker /\ pids' = pids
    BY <1>1, <1>5 DEF SessionEnds
  <2>4. ASSUME NEW d \in Conns, conn'[d] = "served" PROVE d # c /\ conn[d] = "served"
    BY <2>3, <2>4
  <2>5. worker.conn \in Conns /\ conn[worker.conn] = "accepted" => conn'[worker.conn] = "accepted"
    BY <2>3
  <2> QED BY <2>2, <2>3, <2>4, <2>5 DEF Listed, Served
<1>6. ASSUME NEW c \in Conns, Connect(c) \/ ClientCloses(c) PROVE Listed'
  <2>1. /\ conn'[c] \notin {"served", "accepted"} /\ conn[c] # "accepted"
        /\ \A d \in Conns \ {c} : conn'[d] = conn[d]
        /\ worker' = worker /\ pids' = pids /\ proc' = proc
    BY <1>1, <1>6 DEF Connect, ClientCloses
  <2> QED BY <2>1 DEF Listed, Served
<1>7. ASSUME NEW c \in Conns,
             AddReads(c) \/ ResetFinds(c) \/ ResetDeletes(c) \/ CreateIPState(c) \/ LoggedOn(c)
      PROVE  Listed'
  <2>1. /\ proc'[c].pc \notin Dead /\ proc'[c].old = proc[c].old
        /\ \A d \in Conns \ {c} : proc'[d] = proc[d]
    BY <1>7, DirectoryPlaces
  <2>2. worker' = worker /\ conn' = conn /\ pids' = pids
    BY <1>7 DEF AddReads, ResetFinds, ResetDeletes, CreateIPState, LoggedOn
  <2> QED BY <2>1, <2>2, LiveListed
<1> QED BY <1>2, <1>3, <1>4, <1>5, <1>6, <1>7

-----------------------------------------------------------------------------
(* Exact counts.                                                           *)

(***************************************************************************)
(* A connection is in the backlog once and until it is accepted, and only  *)
(* the session of one that is served is in the directory: the thread never *)
(* takes a session out of it.                                              *)
(***************************************************************************)
WithSocket == InDirectory \cup {"login"}
Placed ==
  /\ \A j, k \in DOMAIN backlog : backlog[j] = backlog[k] => j = k
  /\ \A k \in DOMAIN backlog : conn[backlog[k]] = "queued"
  /\ \A c \in Conns : proc[c].pc \in WithSocket => conn[c] = "served"

(* The thread keeps that.                                                  *)
LEMMA WorkerPlaced ==
  ASSUME Types, Types', Listed, Placed, AcceptConnections \/ CreateProcessFails
  PROVE  Placed'
<1>1. /\ worker \in Workers /\ conn \in [Conns -> ConnStates] /\ proc \in [Conns -> Procs]
      /\ backlog \in Seq(Conns)
  BY DEF Types
<1>2. CASE Accept
  <2> DEFINE h == Head(backlog)
             t == Tail(backlog)
  <2>1. /\ h \in Conns /\ t \in Seq(Conns) /\ h = backlog[1] /\ 1 \in DOMAIN backlog
        /\ DOMAIN backlog = 1..Len(backlog) /\ DOMAIN t = 1..(Len(backlog) - 1)
        /\ \A k \in DOMAIN t : k + 1 \in DOMAIN backlog /\ t[k] = backlog[k + 1]
    BY <1>1, <1>2 DEF Accept
  <2> HIDE DEF h, t
  <2>2. backlog' = t /\ conn' = [conn EXCEPT ![h] = "accepted"] /\ proc' = proc
    BY <1>2 DEF Accept, h, t
  <2>3. \A k \in DOMAIN t : t[k] # h /\ t[k] \in Conns /\ conn[t[k]] = "queued"
    <3> SUFFICES ASSUME NEW k \in DOMAIN t PROVE t[k] # h /\ t[k] \in Conns /\ conn[t[k]] = "queued"
      OBVIOUS
    <3>1. k \in Nat /\ k + 1 # 1 /\ k + 1 \in DOMAIN backlog /\ t[k] = backlog[k + 1]
      BY <2>1
    <3> QED BY <2>1, <3>1, <1>1 DEF Placed
  <2>4. \A j, k \in DOMAIN t : t[j] = t[k] => j = k
    <3> SUFFICES ASSUME NEW j \in DOMAIN t, NEW k \in DOMAIN t, t[j] = t[k] PROVE j = k
      OBVIOUS
    <3>1. j \in Nat /\ k \in Nat /\ j + 1 = k + 1
      BY <2>1 DEF Placed
    <3> QED BY <3>1
  <2>5. \A k \in DOMAIN t : conn'[t[k]] = "queued"
    BY <1>1, <2>2, <2>3
  <2>6. \A c \in Conns : proc[c].pc \in WithSocket => conn'[c] = "served"
    BY <1>1, <2>1, <2>2 DEF Placed
  <2> QED BY <2>2, <2>4, <2>5, <2>6 DEF Placed
<1>3. CASE UNCHANGED <<backlog, conn, proc>>
  BY <1>3 DEF Placed
<1>4. CASE Refuse
  <2>1. /\ \A d \in Conns : conn[d] # "accepted" => conn'[d] = conn[d]
        /\ backlog' = backlog /\ proc' = proc
    BY <1>1, <1>4 DEF Refuse
  <2> QED BY <1>1, <2>1 DEF Placed
<1>5. ASSUME CreateProcess \/ SendFails \/ DuplicateFails \/ SendSocket \/ CreateProcessFails
      PROVE  Placed'
  <2>1. worker.conn \in Conns /\ conn[worker.conn] = "accepted"
    BY <1>5 DEF Listed, CreateProcess, SendFails, DuplicateFails, SendSocket, CreateProcessFails, At
  <2>2. /\ backlog' = backlog
        /\ \A d \in Conns \ {worker.conn} : conn'[d] = conn[d]
    BY <1>1, <1>5 DEF CreateProcess, SendFails, DuplicateFails, SendSocket, CreateProcessFails, Current
  <2>3. \A d \in Conns \ {worker.conn} : proc'[d] = proc[d]
    BY <1>1, <1>5 DEF CreateProcess, SendFails, DuplicateFails, SendSocket, CreateProcessFails, Current
  <2>4. proc'[worker.conn].pc \in WithSocket => conn'[worker.conn] = "served"
    <3>1. CASE SendSocket
      BY <1>1, <2>1, <3>1 DEF SendSocket, Current
    <3>2. CASE CreateProcess \/ DuplicateFails
      <4>1. PICK pc \in {"starting", "dead"} : proc' = [proc EXCEPT ![worker.conn].pc = pc]
        BY <3>2 DEF CreateProcess, DuplicateFails, Current
      <4>2. proc'[worker.conn].pc = pc
        BY <1>1, <2>1, <4>1, PlaceType DEF ProcPlaces
      <4> QED BY <4>2 DEF WithSocket, InDirectory
    <3>3. CASE SendFails \/ CreateProcessFails
      BY <2>1, <3>3 DEF SendFails, CreateProcessFails, Placed
    <3> QED BY <1>5, <3>1, <3>2, <3>3
  <2>5. \A k \in DOMAIN backlog : backlog[k] \in Conns /\ backlog[k] # worker.conn
    BY <1>1, <2>1 DEF Placed
  <2> QED BY <2>2, <2>3, <2>4, <2>5 DEF Placed
<1> QED
  BY <1>2, <1>3, <1>4, <1>5 DEF AcceptConnections, CountSessions, RefusedCloses, ConnectsPipe

(* So do processes, clients and the service.                               *)
LEMMA OtherPlaced ==
  ASSUME Types, Types', Placed,
         \/ ServiceStops \/ ServiceStarts
         \/ \E c \in Conns :
              \/ Listens(c) \/ SessionEnds(c) \/ Connect(c) \/ ClientCloses(c)
              \/ AddReads(c) \/ ResetFinds(c) \/ ResetDeletes(c) \/ CreateIPState(c) \/ LoggedOn(c)
  PROVE  Placed'
<1>1. /\ conn \in [Conns -> ConnStates] /\ proc \in [Conns -> Procs] /\ backlog \in Seq(Conns)
  BY DEF Types
<1>2. CASE ServiceStops
  <2>1. /\ backlog' = <<>>
        /\ \A c \in Conns : conn[c] = "served" => conn'[c] = "served"
        /\ \A c \in Conns : proc'[c].pc = proc[c].pc
    BY <1>1, <1>2 DEF ServiceStops, Procs
  <2> QED BY <2>1 DEF Placed
<1>3. CASE ServiceStarts
  BY <1>3 DEF ServiceStarts, Placed
<1>4. ASSUME NEW c \in Conns, Listens(c) PROVE Placed'
  <2>1. /\ proc'[c].pc = "listening" /\ \A d \in Conns \ {c} : proc'[d] = proc[d]
        /\ backlog' = backlog /\ conn' = conn
    BY <1>1, <1>4, PlaceType DEF Listens, ProcPlaces
  <2> QED BY <2>1 DEF Placed, WithSocket, InDirectory
<1>5. ASSUME NEW c \in Conns, SessionEnds(c) PROVE Placed'
  <2>1. Proceeds(c, "dead", <<0, 0>>)
    BY <1>5 DEF SessionEnds, Proceeds
  <2>2. proc'[c].pc = "dead" /\ \A d \in Conns \ {c} : proc'[d] = proc[d]
    BY <1>1, <2>1, ProceedsType DEF ProcPlaces
  <2>3. /\ \A d \in Conns \ {c} : conn'[d] = conn[d]
        /\ conn[c] = "queued" => conn'[c] = "queued"
        /\ backlog' = backlog
    BY <1>1, <1>5 DEF SessionEnds
  <2>4. \A k \in DOMAIN backlog : backlog[k] \in Conns
    BY <1>1
  <2>5. \A k \in DOMAIN backlog : conn'[backlog[k]] = "queued"
    BY <2>3, <2>4 DEF Placed
  <2>6. \A d \in Conns : proc'[d].pc \in WithSocket => d # c /\ conn'[d] = "served"
    BY <2>2, <2>3 DEF Placed, WithSocket, InDirectory
  <2> QED BY <2>3, <2>5, <2>6 DEF Placed
<1>6. ASSUME NEW c \in Conns, Connect(c) PROVE Placed'
  <2>1. /\ backlog' = Append(backlog, c) /\ conn[c] = "none" /\ conn'[c] = "queued"
        /\ \A d \in Conns \ {c} : conn'[d] = conn[d]
        /\ proc' = proc
    BY <1>1, <1>6 DEF Connect
  <2>2. \A k \in DOMAIN backlog : backlog[k] \in Conns /\ backlog[k] # c
    BY <1>1, <2>1 DEF Placed
  <2>3. /\ DOMAIN backlog' = DOMAIN backlog \cup {Len(backlog) + 1}
        /\ Len(backlog) + 1 \notin DOMAIN backlog
        /\ \A k \in DOMAIN backlog : backlog'[k] = backlog[k]
        /\ backlog'[Len(backlog) + 1] = c
    BY <1>1, <2>1
  <2> QED BY <2>1, <2>2, <2>3 DEF Placed
<1>7. ASSUME NEW c \in Conns, ClientCloses(c) PROVE Placed'
  <2>1. /\ backlog' = backlog /\ conn[c] = "shut" /\ proc' = proc
        /\ \A d \in Conns \ {c} : conn'[d] = conn[d]
    BY <1>1, <1>7 DEF ClientCloses
  <2>2. \A k \in DOMAIN backlog : backlog[k] \in Conns /\ backlog[k] # c
    BY <1>1, <2>1 DEF Placed
  <2> QED BY <2>1, <2>2 DEF Placed
<1>8. ASSUME NEW c \in Conns,
             AddReads(c) \/ ResetFinds(c) \/ ResetDeletes(c) \/ CreateIPState(c) \/ LoggedOn(c)
      PROVE  Placed'
  <2>1. \A d \in Conns \ {c} : proc'[d] = proc[d]
    BY <1>8, DirectoryPlaces
  <2>2. proc[c].pc \in WithSocket /\ backlog' = backlog /\ conn' = conn
    BY <1>8 DEF AddReads, ResetFinds, ResetDeletes, CreateIPState, LoggedOn, WithSocket, InDirectory
  <2> QED BY <2>1, <2>2 DEF Placed
<1> QED BY <1>2, <1>3, <1>4, <1>5, <1>6, <1>7, <1>8

(***************************************************************************)
(* As long as no two sessions of an address were in the directory at a     *)
(* time, at most one is past its first step, the files tell the attempts   *)
(* since the last logon unless it has deleted them, and what it read and   *)
(* what it is about to write are the counts before and after its attempt.  *)
(***************************************************************************)
CountOf(n) == IF n = 0 THEN 0 ELSE IF n > MaxBan THEN BANNED ELSE n
Files(i) == {f \in ban : f[2] = i}
FilesOf(n, i) == IF n = 0 THEN {} ELSE {<<CountOf(n), i>>}
Mid == {"find", "delete", "create", "reset delete"}

InPlace(c) ==
  LET since == counted[Ip[c]].since
  IN  /\ proc[c].pc \in {"find", "delete", "create"} => proc[c].n[1] = CountOf(since + 1)
      /\ proc[c].pc \in {"delete", "reset delete"} => proc[c].n[2] = CountOf(since)
      /\ Files(Ip[c]) = IF proc[c].pc = "create" THEN {} ELSE FilesOf(since, Ip[c])

Alone ==
  /\ MaxBan = 0 => ban = {} /\ \A c \in Conns : proc[c].pc \notin InDirectory
  /\ \A i \in Ips : ~counted[i].overlap =>
       /\ \A c, d \in Conns : Ip[c] = i /\ Ip[d] = i /\ proc[c].pc \in Mid /\ proc[d].pc \in Mid => c = d
       /\ \A c \in Conns : Ip[c] = i /\ proc[c].pc \in Mid => InPlace(c)
       /\ (\A c \in Conns : Ip[c] = i => proc[c].pc \notin Mid) =>
            MaxBan = 0 \/ Files(i) = FilesOf(counted[i].since, i)

(* The count after an attempt follows the count before it.                 *)
LEMMA NextCountOf == \A n \in Nat : NextCount(CountOf(n)) = CountOf(n + 1) /\ CountOf(n) \in Nat
<1> SUFFICES ASSUME NEW n \in Nat
             PROVE  NextCount(CountOf(n)) = CountOf(n + 1) /\ CountOf(n) \in Nat
  OBVIOUS
<1>1. CASE n = 0
  BY <1>1, BanBounds DEF NextCount, CountOf
<1>2. CASE n # 0 /\ n > MaxBan
  BY <1>2, BanBounds DEF NextCount, CountOf
<1>3. CASE n # 0 /\ n <= MaxBan
  BY <1>3, BanBounds DEF NextCount, CountOf
<1> QED BY <1>1, <1>2, <1>3, BanBounds

(* The count that is found of the files of an address in place.            *)
LEMMA FindFiles ==
  ASSUME NEW i \in Ips, NEW n \in Nat, Files(i) = FilesOf(n, i)
  PROVE  FindIPConnectionState(i) = {CountOf(n)}
<1>1. {f[1] : f \in {g \in ban : g[2] = i}} = {f[1] : f \in FilesOf(n, i)}
  BY DEF Files
<1>2. CASE n = 0
  BY <1>1, <1>2 DEF FilesOf, FindIPConnectionState, CountOf
<1>3. CASE n # 0
  <2>1. {f[1] : f \in FilesOf(n, i)} = {CountOf(n)}
    BY <1>3 DEF FilesOf
  <2> QED BY <1>1, <2>1 DEF FindIPConnectionState
<1> QED BY <1>2, <1>3

(***************************************************************************)
(* A step of one session in the directory: it is alone, or the overlap is  *)
(* on record; what it leaves in place is in place.                         *)
(***************************************************************************)
LEMMA DirectoryStep ==
  ASSUME Types, Types', Alone, NEW c \in Conns, proc[c].pc \in InDirectory,
         NEW since \in Nat, NEW all \in Nat, Counts(c, since, all),
         \A d \in Conns \ {c} : proc'[d] = proc[d],
         \A f : f[2] # Ip[c] => (f \in ban' <=> f \in ban),
         ~counted[Ip[c]].overlap /\ Others(c) = {} =>
           /\ proc'[c].pc \in Mid => InPlace(c)'
           /\ proc'[c].pc \notin Mid => Files(Ip[c])' = FilesOf(since, Ip[c])
  PROVE  Alone'
<1>1. MaxBan # 0
  BY DEF Alone
<1>2. /\ counted \in [Ips -> Tallies] /\ Ip[c] \in Ips
      /\ \A i \in Ips \ {Ip[c]} : counted'[i] = counted[i]
      /\ counted'[Ip[c]].since = since
      /\ counted'[Ip[c]].overlap <=> counted[Ip[c]].overlap \/ Others(c) # {}
  BY IpType DEF Types, Counts
<1>3. ASSUME NEW i \in Ips \ {Ip[c]}, ~counted'[i].overlap
      PROVE  /\ \A d, e \in Conns : Ip[d] = i /\ Ip[e] = i /\ proc'[d].pc \in Mid /\ proc'[e].pc \in Mid => d = e
             /\ \A d \in Conns : Ip[d] = i /\ proc'[d].pc \in Mid => InPlace(d)'
             /\ (\A d \in Conns : Ip[d] = i => proc'[d].pc \notin Mid) =>
                  MaxBan = 0 \/ Files(i)' = FilesOf(counted'[i].since, i)
  <2>1. counted'[i] = counted[i] /\ \A d \in Conns : Ip[d] = i => proc'[d] = proc[d]
    BY <1>2
  <2>2. Files(i)' = Files(i)
    BY <1>3 DEF Files
  <2>3. \A d \in Conns : Ip[d] = i /\ InPlace(d) => InPlace(d)'
    BY <2>1, <2>2 DEF InPlace
  <2> QED BY <1>3, <2>1, <2>2, <2>3 DEF Alone
<1>4. ASSUME ~counted'[Ip[c]].overlap
      PROVE  /\ \A d \in Conns : Ip[d] = Ip[c] /\ proc'[d].pc \in Mid => d = c /\ InPlace(d)'
             /\ proc'[c].pc \notin Mid => Files(Ip[c])' = FilesOf(counted'[Ip[c]].since, Ip[c])
  <2>1. ~counted[Ip[c]].overlap /\ Others(c) = {}
    BY <1>2, <1>4
  <2>2. \A d \in Conns \ {c} : Ip[d] = Ip[c] => proc'[d].pc \notin Mid
    BY <2>1 DEF Others, Mid, InDirectory
  <2> QED BY <1>2, <2>1, <2>2
<1> QED BY <1>1, <1>3, <1>4 DEF Alone

(* What a session finds that is alone in the directory.                    *)
LEMMA AloneIn ==
  ASSUME Alone, NEW c \in Conns, proc[c].pc \in InDirectory,
         ~counted[Ip[c]].overlap, Others(c) = {}
  PROVE  IF proc[c].pc \in Mid THEN InPlace(c)
         ELSE Files(Ip[c]) = FilesOf(counted[Ip[c]].since, Ip[c])
<1>1. MaxBan # 0
  BY DEF Alone
<1>2. CASE proc[c].pc \in Mid
  BY <1>2, IpType DEF Alone
<1>3. CASE proc[c].pc \notin Mid
  <2>1. \A d \in Conns : Ip[d] = Ip[c] => proc[d].pc \notin Mid
    BY <1>3 DEF Others, Mid, InDirectory
  <2> QED BY <1>1, <1>3, <2>1, IpType DEF Alone
<1> QED BY <1>2, <1>3

(* A step of one process outside the directory, or out of it at its end.   *)
LEMMA OutsideStep ==
  ASSUME Types, Types', Alone, NEW c \in Conns, ban' = ban,
         \A d \in Conns \ {c} : proc'[d] = proc[d],
         proc[c].pc \notin Mid \/ counted'[Ip[c]].overlap, proc'[c].pc \notin Mid,
         MaxBan = 0 => proc'[c].pc \notin InDirectory,
         \A i \in Ips : counted'[i].since = counted[i].since,
         \A i \in Ips : counted[i].overlap => counted'[i].overlap
  PROVE  Alone'
<1>1. MaxBan = 0 => ban' = {} /\ \A d \in Conns : proc'[d].pc \notin InDirectory
  BY DEF Alone
<1>2. ASSUME NEW i \in Ips, ~counted'[i].overlap
      PROVE  /\ \A d, e \in Conns : Ip[d] = i /\ Ip[e] = i /\ proc'[d].pc \in Mid /\ proc'[e].pc \in Mid => d = e
             /\ \A d \in Conns : Ip[d] = i /\ proc'[d].pc \in Mid => InPlace(d)'
             /\ (\A d \in Conns : Ip[d] = i => proc'[d].pc \notin Mid) =>
                  MaxBan = 0 \/ Files(i)' = FilesOf(counted'[i].since, i)
  <2>1. ~counted[i].overlap
    BY <1>2
  <2>2. \A d \in Conns : Ip[d] = i => (proc'[d].pc \in Mid <=> proc[d].pc \in Mid)
    BY <1>2
  <2>3. \A d \in Conns : Ip[d] = i /\ proc'[d].pc \in Mid => proc'[d] = proc[d]
    BY <1>2
  <2>4. Files(i)' = Files(i)
    BY DEF Files
  <2>5. \A d \in Conns : Ip[d] = i /\ proc'[d].pc \in Mid /\ InPlace(d) => InPlace(d)'
    BY <2>3, <2>4, IpType DEF InPlace
  <2> QED BY <2>1, <2>2, <2>4, <2>5 DEF Alone
<1> QED BY <1>1, <1>2 DEF Alone

(* The thread that accepts leaves the directory alone.                     *)
LEMMA WorkerAlone ==
  ASSUME Types, Types', Listed, Placed, Alone, AcceptConnections \/ CreateProcessFails
  PROVE  Alone'
<1>1. counted' = counted /\ proc \in [Conns -> Procs]
  BY WorkerKeepsTallies DEF Types
<1>2. CASE UNCHANGED <<proc, ban>>
  BY <1>1, <1>2 DEF Alone, InPlace, Files
<1>3. ASSUME CreateProcess \/ DuplicateFails \/ SendSocket PROVE Alone'
  <2>1. worker.conn \in Conns /\ conn[worker.conn] = "accepted"
    BY <1>3 DEF Listed, CreateProcess, DuplicateFails, SendSocket, At
  <2>2. proc[worker.conn].pc \notin Mid
    BY <2>1 DEF Placed, WithSocket, InDirectory, Mid
  <2>3. PICK pc \in {"starting", "dead", "login", "add"} :
          /\ proc' = [proc EXCEPT ![worker.conn].pc = pc]
          /\ MaxBan = 0 => pc # "add"
    BY <1>3 DEF CreateProcess, DuplicateFails, SendSocket, Current
  <2>4. /\ proc'[worker.conn].pc = pc
        /\ \A d \in Conns \ {worker.conn} : proc'[d] = proc[d]
    BY <1>1, <2>1, <2>3, PlaceType DEF ProcPlaces, InDirectory
  <2>5. pc \notin Mid /\ (MaxBan = 0 => pc \notin InDirectory)
    BY <2>3 DEF Mid, InDirectory
  <2>6. ban' = ban
    BY <1>3 DEF CreateProcess, DuplicateFails, SendSocket
  <2> QED BY <1>1, <2>1, <2>2, <2>4, <2>5, <2>6, OutsideStep
<1> QED
  BY <1>2, <1>3 DEF AcceptConnections, CreateProcessFails, Accept, CountSessions, Refuse,
     RefusedCloses, ConnectsPipe, SendFails

(* Processes that are alone keep the files in place.                       *)
LEMMA OtherAlone ==
  ASSUME Types, Types', Alone,
         \/ ServiceStops \/ ServiceStarts
         \/ \E c \in Conns :
              \/ Listens(c) \/ SessionEnds(c) \/ Connect(c) \/ ClientCloses(c)
              \/ AddReads(c) \/ ResetFinds(c) \/ ResetDeletes(c) \/ CreateIPState(c) \/ LoggedOn(c)
  PROVE  Alone'
<1>1. /\ proc \in [Conns -> Procs] /\ counted \in [Ips -> Tallies] /\ ban \subseteq FileCounts \X Ips
      /\ proc' \in [Conns -> Procs] /\ ban' \subseteq FileCounts \X Ips
      /\ \A i \in Ips : counted[i].since \in Nat
  BY DEF Types, Tallies
<1>2. CASE ServiceStops
  <2>1. ASSUME NEW c \in Conns PROVE proc'[c].pc = proc[c].pc /\ proc'[c].n = proc[c].n
    BY <1>1, <1>2 DEF ServiceStops, Procs
  <2>2. counted' = counted /\ ban' = ban
    BY <1>2 DEF ServiceStops
  <2> QED BY <2>1, <2>2 DEF Alone, InPlace, Files
<1>3. CASE UNCHANGED <<proc, ban, counted>>
  BY <1>3 DEF Alone, InPlace, Files
<1>4. ASSUME NEW c \in Conns, Listens(c) PROVE Alone'
  <2>1. /\ proc[c].pc = "starting" /\ proc'[c].pc = "listening"
        /\ \A d \in Conns \ {c} : proc'[d] = proc[d]
        /\ ban' = ban /\ counted' = counted
    BY <1>1, <1>4, PlaceType DEF Listens, ProcPlaces
  <2> QED BY <2>1, OutsideStep DEF Mid, InDirectory
<1>5. ASSUME NEW c \in Conns, SessionEnds(c) PROVE Alone'
  <2>1. Proceeds(c, "dead", <<0, 0>>)
    BY <1>5 DEF SessionEnds, Proceeds
  <2>2. proc'[c].pc = "dead" /\ \A d \in Conns \ {c} : proc'[d] = proc[d]
    BY <1>1, <2>1, ProceedsType DEF ProcPlaces
  <2>3. /\ \A i \in Ips : counted'[i].since = counted[i].since
        /\ ban' = ban
    BY <1>1, <1>5, OverlapType DEF SessionEnds
  <2>4. /\ \A i \in Ips : counted[i].overlap => counted'[i].overlap
        /\ proc[c].pc \in InDirectory => counted'[Ip[c]].overlap
    BY <1>1, <1>5, IpType DEF SessionEnds, Tallies
  <2> QED BY <2>2, <2>3, <2>4, OutsideStep DEF Mid, InDirectory
<1>6. ASSUME NEW c \in Conns, LoggedOn(c) PROVE Alone'
  <2>1. /\ proc[c].pc = "login" /\ proc'[c].pc = IF MaxBan = 0 THEN "run" ELSE "reset find"
        /\ \A d \in Conns \ {c} : proc'[d] = proc[d]
        /\ ban' = ban /\ counted' = counted
    BY <1>1, <1>6, ProceedsType DEF LoggedOn, ProcPlaces, InDirectory
  <2> QED BY <2>1, OutsideStep DEF Mid, InDirectory
<1>7. ASSUME NEW c \in Conns, AddReads(c) PROVE Alone'
  <2>1. PICK n \in FindIPConnectionState(Ip[c]) : Proceeds(c, "find", <<NextCount(n), 0>>)
    BY <1>7 DEF AddReads
  <2>2. /\ proc[c].pc = "add" /\ ban' = ban /\ counted[Ip[c]].since \in Nat
        /\ Counts(c, counted[Ip[c]].since, 1)
    BY <1>1, <1>7, IpType DEF AddReads
  <2>3. /\ proc'[c].pc = "find" /\ proc'[c].n[1] = NextCount(n)
        /\ \A d \in Conns \ {c} : proc'[d] = proc[d]
    <3> DEFINE m == <<NextCount(n), 0>>
    <3>1. m \in Nat \X Nat /\ m[1] = NextCount(n)
      <4>1. n \in Nat
        BY <1>1, <2>1, IpType, FindType
      <4>2. NextCount(n) \in Nat
        BY <4>1, NextCountType
      <4> QED BY <4>2
    <3>2. Proceeds(c, "find", m)
      BY <2>1
    <3> HIDE DEF m
    <3> QED BY <1>1, <3>1, <3>2, ProceedsType DEF ProcPlaces, InDirectory
  <2>4. ASSUME ~counted[Ip[c]].overlap, Others(c) = {}
        PROVE  InPlace(c)'
    <3>1. Files(Ip[c]) = FilesOf(counted[Ip[c]].since, Ip[c])
      BY <2>2, <2>4, AloneIn DEF InDirectory, Mid
    <3>2. n = CountOf(counted[Ip[c]].since)
      BY <2>1, <2>2, <3>1, FindFiles, IpType
    <3>3. NextCount(n) = CountOf(counted[Ip[c]].since + 1)
      BY <2>2, <3>2, NextCountOf
    <3>4. counted'[Ip[c]].since = counted[Ip[c]].since
      BY <1>1, <2>2, IpType DEF Counts
    <3> QED BY <2>2, <2>3, <3>1, <3>3, <3>4 DEF InPlace, Files
  <2> QED BY <2>2, <2>3, <2>4, DirectoryStep DEF InDirectory, Mid

<1>8. ASSUME NEW c \in Conns, ResetFinds(c) PROVE Alone'
  <2>1. PICK d \in FindIPConnectionState(Ip[c]) :
          Proceeds(c, IF proc[c].pc = "find" THEN "delete" ELSE "reset delete", <<proc[c].n[1], d>>)
    BY <1>8 DEF ResetFinds
  <2>2. /\ proc[c].pc \in {"find", "reset find"} /\ ban' = ban /\ counted[Ip[c]].since \in Nat
        /\ Counts(c, counted[Ip[c]].since, 0)
    BY <1>1, <1>8, IpType DEF ResetFinds
  <2>3. /\ proc'[c].pc = IF proc[c].pc = "find" THEN "delete" ELSE "reset delete"
        /\ proc'[c].n[1] = proc[c].n[1] /\ proc'[c].n[2] = d
        /\ \A e \in Conns \ {c} : proc'[e] = proc[e]
    <3> DEFINE pc == IF proc[c].pc = "find" THEN "delete" ELSE "reset delete"
               n == <<proc[c].n[1], d>>
    <3>1. pc \in ProcPlaces /\ Proceeds(c, pc, n)
      BY <2>1 DEF ProcPlaces, InDirectory
    <3>2. n \in Nat \X Nat /\ n[1] = proc[c].n[1] /\ n[2] = d
      <4>1. d \in Nat
        BY <1>1, <2>1, IpType, FindType
      <4>2. proc[c].n \in Nat \X Nat
        BY <1>1 DEF Procs
      <4> QED BY <4>1, <4>2
    <3> HIDE DEF pc, n
    <3>3. /\ proc'[c].pc = pc /\ proc'[c].n = n
          /\ \A e \in Conns \ {c} : proc'[e] = proc[e]
      BY <1>1, <3>1, <3>2, ProceedsType
    <3> QED BY <3>2, <3>3 DEF pc
  <2>4. ASSUME ~counted[Ip[c]].overlap, Others(c) = {}
        PROVE  InPlace(c)'
    <3>1. /\ Files(Ip[c]) = FilesOf(counted[Ip[c]].since, Ip[c])
          /\ proc[c].pc = "find" => proc[c].n[1] = CountOf(counted[Ip[c]].since + 1)
      BY <2>2, <2>4, AloneIn DEF InDirectory, Mid, InPlace
    <3>2. d = CountOf(counted[Ip[c]].since)
      <4>1. FindIPConnectionState(Ip[c]) = {CountOf(counted[Ip[c]].since)}
        BY <2>2, <3>1, FindFiles, IpType
      <4> QED BY <2>1, <4>1
    <3>3. counted'[Ip[c]].since = counted[Ip[c]].since
      BY <1>1, <2>2, IpType DEF Counts
    <3> QED BY <2>2, <2>3, <3>1, <3>2, <3>3 DEF InPlace, Files
  <2>5. proc'[c].pc \in Mid
    BY <2>3 DEF Mid
  <2> QED BY <2>2, <2>3, <2>4, <2>5, DirectoryStep DEF InDirectory
<1>9. ASSUME NEW c \in Conns, ResetDeletes(c) PROVE Alone'
  <2> DEFINE since == IF proc[c].pc = "delete" THEN counted[Ip[c]].since ELSE 0
  <2>1. /\ proc[c].pc \in {"delete", "reset delete"} /\ since \in Nat /\ Counts(c, since, 0)
        /\ ban' = ban \ {<<proc[c].n[2], Ip[c]>>}
    BY <1>1, <1>9, IpType DEF ResetDeletes
  <2>2. /\ proc'[c].pc = IF proc[c].pc = "delete" THEN "create" ELSE "run"
        /\ proc'[c].n[1] = proc[c].n[1]
        /\ \A e \in Conns \ {c} : proc'[e] = proc[e]
    <3> DEFINE pc == IF proc[c].pc = "delete" THEN "create" ELSE "run"
               n == <<proc[c].n[1], 0>>
    <3>1. pc \in ProcPlaces /\ Proceeds(c, pc, n)
      BY <1>9 DEF ResetDeletes, ProcPlaces, InDirectory
    <3>2. n \in Nat \X Nat /\ n[1] = proc[c].n[1]
      BY <1>1 DEF Procs
    <3> HIDE DEF pc, n
    <3>3. /\ proc'[c].pc = pc /\ proc'[c].n = n
          /\ \A e \in Conns \ {c} : proc'[e] = proc[e]
      BY <1>1, <3>1, <3>2, ProceedsType
    <3> QED BY <3>2, <3>3 DEF pc
  <2>3. ASSUME ~counted[Ip[c]].overlap, Others(c) = {}
        PROVE  /\ Files(Ip[c])' = {}
               /\ proc[c].pc = "delete" => proc[c].n[1] = CountOf(counted[Ip[c]].since + 1)
    <3>1. /\ Files(Ip[c]) = FilesOf(counted[Ip[c]].since, Ip[c])
          /\ proc[c].n[2] = CountOf(counted[Ip[c]].since)
          /\ proc[c].pc = "delete" => proc[c].n[1] = CountOf(counted[Ip[c]].since + 1)
      BY <2>1, <2>3, AloneIn DEF InDirectory, Mid, InPlace
    <3>2. Files(Ip[c])' = Files(Ip[c]) \ {<<proc[c].n[2], Ip[c]>>}
      BY <2>1 DEF Files
    <3> QED BY <3>1, <3>2 DEF FilesOf
  <2>4. counted'[Ip[c]].since = since
    BY <1>1, <2>1, IpType DEF Counts
  <2>7. ASSUME NEW f, f[2] # Ip[c] PROVE f \in ban' <=> f \in ban
    <3>1. f # <<proc[c].n[2], Ip[c]>>
      BY <2>7
    <3>2. ban' = ban \ {<<proc[c].n[2], Ip[c]>>}
      BY <2>1
    <3> QED BY <3>1, <3>2
  <2>5. CASE proc[c].pc = "delete"
    <3>1. proc'[c].pc = "create" /\ since = counted[Ip[c]].since
      BY <2>2, <2>5
    <3> HIDE DEF since
    <3>2. ~counted[Ip[c]].overlap /\ Others(c) = {} => InPlace(c)'
      BY <2>2, <2>3, <2>4, <2>5, <3>1 DEF InPlace
    <3>3. proc'[c].pc \in Mid /\ proc[c].pc \in InDirectory
      BY <2>1, <3>1 DEF Mid, InDirectory
    <3>4. \A f : f[2] # Ip[c] => (f \in ban' <=> f \in ban)
      BY <2>7
    <3> QED BY <2>1, <2>2, <3>2, <3>3, <3>4, DirectoryStep
  <2>6. CASE proc[c].pc = "reset delete"
    <3>1. proc'[c].pc = "run" /\ since = 0
      BY <2>2, <2>6
    <3> HIDE DEF since
    <3>2. ~counted[Ip[c]].overlap /\ Others(c) = {} => Files(Ip[c])' = FilesOf(since, Ip[c])
      BY <2>3, <3>1 DEF FilesOf
    <3>3. proc'[c].pc \notin Mid /\ proc[c].pc \in InDirectory
      BY <2>1, <3>1 DEF Mid, InDirectory
    <3>4. \A f : f[2] # Ip[c] => (f \in ban' <=> f \in ban)
      BY <2>7
    <3> QED BY <2>1, <2>2, <3>2, <3>3, <3>4, DirectoryStep
  <2> QED BY <2>1, <2>5, <2>6
<1>10. ASSUME NEW c \in Conns, CreateIPState(c) PROVE Alone'
  <2> DEFINE since == counted[Ip[c]].since + 1
  <2>1. /\ proc[c].pc = "create" /\ since \in Nat /\ since # 0 /\ Counts(c, since, 0)
        /\ ban' = ban \cup {<<proc[c].n[1], Ip[c]>>}
    BY <1>1, <1>10, IpType DEF CreateIPState
  <2>2. /\ proc'[c].pc = "login"
        /\ \A e \in Conns \ {c} : proc'[e] = proc[e]
    BY <1>1, <1>10, ProceedsType DEF CreateIPState, ProcPlaces
  <2>3. ASSUME ~counted[Ip[c]].overlap, Others(c) = {}
        PROVE  Files(Ip[c])' = FilesOf(since, Ip[c])
    <3>1. Files(Ip[c]) = {} /\ proc[c].n[1] = CountOf(since)
      BY <2>1, <2>3, AloneIn DEF InDirectory, Mid, InPlace
    <3>2. Files(Ip[c])' = Files(Ip[c]) \cup {<<proc[c].n[1], Ip[c]>>}
      BY <2>1 DEF Files
    <3> QED BY <2>1, <3>1, <3>2 DEF FilesOf
  <2>4. proc'[c].pc \notin Mid /\ proc[c].pc \in InDirectory
    BY <2>1, <2>2 DEF Mid, InDirectory
  <2>5. \A f : f[2] # Ip[c] => (f \in ban' <=> f \in ban)
    BY <2>1
  <2> HIDE DEF since
  <2> QED BY <2>1, <2>2, <2>3, <2>4, <2>5, DirectoryStep
<1> QED
  BY <1>2, <1>3, <1>4, <1>5, <1>6, <1>7, <1>8, <1>9, <1>10
     DEF ServiceStarts, Connect, ClientCloses

-----------------------------------------------------------------------------
(* The theorems.                                                           *)

(***************************************************************************)
(* The inductive invariant.                                                *)
(***************************************************************************)
DaemonInv == Types /\ Counted /\ BansAreEarned /\ Listed /\ Placed /\ Alone

(* The sessions are among the processes of the list, which has room for    *)
(* max_sessions: there are no more of them than of these.                  *)
LEMMA ListedBounds == ASSUME Types, Listed PROVE SessionsBounded
<1> DEFINE T == {c \in Conns : Served(c)}
<1>1. pids \in Seq(Conns \cup {NoPid}) /\ Len(pids) \in Nat /\ DOMAIN pids = 1..Len(pids)
  BY LenType DEF Types
<1>2. IsFiniteSet(1..Len(pids)) /\ Cardinality(1..Len(pids)) = Len(pids)
  BY <1>1, FS_Interval
<1> DEFINE I == {i \in 1..Len(pids) : pids[i] \in T}
           f == [i \in I |-> pids[i]]
<1>3. IsFiniteSet(I) /\ Cardinality(I) <= Len(pids)
  BY <1>2, FS_Subset
<1>4. \A c \in T : \E i \in I : f[i] = c
  BY <1>1 DEF Listed
<1>5. f \in Surjection(I, T)
  BY <1>4 DEF Surjection
<1>6. IsFiniteSet(T) /\ Cardinality(T) <= Cardinality(I)
  BY <1>3, <1>5, FS_Surjection
<1>7. Cardinality(I) \in Nat /\ Cardinality(T) \in Nat
  BY <1>3, <1>6, FS_CardinalityType
<1>8. Len(pids) <= MaxSessions /\ MaxSessions \in Nat
  BY DaemonAssumption DEF Listed
<1>9. Cardinality(T) <= MaxSessions
  BY <1>1, <1>3, <1>6, <1>7, <1>8
<1> QED BY <1>9 DEF SessionsBounded, Served

(* It holds in the beginning.                                              *)
LEMMA DaemonInvInit == DaemonInit => DaemonInv
<1> SUFFICES ASSUME DaemonInit PROVE DaemonInv
  OBVIOUS
<1>1. Types
  BY TypesInit
<1>2. Counted
  BY DEF DaemonInit, Counted
<1>3. BansAreEarned
  BY DEF DaemonInit, BansAreEarned
<1>4. Listed
  <2>1. Len(pids) = 0 /\ 0 <= MaxSessions
    BY DaemonAssumption DEF DaemonInit
  <2> QED BY <2>1 DEF DaemonInit, Listed, Served
<1>5. Placed
  <2>1. DOMAIN backlog = {} /\ \A c \in Conns : proc[c].pc = "none"
    BY DEF DaemonInit
  <2> QED BY <2>1 DEF Placed, WithSocket, InDirectory
<1>6. Alone
  <2>1. \A i \in Ips : Files(i) = {} /\ counted[i].since = 0
    BY DEF DaemonInit, Files
  <2>2. ban = {} /\ \A c \in Conns : proc[c].pc = "none"
    BY DEF DaemonInit
  <2> QED BY <2>1, <2>2 DEF Alone, FilesOf, Mid, InDirectory
<1> QED BY <1>1, <1>2, <1>3, <1>4, <1>5, <1>6 DEF DaemonInv

(* Every step keeps it.                                                    *)
LEMMA DaemonInvStep == DaemonInv /\ [DaemonNext]_daemonVars => DaemonInv'
<1> SUFFICES ASSUME DaemonInv, [DaemonNext]_daemonVars PROVE DaemonInv'
  OBVIOUS
<1>1. Types /\ Counted /\ BansAreEarned /\ Listed /\ Placed /\ Alone
  BY DEF DaemonInv
<1>2. CASE UNCHANGED daemonVars
  <2>1. /\ worker' = worker /\ backlog' = backlog /\ conn' = conn /\ pids' = pids
        /\ proc' = proc /\ ban' = ban /\ counted' = counted
    BY <1>2 DEF daemonVars
  <2>2. Types' /\ Counted' /\ BansAreEarned'
    BY <1>1, <2>1 DEF Types, Counted, BansAreEarned
  <2>3. Listed' /\ Placed'
    BY <1>1, <2>1 DEF Listed, Served, Placed
  <2>4. Alone'
    BY <1>1, <2>1 DEF Alone, InPlace, Files
  <2> QED BY <2>2, <2>3, <2>4 DEF DaemonInv
<1>3. CASE DaemonNext
  <2>1. CASE AcceptConnections \/ CreateProcessFails
    <3>1. Types'
      BY <1>1, <2>1, WorkerTypes
    <3>2. Counted' /\ BansAreEarned'
      BY <1>1, <1>3, <2>1, <3>1, WorkerCounted, BansStep
    <3>3. Listed' /\ Placed' /\ Alone'
      BY <1>1, <2>1, <3>1, WorkerListed, WorkerPlaced, WorkerAlone
    <3> QED BY <3>1, <3>2, <3>3 DEF DaemonInv
  <2>2. CASE ~(AcceptConnections \/ CreateProcessFails)
    <3>1. \/ ServiceStops \/ ServiceStarts
          \/ \E c \in Conns :
               \/ Listens(c) \/ SessionEnds(c) \/ Connect(c) \/ ClientCloses(c)
               \/ AddReads(c) \/ ResetFinds(c) \/ ResetDeletes(c) \/ CreateIPState(c) \/ LoggedOn(c)
      BY <1>3, <2>2 DEF DaemonNext
    <3>2. Types'
      BY <1>1, <3>1, OtherTypes
    <3>3. Counted'
      BY <1>1, <3>1, <3>2, OtherCounted
    <3>4. Listed'
      BY <1>1, <3>1, <3>2, OtherListed
    <3>5. Placed'
      BY <1>1, <3>1, <3>2, OtherPlaced
    <3>6. Alone'
      BY <1>1, <3>1, <3>2, OtherAlone
    <3>7. BansAreEarned'
      BY <1>1, <1>3, <3>2, BansStep
    <3> QED BY <3>2, <3>3, <3>4, <3>5, <3>6, <3>7 DEF DaemonInv
  <2> QED BY <2>1, <2>2
<1> QED BY <1>2, <1>3

(* It is an invariant.                                                     *)
LEMMA DaemonInvariant == DaemonSpec => []DaemonInv
BY DaemonInvInit, DaemonInvStep, PTL DEF DaemonSpec

(* The types, and that the list of processes is never longer than          *)
(* max_sessions, though hand-offs that fail put numbers of no process down *)
(* and Count takes out one at a time.                                      *)
THEOREM ListBounded == DaemonSpec => []DaemonTypeOK
<1>1. DaemonInv => DaemonTypeOK
  <2> SUFFICES ASSUME DaemonInv PROVE DaemonTypeOK
    OBVIOUS
  <2>1. Types /\ Listed
    BY DEF DaemonInv
  <2>2. worker.pc \in Places /\ worker.conn \in Conns \cup {NoPid}
    BY <2>1 DEF Types, Workers
  <2>3. \A f \in ban : f[1] \in FileCounts /\ f[2] \in Ips
    BY <2>1 DEF Types
  <2> QED BY <2>1, <2>2, <2>3 DEF Types, Listed, DaemonTypeOK, Places, ConnStates, FileCounts
<1> QED BY <1>1, DaemonInvariant, PTL

(* No more clients are served at a time than max_sessions, however the     *)
(* hand-offs fail and the processes end (AcceptConnections).               *)
THEOREM SessionsAreBounded == DaemonSpec => []SessionsBounded
<1>1. DaemonInv => SessionsBounded
  BY ListedBounds DEF DaemonInv
<1> QED BY <1>1, DaemonInvariant, PTL

(* However the steps of the sessions in the directory interleave, and      *)
(* wherever they end, no address is banned before it made more attempts    *)
(* than ban_max_connections; and as long as they are in the directory one  *)
(* at a time, its one file tells the attempts since the last logon         *)
(* (AddIPBanConnection, ResetIPState, ResetIPBanConnection).               *)
THEOREM BanCountsAreRight == DaemonSpec => []BanCounts
<1>1. DaemonInv => BansAreEarned
  BY DEF DaemonInv
<1>2. DaemonInv => CountsExactly
  <2> SUFFICES ASSUME DaemonInv, NEW i \in Ips, ~counted[i].overlap,
                      \A c \in Conns : Ip[c] = i => proc[c].pc \notin InDirectory
               PROVE  Files(i) = IF counted[i].since = 0 \/ MaxBan = 0 THEN {}
                                 ELSE {<<IF counted[i].since > MaxBan THEN BANNED ELSE counted[i].since, i>>}
    BY DEF CountsExactly, Files
  <2>1. \A c \in Conns : Ip[c] = i => proc[c].pc \notin Mid
    BY DEF Mid, InDirectory
  <2>2. MaxBan = 0 \/ Files(i) = FilesOf(counted[i].since, i)
    BY <2>1 DEF DaemonInv, Alone
  <2>3. MaxBan = 0 => Files(i) = {}
    BY DEF DaemonInv, Alone, Files
  <2> QED BY <2>2, <2>3 DEF FilesOf, CountOf
<1>3. DaemonInv => BanCounts
  BY <1>1, <1>2 DEF BanCounts
<1> QED BY <1>3, DaemonInvariant, PTL

-----------------------------------------------------------------------------
(* The setup program: induction, over numbers and over sequences.          *)

\* The order of the naturals.
NatLess == {ss \in Nat \X Nat : ss[1] < ss[2]}

(* A set of naturals that is not empty has a least element.                *)
LEMMA LeastNat ==
  ASSUME NEW S \in SUBSET Nat, S # {}
  PROVE  \E x \in S : \A y \in S : x <= y
<1>1. IsWellFoundedOn(NatLess, Nat)
  BY NatLessThanWellFounded DEF OpToRel, NatLess
<1>2. \E x \in S : \A y \in S : ~(<<y, x>> \in NatLess)
  BY <1>1, WFMin
<1>3. \A x, y \in S : (<<y, x>> \in NatLess) <=> y < x
  BY DEF NatLess
<1>4. \A x, y \in S : ~(y < x) => x <= y
  OBVIOUS
<1> QED BY <1>2, <1>3, <1>4

(* A set with 0 and with the successor of each of its numbers below n.     *)
LEMMA UpToN ==
  ASSUME NEW n \in Nat, NEW S, 0 \in S, \A i \in 0..(n - 1) : i \in S => i + 1 \in S
  PROVE  \A i \in 0..n : i \in S
<1>1. PICK R : R = {i \in 0..n : i \notin S}
  OBVIOUS
<1>2. SUFFICES ASSUME R # {} PROVE FALSE
  BY <1>1
<1>3. PICK k \in R : \A j \in R : k <= j
  BY <1>1, <1>2, LeastNat
<1>4. k \in 1..n /\ k - 1 \in 0..(n - 1) /\ k - 1 \in 0..n /\ k - 1 + 1 = k /\ ~(k <= k - 1)
  BY <1>1, <1>3
<1>5. k - 1 \in S
  BY <1>1, <1>3, <1>4
<1> QED BY <1>1, <1>3, <1>4, <1>5

(* A sequence that is not empty is one made longer.                        *)
LEMMA Longer ==
  ASSUME NEW C, NEW s \in Seq(C), NEW n \in Nat, Len(s) = n + 1
  PROVE  \E r \in Seq(C) : \E c \in C : Len(r) = n /\ s = Append(r, c) /\ c = s[n + 1] /\ r = Front(s)
                                        /\ \A i \in 1..n : r[i] = s[i]
<1>1. PICK r, c : r = SubSeq(s, 1, n) /\ c = s[n + 1]
  OBVIOUS
<1>2. DOMAIN s = 1..(n + 1) /\ \A i \in 1..(n + 1) : s[i] \in C
  OBVIOUS
<1>3. c \in C
  BY <1>1, <1>2
<1>4. r \in Seq(C) /\ Len(r) = n /\ \A i \in 1..n : r[i] = s[i]
  BY <1>1, <1>2
<1>5. s = Append(r, c)
  BY <1>1, <1>2, <1>3, <1>4
<1>6. r = Front(s)
  BY <1>1 DEF Front
<1> QED BY <1>1, <1>3, <1>4, <1>5, <1>6

(* What holds of no elements, and of one element more, holds of all.       *)
LEMMA AllSequences ==
  ASSUME NEW C, NEW P, <<>> \in P, \A s \in Seq(C) : \A c \in C : s \in P => Append(s, c) \in P
  PROVE  \A s \in Seq(C) : s \in P
<1>1. SUFFICES ASSUME NEW m \in Nat PROVE \A s \in Seq(C) : Len(s) = m => s \in P
  OBVIOUS
<1>2. PICK N : N = {n \in Nat : \A s \in Seq(C) : Len(s) = n => s \in P}
  OBVIOUS
<1>3. 0 \in N
  BY <1>2
<1>4. ASSUME NEW i \in 0..(m - 1), i \in N PROVE i + 1 \in N
  <2>1. SUFFICES ASSUME NEW s \in Seq(C), Len(s) = i + 1 PROVE s \in P
    BY <1>2, <1>4
  <2>2. i \in Nat
    BY <1>4
  <2>a. \E r \in Seq(C) : \E c \in C : Len(r) = i /\ s = Append(r, c) /\ c = s[i + 1] /\ r = Front(s)
                                         /\ \A j \in 1..i : r[j] = s[j]
    BY <2>1, <2>2, Longer
  <2>3. PICK r \in Seq(C) : \E c \in C : Len(r) = i /\ s = Append(r, c)
    BY <2>a
  <2>4. PICK c \in C : Len(r) = i /\ s = Append(r, c)
    BY <2>3
  <2>5. r \in P
    BY <1>2, <1>4, <2>4
  <2> QED BY <2>4, <2>5
<1>5. m \in 0..m /\ \A i \in 0..m : i \in N
  BY <1>3, <1>4, UpToN
<1> QED BY <1>2, <1>5

\* What kts.ini and the editor hold.
Texts == Seq(Characters)
Stepping == [Texts \X Characters -> Texts]

\* The runs over a text, one step for each character.
Runs(step, seq) ==
  {f \in [0..Len(seq) -> Texts] : f[0] = <<>> /\ \A i \in 1..Len(seq) : f[i] = step[<<f[i - 1], seq[i]>>]}

(* There is a run over every text.                                         *)
LEMMA RunExists ==
  ASSUME NEW step \in Stepping, NEW seq \in Texts
  PROVE  Runs(step, seq) # {}
<1>1. PICK n : n = Len(seq)
  OBVIOUS
<1>2. n \in Nat /\ \A i \in 1..n : seq[i] \in Characters
  BY <1>1 DEF Texts
<1>3. PICK K : K = {k \in 0..n : \E f \in [0..k -> Texts] : f[0] = <<>> /\ \A i \in 1..k : f[i] = step[<<f[i - 1], seq[i]>>]}
  OBVIOUS
<1>4. 0 \in K
  <2>0. <<>> \in Texts
    BY DEF Texts
  <2>1. PICK f : f = [i \in 0..0 |-> <<>>]
    OBVIOUS
  <2>2. f \in [0..0 -> Texts] /\ f[0] = <<>> /\ \A i \in 1..0 : f[i] = step[<<f[i - 1], seq[i]>>]
    BY <2>0, <2>1
  <2> QED BY <1>2, <1>3, <2>2
<1>5. ASSUME NEW k \in 0..(n - 1), k \in K PROVE k + 1 \in K
  <2>1. PICK f \in [0..k -> Texts] : f[0] = <<>> /\ \A i \in 1..k : f[i] = step[<<f[i - 1], seq[i]>>]
    BY <1>3, <1>5
  <2>2. PICK g : g = [i \in 0..(k + 1) |-> IF i = k + 1 THEN step[<<f[k], seq[k + 1]>>] ELSE f[i]]
    OBVIOUS
  <2>3. k \in Nat /\ k + 1 \in 1..n /\ k \in 0..k
    BY <1>2, <1>5
  <2>4. f[k] \in Texts /\ seq[k + 1] \in Characters
    BY <1>2, <2>1, <2>3
  <2>5. step[<<f[k], seq[k + 1]>>] \in Texts
    BY <2>4 DEF Stepping
  <2>6. \A i \in 0..k : g[i] = f[i] /\ i # k + 1 /\ f[i] \in Texts
    BY <2>1, <2>2, <2>3
  <2>7. g[k + 1] = step[<<f[k], seq[k + 1]>>]
    BY <2>2, <2>3
  <2>8. g \in [0..(k + 1) -> Texts]
    <3>1. \A i \in 0..(k + 1) : i = k + 1 \/ i \in 0..k
      BY <2>3
    <3> QED BY <2>2, <2>5, <2>6, <2>7, <3>1
  <2>9. g[0] = <<>>
    BY <2>1, <2>3, <2>6
  <2>10. \A i \in 1..(k + 1) : g[i] = step[<<g[i - 1], seq[i]>>]
    <3>1. \A i \in 1..(k + 1) : i = k + 1 \/ (i \in 1..k /\ i \in 0..k /\ i - 1 \in 0..k)
      BY <2>3
    <3>2. k + 1 - 1 = k
      BY <2>3
    <3>3. ASSUME NEW i \in 1..k PROVE g[i] = step[<<g[i - 1], seq[i]>>]
      <4>1. i \in 0..k /\ i - 1 \in 0..k
        BY <2>3, <3>3
      <4>2. g[i] = f[i] /\ g[i - 1] = f[i - 1]
        BY <2>6, <4>1
      <4> QED BY <2>1, <4>2
    <3>4. ASSUME NEW i \in 1..(k + 1), i = k + 1 PROVE g[i] = step[<<g[i - 1], seq[i]>>]
      <4>1. i - 1 = k /\ k \in 0..k
        BY <2>3, <3>4
      <4>2. g[k] = f[k]
        BY <2>6, <4>1
      <4>3. g[i - 1] = f[k] /\ g[i] = g[k + 1] /\ seq[i] = seq[k + 1]
        BY <3>4, <4>1, <4>2
      <4> QED BY <2>7, <4>3
    <3> QED BY <3>1, <3>3, <3>4
  <2> QED BY <1>3, <2>3, <2>8, <2>9, <2>10
<1>6. n \in K
  <2>1. n \in 0..n
    BY <1>2
  <2>2. \A k \in 0..(n - 1) : k \in K => k + 1 \in K
    BY <1>5
  <2>3. \A k \in 0..n : k \in K
    BY <1>2, <1>4, <2>2, UpToN
  <2> QED BY <2>1, <2>3
<1>7. \E f \in [0..n -> Texts] : f[0] = <<>> /\ \A i \in 1..n : f[i] = step[<<f[i - 1], seq[i]>>]
  BY <1>3, <1>6
<1> QED BY <1>1, <1>7 DEF Runs

(* One element more is one step more.                                      *)
LEMMA RunAppend ==
  ASSUME NEW step \in Stepping, NEW seq \in Texts, NEW c \in Characters,
         NEW more, more = Append(seq, c),
         NEW f \in Runs(step, seq), NEW g \in Runs(step, more)
  PROVE  g[Len(more)] = step[<<f[Len(seq)], c>>]
<1>1. PICK n : n = Len(seq)
  OBVIOUS
<1>2. n \in Nat /\ Len(more) = n + 1 /\ more[n + 1] = c /\ \A i \in 1..n : more[i] = seq[i]
  BY <1>1 DEF Texts
<1>3. f[0] = <<>> /\ \A i \in 1..n : f[i] = step[<<f[i - 1], seq[i]>>]
  BY <1>1 DEF Runs
<1>4. g[0] = <<>> /\ \A i \in 1..(n + 1) : g[i] = step[<<g[i - 1], more[i]>>]
  BY <1>1, <1>2 DEF Runs
<1>5. PICK A : A = {i \in 0..n : f[i] = g[i]}
  OBVIOUS
<1>6. 0 \in A
  BY <1>2, <1>3, <1>4, <1>5
<1>7. ASSUME NEW i \in 0..(n - 1), i \in A PROVE i + 1 \in A
  <2>1. i + 1 \in 1..n /\ i + 1 \in 1..(n + 1) /\ i + 1 \in 0..n /\ i + 1 - 1 = i
    BY <1>2, <1>7
  <2>2. f[i] = g[i]
    BY <1>5, <1>7
  <2>3. PICK k : k = i + 1
    OBVIOUS
  <2>4. f[k] = step[<<f[i], seq[k]>>]
    BY <1>3, <2>1, <2>3
  <2>5. g[k] = step[<<g[i], more[k]>>]
    <3>1. k - 1 = i
      BY <1>2, <1>7, <2>3
    <3>2. g[k] = step[<<g[k - 1], more[k]>>]
      BY <1>4, <2>1, <2>3
    <3> QED BY <3>1, <3>2
  <2>6. more[k] = seq[k]
    BY <1>2, <2>1, <2>3
  <2>7. f[k] = g[k]
    BY <2>2, <2>4, <2>5, <2>6
  <2> QED BY <1>5, <2>1, <2>3, <2>7
<1>8. n \in A
  <2>1. n \in 0..n
    BY <1>2
  <2> QED BY <1>2, <1>6, <1>7, <2>1, UpToN
<1>9. f[n] = g[n]
  BY <1>5, <1>8
<1>10. g[n + 1] = step[<<g[n], more[n + 1]>>]
  <2>1. n + 1 \in 1..(n + 1) /\ n + 1 - 1 = n
    BY <1>2
  <2>2. PICK k : k = n + 1
    OBVIOUS
  <2>3. g[k] = step[<<g[k - 1], more[k]>>]
    BY <1>4, <2>1, <2>2
  <2>4. k - 1 = n
    BY <1>2, <2>2
  <2>5. g[k] = step[<<g[n], more[k]>>]
    BY <2>3, <2>4
  <2> QED BY <2>2, <2>5
<1> QED BY <1>1, <1>2, <1>9, <1>10

-----------------------------------------------------------------------------
(* What LineFeeds and Escaped read and write.                              *)

(* A text read a character further is a text.                              *)
LEMMA ReadsText == ASSUME NEW t \in Texts, NEW c \in Characters PROVE WithLineFeed(t, c) \in Texts
<1>1. Append(t, c) \in Texts
  BY DEF Texts
<1>2. "NL" \in Characters
  BY SetupAssumption
<1>3. ASSUME t # <<>> PROVE Append(Front(t), "NL") \in Texts
  BY <1>2, <1>3 DEF Texts, Front
<1> QED BY <1>1, <1>3 DEF WithLineFeed

(* An escaped character is a text, not empty.                              *)
LEMMA EscapeText == ASSUME NEW c \in Characters PROVE Written(c) \in Texts
<1>1. "\\" \in Characters /\ "n" \in Characters
  BY SetupAssumption
<1> QED BY <1>1 DEF Texts, Written

ReadStep == [p \in Texts \X Characters |-> WithLineFeed(p[1], p[2])]
WriteStep == [p \in Texts \X Characters |-> p[1] \o Written(p[2])]

(* The steps are functions on texts.                                       *)
LEMMA StepsAre ==
  /\ ReadStep \in Stepping
  /\ WriteStep \in Stepping
  /\ <<>> \in Texts
<1>1. \A p \in Texts \X Characters : p[1] \in Texts /\ p[2] \in Characters
  OBVIOUS
<1>2. \A p \in Texts \X Characters : WithLineFeed(p[1], p[2]) \in Texts
  BY <1>1, ReadsText
<1>3. \A p \in Texts \X Characters : p[1] \o Written(p[2]) \in Texts
  <2>1. \A a, b \in Texts : a \o b \in Texts
    BY DEF Texts
  <2>2. \A b \in Characters : Written(b) \in Texts
    BY EscapeText
  <2>3. ASSUME NEW p \in Texts \X Characters PROVE p[1] \o Written(p[2]) \in Texts
    <3>1. PICK a, b : a = p[1] /\ b = Written(p[2])
      OBVIOUS
    <3>2. a \in Texts /\ b \in Texts
      BY <1>1, <2>2, <3>1
    <3> QED BY <2>1, <3>1, <3>2
  <2> QED BY <2>3
<1>4. <<>> \in Texts
  BY DEF Texts
<1> QED BY <1>2, <1>3, <1>4 DEF ReadStep, WriteStep, Stepping

(* LineFeeds is the end of a run.                                          *)
LEMMA LineFeedsIs ==
  ASSUME NEW t \in Texts, NEW f \in Runs(ReadStep, t)
  PROVE  LineFeeds(t) = f[Len(t)]
<1>1. Len(t) \in Nat /\ \A i \in 1..Len(t) : t[i] \in Characters
  BY DEF Texts
<1> DEFINE IsRead(h) == h = [i \in 0..Len(t) |-> IF i = 0 THEN <<>> ELSE WithLineFeed(h[i - 1], t[i])]
<1>2. f \in [0..Len(t) -> Texts] /\ f[0] = <<>>
  BY DEF Runs
<1>3. ASSUME NEW i \in 1..Len(t) PROVE f[i] = WithLineFeed(f[i - 1], t[i])
  <2>1. i - 1 \in 0..Len(t)
    BY <1>1, <1>3
  <2>2. f[i - 1] \in Texts /\ t[i] \in Characters
    BY <1>1, <1>2, <2>1
  <2>3. f[i] = ReadStep[<<f[i - 1], t[i]>>]
    BY DEF Runs
  <2> QED BY <2>2, <2>3 DEF ReadStep
<1>4. \A i \in 0..Len(t) : f[i] = IF i = 0 THEN <<>> ELSE WithLineFeed(f[i - 1], t[i])
  <2>1. \A i \in 0..Len(t) : i = 0 \/ i \in 1..Len(t)
    BY <1>1
  <2>2. \A i \in 1..Len(t) : i # 0
    BY <1>1
  <2> QED BY <1>2, <1>3, <2>1, <2>2
<1>5. IsRead(f)
  BY <1>2, <1>4
<1>6. PICK h : IsRead(h) /\ LineFeeds(t) = h[Len(t)]
  BY <1>5 DEF LineFeeds
<1>7. PICK A : A = {i \in 0..Len(t) : h[i] = f[i]}
  OBVIOUS
<1>8. 0 \in A
  <2>1. 0 \in 0..Len(t)
    BY <1>1
  <2>2. h[0] = <<>>
    BY <1>6, <2>1
  <2> QED BY <1>2, <1>7, <2>1, <2>2
<1>9. ASSUME NEW i \in 0..(Len(t) - 1), i \in A PROVE i + 1 \in A
  <2>1. i + 1 \in 1..Len(t) /\ i + 1 \in 0..Len(t) /\ i + 1 - 1 = i /\ i + 1 # 0
    BY <1>1, <1>9
  <2>2. h[i] = f[i]
    BY <1>7, <1>9
  <2>3. h[i + 1] = WithLineFeed(h[i], t[i + 1])
    BY <1>6, <2>1
  <2>4. f[i + 1] = WithLineFeed(f[i], t[i + 1])
    BY <1>3, <2>1
  <2> QED BY <1>7, <2>1, <2>2, <2>3, <2>4
<1>10. Len(t) \in A
  <2>1. Len(t) \in 0..Len(t)
    BY <1>1
  <2> QED BY <1>1, <1>8, <1>9, <2>1, UpToN
<1> QED BY <1>6, <1>7, <1>10

(* Escaped is the end of a run.                                            *)
LEMMA EscapedIs ==
  ASSUME NEW t \in Texts, NEW f \in Runs(WriteStep, t)
  PROVE  Escaped(t) = f[Len(t)]
<1>1. Len(t) \in Nat /\ \A i \in 1..Len(t) : t[i] \in Characters
  BY DEF Texts
<1> DEFINE IsWritten(h) == h = [i \in 0..Len(t) |-> IF i = 0 THEN <<>> ELSE h[i - 1] \o Written(t[i])]
<1>2. f \in [0..Len(t) -> Texts] /\ f[0] = <<>>
  BY DEF Runs
<1>3. ASSUME NEW i \in 1..Len(t) PROVE f[i] = f[i - 1] \o Written(t[i])
  <2>1. i - 1 \in 0..Len(t)
    BY <1>1, <1>3
  <2>2. f[i - 1] \in Texts /\ t[i] \in Characters
    BY <1>1, <1>2, <2>1
  <2>3. f[i] = WriteStep[<<f[i - 1], t[i]>>]
    BY DEF Runs
  <2> QED BY <2>2, <2>3 DEF WriteStep
<1>4. \A i \in 0..Len(t) : f[i] = IF i = 0 THEN <<>> ELSE f[i - 1] \o Written(t[i])
  <2>1. \A i \in 0..Len(t) : i = 0 \/ i \in 1..Len(t)
    BY <1>1
  <2>2. \A i \in 1..Len(t) : i # 0
    BY <1>1
  <2> QED BY <1>2, <1>3, <2>1, <2>2
<1>5. IsWritten(f)
  BY <1>2, <1>4
<1>6. PICK h : IsWritten(h) /\ Escaped(t) = h[Len(t)]
  BY <1>5 DEF Escaped
<1>7. PICK A : A = {i \in 0..Len(t) : h[i] = f[i]}
  OBVIOUS
<1>8. 0 \in A
  <2>1. 0 \in 0..Len(t)
    BY <1>1
  <2>2. h[0] = <<>>
    BY <1>6, <2>1
  <2> QED BY <1>2, <1>7, <2>1, <2>2
<1>9. ASSUME NEW i \in 0..(Len(t) - 1), i \in A PROVE i + 1 \in A
  <2>1. i + 1 \in 1..Len(t) /\ i + 1 \in 0..Len(t) /\ i + 1 - 1 = i /\ i + 1 # 0
    BY <1>1, <1>9
  <2>2. h[i] = f[i]
    BY <1>7, <1>9
  <2>3. h[i + 1] = h[i] \o Written(t[i + 1])
    BY <1>6, <2>1
  <2>4. f[i + 1] = f[i] \o Written(t[i + 1])
    <3>1. PICK k : k = i + 1
      OBVIOUS
    <3>2. f[k] = f[k - 1] \o Written(t[k])
      BY <1>3, <2>1, <3>1
    <3>3. k - 1 = i
      BY <2>1, <3>1
    <3>4. f[k] = f[i] \o Written(t[k])
      BY <3>2, <3>3
    <3> QED BY <3>1, <3>4
  <2> QED BY <1>7, <2>1, <2>2, <2>3, <2>4
<1>10. Len(t) \in A
  <2>1. Len(t) \in 0..Len(t)
    BY <1>1
  <2> QED BY <1>1, <1>8, <1>9, <2>1, UpToN
<1> QED BY <1>6, <1>7, <1>10

(* LineFeeds reads from the left.                                          *)
LEMMA LineFeedsAppend ==
  /\ LineFeeds(<<>>) = <<>>
  /\ \A t \in Texts : LineFeeds(t) \in Texts
  /\ \A t \in Texts : \A c \in Characters : LineFeeds(Append(t, c)) = WithLineFeed(LineFeeds(t), c)
<1>1. ASSUME NEW t \in Texts PROVE \E f \in Runs(ReadStep, t) : LineFeeds(t) = f[Len(t)] /\ f[0] = <<>>
  <2>1. Runs(ReadStep, t) # {}
    BY StepsAre, RunExists
  <2>2. PICK f \in Runs(ReadStep, t) : f[0] = <<>>
    BY <2>1 DEF Runs
  <2>3. LineFeeds(t) = f[Len(t)]
    BY <2>2, LineFeedsIs
  <2> QED BY <2>2, <2>3
<1>2. LineFeeds(<<>>) = <<>>
  <2>1. <<>> \in Texts /\ Len(<<>>) = 0
    BY StepsAre
  <2> QED BY <1>1, <2>1
<1>3. ASSUME NEW t \in Texts PROVE LineFeeds(t) \in Texts
  <2>1. PICK f \in Runs(ReadStep, t) : LineFeeds(t) = f[Len(t)]
    BY <1>1
  <2>2. Len(t) \in 0..Len(t)
    BY DEF Texts
  <2> QED BY <2>1, <2>2 DEF Runs
<1>4. ASSUME NEW t \in Texts, NEW c \in Characters
      PROVE  LineFeeds(Append(t, c)) = WithLineFeed(LineFeeds(t), c)
  <2>1. PICK f \in Runs(ReadStep, t) : LineFeeds(t) = f[Len(t)]
    BY <1>1
  <2>2. t \in Seq(Characters) /\ Append(t, c) \in Texts /\ Len(Append(t, c)) = Len(t) + 1
    BY DEF Texts
  <2>3. PICK g \in Runs(ReadStep, Append(t, c)) : LineFeeds(Append(t, c)) = g[Len(t) + 1]
    <3>1. \E g \in Runs(ReadStep, Append(t, c)) :
             LineFeeds(Append(t, c)) = g[Len(Append(t, c))] /\ g[0] = <<>>
      BY <1>1, <2>2
    <3> QED BY <2>2, <3>1
  <2>4. g[Len(t) + 1] = ReadStep[<<f[Len(t)], c>>]
    <3>1. PICK more : more = Append(t, c)
      OBVIOUS
    <3>2. g[Len(more)] = ReadStep[<<f[Len(t)], c>>]
      BY <2>1, <2>3, <3>1, StepsAre, RunAppend
    <3> QED BY <2>2, <3>1, <3>2
  <2>5. ReadStep[<<LineFeeds(t), c>>] = WithLineFeed(LineFeeds(t), c)
    BY <1>3 DEF ReadStep
  <2> QED BY <2>1, <2>3, <2>4, <2>5
<1> QED BY <1>2, <1>3, <1>4

(* Escaped writes from the left.                                           *)
LEMMA EscapedAppend ==
  /\ Escaped(<<>>) = <<>>
  /\ \A t \in Texts : Escaped(t) \in Texts
  /\ \A t \in Texts : \A c \in Characters : Escaped(Append(t, c)) = Escaped(t) \o Written(c)
<1>1. ASSUME NEW t \in Texts PROVE \E f \in Runs(WriteStep, t) : Escaped(t) = f[Len(t)] /\ f[0] = <<>>
  <2>1. Runs(WriteStep, t) # {}
    BY StepsAre, RunExists
  <2>2. PICK f \in Runs(WriteStep, t) : f[0] = <<>>
    BY <2>1 DEF Runs
  <2>3. Escaped(t) = f[Len(t)]
    BY <2>2, EscapedIs
  <2> QED BY <2>2, <2>3
<1>2. Escaped(<<>>) = <<>>
  <2>1. <<>> \in Texts /\ Len(<<>>) = 0
    BY StepsAre
  <2> QED BY <1>1, <2>1
<1>3. ASSUME NEW t \in Texts PROVE Escaped(t) \in Texts
  <2>1. PICK f \in Runs(WriteStep, t) : Escaped(t) = f[Len(t)]
    BY <1>1
  <2>2. Len(t) \in 0..Len(t)
    BY DEF Texts
  <2> QED BY <2>1, <2>2 DEF Runs
<1>4. ASSUME NEW t \in Texts, NEW c \in Characters
      PROVE  Escaped(Append(t, c)) = Escaped(t) \o Written(c)
  <2>1. PICK f \in Runs(WriteStep, t) : Escaped(t) = f[Len(t)]
    BY <1>1
  <2>2. t \in Seq(Characters) /\ Append(t, c) \in Texts /\ Len(Append(t, c)) = Len(t) + 1
    BY DEF Texts
  <2>3. PICK g \in Runs(WriteStep, Append(t, c)) : Escaped(Append(t, c)) = g[Len(t) + 1]
    <3>1. \E g \in Runs(WriteStep, Append(t, c)) :
             Escaped(Append(t, c)) = g[Len(Append(t, c))] /\ g[0] = <<>>
      BY <1>1, <2>2
    <3> QED BY <2>2, <3>1
  <2>4. g[Len(t) + 1] = WriteStep[<<f[Len(t)], c>>]
    <3>1. PICK more : more = Append(t, c)
      OBVIOUS
    <3>2. g[Len(more)] = WriteStep[<<f[Len(t)], c>>]
      BY <2>1, <2>3, <3>1, StepsAre, RunAppend
    <3> QED BY <2>2, <3>1, <3>2
  <2>5. WriteStep[<<Escaped(t), c>>] = Escaped(t) \o Written(c)
    BY <1>3 DEF WriteStep
  <2> QED BY <2>1, <2>3, <2>4, <2>5
<1> QED BY <1>2, <1>3, <1>4

-----------------------------------------------------------------------------
(* What is saved is read.                                                  *)

\* A text without a backslash and an n, which is read as a line feed.
Clean(t) == \A i \in 1..(Len(t) - 1) : ~(t[i] = "\\" /\ t[i + 1] = "n")

(* A character typed or read leaves a text clean.                          *)
LEMMA CleanTyped ==
  ASSUME NEW t \in Texts, Clean(t), NEW c \in Characters
  PROVE  Clean(WithLineFeed(t, c))
<1>1. Len(t) \in Nat /\ DOMAIN t = 1..Len(t)
  BY DEF Texts
<1>2. CASE c = "n" /\ t # <<>> /\ Last(t) = "\\"
  <2>1. PICK n : n = Len(t) - 1
    OBVIOUS
  <2>2. n \in Nat
    BY <1>1, <1>2, <2>1 DEF Texts
  <2>3. PICK f : f = Front(t)
    OBVIOUS
  <2>4. f \in Seq(Characters) /\ Len(f) = n /\ \A i \in 1..n : f[i] = t[i]
    BY <1>2, <2>1, <2>2, <2>3 DEF Texts, Front
  <2>5. PICK u : u = Append(f, "NL")
    OBVIOUS
  <2>6. Len(u) = n + 1 /\ u[n + 1] = "NL" /\ \A i \in 1..n : u[i] = t[i]
    BY <2>2, <2>4, <2>5
  <2>7. ASSUME NEW i \in 1..n PROVE ~(u[i] = "\\" /\ u[i + 1] = "n")
    <3>1. CASE i = n
      BY <2>6, <3>1
    <3>2. CASE i # n
      <4>1. i + 1 \in 1..n /\ i \in 1..(Len(t) - 1)
        BY <2>1, <2>2, <2>7, <3>2
      <4> QED BY <2>6, <4>1 DEF Clean
    <3> QED BY <3>1, <3>2
  <2>8. Clean(u)
    <3>1. Len(u) - 1 = n
      BY <2>2, <2>6
    <3>2. \A i \in 1..n : ~(u[i] = "\\" /\ u[i + 1] = "n")
      BY <2>7
    <3> QED BY <3>1, <3>2 DEF Clean
  <2> QED BY <1>2, <2>3, <2>5, <2>8 DEF WithLineFeed
<1>3. CASE ~(c = "n" /\ t # <<>> /\ Last(t) = "\\")
  <2>1. PICK n, u : n = Len(t) /\ u = Append(t, c)
    OBVIOUS
  <2>2. n \in Nat /\ Len(u) = n + 1 /\ u[n + 1] = c /\ \A i \in 1..n : u[i] = t[i]
    BY <1>1, <2>1 DEF Texts
  <2>3. ASSUME NEW i \in 1..n PROVE ~(u[i] = "\\" /\ u[i + 1] = "n")
    <3>1. CASE i = n
      <4>1. t # <<>>
        BY <2>1, <2>2, <2>3
      <4>2. Last(t) = t[n]
        BY <2>1 DEF Last
      <4>3. u[i] = Last(t) /\ u[i + 1] = c
        BY <2>2, <2>3, <3>1, <4>2
      <4> QED BY <1>3, <4>1, <4>3
    <3>2. CASE i # n
      <4>1. i + 1 \in 1..n /\ i \in 1..(Len(t) - 1)
        BY <2>1, <2>2, <2>3, <3>2
      <4> QED BY <2>2, <4>1 DEF Clean
    <3> QED BY <3>1, <3>2
  <2>4. Clean(u)
    <3>1. n + 1 - 1 = n
      BY <2>2
    <3> QED BY <2>2, <2>3, <3>1 DEF Clean
  <2>5. WithLineFeed(t, c) = u
    BY <1>3, <2>1 DEF WithLineFeed
  <2> QED BY <2>4, <2>5
<1> QED BY <1>2, <1>3

(* What LineFeeds reads is clean.                                          *)
LEMMA ReadIsClean == \A t \in Texts : Clean(LineFeeds(t))
<1>1. PICK P : P = {t \in Texts : Clean(LineFeeds(t))}
  OBVIOUS
<1>2. <<>> \in P
  <2>1. Clean(<<>>)
    BY DEF Clean
  <2> QED BY <1>1, <2>1, LineFeedsAppend, StepsAre
<1>3. ASSUME NEW t \in Seq(Characters), NEW c \in Characters, t \in P PROVE Append(t, c) \in P
  <2>1. t \in Texts /\ Append(t, c) \in Texts
    BY DEF Texts
  <2>2. LineFeeds(t) \in Texts /\ Clean(LineFeeds(t))
    BY <1>1, <1>3, <2>1, LineFeedsAppend
  <2>3. Clean(WithLineFeed(LineFeeds(t), c))
    BY <2>2, CleanTyped
  <2>4. Clean(LineFeeds(Append(t, c)))
    BY <2>1, <2>3, LineFeedsAppend
  <2> QED BY <1>1, <2>1, <2>4
<1>4. \A t \in Seq(Characters) : t \in P
  BY <1>2, <1>3, AllSequences
<1> QED BY <1>1, <1>4 DEF Texts

(* A clean text is clean without its last character, which is not an n     *)
(* after a backslash.                                                      *)
LEMMA CleanLonger ==
  ASSUME NEW t \in Texts, NEW c \in Characters, Clean(Append(t, c))
  PROVE  Clean(t) /\ ~(c = "n" /\ t # <<>> /\ Last(t) = "\\")
<1>1. PICK n, u : n = Len(t) /\ u = Append(t, c)
  OBVIOUS
<1>2. n \in Nat /\ Len(u) = n + 1 /\ u[n + 1] = c /\ \A i \in 1..n : u[i] = t[i]
  BY <1>1 DEF Texts
<1>3. \A i \in 1..n : ~(u[i] = "\\" /\ u[i + 1] = "n")
  <2>1. n + 1 - 1 = n
    BY <1>2
  <2> QED BY <1>1, <1>2, <2>1 DEF Clean
<1>4. Clean(t)
  <2>1. \A i \in 1..(n - 1) : i \in 1..n /\ i + 1 \in 1..n
    BY <1>2
  <2> QED BY <1>1, <1>2, <1>3, <2>1 DEF Clean
<1>5. ASSUME t # <<>> PROVE n \in 1..n /\ Last(t) = u[n]
  <2>1. n # 0
    BY <1>1, <1>5 DEF Texts
  <2> QED BY <1>1, <1>2, <2>1 DEF Last
<1> QED BY <1>2, <1>3, <1>4, <1>5

(* A clean text is read as it is written.                                  *)
LEMMA ReadAsWritten == \A t \in Texts : Clean(t) => LineFeeds(Escaped(t)) = t
<1>1. PICK P : P = {t \in Texts : Clean(t) => LineFeeds(Escaped(t)) = t}
  OBVIOUS
<1>2. <<>> \in P
  BY <1>1, LineFeedsAppend, EscapedAppend, StepsAre
<1>3. ASSUME NEW t \in Seq(Characters), NEW c \in Characters, t \in P PROVE Append(t, c) \in P
  <2>1. t \in Texts /\ Append(t, c) \in Texts
    BY DEF Texts
  <2>2. SUFFICES ASSUME Clean(Append(t, c)) PROVE LineFeeds(Escaped(Append(t, c))) = Append(t, c)
    BY <1>1, <2>1
  <2>3. Clean(t) /\ ~(c = "n" /\ t # <<>> /\ Last(t) = "\\")
    BY <2>1, <2>2, CleanLonger
  <2>4. PICK e : e = Escaped(t)
    OBVIOUS
  <2>5. e \in Texts /\ LineFeeds(e) = t /\ Escaped(Append(t, c)) = e \o Written(c)
    BY <1>1, <1>3, <2>1, <2>3, <2>4, EscapedAppend
  <2>6. CASE c = "NL"
    <3>1. "\\" \in Characters /\ "n" \in Characters
      BY SetupAssumption
    <3>2. PICK e1 : e1 = Append(e, "\\")
      OBVIOUS
    <3>3. e1 \in Texts
      BY <2>5, <3>1, <3>2 DEF Texts
    <3>4. e \o Written(c) = Append(e1, "n")
      BY <2>5, <2>6, <3>2 DEF Texts, Written
    <3>5. LineFeeds(e1) = WithLineFeed(t, "\\")
      BY <2>5, <3>1, <3>2, LineFeedsAppend
    <3>6. WithLineFeed(t, "\\") = Append(t, "\\")
      BY DEF WithLineFeed
    <3>7. LineFeeds(Append(e1, "n")) = WithLineFeed(Append(t, "\\"), "n")
      BY <3>1, <3>3, <3>5, <3>6, LineFeedsAppend
    <3>8. WithLineFeed(Append(t, "\\"), "n") = Append(t, "NL")
      <4>1. PICK u : u = Append(t, "\\")
        OBVIOUS
      <4>2. u # <<>> /\ Last(u) = "\\"
        BY <2>1, <4>1 DEF Texts, Last
      <4>3. Front(u) = t
        BY <2>1, <4>1 DEF Texts, Front
      <4> QED BY <4>1, <4>2, <4>3 DEF WithLineFeed
    <3> QED BY <2>5, <2>6, <3>4, <3>7, <3>8
  <2>7. CASE c # "NL"
    <3>1. e \o Written(c) = Append(e, c)
      BY <2>5, <2>7 DEF Texts, Written
    <3>2. LineFeeds(Append(e, c)) = WithLineFeed(t, c)
      BY <2>5, LineFeedsAppend
    <3>3. WithLineFeed(t, c) = Append(t, c)
      BY <2>3 DEF WithLineFeed
    <3> QED BY <2>5, <3>1, <3>2, <3>3
  <2> QED BY <2>6, <2>7
<1>4. \A t \in Seq(Characters) : t \in P
  BY <1>2, <1>3, AllSequences
<1> QED BY <1>1, <1>4 DEF Texts

(* What is written of a text begins and ends as the text, or as what a     *)
(* line feed is written as.                                                *)
LEMMA WrittenEnds ==
  ASSUME NEW t \in Texts, t # <<>>, Head(t) # "SP", Last(t) # "SP"
  PROVE  /\ Escaped(t) \in Texts /\ Len(Escaped(t)) >= 1
         /\ Escaped(t)[1] # "SP" /\ Escaped(t)[Len(Escaped(t))] # "SP"
         /\ Escaped(t)[1] = Written(t[1])[1]
         /\ Escaped(t)[Len(Escaped(t))] = Written(t[Len(t)])[Len(Written(t[Len(t)]))]
<1>1. PICK P : P = {u \in Texts : u # <<>> => Len(Escaped(u)) >= 1 /\ Escaped(u)[1] = Written(u[1])[1]}
  OBVIOUS
<1>2. <<>> \in P
  BY <1>1, StepsAre
<1>3. \A c \in Characters : Written(c) \in Texts /\ Len(Written(c)) >= 1
  <2>1. \A c \in Characters : Len(Written(c)) >= 1
    BY DEF Written
  <2> QED BY <2>1, EscapeText
<1>4. ASSUME NEW u \in Seq(Characters), NEW c \in Characters, u \in P PROVE Append(u, c) \in P
  <2>1. PICK v : v = Append(u, c)
    OBVIOUS
  <2>2. u \in Texts /\ v \in Texts
    BY <2>1 DEF Texts
  <2>3. PICK e, x : e = Escaped(u) /\ x = Written(c)
    OBVIOUS
  <2>4. e \in Texts /\ x \in Texts /\ Len(x) >= 1 /\ Escaped(v) = e \o x
    BY <1>3, <2>1, <2>2, <2>3, EscapedAppend
  <2>5. CASE u = <<>>
    <3>1. v[1] = c
      BY <2>1, <2>5
    <3>2. e = <<>>
      BY <2>3, <2>5, EscapedAppend
    <3>3. Escaped(v) = x
      BY <2>4, <3>2 DEF Texts
    <3> QED BY <1>1, <2>1, <2>2, <2>3, <2>4, <3>1, <3>3
  <2>6. CASE u # <<>>
    <3>1. Len(e) >= 1 /\ e[1] = Written(u[1])[1]
      BY <1>1, <1>4, <2>3, <2>6
    <3>2. v[1] = u[1]
      BY <2>1, <2>6
    <3>3. Len(e \o x) >= 1 /\ (e \o x)[1] = e[1]
      BY <2>4, <3>1 DEF Texts
    <3>4. Len(Escaped(v)) >= 1 /\ Escaped(v)[1] = Written(v[1])[1]
      BY <2>4, <3>1, <3>2, <3>3
    <3> QED BY <1>1, <2>1, <2>2, <3>4
  <2> QED BY <2>5, <2>6
<1>5. \A u \in Seq(Characters) : u \in P
  BY <1>2, <1>4, AllSequences
<1>6. PICK n : n = Len(t) - 1
  OBVIOUS
<1>7. n \in Nat /\ Len(t) = n + 1 /\ Head(t) = t[1] /\ Last(t) = t[n + 1]
  BY <1>6 DEF Texts, Last
<1>8. Len(Escaped(t)) >= 1 /\ Escaped(t)[1] = Written(t[1])[1] /\ t[1] \in Characters
  BY <1>1, <1>5, <1>7 DEF Texts
<1>9. \A c \in Characters : c # "SP" => Written(c)[1] # "SP" /\ Written(c)[Len(Written(c))] # "SP"
  BY DEF Written
<1>10. Escaped(t)[1] # "SP"
  BY <1>7, <1>8, <1>9
<1>11. /\ Escaped(t)[Len(Escaped(t))] # "SP"
       /\ Escaped(t)[Len(Escaped(t))] = Written(t[Len(t)])[Len(Written(t[Len(t)]))]
  <2>a. \E r \in Seq(Characters) : \E c \in Characters :
           Len(r) = n /\ t = Append(r, c) /\ c = t[n + 1] /\ r = Front(t) /\ \A j \in 1..n : r[j] = t[j]
    <3>1. t \in Seq(Characters)
      BY DEF Texts
    <3> QED BY <1>7, <3>1, Longer
  <2>1. PICK r \in Seq(Characters) : \E c \in Characters : t = Append(r, c) /\ c = t[n + 1]
    BY <2>a
  <2>2. PICK c \in Characters : t = Append(r, c) /\ c = t[n + 1]
    BY <2>1
  <2>3. PICK e, x : e = Escaped(r) /\ x = Written(c)
    OBVIOUS
  <2>4. e \in Texts /\ x \in Texts /\ Len(x) >= 1 /\ Escaped(t) = e \o x
    <3>1. r \in Texts
      BY <2>1 DEF Texts
    <3> QED BY <1>3, <2>2, <2>3, <3>1, EscapedAppend
  <2>5. (e \o x)[Len(e \o x)] = x[Len(x)]
    BY <2>4 DEF Texts
  <2>6. x[Len(x)] # "SP"
    BY <1>7, <1>9, <2>2, <2>3
  <2>7. x = Written(t[Len(t)])
    BY <1>7, <2>2, <2>3
  <2>8. Escaped(t)[Len(Escaped(t))] = x[Len(x)]
    BY <2>4, <2>5
  <2> QED BY <2>6, <2>7, <2>8
<1>12. Escaped(t) \in Texts
  BY EscapedAppend
<1> QED BY <1>8, <1>10, <1>11, <1>12

(* A text in no quotes is in none as it is written.                        *)
LEMMA WrittenOpen ==
  ASSUME NEW t \in Texts, t # <<>>, Head(t) # "SP", Last(t) # "SP", ~Enclosed(t)
  PROVE  ~Enclosed(Escaped(t))
<1>1. PICK e, n : e = Escaped(t) /\ n = Len(t)
  OBVIOUS
<1>2. n \in Nat /\ n >= 1 /\ t[1] \in Characters /\ t[n] \in Characters
  BY <1>1 DEF Texts
<1>3. e[1] = Written(t[1])[1] /\ e[Len(e)] = Written(t[n])[Len(Written(t[n]))]
  BY <1>1, WrittenEnds
<1>4. \A c \in Characters : Written(c)[1] \in {"QT", "AP"} => Written(c) = <<c>> /\ Written(c)[1] = c
  BY DEF Written
<1>5. \A c \in Characters :
        Written(c)[Len(Written(c))] \in {"QT", "AP"} => Written(c) = <<c>> /\ Written(c)[Len(Written(c))] = c
  BY DEF Written
<1>6. SUFFICES ASSUME Len(e) >= 2, e[1] \in {"QT", "AP"}, e[Len(e)] = e[1] PROVE FALSE
  BY <1>1 DEF Enclosed
<1>7. Written(t[1]) = <<t[1]>> /\ t[1] \in {"QT", "AP"} /\ t[n] = t[1]
  BY <1>2, <1>3, <1>4, <1>5, <1>6
<1>8. n >= 2
  <2>1. SUFFICES ASSUME n = 1 PROVE FALSE
    BY <1>2
  <2>2. t = Append(<<>>, t[1])
    <3>1. t \in Seq(Characters) /\ Len(t) = 0 + 1 /\ 0 \in Nat
      BY <1>1, <2>1 DEF Texts
    <3>2. \E r \in Seq(Characters) : \E c \in Characters :
            Len(r) = 0 /\ t = Append(r, c) /\ c = t[0 + 1] /\ r = Front(t) /\ \A j \in 1..0 : r[j] = t[j]
      BY <3>1, Longer
    <3>3. PICK r \in Seq(Characters) : \E c \in Characters : Len(r) = 0 /\ t = Append(r, c) /\ c = t[0 + 1]
      BY <3>2
    <3>4. PICK c \in Characters : t = Append(r, c) /\ c = t[0 + 1]
      BY <3>3
    <3>5. r = <<>> /\ 0 + 1 = 1
      BY <3>3
    <3> QED BY <3>4, <3>5
  <2>3. Escaped(Append(<<>>, t[1])) = Escaped(<<>>) \o Written(t[1])
    BY <1>2, StepsAre, EscapedAppend
  <2>4. e = <<>> \o <<t[1]>>
    BY <1>1, <1>7, <2>2, <2>3, EscapedAppend
  <2>5. Len(e) = 1
    BY <1>2, <2>4
  <2> QED BY <1>6, <2>5
<1> QED BY <1>1, <1>7, <1>8 DEF Enclosed

(* A set of numbers of a range has a greatest one.                         *)
LEMMA GreatestNat ==
  ASSUME NEW n \in Nat, NEW S \in SUBSET (1..n), S # {}
  PROVE  \E x \in S : \A y \in S : y <= x
<1>1. PICK R : R = {i \in 0..n : n - i \in S}
  OBVIOUS
<1>2. R \in SUBSET Nat
  BY <1>1
<1>3. \A x \in S : n - x \in R /\ n - (n - x) = x
  BY <1>1
<1>4. PICK i \in R : \A j \in R : i <= j
  BY <1>2, <1>3, LeastNat
<1>5. n - i \in S
  BY <1>1, <1>4
<1>6. ASSUME NEW y \in S PROVE y <= n - i
  <2>1. n - y \in R
    BY <1>3
  <2>2. i <= n - y /\ y \in 1..n /\ i \in Nat
    BY <1>2, <1>4, <2>1
  <2> QED BY <2>2
<1> QED BY <1>5, <1>6

(* Without the blanks around it a text is a text, and one that neither     *)
(* begins nor ends with a blank is as it was.                              *)
LEMMA TrimmedIs ==
  ASSUME NEW t \in Texts
  PROVE  /\ Trimmed(t) \in Texts
         /\ Len(t) >= 1 /\ t[1] # "SP" /\ t[Len(t)] # "SP" => Trimmed(t) = t
<1>1. PICK ink : ink = {i \in DOMAIN t : t[i] # "SP"}
  OBVIOUS
<1>2. Len(t) \in Nat /\ DOMAIN t = 1..Len(t) /\ ink \in SUBSET (1..Len(t)) /\ ink \in SUBSET Nat
  BY <1>1 DEF Texts
<1>3. CASE ink = {}
  <2>1. Trimmed(t) = <<>>
    BY <1>1, <1>3 DEF Trimmed
  <2>2. ~(Len(t) >= 1 /\ t[1] # "SP")
    BY <1>1, <1>2, <1>3
  <2> QED BY <2>1, <2>2, StepsAre
<1>4. CASE ink # {}
  <2>1. PICK a : a = CHOOSE i \in ink : \A j \in ink : i <= j
    OBVIOUS
  <2>2. PICK b : b = CHOOSE i \in ink : \A j \in ink : j <= i
    OBVIOUS
  <2>3. Trimmed(t) = SubSeq(t, a, b)
    BY <1>1, <1>4, <2>1, <2>2 DEF Trimmed
  <2>4. a \in ink /\ \A j \in ink : a <= j
    <3>1. \E i \in ink : \A j \in ink : i <= j
      BY <1>2, <1>4, LeastNat
    <3> QED BY <2>1, <3>1
  <2>5. b \in ink /\ \A j \in ink : j <= b
    <3>1. \E i \in ink : \A j \in ink : j <= i
      BY <1>2, <1>4, GreatestNat
    <3> QED BY <2>2, <3>1
  <2>6. SubSeq(t, a, b) \in Texts
    <3>1. a \in 1..Len(t) /\ b \in 1..Len(t)
      BY <1>2, <2>4, <2>5
    <3> QED BY <3>1 DEF Texts
  <2>7. ASSUME Len(t) >= 1, t[1] # "SP", t[Len(t)] # "SP" PROVE SubSeq(t, a, b) = t
    <3>1. 1 \in ink /\ Len(t) \in ink
      BY <1>1, <1>2, <2>7
    <3>a. a \in 1..Len(t) /\ a <= 1 /\ b \in 1..Len(t) /\ Len(t) <= b
      BY <1>2, <2>4, <2>5, <3>1
    <3>2. a = 1 /\ b = Len(t)
      <4>1. PICK n \in Nat : n = Len(t)
        BY <1>2
      <4>2. a \in 1..n /\ a <= 1 /\ b \in 1..n /\ n <= b
        BY <3>a, <4>1
      <4>3. a = 1 /\ b = n
        BY <4>2
      <4> QED BY <4>1, <4>3
    <3>3. SubSeq(t, 1, Len(t)) = t
      BY DEF Texts
    <3> QED BY <3>2, <3>3
  <2> QED BY <2>3, <2>6, <2>7
<1> QED BY <1>3, <1>4

-----------------------------------------------------------------------------
(* The invariant of the setup program.                                     *)

Menus == [options : Nat, pc : {"menu", "edit", "exit", "overflow"}, top : Nat, index : Nat,
          param : Texts, saves : Nat]
Services == [state : {"stopped", "starting", "running", "stopping"}, deleted : BOOLEAN, early : BOOLEAN]

IniTypes ==
  /\ ktsIni \in [1..menu.options -> Texts]
  /\ saved \in [1..menu.options -> Texts]

\* The rows from the top of the screen are rows of the menu, with the cursor.
Scrolled(m) ==
  /\ m \in Menus
  /\ m.top <= m.index /\ m.index < m.top + Shown(m.options)
  /\ m.top + Shown(m.options) <= MenuRows(m.options)
PlaceOK ==
  /\ Scrolled(menu)
  /\ menu.index # BlankRow
  /\ menu.pc = "overflow" => menu.options = 0
  /\ menu.pc = "edit" => menu.index > BlankRow

\* What was saved is what was typed, which is clean, and is in kts.ini as it is
\* written; so is what is typed now.
SavedOK ==
  /\ menu.pc = "edit" => Clean(menu.param)
  /\ \A k \in DOMAIN saved :
       saved[k] # <<>> => Clean(saved[k]) /\ ktsIni[k] = Escaped(saved[k])

ServicesOK ==
  \A name \in DOMAIN services :
    /\ services[name] \in Services
    /\ services[name].deleted => services[name].state = "stopping" \/ services[name].early

SetupIInv == PlaceOK /\ IniTypes /\ SavedOK /\ ServicesOK

(* A text out of its quotes, and in the buffer, is a text; one that is in  *)
(* no quotes, and fits, is as it was.                                      *)
LEMMA CutIs ==
  ASSUME NEW t \in Texts
  PROVE  /\ Unquoted(t) \in Texts /\ Cut(t) \in Texts
         /\ ~Enclosed(t) => Unquoted(t) = t
         /\ Len(t) <= KeyBuffer => Cut(t) = t
<1>1. Len(t) \in Nat /\ KeyBuffer \in Nat
  BY SetupAssumption DEF Texts
<1>2. ASSUME NEW a \in 1..(Len(t) + 1), NEW b \in 0..Len(t) PROVE SubSeq(t, a, b) \in Texts
  <2>1. t \in Seq(Characters)
    BY DEF Texts
  <2>2. \A i \in a..b : t[i] \in Characters
    BY <1>1, <1>2, <2>1
  <2> QED BY <1>1, <1>2, <2>1, <2>2 DEF Texts
<1>3. Unquoted(t) \in Texts
  <2>1. ASSUME Enclosed(t) PROVE SubSeq(t, 2, Len(t) - 1) \in Texts
    <3>1. 2 \in 1..(Len(t) + 1) /\ Len(t) - 1 \in 0..Len(t)
      BY <1>1, <2>1 DEF Enclosed
    <3> QED BY <1>2, <3>1
  <2> QED BY <2>1 DEF Unquoted
<1>4. Cut(t) \in Texts
  <2>1. ASSUME Len(t) > KeyBuffer PROVE SubSeq(t, 1, KeyBuffer) \in Texts
    <3>1. 1 \in 1..(Len(t) + 1) /\ KeyBuffer \in 0..Len(t)
      BY <1>1, <2>1
    <3> QED BY <1>2, <3>1
  <2> QED BY <2>1 DEF Cut
<1>5. Len(t) <= KeyBuffer => Cut(t) = t
  BY <1>1 DEF Cut
<1> QED BY <1>3, <1>4, <1>5 DEF Unquoted

(* What an option is read as is a text, and clean.                         *)
LEMMA KeyIsClean ==
  ASSUME NEW k, ktsIni[k] \in Texts
  PROVE  GetKey(k) \in Texts /\ Clean(GetKey(k))
<1>1. PICK a, b : a = Trimmed(ktsIni[k]) /\ b = Unquoted(a)
  OBVIOUS
<1>2. PICK t : t = Cut(b)
  OBVIOUS
<1>3. a \in Texts
  BY <1>1, TrimmedIs
<1>4. t \in Texts
  BY <1>1, <1>2, <1>3, CutIs
<1>5. LineFeeds(t) \in Texts /\ Clean(LineFeeds(t))
  BY <1>4, LineFeedsAppend, ReadIsClean
<1> QED BY <1>1, <1>2, <1>5 DEF GetKey

(* At first.                                                               *)
LEMMA SetupStarts == SetupInit => SetupIInv
<1> SUFFICES ASSUME SetupInit PROVE SetupIInv
  OBVIOUS
<1>1. PICK n \in SetupOptions :
        /\ menu = [options |-> n, pc |-> "menu", top |-> 0, index |-> 0, param |-> <<>>, saves |-> 0]
        /\ ktsIni = [k \in 1..n |-> IF k = 1 THEN SetupName ELSE SetupText]
        /\ services = <<>>
        /\ saved = [k \in 1..n |-> <<>>]
  BY DEF SetupInit
<1>2. n \in Nat /\ SetupHeight \in Nat /\ SetupHeight > 0 /\ <<>> \in Texts
  BY SetupAssumption, StepsAre
<1>3. SetupName \in Texts /\ SetupText \in Texts
  BY SetupAssumption DEF Texts
<1>4. PlaceOK
  <2>1. menu \in Menus
    BY <1>1, <1>2 DEF Menus
  <2>2. menu.top = 0 /\ menu.index = 0 /\ menu.options = n /\ menu.pc = "menu"
    BY <1>1
  <2>3. 0 < Shown(n) /\ Shown(n) <= MenuRows(n)
    BY <1>2 DEF Shown, MenuRows
  <2>4. 0 + Shown(n) = Shown(n)
    BY <1>2 DEF Shown, MenuRows
  <2> QED BY <2>1, <2>2, <2>3, <2>4 DEF PlaceOK, Scrolled, BlankRow
<1>5. IniTypes
  BY <1>1, <1>2, <1>3 DEF IniTypes
<1>6. SavedOK
  <2>1. menu.pc # "edit" /\ \A k \in DOMAIN saved : saved[k] = <<>>
    BY <1>1
  <2> QED BY <2>1 DEF SavedOK
<1>7. ServicesOK
  <2>1. DOMAIN services = {}
    BY <1>1
  <2> QED BY <2>1 DEF ServicesOK
<1> QED BY <1>4, <1>5, <1>6, <1>7 DEF SetupIInv

-----------------------------------------------------------------------------
(* The services.                                                           *)

(* A service that becomes one of the kind leaves the others.               *)
LEMMA BecomesOK ==
  ASSUME ServicesOK, NEW name, NEW service \in Services, Becomes(name, service),
         service.deleted => service.state = "stopping" \/ service.early
  PROVE  ServicesOK'
<1>1. services' = [s \in DOMAIN services \cup {name} |-> IF s = name THEN service ELSE services[s]]
  BY DEF Becomes
<1>2. ASSUME NEW s \in DOMAIN services \cup {name}
      PROVE  /\ services'[s] \in Services
             /\ services'[s].deleted => services'[s].state = "stopping" \/ services'[s].early
  <2>1. CASE s = name
    <3>1. services'[s] = service
      BY <1>1, <2>1
    <3> QED BY <3>1
  <2>2. CASE s # name
    <3>1. s \in DOMAIN services /\ services'[s] = services[s]
      BY <1>1, <1>2, <2>2
    <3> QED BY <3>1 DEF ServicesOK
  <2> QED BY <2>1, <2>2
<1>3. DOMAIN services' = DOMAIN services \cup {name}
  BY <1>1
<1> QED BY <1>2, <1>3 DEF ServicesOK

(* So does one that goes, and a call that changes none.                    *)
LEMMA GoneOK ==
  ASSUME ServicesOK, NEW name, Gone(name) \/ UNCHANGED services
  PROVE  ServicesOK'
<1>1. CASE Gone(name)
  <2>1. services' = [s \in DOMAIN services \ {name} |-> services[s]]
    BY <1>1 DEF Gone
  <2>2. DOMAIN services' \subseteq DOMAIN services /\ \A s \in DOMAIN services' : services'[s] = services[s]
    BY <2>1
  <2> QED BY <2>2 DEF ServicesOK
<1>2. CASE UNCHANGED services
  BY <1>2 DEF ServicesOK
<1> QED BY <1>1, <1>2

(* A service with other parts.                                             *)
LEMMA ServiceParts ==
  ASSUME NEW s \in Services
  PROVE  /\ s.state \in {"stopped", "starting", "running", "stopping"}
         /\ s.deleted \in BOOLEAN /\ s.early \in BOOLEAN
         /\ \A v \in {"stopped", "starting", "running", "stopping"} :
              /\ [s EXCEPT !.state = v] \in Services
              /\ [s EXCEPT !.state = v].state = v
              /\ [s EXCEPT !.state = v].deleted = s.deleted
              /\ [s EXCEPT !.state = v].early = s.early
BY DEF Services

(* Functions keep what holds of the services.                              *)
LEMMA FunctionOK ==
  ASSUME ServicesOK, NEW i \in 0..4, ProcessFunction(i)
  PROVE  ServicesOK'
<1>1. PICK name : name = ServiceName
  OBVIOUS
<1>2. CASE i = 0
  <2>1. CreateService(name)
    BY <1>1, <1>2 DEF ProcessFunction, Install
  <2>2. PICK new : new = [state |-> "stopped", deleted |-> FALSE, early |-> FALSE]
    OBVIOUS
  <2>3. new \in Services /\ ~new.deleted
    BY <2>2 DEF Services
  <2>4. UNCHANGED services \/ Becomes(name, new)
    BY <2>1, <2>2 DEF CreateService
  <2> QED BY <2>3, <2>4, BecomesOK, GoneOK
<1>3. CASE i = 1
  <2>1. DeleteService(name)
    BY <1>1, <1>3 DEF ProcessFunction, Uninstall
  <2>2. CASE name \notin DOMAIN services
    <3>1. UNCHANGED services
      BY <2>1, <2>2 DEF DeleteService
    <3> QED BY <3>1, GoneOK
  <2>3. CASE name \in DOMAIN services /\ services[name].state = "stopped"
    <3>1. Gone(name)
      BY <2>1, <2>3 DEF DeleteService
    <3> QED BY <3>1, GoneOK
  <2>4. CASE name \in DOMAIN services /\ services[name].state # "stopped"
    <3>1. PICK old : old = services[name]
      OBVIOUS
    <3>2. PICK marked : marked = Marked(old)
      OBVIOUS
    <3>3. PICK new : new = Told(marked)
      OBVIOUS
    <3>4. Becomes(name, new)
      BY <2>1, <2>4, <3>1, <3>2, <3>3 DEF DeleteService
    <3>5. old \in Services /\ old.state # "stopped" /\ (old.deleted => old.state = "stopping" \/ old.early)
      BY <2>4, <3>1 DEF ServicesOK
    <3>6. marked = [state |-> old.state, deleted |-> TRUE, early |-> old.early \/ old.state = "starting"]
      BY <3>2, <3>5 DEF Marked, Services
    <3>7. marked \in Services
      BY <3>5, <3>6 DEF Services
    <3>8. new \in Services /\ new.early = marked.early /\ new.state = IF old.state = "running" THEN "stopping" ELSE old.state
      <4>1. marked.state = old.state
        BY <3>6
      <4>2. CASE old.state = "running"
        <5>1. new = [marked EXCEPT !.state = "stopping"]
          BY <3>3, <4>1, <4>2 DEF Told
        <5>2. new \in Services /\ new.state = "stopping" /\ new.early = marked.early
          BY <3>7, <5>1, ServiceParts
        <5> QED BY <4>2, <5>2
      <4>3. CASE old.state # "running"
        <5>1. new = marked
          BY <3>3, <4>1, <4>3 DEF Told
        <5> QED BY <3>7, <4>1, <4>3, <5>1
      <4> QED BY <4>2, <4>3
    <3>9. new.state = "stopping" \/ new.early
      BY <3>5, <3>6, <3>8 DEF Services
    <3> QED BY <3>4, <3>8, <3>9, BecomesOK
  <2> QED BY <2>2, <2>3, <2>4
<1>4. CASE i = 2
  <2>1. StartService(name)
    BY <1>1, <1>4 DEF ProcessFunction, Start
  <2>2. CASE name \in DOMAIN services /\ services[name].state = "stopped"
    <3>1. PICK old : old = services[name]
      OBVIOUS
    <3>2. PICK new : new = [old EXCEPT !.state = "starting"]
      OBVIOUS
    <3>3. Becomes(name, new)
      BY <2>1, <2>2, <3>1, <3>2 DEF StartService
    <3>4. old \in Services /\ old.state = "stopped" /\ (old.deleted => old.state = "stopping" \/ old.early)
      BY <2>2, <3>1 DEF ServicesOK
    <3>5. new \in Services /\ new.deleted = old.deleted /\ new.early = old.early
      BY <3>2, <3>4, ServiceParts
    <3> QED BY <3>3, <3>4, <3>5, BecomesOK
  <2>3. CASE ~(name \in DOMAIN services /\ services[name].state = "stopped")
    <3>1. UNCHANGED services
      BY <2>1, <2>3 DEF StartService
    <3> QED BY <3>1, GoneOK
  <2> QED BY <2>2, <2>3
<1>5. CASE i = 3
  <2>1. StopService(name)
    BY <1>1, <1>5 DEF ProcessFunction, Stop
  <2>2. CASE name \in DOMAIN services
    <3>1. PICK old : old = services[name]
      OBVIOUS
    <3>2. PICK new : new = Told(old)
      OBVIOUS
    <3>3. Becomes(name, new)
      BY <2>1, <2>2, <3>1, <3>2 DEF StopService
    <3>4. old \in Services /\ (old.deleted => old.state = "stopping" \/ old.early)
      BY <2>2, <3>1 DEF ServicesOK
    <3>5. new \in Services /\ (new.deleted => new.state = "stopping" \/ new.early)
      BY <3>2, <3>4, ServiceParts DEF Told
    <3> QED BY <3>3, <3>5, BecomesOK
  <2>3. CASE name \notin DOMAIN services
    <3>1. UNCHANGED services
      BY <2>1, <2>3 DEF StopService
    <3> QED BY <3>1, GoneOK
  <2> QED BY <2>2, <2>3
<1>6. CASE i = 4
  <2>1. UNCHANGED services
    BY <1>6 DEF ProcessFunction, RSAKey
  <2> QED BY <2>1, GoneOK
<1> QED BY <1>2, <1>3, <1>4, <1>5, <1>6

(* The manager's own steps keep it.                                        *)
LEMMA MovesOK ==
  ASSUME ServicesOK, ServiceMoves
  PROVE  ServicesOK'
<1>1. PICK name \in DOMAIN services :
        \/ /\ services[name].state = "starting"
           /\ Becomes(name, [services[name] EXCEPT !.state = "running"]) \/ ServiceEnds(name)
        \/ services[name].state \in {"running", "stopping"} /\ ServiceEnds(name)
  BY DEF ServiceMoves
<1>2. PICK old : old = services[name]
  OBVIOUS
<1>3. old \in Services /\ (old.deleted => old.state = "stopping" \/ old.early)
  BY <1>1, <1>2 DEF ServicesOK
<1>4. CASE old.state = "starting" /\ Becomes(name, [services[name] EXCEPT !.state = "running"])
  <2>1. PICK new : new = [old EXCEPT !.state = "running"]
    OBVIOUS
  <2>2. Becomes(name, new)
    BY <1>2, <1>4, <2>1
  <2>3. new \in Services /\ new.deleted = old.deleted /\ new.early = old.early
    BY <1>3, <2>1, ServiceParts
  <2>4. new.deleted => new.state = "stopping" \/ new.early
    BY <1>3, <1>4, <2>3
  <2> QED BY <2>2, <2>3, <2>4, BecomesOK
<1>5. CASE ServiceEnds(name)
  <2>1. CASE old.deleted
    <3>1. Gone(name)
      BY <1>2, <1>5, <2>1 DEF ServiceEnds
    <3> QED BY <3>1, GoneOK
  <2>2. CASE ~old.deleted
    <3>1. PICK new : new = [old EXCEPT !.state = "stopped"]
      OBVIOUS
    <3>2. Becomes(name, new)
      BY <1>2, <1>5, <2>2, <3>1 DEF ServiceEnds
    <3>3. new \in Services /\ new.deleted = old.deleted
      BY <1>3, <3>1, ServiceParts
    <3> QED BY <2>2, <3>2, <3>3, BecomesOK
  <2> QED BY <2>1, <2>2
<1> QED BY <1>1, <1>2, <1>4, <1>5

-----------------------------------------------------------------------------
(* The cursor.                                                             *)

(* The rows and what of them is on the screen.                             *)
LEMMA RowsAre ==
  ASSUME NEW n \in Nat
  PROVE  /\ MenuRows(n) \in Nat /\ MenuRows(n) = n + 6
         /\ Shown(n) \in Nat /\ Shown(n) > 0 /\ Shown(n) <= MenuRows(n)
<1>1. SetupHeight \in Nat /\ SetupHeight > 0
  BY SetupAssumption
<1>2. MenuRows(n) \in Nat /\ MenuRows(n) = n + 6
  BY DEF MenuRows
<1> QED BY <1>1, <1>2 DEF Shown

\* The menu with the cursor at a row, from a row on.
PlacedAt(m, index, top) == [m EXCEPT !.index = index, !.top = top]

(* It is otherwise as it was.                                              *)
LEMMA PlacedIs ==
  ASSUME NEW m \in Menus, NEW i \in Nat, NEW t \in Nat
  PROVE  /\ PlacedAt(m, i, t) \in Menus
         /\ PlacedAt(m, i, t).index = i /\ PlacedAt(m, i, t).top = t
         /\ PlacedAt(m, i, t).options = m.options /\ PlacedAt(m, i, t).pc = m.pc
         /\ PlacedAt(m, i, t).param = m.param
BY DEF Menus, PlacedAt

(* A key moves the cursor a row at most, and what is on the screen with it.*)
LEMMA Moved ==
  ASSUME NEW m, Scrolled(m), NEW o \in {Up(m), Down(m)}
  PROVE  /\ Scrolled(o) /\ o.options = m.options /\ o.pc = m.pc /\ o.param = m.param
         /\ o = Down(m) /\ m.index < MenuRows(m.options) - 1 => o.index = m.index + 1
         /\ o = Up(m) /\ m.index > 0 => o.index = m.index - 1
<1>1. PICK n, rows, shown : n = m.options /\ rows = MenuRows(n) /\ shown = Shown(n)
  OBVIOUS
<1>2. m \in Menus /\ n \in Nat /\ m.top \in Nat /\ m.index \in Nat
  BY <1>1 DEF Scrolled, Menus
<1>3. rows \in Nat /\ shown \in Nat /\ shown > 0 /\ shown <= rows
  BY <1>1, <1>2, RowsAre
<1>4. m.top <= m.index /\ m.index < m.top + shown /\ m.top + shown <= rows
  BY <1>1 DEF Scrolled
<1>6. CASE o = Down(m)
  <2>1. PICK i : i = IF m.index < rows - 1 THEN m.index + 1 ELSE m.index
    OBVIOUS
  <2>2. PICK t : t = IF i > m.top + shown - 1 THEN m.top + 1 ELSE m.top
    OBVIOUS
  <2>3. o = PlacedAt(m, i, t)
    BY <1>1, <1>6, <2>1, <2>2 DEF Down, PlacedAt
  <2>4. i \in Nat /\ t \in Nat
    BY <1>2, <2>1, <2>2
  <2>5. o \in Menus /\ o.index = i /\ o.top = t /\ o.options = n /\ o.pc = m.pc /\ o.param = m.param
    <3>1. /\ PlacedAt(m, i, t) \in Menus
          /\ PlacedAt(m, i, t).index = i /\ PlacedAt(m, i, t).top = t
          /\ PlacedAt(m, i, t).options = m.options /\ PlacedAt(m, i, t).pc = m.pc
          /\ PlacedAt(m, i, t).param = m.param
      <4>1. m \in Menus
        BY <1>2
      <4> QED BY <2>4, <4>1, PlacedIs
    <3> QED BY <1>1, <2>3, <3>1
  <2>6. t <= i /\ i < t + shown /\ t + shown <= rows
    BY <1>2, <1>3, <1>4, <2>1, <2>2
  <2>7. Scrolled(o)
    BY <1>1, <2>5, <2>6 DEF Scrolled
  <2>8. m.index > 0 /\ o = Up(m) => o.index = m.index - 1
    <3>1. SUFFICES ASSUME m.index > 0, o = Up(m) PROVE o.index = m.index - 1
      OBVIOUS
    <3>2. PICK j, u : j = m.index - 1 /\ u = IF j < m.top THEN m.top - 1 ELSE m.top
      OBVIOUS
    <3>3. o = PlacedAt(m, j, u)
      BY <3>1, <3>2 DEF Up, PlacedAt
    <3>4. j \in Nat /\ u \in Nat
      BY <1>2, <1>4, <3>1, <3>2
    <3> QED BY <1>2, <3>2, <3>3, <3>4, PlacedIs
  <2> QED BY <1>1, <2>1, <2>5, <2>7, <2>8
<1>7. CASE o = Up(m) /\ o # Down(m)
  <2>1. PICK i : i = IF m.index > 0 THEN m.index - 1 ELSE m.index
    OBVIOUS
  <2>2. PICK t : t = IF i < m.top THEN m.top - 1 ELSE m.top
    OBVIOUS
  <2>3. o = PlacedAt(m, i, t)
    BY <1>7, <2>1, <2>2 DEF Up, PlacedAt
  <2>4. i \in Nat /\ t \in Nat
    BY <1>2, <1>4, <2>1, <2>2
  <2>5. o \in Menus /\ o.index = i /\ o.top = t /\ o.options = n /\ o.pc = m.pc /\ o.param = m.param
    <3>1. /\ PlacedAt(m, i, t) \in Menus
          /\ PlacedAt(m, i, t).index = i /\ PlacedAt(m, i, t).top = t
          /\ PlacedAt(m, i, t).options = m.options /\ PlacedAt(m, i, t).pc = m.pc
          /\ PlacedAt(m, i, t).param = m.param
      <4>1. m \in Menus
        BY <1>2
      <4> QED BY <2>4, <4>1, PlacedIs
    <3> QED BY <1>1, <2>3, <3>1
  <2>6. t <= i /\ i < t + shown /\ t + shown <= rows
    BY <1>2, <1>3, <1>4, <2>1, <2>2
  <2>7. Scrolled(o)
    BY <1>1, <2>5, <2>6 DEF Scrolled
  <2> QED BY <1>1, <1>7, <2>1, <2>5, <2>7
<1> QED BY <1>6, <1>7

(* A key keeps the cursor off the empty row, where there are options.      *)
LEMMA SkipOK ==
  ASSUME PlaceOK, menu.pc = "menu", NEW once, NEW twice, Skip(once, twice),
         \/ once = Up(menu) /\ twice = Up(once)
         \/ once = Down(menu) /\ twice = Down(once)
  PROVE  PlaceOK' /\ menu'.options = menu.options /\ menu'.pc \in {"menu", "overflow"}
<1>1. Scrolled(menu) /\ menu.index # BlankRow /\ menu.options \in Nat /\ menu \in Menus
  BY DEF PlaceOK, Scrolled, Menus
<1>2. Scrolled(once) /\ once.options = menu.options /\ once.pc = "menu" /\ once \in Menus
  <2>1. once \in {Up(menu), Down(menu)}
    OBVIOUS
  <2> QED BY <1>1, <2>1, Moved DEF Scrolled
<1>3. Scrolled(twice) /\ twice.options = menu.options /\ twice.pc = "menu"
  <2>1. twice \in {Up(once), Down(once)}
    OBVIOUS
  <2> QED BY <1>2, <2>1, Moved
<1>4. CASE once.index # BlankRow
  <2>1. menu' = once
    BY <1>4 DEF Skip
  <2> QED BY <1>2, <1>4, <2>1 DEF PlaceOK
<1>5. CASE once.index = BlankRow /\ twice.index # BlankRow
  <2>1. menu' = twice
    BY <1>5 DEF Skip
  <2> QED BY <1>3, <1>5, <2>1 DEF PlaceOK
<1>6. CASE once.index = BlankRow /\ twice.index = BlankRow
  <2>1. menu' = [menu EXCEPT !.pc = "overflow"]
    BY <1>6 DEF Skip
  <2>2. menu' \in Menus /\ menu'.pc = "overflow" /\ menu'.options = menu.options /\ menu'.index = menu.index
        /\ menu'.top = menu.top
    BY <1>1, <2>1 DEF Menus
  <2>3. Scrolled(menu')
    BY <1>1, <2>2 DEF Scrolled
  <2>4. menu.options = 0
    <3>1. CASE once = Up(menu) /\ twice = Up(once)
      <4>1. twice.index = once.index - 1
        <5>1. once.index > 0
          BY <1>6 DEF BlankRow
        <5> QED BY <1>2, <3>1, <5>1, Moved
      <4> QED BY <1>6, <4>1 DEF BlankRow
    <3>2. CASE once = Down(menu) /\ twice = Down(once)
      <4>1. SUFFICES ASSUME menu.options > 0 PROVE FALSE
        BY <1>1
      <4>2. once.index < MenuRows(once.options) - 1
        BY <1>1, <1>2, <1>6, <4>1 DEF BlankRow, MenuRows
      <4>3. twice.index = once.index + 1
        BY <1>2, <3>2, <4>2, Moved
      <4> QED BY <1>6, <4>3 DEF BlankRow
    <3> QED BY <3>1, <3>2
  <2> QED BY <1>1, <2>2, <2>3, <2>4 DEF PlaceOK
<1> QED BY <1>4, <1>5, <1>6

-----------------------------------------------------------------------------
(* The steps.                                                              *)

(* A step that leaves kts.ini, its history and the editor.                 *)
LEMMA TextsStay ==
  ASSUME SetupIInv, UNCHANGED <<ktsIni, saved>>, menu'.options = menu.options, menu'.pc # "edit"
  PROVE  IniTypes' /\ SavedOK'
<1>1. IniTypes'
  BY DEF SetupIInv, IniTypes
<1>2. SavedOK'
  BY DEF SetupIInv, SavedOK
<1> QED BY <1>1, <1>2

(* The keys.                                                               *)
LEMMA PressKeyOK == SetupIInv /\ PressKey => SetupIInv'
<1> SUFFICES ASSUME SetupIInv, PressKey PROVE SetupIInv'
  OBVIOUS
<1>1. menu.pc = "menu" /\ UNCHANGED <<ktsIni, services, saved>>
  BY DEF PressKey
<1>2. PlaceOK /\ menu \in Menus /\ ServicesOK
  BY DEF SetupIInv, PlaceOK, Scrolled
<1>3. ServicesOK'
  BY <1>1, <1>2, GoneOK
<1>4. PlaceOK' /\ menu'.options = menu.options /\ menu'.pc # "edit"
  <2>1. CASE Skip(Up(menu), Up(Up(menu)))
    <3>1. PICK once : once = Up(menu)
      OBVIOUS
    <3>2. PICK twice : twice = Up(once)
      OBVIOUS
    <3>3. Skip(once, twice)
      BY <2>1, <3>1, <3>2
    <3> QED BY <1>1, <1>2, <3>1, <3>2, <3>3, SkipOK
  <2>2. CASE Skip(Down(menu), Down(Down(menu)))
    <3>1. PICK once : once = Down(menu)
      OBVIOUS
    <3>2. PICK twice : twice = Down(once)
      OBVIOUS
    <3>3. Skip(once, twice)
      BY <2>2, <3>1, <3>2
    <3> QED BY <1>1, <1>2, <3>1, <3>2, <3>3, SkipOK
  <2>3. CASE menu' = [menu EXCEPT !.pc = "exit"]
    <3>1. menu' \in Menus /\ menu'.pc = "exit" /\ menu'.options = menu.options /\ menu'.index = menu.index
          /\ menu'.top = menu.top
      BY <1>2, <2>3 DEF Menus
    <3> QED BY <1>2, <3>1 DEF PlaceOK, Scrolled
  <2> QED BY <2>1, <2>2, <2>3 DEF PressKey
<1>5. IniTypes' /\ SavedOK'
  BY <1>1, <1>4, TextsStay
<1> QED BY <1>3, <1>4, <1>5 DEF SetupIInv

(* The row of an option is one of kts.ini.                                 *)
LEMMA RowOfOption ==
  ASSUME PlaceOK, menu.index > BlankRow
  PROVE  menu.index - BlankRow \in 1..menu.options
<1>1. menu.options \in Nat /\ menu.index \in Nat /\ menu.top \in Nat
  BY DEF PlaceOK, Scrolled, Menus
<1>2. Shown(menu.options) \in Nat /\ MenuRows(menu.options) = menu.options + 6
  BY <1>1, RowsAre
<1>3. menu.index < menu.options + 6
  BY <1>1, <1>2 DEF PlaceOK, Scrolled
<1> QED BY <1>1, <1>3 DEF BlankRow

(* Enter on a function, or on an option.                                   *)
LEMMA PressEnterOK == SetupIInv /\ PressEnter => SetupIInv'
<1> SUFFICES ASSUME SetupIInv, PressEnter PROVE SetupIInv'
  OBVIOUS
<1>1. menu.pc = "menu" /\ UNCHANGED <<ktsIni, saved>>
  BY DEF PressEnter
<1>2. PlaceOK /\ menu \in Menus /\ ServicesOK /\ IniTypes /\ SavedOK
  BY DEF SetupIInv, PlaceOK, Scrolled
<1>3. menu.index \in Nat /\ menu.index # BlankRow
  BY <1>2 DEF PlaceOK, Menus
<1>4. CASE menu.index < BlankRow
  <2>1. ProcessFunction(menu.index) /\ UNCHANGED menu
    BY <1>4 DEF PressEnter
  <2>2. menu.index \in 0..4
    BY <1>3, <1>4 DEF BlankRow
  <2>3. ServicesOK'
    BY <1>2, <2>1, <2>2, FunctionOK
  <2>4. PlaceOK'
    BY <1>2, <2>1 DEF PlaceOK, Scrolled
  <2>5. IniTypes' /\ SavedOK'
    BY <1>1, <2>1, TextsStay
  <2> QED BY <2>3, <2>4, <2>5 DEF SetupIInv
<1>5. CASE ~(menu.index < BlankRow)
  <2>1. PICK k : k = menu.index - BlankRow
    OBVIOUS
  <2>2. menu' = [menu EXCEPT !.pc = "edit", !.param = GetKey(k)] /\ UNCHANGED services
    BY <1>5, <2>1 DEF PressEnter
  <2>3. menu.index > BlankRow
    BY <1>3, <1>5 DEF BlankRow
  <2>4. k \in 1..menu.options
    BY <1>2, <2>1, <2>3, RowOfOption
  <2>5. ktsIni[k] \in Texts
    BY <1>2, <2>4 DEF IniTypes
  <2>6. GetKey(k) \in Texts /\ Clean(GetKey(k))
    BY <2>5, KeyIsClean
  <2>7. PICK t : t = GetKey(k)
    OBVIOUS
  <2>8. /\ menu' \in Menus /\ menu'.pc = "edit" /\ menu'.options = menu.options /\ menu'.index = menu.index
        /\ menu'.top = menu.top /\ menu'.param = t
    BY <1>2, <2>2, <2>6, <2>7 DEF Menus
  <2>9. PlaceOK'
    BY <1>2, <2>3, <2>8 DEF PlaceOK, Scrolled
  <2>10. ServicesOK'
    BY <1>2, <2>2, GoneOK
  <2>11. IniTypes'
    BY <1>1, <1>2, <2>8 DEF IniTypes
  <2>12. Clean(menu'.param)
    BY <2>6, <2>7, <2>8
  <2>13. SavedOK'
    BY <1>1, <1>2, <2>12 DEF SavedOK
  <2> QED BY <2>9, <2>10, <2>11, <2>13 DEF SetupIInv
<1> QED BY <1>4, <1>5

(* A clean text without its last character is a clean text.                *)
LEMMA FrontClean ==
  ASSUME NEW t \in Texts, t # <<>>, Clean(t)
  PROVE  Front(t) \in Texts /\ Clean(Front(t))
<1>1. PICK n : n = Len(t) - 1
  OBVIOUS
<1>2. t \in Seq(Characters) /\ n \in Nat /\ Len(t) = n + 1
  BY <1>1 DEF Texts
<1>3. \E r \in Seq(Characters) : \E c \in Characters :
         Len(r) = n /\ t = Append(r, c) /\ c = t[n + 1] /\ r = Front(t) /\ \A j \in 1..n : r[j] = t[j]
  BY <1>2, Longer
<1>4. PICK r \in Seq(Characters) : \E c \in Characters : t = Append(r, c) /\ r = Front(t)
  BY <1>3
<1>5. PICK c \in Characters : t = Append(r, c) /\ r = Front(t)
  BY <1>4
<1>6. r \in Texts
  BY <1>4 DEF Texts
<1>7. Clean(Append(r, c))
  BY <1>5
<1>8. Clean(r)
  BY <1>6, <1>7, CleanLonger
<1> QED BY <1>5, <1>6, <1>8

(* The editor.                                                             *)
LEMMA EditParamOK == SetupIInv /\ EditParam => SetupIInv'
<1> SUFFICES ASSUME SetupIInv, EditParam PROVE SetupIInv'
  OBVIOUS
<1>1. menu.pc = "edit" /\ UNCHANGED <<ktsIni, services, saved>>
  BY DEF EditParam
<1>2. PlaceOK /\ menu \in Menus /\ ServicesOK /\ IniTypes /\ SavedOK
  BY DEF SetupIInv, PlaceOK, Scrolled
<1>3. ServicesOK'
  BY <1>1, <1>2, GoneOK
<1>4. menu.param \in Texts /\ Clean(menu.param) /\ menu.index > BlankRow
  BY <1>1, <1>2 DEF PlaceOK, SavedOK, Menus
<1>5. ASSUME NEW t \in Texts, Clean(t), menu' = [menu EXCEPT !.param = t]
      PROVE  PlaceOK' /\ IniTypes' /\ SavedOK'
  <2>1. /\ menu' \in Menus /\ menu'.pc = "edit" /\ menu'.options = menu.options /\ menu'.index = menu.index
        /\ menu'.top = menu.top /\ menu'.param = t
    BY <1>1, <1>2, <1>5 DEF Menus
  <2>2. PlaceOK'
    BY <1>2, <1>4, <2>1 DEF PlaceOK, Scrolled
  <2>3. IniTypes'
    BY <1>1, <1>2, <2>1 DEF IniTypes
  <2>4. SavedOK'
    BY <1>1, <1>2, <1>5, <2>1 DEF SavedOK
  <2> QED BY <2>2, <2>3, <2>4
<1>6. CASE \E char \in SetupChars : Len(menu.param) < TextBound /\ menu' = [menu EXCEPT !.param = Typed(@, char)]
  <2>1. PICK char \in SetupChars : menu' = [menu EXCEPT !.param = Typed(@, char)]
    BY <1>6
  <2>2. PICK t : t = WithLineFeed(menu.param, char)
    OBVIOUS
  <2>3. char \in Characters
    BY SetupAssumption
  <2>4. t \in Texts /\ Clean(t)
    BY <1>4, <2>2, <2>3, ReadsText, CleanTyped
  <2>5. menu' = [menu EXCEPT !.param = t]
    BY <2>1, <2>2 DEF Typed
  <2> QED BY <1>3, <1>5, <2>4, <2>5 DEF SetupIInv
<1>7. CASE menu.param # <<>> /\ menu' = [menu EXCEPT !.param = Front(@)]
  <2>1. PICK t : t = Front(menu.param)
    OBVIOUS
  <2>2. t \in Texts /\ Clean(t)
    BY <1>4, <1>7, <2>1, FrontClean
  <2>3. menu' = [menu EXCEPT !.param = t]
    BY <1>7, <2>1
  <2> QED BY <1>3, <1>5, <2>2, <2>3 DEF SetupIInv
<1>8. CASE menu' = [menu EXCEPT !.pc = "menu", !.param = <<>>]
  <2>1. /\ menu' \in Menus /\ menu'.pc = "menu" /\ menu'.options = menu.options /\ menu'.index = menu.index
        /\ menu'.top = menu.top
    BY <1>2, <1>8, StepsAre DEF Menus
  <2>2. PlaceOK'
    BY <1>2, <2>1 DEF PlaceOK, Scrolled
  <2>3. IniTypes' /\ SavedOK'
    BY <1>1, <2>1, TextsStay
  <2> QED BY <1>3, <2>2, <2>3 DEF SetupIInv
<1> QED BY <1>6, <1>7, <1>8 DEF EditParam

(* The end of the editor that saves.                                       *)
LEMMA SaveParamOK == SetupIInv /\ SaveParam => SetupIInv'
<1> SUFFICES ASSUME SetupIInv, SaveParam PROVE SetupIInv'
  OBVIOUS
<1>1. PlaceOK /\ menu \in Menus /\ ServicesOK /\ IniTypes /\ SavedOK /\ menu.pc = "edit"
  BY DEF SetupIInv, PlaceOK, Scrolled, SaveParam
<1>2. PICK k, t : k = menu.index - BlankRow /\ t = menu.param
  OBVIOUS
<1>3. k \in 1..menu.options
  <2>1. menu.index > BlankRow
    BY <1>1 DEF PlaceOK
  <2> QED BY <1>1, <1>2, <2>1, RowOfOption
<1>4. t \in Texts /\ Clean(t)
  BY <1>1, <1>2 DEF SavedOK, Menus
<1>5. PICK option : option = Escaped(t)
  OBVIOUS
<1>6. option \in Texts
  BY <1>4, <1>5, EscapedAppend
<1>7. ktsIni' = [ktsIni EXCEPT ![k] = option]
  BY <1>2, <1>5 DEF SaveParam, SetKey
<1>8. saved' = [saved EXCEPT ![k] = t]
  BY <1>2 DEF SaveParam
<1>9. menu' = [menu EXCEPT !.pc = "menu", !.param = <<>>, !.saves = @ + 1] /\ UNCHANGED services
  BY DEF SaveParam
<1>10. /\ menu' \in Menus /\ menu'.pc = "menu" /\ menu'.options = menu.options /\ menu'.index = menu.index
       /\ menu'.top = menu.top
  <2>1. menu.saves + 1 \in Nat
    BY <1>1 DEF Menus
  <2>2. PICK saves, param : saves = menu.saves + 1 /\ param = <<>>
    OBVIOUS
  <2>3. saves \in Nat /\ param \in Texts
    BY <2>1, <2>2, StepsAre
  <2>4. menu' = [menu EXCEPT !.pc = "menu", !.param = param, !.saves = saves]
    BY <1>9, <2>2
  <2> QED BY <1>1, <2>3, <2>4 DEF Menus
<1>11. PlaceOK'
  BY <1>1, <1>10 DEF PlaceOK, Scrolled
<1>12. IniTypes'
  BY <1>1, <1>4, <1>6, <1>7, <1>8, <1>10 DEF IniTypes
<1>13. ServicesOK'
  BY <1>1, <1>9, GoneOK
<1>14. SavedOK'
  <2>1. ktsIni \in [1..menu.options -> Texts] /\ saved \in [1..menu.options -> Texts]
    BY <1>1 DEF IniTypes
  <2>2. DOMAIN saved' = DOMAIN saved /\ saved'[k] = t /\ ktsIni'[k] = option
    BY <1>3, <1>7, <1>8, <2>1
  <2>3. \A j \in DOMAIN saved : j # k => saved'[j] = saved[j] /\ ktsIni'[j] = ktsIni[j]
    BY <1>7, <1>8, <2>1
  <2>4. ASSUME NEW j \in DOMAIN saved', saved'[j] # <<>>
        PROVE  Clean(saved'[j]) /\ ktsIni'[j] = Escaped(saved'[j])
    <3>1. CASE j = k
      BY <1>4, <1>5, <2>2, <3>1
    <3>2. CASE j # k
      BY <1>1, <2>2, <2>3, <2>4, <3>2 DEF SavedOK
    <3> QED BY <3>1, <3>2
  <2> QED BY <1>10, <2>4 DEF SavedOK
<1> QED BY <1>11, <1>12, <1>13, <1>14 DEF SetupIInv

(* The command line, and the manager.                                      *)
LEMMA OthersOK == SetupIInv /\ (CommandLine \/ ServiceMoves \/ UNCHANGED setupVars) => SetupIInv'
<1> SUFFICES ASSUME SetupIInv, CommandLine \/ ServiceMoves \/ UNCHANGED setupVars PROVE SetupIInv'
  OBVIOUS
<1>1. UNCHANGED <<menu, ktsIni, saved>>
  BY DEF CommandLine, ServiceMoves, setupVars
<1>2. ServicesOK'
  <2>1. ServicesOK
    BY DEF SetupIInv
  <2>2. CASE CommandLine
    BY <2>1, <2>2, FunctionOK DEF CommandLine
  <2>3. CASE ServiceMoves
    BY <2>1, <2>3, MovesOK
  <2>4. CASE UNCHANGED setupVars
    BY <2>1, <2>4, GoneOK DEF setupVars
  <2> QED BY <2>2, <2>3, <2>4
<1>3. PlaceOK' /\ IniTypes' /\ SavedOK'
  BY <1>1 DEF SetupIInv, PlaceOK, Scrolled, IniTypes, SavedOK
<1> QED BY <1>2, <1>3 DEF SetupIInv

-----------------------------------------------------------------------------

(* The parts of the setup program stay of their kinds: the cursor and the  *)
(* screen are in the menu, what was saved is in kts.ini as the editor      *)
(* writes it (KSetup, KIni, KService).                                     *)
THEOREM SetupInvariant == SetupSpec => []SetupIInv
<1>1. SetupInit => SetupIInv
  BY SetupStarts
<1>2. SetupIInv /\ [SetupNext]_setupVars => SetupIInv'
  BY PressKeyOK, PressEnterOK, EditParamOK, SaveParamOK, OthersOK DEF SetupNext
<1> QED BY <1>1, <1>2, PTL DEF SetupSpec

(* SetupInv follows: what was saved is clean, so it is read as it was      *)
(* written.                                                                *)
LEMMA SetupIsSound == SetupIInv => SetupInv
<1> SUFFICES ASSUME SetupIInv PROVE SetupInv
  OBVIOUS
<1>1. PlaceOK /\ IniTypes /\ SavedOK /\ ServicesOK /\ menu \in Menus
  BY DEF SetupIInv, PlaceOK, Scrolled
<1>2. CursorOnScreen
  <2>1. PICK n, rows, shown : n = menu.options /\ rows = MenuRows(n) /\ shown = Shown(n)
    OBVIOUS
  <2>2. n \in Nat /\ menu.top \in Nat /\ menu.index \in Nat
    BY <1>1, <2>1 DEF Menus
  <2>3. rows \in Nat /\ shown \in Nat /\ shown > 0
    BY <2>1, <2>2, RowsAre
  <2>4. menu.top <= menu.index /\ menu.index < menu.top + shown /\ menu.top + shown <= rows
    BY <1>1, <2>1 DEF PlaceOK, Scrolled
  <2>5. OnScreen(menu) = menu.top..(menu.top + shown - 1)
    BY <2>1 DEF OnScreen
  <2>6. menu.index \in OnScreen(menu)
    BY <2>2, <2>3, <2>4, <2>5
  <2>7. OnScreen(menu) \subseteq 0..(rows - 1)
    BY <2>2, <2>3, <2>4, <2>5
  <2> QED BY <1>1, <2>1, <2>6, <2>7 DEF CursorOnScreen, PlaceOK
<1>3. SavedAsShown
  <2>1. SUFFICES ASSUME NEW k \in DOMAIN ktsIni, Keepable(saved[k]) PROVE GetKey(k) = saved[k]
    BY DEF SavedAsShown
  <2>2. PICK t : t = saved[k]
    OBVIOUS
  <2>3. k \in DOMAIN saved /\ t \in Texts /\ saved[k] # <<>>
    BY <1>1, <2>1, <2>2 DEF IniTypes, Keepable
  <2>4. Clean(t) /\ ktsIni[k] = Escaped(t)
    BY <1>1, <2>2, <2>3, Zenon DEF SavedOK
  <2>5. PICK e : e = Escaped(t)
    OBVIOUS
  <2>6. t # <<>> /\ Head(t) # "SP" /\ Last(t) # "SP" /\ ~Enclosed(t) /\ Len(e) <= KeyBuffer
    BY <2>1, <2>2, <2>5 DEF Keepable
  <2>7. e \in Texts /\ Len(e) >= 1 /\ e[1] # "SP" /\ e[Len(e)] # "SP"
    BY <2>3, <2>5, <2>6, WrittenEnds
  <2>8. Trimmed(e) = e
    BY <2>7, TrimmedIs
  <2>9. Unquoted(e) = e /\ Cut(e) = e
    BY <2>3, <2>5, <2>6, <2>7, WrittenOpen, CutIs
  <2>10. GetKey(k) = LineFeeds(e)
    BY <2>4, <2>5, <2>8, <2>9 DEF GetKey
  <2> QED BY <2>2, <2>3, <2>4, <2>5, <2>10, ReadAsWritten
<1>4. DeletedAreStopping
  BY <1>1 DEF ServicesOK, DeletedAreStopping
<1> QED BY <1>2, <1>3, <1>4 DEF SetupInv

(* The cursor is on a row of the screen, an option is read as it was shown *)
(* when it was saved, and a service that is removed ends (KSetup, KIni,    *)
(* KService).                                                              *)
THEOREM SetupShowsWhatIs == SetupSpec => []SetupInv
BY SetupInvariant, SetupIsSound, PTL
=============================================================================
