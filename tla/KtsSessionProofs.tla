-------------------------- MODULE KtsSessionProofs --------------------------
(***************************************************************************)
(* Proofs about the session processes of a user (KtsSession), for any      *)
(* sessions, kinds of clients and scenes.                                  *)
(***************************************************************************)
EXTENDS KtsSession, TLAPS

-----------------------------------------------------------------------------
(* One session moves.                                                      *)

\* What a step may make of the record of a session, whatever the others are.
Follows(s, r) ==
  /\ r \in SessionType /\ Holds(r)
  /\ r.life = "new" => ses[s].life = "new"
  /\ r.life = "alive" => ses[s].life \in {"new", "alive"}
  /\ \A t \in r.rest \cup r.list \cup {r.target} : t # None => t # s /\ ses[t].life # "new"
  /\ r.life = "alive" /\ r.main = "relay" => Relays(s) /\ r.target = ses[s].target
  /\ r.life = "alive" /\ r.peer # ses[s].peer => \A u \in Sessions : Relays(u) => ses[u].target # s
  /\ r.life = "alive" /\ r.main \in {"set disconnected", "close", "create again"}
       => \A u \in Sessions : Relays(u) => ses[u].target # s

\* Then the sessions still agree with each other.
LEMMA OthersAgree ==
  ASSUME SessionIndInv, NEW s \in Sessions, NEW r, Follows(s, r), Set(s, r), scene' = scene
  PROVE  /\ ses' \in [Sessions -> SessionType] /\ scene' \in Scenes
         /\ \A t \in Sessions : Holds(ses'[t])
         /\ OffersOthers' /\ KnowsItsProxy' /\ OneProxyEach'
  <1>1. /\ ses \in [Sessions -> SessionType] /\ ses'[s] = r
        /\ \A t \in Sessions \ {s} : ses'[t] = ses[t]
        /\ ses' = [ses EXCEPT ![s] = r]
    BY DEF SessionIndInv, SessionTypes, Set
  <1>2. ses' \in [Sessions -> SessionType] /\ scene' \in Scenes
    BY <1>1 DEF SessionIndInv, SessionTypes, Follows
  <1>3. \A t \in Sessions : Holds(ses'[t])
    BY <1>1 DEF SessionIndInv, Follows
  <1>4. \A t \in Sessions : ses'[t].life = "new" => ses[t].life = "new"
    BY <1>1 DEF Follows
  <1>5. OffersOthers'
    <2> SUFFICES ASSUME NEW u \in Sessions, NEW t \in ses'[u].rest \cup ses'[u].list \cup {ses'[u].target}, t # None
                 PROVE  t # u /\ ses'[t].life # "new"
      BY DEF OffersOthers
    <2>1. t \in Sessions
      <3>1. ses'[u] \in SessionType
        BY <1>2
      <3>2. ses'[u].rest \subseteq Sessions /\ ses'[u].list \subseteq Sessions /\ ses'[u].target \in Sessions \cup {None}
        BY <3>1 DEF SessionType
      <3> QED
        BY <3>2
    <2>2. t # u /\ ses[t].life # "new"
      <3>1. CASE u = s
        <4>1. t \in r.rest \cup r.list \cup {r.target}
          BY <1>1, <3>1
        <4> QED
          BY <3>1, <4>1 DEF Follows
      <3>2. CASE u # s
        <4>1. t \in ses[u].rest \cup ses[u].list \cup {ses[u].target}
          BY <1>1, <3>2
        <4> QED
          BY <4>1 DEF SessionIndInv, OffersOthers
      <3> QED
        BY <3>1, <3>2
    <2> QED
      BY <1>4, <2>1, <2>2
  <1>6. \A u \in Sessions : Relays(u)' => Relays(u) /\ ses'[u].target = ses[u].target /\ ses[u].target \in Sessions
    <2> SUFFICES ASSUME NEW u \in Sessions, Relays(u)'
                 PROVE  Relays(u) /\ ses'[u].target = ses[u].target /\ ses[u].target \in Sessions
      OBVIOUS
    <2>1. Relays(u) /\ ses'[u].target = ses[u].target
      BY <1>1 DEF Relays, Alive, Follows
    <2>2. ses[u] \in SessionType /\ Holds(ses[u]) /\ ses[u].life = "alive" /\ ses[u].main = "relay"
      BY <2>1 DEF SessionIndInv, SessionTypes, Relays, Alive
    <2>3. ses[u].target # None
      BY <2>2 DEF Holds, MainTells, LoginTells
    <2> QED
      BY <2>1, <2>2, <2>3 DEF SessionType
  <1>7. KnowsItsProxy'
    <2> SUFFICES ASSUME NEW u \in Sessions, Relays(u)', ses'[ses'[u].target].life = "alive"
                 PROVE  /\ ses'[ses'[u].target].peer = u
                        /\ ses'[ses'[u].target].main \notin {"set disconnected", "close", "create again"}
      BY DEF KnowsItsProxy, Alive
    <2> DEFINE t == ses[u].target
    <2>1. Relays(u) /\ ses'[u].target = t /\ t \in Sessions
      BY <1>6
    <2>2. ses[t].life # "new"
      <3>1. t # None
        BY <2>1, SessionAssumption DEF None
      <3> QED
        BY <2>1, <3>1 DEF SessionIndInv, OffersOthers
    <2>3. ses[t].life = "alive"
      BY <1>1, <2>1, <2>2 DEF Follows
    <2>4. ses[t].peer = u /\ ses[t].main \notin {"set disconnected", "close", "create again"}
      BY <2>1, <2>3 DEF SessionIndInv, KnowsItsProxy, Alive
    <2>5. CASE t = s
      BY <1>1, <2>1, <2>4, <2>5 DEF Follows
    <2>6. CASE t # s
      BY <1>1, <2>1, <2>4, <2>6
    <2> QED
      BY <2>5, <2>6
  <1>8. OneProxyEach'
    <2> SUFFICES ASSUME NEW u \in Sessions, NEW v \in Sessions, Relays(u)', Relays(v)',
                        ses'[u].target = ses'[v].target
                 PROVE  u = v
      BY DEF OneProxyEach
    <2> QED
      BY <1>6 DEF SessionIndInv, OneProxyEach
  <1> QED
    BY <1>2, <1>3, <1>5, <1>7, <1>8

\* And with their files.
LEMMA AllAgree ==
  ASSUME SessionIndInv, NEW s \in Sessions, NEW r, Follows(s, r), Set(s, r), scene' = scene,
         files' \subseteq Sessions \X (States \cup {"zombie"}), \A t \in Sessions : FilesOf(t, ses[t])'
  PROVE  SessionIndInv'
  BY OthersAgree DEF SessionIndInv, SessionTypes

\* A step that touches no file, changes no state and closes nothing.
LEMMA FilesStay ==
  ASSUME SessionIndInv, NEW s \in Sessions, NEW r, Follows(s, r), Set(s, r), UNCHANGED <<files, service>>,
         scene' = scene,
         r.life = "alive" => ses[s].life = "alive" /\ r.state = ses[s].state,
         r.ending = "closed" => r.life = "alive" /\ ses[s].ending = "closed",
         r.life = "shut down" => ses[s].ending = "closed"
  PROVE  SessionIndInv'
  <1>1. /\ ses' = [ses EXCEPT ![s] = r] /\ ses \in [Sessions -> SessionType] /\ files' = files
        /\ files \subseteq Sessions \X (States \cup {"zombie"})
    BY DEF SessionIndInv, SessionTypes, Set
  <1>2. ASSUME NEW t \in Sessions
        PROVE  FilesOf(t, ses[t])'
    <2>1. FilesOf(t, ses[t])
      BY DEF SessionIndInv
    <2>2. CASE t # s
      <3>1. ses'[t] = ses[t]
        BY <1>1, <2>2
      <3> QED
        BY <1>1, <2>1, <3>1 DEF FilesOf
    <2>3. CASE t = s
      <3>1. ses'[t] = r
        BY <1>1, <2>3
      <3>2. r.life = "new" => ses[s].life = "new"
        BY DEF Follows
      <3> QED
        BY <1>1, <2>1, <2>3, <3>1, <3>2 DEF FilesOf
    <2> QED
      BY <2>2, <2>3
  <1> QED
    BY <1>1, <1>2, AllAgree

\* What the invariant says of one session.
LEMMA SessionFields ==
  ASSUME SessionIndInv, NEW s \in Sessions
  PROVE  /\ ses[s] \in SessionType /\ Holds(ses[s]) /\ FilesOf(s, ses[s])
         /\ Alive(s) => /\ AsksWhereItSets(ses[s]) /\ LoginTells(ses[s])
                        /\ MainTells(ses[s]) /\ ClosedForGood(ses[s])
         /\ ses[s].target \in Sessions \cup {None} /\ ses[s].rest \subseteq Sessions /\ ses[s].list \subseteq Sessions
         /\ scene \in Scenes /\ scene.come \subseteq Sessions /\ scene.faulty \subseteq Sessions
  <1>1. ses[s] \in SessionType /\ Holds(ses[s]) /\ FilesOf(s, ses[s]) /\ scene \in Scenes
    BY DEF SessionIndInv, SessionTypes
  <1>2. scene.come \subseteq Sessions /\ scene.faulty \subseteq Sessions
    BY <1>1, SessionAssumption
  <1>3. ses[s].target \in Sessions \cup {None} /\ ses[s].rest \subseteq Sessions /\ ses[s].list \subseteq Sessions
    BY <1>1 DEF SessionType
  <1> QED
    BY <1>1, <1>2, <1>3 DEF Holds, Alive

\* A live session that goes on, knowing and believing what it did.
LEMMA GoesOn ==
  ASSUME SessionIndInv, NEW s \in Sessions, NEW r \in SessionType, Holds(r), Set(s, r), UNCHANGED <<files, service>>,
         scene' = scene, Alive(s), r.life = "alive", r.state = ses[s].state, r.peer = ses[s].peer,
         r.rest = ses[s].rest, r.list = ses[s].list, r.target = ses[s].target,
         r.ending = "closed" => ses[s].ending = "closed",
         r.main = "relay" => ses[s].main = "relay",
         r.main \in {"set disconnected", "close", "create again"}
           => ses[s].main \in {"set disconnected", "close", "create again"}
  PROVE  SessionIndInv'
  <1>1. \A t \in r.rest \cup r.list \cup {r.target} : t # None => t # s /\ ses[t].life # "new"
    BY DEF SessionIndInv, OffersOthers
  <1>2. r.main \in {"set disconnected", "close", "create again"}
          => \A u \in Sessions : Relays(u) => ses[u].target # s
    BY DEF SessionIndInv, KnowsItsProxy, Alive
  <1>3. Follows(s, r)
    BY <1>1, <1>2 DEF Follows, Relays, Alive
  <1> QED
    BY <1>3, FilesStay DEF Alive

\* A field of a record may become whatever it may be.
LEMMA FieldTypes ==
  ASSUME NEW q \in SessionType
  PROVE  /\ \A v \in Places : [q EXCEPT !.main = v] \in SessionType
         /\ \A v \in LoginPlaces : [q EXCEPT !.login = v] \in SessionType
         /\ \A v \in States : [q EXCEPT !.state = v] \in SessionType
         /\ \A v \in SUBSET {"main", "login"} : [q EXCEPT !.asked = v] \in SessionType
         /\ \A v \in {"no", "raised", "closed"} : [q EXCEPT !.ending = v] \in SessionType
         /\ \A v \in {"watch", "ends", "done", "parked"} : [q EXCEPT !.monitor = v] \in SessionType
         /\ \A v \in {"free", "shell", "shutdown"} : [q EXCEPT !.lock = v] \in SessionType
         /\ \A v \in {"none", "loose", "job", "dead"} : [q EXCEPT !.shell = v] \in SessionType
         /\ \A v \in SUBSET Sessions : /\ [q EXCEPT !.rest = v] \in SessionType
                                       /\ [q EXCEPT !.list = v] \in SessionType
                                       /\ [q EXCEPT !.ready = v] \in SessionType
                                       /\ [q EXCEPT !.gone = v] \in SessionType
         /\ \A v \in Sessions \cup {None} : /\ [q EXCEPT !.target = v] \in SessionType
                                            /\ [q EXCEPT !.victim = v] \in SessionType
                                            /\ [q EXCEPT !.peer = v] \in SessionType
         /\ \A v \in BOOLEAN : /\ [q EXCEPT !.client = v] \in SessionType
                              /\ [q EXCEPT !.proxy = v] \in SessionType
                              /\ [q EXCEPT !.shellFlag = v] \in SessionType
                              /\ [q EXCEPT !.pipe = v] \in SessionType
  <1>1. \A v \in Places : [q EXCEPT !.main = v] \in SessionType
    BY DEF SessionType
  <1>2. \A v \in LoginPlaces : [q EXCEPT !.login = v] \in SessionType
    BY DEF SessionType
  <1>3. \A v \in States : [q EXCEPT !.state = v] \in SessionType
    BY DEF SessionType
  <1>4. \A v \in SUBSET {"main", "login"} : [q EXCEPT !.asked = v] \in SessionType
    BY DEF SessionType
  <1>5. \A v \in {"no", "raised", "closed"} : [q EXCEPT !.ending = v] \in SessionType
    BY DEF SessionType
  <1>6. \A v \in {"watch", "ends", "done", "parked"} : [q EXCEPT !.monitor = v] \in SessionType
    BY DEF SessionType
  <1>7. \A v \in {"free", "shell", "shutdown"} : [q EXCEPT !.lock = v] \in SessionType
    BY DEF SessionType
  <1>8. \A v \in {"none", "loose", "job", "dead"} : [q EXCEPT !.shell = v] \in SessionType
    BY DEF SessionType
  <1>9. \A v \in SUBSET Sessions : /\ [q EXCEPT !.rest = v] \in SessionType
                                   /\ [q EXCEPT !.list = v] \in SessionType
                                   /\ [q EXCEPT !.ready = v] \in SessionType
                                   /\ [q EXCEPT !.gone = v] \in SessionType
    BY DEF SessionType
  <1>10. \A v \in Sessions \cup {None} : /\ [q EXCEPT !.target = v] \in SessionType
                                         /\ [q EXCEPT !.victim = v] \in SessionType
                                         /\ [q EXCEPT !.peer = v] \in SessionType
    BY DEF SessionType
  <1>11. \A v \in BOOLEAN : /\ [q EXCEPT !.client = v] \in SessionType /\ [q EXCEPT !.proxy = v] \in SessionType
                           /\ [q EXCEPT !.shellFlag = v] \in SessionType /\ [q EXCEPT !.pipe = v] \in SessionType
    <2> SUFFICES ASSUME NEW v \in BOOLEAN
                 PROVE  /\ [q EXCEPT !.client = v] \in SessionType /\ [q EXCEPT !.proxy = v] \in SessionType
                        /\ [q EXCEPT !.shellFlag = v] \in SessionType /\ [q EXCEPT !.pipe = v] \in SessionType
      OBVIOUS
    <2>1. [q EXCEPT !.client = v] \in SessionType
      BY DEF SessionType
    <2>2. [q EXCEPT !.proxy = v] \in SessionType
      BY DEF SessionType
    <2>3. [q EXCEPT !.shellFlag = v] \in SessionType
      BY DEF SessionType
    <2>4. [q EXCEPT !.pipe = v] \in SessionType
      BY DEF SessionType
    <2> QED
      BY <2>1, <2>2, <2>3, <2>4
  <1> QED
    BY <1>1, <1>2, <1>3, <1>4, <1>5, <1>6, <1>7, <1>8, <1>9, <1>10, <1>11

-----------------------------------------------------------------------------
(* Steps of a session that are its own.                                    *)

\* Where the threads set a state, and what they do then.
LEMMA MainSets ==
  ASSUME NEW place \in Places, SetPoint(place)[1] # None
  PROVE  LET state == SetPoint(place)[1]
             next  == SetPoint(place)[2]
         IN  \/ place = "set logged" /\ state = "logged" /\ next = "access"
             \/ place = "set sftp" /\ state = "sftp" /\ next = "sftp"
             \/ place = "set proxy" /\ state = "proxy" /\ next = "connect"
             \/ place = "first set disconnected" /\ state = "disconnected" /\ next = "accept"
             \/ place = "set disconnected" /\ state = "disconnected" /\ next = "close"
             \/ place = "set pipe" /\ state = "pipe" /\ next = "loop"
  <1>1. place # "set shell"
    BY DEF Places
  <1>2. place = "set logged" => SetPoint(place)[1] = "logged" /\ SetPoint(place)[2] = "access"
    BY DEF SetPoint
  <1>3. place = "set sftp" => SetPoint(place)[1] = "sftp" /\ SetPoint(place)[2] = "sftp"
    BY DEF SetPoint
  <1>4. place = "set proxy" => SetPoint(place)[1] = "proxy" /\ SetPoint(place)[2] = "connect"
    BY DEF SetPoint
  <1>5. place = "first set disconnected" => SetPoint(place)[1] = "disconnected" /\ SetPoint(place)[2] = "accept"
    BY DEF SetPoint
  <1>6. place = "set disconnected" => SetPoint(place)[1] = "disconnected" /\ SetPoint(place)[2] = "close"
    BY DEF SetPoint
  <1>7. place = "set pipe" => SetPoint(place)[1] = "pipe" /\ SetPoint(place)[2] = "loop"
    BY DEF SetPoint
  <1>8. place \notin {"set logged", "set sftp", "set shell", "set proxy", "first set disconnected",
                      "set disconnected", "set pipe"} => SetPoint(place)[1] = None
    BY DEF SetPoint
  <1> QED
    BY <1>1, <1>2, <1>3, <1>4, <1>5, <1>6, <1>7, <1>8

\* Likewise of the login.
LEMMA LoginSets ==
  ASSUME NEW place \in LoginPlaces, SetPoint(place)[1] # None
  PROVE  LET state == SetPoint(place)[1]
             next  == SetPoint(place)[2]
         IN  \/ place = "set logged" /\ state = "logged" /\ next = "access"
             \/ place = "set shell" /\ state = "shell" /\ next = "job"
  <1>1. place \notin {"set sftp", "set proxy", "first set disconnected", "set disconnected", "set pipe"}
    BY DEF LoginPlaces
  <1>2. place = "set logged" => SetPoint(place)[1] = "logged" /\ SetPoint(place)[2] = "access"
    BY DEF SetPoint
  <1>3. place = "set shell" => SetPoint(place)[1] = "shell" /\ SetPoint(place)[2] = "job"
    BY DEF SetPoint
  <1>4. place \notin {"set logged", "set sftp", "set shell", "set proxy", "first set disconnected",
                      "set disconnected", "set pipe"} => SetPoint(place)[1] = None
    BY DEF SetPoint
  <1> QED
    BY <1>1, <1>2, <1>3, <1>4

\* SetStateX asks: closed or not, the state stays.
LEMMA AsksClosedStep ==
  ASSUME SessionIndInv, NEW s \in Sessions, NEW thread \in {"main", "login"}, AsksClosed(s, thread), scene' = scene
  PROVE  SessionIndInv'
  <1> DEFINE q == ses[s]
  <1>1. q \in SessionType /\ Alive(s) /\ q.life = "alive" /\ thread \notin q.asked /\ SetPoint(q[thread])[1] # None
        /\ AsksWhereItSets(q) /\ LoginTells(q) /\ MainTells(q) /\ ClosedForGood(q)
    BY SessionFields DEF AsksClosed, Alive
  <1>2. q.main \in Places /\ q.login \in LoginPlaces
    BY <1>1 DEF SessionType
  <1>3. CASE q.state = "closed" /\ thread = "main"
    <2> DEFINE next == SetPoint(q.main)[2]
               r == [q EXCEPT !.main = next]
    <2>1. Set(s, r) /\ UNCHANGED <<files, service>>
      BY <1>3 DEF AsksClosed, Goes
    <2>2. \/ q.main = "set logged" /\ next = "access"
          \/ q.main = "set sftp" /\ next = "sftp"
          \/ q.main = "set proxy" /\ next = "connect"
          \/ q.main = "first set disconnected" /\ next = "accept"
          \/ q.main = "set disconnected" /\ next = "close"
          \/ q.main = "set pipe" /\ next = "loop"
      BY <1>1, <1>2, <1>3, MainSets
    <2> HIDE DEF next
    <2>3. r \in SessionType
      BY <1>1, <2>2 DEF SessionType, Places
    <2>4. Holds(r)
      BY <1>1, <1>3, <2>2 DEF SessionType, Holds, AsksWhereItSets, LoginTells, MainTells, ClosedForGood, PipeMade
    <2>5. r.main = next /\ r.life = "alive" /\ r.state = q.state /\ r.peer = q.peer /\ r.rest = q.rest /\ r.list = q.list
          /\ r.target = q.target /\ r.ending = q.ending
      BY <1>1 DEF SessionType
    <2> HIDE DEF r
    <2> QED
      BY <1>1, <2>1, <2>2, <2>3, <2>4, <2>5, GoesOn
  <1>4. CASE q.state = "closed" /\ thread = "login"
    <2> DEFINE next == SetPoint(q.login)[2]
               r == [q EXCEPT !.login = next]
    <2>1. Set(s, r) /\ UNCHANGED <<files, service>>
      BY <1>4 DEF AsksClosed, Goes
    <2>2. \/ q.login = "set logged" /\ next = "access"
          \/ q.login = "set shell" /\ next = "job"
      BY <1>1, <1>2, <1>4, LoginSets
    <2> HIDE DEF next
    <2>3. r \in SessionType
      BY <1>1, <2>2 DEF SessionType, LoginPlaces
    <2>4. Holds(r)
      BY <1>1, <1>4, <2>2 DEF SessionType, Holds, AsksWhereItSets, LoginTells, MainTells, ClosedForGood
    <2>5. r.main = q.main /\ r.life = "alive" /\ r.state = q.state /\ r.peer = q.peer /\ r.rest = q.rest /\ r.list = q.list
          /\ r.target = q.target /\ r.ending = q.ending
      BY <1>1 DEF SessionType
    <2> HIDE DEF r
    <2> QED
      BY <1>1, <2>1, <2>3, <2>4, <2>5, GoesOn
  <1>5. CASE q.state # "closed"
    <2> DEFINE r == [q EXCEPT !.asked = @ \cup {thread}]
    <2>1. Set(s, r) /\ UNCHANGED <<files, service>>
      BY <1>5 DEF AsksClosed
    <2>2. r \in SessionType
      BY <1>1 DEF SessionType
    <2>3. /\ thread = "main" => q.main \in {"set logged", "set sftp", "set proxy", "first set disconnected",
                                            "set disconnected", "set pipe"}
          /\ thread = "login" => q.login \in {"set logged", "set shell"}
      BY <1>1, <1>2, MainSets, LoginSets
    <2>4. Holds(r)
      <3>1. r.asked = q.asked \cup {thread} /\ r.life = "alive" /\ r.main = q.main /\ r.login = q.login
        BY <1>1 DEF SessionType
      <3>2. AsksWhereItSets(r)
        BY <1>1, <2>3, <3>1 DEF AsksWhereItSets
      <3>3. LoginTells(r) /\ ClosedForGood(r)
        BY <1>1 DEF SessionType, LoginTells, ClosedForGood
      <3>4. MainTells(r)
        BY <1>1 DEF SessionType, MainTells
      <3> QED
        BY <3>1, <3>2, <3>3, <3>4 DEF Holds
    <2>5. r.main = q.main /\ r.life = "alive" /\ r.state = q.state /\ r.peer = q.peer /\ r.rest = q.rest /\ r.list = q.list
          /\ r.target = q.target /\ r.ending = q.ending
      BY <1>1 DEF SessionType
    <2> HIDE DEF r
    <2> QED
      BY <1>1, <2>1, <2>2, <2>4, <2>5, GoesOn
  <1> QED
    BY <1>3, <1>4, <1>5

\* Whose files are the same tells the same.
LEMMA SameFiles ==
  ASSUME SessionIndInv, NEW t \in Sessions, ses'[t] = ses[t],
         \A st \in States \cup {"zombie"} : <<t, st>> \in files' <=> <<t, st>> \in files
  PROVE  FilesOf(t, ses[t])'
  <1>1. FilesOf(t, ses[t])
    BY DEF SessionIndInv
  <1>2. "shell" \in States /\ "closed" \in States
    BY DEF States
  <1>3. ses[t].state \in States
    BY DEF SessionIndInv, SessionTypes, SessionType
  <1> QED
    BY <1>1, <1>2, <1>3 DEF FilesOf

\* A session that goes on and sets a state other than closed.
LEMMA SetsItsState ==
  ASSUME SessionIndInv, NEW s \in Sessions, NEW r, Follows(s, r), Set(s, r), scene' = scene,
         r.life = "alive", r.state # "closed", r.ending = "closed" => r.state # "shell",
         files' = DeleteStateFile(s) \cup {<<s, r.state>>}
  PROVE  SessionIndInv'
  <1>1. /\ ses' = [ses EXCEPT ![s] = r] /\ ses \in [Sessions -> SessionType]
        /\ files \subseteq Sessions \X (States \cup {"zombie"}) /\ r.state \in States
    BY DEF SessionIndInv, SessionTypes, Set, Follows, SessionType
  <1>2. files' \subseteq Sessions \X (States \cup {"zombie"})
    BY <1>1 DEF DeleteStateFile
  <1>3. ASSUME NEW t \in Sessions \ {s}
        PROVE  FilesOf(t, ses[t])'
    <2>1. \A st \in States \cup {"zombie"} : <<t, st>> \in files' <=> <<t, st>> \in files
      BY DEF DeleteStateFile
    <2>2. ses'[t] = ses[t]
      BY <1>1
    <2> QED
      BY <2>1, <2>2, SameFiles
  <1>4. FilesOf(s, ses[s])'
    <2>1. \A st : <<s, st>> \in files' <=> st = r.state
      BY DEF DeleteStateFile
    <2>2. ses'[s] = r
      BY <1>1
    <2>3. "zombie" \notin States
      BY DEF States
    <2> QED
      BY <1>1, <2>1, <2>2, <2>3 DEF FilesOf
  <1> QED
    BY <1>2, <1>3, <1>4, AllAgree

\* Then it sets the state, whatever was closed in between.
LEMMA SetsStateStep ==
  ASSUME SessionIndInv, NEW s \in Sessions, NEW thread \in {"main", "login"}, SetsState(s, thread), scene' = scene
  PROVE  SessionIndInv'
  <1> DEFINE q == ses[s]
             state == SetPoint(q[thread])[1]
             next == SetPoint(q[thread])[2]
  <1>1. /\ q \in SessionType /\ Alive(s) /\ q.life = "alive" /\ thread \in q.asked
        /\ AsksWhereItSets(q) /\ LoginTells(q) /\ MainTells(q) /\ ClosedForGood(q)
        /\ q.main \in Places /\ q.login \in LoginPlaces
        /\ q.target \in Sessions \cup {None}
    BY SessionFields DEF SetsState, Alive, SessionType
  <1>2. /\ Set(s, [q EXCEPT !.asked = @ \ {thread}, !.state = state, ![thread] = next])
        /\ files' = DeleteStateFile(s) \cup {<<s, state>>}
    BY DEF SetsState
  <1>3. \A t \in q.rest \cup q.list \cup {q.target} : t # None => t # s /\ ses[t].life # "new"
    BY DEF SessionIndInv, OffersOthers
  <1>4. CASE thread = "main"
    <2> DEFINE left == q.asked \ {"main"}
               r == [[[q EXCEPT !.asked = left] EXCEPT !.state = state] EXCEPT !.main = next]
    <2>1. q.main \in {"set logged", "set sftp", "set proxy", "first set disconnected", "set disconnected", "set pipe"}
      BY <1>1, <1>4 DEF AsksWhereItSets
    <2>2. SetPoint(q.main)[1] # None
      BY <2>1 DEF SetPoint, None
    <2>3. \/ q.main = "set logged" /\ state = "logged" /\ next = "access"
          \/ q.main = "set sftp" /\ state = "sftp" /\ next = "sftp"
          \/ q.main = "set proxy" /\ state = "proxy" /\ next = "connect"
          \/ q.main = "first set disconnected" /\ state = "disconnected" /\ next = "accept"
          \/ q.main = "set disconnected" /\ state = "disconnected" /\ next = "close"
          \/ q.main = "set pipe" /\ state = "pipe" /\ next = "loop"
      BY <1>1, <1>4, <2>2, MainSets
    <2>4. Set(s, r) /\ files' = DeleteStateFile(s) \cup {<<s, state>>}
      BY <1>2, <1>4
    <2>a. left \in SUBSET {"main", "login"} /\ "main" \notin left /\ ("login" \in left => "login" \in q.asked)
      BY <1>1 DEF SessionType
    <2> HIDE DEF state, next, left
    <2>b. state \in States /\ next \in Places
      BY <2>3 DEF States, Places
    <2>5. r \in SessionType
      BY <1>1, <2>a, <2>b, FieldTypes
    <2>6. Holds(r)
      <3>1. AsksWhereItSets(r)
        BY <1>1, <2>3, <2>a DEF SessionType, AsksWhereItSets
      <3>2. LoginTells(r) /\ MainTells(r) /\ ClosedForGood(r) /\ r.life = "alive"
        BY <1>1, <2>3 DEF SessionType, LoginTells, MainTells, ClosedForGood, PipeMade
      <3> QED
        BY <3>1, <3>2 DEF Holds
    <2>7. r.main = next /\ r.life = "alive" /\ r.state = state /\ r.peer = q.peer /\ r.rest = q.rest /\ r.list = q.list
          /\ r.target = q.target /\ r.ending = q.ending
      BY <1>1 DEF SessionType
    <2>8. q.main = "set disconnected" => \A u \in Sessions : Relays(u) => ses[u].target # s
      BY <1>1 DEF SessionIndInv, KnowsItsProxy
    <2> HIDE DEF r
    <2>9. Follows(s, r)
      BY <1>1, <1>3, <2>3, <2>5, <2>6, <2>7, <2>8 DEF Follows
    <2> QED
      BY <2>3, <2>4, <2>7, <2>9, SetsItsState
  <1>5. CASE thread = "login"
    <2> DEFINE left == q.asked \ {"login"}
               r == [[[q EXCEPT !.asked = left] EXCEPT !.state = state] EXCEPT !.login = next]
    <2>1. q.login \in {"set logged", "set shell"}
      BY <1>1, <1>5 DEF AsksWhereItSets
    <2>2. SetPoint(q.login)[1] # None
      BY <2>1 DEF SetPoint, None
    <2>3. \/ q.login = "set logged" /\ state = "logged" /\ next = "access"
          \/ q.login = "set shell" /\ state = "shell" /\ next = "job"
      BY <1>1, <1>5, <2>2, LoginSets
    <2>4. Set(s, r) /\ files' = DeleteStateFile(s) \cup {<<s, state>>}
      BY <1>2, <1>5
    <2>a. left \in SUBSET {"main", "login"} /\ "login" \notin left /\ ("main" \in left => "main" \in q.asked)
      BY <1>1 DEF SessionType
    <2> HIDE DEF state, next, left
    <2>b. state \in States /\ next \in LoginPlaces
      BY <2>3 DEF States, LoginPlaces
    <2>5. r \in SessionType
      BY <1>1, <2>a, <2>b, FieldTypes
    <2>6. Holds(r)
      <3>1. AsksWhereItSets(r)
        BY <1>1, <2>3, <2>a DEF SessionType, AsksWhereItSets
      <3>2. LoginTells(r) /\ MainTells(r) /\ ClosedForGood(r) /\ r.life = "alive"
        BY <1>1, <2>3 DEF SessionType, LoginTells, MainTells, ClosedForGood, PipeMade
      <3> QED
        BY <3>1, <3>2 DEF Holds
    <2>7. r.main = q.main /\ r.life = "alive" /\ r.state = state /\ r.peer = q.peer /\ r.rest = q.rest /\ r.list = q.list
          /\ r.target = q.target /\ r.ending = q.ending
      BY <1>1 DEF SessionType
    <2>8. q.main \in {"set disconnected", "close", "create again"} =>
            \A u \in Sessions : Relays(u) => ses[u].target # s
      BY <1>1 DEF SessionIndInv, KnowsItsProxy
    <2>9. state = "shell" => r.ending # "closed"
      BY <1>1, <2>3, <2>7 DEF LoginTells, ClosedForGood
    <2> HIDE DEF r
    <2>10. Follows(s, r)
      BY <1>1, <1>3, <2>3, <2>5, <2>6, <2>7, <2>8 DEF Follows, Relays, Alive
    <2> QED
      BY <2>3, <2>4, <2>7, <2>9, <2>10, SetsItsState
  <1> QED
    BY <1>4, <1>5

Lives(s) ==
  /\ ses[s] \in SessionType /\ Alive(s) /\ ses[s].life = "alive"
  /\ AsksWhereItSets(ses[s]) /\ LoginTells(ses[s]) /\ MainTells(ses[s]) /\ ClosedForGood(ses[s])

\* What holds of a live session, for one step of it.
LEMMA LivesNow ==
  ASSUME SessionIndInv, NEW s \in Sessions, Alive(s)
  PROVE  Lives(s)
  BY SessionFields DEF Lives, Alive

\* The main thread leaves a place that is not at the pipe for another.
LEMMA MainGoes ==
  ASSUME SessionIndInv, NEW s \in Sessions, Alive(s), UNCHANGED <<files, service>>, scene' = scene,
         ses[s].main \in {"auth", "access", "sftp", "socket", "forward", "connect", "relay", "zombie", "end"},
         NEW to \in {"auth", "set logged", "access", "set sftp", "sftp", "socket", "forward", "set proxy",
                     "create", "end", "return", "parked"},
         to = "set proxy" => ses[s].proxy, to = "create" => ses[s].shellFlag,
         to \in {"auth", "set logged", "access"} => ses[s].login = "none",
         Goes(s, "main", to)
  PROVE  SessionIndInv'
  <1> DEFINE q == ses[s]
             r == [q EXCEPT !.main = to]
  <1>1. Lives(s)
    BY LivesNow
  <1>2. Set(s, r)
    BY DEF Goes
  <1>3. r \in SessionType
    BY <1>1, FieldTypes DEF Lives, Places
  <1>4. /\ r.main = to /\ r.ending = q.ending /\ r.life = "alive" /\ r.state = q.state /\ r.peer = q.peer /\ r.rest = q.rest /\ r.list = q.list
        /\ r.target = q.target /\ r.asked = q.asked /\ r.login = q.login /\ r.shell = q.shell /\ r.proxy = q.proxy
        /\ r.shellFlag = q.shellFlag /\ r.lock = q.lock /\ r.pipe = q.pipe /\ r.victim = q.victim
    BY <1>1 DEF Lives, SessionType
  <1> HIDE DEF r
  <1>5. AsksWhereItSets(r)
    BY <1>1, <1>4 DEF Lives, AsksWhereItSets
  <1>6. LoginTells(r) /\ ClosedForGood(r)
    BY <1>1, <1>4 DEF Lives, LoginTells, ClosedForGood
  <1>7. MainTells(r)
    BY <1>1, <1>4 DEF Lives, MainTells, PipeMade
  <1> QED
    BY <1>2, <1>3, <1>4, <1>5, <1>6, <1>7, GoesOn DEF Holds

\* The main thread ends the session: it waits, or goes back.
LEMMA MainTerminates ==
  ASSUME SessionIndInv, NEW s \in Sessions, Alive(s), scene' = scene,
         ses[s].main \in {"auth", "access", "sftp", "socket", "forward", "end"},
         NEW back \in {"auth", "access", "socket", "set proxy", "create", "end", "return"},
         back = "set proxy" => ses[s].proxy, back = "create" => ses[s].shellFlag,
         back \in {"auth", "access"} => ses[s].main = back,
         TerminateSession(s, "main", back)
  PROVE  SessionIndInv'
  <1> DEFINE q == ses[s]
             r == [[q EXCEPT !.ending = "raised"] EXCEPT !.main = "parked"]
  <1>1. Lives(s) /\ UNCHANGED <<files, service>>
    BY LivesNow DEF TerminateSession
  <1>2. CASE q.ending # "no"
    BY <1>1, <1>2, MainGoes DEF TerminateSession, Lives, MainTells
  <1>3. CASE q.ending = "no"
    <2>1. Set(s, r)
      BY <1>3 DEF TerminateSession
    <2>2. r \in SessionType
      BY <1>1, FieldTypes DEF Lives, Places
    <2>3. Holds(r)
      BY <1>1, <1>3 DEF Lives, SessionType, Holds, AsksWhereItSets, LoginTells, MainTells, ClosedForGood, PipeMade
    <2>4. /\ r.main = "parked" /\ r.ending = "raised" /\ r.life = "alive" /\ r.state = q.state /\ r.peer = q.peer /\ r.rest = q.rest /\ r.list = q.list
        /\ r.target = q.target
      BY <1>1 DEF Lives, SessionType
    <2> HIDE DEF r
    <2> QED
      BY <1>1, <2>1, <2>2, <2>3, <2>4, GoesOn
  <1> QED
    BY <1>2, <1>3

\* The login leaves a place before the shell for another.
LEMMA LoginGoes ==
  ASSUME SessionIndInv, NEW s \in Sessions, Alive(s), UNCHANGED <<files, service>>, scene' = scene,
         ses[s].login \in {"auth", "access"}, NEW to \in {"auth", "set logged", "access", "choose", "parked"},
         Goes(s, "login", to)
  PROVE  SessionIndInv'
  <1> DEFINE q == ses[s]
             r == [q EXCEPT !.login = to]
  <1>1. Lives(s)
    BY LivesNow
  <1>2. Set(s, r)
    BY DEF Goes
  <1>3. r \in SessionType
    BY <1>1, FieldTypes DEF Lives, LoginPlaces
  <1>4. Holds(r)
    BY <1>1 DEF Lives, SessionType, Holds, AsksWhereItSets, LoginTells, MainTells, ClosedForGood
  <1>5. /\ r.main = q.main /\ r.ending = q.ending /\ r.life = "alive" /\ r.state = q.state /\ r.peer = q.peer /\ r.rest = q.rest /\ r.list = q.list
        /\ r.target = q.target
    BY <1>1 DEF Lives, SessionType
  <1> HIDE DEF r
  <1> QED
    BY <1>2, <1>3, <1>4, <1>5, GoesOn

\* The login ends the session.
LEMMA LoginTerminates ==
  ASSUME SessionIndInv, NEW s \in Sessions, Alive(s), scene' = scene,
         ses[s].login \in {"auth", "access"}, NEW back \in {"auth", "access"},
         TerminateSession(s, "login", back)
  PROVE  SessionIndInv'
  <1> DEFINE q == ses[s]
             r == [[q EXCEPT !.ending = "raised"] EXCEPT !.login = "parked"]
  <1>1. Lives(s) /\ UNCHANGED <<files, service>>
    BY LivesNow DEF TerminateSession
  <1>2. CASE q.ending # "no"
    BY <1>1, <1>2, LoginGoes DEF TerminateSession
  <1>3. CASE q.ending = "no"
    <2>1. Set(s, r)
      BY <1>3 DEF TerminateSession
    <2>2. r \in SessionType
      BY <1>1, FieldTypes DEF Lives, LoginPlaces
    <2>3. Holds(r)
      BY <1>1, <1>3 DEF Lives, SessionType, Holds, AsksWhereItSets, LoginTells, MainTells, ClosedForGood
    <2>4. /\ r.main = q.main /\ r.ending = "raised" /\ r.life = "alive" /\ r.state = q.state /\ r.peer = q.peer /\ r.rest = q.rest /\ r.list = q.list
        /\ r.target = q.target
      BY <1>1 DEF Lives, SessionType
    <2> HIDE DEF r
    <2> QED
      BY <1>1, <2>1, <2>2, <2>3, <2>4, GoesOn
  <1> QED
    BY <1>2, <1>3

\* The monitor sees that the session is to end, and ends it.
LEMMA MonitorSteps ==
  ASSUME SessionIndInv, NEW s \in Sessions, scene' = scene, Monitor(s) \/ TimeOut(s)
  PROVE  SessionIndInv'
  <1> DEFINE q == ses[s]
  <1>1. Lives(s) /\ UNCHANGED <<files, service>>
    BY LivesNow DEF TerminateSession, Monitor, MonitorSees, MonitorEnds, TimeOut, At
  <1>2. ASSUME NEW to \in {"ends", "done"}, Goes(s, "monitor", to)
        PROVE  SessionIndInv'
    <2> DEFINE r == [q EXCEPT !.monitor = to]
    <2>1. Set(s, r)
      BY <1>2 DEF Goes
    <2>2. r \in SessionType
      BY <1>1, FieldTypes DEF Lives
    <2>4. /\ r.main = q.main /\ r.ending = q.ending /\ r.life = "alive" /\ r.state = q.state /\ r.peer = q.peer /\ r.rest = q.rest /\ r.list = q.list
          /\ r.target = q.target /\ r.asked = q.asked /\ r.login = q.login /\ r.shell = q.shell /\ r.proxy = q.proxy
          /\ r.shellFlag = q.shellFlag /\ r.lock = q.lock /\ r.pipe = q.pipe /\ r.victim = q.victim
      BY <1>1 DEF Lives, SessionType
    <2> HIDE DEF r
    <2>6. Holds(r)
      <3>1. AsksWhereItSets(r) /\ LoginTells(r)
        BY <1>1, <2>4 DEF Lives, AsksWhereItSets, LoginTells
      <3>2. MainTells(r) /\ ClosedForGood(r)
        BY <1>1, <2>4 DEF Lives, MainTells, ClosedForGood
      <3> QED
        BY <2>4, <3>1, <3>2 DEF Holds
    <2> QED
      BY <1>1, <2>1, <2>2, <2>4, <2>6, GoesOn DEF Lives
  <1>3. ASSUME q.ending = "no", Set(s, [[q EXCEPT !.ending = "raised"] EXCEPT !.monitor = "parked"])
        PROVE  SessionIndInv'
    <2> DEFINE r == [[q EXCEPT !.ending = "raised"] EXCEPT !.monitor = "parked"]
    <2>2. r \in SessionType
      BY <1>1, FieldTypes DEF Lives
    <2>4. /\ r.main = q.main /\ r.ending = "raised" /\ r.life = "alive" /\ r.state = q.state /\ r.peer = q.peer /\ r.rest = q.rest /\ r.list = q.list
          /\ r.target = q.target /\ r.asked = q.asked /\ r.login = q.login /\ r.shell = q.shell /\ r.proxy = q.proxy
          /\ r.shellFlag = q.shellFlag /\ r.lock = q.lock /\ r.pipe = q.pipe /\ r.victim = q.victim
      BY <1>1 DEF Lives, SessionType
    <2>5. Set(s, r)
      BY <1>3
    <2> HIDE DEF r
    <2>6. Holds(r)
      <3>1. AsksWhereItSets(r) /\ LoginTells(r)
        BY <1>1, <2>4 DEF Lives, AsksWhereItSets, LoginTells
      <3>2. MainTells(r) /\ ClosedForGood(r)
        BY <1>1, <1>3, <2>4 DEF Lives, MainTells, ClosedForGood
      <3> QED
        BY <2>4, <3>1, <3>2 DEF Holds
    <2> QED
      BY <1>1, <2>2, <2>4, <2>5, <2>6, GoesOn DEF Lives
  <1> QED
    BY <1>2, <1>3 DEF Monitor, MonitorSees, MonitorEnds, TimeOut, TerminateSession

\* The client goes, or the shell dies.
LEMMA ClientOrShellGoes ==
  ASSUME SessionIndInv, NEW s \in Sessions, scene' = scene,
         ShutDownCloses(s) \/ ClientLeaves(s) \/ ShellDies(s)
  PROVE  SessionIndInv'
  <1> DEFINE q == ses[s]
  <1>1. Lives(s) /\ UNCHANGED <<files, service>>
    BY LivesNow DEF ShutDownCloses, ClientLeaves, ShellDies
  <1>2. ASSUME Set(s, [q EXCEPT !.client = FALSE])
        PROVE  SessionIndInv'
    <2> DEFINE r == [q EXCEPT !.client = FALSE]
    <2>1. r \in SessionType /\ Set(s, r)
      BY <1>1, <1>2, FieldTypes DEF Lives
    <2>2. /\ r.main = q.main /\ r.ending = q.ending /\ r.life = "alive" /\ r.state = q.state /\ r.peer = q.peer
          /\ r.rest = q.rest /\ r.list = q.list /\ r.target = q.target /\ r.asked = q.asked /\ r.login = q.login /\ r.shell = q.shell
          /\ r.proxy = q.proxy /\ r.shellFlag = q.shellFlag /\ r.lock = q.lock /\ r.pipe = q.pipe /\ r.victim = q.victim
      BY <1>1 DEF Lives, SessionType
    <2> HIDE DEF r
    <2>3. AsksWhereItSets(r) /\ LoginTells(r)
      BY <1>1, <2>2 DEF Lives, AsksWhereItSets, LoginTells
    <2>4. MainTells(r) /\ ClosedForGood(r)
      BY <1>1, <2>2 DEF Lives, MainTells, ClosedForGood
    <2> QED
      BY <1>1, <2>1, <2>2, <2>3, <2>4, GoesOn DEF Lives, Holds
  <1>3. ASSUME Set(s, [q EXCEPT !.shell = "dead"]), q.shell \in {"loose", "job"}
        PROVE  SessionIndInv'
    <2> DEFINE r == [q EXCEPT !.shell = "dead"]
    <2>1. r \in SessionType /\ Set(s, r)
      BY <1>1, <1>3, FieldTypes DEF Lives
    <2>2. /\ r.main = q.main /\ r.ending = q.ending /\ r.life = "alive" /\ r.state = q.state /\ r.peer = q.peer
          /\ r.rest = q.rest /\ r.list = q.list /\ r.target = q.target /\ r.asked = q.asked /\ r.login = q.login /\ r.shell = "dead"
          /\ r.proxy = q.proxy /\ r.shellFlag = q.shellFlag /\ r.lock = q.lock /\ r.pipe = q.pipe /\ r.victim = q.victim
      BY <1>1 DEF Lives, SessionType
    <2> HIDE DEF r
    <2>3. AsksWhereItSets(r) /\ LoginTells(r)
      BY <1>1, <1>3, <2>2 DEF Lives, AsksWhereItSets, LoginTells
    <2>4. MainTells(r) /\ ClosedForGood(r)
      BY <1>1, <2>2 DEF Lives, MainTells, ClosedForGood
    <2> QED
      BY <1>1, <2>1, <2>2, <2>3, <2>4, GoesOn DEF Lives, Holds
  <1> QED
    BY <1>2, <1>3 DEF ShutDownCloses, ClientLeaves, ShellDies

-----------------------------------------------------------------------------
(* Processes come and go.                                                  *)

\* What is left of a process holds nothing.
LEMMA DeadRecord ==
  ASSUME NEW q, NEW how \in {"shut down", "given up", "returned"}, NEW jobEnded \in BOOLEAN,
         q.shell \in {"none", "loose", "job", "dead"},
         how = "shut down" => q.shell # "loose" /\ jobEnded
  PROVE  LET r == Dead(q, how, jobEnded)
         IN  /\ r \in SessionType /\ Holds(r) /\ r.life = how /\ r.target = None /\ r.rest = {} /\ r.list = {}
             /\ r.ending = "no"
  <1> DEFINE left == IF q.shell = "job" /\ jobEnded THEN "dead" ELSE q.shell
             r == [[Fresh EXCEPT !.life = how] EXCEPT !.shell = left]
  <1>1. Dead(q, how, jobEnded) = r
    BY DEF Dead, Fresh
  <1>2. left \in {"none", "loose", "job", "dead"} /\ (how = "shut down" => left \in {"none", "dead"})
    OBVIOUS
  <1> HIDE DEF left
  <1>3. r \in SessionType
    BY <1>2 DEF SessionType, Fresh, Places, LoginPlaces, States
  <1>4. /\ r.main = "init" /\ r.login = "none" /\ r.asked = {} /\ r.lock = "free" /\ ~r.proxy /\ r.rest = {} /\ r.list = {}
        /\ r.target = None /\ r.life = how /\ r.shell = left /\ r.ending = "no"
    BY DEF Fresh
  <1> HIDE DEF r
  <1>5. Holds(r)
    BY <1>2, <1>4 DEF Holds, NoThreads
  <1> QED
    BY <1>1, <1>3, <1>4, <1>5

\* So whatever ends may end, as far as the others are concerned.
LEMMA DeadFollows ==
  ASSUME SessionIndInv, NEW s \in Sessions, NEW q, NEW how \in {"shut down", "given up", "returned"},
         NEW jobEnded \in BOOLEAN, q.shell = ses[s].shell,
         how = "shut down" => ses[s].shell # "loose" /\ jobEnded
  PROVE  Follows(s, Dead(q, how, jobEnded)) /\ Dead(q, how, jobEnded).life = how
           /\ Dead(q, how, jobEnded).ending = "no"
  <1>1. q.shell \in {"none", "loose", "job", "dead"}
    BY SessionFields DEF SessionType
  <1> DEFINE r == Dead(q, how, jobEnded)
  <1>2. r \in SessionType /\ Holds(r) /\ r.life = how /\ r.target = None /\ r.rest = {} /\ r.list = {} /\ r.ending = "no"
    <2>1. how = "shut down" => q.shell # "loose" /\ jobEnded
      OBVIOUS
    <2> QED
      BY <1>1, <2>1, DeadRecord
  <1> HIDE DEF r
  <1>3. Follows(s, r)
    BY <1>2 DEF Follows
  <1> QED
    BY <1>2, <1>3 DEF r

\* A session whose process is gone, or closed, may lose its files.
LEMMA ItsFilesGo ==
  ASSUME SessionIndInv, NEW s \in Sessions, NEW r, Follows(s, r), Set(s, r), scene' = scene,
         r.life = "alive" => r.state = "closed", files' = DeleteStateFile(s)
  PROVE  SessionIndInv'
  <1>1. /\ ses' = [ses EXCEPT ![s] = r] /\ ses \in [Sessions -> SessionType]
        /\ files' \subseteq Sessions \X (States \cup {"zombie"})
    BY DEF SessionIndInv, SessionTypes, Set, DeleteStateFile
  <1>2. ASSUME NEW t \in Sessions \ {s}
        PROVE  FilesOf(t, ses[t])'
    <2>1. \A st \in States \cup {"zombie"} : <<t, st>> \in files' <=> <<t, st>> \in files
      BY DEF DeleteStateFile
    <2>2. ses'[t] = ses[t]
      BY <1>1
    <2> QED
      BY <2>1, <2>2, SameFiles
  <1>3. FilesOf(s, ses[s])'
    <2>1. \A st : <<s, st>> \notin files'
      BY DEF DeleteStateFile
    <2>2. ses'[s] = r
      BY <1>1
    <2> QED
      BY <2>1, <2>2 DEF FilesOf
  <1> QED
    BY <1>1, <1>2, <1>3, AllAgree

\* A process ends, its files left behind.
LEMMA ProcessEnds ==
  ASSUME SessionIndInv, NEW s \in Sessions, scene' = scene,
         ShutDownExits(s) \/ MainReturns(s) \/ ConnectFails(s)
  PROVE  SessionIndInv'
  <1> DEFINE q == ses[s]
             over == Dead(q, "shut down", TRUE)
             back == Dead(q, "returned", FALSE)
  <1>1. q.shell = ses[s].shell
    OBVIOUS
  <1>2. CASE ShutDownExits(s)
    <2>1. Set(s, over) /\ UNCHANGED <<files, service>> /\ ses[s].ending = "closed" /\ Alive(s)
      BY <1>2 DEF ShutDownExits
    <2>2. ses[s].shell # "loose"
      BY <2>1, LivesNow DEF Lives, LoginTells, ClosedForGood
    <2> HIDE DEF q
    <2>3. Follows(s, over) /\ over.life = "shut down" /\ over.ending = "no"
      BY <1>1, <2>2, DeadFollows
    <2> HIDE DEF over
    <2> QED
      BY <2>1, <2>3, FilesStay
  <1>3. CASE MainReturns(s) \/ ConnectFails(s)
    <2>1. Set(s, back) /\ UNCHANGED <<files, service>>
      BY <1>3 DEF MainReturns, ConnectFails
    <2> HIDE DEF q
    <2>2. Follows(s, back) /\ back.life = "returned" /\ back.ending = "no"
      BY <1>1, DeadFollows
    <2> HIDE DEF back
    <2> QED
      BY <2>1, <2>2, FilesStay
  <1> QED
    BY <1>2, <1>3

\* Whoever gives up waiting ends the process, its files deleted.
LEMMA GivesUpStep ==
  ASSUME SessionIndInv, NEW s \in Sessions, scene' = scene, GivesUp(s)
  PROVE  SessionIndInv'
  <1> DEFINE q == [ses[s] EXCEPT !.state = "closed"]
             r == Dead(q, "given up", TRUE)
  <1>1. q.shell = ses[s].shell
    BY SessionFields DEF SessionType
  <1> HIDE DEF q
  <1>2. Follows(s, r) /\ r.life = "given up" /\ r.ending = "no"
    BY <1>1, DeadFollows
  <1>3. Set(s, r)
    BY DEF GivesUp, q
  <1> HIDE DEF r
  <1>4. CASE ses[s].state # "closed"
    BY <1>2, <1>3, <1>4, ItsFilesGo DEF GivesUp, SetStateClosed
  <1>5. CASE ses[s].state = "closed"
    BY <1>2, <1>3, <1>5, FilesStay DEF GivesUp
  <1> QED
    BY <1>4, <1>5

\* ShutDownThread closes the state under the lock: no shell is starting.
LEMMA ShutDownStep ==
  ASSUME SessionIndInv, NEW s \in Sessions, scene' = scene, ShutDown(s)
  PROVE  SessionIndInv'
  <1> DEFINE q == ses[s]
             r == [[[q EXCEPT !.ending = "closed"] EXCEPT !.lock = "shutdown"] EXCEPT !.state = "closed"]
  <1>1. Lives(s) /\ q.lock = "free" /\ files' = DeleteStateFile(s)
    BY LivesNow DEF ShutDown, SetStateClosed
  <1>2. Set(s, r)
    BY DEF ShutDown
  <1>3. r \in SessionType
    <2>1. [q EXCEPT !.ending = "closed"] \in SessionType
      BY <1>1, FieldTypes DEF Lives
    <2>2. [[q EXCEPT !.ending = "closed"] EXCEPT !.lock = "shutdown"] \in SessionType
      BY <2>1, FieldTypes
    <2> QED
      BY <2>2, FieldTypes DEF States
  <1>4. /\ r.main = q.main /\ r.ending = "closed" /\ r.life = "alive" /\ r.state = "closed" /\ r.peer = q.peer
        /\ r.rest = q.rest /\ r.list = q.list /\ r.target = q.target /\ r.asked = q.asked /\ r.login = q.login /\ r.shell = q.shell
        /\ r.proxy = q.proxy /\ r.shellFlag = q.shellFlag /\ r.lock = "shutdown" /\ r.pipe = q.pipe /\ r.victim = q.victim
    BY <1>1 DEF Lives, SessionType
  <1> HIDE DEF r
  <1>5. AsksWhereItSets(r) /\ LoginTells(r)
    BY <1>1, <1>4 DEF Lives, AsksWhereItSets, LoginTells
  <1>6. MainTells(r) /\ ClosedForGood(r)
    BY <1>1, <1>4 DEF Lives, MainTells, ClosedForGood
  <1>7. \A t \in q.rest \cup q.list \cup {q.target} : t # None => t # s /\ ses[t].life # "new"
    BY DEF SessionIndInv, OffersOthers
  <1>8. q.main \in {"set disconnected", "close", "create again"} => \A u \in Sessions : Relays(u) => ses[u].target # s
    BY <1>1 DEF SessionIndInv, KnowsItsProxy, Lives
  <1>9. Follows(s, r)
    BY <1>1, <1>3, <1>4, <1>5, <1>6, <1>7, <1>8 DEF Follows, Lives, Holds, Relays
  <1> QED
    BY <1>1, <1>2, <1>4, <1>9, ItsFilesGo

\* A process begins, with its first file.
LEMMA ConnectsStep ==
  ASSUME SessionIndInv, NEW s \in Sessions, scene' = scene, Connects(s)
  PROVE  SessionIndInv'
  <1>1. ses[s] = Fresh /\ FilesOf(s, ses[s]) /\ ses[s].life = "new"
    BY SessionFields DEF Connects, Holds, NoThreads
  <1> DEFINE main == IF s \in Telnet THEN "socket" ELSE "auth"
             login == IF s \in Telnet THEN "auth" ELSE "none"
             begun == [Fresh EXCEPT !.life = "alive", !.client = TRUE]
             r == IF s \in Telnet THEN [[begun EXCEPT !.main = "socket"] EXCEPT !.login = "auth"]
                  ELSE [begun EXCEPT !.main = "auth"]
  <1>2. Set(s, r)
    BY <1>1 DEF Connects
  <1>3. (main = "socket" /\ login = "auth") \/ (main = "auth" /\ login = "none")
    OBVIOUS
  <1>4. r \in SessionType
    <2>1. begun \in SessionType
      BY DEF Fresh, SessionType, Places, LoginPlaces, States
    <2> HIDE DEF begun
    <2>2. "socket" \in Places /\ "auth" \in Places /\ "auth" \in LoginPlaces
      BY DEF Places, LoginPlaces
    <2>3. [begun EXCEPT !.main = "socket"] \in SessionType /\ [begun EXCEPT !.main = "auth"] \in SessionType
      BY <2>1, <2>2, FieldTypes
    <2>4. [[begun EXCEPT !.main = "socket"] EXCEPT !.login = "auth"] \in SessionType
      BY <2>2, <2>3, FieldTypes
    <2> QED
      BY <2>3, <2>4
  <1>5. /\ r.main = main /\ r.login = login /\ r.ending = "no" /\ r.life = "alive" /\ r.state = "started" /\ r.peer = None
        /\ r.rest = {} /\ r.list = {} /\ r.target = None /\ r.asked = {} /\ r.shell = "none"
        /\ r.proxy = FALSE /\ r.shellFlag = FALSE /\ r.lock = "free" /\ r.pipe = FALSE
    BY DEF Fresh
  <1> HIDE DEF r, main, login
  <1>6. Holds(r)
    BY <1>3, <1>5 DEF Holds, AsksWhereItSets, LoginTells, MainTells, ClosedForGood, PipeMade
  <1>7. ses[s].peer = None
    BY <1>1 DEF Fresh
  <1>8. Follows(s, r)
    BY <1>1, <1>3, <1>4, <1>5, <1>6, <1>7 DEF Follows
  <1>9. /\ ses' = [ses EXCEPT ![s] = r] /\ ses \in [Sessions -> SessionType]
        /\ files' = files \cup {<<s, "started">>} /\ files' \subseteq Sessions \X (States \cup {"zombie"})
    <2>1. ses' = [ses EXCEPT ![s] = r] /\ ses \in [Sessions -> SessionType]
      BY <1>2 DEF SessionIndInv, SessionTypes, Set
    <2>2. files' = files \cup {<<s, "started">>} /\ files \subseteq Sessions \X (States \cup {"zombie"})
      BY DEF SessionIndInv, SessionTypes, Connects
    <2>3. <<s, "started">> \in Sessions \X (States \cup {"zombie"})
      BY DEF States
    <2> QED
      BY <2>1, <2>2, <2>3
  <1>10. ASSUME NEW t \in Sessions \ {s}
         PROVE  FilesOf(t, ses[t])'
    <2>1. \A st \in States \cup {"zombie"} : <<t, st>> \in files' <=> <<t, st>> \in files
      BY <1>9
    <2>2. ses'[t] = ses[t]
      BY <1>9
    <2> QED
      BY <2>1, <2>2, SameFiles
  <1>11. FilesOf(s, ses[s])'
    <2>1. \A st \in States : <<s, st>> \in files' <=> st = "started"
      BY <1>1, <1>9 DEF FilesOf, States
    <2>2. ses'[s] = r /\ "closed" \in States /\ "shell" \in States
      BY <1>9 DEF States
    <2> QED
      BY <1>5, <2>1, <2>2 DEF FilesOf, States
  <1> QED
    BY <1>2, <1>8, <1>9, <1>10, <1>11, AllAgree

-----------------------------------------------------------------------------
(* The login and the loops.                                                *)

\* The client has logged on, or not.
LEMMA LogonSteps ==
  ASSUME SessionIndInv, NEW s \in Sessions, scene' = scene,
         LogsOn(s) \/ LogonFails(s) \/ AccessDenied(s)
  PROVE  SessionIndInv'
  <1>1. Alive(s) /\ Lives(s)
    BY LivesNow DEF LogsOn, LogonFails, AccessDenied, At
  <1>2. CASE s \in Telnet
    <2>1. ses[s].login \in {"auth", "access"}
      BY <1>2 DEF LogsOn, LogonFails, AccessDenied, At, Thread
    <2>2. CASE LogsOn(s)
      BY <1>1, <1>2, <2>1, <2>2, LoginGoes DEF LogsOn, Thread
    <2>3. CASE LogonFails(s) \/ AccessDenied(s)
      BY <1>1, <1>2, <2>1, <2>3, LoginTerminates DEF LogonFails, AccessDenied, Thread
    <2> QED
      BY <2>2, <2>3
  <1>3. CASE s \notin Telnet
    <2>1. ses[s].main \in {"auth", "access"} /\ ses[s].login = "none"
      BY <1>1, <1>3 DEF LogsOn, LogonFails, AccessDenied, At, Thread, Lives, MainTells
    <2>2. CASE LogsOn(s)
      BY <1>1, <1>3, <2>1, <2>2, MainGoes DEF LogsOn, Thread
    <2>3. CASE LogonFails(s)
      BY <1>1, <1>3, <2>1, <2>3, MainTerminates DEF LogonFails, Thread, At
    <2>4. CASE AccessDenied(s)
      BY <1>1, <1>3, <2>1, <2>4, MainTerminates DEF AccessDenied, Thread, At
    <2> QED
      BY <2>2, <2>3, <2>4
  <1> QED
    BY <1>2, <1>3

\* The login of an SSH session begins when its main thread has logged on.
LEMMA AccessStep ==
  ASSUME SessionIndInv, NEW s \in Sessions, scene' = scene, Access(s)
  PROVE  SessionIndInv'
  <1> DEFINE q == ses[s]
             r == [[q EXCEPT !.main = "socket"] EXCEPT !.login = "choose"]
  <1>1. Lives(s) /\ UNCHANGED <<files, service>> /\ Alive(s)
    BY LivesNow DEF Access, At
  <1>2. CASE s \in Telnet
    <2>1. q.login = "access" /\ Goes(s, "login", "choose")
      BY <1>2 DEF Access, At, Thread, Granted, Goes
    <2> QED
      BY <1>1, <2>1, LoginGoes
  <1>3. CASE s \notin Telnet
    <2>1. q.main = "access"
      BY <1>3 DEF Access, At, Thread
    <2>2. Set(s, r) \/ Goes(s, "main", "set sftp")
      BY <1>3 DEF Access, Granted, Goes
    <2>3. ASSUME Set(s, r)
          PROVE  SessionIndInv'
      <3>1. r \in SessionType
        <4>1. [q EXCEPT !.main = "socket"] \in SessionType
          BY <1>1, FieldTypes DEF Lives, Places
        <4> QED
          BY <4>1, FieldTypes DEF LoginPlaces
      <3>2. /\ r.main = "socket" /\ r.ending = q.ending /\ r.life = "alive" /\ r.state = q.state /\ r.peer = q.peer
            /\ r.rest = q.rest /\ r.list = q.list /\ r.target = q.target /\ r.asked = q.asked /\ r.login = "choose" /\ r.shell = q.shell
            /\ r.proxy = q.proxy /\ r.shellFlag = q.shellFlag /\ r.lock = q.lock /\ r.pipe = q.pipe /\ r.victim = q.victim
        BY <1>1 DEF Lives, SessionType
      <3>3. Set(s, r)
        BY <2>3
      <3>4. q.login = "none"
        BY <1>1, <2>1 DEF Lives, MainTells
      <3> HIDE DEF r
      <3>5. AsksWhereItSets(r) /\ LoginTells(r)
        BY <1>1, <2>1, <3>2, <3>4 DEF Lives, AsksWhereItSets, LoginTells
      <3>6. MainTells(r) /\ ClosedForGood(r)
        BY <1>1, <2>1, <3>2, <3>4 DEF Lives, MainTells, ClosedForGood, PipeMade
      <3> QED
        BY <1>1, <3>1, <3>2, <3>3, <3>5, <3>6, GoesOn DEF Holds
    <2> QED
      BY <1>1, <2>1, <2>2, <2>3, MainGoes
  <1> QED
    BY <1>2, <1>3

\* The loops of the main thread end, or the next one begins.
LEMMA LoopSteps ==
  ASSUME SessionIndInv, NEW s \in Sessions, scene' = scene,
         \/ SftpEnds(s) \/ LeavesSocketLoop(s) \/ PortForwardBegins(s) \/ PortForwardEnds(s)
         \/ PortForwardDenied(s) \/ MainEnds(s) \/ RelayEnds(s)
  PROVE  SessionIndInv'
  <1>1. /\ NextLoop(s) \in {"set proxy", "create", "end"}
        /\ NextLoop(s) = "set proxy" => ses[s].proxy
        /\ NextLoop(s) = "create" => ses[s].shellFlag
    BY DEF NextLoop
  <1> DEFINE next == NextLoop(s)
  <1> HIDE DEF next
  <1>2. CASE SftpEnds(s)
    BY <1>2, MainTerminates DEF SftpEnds, At
  <1>3. CASE LeavesSocketLoop(s)
    <2>1. Goes(s, "main", next) /\ ses[s].main = "socket" /\ Alive(s) /\ UNCHANGED <<files, service>>
      BY <1>3 DEF LeavesSocketLoop, At, next
    <2> QED
      BY <1>1, <2>1, MainGoes DEF next
  <1>4. CASE PortForwardBegins(s)
    BY <1>4, MainGoes DEF PortForwardBegins, At
  <1>5. CASE PortForwardEnds(s)
    <2>1. TerminateSession(s, "main", next) /\ ses[s].main = "forward" /\ Alive(s)
      BY <1>5 DEF PortForwardEnds, At, next
    <2> QED
      BY <1>1, <2>1, MainTerminates DEF next
  <1>6. CASE PortForwardDenied(s)
    BY <1>6, MainTerminates DEF PortForwardDenied, At
  <1>7. CASE MainEnds(s)
    BY <1>7, MainTerminates DEF MainEnds, At
  <1>8. CASE RelayEnds(s)
    BY <1>8, MainGoes DEF RelayEnds, At
  <1> QED
    BY <1>2, <1>3, <1>4, <1>5, <1>6, <1>7, <1>8

\* The choice of a session offered, or of a new shell.
LEMMA PicksStep ==
  ASSUME SessionIndInv, NEW s \in Sessions, scene' = scene, Picks(s)
  PROVE  SessionIndInv'
  <1> DEFINE q == ses[s]
  <1>1. Lives(s) /\ UNCHANGED <<files, service>> /\ Alive(s) /\ q.login = "pick"
    BY LivesNow DEF Picks, At
  <1>2. PICK t \in q.list \cup {None} :
          Set(s, [q EXCEPT !.list = {}, !.ready = {}, !.gone = {}, !.target = t, !.proxy = t # None,
                           !.login = IF t = None THEN "start" ELSE "done"])
    BY DEF Picks
  <1> DEFINE isProxy == t # None
             next == IF t = None THEN "start" ELSE "done"
             o == [[[q EXCEPT !.list = {}] EXCEPT !.ready = {}] EXCEPT !.gone = {}]
             r == [[[o EXCEPT !.target = t] EXCEPT !.proxy = isProxy] EXCEPT !.login = next]
  <1>3. Set(s, r)
    BY <1>2
  <1>4. next \in LoginPlaces /\ isProxy \in BOOLEAN /\ t \in Sessions \cup {None}
        /\ (isProxy => t # None /\ next = "done") /\ (~isProxy => t = None /\ next = "start")
    <2>1. q.list \subseteq Sessions
      BY SessionFields
    <2> QED
      BY <1>2, <2>1 DEF LoginPlaces
  <1>5. \A u \in q.rest \cup {t} : u # None => u # s /\ ses[u].life # "new"
    BY <1>2 DEF SessionIndInv, OffersOthers
  <1>6. q.main \in {"set disconnected", "close", "create again"} => \A u \in Sessions : Relays(u) => ses[u].target # s
    BY <1>1 DEF SessionIndInv, KnowsItsProxy
  <1> HIDE DEF isProxy, next
  <1>7. r \in SessionType
    <2>a. [q EXCEPT !.list = {}] \in SessionType
      BY <1>1, FieldTypes DEF Lives
    <2>b. [[q EXCEPT !.list = {}] EXCEPT !.ready = {}] \in SessionType
      BY <2>a, FieldTypes
    <2>c. o \in SessionType
      BY <2>b, FieldTypes
    <2> HIDE DEF o
    <2>1. [o EXCEPT !.target = t] \in SessionType
      BY <1>4, <2>c, FieldTypes
    <2>2. [[o EXCEPT !.target = t] EXCEPT !.proxy = isProxy] \in SessionType
      BY <1>4, <2>1, FieldTypes
    <2> QED
      BY <1>4, <2>2, FieldTypes
  <1>8. /\ r.main = q.main /\ r.ending = q.ending /\ r.life = "alive" /\ r.state = q.state /\ r.peer = q.peer
        /\ r.rest = q.rest /\ r.list = {} /\ r.target = t /\ r.asked = q.asked /\ r.login = next /\ r.shell = q.shell
        /\ r.proxy = isProxy /\ r.shellFlag = q.shellFlag /\ r.lock = q.lock /\ r.pipe = q.pipe /\ r.victim = q.victim
    BY <1>1 DEF Lives, SessionType
  <1> HIDE DEF r
  <1>9. AsksWhereItSets(r)
    BY <1>1, <1>8 DEF Lives, AsksWhereItSets
  <1>10. LoginTells(r)
    BY <1>1, <1>4, <1>8 DEF Lives, LoginTells
  <1>11. MainTells(r) /\ ClosedForGood(r)
    BY <1>1, <1>8 DEF Lives, MainTells, LoginTells, ClosedForGood
  <1>12. q.main # "relay"
    BY <1>1 DEF Lives, MainTells, LoginTells
  <1>13. Follows(s, r)
    BY <1>1, <1>5, <1>6, <1>7, <1>8, <1>9, <1>10, <1>11, <1>12 DEF Follows, Lives, Holds
  <1> QED
    BY <1>1, <1>3, <1>8, <1>13, FilesStay DEF Alive

\* The shell starts under the lock, or does not, and the lock is left.
LEMMA ShellSteps ==
  ASSUME SessionIndInv, NEW s \in Sessions, scene' = scene,
         StartShell(s) \/ StartShellFails(s) \/ CreateJob(s)
  PROVE  SessionIndInv'
  <1> DEFINE q == ses[s]
  <1>1. Lives(s) /\ UNCHANGED <<files, service>> /\ Alive(s)
    BY LivesNow DEF StartShell, StartShellFails, CreateJob, At
  <1>2. CASE StartShell(s)
    <2> DEFINE r == [[[q EXCEPT !.lock = "shell"] EXCEPT !.shell = "loose"] EXCEPT !.login = "set shell"]
    <2>1. Set(s, r) /\ q.login = "start" /\ q.lock = "free"
      BY <1>2 DEF StartShell, At
    <2>2. r \in SessionType
      <3>1. [[q EXCEPT !.lock = "shell"] EXCEPT !.shell = "loose"] \in SessionType
        BY <1>1, FieldTypes DEF Lives
      <3> QED
        BY <3>1, FieldTypes DEF LoginPlaces
    <2>3. /\ r.main = q.main /\ r.ending = q.ending /\ r.life = "alive" /\ r.state = q.state /\ r.peer = q.peer
          /\ r.rest = q.rest /\ r.list = q.list /\ r.target = q.target /\ r.asked = q.asked /\ r.login = "set shell" /\ r.shell = "loose"
          /\ r.proxy = q.proxy /\ r.shellFlag = q.shellFlag /\ r.lock = "shell" /\ r.pipe = q.pipe /\ r.victim = q.victim
      BY <1>1 DEF Lives, SessionType
    <2> HIDE DEF r
    <2>4. AsksWhereItSets(r) /\ LoginTells(r)
      BY <1>1, <2>1, <2>3 DEF Lives, AsksWhereItSets, LoginTells
    <2>5. MainTells(r) /\ ClosedForGood(r)
      BY <1>1, <2>1, <2>3 DEF Lives, MainTells, ClosedForGood
    <2> QED
      BY <1>1, <2>1, <2>2, <2>3, <2>4, <2>5, GoesOn DEF Holds
  <1>3. CASE StartShellFails(s)
    <2> DEFINE r == [[q EXCEPT !.login = "done"] EXCEPT !.shellFlag = TRUE]
    <2>1. Set(s, r) /\ q.login = "start" /\ q.lock = "free"
      BY <1>3 DEF StartShellFails, At
    <2>2. r \in SessionType
      <3>1. [q EXCEPT !.login = "done"] \in SessionType
        BY <1>1, FieldTypes DEF Lives, LoginPlaces
      <3> QED
        BY <3>1, FieldTypes
    <2>3. /\ r.main = q.main /\ r.ending = q.ending /\ r.life = "alive" /\ r.state = q.state /\ r.peer = q.peer
          /\ r.rest = q.rest /\ r.list = q.list /\ r.target = q.target /\ r.asked = q.asked /\ r.login = "done" /\ r.shell = q.shell
          /\ r.proxy = q.proxy /\ r.shellFlag = TRUE /\ r.lock = q.lock /\ r.pipe = q.pipe /\ r.victim = q.victim
      BY <1>1 DEF Lives, SessionType
    <2> HIDE DEF r
    <2>4. AsksWhereItSets(r) /\ LoginTells(r)
      BY <1>1, <2>1, <2>3 DEF Lives, AsksWhereItSets, LoginTells
    <2>5. MainTells(r) /\ ClosedForGood(r)
      BY <1>1, <2>1, <2>3 DEF Lives, MainTells, ClosedForGood
    <2> QED
      BY <1>1, <2>1, <2>2, <2>3, <2>4, <2>5, GoesOn DEF Holds
  <1>4. CASE CreateJob(s)
    <2> DEFINE left == IF q.shell = "loose" THEN "job" ELSE q.shell
               r == [[[[q EXCEPT !.lock = "free"] EXCEPT !.shellFlag = TRUE] EXCEPT !.login = "done"] EXCEPT !.shell = left]
    <2>1. Set(s, r) /\ q.login = "job"
      BY <1>4 DEF CreateJob, At
    <2>2. left \in {"none", "job", "dead"}
      BY <1>1 DEF Lives, SessionType
    <2> HIDE DEF left
    <2>3. r \in SessionType
      <3>1. [[[q EXCEPT !.lock = "free"] EXCEPT !.shellFlag = TRUE] EXCEPT !.login = "done"] \in SessionType
        BY <1>1, FieldTypes DEF Lives, LoginPlaces
      <3> QED
        BY <2>2, <3>1, FieldTypes
    <2>4. /\ r.main = q.main /\ r.ending = q.ending /\ r.life = "alive" /\ r.state = q.state /\ r.peer = q.peer
          /\ r.rest = q.rest /\ r.list = q.list /\ r.target = q.target /\ r.asked = q.asked /\ r.login = "done" /\ r.shell = left
          /\ r.proxy = q.proxy /\ r.shellFlag = TRUE /\ r.lock = "free" /\ r.pipe = q.pipe /\ r.victim = q.victim
      BY <1>1 DEF Lives, SessionType
    <2> HIDE DEF r
    <2>5. AsksWhereItSets(r) /\ LoginTells(r)
      BY <1>1, <2>1, <2>2, <2>4 DEF Lives, AsksWhereItSets, LoginTells
    <2>6. MainTells(r) /\ ClosedForGood(r)
      BY <1>1, <2>1, <2>4 DEF Lives, MainTells, LoginTells, ClosedForGood
    <2> QED
      BY <1>1, <2>1, <2>3, <2>4, <2>5, <2>6, GoesOn DEF Holds
  <1> QED
    BY <1>2, <1>3, <1>4

-----------------------------------------------------------------------------
(* At the pipe.                                                            *)

\* The pipe is made, and a client comes to it.
LEMMA PipeBegins ==
  ASSUME SessionIndInv, NEW s \in Sessions, scene' = scene,
         CreatesPipe(s) \/ AcceptsPipe(s)
  PROVE  SessionIndInv'
  <1> DEFINE q == ses[s]
  <1>1. Lives(s) /\ UNCHANGED <<files, service>> /\ Alive(s)
    BY LivesNow DEF CreatesPipe, AcceptsPipe, At
  <1>2. CASE CreatesPipe(s)
    <2> DEFINE r == [[[[q EXCEPT !.client = FALSE] EXCEPT !.pipe = TRUE] EXCEPT !.peer = None]
                       EXCEPT !.main = "first set disconnected"]
    <2>1. Set(s, r) /\ q.main = "create"
      BY <1>2 DEF CreatesPipe, At
    <2>2. q.peer = None
      BY <1>1, <2>1 DEF Lives, MainTells, PipeMade
    <2>3. r \in SessionType
      <3>1. [[[q EXCEPT !.client = FALSE] EXCEPT !.pipe = TRUE] EXCEPT !.peer = None] \in SessionType
        BY <1>1, FieldTypes DEF Lives
      <3> QED
        BY <3>1, FieldTypes DEF Places
    <2>4. /\ r.main = "first set disconnected" /\ r.ending = q.ending /\ r.life = "alive" /\ r.state = q.state /\ r.peer = None
          /\ r.rest = q.rest /\ r.list = q.list /\ r.target = q.target /\ r.asked = q.asked /\ r.login = q.login /\ r.shell = q.shell
          /\ r.proxy = q.proxy /\ r.shellFlag = q.shellFlag /\ r.lock = q.lock /\ r.pipe = TRUE /\ r.victim = q.victim
      BY <1>1 DEF Lives, SessionType
    <2> HIDE DEF r
    <2>5. AsksWhereItSets(r) /\ LoginTells(r)
      BY <1>1, <2>1, <2>4 DEF Lives, AsksWhereItSets, LoginTells
    <2>6. MainTells(r) /\ ClosedForGood(r)
      BY <1>1, <2>1, <2>4 DEF Lives, MainTells, ClosedForGood, PipeMade
    <2> QED
      BY <1>1, <2>1, <2>2, <2>3, <2>4, <2>5, <2>6, GoesOn DEF Holds
  <1>3. CASE AcceptsPipe(s)
    <2> DEFINE r == [q EXCEPT !.main = "set pipe"]
    <2>1. Set(s, r) /\ q.main = "accept" /\ q.peer # None
      BY <1>3 DEF AcceptsPipe, At, Goes
    <2>2. r \in SessionType
      BY <1>1, FieldTypes DEF Lives, Places
    <2>3. /\ r.main = "set pipe" /\ r.ending = q.ending /\ r.life = "alive" /\ r.state = q.state /\ r.peer = q.peer
          /\ r.rest = q.rest /\ r.list = q.list /\ r.target = q.target /\ r.asked = q.asked /\ r.login = q.login /\ r.shell = q.shell
          /\ r.proxy = q.proxy /\ r.shellFlag = q.shellFlag /\ r.lock = q.lock /\ r.pipe = q.pipe /\ r.victim = q.victim
      BY <1>1 DEF Lives, SessionType
    <2> HIDE DEF r
    <2>4. AsksWhereItSets(r) /\ LoginTells(r)
      BY <1>1, <2>1, <2>3 DEF Lives, AsksWhereItSets, LoginTells
    <2>5. MainTells(r) /\ ClosedForGood(r)
      BY <1>1, <2>1, <2>3 DEF Lives, MainTells, ClosedForGood, PipeMade
    <2> QED
      BY <1>1, <2>1, <2>2, <2>3, <2>4, <2>5, GoesOn DEF Holds
  <1> QED
    BY <1>2, <1>3

\* The pipe breaks: the proxy that was at it relays no more, so nobody does.
LEMMA PipeBreaksStep ==
  ASSUME SessionIndInv, NEW s \in Sessions, scene' = scene, PipeBreaks(s)
  PROVE  SessionIndInv'
  <1> DEFINE q == ses[s]
             r == [q EXCEPT !.main = "set disconnected"]
  <1>1. Lives(s) /\ UNCHANGED <<files, service>> /\ Alive(s) /\ q.main = "loop" /\ Broken(s)
    BY LivesNow DEF PipeBreaks, At
  <1>2. Set(s, r)
    BY DEF PipeBreaks, Goes
  <1>3. r \in SessionType
    BY <1>1, FieldTypes DEF Lives, Places
  <1>4. /\ r.main = "set disconnected" /\ r.ending = q.ending /\ r.life = "alive" /\ r.state = q.state /\ r.peer = q.peer
        /\ r.rest = q.rest /\ r.list = q.list /\ r.target = q.target /\ r.asked = q.asked /\ r.login = q.login /\ r.shell = q.shell
        /\ r.proxy = q.proxy /\ r.shellFlag = q.shellFlag /\ r.lock = q.lock /\ r.pipe = q.pipe /\ r.victim = q.victim
    BY <1>1 DEF Lives, SessionType
  <1> HIDE DEF r
  <1>5. AsksWhereItSets(r) /\ LoginTells(r)
    BY <1>1, <1>4 DEF Lives, AsksWhereItSets, LoginTells
  <1>6. MainTells(r) /\ ClosedForGood(r)
    BY <1>1, <1>4 DEF Lives, MainTells, ClosedForGood, PipeMade
  <1>7. \A u \in Sessions : Relays(u) => ses[u].target # s
    BY <1>1 DEF SessionIndInv, KnowsItsProxy, Broken
  <1>8. \A t \in q.rest \cup q.list \cup {q.target} : t # None => t # s /\ ses[t].life # "new"
    BY DEF SessionIndInv, OffersOthers
  <1>9. Follows(s, r)
    BY <1>1, <1>3, <1>4, <1>5, <1>6, <1>7, <1>8 DEF Follows, Lives, Holds
  <1> QED
    BY <1>1, <1>2, <1>4, <1>9, FilesStay DEF Alive

\* The broken pipe goes, and another is made.
LEMMA PipeAgain ==
  ASSUME SessionIndInv, NEW s \in Sessions, scene' = scene,
         ClosesPipe(s) \/ CreatesPipeAgain(s)
  PROVE  SessionIndInv'
  <1> DEFINE q == ses[s]
  <1>1. Lives(s) /\ UNCHANGED <<files, service>> /\ Alive(s)
    BY LivesNow DEF ClosesPipe, CreatesPipeAgain, At
  <1>2. CASE ClosesPipe(s)
    <2> DEFINE r == [[q EXCEPT !.pipe = FALSE] EXCEPT !.main = "create again"]
    <2>1. Set(s, r) /\ q.main = "close"
      BY <1>2 DEF ClosesPipe, At
    <2>2. r \in SessionType
      <3>1. [q EXCEPT !.pipe = FALSE] \in SessionType
        BY <1>1, FieldTypes DEF Lives
      <3> QED
        BY <3>1, FieldTypes DEF Places
    <2>3. /\ r.main = "create again" /\ r.ending = q.ending /\ r.life = "alive" /\ r.state = q.state /\ r.peer = q.peer
          /\ r.rest = q.rest /\ r.list = q.list /\ r.target = q.target /\ r.asked = q.asked /\ r.login = q.login /\ r.shell = q.shell
          /\ r.proxy = q.proxy /\ r.shellFlag = q.shellFlag /\ r.lock = q.lock /\ r.pipe = FALSE /\ r.victim = q.victim
      BY <1>1 DEF Lives, SessionType
    <2> HIDE DEF r
    <2>4. AsksWhereItSets(r) /\ LoginTells(r)
      BY <1>1, <2>1, <2>3 DEF Lives, AsksWhereItSets, LoginTells
    <2>5. MainTells(r) /\ ClosedForGood(r)
      BY <1>1, <2>1, <2>3 DEF Lives, MainTells, ClosedForGood, PipeMade
    <2> QED
      BY <1>1, <2>1, <2>2, <2>3, <2>4, <2>5, GoesOn DEF Holds
  <1>3. CASE CreatesPipeAgain(s)
    <2> DEFINE r == [[[q EXCEPT !.pipe = TRUE] EXCEPT !.peer = None] EXCEPT !.main = "accept"]
    <2>1. Set(s, r) /\ q.main = "create again"
      BY <1>3 DEF CreatesPipeAgain, At
    <2>2. r \in SessionType
      <3>1. [[q EXCEPT !.pipe = TRUE] EXCEPT !.peer = None] \in SessionType
        BY <1>1, FieldTypes DEF Lives
      <3> QED
        BY <3>1, FieldTypes DEF Places
    <2>3. /\ r.main = "accept" /\ r.ending = q.ending /\ r.life = "alive" /\ r.state = q.state /\ r.peer = None
          /\ r.rest = q.rest /\ r.list = q.list /\ r.target = q.target /\ r.asked = q.asked /\ r.login = q.login /\ r.shell = q.shell
          /\ r.proxy = q.proxy /\ r.shellFlag = q.shellFlag /\ r.lock = q.lock /\ r.pipe = TRUE /\ r.victim = q.victim
      BY <1>1 DEF Lives, SessionType
    <2> HIDE DEF r
    <2>4. AsksWhereItSets(r) /\ LoginTells(r)
      BY <1>1, <2>1, <2>3 DEF Lives, AsksWhereItSets, LoginTells
    <2>5. MainTells(r) /\ ClosedForGood(r)
      BY <1>1, <2>1, <2>3 DEF Lives, MainTells, ClosedForGood, PipeMade
    <2>6. \A u \in Sessions : Relays(u) => ses[u].target # s
      BY <1>1, <2>1 DEF SessionIndInv, KnowsItsProxy
    <2>7. \A t \in q.rest \cup q.list \cup {q.target} : t # None => t # s /\ ses[t].life # "new"
      BY DEF SessionIndInv, OffersOthers
    <2>8. Follows(s, r)
      BY <1>1, <2>2, <2>3, <2>4, <2>5, <2>6, <2>7 DEF Follows, Lives, Holds
    <2> QED
      BY <1>1, <2>1, <2>3, <2>8, FilesStay DEF Alive
  <1> QED
    BY <1>2, <1>3

\* A proxy comes to the pipe: nobody else is at it.
LEMMA ConnectsPipeStep ==
  ASSUME SessionIndInv, NEW s \in Sessions, scene' = scene, ConnectsPipe(s)
  PROVE  SessionIndInv'
  <1> DEFINE q == ses[s]
             t == q.target
             p == ses[t]
             r == [q EXCEPT !.main = "relay"]
             o == [p EXCEPT !.peer = s]
  <1>1. Lives(s) /\ UNCHANGED <<files, service>> /\ Alive(s) /\ q.main = "connect" /\ CanConnect(t)
        /\ ses' = [ses EXCEPT ![s].main = "relay", ![t].peer = s]
    BY LivesNow DEF ConnectsPipe, At
  <1>2. t \in Sessions /\ t # s
    <2>1. t # None
      BY <1>1 DEF Lives, MainTells, LoginTells
    <2>2. t \in Sessions
      BY <2>1, SessionFields
    <2>3. \A u \in Sessions : \A v \in ses[u].rest \cup ses[u].list \cup {ses[u].target} : v # None => v # u
      BY DEF SessionIndInv, OffersOthers
    <2> QED
      BY <2>1, <2>2, <2>3
  <1>3. Lives(t) /\ p.pipe /\ p.peer = None
    BY <1>1, <1>2, LivesNow DEF CanConnect
  <1>4. ses \in [Sessions -> SessionType]
    BY DEF SessionIndInv, SessionTypes
  <1>5. ses'[s] = r /\ ses'[t] = o /\ \A u \in Sessions \ {s, t} : ses'[u] = ses[u]
    BY <1>1, <1>2, <1>4
  <1>6. r \in SessionType /\ o \in SessionType
    BY <1>1, <1>3, FieldTypes DEF Lives, Places
  <1>7. ses' \in [Sessions -> SessionType]
    <2>1. ses' = [[ses EXCEPT ![s] = r] EXCEPT ![t] = o]
      BY <1>1, <1>2, <1>4
    <2> HIDE DEF r, o
    <2> QED
      BY <1>2, <1>4, <1>6, <2>1
  <1>8. /\ r.main = "relay" /\ r.ending = q.ending /\ r.life = "alive" /\ r.state = q.state /\ r.peer = q.peer
        /\ r.rest = q.rest /\ r.list = q.list /\ r.target = t /\ r.asked = q.asked /\ r.login = q.login /\ r.shell = q.shell
        /\ r.proxy = q.proxy /\ r.shellFlag = q.shellFlag /\ r.lock = q.lock /\ r.pipe = q.pipe /\ r.victim = q.victim
    BY <1>1 DEF Lives, SessionType
  <1>9. /\ o.main = p.main /\ o.ending = p.ending /\ o.life = "alive" /\ o.state = p.state /\ o.peer = s
        /\ o.rest = p.rest /\ o.list = p.list /\ o.target = p.target /\ o.asked = p.asked /\ o.login = p.login /\ o.shell = p.shell
        /\ o.proxy = p.proxy /\ o.shellFlag = p.shellFlag /\ o.lock = p.lock /\ o.pipe = p.pipe /\ o.victim = p.victim
    BY <1>3 DEF Lives, SessionType
  <1>10. q.target = t /\ ses[t] = p /\ ses[s] = q
    OBVIOUS
  <1>a. AsksWhereItSets(p) /\ LoginTells(p) /\ MainTells(p) /\ ClosedForGood(p) /\ files' = files
    BY <1>1, <1>3 DEF Lives
  <1> HIDE DEF r, o, p, t, q
  <1>11. p.main \in {"first set disconnected", "accept"}
    BY <1>3, <1>10 DEF Lives, MainTells, PipeMade
  <1>12. Holds(r)
    <2>1. AsksWhereItSets(r) /\ LoginTells(r)
      BY <1>1, <1>8, <1>10 DEF Lives, AsksWhereItSets, LoginTells
    <2>2. MainTells(r) /\ ClosedForGood(r)
      BY <1>1, <1>8, <1>10 DEF Lives, MainTells, ClosedForGood, PipeMade
    <2> QED
      BY <1>8, <2>1, <2>2 DEF Holds
  <1>13. Holds(o)
    <2>1. AsksWhereItSets(o) /\ LoginTells(o)
      BY <1>9, <1>a DEF AsksWhereItSets, LoginTells
    <2>2. MainTells(o) /\ ClosedForGood(o)
      BY <1>3, <1>9, <1>11, <1>a DEF MainTells, ClosedForGood, PipeMade
    <2> QED
      BY <1>9, <2>1, <2>2 DEF Holds
  <1>14. \A u \in Sessions : /\ ses'[u].life = ses[u].life /\ ses'[u].rest = ses[u].rest /\ ses'[u].list = ses[u].list /\ ses'[u].target = ses[u].target
                             /\ ses'[u].state = ses[u].state /\ ses'[u].ending = ses[u].ending
                             /\ (u # s => ses'[u].main = ses[u].main) /\ (u # t => ses'[u].peer = ses[u].peer)
    <2>1. p.life = "alive" /\ q.life = "alive"
      BY <1>1, <1>3, <1>10 DEF Lives
    <2> QED
      BY <1>2, <1>5, <1>8, <1>9, <1>10, <2>1
  <1>15. \A u \in Sessions : Holds(ses'[u]) /\ FilesOf(u, ses[u])'
    <2> SUFFICES ASSUME NEW u \in Sessions
                 PROVE  Holds(ses'[u]) /\ FilesOf(u, ses[u])'
      OBVIOUS
    <2>1. Holds(ses[u]) /\ FilesOf(u, ses[u])
      BY DEF SessionIndInv
    <2>2. Holds(ses'[u])
      BY <1>5, <1>12, <1>13, <2>1
    <2>3. FilesOf(u, ses[u])'
      <3>1. ses'[u].life = ses[u].life /\ ses'[u].state = ses[u].state /\ ses'[u].ending = ses[u].ending
        BY <1>14
      <3> QED
        BY <1>a, <2>1, <3>1 DEF FilesOf
    <2> QED
      BY <2>2, <2>3
  <1>16. OffersOthers'
    <2> SUFFICES ASSUME NEW u \in Sessions, NEW v \in ses'[u].rest \cup ses'[u].list \cup {ses'[u].target}, v # None
                 PROVE  v # u /\ ses'[v].life # "new"
      BY DEF OffersOthers
    <2>1. v \in ses[u].rest \cup ses[u].list \cup {ses[u].target}
      BY <1>14
    <2>2. v \in Sessions
      BY <2>1, SessionFields
    <2> QED
      BY <1>14, <2>1, <2>2 DEF SessionIndInv, OffersOthers
  <1>17. \A u \in Sessions : Relays(u)' => u = s \/ (Relays(u) /\ ses[u].target # t)
    <2> SUFFICES ASSUME NEW u \in Sessions, u # s, Relays(u)'
                 PROVE  Relays(u) /\ ses[u].target # t
      OBVIOUS
    <2>1. Relays(u)
      BY <1>14 DEF Relays, Alive
    <2>2. ses[u].target = t => ses[t].peer = u
      BY <1>3, <2>1 DEF SessionIndInv, KnowsItsProxy, Lives
    <2>3. u # None
      BY SessionAssumption DEF None
    <2> QED
      BY <1>3, <1>10, <2>1, <2>2, <2>3
  <1>18. KnowsItsProxy'
    <2> SUFFICES ASSUME NEW u \in Sessions, Relays(u)', ses'[ses'[u].target].life = "alive"
                 PROVE  /\ ses'[ses'[u].target].peer = u
                        /\ ses'[ses'[u].target].main \notin {"set disconnected", "close", "create again"}
      BY DEF KnowsItsProxy, Alive
    <2>1. CASE u = s
      BY <1>2, <1>5, <1>8, <1>9, <1>11, <2>1
    <2>2. CASE u # s
      <3> DEFINE w == ses[u].target
      <3>1. Relays(u) /\ w # t /\ ses'[u].target = w
        BY <1>14, <1>17, <2>2
      <3>2. Lives(u)
        BY <3>1, LivesNow DEF Relays
      <3>3. w \in Sessions
        BY <3>1, <3>2, SessionFields DEF Lives, MainTells, LoginTells, Relays
      <3>4. ses[w].life = "alive" /\ ses'[w].peer = ses[w].peer
        BY <1>14, <3>1, <3>3
      <3>5. ses[w].peer = u /\ ses[w].main \notin {"set disconnected", "close", "create again"}
        BY <3>1, <3>4 DEF SessionIndInv, KnowsItsProxy, Alive
      <3>6. ses'[w].main \notin {"set disconnected", "close", "create again"}
        BY <1>5, <1>8, <1>14, <3>3, <3>5
      <3> QED
        BY <3>1, <3>4, <3>5, <3>6
    <2> QED
      BY <2>1, <2>2
  <1>19. OneProxyEach'
    <2> SUFFICES ASSUME NEW u \in Sessions, NEW v \in Sessions, Relays(u)', Relays(v)',
                        ses'[u].target = ses'[v].target
                 PROVE  u = v
      BY DEF OneProxyEach
    <2>1. ses[u].target = ses[v].target
      BY <1>14
    <2>2. ses[s].target = t
      BY <1>10
    <2> QED
      BY <1>17, <2>1, <2>2 DEF SessionIndInv, OneProxyEach
  <1> QED
    BY <1>1, <1>7, <1>15, <1>16, <1>18, <1>19 DEF SessionIndInv, SessionTypes

\* Whom it cannot connect to is a zombie.
LEMMA FindsZombieStep ==
  ASSUME SessionIndInv, NEW s \in Sessions, scene' = scene, FindsZombie(s)
  PROVE  SessionIndInv'
  <1> DEFINE q == ses[s]
  <1>1. Lives(s) /\ UNCHANGED <<files, service>> /\ Alive(s) /\ q.main = "connect"
    BY LivesNow DEF FindsZombie, At
  <1>2. Readable \subseteq Sessions
    BY DEF Readable, Disconnected, SessionIndInv, SessionTypes
  <1>3. Goes(s, "main", "end") \/ \E v \in Readable : Set(s, [q EXCEPT !.victim = v, !.main = "zombie"])
    BY DEF FindsZombie, Found
  <1>4. ASSUME NEW v \in Readable, Set(s, [q EXCEPT !.victim = v, !.main = "zombie"])
        PROVE  SessionIndInv'
    <2> DEFINE r == [[q EXCEPT !.victim = v] EXCEPT !.main = "zombie"]
    <2>1. Set(s, r)
      BY <1>4
    <2>2. r \in SessionType
      <3>1. [q EXCEPT !.victim = v] \in SessionType
        BY <1>1, <1>2, FieldTypes DEF Lives
      <3> QED
        BY <3>1, FieldTypes DEF Places
    <2>3. v # None
      BY <1>2, SessionAssumption DEF None
    <2>4. /\ r.main = "zombie" /\ r.ending = q.ending /\ r.life = "alive" /\ r.state = q.state /\ r.peer = q.peer
          /\ r.rest = q.rest /\ r.list = q.list /\ r.target = q.target /\ r.asked = q.asked /\ r.login = q.login /\ r.shell = q.shell
          /\ r.proxy = q.proxy /\ r.shellFlag = q.shellFlag /\ r.lock = q.lock /\ r.pipe = q.pipe /\ r.victim = v
      BY <1>1 DEF Lives, SessionType
    <2> HIDE DEF r
    <2>5. AsksWhereItSets(r)
      BY <1>1, <2>4 DEF Lives, AsksWhereItSets
    <2>7. q.login = "done"
      BY <1>1 DEF Lives, MainTells, LoginTells
    <2>8. LoginTells(r)
      BY <1>1, <2>4, <2>7 DEF Lives, LoginTells
    <2>6. MainTells(r) /\ ClosedForGood(r)
      BY <1>1, <2>3, <2>4 DEF Lives, MainTells, ClosedForGood, PipeMade
    <2> QED
      BY <1>1, <2>1, <2>2, <2>4, <2>5, <2>6, <2>8, GoesOn DEF Holds
  <1> QED
    BY <1>1, <1>3, <1>4, MainGoes

\* A file becomes a zombie's, whatever its process is.
LEMMA ZombieFiles ==
  ASSUME SessionIndInv, NEW s \in Sessions, NEW r, Set(s, r), NEW v \in Sessions, files' = Zombie(v),
         r.life = ses[s].life, r.state = ses[s].state, r.ending = ses[s].ending
  PROVE  /\ files' \subseteq Sessions \X (States \cup {"zombie"})
         /\ \A t \in Sessions : FilesOf(t, ses[t])'
  <1>1. files' = (files \ {<<v, "disconnected">>}) \cup {<<v, "zombie">>}
    BY DEF Zombie
  <1>10. files' \subseteq Sessions \X (States \cup {"zombie"})
    <2>1. files \subseteq Sessions \X (States \cup {"zombie"})
      BY DEF SessionIndInv, SessionTypes
    <2> QED
      BY <1>1, <2>1
  <1>11. ASSUME NEW t \in Sessions
         PROVE  FilesOf(t, ses[t])'
    <2>1. /\ FilesOf(t, ses[t]) /\ ses[t].state \in States
          /\ ses'[t].life = ses[t].life /\ ses'[t].state = ses[t].state /\ ses'[t].ending = ses[t].ending
      <3>1. FilesOf(t, ses[t]) /\ ses[t].state \in States /\ ses \in [Sessions -> SessionType]
        BY SessionFields DEF SessionIndInv, SessionTypes, SessionType
      <3>2. ses'[t] = IF t = s THEN r ELSE ses[t]
        BY <3>1 DEF Set
      <3> QED
        BY <3>1, <3>2
    <2>2. \A st \in States : <<t, st>> \in files' => <<t, st>> \in files
      BY <1>1 DEF States
    <2>3. \A st \in States : <<t, st>> \in files => <<t, st>> \in files' \/ <<t, "zombie">> \in files'
      BY <1>1
    <2>4. <<t, "zombie">> \in files => <<t, "zombie">> \in files'
      BY <1>1
    <2>5. "closed" \in States /\ "shell" \in States
      BY DEF States
    <2> QED
      BY <2>1, <2>2, <2>3, <2>4, <2>5 DEF FilesOf
  <1> QED
    BY <1>10, <1>11

\* Its file is renamed, whatever its process is.
LEMMA MakesZombieStep ==
  ASSUME SessionIndInv, NEW s \in Sessions, scene' = scene, MakesZombie(s)
  PROVE  SessionIndInv'
  <1> DEFINE q == ses[s]
             v == q.victim
             r == [[q EXCEPT !.victim = None] EXCEPT !.main = "end"]
  <1>1. Lives(s) /\ Alive(s) /\ q.main = "zombie" /\ q.life = "alive" /\ files' = Zombie(v)
    BY LivesNow DEF MakesZombie, At, Alive
  <1>2. Set(s, r)
    BY DEF MakesZombie
  <1>3. v \in Sessions
    BY <1>1 DEF Lives, MainTells, SessionType
  <1>4. r \in SessionType
    <2>1. [q EXCEPT !.victim = None] \in SessionType
      BY <1>1, FieldTypes DEF Lives
    <2> QED
      BY <2>1, FieldTypes DEF Places
  <1>5. /\ r.main = "end" /\ r.ending = q.ending /\ r.life = "alive" /\ r.state = q.state /\ r.peer = q.peer
        /\ r.rest = q.rest /\ r.list = q.list /\ r.target = q.target /\ r.asked = q.asked /\ r.login = q.login /\ r.shell = q.shell
        /\ r.proxy = q.proxy /\ r.shellFlag = q.shellFlag /\ r.lock = q.lock /\ r.pipe = q.pipe
    BY <1>1 DEF Lives, SessionType
  <1> HIDE DEF r, v
  <1>11. q.login = "done"
    BY <1>1 DEF Lives, MainTells, LoginTells
  <1>6. AsksWhereItSets(r) /\ LoginTells(r)
    BY <1>1, <1>5, <1>11 DEF Lives, AsksWhereItSets, LoginTells
  <1>7. MainTells(r) /\ ClosedForGood(r)
    BY <1>1, <1>5 DEF Lives, MainTells, ClosedForGood, PipeMade
  <1>8. \A t \in q.rest \cup q.list \cup {q.target} : t # None => t # s /\ ses[t].life # "new"
    BY DEF SessionIndInv, OffersOthers
  <1>9. Follows(s, r)
    BY <1>1, <1>4, <1>5, <1>6, <1>7, <1>8 DEF Follows, Lives, Holds
  <1>10. /\ files' \subseteq Sessions \X (States \cup {"zombie"})
         /\ \A t \in Sessions : FilesOf(t, ses[t])'
    BY <1>1, <1>2, <1>3, <1>5, ZombieFiles
  <1> QED
    BY <1>2, <1>9, <1>10, AllAgree

\* A session whose file says that it waits does, if its process is there.
LEMMA WhoWaits ==
  ASSUME SessionIndInv, NEW t \in Sessions, <<t, "disconnected">> \in files, Alive(t)
  PROVE  ses[t].main \in {"accept", "set pipe", "close", "create again"} /\ ses[t].login = "done"
  <1>1. Lives(t) /\ FilesOf(t, ses[t])
    BY LivesNow, SessionFields
  <1>2. ses[t].state = "disconnected"
    BY <1>1 DEF FilesOf, States, Alive
  <1> QED
    BY <1>1, <1>2 DEF Lives, MainTells, LoginTells, PipeMade

\* What a step of the choice makes of a record: its login goes on among these.
Choosing(q, r) ==
  /\ r \in SessionType /\ r.login \in {"look", "mark", "pick", "start"}
  /\ r.login = "mark" => r.victim # None
  /\ r.main = q.main /\ r.ending = q.ending /\ r.life = q.life /\ r.state = q.state /\ r.peer = q.peer
  /\ r.target = q.target /\ r.asked = q.asked /\ r.shell = q.shell
  /\ r.proxy = q.proxy /\ r.shellFlag = q.shellFlag /\ r.lock = q.lock /\ r.pipe = q.pipe
  /\ q.main = "zombie" => r.victim = q.victim

\* Then the session may be so.
LEMMA ChoosingFollows ==
  ASSUME SessionIndInv, NEW s \in Sessions, Alive(s), ses[s].login \in {"choose", "look", "mark"},
         NEW r, Choosing(ses[s], r),
         \A t \in r.rest \cup r.list : t # s /\ ses[t].life # "new"
  PROVE  Follows(s, r) /\ r.life = "alive"
  <1> DEFINE q == ses[s]
  <1>1. Lives(s)
    BY LivesNow
  <1>2. AsksWhereItSets(r) /\ ClosedForGood(r)
    BY <1>1 DEF Lives, AsksWhereItSets, ClosedForGood, Choosing
  <1>3. LoginTells(r)
    BY <1>1 DEF Lives, LoginTells, Choosing
  <1>4. MainTells(r)
    BY <1>1 DEF Lives, MainTells, LoginTells, Choosing
  <1>5. \A t \in r.rest \cup r.list \cup {r.target} : t # None => t # s /\ ses[t].life # "new"
    BY DEF SessionIndInv, OffersOthers, Choosing
  <1>6. q.main \in {"set disconnected", "close", "create again"} => \A u \in Sessions : Relays(u) => ses[u].target # s
    BY <1>1 DEF SessionIndInv, KnowsItsProxy
  <1>7. r \in SessionType /\ r.life = "alive" /\ q.life = "alive" /\ r.main = q.main /\ r.peer = q.peer /\ r.target = q.target
    BY <1>1 DEF Lives, Choosing
  <1> QED
    BY <1>1, <1>2, <1>3, <1>4, <1>5, <1>6, <1>7 DEF Follows, Lives, Holds, Relays, Alive

\* It stays what it is, but for where the login goes.
LEMMA LookedIs ==
  ASSUME NEW r \in SessionType
  PROVE  /\ Looked(r) \in SessionType /\ Looked(r).login \in {"look", "pick", "start"}
         /\ Looked(r).main = r.main /\ Looked(r).ending = r.ending /\ Looked(r).life = r.life
         /\ Looked(r).state = r.state /\ Looked(r).peer = r.peer /\ Looked(r).target = r.target
         /\ Looked(r).asked = r.asked /\ Looked(r).shell = r.shell /\ Looked(r).proxy = r.proxy
         /\ Looked(r).shellFlag = r.shellFlag /\ Looked(r).lock = r.lock /\ Looked(r).pipe = r.pipe
         /\ Looked(r).victim = r.victim /\ Looked(r).rest = r.rest /\ Looked(r).list = r.list
         /\ Looked(r).ready = r.ready /\ Looked(r).gone = r.gone
         /\ Looked(r).login # "look" => r.rest = {}
         /\ Looked(r).login = "start" => r.list = {}
  <1> DEFINE next == IF r.rest # {} THEN "look" ELSE IF r.list # {} THEN "pick" ELSE "start"
  <1>1. /\ next \in {"look", "pick", "start"} /\ next \in LoginPlaces
        /\ next # "look" => r.rest = {}
        /\ next = "start" => r.list = {}
    BY DEF LoginPlaces
  <1>2. Looked(r) = [r EXCEPT !.login = next]
    BY DEF Looked
  <1> HIDE DEF next
  <1> DEFINE l == Looked(r)
  <1>3. l \in SessionType
    <2>1. \A v \in LoginPlaces : [r EXCEPT !.login = v] \in SessionType
      BY FieldTypes
    <2>2. [r EXCEPT !.login = next] \in SessionType
      BY <1>1, <2>1
    <2> QED
      BY <1>2, <2>2
  <1>4. l.login = next /\ l.main = r.main /\ l.ending = r.ending /\ l.life = r.life /\ l.state = r.state
    BY <1>2 DEF SessionType
  <1>5. l.peer = r.peer /\ l.target = r.target /\ l.asked = r.asked /\ l.shell = r.shell /\ l.proxy = r.proxy
    BY <1>2 DEF SessionType
  <1>6. l.shellFlag = r.shellFlag /\ l.lock = r.lock /\ l.pipe = r.pipe /\ l.victim = r.victim
    BY <1>2 DEF SessionType
  <1>7. l.rest = r.rest /\ l.list = r.list /\ l.ready = r.ready /\ l.gone = r.gone
    BY <1>2 DEF SessionType
  <1> QED
    BY <1>1, <1>3, <1>4, <1>5, <1>6, <1>7

\* Whose file is read is a session that has begun, and another than whoever chooses.
LEMMA WhoIsListed ==
  ASSUME SessionIndInv, NEW s \in Sessions, Alive(s), ses[s].login # "done", NEW t \in Readable
  PROVE  t \in Sessions /\ t # s /\ ses[t].life # "new" /\ t # None
  <1>1. t \in Sessions /\ <<t, "disconnected">> \in files
    BY DEF Readable, Disconnected, SessionIndInv, SessionTypes
  <1>2. FilesOf(t, ses[t]) /\ "disconnected" \in States
    BY <1>1, SessionFields DEF States
  <1> QED
    BY <1>1, <1>2, WhoWaits, SessionAssumption DEF FilesOf, None

\* The files are listed.
LEMMA ListsStep ==
  ASSUME SessionIndInv, NEW s \in Sessions, scene' = scene, Lists(s)
  PROVE  SessionIndInv'
  <1> DEFINE q == ses[s]
             ready == {t \in Sessions : Waiting(t) /\ ses[t].ending = "no" /\ <<t, "zombie">> \notin files}
             gone == {t \in Sessions : ses[t].life \notin {"new", "alive"}}
             o == [[[q EXCEPT !.rest = Readable] EXCEPT !.ready = ready] EXCEPT !.gone = gone]
  <1>1. Lives(s) /\ Alive(s) /\ q.login = "choose" /\ UNCHANGED <<files, service>>
    BY LivesNow DEF Lists, At
  <1>2. Set(s, Looked(o))
    BY DEF Lists
  <1>3. \A t \in Readable : t \in Sessions /\ t # s /\ ses[t].life # "new"
    BY <1>1, WhoIsListed
  <1>4. Readable \in SUBSET Sessions /\ ready \in SUBSET Sessions /\ gone \in SUBSET Sessions
    BY <1>3
  <1> HIDE DEF ready, gone
  <1>5. o \in SessionType
    <2>1. [q EXCEPT !.rest = Readable] \in SessionType
      BY <1>1, <1>4, FieldTypes DEF Lives
    <2>2. [[q EXCEPT !.rest = Readable] EXCEPT !.ready = ready] \in SessionType
      BY <1>4, <2>1, FieldTypes
    <2> QED
      BY <1>4, <2>2, FieldTypes
  <1>6. /\ o.main = q.main /\ o.ending = q.ending /\ o.life = q.life /\ o.state = q.state /\ o.peer = q.peer
        /\ o.rest = Readable /\ o.list = q.list /\ o.target = q.target /\ o.asked = q.asked /\ o.shell = q.shell
        /\ o.proxy = q.proxy /\ o.shellFlag = q.shellFlag /\ o.lock = q.lock /\ o.pipe = q.pipe /\ o.victim = q.victim
    BY <1>1 DEF Lives, SessionType
  <1> HIDE DEF o
  <1>7. PICK r : r = Looked(o)
    OBVIOUS
  <1>8. Choosing(q, r) /\ r.rest = Readable /\ r.list = q.list
    BY <1>5, <1>6, <1>7, LookedIs DEF Choosing
  <1>9. \A t \in r.rest \cup r.list : t # s /\ ses[t].life # "new"
    <2>1. \A t \in q.list : t # s /\ ses[t].life # "new"
      <3>1. q.list \subseteq Sessions
        BY SessionFields
      <3> QED
        BY <3>1, SessionAssumption DEF SessionIndInv, OffersOthers, None
    <2> QED
      BY <1>3, <1>8, <2>1
  <1>10. Follows(s, r) /\ r.life = "alive"
    BY <1>1, <1>8, <1>9, ChoosingFollows
  <1>11. r.state = q.state /\ r.ending = q.ending
    BY <1>8 DEF Choosing
  <1> QED
    BY <1>1, <1>2, <1>7, <1>10, <1>11, FilesStay DEF Alive

\* One of them is looked at.
LEMMA LooksStep ==
  ASSUME SessionIndInv, NEW s \in Sessions, scene' = scene, Looks(s)
  PROVE  SessionIndInv'
  <1> DEFINE q == ses[s]
  <1>1. Lives(s) /\ Alive(s) /\ q.login = "look" /\ UNCHANGED <<files, service>>
    BY LivesNow DEF Looks, At
  <1>2. \A t \in q.rest \cup q.list : t \in Sessions /\ t # s /\ ses[t].life # "new"
    <2>1. q.rest \subseteq Sessions /\ q.list \subseteq Sessions
      BY SessionFields
    <2> QED
      BY <2>1, SessionAssumption DEF SessionIndInv, OffersOthers, None
  <1>3. PICK t \in q.rest :
          \/ Set(s, Looked([[q EXCEPT !.rest = @ \ {t}] EXCEPT !.list = @ \cup {t}]))
          \/ Set(s, Looked([q EXCEPT !.rest = @ \ {t}]))
          \/ \E v \in Found(t) : Set(s, [[q EXCEPT !.rest = @ \ {t}] EXCEPT !.victim = v, !.login = "mark"])
    BY DEF Looks
  <1>4. PICK rest, list : rest = q.rest \ {t} /\ list = q.list \cup {t}
    OBVIOUS
  <1>5. rest \in SUBSET Sessions /\ list \in SUBSET Sessions /\ \A u \in rest \cup list : u # s /\ ses[u].life # "new"
    BY <1>2, <1>4
  <1> DEFINE o == [q EXCEPT !.rest = rest]
             p == [o EXCEPT !.list = list]
  <1>6. o \in SessionType /\ p \in SessionType
    <2>1. o \in SessionType
      BY <1>1, <1>5, FieldTypes DEF Lives
    <2> QED
      BY <1>5, <2>1, FieldTypes
  <1>7. /\ o.main = q.main /\ o.ending = q.ending /\ o.life = q.life /\ o.state = q.state /\ o.peer = q.peer
        /\ o.rest = rest /\ o.list = q.list /\ o.target = q.target /\ o.asked = q.asked /\ o.shell = q.shell
        /\ o.proxy = q.proxy /\ o.shellFlag = q.shellFlag /\ o.lock = q.lock /\ o.pipe = q.pipe /\ o.victim = q.victim
    BY <1>1 DEF Lives, SessionType
  <1>8. /\ p.main = q.main /\ p.ending = q.ending /\ p.life = q.life /\ p.state = q.state /\ p.peer = q.peer
        /\ p.rest = rest /\ p.list = list /\ p.target = q.target /\ p.asked = q.asked /\ p.shell = q.shell
        /\ p.proxy = q.proxy /\ p.shellFlag = q.shellFlag /\ p.lock = q.lock /\ p.pipe = q.pipe /\ p.victim = q.victim
    BY <1>1 DEF Lives, SessionType
  <1>9. ASSUME NEW r, Choosing(q, r), Set(s, r), r.rest = rest, r.list = list \/ r.list = q.list
        PROVE  SessionIndInv'
    <2>1. \A u \in r.rest \cup r.list : u # s /\ ses[u].life # "new"
      BY <1>2, <1>5, <1>9
    <2>2. Follows(s, r) /\ r.life = "alive"
      BY <1>1, <1>9, <2>1, ChoosingFollows
    <2>3. r.state = q.state /\ r.ending = q.ending
      BY <1>9 DEF Choosing
    <2> QED
      BY <1>1, <1>9, <2>2, <2>3, FilesStay DEF Alive
  <1>a. [q EXCEPT !.rest = @ \ {t}] = o /\ [[q EXCEPT !.rest = @ \ {t}] EXCEPT !.list = @ \cup {t}] = p
    BY <1>1, <1>4 DEF Lives, SessionType
  <1> HIDE DEF o, p
  <1>10. CASE Set(s, Looked(p))
    <2>1. PICK r : r = Looked(p)
      OBVIOUS
    <2>2. Choosing(q, r) /\ r.rest = rest /\ r.list = list
      BY <1>6, <1>8, <2>1, LookedIs DEF Choosing
    <2> QED
      BY <1>9, <1>10, <2>1, <2>2
  <1>11. CASE Set(s, Looked(o))
    <2>1. PICK r : r = Looked(o)
      OBVIOUS
    <2>2. Choosing(q, r) /\ r.rest = rest /\ r.list = q.list
      BY <1>6, <1>7, <2>1, LookedIs DEF Choosing
    <2> QED
      BY <1>9, <1>11, <2>1, <2>2
  <1>12. CASE \E v \in Found(t) : Set(s, [o EXCEPT !.victim = v, !.login = "mark"])
    <2>1. PICK v \in Found(t) : Set(s, [o EXCEPT !.victim = v, !.login = "mark"])
      BY <1>12
    <2>2. v \in Sessions /\ v # None
      BY <1>1, WhoIsListed DEF Found
    <2> DEFINE r == [[o EXCEPT !.victim = v] EXCEPT !.login = "mark"]
    <2>3. r \in SessionType
      <3>1. [o EXCEPT !.victim = v] \in SessionType
        BY <1>6, <2>2, FieldTypes
      <3> QED
        BY <3>1, FieldTypes DEF LoginPlaces
    <2>4. /\ r.main = q.main /\ r.ending = q.ending /\ r.life = q.life /\ r.state = q.state /\ r.peer = q.peer
          /\ r.rest = rest /\ r.list = q.list /\ r.target = q.target /\ r.asked = q.asked /\ r.shell = q.shell
          /\ r.proxy = q.proxy /\ r.shellFlag = q.shellFlag /\ r.lock = q.lock /\ r.pipe = q.pipe
          /\ r.victim = v /\ r.login = "mark"
      BY <1>6, <1>7 DEF SessionType
    <2>5. Set(s, r)
      BY <2>1
    <2>6. q.main # "zombie"
      BY <1>1 DEF Lives, MainTells, LoginTells
    <2> HIDE DEF r
    <2>7. Choosing(q, r)
      BY <2>2, <2>3, <2>4, <2>6 DEF Choosing
    <2> QED
      BY <1>9, <2>4, <2>5, <2>7
  <1> QED
    BY <1>3, <1>a, <1>10, <1>11, <1>12

\* The file that was found for it is renamed.
LEMMA MarksStep ==
  ASSUME SessionIndInv, NEW s \in Sessions, scene' = scene, Marks(s)
  PROVE  SessionIndInv'
  <1> DEFINE q == ses[s]
             v == q.victim
             o == [q EXCEPT !.victim = None]
  <1>1. Lives(s) /\ Alive(s) /\ q.login = "mark" /\ q.life = "alive" /\ files' = Zombie(v)
    BY LivesNow DEF Marks, At, Alive
  <1>2. Set(s, Looked(o))
    BY DEF Marks
  <1>3. v \in Sessions
    BY <1>1 DEF Lives, LoginTells, SessionType
  <1>4. o \in SessionType
    BY <1>1, FieldTypes DEF Lives
  <1>5. /\ o.main = q.main /\ o.ending = q.ending /\ o.life = q.life /\ o.state = q.state /\ o.peer = q.peer
        /\ o.rest = q.rest /\ o.list = q.list /\ o.target = q.target /\ o.asked = q.asked /\ o.shell = q.shell
        /\ o.proxy = q.proxy /\ o.shellFlag = q.shellFlag /\ o.lock = q.lock /\ o.pipe = q.pipe
    BY <1>1 DEF Lives, SessionType
  <1>6. q.main # "zombie"
    BY <1>1 DEF Lives, MainTells, LoginTells
  <1> HIDE DEF o, v
  <1>7. PICK r : r = Looked(o)
    OBVIOUS
  <1>8. Choosing(q, r) /\ r.rest = q.rest /\ r.list = q.list
    BY <1>4, <1>5, <1>6, <1>7, LookedIs DEF Choosing
  <1>9. \A t \in r.rest \cup r.list : t # s /\ ses[t].life # "new"
    <2>1. q.rest \subseteq Sessions /\ q.list \subseteq Sessions
      BY SessionFields
    <2> QED
      BY <1>8, <2>1, SessionAssumption DEF SessionIndInv, OffersOthers, None
  <1>10. Follows(s, r) /\ r.life = "alive"
    BY <1>1, <1>8, <1>9, ChoosingFollows
  <1>11. r.state = q.state /\ r.ending = q.ending /\ Set(s, r)
    BY <1>2, <1>7, <1>8 DEF Choosing
  <1>12. /\ files' \subseteq Sessions \X (States \cup {"zombie"})
         /\ \A t \in Sessions : FilesOf(t, ses[t])'
    BY <1>1, <1>3, <1>10, <1>11, ZombieFiles
  <1> QED
    BY <1>10, <1>11, <1>12, AllAgree

-----------------------------------------------------------------------------
(* All of it.                                                              *)

\* The sessions of a scene begin as the invariant has them.
LEMMA SessionStart ==
  Init => SessionIndInv
  <1> SUFFICES ASSUME Init
               PROVE  SessionIndInv
    OBVIOUS
  <1>1. scene \in Scenes /\ scene.waiting \subseteq Sessions
    BY SessionAssumption DEF Init
  <1>2. Fresh \in SessionType /\ Waiter \in SessionType
    BY DEF Fresh, Waiter, SessionType, Places, LoginPlaces, States
  <1>3. Holds(Fresh)
    BY DEF Holds, NoThreads, Fresh
  <1>4. /\ Waiter.life = "alive" /\ Waiter.main = "accept" /\ Waiter.login = "done" /\ Waiter.state = "disconnected"
        /\ Waiter.shellFlag /\ Waiter.shell = "job" /\ Waiter.pipe /\ Waiter.asked = {} /\ Waiter.proxy = FALSE
        /\ Waiter.ending = "no" /\ Waiter.lock = "free" /\ Waiter.rest = {} /\ Waiter.list = {} /\ Waiter.target = None /\ Waiter.peer = None
    BY DEF Waiter, Fresh
  <1>5. /\ Fresh.life = "new" /\ Fresh.rest = {} /\ Fresh.list = {} /\ Fresh.target = None /\ Fresh.main = "init" /\ Fresh.ending = "no"
    BY DEF Fresh
  <1>6. Holds(Waiter)
    BY <1>4 DEF Holds, AsksWhereItSets, LoginTells, MainTells, ClosedForGood, PipeMade
  <1>7. \A s \in Sessions : ses[s] = IF s \in scene.waiting THEN Waiter ELSE Fresh
    BY DEF Init
  <1>8. \A s \in Sessions : /\ Holds(ses[s]) /\ ~Relays(s) /\ ses[s].rest = {} /\ ses[s].list = {} /\ ses[s].target = None
    BY <1>3, <1>4, <1>5, <1>6, <1>7 DEF Relays
  <1>9. SessionTypes
    <2>1. ses \in [Sessions -> SessionType]
      BY <1>2 DEF Init
    <2>2. files \subseteq Sessions \X (States \cup {"zombie"})
      BY <1>1 DEF Init, States
    <2> QED
      BY <1>1, <2>1, <2>2 DEF SessionTypes
  <1>10. ASSUME NEW s \in Sessions
         PROVE  FilesOf(s, ses[s])
    <2>1. \A st : <<s, st>> \in files <=> s \in scene.waiting /\ st = "disconnected"
      BY DEF Init
    <2>2. CASE s \in scene.waiting
      <3>1. ses[s].life = "alive" /\ ses[s].state = "disconnected" /\ ses[s].ending = "no"
        BY <1>4, <1>7, <2>2
      <3>2. \A st : <<s, st>> \in files <=> st = "disconnected"
        BY <2>1, <2>2
      <3> QED
        BY <3>1, <3>2 DEF FilesOf
    <2>3. CASE s \notin scene.waiting
      BY <1>5, <1>7, <2>1, <2>3 DEF FilesOf
    <2> QED
      BY <2>2, <2>3
  <1> QED
    BY <1>8, <1>9, <1>10 DEF SessionIndInv, OffersOthers, KnowsItsProxy, OneProxyEach

\* Every step leaves it so.
LEMMA SessionStep ==
  SessionIndInv /\ [Next]_vars => SessionIndInv'
  <1> SUFFICES ASSUME SessionIndInv, [Next]_vars
               PROVE  SessionIndInv'
    OBVIOUS
  <1>1. CASE UNCHANGED vars
    BY <1>1 DEF vars, SessionIndInv, SessionTypes, FilesOf, OffersOthers, KnowsItsProxy, OneProxyEach, Relays, Alive
  <1>2. CASE ServiceStops /\ scene' = scene
    BY <1>2 DEF ServiceStops, SessionIndInv, SessionTypes, FilesOf, OffersOthers, KnowsItsProxy, OneProxyEach, Relays, Alive
  <1>3. ASSUME NEW s \in Sessions, scene' = scene,
               Connects(s) \/ Main(s) \/ Login(s) \/ Ending(s) \/ User(s) \/ Fault(s)
        PROVE  SessionIndInv'
    <2>1. CASE Connects(s)
      BY <1>3, <2>1, ConnectsStep
    <2>2. CASE Main(s)
      <3>1. CASE AsksClosed(s, "main") \/ SetsState(s, "main")
        BY <1>3, <3>1, AsksClosedStep, SetsStateStep
      <3>2. CASE MainReturns(s)
        BY <1>3, <3>2, ProcessEnds
      <3>3. CASE MainEnds(s) \/ SftpEnds(s) \/ LeavesSocketLoop(s) \/ PortForwardEnds(s) \/ RelayEnds(s)
        BY <1>3, <3>3, LoopSteps
      <3>4. CASE CreatesPipe(s) \/ AcceptsPipe(s)
        BY <1>3, <3>4, PipeBegins
      <3>5. CASE PipeBreaks(s)
        BY <1>3, <3>5, PipeBreaksStep
      <3>6. CASE ClosesPipe(s) \/ CreatesPipeAgain(s)
        BY <1>3, <3>6, PipeAgain
      <3>7. CASE ConnectsPipe(s)
        BY <1>3, <3>7, ConnectsPipeStep
      <3>8. CASE FindsZombie(s)
        BY <1>3, <3>8, FindsZombieStep
      <3>9. CASE MakesZombie(s)
        BY <1>3, <3>9, MakesZombieStep
      <3> QED
        BY <2>2, <3>1, <3>2, <3>3, <3>4, <3>5, <3>6, <3>7, <3>8, <3>9 DEF Main
    <2>3. CASE Login(s)
      <3>1. CASE AsksClosed(s, "login") \/ SetsState(s, "login")
        BY <1>3, <3>1, AsksClosedStep, SetsStateStep
      <3>2. CASE Access(s)
        BY <1>3, <3>2, AccessStep
      <3>3. CASE Lists(s) \/ Looks(s) \/ Marks(s)
        BY <1>3, <3>3, ListsStep, LooksStep, MarksStep
      <3>4. CASE StartShell(s) \/ CreateJob(s)
        BY <1>3, <3>4, ShellSteps
      <3> QED
        BY <2>3, <3>1, <3>2, <3>3, <3>4 DEF Login
    <2>4. CASE Ending(s)
      BY <1>3, <2>4, MonitorSteps, ShutDownStep, ClientOrShellGoes, ProcessEnds DEF Ending, ShuttingDown
    <2>5. CASE User(s)
      BY <1>3, <2>5, LogonSteps, PicksStep, ClientOrShellGoes DEF User
    <2>6. CASE Fault(s)
      BY <1>3, <2>6, ProcessEnds, LogonSteps, ShellSteps, LoopSteps, MonitorSteps, ClientOrShellGoes, GivesUpStep
         DEF Fault
    <2> QED
      BY <1>3, <2>1, <2>2, <2>3, <2>4, <2>5, <2>6
  <1>4. scene.come \subseteq Sessions /\ scene.faulty \subseteq Sessions
    BY SessionAssumption DEF SessionIndInv, SessionTypes
  <1> QED
    BY <1>1, <1>2, <1>3, <1>4 DEF Next

\* A session, and the sessions with each other, are as the code has them,
\* whatever they do and however they end (KSession.hxx, KSessionState.hxx).
THEOREM SessionInvariant ==
  Spec => []SessionIndInv
  <1>1. Init => SessionIndInv
    BY SessionStart
  <1>2. SessionIndInv /\ [Next]_vars => SessionIndInv'
    BY SessionStep
  <1> QED
    BY <1>1, <1>2, PTL DEF Spec

\* From that follows what the directory, the pipes and the shells tell.
LEMMA SessionTruth ==
  SessionIndInv => SessionInv
  <1> SUFFICES ASSUME SessionIndInv
               PROVE  SessionInv
    OBVIOUS
  <1>1. TypeOK
    <2> SUFFICES ASSUME NEW s \in Sessions
                 PROVE  LET r == ses[s]
                        IN  /\ r.main \in Places /\ r.monitor \in {"watch", "ends", "done", "parked"}
                            /\ r.login \in LoginPlaces
                            /\ r.ending \in {"no", "raised", "closed"} /\ r.lock \in {"free", "shell", "shutdown"}
                            /\ (r.lock = "shell" => r.login \in {"set shell", "job"})
                            /\ (r.main \in {"set proxy", "connect", "relay"} => r.proxy /\ r.target # s /\ r.list = {})
                            /\ (Alive(s) /\ r.main \in {"accept", "set pipe", "loop"} => r.pipe)
      BY DEF TypeOK
    <2> DEFINE r == ses[s]
    <2>1. /\ r \in SessionType /\ Holds(r)
      BY SessionFields
    <2>2. /\ r.main \in Places /\ r.monitor \in {"watch", "ends", "done", "parked"} /\ r.login \in LoginPlaces
          /\ r.ending \in {"no", "raised", "closed"} /\ r.lock \in {"free", "shell", "shutdown"}
      BY <2>1 DEF SessionType
    <2>3. r.target # None => r.target # s
      BY DEF SessionIndInv, OffersOthers
    <2>4. CASE r.life = "alive"
      <3>1. LoginTells(r) /\ MainTells(r)
        BY <2>1, <2>4 DEF Holds
      <3> QED
        BY <2>2, <2>3, <3>1 DEF LoginTells, MainTells, PipeMade
    <2>5. CASE r.life # "alive"
      <3>1. r.main = "init" /\ r.lock = "free"
        BY <2>1, <2>5 DEF Holds, NoThreads
      <3> QED
        BY <2>2, <2>5, <3>1 DEF Alive
    <2> QED
      BY <2>4, <2>5
  <1>2. FilesTellState
    <2> SUFFICES ASSUME NEW s \in Sessions, Alive(s)
                 PROVE  LET told == {f[2] : f \in {g \in files : g[1] = s}}
                        IN  told \subseteq {ses[s].state, "zombie"} /\ (ses[s].state # "closed" => told # {})
      BY DEF FilesTellState
    <2>1. FilesOf(s, ses[s]) /\ ses[s].life = "alive" /\ files \subseteq Sessions \X (States \cup {"zombie"})
      BY SessionFields DEF SessionIndInv, SessionTypes, Alive
    <2>2. \A g \in files : g[1] = s => g[2] \in {ses[s].state, "zombie"}
      <3> SUFFICES ASSUME NEW g \in files, g[1] = s
                   PROVE  g[2] \in {ses[s].state, "zombie"}
        OBVIOUS
      <3>1. g = <<s, g[2]>> /\ g[2] \in States \cup {"zombie"}
        BY <2>1
      <3> QED
        BY <2>1, <3>1 DEF FilesOf
    <2>3. ses[s].state # "closed" => \E g \in files : g[1] = s
      BY <2>1 DEF FilesOf
    <2> QED
      BY <2>2, <2>3
  <1>3. Advertised
    BY WhoWaits DEF Advertised
  <1>4. OneProxyEach
    BY DEF SessionIndInv
  <1>5. ProxyHasNoShell
    <2> SUFFICES ASSUME NEW s \in Sessions, ses[s].proxy
                 PROVE  ses[s].shell = "none" /\ ses[s].login # "start"
      BY DEF ProxyHasNoShell
    <2>1. Holds(ses[s])
      BY SessionFields
    <2>2. LoginTells(ses[s])
      BY <2>1 DEF Holds, NoThreads
    <2> QED
      BY <2>2 DEF LoginTells
  <1>6. ShutDownIsClean
    <2> SUFFICES ASSUME NEW s \in Sessions, ses[s].life = "shut down"
                 PROVE  ses[s].shell \in {"none", "dead"} /\ <<s, "shell">> \notin files
      BY DEF ShutDownIsClean
    <2>1. Holds(ses[s]) /\ FilesOf(s, ses[s])
      BY SessionFields
    <2> QED
      BY <2>1 DEF Holds, NoThreads, FilesOf
  <1> QED
    BY <1>1, <1>2, <1>3, <1>4, <1>5, <1>6 DEF SessionInv

\* The files tell the state of whoever runs, nobody is sent to a session that
\* talks to its user, a shell has one proxy, a proxy no shell, and what is shut
\* down leaves neither a shell nor a file of one (TerminateSession, KPipe).
THEOREM SessionsAgree ==
  Spec => []SessionInv
  BY SessionInvariant, SessionTruth, PTL

-----------------------------------------------------------------------------
(* What ChooseDisconnectedSession offers.                                  *)

\* Of a process that is there, or is to come, it is known that it was before.
Ages(q, r) ==
  /\ q.life # "new" => r.life # "new"
  /\ r.life \in {"new", "alive"} => q.life \in {"new", "alive"}

\* A step that has nothing to do with the choice, or comes before or after it.
SameChoice(q, r) ==
  r.life = q.life /\ r.login = q.login /\ r.rest = q.rest /\ r.list = q.list /\ r.ready = q.ready /\ r.gone = q.gone
NoChoice(q, r) ==
  /\ r.login \notin {"look", "mark", "pick"}
  /\ r.login = "start" => q.login = "pick"
  /\ r.list = {} \/ (q.login \notin {"look", "mark", "pick"} /\ r.list = q.list)
  /\ r.gone \subseteq q.gone
Stands(q, r) == SameChoice(q, r) \/ (Ages(q, r) /\ NoChoice(q, r))

\* One session's step, seen by all of them.
LEMMA OneStands ==
  ASSUME SessionIndInv, NEW u \in Sessions, NEW r, Set(u, r), Stands(ses[u], r)
  PROVE  \A s \in Sessions : Stands(ses[s], ses'[s])
  <1>1. ses \in [Sessions -> SessionType] /\ ses' = [ses EXCEPT ![u] = r]
    BY DEF SessionIndInv, SessionTypes, Set
  <1>2. \A q : SameChoice(q, q)
    BY DEF SameChoice
  <1> QED
    BY <1>1, <1>2 DEF Stands

\* Other fields have no part in it.
LEMMA OtherFields ==
  ASSUME NEW q \in SessionType
  PROVE  /\ \A v : SameChoice(q, [q EXCEPT !.main = v])
         /\ \A v : SameChoice(q, [q EXCEPT !.monitor = v])
         /\ \A v : SameChoice(q, [q EXCEPT !.asked = v])
         /\ \A v : SameChoice(q, [q EXCEPT !.client = v])
         /\ \A v : SameChoice(q, [q EXCEPT !.shell = v])
         /\ \A v : SameChoice(q, [q EXCEPT !.peer = v])
         /\ \A v, w : SameChoice(q, [[q EXCEPT !.ending = v] EXCEPT !.main = w])
         /\ \A v, w : SameChoice(q, [[q EXCEPT !.ending = v] EXCEPT !.monitor = w])
         /\ \A v, w : SameChoice(q, [[q EXCEPT !.victim = v] EXCEPT !.main = w])
         /\ \A v, w : SameChoice(q, [[q EXCEPT !.pipe = v] EXCEPT !.main = w])
  BY DEF SameChoice, SessionType

\* A thread that goes to another place.
LEMMA GoesStands ==
  ASSUME SessionIndInv, NEW u \in Sessions, NEW thread \in {"main", "monitor"}, NEW to,
         \/ Goes(u, thread, to)
         \/ TerminateSession(u, thread, to)
  PROVE  \A s \in Sessions : Stands(ses[s], ses'[s])
  <1> DEFINE q == ses[u]
  <1>1. q \in SessionType
    BY SessionFields
  <1>2. \/ Set(u, [q EXCEPT !.main = to]) \/ Set(u, [q EXCEPT !.monitor = to])
        \/ Set(u, [[q EXCEPT !.ending = "raised"] EXCEPT !.main = "parked"])
        \/ Set(u, [[q EXCEPT !.ending = "raised"] EXCEPT !.monitor = "parked"])
    BY DEF Goes, TerminateSession
  <1>3. /\ Stands(q, [q EXCEPT !.main = to]) /\ Stands(q, [q EXCEPT !.monitor = to])
        /\ Stands(q, [[q EXCEPT !.ending = "raised"] EXCEPT !.main = "parked"])
        /\ Stands(q, [[q EXCEPT !.ending = "raised"] EXCEPT !.monitor = "parked"])
    BY <1>1, OtherFields DEF Stands
  <1> QED
    BY <1>2, <1>3, OneStands

\* The login before and after the choice.
LEMMA LoginStands ==
  ASSUME SessionIndInv, NEW u \in Sessions, NEW to \in {"set logged", "auth", "access", "choose", "parked", "job"},
         ses[u].login \in {"none", "auth", "set logged", "access", "set shell"}, ChoiceTells,
         \/ Goes(u, "login", to)
         \/ TerminateSession(u, "login", to)
  PROVE  \A s \in Sessions : Stands(ses[s], ses'[s])
  <1> DEFINE q == ses[u]
  <1>1. q \in SessionType
    BY SessionFields
  <1>2. \/ Set(u, [q EXCEPT !.login = to]) \/ Set(u, [[q EXCEPT !.ending = "raised"] EXCEPT !.login = "parked"])
    BY DEF Goes, TerminateSession
  <1>3. Stands(q, [q EXCEPT !.login = to]) /\ Stands(q, [[q EXCEPT !.ending = "raised"] EXCEPT !.login = "parked"])
    BY <1>1 DEF Stands, Ages, NoChoice, SessionType
  <1> QED
    BY <1>2, <1>3, OneStands

\* Nothing is left of it with the process.
LEMMA DeadStands ==
  ASSUME SessionIndInv, NEW u \in Sessions, NEW p, NEW how \in {"shut down", "given up", "returned"},
         NEW jobEnded, Set(u, Dead(p, how, jobEnded))
  PROVE  \A s \in Sessions : Stands(ses[s], ses'[s])
  <1>1. PICK r : r = Dead(p, how, jobEnded)
    OBVIOUS
  <1>2. r.login = "none" /\ r.list = {} /\ r.gone = {} /\ r.life = how
    BY <1>1 DEF Dead, Fresh
  <1>3. Stands(ses[u], r)
    BY <1>2 DEF Stands, Ages, NoChoice
  <1> QED
    BY <1>1, <1>3, OneStands

\* The steps of the main thread.
LEMMA MainStands ==
  ASSUME SessionIndInv, NEW u \in Sessions, Main(u)
  PROVE  \A s \in Sessions : Stands(ses[s], ses'[s])
  <1> DEFINE q == ses[u]
  <1>1. q \in SessionType /\ ses \in [Sessions -> SessionType]
    BY SessionFields DEF SessionIndInv, SessionTypes
  <1>2. CASE AsksClosed(u, "main")
    <2>1. Stands(q, [q EXCEPT !.asked = @ \cup {"main"}])
      BY <1>1, OtherFields DEF Stands
    <2> QED
      BY <1>2, <2>1, GoesStands, OneStands DEF AsksClosed
  <1>3. CASE SetsState(u, "main")
    <2>1. PICK left, state, next : Set(u, [[[q EXCEPT !.asked = left] EXCEPT !.state = state] EXCEPT !.main = next])
      BY <1>3 DEF SetsState
    <2>2. Stands(q, [[[q EXCEPT !.asked = left] EXCEPT !.state = state] EXCEPT !.main = next])
      BY <1>1 DEF Stands, SameChoice, SessionType
    <2> QED
      BY <2>1, <2>2, OneStands
  <1>4. CASE MainEnds(u) \/ SftpEnds(u) \/ LeavesSocketLoop(u) \/ PortForwardEnds(u)
             \/ AcceptsPipe(u) \/ PipeBreaks(u) \/ RelayEnds(u)
    BY <1>4, GoesStands
       DEF MainEnds, SftpEnds, LeavesSocketLoop, PortForwardEnds, AcceptsPipe, PipeBreaks, RelayEnds
  <1>5. CASE MainReturns(u)
    BY <1>5, DeadStands DEF MainReturns
  <1>6. CASE CreatesPipe(u) \/ ClosesPipe(u) \/ CreatesPipeAgain(u)
    <2>1. Stands(q, [q EXCEPT !.client = FALSE, !.pipe = TRUE, !.peer = None, !.main = "first set disconnected"])
      BY <1>1 DEF Stands, SameChoice, SessionType
    <2>2. /\ Stands(q, [q EXCEPT !.pipe = FALSE, !.main = "create again"])
          /\ Stands(q, [q EXCEPT !.pipe = TRUE, !.peer = None, !.main = "accept"])
      BY <1>1 DEF Stands, SameChoice, SessionType
    <2> QED
      BY <1>6, <2>1, <2>2, OneStands DEF CreatesPipe, ClosesPipe, CreatesPipeAgain
  <1>7. CASE ConnectsPipe(u)
    <2>1. PICK mid : mid = [ses EXCEPT ![u].main = "relay"]
      OBVIOUS
    <2>2. \A s \in Sessions : mid[s] \in SessionType /\ SameChoice(ses[s], mid[s])
      <3>1. \A s \in Sessions : mid[s] = IF s = u THEN [ses[s] EXCEPT !.main = "relay"] ELSE ses[s]
        BY <1>1, <2>1
      <3>2. \A s \in Sessions : SameChoice(ses[s], [ses[s] EXCEPT !.main = "relay"]) /\ SameChoice(ses[s], ses[s])
        BY <1>1, OtherFields DEF SameChoice
      <3>3. \A s \in Sessions : [ses[s] EXCEPT !.main = "relay"] \in SessionType
        BY <1>1, FieldTypes DEF Places
      <3> QED
        BY <1>1, <3>1, <3>2, <3>3
    <2>3. mid \in [Sessions -> SessionType]
      BY <1>1, <2>1, <2>2
    <2>4. ses' = [mid EXCEPT ![q.target].peer = u]
      BY <1>7, <2>1 DEF ConnectsPipe
    <2>5. \A s \in Sessions : SameChoice(mid[s], ses'[s])
      <3>1. \A s \in Sessions : ses'[s] = IF s = q.target THEN [mid[s] EXCEPT !.peer = u] ELSE mid[s]
        BY <2>3, <2>4
      <3>2. \A s \in Sessions : SameChoice(mid[s], [mid[s] EXCEPT !.peer = u]) /\ SameChoice(mid[s], mid[s])
        BY <2>2, OtherFields DEF SameChoice
      <3> QED
        BY <3>1, <3>2
    <2> QED
      BY <2>2, <2>5 DEF Stands, SameChoice
  <1>8. CASE FindsZombie(u) \/ MakesZombie(u)
    <2>1. /\ \A v : Stands(q, [q EXCEPT !.victim = v, !.main = "zombie"])
          /\ Stands(q, [q EXCEPT !.victim = None, !.main = "end"])
      BY <1>1, OtherFields DEF Stands
    <2> QED
      BY <1>8, <2>1, GoesStands, OneStands DEF FindsZombie, MakesZombie
  <1> QED
    BY <1>2, <1>3, <1>4, <1>5, <1>6, <1>7, <1>8 DEF Main

\* All steps but those of the choice.
LEMMA OthersStand ==
  ASSUME SessionIndInv, ChoiceTells, NEW u \in Sessions,
         Connects(u) \/ Main(u) \/ Login(u) \/ Ending(u) \/ User(u) \/ Fault(u),
         ~Lists(u), ~Looks(u), ~Marks(u)
  PROVE  \A s \in Sessions : Stands(ses[s], ses'[s])
  <1> DEFINE q == ses[u]
  <1>1. q \in SessionType /\ ses \in [Sessions -> SessionType] /\ Holds(q)
    BY SessionFields DEF SessionIndInv, SessionTypes
  <1>2. q.login \notin {"look", "mark", "pick"} => q.list = {}
    BY DEF ChoiceTells
  <1>3. CASE Connects(u)
    <2>1. q = Fresh
      BY <1>1, <1>3 DEF Connects, Holds, NoThreads
    <2> DEFINE r == [q EXCEPT !.life = "alive", !.client = TRUE]
    <2>2. \/ Set(u, [[r EXCEPT !.main = "socket"] EXCEPT !.login = "auth"])
          \/ Set(u, [r EXCEPT !.main = "auth"])
      BY <1>3 DEF Connects
    <2>3. /\ r.life = "alive" /\ r.login = "none" /\ r.list = {} /\ r.gone = {}
          /\ q.life = "new" /\ q.login = "none"
      BY <2>1 DEF Fresh
    <2>4. r \in SessionType
      BY <1>1 DEF SessionType
    <2> HIDE DEF r
    <2>5. /\ Stands(q, [[r EXCEPT !.main = "socket"] EXCEPT !.login = "auth"])
          /\ Stands(q, [r EXCEPT !.main = "auth"])
      BY <2>3, <2>4 DEF Stands, Ages, NoChoice, SessionType
    <2> QED
      BY <2>2, <2>5, OneStands
  <1>4. CASE Main(u)
    BY <1>4, MainStands
  <1>5. CASE Login(u)
    <2>1. CASE AsksClosed(u, "login") \/ SetsState(u, "login")
      <3>1. Lives(u) /\ q.login \in LoginPlaces
        BY <1>1, <2>1, LivesNow DEF AsksClosed, SetsState, SessionType
      <3>2. SetPoint(q.login)[1] # None
        BY <2>1, <3>1 DEF AsksClosed, SetsState, Lives, AsksWhereItSets, SetPoint, None
      <3> DEFINE state == SetPoint(q.login)[1]
                 next == SetPoint(q.login)[2]
                 left == q.asked \ {"login"}
      <3>3. q.login \in {"set logged", "set shell"} /\ next \in {"access", "job"}
        BY <3>1, <3>2, LoginSets
      <3>4. \/ Goes(u, "login", next)
            \/ Set(u, [q EXCEPT !.asked = @ \cup {"login"}])
            \/ Set(u, [[[q EXCEPT !.asked = left] EXCEPT !.state = state] EXCEPT !.login = next])
        BY <2>1 DEF AsksClosed, SetsState
      <3> HIDE DEF state, next, left
      <3>5. Stands(q, [q EXCEPT !.asked = @ \cup {"login"}])
        BY <1>1, OtherFields DEF Stands
      <3>6. Stands(q, [[[q EXCEPT !.asked = left] EXCEPT !.state = state] EXCEPT !.login = next])
        BY <1>1, <3>3 DEF Stands, Ages, NoChoice, SessionType
      <3> QED
        BY <3>3, <3>4, <3>5, <3>6, OneStands, LoginStands
    <2>2. CASE Access(u)
      <3>1. PICK r \in Granted(u) : Set(u, r)
        BY <2>2 DEF Access
      <3>2. /\ q.login \in {"none", "access"}
        <4>1. Lives(u)
          BY <2>2, LivesNow DEF Access, At
        <4> QED
          BY <2>2, <4>1 DEF Access, At, Thread, Lives, MainTells
      <3>3. r = [q EXCEPT !.login = "choose"] \/ r = [q EXCEPT !.main = "socket", !.login = "choose"]
              \/ r = [q EXCEPT !.main = "set sftp"]
        BY <3>1 DEF Granted
      <3>4. Stands(q, [q EXCEPT !.main = "set sftp"])
        BY <1>1, OtherFields DEF Stands
      <3>5. Stands(q, [q EXCEPT !.login = "choose"])
        BY <1>1, <3>2 DEF Stands, Ages, NoChoice, SessionType
      <3>6. Stands(q, [q EXCEPT !.main = "socket", !.login = "choose"])
        BY <1>1, <3>2 DEF Stands, Ages, NoChoice, SessionType
      <3> QED
        BY <3>1, <3>3, <3>4, <3>5, <3>6, OneStands
    <2>3. CASE StartShell(u)
      <3>1. Stands(q, [q EXCEPT !.lock = "shell", !.shell = "loose", !.login = "set shell"])
        BY <1>1, <1>2, <2>3 DEF StartShell, At, Stands, Ages, NoChoice, SessionType
      <3> QED
        BY <2>3, <3>1, OneStands DEF StartShell
    <2>4. CASE CreateJob(u)
      <3> DEFINE shell == IF q.shell = "loose" THEN "job" ELSE q.shell
                 r == [[[[q EXCEPT !.lock = "free"] EXCEPT !.shellFlag = TRUE] EXCEPT !.login = "done"] EXCEPT !.shell = shell]
      <3>1. Set(u, r) /\ q.login = "job"
        BY <2>4 DEF CreateJob, At
      <3> HIDE DEF shell
      <3>2. Stands(q, r)
        BY <1>1, <1>2, <3>1 DEF Stands, Ages, NoChoice, SessionType
      <3> HIDE DEF r
      <3> QED
        BY <3>1, <3>2, OneStands
    <2> QED
      BY <1>5, <2>1, <2>2, <2>3, <2>4 DEF Login
  <1>6. CASE Ending(u)
    <2>1. /\ Stands(q, [q EXCEPT !.client = FALSE])
          /\ Stands(q, [q EXCEPT !.ending = "closed", !.lock = "shutdown", !.state = "closed"])
      BY <1>1 DEF Stands, SameChoice, SessionType
    <2>2. CASE Monitor(u)
      BY <2>2, GoesStands DEF Monitor, MonitorSees, MonitorEnds
    <2>3. CASE ShuttingDown(u)
      BY <2>1, <2>3, DeadStands, OneStands DEF ShuttingDown, ShutDown, ShutDownCloses, ShutDownExits
    <2> QED
      BY <1>6, <2>2, <2>3 DEF Ending
  <1>7. CASE User(u)
    <2>1. CASE ClientLeaves(u)
      <3>1. Stands(q, [q EXCEPT !.client = FALSE])
        BY <1>1, OtherFields DEF Stands
      <3> QED
        BY <2>1, <3>1, OneStands DEF ClientLeaves
    <2>2. CASE LogsOn(u)
      BY <2>2, GoesStands, LoginStands DEF LogsOn, Thread, At
    <2>3. CASE Picks(u)
      <3>1. PICK t : Set(u, [q EXCEPT !.list = {}, !.ready = {}, !.gone = {}, !.target = t, !.proxy = t # None,
                                      !.login = IF t = None THEN "start" ELSE "done"])
        BY <2>3 DEF Picks
      <3>2. PICK proxy, login : login \in {"start", "done"}
                /\ Set(u, [q EXCEPT !.list = {}, !.ready = {}, !.gone = {}, !.target = t, !.proxy = proxy, !.login = login])
        BY <3>1
      <3> DEFINE r == [q EXCEPT !.list = {}, !.ready = {}, !.gone = {}, !.target = t, !.proxy = proxy, !.login = login]
      <3>3. r.login = login /\ r.list = {} /\ r.gone = {} /\ r.life = q.life
        BY <1>1 DEF SessionType
      <3>4. q.login = "pick"
        BY <2>3 DEF Picks, At
      <3> HIDE DEF r
      <3>5. Stands(q, r)
        BY <3>2, <3>3, <3>4 DEF Stands, Ages, NoChoice
      <3>6. Set(u, r)
        BY <3>2 DEF r
      <3> QED
        BY <3>5, <3>6, OneStands
    <2> QED
      BY <1>7, <2>1, <2>2, <2>3 DEF User
  <1>8. CASE Fault(u)
    <2>1. CASE ConnectFails(u) \/ GivesUp(u)
      BY <2>1, DeadStands DEF ConnectFails, GivesUp
    <2>2. CASE LogonFails(u) \/ AccessDenied(u)
      BY <2>2, GoesStands, LoginStands DEF LogonFails, AccessDenied, Thread, At
    <2>3. CASE StartShellFails(u)
      <3>1. Stands(q, [q EXCEPT !.login = "done", !.shellFlag = TRUE])
        BY <1>1, <1>2, <2>3 DEF StartShellFails, At, Stands, Ages, NoChoice, SessionType
      <3> QED
        BY <2>3, <3>1, OneStands DEF StartShellFails
    <2>4. CASE PortForwardBegins(u) \/ PortForwardDenied(u) \/ TimeOut(u)
      BY <2>4, GoesStands DEF PortForwardBegins, PortForwardDenied, TimeOut
    <2>5. CASE ShellDies(u)
      <3>1. Stands(q, [q EXCEPT !.shell = "dead"])
        BY <1>1, OtherFields DEF Stands
      <3> QED
        BY <2>5, <3>1, OneStands DEF ShellDies
    <2> QED
      BY <1>8, <2>1, <2>2, <2>3, <2>4, <2>5 DEF Fault
  <1> QED
    BY <1>3, <1>4, <1>5, <1>6, <1>7, <1>8

\* What stands keeps what the choice tells.
LEMMA ChoiceKept ==
  ASSUME SessionIndInv, ChoiceTells, \A s \in Sessions : Stands(ses[s], ses'[s])
  PROVE  ChoiceTells'
  <1>1. \A t \in Sessions : Ages(ses[t], ses'[t])
    BY DEF Stands, SameChoice, Ages
  <1>2. ASSUME NEW s \in Sessions
        PROVE  /\ \A t \in ses'[s].gone : ses'[t].life \notin {"new", "alive"}
               /\ (ses'[s].login \in {"look", "mark", "pick"} => Chosen(ses[s])')
               /\ (ses'[s].login \notin {"look", "mark", "pick"} => ses'[s].list = {})
    <2> DEFINE q == ses[s]
               r == ses'[s]
    <2>1. q.gone \subseteq Sessions /\ q.ready \subseteq Sessions
      BY SessionFields DEF SessionType
    <2>2. \A t \in q.gone : ses[t].life \notin {"new", "alive"}
      BY DEF ChoiceTells
    <2>3. r.gone \subseteq q.gone
      BY DEF Stands, SameChoice, NoChoice
    <2>4. \A t \in r.gone : ses'[t].life \notin {"new", "alive"}
      BY <1>1, <2>1, <2>2, <2>3 DEF Ages
    <2>5. CASE r.login \in {"look", "mark", "pick"}
      <3>1. SameChoice(q, r)
        BY <2>5 DEF Stands, NoChoice
      <3>2. Chosen(q)
        BY <2>5, <3>1 DEF ChoiceTells, SameChoice
      <3>3. \A t \in r.ready : ses'[t].life # "new"
        BY <1>1, <2>1, <3>1, <3>2 DEF SameChoice, Chosen, Ages
      <3>4. ASSUME ~Underscored, NEW t \in r.ready, ses'[t].life = "alive"
            PROVE  t \in r.rest \cup r.list
        <4>1. t \in q.ready /\ t \in Sessions
          BY <2>1, <3>1, <3>4 DEF SameChoice
        <4>2. ses[t].life = "alive"
          BY <1>1, <3>2, <3>4, <4>1 DEF Ages, Chosen
        <4> QED
          BY <3>1, <3>2, <3>4, <4>1, <4>2 DEF SameChoice, Chosen, Alive
      <3>5. r.list \cap r.gone = {}
        BY <3>1, <3>2 DEF SameChoice, Chosen
      <3> QED
        BY <2>4, <2>5, <3>3, <3>4, <3>5 DEF Chosen, Alive
    <2>6. CASE r.login \notin {"look", "mark", "pick"}
      <3>1. q.login \notin {"look", "mark", "pick"} => q.list = {}
        BY DEF ChoiceTells
      <3> QED
        BY <2>4, <2>6, <3>1 DEF Stands, SameChoice, NoChoice
    <2> QED
      BY <2>5, <2>6
  <1> QED
    BY <1>2 DEF ChoiceTells

\* A session that waits at its pipe, is not to end and is no zombie by its file
\* has a file that says that it waits.
LEMMA WaitersAreListed ==
  ASSUME SessionIndInv, NEW t \in Sessions, Waiting(t), ses[t].ending = "no", <<t, "zombie">> \notin files, ~Underscored
  PROVE  t \in Readable /\ ses[t].life = "alive"
  <1>1. Lives(t) /\ FilesOf(t, ses[t]) /\ ses[t].life = "alive" /\ ses[t].main = "accept"
    BY LivesNow, SessionFields DEF Waiting, At, Alive
  <1>2. ses[t].state = "disconnected"
    BY <1>1 DEF Lives, MainTells, ClosedForGood
  <1>3. <<t, "disconnected">> \in files
    BY <1>1, <1>2 DEF FilesOf
  <1> QED
    BY <1>1, <1>3 DEF Readable, Disconnected

\* What a step of the choice leaves, by the processes as they are.
Told(r) ==
  /\ r.login \in {"look", "mark", "pick", "start"}
  /\ r.login \in {"pick", "start"} => r.rest = {}
  /\ r.login = "start" => r.list = {}
  /\ Chosen(r)
  /\ \A t \in r.gone : ses[t].life \notin {"new", "alive"}

\* So the choice goes on.
LEMMA LookedTold ==
  ASSUME NEW r \in SessionType, Chosen(r), \A t \in r.gone : ses[t].life \notin {"new", "alive"}
  PROVE  Told(Looked(r)) /\ Looked(r).life = r.life
  <1>1. PICK l : l = Looked(r)
    OBVIOUS
  <1>2. /\ l.login \in {"look", "pick", "start"} /\ l.rest = r.rest /\ l.list = r.list /\ l.ready = r.ready /\ l.gone = r.gone
        /\ l.life = r.life /\ (l.login # "look" => r.rest = {}) /\ (l.login = "start" => r.list = {})
    BY <1>1, LookedIs
  <1> QED
    BY <1>1, <1>2 DEF Told, Chosen

\* The sessions that waited are among those to look at, those that ended not yet
\* among the offered.
LEMMA ListsTells ==
  ASSUME SessionIndInv, ChoiceTells, NEW s \in Sessions, Lists(s)
  PROVE  \E r : Set(s, r) /\ Told(r) /\ r.life = ses[s].life
  <1> DEFINE q == ses[s]
             ready == {t \in Sessions : Waiting(t) /\ ses[t].ending = "no" /\ <<t, "zombie">> \notin files}
             gone == {t \in Sessions : ses[t].life \notin {"new", "alive"}}
             o == [[[q EXCEPT !.rest = Readable] EXCEPT !.ready = ready] EXCEPT !.gone = gone]
  <1>1. q \in SessionType /\ Alive(s) /\ q.login = "choose"
    BY SessionFields DEF Lists, At
  <1>2. Set(s, Looked(o))
    BY DEF Lists
  <1>3. q.list = {}
    BY <1>1 DEF ChoiceTells
  <1>4. \A t \in ready : ses[t].life # "new" /\ (~Underscored => t \in Readable)
    BY WaitersAreListed DEF Waiting, At, Alive
  <1>5. Readable \in SUBSET Sessions /\ ready \in SUBSET Sessions /\ gone \in SUBSET Sessions
    BY <1>1, WhoIsListed
  <1>6. \A t \in gone : ses[t].life \notin {"new", "alive"}
    OBVIOUS
  <1> HIDE DEF ready, gone
  <1>7. o \in SessionType
    <2>1. [q EXCEPT !.rest = Readable] \in SessionType
      BY <1>1, <1>5, FieldTypes
    <2>2. [[q EXCEPT !.rest = Readable] EXCEPT !.ready = ready] \in SessionType
      BY <1>5, <2>1, FieldTypes
    <2> QED
      BY <1>5, <2>2, FieldTypes
  <1>8. o.rest = Readable /\ o.list = q.list /\ o.ready = ready /\ o.gone = gone /\ o.life = q.life
    BY <1>1 DEF SessionType
  <1> HIDE DEF o
  <1>9. Chosen(o) /\ \A t \in o.gone : ses[t].life \notin {"new", "alive"}
    BY <1>3, <1>4, <1>6, <1>8 DEF Chosen
  <1> QED
    BY <1>2, <1>7, <1>8, <1>9, LookedTold

\* Whoever is looked at is offered if it lives.
LEMMA LooksTells ==
  ASSUME SessionIndInv, ChoiceTells, NEW s \in Sessions, Looks(s)
  PROVE  \E r : Set(s, r) /\ Told(r) /\ r.life = ses[s].life
  <1> DEFINE q == ses[s]
  <1>1. q \in SessionType /\ q.login = "look" /\ Chosen(q) /\ \A t \in q.gone : ses[t].life \notin {"new", "alive"}
    BY SessionFields DEF Looks, At, ChoiceTells
  <1>2. PICK t \in q.rest :
          \/ IsSessionAlive(t) /\ Set(s, Looked([[q EXCEPT !.rest = @ \ {t}] EXCEPT !.list = @ \cup {t}]))
          \/ ~IsSessionAlive(t) /\ Set(s, Looked([q EXCEPT !.rest = @ \ {t}]))
          \/ /\ ~IsSessionAlive(t)
             /\ \E v \in Found(t) : Set(s, [[q EXCEPT !.rest = @ \ {t}] EXCEPT !.victim = v, !.login = "mark"])
    BY DEF Looks
  <1>3. PICK rest, list : rest = q.rest \ {t} /\ list = q.list \cup {t}
    OBVIOUS
  <1>4. rest \in SUBSET Sessions /\ list \in SUBSET Sessions
    BY <1>1, <1>3 DEF SessionType
  <1> DEFINE o == [q EXCEPT !.rest = rest]
             p == [o EXCEPT !.list = list]
  <1>5. o \in SessionType /\ p \in SessionType
    <2>1. o \in SessionType
      BY <1>1, <1>4, FieldTypes
    <2> QED
      BY <1>4, <2>1, FieldTypes
  <1>6. o.rest = rest /\ o.list = q.list /\ o.ready = q.ready /\ o.gone = q.gone /\ o.life = q.life
    BY <1>1 DEF SessionType
  <1>7. p.rest = rest /\ p.list = list /\ p.ready = q.ready /\ p.gone = q.gone /\ p.life = q.life
    BY <1>1 DEF SessionType
  <1>8. [q EXCEPT !.rest = @ \ {t}] = o /\ [[q EXCEPT !.rest = @ \ {t}] EXCEPT !.list = @ \cup {t}] = p
    BY <1>1, <1>3 DEF SessionType
  <1> HIDE DEF o, p
  <1>9. CASE IsSessionAlive(t) /\ Set(s, Looked(p))
    <2>1. Chosen(p) /\ \A u \in p.gone : ses[u].life \notin {"new", "alive"}
      BY <1>1, <1>3, <1>7, <1>9 DEF Chosen, IsSessionAlive
    <2> QED
      BY <1>5, <1>7, <1>9, <2>1, LookedTold
  <1>10. CASE ~IsSessionAlive(t)
    <2>1. Chosen(o) /\ \A u \in o.gone : ses[u].life \notin {"new", "alive"}
      BY <1>1, <1>3, <1>6, <1>10 DEF Chosen, IsSessionAlive, Alive
    <2>2. CASE Set(s, Looked(o))
      BY <1>5, <1>6, <2>1, <2>2, LookedTold
    <2>3. CASE \E v \in Found(t) : Set(s, [o EXCEPT !.victim = v, !.login = "mark"])
      <3>1. PICK v : Set(s, [o EXCEPT !.victim = v, !.login = "mark"])
        BY <2>3
      <3> DEFINE r == [o EXCEPT !.victim = v, !.login = "mark"]
      <3>2. /\ r.login = "mark" /\ r.rest = o.rest /\ r.list = o.list /\ r.ready = o.ready /\ r.gone = o.gone
            /\ r.life = o.life
        BY <1>5 DEF SessionType
      <3>3. Set(s, r)
        BY <3>1
      <3> HIDE DEF r
      <3>4. Told(r)
        BY <2>1, <3>2 DEF Told, Chosen
      <3> QED
        BY <1>6, <3>2, <3>3, <3>4
    <2> QED
      BY <1>2, <1>8, <1>10, <2>2, <2>3
  <1> QED
    BY <1>2, <1>8, <1>9, <1>10

\* A mark on a file changes nothing of it.
LEMMA MarksTells ==
  ASSUME SessionIndInv, ChoiceTells, NEW s \in Sessions, Marks(s)
  PROVE  \E r : Set(s, r) /\ Told(r) /\ r.life = ses[s].life
  <1> DEFINE q == ses[s]
             o == [q EXCEPT !.victim = None]
  <1>1. q \in SessionType /\ q.login = "mark" /\ Chosen(q) /\ \A t \in q.gone : ses[t].life \notin {"new", "alive"}
    BY SessionFields DEF Marks, At, ChoiceTells
  <1>2. Set(s, Looked(o))
    BY DEF Marks
  <1>3. o \in SessionType
    BY <1>1, FieldTypes
  <1>4. o.rest = q.rest /\ o.list = q.list /\ o.ready = q.ready /\ o.gone = q.gone /\ o.life = q.life
    BY <1>1 DEF SessionType
  <1> HIDE DEF o
  <1>5. Chosen(o) /\ \A t \in o.gone : ses[t].life \notin {"new", "alive"}
    BY <1>1, <1>4 DEF Chosen
  <1> QED
    BY <1>2, <1>3, <1>4, <1>5, LookedTold

\* After a step of the choice the choice tells what it should, whoever chooses.
LEMMA ChoiceGoesOn ==
  ASSUME SessionIndInv, ChoiceTells, NEW s \in Sessions, Lists(s) \/ Looks(s) \/ Marks(s)
  PROVE  /\ ChoiceTells'
         /\ \A u \in Sessions \ {s} : ses'[u] = ses[u]
         /\ \A u \in Sessions : ses'[u].life = ses[u].life
         /\ Told(ses'[s])
  <1>1. PICK r : Set(s, r) /\ Told(r) /\ r.life = ses[s].life
    BY ListsTells, LooksTells, MarksTells
  <1>2. ses \in [Sessions -> SessionType] /\ ses' = [ses EXCEPT ![s] = r]
    BY <1>1 DEF SessionIndInv, SessionTypes, Set
  <1>3. ses'[s] = r /\ \A u \in Sessions \ {s} : ses'[u] = ses[u]
    BY <1>2
  <1>4. \A u \in Sessions : ses'[u].life = ses[u].life
    BY <1>1, <1>3
  <1>5. ASSUME NEW u \in Sessions
        PROVE  /\ \A t \in ses'[u].gone : ses'[t].life \notin {"new", "alive"}
               /\ (ses'[u].login \in {"look", "mark", "pick"} => Chosen(ses[u])')
               /\ (ses'[u].login \notin {"look", "mark", "pick"} => ses'[u].list = {})
    <2>1. ses[s].gone \subseteq Sessions
      BY SessionFields DEF SessionType
    <2>2. \A t : t \in Sessions \/ ses'[t].life = ses[t].life
      BY <1>2
    <2>3. \A t : ses'[t].life = ses[t].life
      BY <1>4, <2>2
    <2>4. CASE u = s
      BY <1>1, <1>3, <2>3, <2>4 DEF Told, Chosen, Alive
    <2>5. CASE u # s
      <3>1. ses'[u] = ses[u]
        BY <1>3, <2>5
      <3>2. /\ \A t \in ses[u].gone : ses[t].life \notin {"new", "alive"}
            /\ ses[u].login \in {"look", "mark", "pick"} => Chosen(ses[u])
            /\ ses[u].login \notin {"look", "mark", "pick"} => ses[u].list = {}
        BY DEF ChoiceTells
      <3> QED
        BY <2>3, <3>1, <3>2 DEF Chosen, Alive
    <2> QED
      BY <2>4, <2>5
  <1>6. ChoiceTells'
    BY <1>5 DEF ChoiceTells
  <1> QED
    BY <1>1, <1>3, <1>4, <1>6

\* What a step offers, and that the choice tells it again.
LEMMA ChoiceStep ==
  ASSUME SessionIndInv, ChoiceTells, [Next]_vars
  PROVE  /\ ChoiceTells'
         /\ \A s \in Sessions :
              ses[s].login \in {"choose", "look", "mark"} /\ ses'[s].login \in {"pick", "start"} =>
                /\ ~Underscored => \A t \in ses'[s].ready : Alive(t) => t \in ses'[s].list
                /\ ses'[s].list \cap ses'[s].gone = {}
  <1>1. CASE \A s \in Sessions : Stands(ses[s], ses'[s])
    <2>1. ASSUME NEW s \in Sessions, ses[s].login \in {"choose", "look", "mark"}, ses'[s].login \in {"pick", "start"}
          PROVE  FALSE
      BY <1>1, <2>1 DEF Stands, SameChoice, NoChoice
    <2> QED
      BY <1>1, <2>1, ChoiceKept
  <1>2. CASE \E u \in Sessions : Lists(u) \/ Looks(u) \/ Marks(u)
    <2>1. PICK u \in Sessions : Lists(u) \/ Looks(u) \/ Marks(u)
      BY <1>2
    <2>2. /\ ChoiceTells' /\ Told(ses'[u])
          /\ \A s \in Sessions \ {u} : ses'[s] = ses[s]
      BY <2>1, ChoiceGoesOn
    <2>3. ASSUME NEW s \in Sessions, ses[s].login \in {"choose", "look", "mark"}, ses'[s].login \in {"pick", "start"}
          PROVE  /\ ~Underscored => \A t \in ses'[s].ready : Alive(t) => t \in ses'[s].list
                 /\ ses'[s].list \cap ses'[s].gone = {}
      <3>1. s = u
        BY <2>2, <2>3
      <3> QED
        BY <2>2, <2>3, <3>1 DEF Told, Chosen
    <2> QED
      BY <2>2, <2>3
  <1>3. \/ \A s \in Sessions : Stands(ses[s], ses'[s])
        \/ \E u \in Sessions : Lists(u) \/ Looks(u) \/ Marks(u)
    <2>1. CASE ses' = ses
      BY <2>1 DEF Stands, SameChoice
    <2>2. CASE Next
      <3>1. scene.come \subseteq Sessions /\ scene.faulty \subseteq Sessions
        BY SessionAssumption DEF SessionIndInv, SessionTypes
      <3>2. CASE ServiceStops
        BY <2>1, <3>2 DEF ServiceStops
      <3>3. CASE \E u \in Sessions : Connects(u) \/ Main(u) \/ Login(u) \/ Ending(u) \/ User(u) \/ Fault(u)
        BY <3>3, OthersStand
      <3> QED
        BY <2>2, <3>1, <3>2, <3>3 DEF Next
    <2> QED
      BY <2>1, <2>2 DEF vars
  <1> QED
    BY <1>1, <1>2, <1>3

\* No session is offered before the choice.
LEMMA ChoiceStart ==
  Init => ChoiceTells
  <1> SUFFICES ASSUME Init
               PROVE  ChoiceTells
    OBVIOUS
  <1>1. /\ Waiter.gone = {} /\ Waiter.list = {} /\ Waiter.login = "done"
        /\ Fresh.gone = {} /\ Fresh.list = {} /\ Fresh.login = "none"
    BY DEF Waiter, Fresh
  <1>2. \A s \in Sessions : ses[s] = Waiter \/ ses[s] = Fresh
    BY DEF Init
  <1> QED
    BY <1>1, <1>2 DEF ChoiceTells

\* A user who may choose is offered each session that waited for him when the
\* files were listed and is still there, and none that had ended by then, whatever
\* the sessions do in the meantime and whoever renames their files
\* (ChooseDisconnectedSession).
THEOREM OffersAreExact ==
  Spec => OffersExactly
  <1> DEFINE Offers == \A s \in Sessions :
               ses[s].login \in {"choose", "look", "mark"} /\ ses'[s].login \in {"pick", "start"} =>
                 /\ ~Underscored => \A t \in ses'[s].ready : Alive(t) => t \in ses'[s].list
                 /\ ses'[s].list \cap ses'[s].gone = {}
  <1>1. Init => ChoiceTells
    BY ChoiceStart
  <1>2. SessionIndInv /\ ChoiceTells /\ [Next]_vars => ChoiceTells' /\ Offers
    BY ChoiceStep
  <1> QED
    BY <1>1, <1>2, SessionInvariant, PTL DEF Spec, OffersExactly, Offers
=============================================================================
