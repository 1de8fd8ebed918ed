------------------------ MODULE AgentRequestsProofs ------------------------
(***************************************************************************)
(* Proofs about what the director's requests do to a host: to guests'      *)
(* accounts (AgentSsh), to its settings and disks (HostSetup), to the      *)
(* state file (StateFile), and to the directories of jobs and packages     *)
(* (ApplyPlan).                                                            *)
(***************************************************************************)
EXTENDS AgentSsh, HostSetup, StateFile, ApplyPlan, SequenceTheorems, WellFoundedInduction, TLAPS

-----------------------------------------------------------------------------
(* AgentSsh.                                                               *)

\* Every request is about a user.
LEMMA UserOfType == \A r \in SshRequests : UserOf[r] \in Users
  BY DEF Users

\* The types at the start.
LEMMA SshStartTypes == SshInit => SshTypeOK
  <1> SUFFICES ASSUME SshInit PROVE SshTypeOK
    OBVIOUS
  <1>1. account \in [Users -> Setups \cup {NoOne, "earlier"}]
    BY DEF SshInit
  <1>2. salt \in [Users -> Setups \cup {NoOne, "earlier", "torn"}]
    BY <1>1 DEF SshInit
  <1> QED
    BY <1>1, <1>2 DEF SshInit, SshTypeOK

\* Every step keeps the types and what each request may be at.
LEMMA SshTypesKept == SshTypeOK /\ OfKind /\ [SshNext]_sshVars => SshTypeOK' /\ OfKind'
  <1> SUFFICES ASSUME SshTypeOK, OfKind, [SshNext]_sshVars PROVE SshTypeOK' /\ OfKind'
    OBVIOUS
  <1> USE DEF SshTypeOK, OfKind
  <1>1. \A r \in SshRequests : UserOf[r] \in Users
    BY UserOfType
  <1>2. ASSUME NEW r \in SshRequests, Begin(r) PROVE SshTypeOK' /\ OfKind'
    BY <1>2 DEF Begin, Goes, accountVars, sshdVars, SshRequests
  <1>3. ASSUME NEW r \in SshRequests, OpenSalt(r) PROVE SshTypeOK' /\ OfKind'
    <2>1. CASE saltFile[UserOf[r]] = NoOne /\ Goes(r, "writeSalt")
      <3>1. saltFile' = [saltFile EXCEPT ![UserOf[r]] = r] /\ salt' = [salt EXCEPT ![UserOf[r]] = "torn"]
        BY <1>3, <2>1 DEF OpenSalt, Goes, AnswersWith
      <3> QED
        BY <1>1, <1>3, <2>1, <3>1 DEF OpenSalt, Goes, sshdVars
    <2>2. CASE AnswersWith(r, "exception") /\ UNCHANGED <<salt, saltFile>>
      BY <1>1, <1>3, <2>2 DEF OpenSalt, Goes, AnswersWith, sshdVars
    <2> QED
      BY <1>3, <2>1, <2>2 DEF OpenSalt
  <1>4. ASSUME NEW r \in SshRequests, WriteSalt(r) PROVE SshTypeOK' /\ OfKind'
    BY <1>1, <1>4 DEF WriteSalt, Goes, AnswersWith, sshdVars
  <1>5. ASSUME NEW r \in SshRequests, CreateUser(r) PROVE SshTypeOK' /\ OfKind'
    <2>1. CASE Goes(r, "addToGroup")
      BY <1>1, <1>5, <2>1 DEF CreateUser, Goes, sshdVars
    <2>2. CASE AnswersSetup(r, "failed") /\ UNCHANGED account
      BY <1>5, <2>2 DEF CreateUser, AnswersSetup, AnswersWith, sshdVars
    <2> QED
      BY <1>5, <2>1, <2>2 DEF CreateUser
  <1>6. ASSUME NEW r \in SshRequests, AddUserToGroup(r) PROVE SshTypeOK' /\ OfKind'
    BY <1>1, <1>6 DEF AddUserToGroup, Goes, AnswersSetup, AnswersWith, sshdVars
  <1>7. ASSUME NEW r \in SshRequests, DeleteUser(r) PROVE SshTypeOK' /\ OfKind'
    <2>1. CASE account[UserOf[r]] # NoOne
      <3>1. account' = [account EXCEPT ![UserOf[r]] = NoOne] /\ Goes(r, "deleteSalt")
        BY <1>7, <2>1 DEF DeleteUser
      <3> QED
        BY <1>1, <1>7, <3>1 DEF DeleteUser, Goes, sshdVars
    <2>2. CASE AnswersWith(r, "failed") /\ UNCHANGED <<account, admins>>
      BY <1>7, <2>2 DEF DeleteUser, AnswersWith, sshdVars
    <2> QED
      BY <1>7, <2>1, <2>2 DEF DeleteUser
  <1>8. ASSUME NEW r \in SshRequests, DeleteSalt(r) PROVE SshTypeOK' /\ OfKind'
    <2>1. CASE saltFile[UserOf[r]] = NoOne
      <3>1. salt' = [salt EXCEPT ![UserOf[r]] = NoOne] /\ Goes(r, "lockToStop")
        BY <1>8, <2>1 DEF DeleteSalt
      <3> QED
        BY <1>1, <1>8, <3>1 DEF DeleteSalt, Goes, sshdVars
    <2>2. CASE AnswersWith(r, "failed") /\ UNCHANGED salt
      BY <1>8, <2>2 DEF DeleteSalt, AnswersWith, sshdVars
    <2> QED
      BY <1>8, <2>1, <2>2 DEF DeleteSalt
  <1>9. ASSUME NEW r \in SshRequests, Lock(r) PROVE SshTypeOK' /\ OfKind'
    BY <1>9 DEF Lock, Goes, accountVars
  <1>10. ASSUME NEW r \in SshRequests, StartSshd(r) PROVE SshTypeOK' /\ OfKind'
    BY <1>10 DEF StartSshd, SetsStartTime, Goes, accountVars
  <1>11. ASSUME NEW r \in SshRequests, StopSshd(r) PROVE SshTypeOK' /\ OfKind'
    <2>1. CASE OkToStop /\ Goes(r, "testStopped")
      BY <1>11, <2>1 DEF StopSshd, Goes, accountVars
    <2>2. CASE ~OkToStop
      <3>1. AnswersWith(r, "success") /\ sshdLock' = NoOne /\ UNCHANGED <<sshd, startTime>>
        BY <1>11, <2>2 DEF StopSshd
      <3> QED
        BY <1>11, <3>1 DEF StopSshd, AnswersWith, accountVars
    <2> QED
      BY <1>11, <2>1, <2>2 DEF StopSshd
  <1>12. ASSUME NEW r \in SshRequests, TestRunning(r) PROVE SshTypeOK' /\ OfKind'
    BY <1>12 DEF TestRunning, AnswersSetup, AnswersWith, accountVars
  <1>13. ASSUME NEW r \in SshRequests, TestStopped(r) PROVE SshTypeOK' /\ OfKind'
    BY <1>13 DEF TestStopped, AnswersWith, accountVars
  <1>14. CASE SshdChanges
    BY <1>14 DEF SshdChanges, accountVars
  <1>15. CASE TimePasses
    BY <1>15 DEF TimePasses, accountVars
  <1>16. CASE AgentRestarts
    BY <1>16 DEF AgentRestarts, UnderWay
  <1>17. CASE UNCHANGED sshVars
    BY <1>17 DEF sshVars, accountVars, sshdVars
  <1> HIDE DEF SshTypeOK, OfKind
  <1> QED
    BY <1>2, <1>3, <1>4, <1>5, <1>6, <1>7, <1>8, <1>9, <1>10, <1>11, <1>12, <1>13, <1>14, <1>15, <1>16, <1>17
    DEF SshNext

\* A request that is under way takes a step.
Acts(r) ==
  \/ OpenSalt(r) \/ WriteSalt(r) \/ CreateUser(r) \/ AddUserToGroup(r)
  \/ DeleteUser(r) \/ DeleteSalt(r)
  \/ Lock(r) \/ StartSshd(r) \/ StopSshd(r) \/ TestRunning(r) \/ TestStopped(r)

\* Nothing of the requests moves.
RequestsRest == UNCHANGED <<step, answer, account, admins, salt, since>>

\* Every step is one of these.
LEMMA SshSteps ==
  [SshNext]_sshVars =>
    \/ \E r \in SshRequests : Begin(r) \/ Acts(r)
    \/ AgentRestarts
    \/ RequestsRest /\ (SshdChanges \/ TimePasses \/ UNCHANGED sshVars)
  BY DEF SshNext, Acts, RequestsRest, SshdChanges, TimePasses, sshVars, accountVars

\* A request that acts leaves the others where they are; it is answered when
\* it is over, and stays noted with those it overlaps.
LEMMA OneMoves ==
  ASSUME SshTypeOK, NEW r \in SshRequests, Acts(r)
  PROVE  /\ UnderWay(r) /\ step'[r] # "arrives" /\ since' = since
         /\ \A q \in SshRequests \ {r} : step'[q] = step[q] /\ answer'[q] = answer[q]
         /\ answer'[r] # answer[r] => step'[r] = "over"
  <1>1. since' = since
    BY DEF Acts, OpenSalt, WriteSalt, CreateUser, AddUserToGroup, DeleteUser, DeleteSalt, Lock, StartSshd,
           StopSshd, TestRunning, TestStopped
  <1>2. step[r] \notin {"arrives", "over"}
    BY DEF Acts, OpenSalt, WriteSalt, CreateUser, AddUserToGroup, DeleteUser, DeleteSalt, Lock, StartSshd,
           StopSshd, TestRunning, TestStopped
  <1>3. \/ \E to \in {"writeSalt", "createUser", "addToGroup", "lockToStart", "deleteSalt", "lockToStop",
                     "start", "stop", "testRunning", "testStopped"} : Goes(r, to)
        \/ \E status \in {"success", "failed", "exception"} : AnswersWith(r, status)
    BY DEF Acts, OpenSalt, WriteSalt, CreateUser, AddUserToGroup, DeleteUser, DeleteSalt, Lock, StartSshd,
           StopSshd, TestRunning, TestStopped, AnswersSetup
  <1> QED
    BY <1>1, <1>2, <1>3 DEF UnderWay, Goes, AnswersWith, SshTypeOK

\* No request is answered before it is over.
LEMMA AnsweredKept == SshTypeOK /\ Answered /\ [SshNext]_sshVars => Answered'
  <1> SUFFICES ASSUME SshTypeOK, Answered, [SshNext]_sshVars PROVE Answered'
    OBVIOUS
  <1>1. ASSUME NEW r \in SshRequests, Begin(r) PROVE Answered'
    BY <1>1 DEF Begin, Goes, Answered, SshTypeOK
  <1>2. ASSUME NEW r \in SshRequests, Acts(r) PROVE Answered'
    BY <1>2, OneMoves DEF Answered, UnderWay
  <1>3. CASE AgentRestarts
    BY <1>3 DEF AgentRestarts, Answered, UnderWay, SshTypeOK
  <1>4. CASE RequestsRest
    BY <1>4 DEF RequestsRest, Answered
  <1> QED
    BY <1>1, <1>2, <1>3, <1>4, SshSteps

\* Overlaps are noted: a request that begins notes who is under way, and is
\* noted by all that have begun.
LEMMA OverlapsKept == SshTypeOK /\ Overlaps /\ [SshNext]_sshVars => Overlaps'
  <1> SUFFICES ASSUME SshTypeOK, Overlaps, [SshNext]_sshVars,
                      NEW p \in SshRequests, NEW q \in SshRequests, p # q, UserOf[p] = UserOf[q],
                      step'[p] # "arrives", UnderWay(q)'
               PROVE  q \in since'[p]
    BY DEF Overlaps
  <1>1. ASSUME NEW r \in SshRequests, Begin(r) PROVE q \in since'[p]
    <2> DEFINE sameUser == {s \in SshRequests \ {r} : UserOf[s] = UserOf[r] /\ step[s] # "arrives"}
    <2>1. /\ step[r] = "arrives"
          /\ \A s \in SshRequests \ {r} : step'[s] = step[s]
          /\ since' = [s \in SshRequests |-> IF s \in sameUser THEN since[s] \cup {r}
                                             ELSE IF s = r THEN {u \in sameUser : UnderWay(u)} ELSE since[s]]
      BY <1>1 DEF Begin, Goes, SshTypeOK
    <2>2. CASE q = r
      BY <2>1, <2>2
    <2>3. CASE p = r
      BY <2>1, <2>3 DEF UnderWay
    <2>4. CASE r \notin {p, q}
      BY <2>1, <2>4 DEF Overlaps, UnderWay
    <2> QED
      BY <2>2, <2>3, <2>4
  <1>2. ASSUME NEW r \in SshRequests, Acts(r) PROVE q \in since'[p]
    BY <1>2, OneMoves DEF Overlaps, UnderWay
  <1>3. CASE AgentRestarts
    BY <1>3 DEF AgentRestarts, Overlaps, UnderWay, SshTypeOK
  <1>4. CASE RequestsRest
    BY <1>4 DEF RequestsRest, Overlaps, UnderWay
  <1> QED
    BY <1>1, <1>2, <1>3, <1>4, SshSteps

\* A request touches the account and the salt of its user only, and a setup
\* no account there is.
LEMMA TouchesItsUser ==
  ASSUME SshTypeOK, OfKind, NEW r \in SshRequests, Acts(r)
  PROVE  /\ \A u \in Users \ {UserOf[r]} :
              account'[u] = account[u] /\ salt'[u] = salt[u] /\ (u \in admins => u \in admins')
         /\ r \in Setups => admins \subseteq admins'
         /\ r \in Setups /\ account[UserOf[r]] # NoOne => account' = account
  <1> USE DEF SshTypeOK
  <1>1. UserOf[r] \in Users
    BY UserOfType
  <1>2. r \notin Setups \/ r \notin Cleanups
    BY SshAssumption
  <1>3. CASE OpenSalt(r) \/ WriteSalt(r)
    BY <1>1, <1>3 DEF OpenSalt, WriteSalt
  <1>4. CASE CreateUser(r) \/ AddUserToGroup(r)
    BY <1>1, <1>4 DEF CreateUser, AddUserToGroup
  <1>5. CASE DeleteUser(r) \/ DeleteSalt(r)
    BY <1>1, <1>2, <1>5 DEF DeleteUser, DeleteSalt, OfKind
  <1>6. CASE Lock(r) \/ StartSshd(r) \/ StopSshd(r) \/ TestRunning(r) \/ TestStopped(r)
    BY <1>6 DEF Lock, StartSshd, StopSshd, TestRunning, TestStopped, accountVars
  <1> QED
    BY <1>3, <1>4, <1>5, <1>6 DEF Acts

\* What a setup has made stays: who undoes it is noted with it.
LEMMA SetupsStandKept ==
  SshTypeOK /\ OfKind /\ Answered /\ Overlaps /\ SetupsStand /\ [SshNext]_sshVars => SetupsStand'
  <1> SUFFICES ASSUME SshTypeOK, OfKind, Answered, Overlaps, SetupsStand, [SshNext]_sshVars,
                      NEW p \in Setups
               PROVE
    (/\ HasReached(p, {"addToGroup", "lockToStart", "start", "testRunning"}) /\ since[p] \cap Cleanups = {}
          => account[UserOf[p]] = p
     /\ HasReached(p, {"lockToStart", "start", "testRunning"}) /\ since[p] \cap Cleanups = {}
          => UserOf[p] \in admins
     /\ HasReached(p, {"createUser", "addToGroup", "lockToStart", "start", "testRunning"}) /\ since[p] = {}
          => salt[UserOf[p]] = p)'
    BY DEF SetupsStand
  <1> DEFINE u == UserOf[p]
             Stands ==
               /\ HasReached(p, {"addToGroup", "lockToStart", "start", "testRunning"}) /\ since[p] \cap Cleanups = {}
                    => account[u] = p
               /\ HasReached(p, {"lockToStart", "start", "testRunning"}) /\ since[p] \cap Cleanups = {}
                    => u \in admins
               /\ HasReached(p, {"createUser", "addToGroup", "lockToStart", "start", "testRunning"}) /\ since[p] = {}
                    => salt[u] = p
  <1>1. p \in SshRequests /\ u \in Users /\ p # NoOne /\ p \notin Cleanups
    BY UserOfType, SshAssumption DEF SshRequests, NoOne
  <1>2. Stands
    BY DEF SetupsStand
  <1>3. ASSUME NEW r \in SshRequests, Begin(r) PROVE Stands'
    <2>1. UNCHANGED <<account, admins, salt, answer>>
      BY <1>3 DEF Begin, Goes, accountVars
    <2>2. CASE p = r
      <3>1. step'[p] = "openSalt" /\ answer[p] = "none"
        BY <1>1, <1>3, <2>2 DEF Begin, Goes, SshTypeOK, Answered
      <3> QED
        BY <2>1, <3>1 DEF HasReached
    <2>3. CASE p # r
      <3>1. step'[p] = step[p] /\ since[p] \subseteq since'[p]
        BY <1>1, <1>3, <2>3 DEF Begin, Goes, SshTypeOK
      <3> QED
        BY <1>2, <2>1, <3>1 DEF HasReached
    <2> QED
      BY <2>2, <2>3
  <1>4. ASSUME NEW r \in SshRequests, Acts(r), r # p PROVE Stands'
    <2>1. since' = since /\ step'[p] = step[p] /\ answer'[p] = answer[p] /\ UnderWay(r)
      BY <1>1, <1>4, OneMoves
    <2>2. CASE UserOf[r] # u
      BY <1>1, <1>2, <1>4, <2>1, <2>2, TouchesItsUser DEF HasReached
    <2>3. CASE UserOf[r] = u /\ step[p] # "arrives"
      <3>1. r \in since[p]
        BY <1>1, <1>4, <2>1, <2>3 DEF Overlaps
      <3>2. CASE r \in Cleanups
        BY <2>1, <3>1, <3>2
      <3>3. CASE r \in Setups
        BY <1>1, <1>2, <1>4, <2>1, <2>3, <3>1, <3>3, TouchesItsUser DEF HasReached
      <3> QED
        BY <3>2, <3>3 DEF SshRequests
    <2>4. CASE step[p] = "arrives"
      BY <1>1, <2>1, <2>4 DEF HasReached, Answered
    <2> QED
      BY <2>2, <2>3, <2>4
  <1>5. CASE Acts(p)
    <2> USE DEF SshTypeOK
    <2>1. CASE OpenSalt(p)
      BY <1>1, <2>1 DEF OpenSalt, Goes, AnswersWith, HasReached, Answered
    <2>2. CASE WriteSalt(p)
      BY <1>1, <2>2 DEF WriteSalt, Goes, HasReached, Answered
    <2>3. CASE CreateUser(p)
      BY <1>1, <1>2, <2>3 DEF CreateUser, Goes, AnswersSetup, AnswersWith, HasReached, Answered
    <2>4. CASE AddUserToGroup(p)
      BY <1>1, <1>2, <2>4 DEF AddUserToGroup, Goes, AnswersSetup, AnswersWith, HasReached, Answered
    <2>5. CASE Lock(p)
      BY <1>1, <1>2, <2>5 DEF Lock, Goes, HasReached, Answered, accountVars, OfKind
    <2>6. CASE StartSshd(p)
      BY <1>1, <1>2, <2>6 DEF StartSshd, Goes, HasReached, Answered, accountVars
    <2>7. CASE TestRunning(p)
      BY <1>1, <1>2, <2>7 DEF TestRunning, AnswersSetup, AnswersWith, HasReached, Answered, accountVars
    <2>8. CASE DeleteUser(p) \/ DeleteSalt(p) \/ StopSshd(p) \/ TestStopped(p)
      BY <1>1, <2>8 DEF DeleteUser, DeleteSalt, StopSshd, TestStopped, OfKind
    <2> QED
      BY <1>5, <2>1, <2>2, <2>3, <2>4, <2>5, <2>6, <2>7, <2>8 DEF Acts
  <1>6. CASE AgentRestarts
    BY <1>1, <1>2, <1>6 DEF AgentRestarts, HasReached, UnderWay, SshTypeOK
  <1>7. CASE RequestsRest
    BY <1>2, <1>7 DEF RequestsRest, HasReached
  <1> QED
    BY <1>3, <1>4, <1>5, <1>6, <1>7, SshSteps

\* What a cleanup has removed stays away until somebody else names the user.
LEMMA CleanupsStandKept ==
  SshTypeOK /\ OfKind /\ Answered /\ Overlaps /\ CleanupsStand /\ [SshNext]_sshVars => CleanupsStand'
  <1> SUFFICES ASSUME SshTypeOK, OfKind, Answered, Overlaps, CleanupsStand, [SshNext]_sshVars,
                      NEW p \in Cleanups
               PROVE
    (/\ HasReached(p, {"deleteSalt", "lockToStop", "stop", "testStopped"}) /\ since[p] = {}
          => account[UserOf[p]] = NoOne
     /\ HasReached(p, {"lockToStop", "stop", "testStopped"}) /\ since[p] = {} => salt[UserOf[p]] = NoOne)'
    BY DEF CleanupsStand
  <1> DEFINE u == UserOf[p]
             Stands ==
               /\ HasReached(p, {"deleteSalt", "lockToStop", "stop", "testStopped"}) /\ since[p] = {}
                    => account[u] = NoOne
               /\ HasReached(p, {"lockToStop", "stop", "testStopped"}) /\ since[p] = {} => salt[u] = NoOne
  <1>1. p \in SshRequests /\ u \in Users /\ p \notin Setups
    BY UserOfType, SshAssumption DEF SshRequests
  <1>2. Stands
    BY DEF CleanupsStand
  <1>3. ASSUME NEW r \in SshRequests, Begin(r) PROVE Stands'
    <2>1. UNCHANGED <<account, salt, answer>>
      BY <1>3 DEF Begin, Goes, accountVars
    <2>2. CASE p = r
      <3>1. step'[p] = "deleteUser" /\ answer[p] = "none"
        BY <1>1, <1>3, <2>2 DEF Begin, Goes, SshTypeOK, Answered
      <3> QED
        BY <2>1, <3>1 DEF HasReached
    <2>3. CASE p # r
      <3>1. step'[p] = step[p] /\ since[p] \subseteq since'[p]
        BY <1>1, <1>3, <2>3 DEF Begin, Goes, SshTypeOK
      <3> QED
        BY <1>2, <2>1, <3>1 DEF HasReached
    <2> QED
      BY <2>2, <2>3
  <1>4. ASSUME NEW r \in SshRequests, Acts(r), r # p PROVE Stands'
    <2>1. since' = since /\ step'[p] = step[p] /\ answer'[p] = answer[p] /\ UnderWay(r)
      BY <1>1, <1>4, OneMoves
    <2>2. CASE UserOf[r] # u
      BY <1>1, <1>2, <1>4, <2>1, <2>2, TouchesItsUser DEF HasReached
    <2>3. CASE UserOf[r] = u /\ step[p] # "arrives"
      <3>1. r \in since[p]
        BY <1>1, <1>4, <2>1, <2>3 DEF Overlaps
      <3> QED
        BY <2>1, <3>1
    <2>4. CASE step[p] = "arrives"
      BY <1>1, <2>1, <2>4 DEF HasReached, Answered
    <2> QED
      BY <2>2, <2>3, <2>4
  <1>5. CASE Acts(p)
    <2> USE DEF SshTypeOK
    <2>1. CASE DeleteUser(p)
      BY <1>1, <2>1 DEF DeleteUser, Goes, AnswersWith, HasReached, Answered
    <2>2. CASE DeleteSalt(p)
      BY <1>1, <1>2, <2>2 DEF DeleteSalt, Goes, AnswersWith, HasReached, Answered
    <2>3. CASE Lock(p)
      BY <1>1, <1>2, <2>3 DEF Lock, Goes, HasReached, Answered, accountVars, OfKind
    <2>4. CASE StopSshd(p)
      BY <1>1, <1>2, <2>4 DEF StopSshd, Goes, AnswersWith, HasReached, Answered, accountVars
    <2>5. CASE TestStopped(p)
      BY <1>1, <1>2, <2>5 DEF TestStopped, AnswersWith, HasReached, Answered, accountVars
    <2>6. CASE OpenSalt(p) \/ WriteSalt(p) \/ CreateUser(p) \/ AddUserToGroup(p) \/ StartSshd(p) \/ TestRunning(p)
      BY <1>1, <2>6 DEF OpenSalt, WriteSalt, CreateUser, AddUserToGroup, StartSshd, TestRunning, OfKind
    <2> QED
      BY <1>5, <2>1, <2>2, <2>3, <2>4, <2>5, <2>6 DEF Acts
  <1>6. CASE AgentRestarts
    BY <1>1, <1>2, <1>6 DEF AgentRestarts, HasReached, UnderWay, SshTypeOK
  <1>7. CASE RequestsRest
    BY <1>2, <1>7 DEF RequestsRest, HasReached
  <1> QED
    BY <1>3, <1>4, <1>5, <1>6, <1>7, SshSteps

\* A service that was promised keeps running: nobody stops it while the start
\* is recent.
LEMMA PromiseStaysKept == SshTypeOK /\ PromiseKept /\ [SshNext]_sshVars => PromiseKept'
  <1> SUFFICES ASSUME SshTypeOK, PromiseKept, [SshNext]_sshVars PROVE PromiseKept'
    OBVIOUS
  <1> USE DEF PromiseKept
  <1>1. ASSUME NEW r \in SshRequests,
               Begin(r) \/ OpenSalt(r) \/ WriteSalt(r) \/ CreateUser(r) \/ AddUserToGroup(r)
               \/ DeleteUser(r) \/ DeleteSalt(r) \/ Lock(r) \/ TestStopped(r)
        PROVE  PromiseKept'
    BY <1>1 DEF Begin, OpenSalt, WriteSalt, CreateUser, AddUserToGroup, DeleteUser, DeleteSalt, Lock, TestStopped,
                sshdVars
  <1>2. ASSUME NEW r \in SshRequests, StartSshd(r) PROVE PromiseKept'
    BY <1>2 DEF StartSshd, SetsStartTime
  <1>3. ASSUME NEW r \in SshRequests, StopSshd(r) PROVE PromiseKept'
    BY <1>3 DEF StopSshd, OkToStop
  <1>4. ASSUME NEW r \in SshRequests, TestRunning(r) PROVE PromiseKept'
    BY <1>4 DEF TestRunning
  <1>5. CASE SshdChanges
    <2>1. fresh' = fresh /\ startTime' = startTime
      BY <1>5 DEF SshdChanges
    <2>2. sshd = "running" => promised' = FALSE
      BY <1>5 DEF SshdChanges
    <2>3. sshd # "running" => promised' = FALSE \/ promised' = promised
      BY <1>5 DEF SshdChanges
    <2>4. ~promised'
      BY <2>2, <2>3
    <2> QED
      BY <2>1, <2>4
  <1>6. CASE TimePasses
    BY <1>6 DEF TimePasses
  <1>7. CASE AgentRestarts
    BY <1>7 DEF AgentRestarts
  <1>8. CASE UNCHANGED sshVars
    BY <1>8 DEF sshVars, sshdVars
  <1> QED
    BY <1>1, <1>2, <1>3, <1>4, <1>5, <1>6, <1>7, <1>8 DEF SshNext

\* For any requests about any users: whom a setup made stays with what it
\* gave him, whom a cleanup removed stays away, and the service that was
\* promised keeps running.
THEOREM SshInvariant == SshSpec => []SshIndInv
  <1>1. SshInit => SshIndInv
    <2> SUFFICES ASSUME SshInit PROVE SshIndInv
      OBVIOUS
    <2>1. SshTypeOK
      BY SshStartTypes
    <2> QED
      BY <2>1 DEF SshInit, SshIndInv, OfKind, Answered, Overlaps, UnderWay, SetupsStand, CleanupsStand, HasReached,
                  PromiseKept, SshRequests
  <1>2. SshIndInv /\ [SshNext]_sshVars => SshIndInv'
    BY SshTypesKept, AnsweredKept, OverlapsKept, SetupsStandKept, CleanupsStandKept, PromiseStaysKept DEF SshIndInv
  <1> QED
    BY <1>1, <1>2, PTL DEF SshSpec

\* The safety of the ssh requests: Ssh.SetupSsh, CleanupSsh and
\* SshdMonitor.OkToStop.
THEOREM SshRequestsAreSafe == SshSpec => []SshInv
  <1>1. SshIndInv => SshInv
    BY DEF SshIndInv, SshInv, SetupsStand, CleanupsStand, PromiseKept, HasReached, SetupStands, CleanupStands,
           SshdStays
  <1> QED
    BY <1>1, SshInvariant, PTL

-----------------------------------------------------------------------------
(* HostSetup.                                                              *)

\* The steps of each request, in their order.
LEMMA StepTable ==
  /\ DOMAIN StepsOf = {"none", "start"} \cup Requests
  /\ \A name \in DOMAIN StepsOf : StepsOf[name] \in Seq(StepNames)
  /\ LET s == StepsOf["start"]
     IN  /\ Len(s) = 10
         /\ s[1] = "cdrom" /\ s[2] = "delete" /\ s[3] = "copy" /\ s[4] = "unmountCdrom" /\ s[5] = "read"
         /\ s[6] = "configure" /\ s[7] = "setupDiskData" /\ s[8] = "mountPersistentDisk" /\ s[9] = "finish"
         /\ s[10] = "listen"
  /\ LET s == StepsOf["mount_disk"]
     IN  /\ Len(s) = 7
         /\ s[1] = "cdrom" /\ s[2] = "delete" /\ s[3] = "copy" /\ s[4] = "unmountCdrom" /\ s[5] = "read"
         /\ s[6] = "partition" /\ s[7] = "mount"
  /\ LET s == StepsOf["migrate_disk"]
     IN  /\ Len(s) = 6
         /\ s[1] = "unmountStore" /\ s[2] = "mountReadOnly" /\ s[3] = "copyData" /\ s[4] = "unmountStore"
         /\ s[5] = "unmountTarget" /\ s[6] = "mountStore"
  /\ StepsOf["unmount_disk"] = <<"unmountDisk">> /\ StepsOf["none"] = <<>>
  <1> DEFINE l == <<"cdrom", "delete", "copy", "unmountCdrom", "read">>
             c == <<"configure", "setupDiskData", "mountPersistentDisk", "finish">>
             m == <<"partition", "mount">>
  <1>1. l \in Seq(StepNames) /\ c \in Seq(StepNames) /\ m \in Seq(StepNames) /\ Len(l) = 5 /\ Len(c) = 4 /\ Len(m) = 2
    BY DEF StepNames
  <1>2. l[1] = "cdrom" /\ l[2] = "delete" /\ l[3] = "copy" /\ l[4] = "unmountCdrom" /\ l[5] = "read"
    OBVIOUS
  <1>3. c[1] = "configure" /\ c[2] = "setupDiskData" /\ c[3] = "mountPersistentDisk" /\ c[4] = "finish"
        /\ m[1] = "partition" /\ m[2] = "mount"
    OBVIOUS
  <1>4. Configure = l \o c /\ MountDiskSteps = l \o m
    BY DEF Configure, LoadSettings, MountDiskSteps
  <1> HIDE DEF l, c, m
  <1>5. /\ l \o c \in Seq(StepNames) /\ Len(l \o c) = Len(l) + Len(c)
        /\ \A i \in 1..(Len(l) + Len(c)) : (l \o c)[i] = IF i <= Len(l) THEN l[i] ELSE c[i - Len(l)]
    BY <1>1, ConcatProperties
  <1>6. /\ l \o m \in Seq(StepNames) /\ Len(l \o m) = Len(l) + Len(m)
        /\ \A i \in 1..(Len(l) + Len(m)) : (l \o m)[i] = IF i <= Len(l) THEN l[i] ELSE m[i - Len(l)]
    BY <1>1, ConcatProperties
  <1>7. Serve \in Seq(StepNames) /\ Len(Serve) = 1 /\ Serve[1] = "listen"
    BY DEF Serve, StepNames
  <1>8. /\ Configure \in Seq(StepNames) /\ Len(Configure) = 9
        /\ Configure \o Serve \in Seq(StepNames) /\ Len(Configure \o Serve) = Len(Configure) + Len(Serve)
        /\ \A i \in 1..(Len(Configure) + Len(Serve)) :
             (Configure \o Serve)[i] = IF i <= Len(Configure) THEN Configure[i] ELSE Serve[i - Len(Configure)]
    <2>1. Configure \in Seq(StepNames) /\ Len(Configure) = 9
      BY <1>1, <1>4, <1>5
    <2> QED
      BY <1>7, <2>1, ConcatProperties
  <1>9. /\ MigrateSteps \in Seq(StepNames) /\ UnmountSteps \in Seq(StepNames) /\ <<>> \in Seq(StepNames)
        /\ Len(MigrateSteps) = 6
        /\ MigrateSteps[1] = "unmountStore" /\ MigrateSteps[2] = "mountReadOnly" /\ MigrateSteps[3] = "copyData"
        /\ MigrateSteps[4] = "unmountStore" /\ MigrateSteps[5] = "unmountTarget" /\ MigrateSteps[6] = "mountStore"
        /\ UnmountSteps = <<"unmountDisk">>
    BY DEF MigrateSteps, UnmountSteps, StepNames
  <1>10. /\ DOMAIN StepsOf = {"none", "start"} \cup Requests
         /\ StepsOf["none"] = <<>> /\ StepsOf["start"] = Configure \o Serve
         /\ StepsOf["mount_disk"] = MountDiskSteps /\ StepsOf["migrate_disk"] = MigrateSteps
         /\ StepsOf["unmount_disk"] = UnmountSteps
    BY DEF StepsOf, Requests
  <1>11. \A name \in DOMAIN StepsOf : StepsOf[name] \in Seq(StepNames)
    BY <1>4, <1>6, <1>8, <1>9, <1>10 DEF Requests
  <1>12. LET s == StepsOf["start"]
         IN  /\ Len(s) = 10
             /\ s[1] = "cdrom" /\ s[2] = "delete" /\ s[3] = "copy" /\ s[4] = "unmountCdrom" /\ s[5] = "read"
             /\ s[6] = "configure" /\ s[7] = "setupDiskData" /\ s[8] = "mountPersistentDisk" /\ s[9] = "finish"
             /\ s[10] = "listen"
    <2>1. /\ Configure[1] = l[1] /\ Configure[2] = l[2] /\ Configure[3] = l[3]
          /\ Configure[4] = l[4] /\ Configure[5] = l[5]
      <3>1. \A i \in 1..5 : i \in 1..(Len(l) + Len(c)) /\ i <= Len(l)
        BY <1>1
      <3>2. \A i \in 1..5 : Configure[i] = l[i]
        BY <1>4, <1>5, <3>1
      <3> QED BY <3>2
    <2>2. Configure[6] = c[1] /\ Configure[7] = c[2] /\ Configure[8] = c[3] /\ Configure[9] = c[4]
      <3>1. \A i \in 6..9 : i \in 1..(Len(l) + Len(c)) /\ ~(i <= Len(l)) /\ i - Len(l) = i - 5
        BY <1>1
      <3>2. \A i \in 6..9 : Configure[i] = c[i - 5]
        BY <1>4, <1>5, <3>1
      <3> QED BY <3>2
    <2>3. \A i \in 1..9 : StepsOf["start"][i] = Configure[i]
      BY <1>7, <1>8, <1>10
    <2>4. Len(StepsOf["start"]) = 10 /\ StepsOf["start"][10] = "listen"
      BY <1>7, <1>8, <1>10
    <2> QED
      BY <1>2, <1>3, <2>1, <2>2, <2>3, <2>4
  <1>13. LET s == StepsOf["mount_disk"]
         IN  /\ Len(s) = 7
             /\ s[1] = "cdrom" /\ s[2] = "delete" /\ s[3] = "copy" /\ s[4] = "unmountCdrom" /\ s[5] = "read"
             /\ s[6] = "partition" /\ s[7] = "mount"
    <2>1. /\ MountDiskSteps[1] = l[1] /\ MountDiskSteps[2] = l[2] /\ MountDiskSteps[3] = l[3]
          /\ MountDiskSteps[4] = l[4] /\ MountDiskSteps[5] = l[5]
      <3>1. \A i \in 1..5 : i \in 1..(Len(l) + Len(m)) /\ i <= Len(l)
        BY <1>1
      <3>2. \A i \in 1..5 : MountDiskSteps[i] = l[i]
        BY <1>4, <1>6, <3>1
      <3> QED BY <3>2
    <2>2. Len(MountDiskSteps) = 7 /\ MountDiskSteps[6] = m[1] /\ MountDiskSteps[7] = m[2]
      BY <1>1, <1>4, <1>6
    <2> QED
      BY <1>2, <1>3, <1>10, <2>1, <2>2
  <1> QED
    BY <1>9, <1>10, <1>11, <1>12, <1>13

\* What runs is at the step that its number of steps left tells.
LEMMA NextStep ==
  ASSUME HostTypeOK, RunningInv, ~Idle
  PROVE  LET now == Head(running.todo)
         IN  /\ Left \in Nat \ {0} /\ running.name \in {"start"} \cup Requests
             /\ running.name = "start" =>
                  /\ Left \in 1..10
                  /\ Left = 10 => now = "cdrom"
                  /\ Left = 9 => now = "delete"
                  /\ Left = 8 => now = "copy"
                  /\ Left = 7 => now = "unmountCdrom"
                  /\ Left = 6 => now = "read"
                  /\ Left = 5 => now = "configure"
                  /\ Left = 4 => now = "setupDiskData"
                  /\ Left = 3 => now = "mountPersistentDisk"
                  /\ Left = 2 => now = "finish"
                  /\ Left = 1 => now = "listen"
             /\ running.name = "mount_disk" =>
                  /\ Left \in 1..7
                  /\ Left = 7 => now = "cdrom"
                  /\ Left = 6 => now = "delete"
                  /\ Left = 5 => now = "copy"
                  /\ Left = 4 => now = "unmountCdrom"
                  /\ Left = 3 => now = "read"
                  /\ Left = 2 => now = "partition"
                  /\ Left = 1 => now = "mount"
             /\ running.name = "migrate_disk" =>
                  /\ Left \in 1..6
                  /\ Left = 6 => now = "unmountStore"
                  /\ Left = 5 => now = "mountReadOnly"
                  /\ Left = 4 => now = "copyData"
                  /\ Left = 3 => now = "unmountStore"
                  /\ Left = 2 => now = "unmountTarget"
                  /\ Left = 1 => now = "mountStore"
             /\ running.name = "unmount_disk" => Left = 1 /\ now = "unmountDisk"
  <1> DEFINE steps == StepsOf[running.name]
  <1>1. running.todo \in Seq(StepNames) /\ running.todo # <<>>
    BY DEF RunningInv, Idle
  <1>2. Left \in Nat \ {0} /\ Left <= Len(steps) /\ Head(running.todo) = running.todo[1]
    BY <1>1 DEF RunningInv, Left
  <1>3. Head(running.todo) = steps[Len(steps) - Left + 1]
    BY <1>2 DEF RunningInv
  <1>4. running.name \in {"start"} \cup Requests
    BY <1>2, StepTable DEF RunningInv, HostTypeOK
  <1>5. CASE running.name = "start"
    <2> DEFINE s == StepsOf["start"]
    <2>1. Len(s) = 10
      BY StepTable
    <2>2. Left \in 1..10 /\ Head(running.todo) = s[11 - Left]
      BY <1>2, <1>3, <1>5, <2>1
    <2>3. /\ Left = 10 => Head(running.todo) = s[1]
          /\ Left = 9 => Head(running.todo) = s[2]
          /\ Left = 8 => Head(running.todo) = s[3]
          /\ Left = 7 => Head(running.todo) = s[4]
          /\ Left = 6 => Head(running.todo) = s[5]
          /\ Left = 5 => Head(running.todo) = s[6]
          /\ Left = 4 => Head(running.todo) = s[7]
          /\ Left = 3 => Head(running.todo) = s[8]
          /\ Left = 2 => Head(running.todo) = s[9]
          /\ Left = 1 => Head(running.todo) = s[10]
      BY <2>2
    <2>4. s[1] = "cdrom" /\ s[2] = "delete" /\ s[3] = "copy" /\ s[4] = "unmountCdrom" /\ s[5] = "read"
          /\ s[6] = "configure" /\ s[7] = "setupDiskData" /\ s[8] = "mountPersistentDisk" /\ s[9] = "finish" /\ s[10] = "listen"
      BY StepTable
    <2> HIDE DEF s
    <2> QED
      BY <1>2, <1>4, <1>5, <2>2, <2>3, <2>4
  <1>6. CASE running.name = "mount_disk"
    <2> DEFINE s == StepsOf["mount_disk"]
    <2>1. Len(s) = 7
      BY StepTable
    <2>2. Left \in 1..7 /\ Head(running.todo) = s[8 - Left]
      BY <1>2, <1>3, <1>6, <2>1
    <2>3. /\ Left = 7 => Head(running.todo) = s[1]
          /\ Left = 6 => Head(running.todo) = s[2]
          /\ Left = 5 => Head(running.todo) = s[3]
          /\ Left = 4 => Head(running.todo) = s[4]
          /\ Left = 3 => Head(running.todo) = s[5]
          /\ Left = 2 => Head(running.todo) = s[6]
          /\ Left = 1 => Head(running.todo) = s[7]
      BY <2>2
    <2>4. s[1] = "cdrom" /\ s[2] = "delete" /\ s[3] = "copy" /\ s[4] = "unmountCdrom" /\ s[5] = "read"
          /\ s[6] = "partition" /\ s[7] = "mount"
      BY StepTable
    <2> HIDE DEF s
    <2> QED
      BY <1>2, <1>4, <1>6, <2>2, <2>3, <2>4
  <1>7. CASE running.name = "migrate_disk"
    <2> DEFINE s == StepsOf["migrate_disk"]
    <2>1. Len(s) = 6
      BY StepTable
    <2>2. Left \in 1..6 /\ Head(running.todo) = s[7 - Left]
      BY <1>2, <1>3, <1>7, <2>1
    <2>3. /\ Left = 6 => Head(running.todo) = s[1]
          /\ Left = 5 => Head(running.todo) = s[2]
          /\ Left = 4 => Head(running.todo) = s[3]
          /\ Left = 3 => Head(running.todo) = s[4]
          /\ Left = 2 => Head(running.todo) = s[5]
          /\ Left = 1 => Head(running.todo) = s[6]
      BY <2>2
    <2>4. s[1] = "unmountStore" /\ s[2] = "mountReadOnly" /\ s[3] = "copyData" /\ s[4] = "unmountStore" /\ s[5] = "unmountTarget"
          /\ s[6] = "mountStore"
      BY StepTable
    <2> HIDE DEF s
    <2> QED
      BY <1>2, <1>4, <1>7, <2>2, <2>3, <2>4
  <1>8. CASE running.name = "unmount_disk"
    <2>1. steps = <<"unmountDisk">> /\ Len(steps) = 1 /\ steps[1] = "unmountDisk"
      BY <1>8, StepTable
    <2> QED
      BY <1>2, <1>3, <1>8, <2>1 DEF Requests
  <1> QED
    BY <1>4, <1>5, <1>6, <1>7, <1>8, <1>2 DEF Requests

\* A step that succeeds is taken from the rest of its request.
LEMMA Progress ==
  ASSUME HostTypeOK, RunningInv, Succeed
  PROVE  /\ ~Idle
         /\ Left = 1 => running' = NotRunning
         /\ Left # 1 => running'.name = running.name /\ running'.args = running.args /\ Left' = Left - 1
         /\ serving' = IF running.name = "start" /\ Left = 1 THEN "up" ELSE serving
         /\ RunningInv'
  <1> DEFINE steps == StepsOf[running.name]
             t == running.todo
  <1>1. ~Idle /\ t \in Seq(StepNames) /\ t # <<>> /\ Left \in Nat \ {0} /\ Left <= Len(steps) /\ Len(steps) \in Nat
    <2>1. ~Idle /\ t \in Seq(StepNames) /\ t # <<>> /\ Left <= Len(steps)
      BY DEF Succeed, RunningInv, Idle
    <2>2. Len(steps) \in Nat
      <3>1. running.name \in DOMAIN StepsOf
        BY DEF HostTypeOK
      <3>2. steps \in Seq(StepNames)
        BY <3>1, StepTable
      <3> QED
        BY <3>2
    <2> QED
      BY <2>1, <2>2, NextStep
  <1>2. serving' = IF running.name = "start" /\ Left = 1 THEN "up" ELSE serving
    BY <1>1, NextStep DEF Succeed, Requests
  <1>3. CASE Left = 1
    <2>1. running' = NotRunning
      BY <1>3 DEF Succeed, Left
    <2>2. running'.name = "none" /\ running'.todo = <<>> /\ Left' = 0 /\ running' = [name |-> running'.name, todo |-> running'.todo, args |-> running'.args]
      BY <2>1 DEF NotRunning, Runs, Left
    <2>3. serving' # "boot"
      BY <1>2, <1>3, <1>1, NextStep DEF RunningInv
    <2> QED
      BY <1>1, <1>2, <1>3, <2>1, <2>2, <2>3, StepTable DEF RunningInv, Requests
  <1>4. CASE Left # 1
    <2>1. running' = [running EXCEPT !.todo = Tail(t)]
      BY <1>4 DEF Succeed, Left
    <2>2. running' = [name |-> running.name, todo |-> Tail(t), args |-> running.args]
      BY <2>1 DEF RunningInv
    <2>3. Tail(t) \in Seq(StepNames) /\ Len(Tail(t)) = Left - 1 /\ \A i \in 1..(Left - 1) : Tail(t)[i] = t[i + 1]
      BY <1>1 DEF Left
    <2>4. Left' = Left - 1 /\ running'.name = running.name /\ running'.todo = Tail(t) /\ running'.args = running.args
      BY <2>2, <2>3 DEF Left
    <2>5. \A i \in 1..Left' : running'.todo[i] = steps[Len(steps) - Left' + i]
      <3> TAKE i \in 1..Left'
      <3>1. running'.todo[i] = t[i + 1] /\ i + 1 \in 1..Left
        BY <1>1, <2>3, <2>4
      <3>2. t[i + 1] = steps[Len(steps) - Left + (i + 1)]
        BY <3>1 DEF RunningInv
      <3>3. \A n, k, j \in Int : n - k + (j + 1) = n - (k - 1) + j
        OBVIOUS
      <3>4. i \in Int /\ Left \in Int /\ Len(steps) \in Int
        BY <1>1, <2>4
      <3>5. Len(steps) - Left + (i + 1) = Len(steps) - (Left - 1) + i
        BY ONLY <3>3, <3>4
      <3> QED
        BY <2>4, <3>1, <3>2, <3>5
    <2>6. serving' = serving
      BY <1>2, <1>4
    <2> QED
      BY <1>1, <1>2, <1>4, <2>2, <2>3, <2>4, <2>5, <2>6 DEF RunningInv
  <1> QED
    BY <1>1, <1>2, <1>3, <1>4

\* The service starts at one of two steps, a request at its first.
LEMMA RunningKept == HostTypeOK /\ RunningInv /\ [SetupNext]_setupVars => RunningInv'
  <1> SUFFICES ASSUME HostTypeOK, RunningInv, [SetupNext]_setupVars PROVE RunningInv'
    OBVIOUS
  <1>1. CASE ServiceStarts
    <2> DEFINE todo == (IF settingsFile = Absent THEN Configure ELSE <<>>) \o Serve
               steps == StepsOf["start"]
    <2>1. running' = [name |-> "start", todo |-> todo, args |-> <<>>] /\ serving' = "boot"
      BY <1>1 DEF ServiceStarts, Runs
    <2>2. steps = Configure \o Serve /\ steps \in Seq(StepNames) /\ Len(steps) = 10 /\ steps[10] = "listen"
      <3>1. steps = Configure \o Serve
        BY DEF StepsOf
      <3>2. steps \in Seq(StepNames)
        BY StepTable
      <3>3. Len(steps) = 10 /\ steps[10] = "listen"
        BY StepTable
      <3> QED
        BY <3>1, <3>2, <3>3
    <2>3. /\ todo \in Seq(StepNames) /\ Len(todo) \in 1..10
          /\ \A i \in 1..Len(todo) : todo[i] = steps[10 - Len(todo) + i]
      <3>1. CASE settingsFile = Absent
        BY <2>2, <3>1
      <3>2. CASE settingsFile # Absent
        <4>1. Serve \in Seq(StepNames) /\ Len(Serve) = 1 /\ Serve[1] = "listen"
          BY DEF Serve, StepNames
        <4>2. todo = Serve
          BY <3>2, <4>1, ConcatEmptySeq
        <4>3. Len(todo) = 1 /\ todo[1] = steps[10]
          BY <2>2, <4>1, <4>2
        <4>4. \A i \in 1..1 : i = 1 /\ 10 - 1 + i = 10
          OBVIOUS
        <4> HIDE DEF todo, steps
        <4>5. todo \in Seq(StepNames) /\ Len(todo) \in 1..10
          BY <4>1, <4>2
        <4> QED
          BY <4>3, <4>4, <4>5
      <3> QED
        BY <3>1, <3>2
    <2> HIDE DEF todo, steps
    <2>4. running'.name = "start" /\ running'.todo = todo /\ running'.args = <<>> /\ Left' = Len(todo)
      BY <2>1 DEF Left
    <2>5. \A i \in 1..Left' : running'.todo[i] = StepsOf[running'.name][Len(StepsOf[running'.name]) - Left' + i]
      BY <2>2, <2>3, <2>4 DEF steps
    <2>6. Left' \in 1..10 /\ Len(StepsOf[running'.name]) = 10
      BY <2>2, <2>3, <2>4 DEF steps
    <2>7. running' = [name |-> running'.name, todo |-> running'.todo, args |-> running'.args]
      BY <2>1, <2>4
    <2>8. running'.todo \in Seq(StepNames) /\ Left' <= Len(StepsOf[running'.name])
      BY <2>3, <2>4, <2>6
    <2>9. /\ Left' = 0 <=> running'.name = "none"
          /\ running'.name = "start" <=> serving' = "boot"
          /\ running'.name \notin Requests
          /\ running'.name \notin {"mount_disk", "unmount_disk", "migrate_disk"}
      BY <2>1, <2>4, <2>6 DEF Requests
    <2> QED
      BY <2>5, <2>7, <2>8, <2>9 DEF RunningInv
  <1>2. ASSUME NEW name, NEW args, Request(name, StepsOf[name], args), name \in Requests,
               StepsOf[name] \in Seq(StepNames), Len(StepsOf[name]) > 0,
               name \in {"mount_disk", "unmount_disk"} => args[1] \in Disks,
               name = "migrate_disk" => args[1] \in Disks /\ args[2] \in Disks /\ args[1] # args[2]
        PROVE  RunningInv'
    <2>1. running' = [name |-> name, todo |-> StepsOf[name], args |-> args] /\ serving' = "up"
      BY <1>2 DEF Request, Runs
    <2>2. running'.name = name /\ running'.todo = StepsOf[name] /\ running'.args = args /\ Left' = Len(StepsOf[name])
      BY <2>1 DEF Left
    <2>3. Len(StepsOf[name]) \in Nat /\ \A i \in 1..Len(StepsOf[name]) : Len(StepsOf[name]) - Len(StepsOf[name]) + i = i
      BY <1>2
    <2> QED
      BY <1>2, <2>1, <2>2, <2>3 DEF RunningInv, Requests
  <1>3. ASSUME NEW d \in Disks, MountDisk(d) PROVE RunningInv'
    <2>1. Request("mount_disk", StepsOf["mount_disk"], <<d>>)
      BY <1>3 DEF MountDisk, StepsOf
    <2>2. StepsOf["mount_disk"] \in Seq(StepNames) /\ Len(StepsOf["mount_disk"]) > 0
      BY StepTable DEF Requests
    <2> QED
      BY <1>2, <2>1, <2>2 DEF Requests
  <1>4. ASSUME NEW d \in Disks, UnmountDisk(d) PROVE RunningInv'
    <2>1. Request("unmount_disk", StepsOf["unmount_disk"], <<d>>)
      BY <1>4 DEF UnmountDisk, StepsOf
    <2>2. StepsOf["unmount_disk"] \in Seq(StepNames) /\ Len(StepsOf["unmount_disk"]) > 0
      BY DEF StepsOf, UnmountSteps, StepNames
    <2> QED
      BY <1>2, <2>1, <2>2 DEF Requests
  <1>5. ASSUME NEW old \in Disks, NEW new \in Disks, MigrateDisk(old, new) PROVE RunningInv'
    <2>1. Request("migrate_disk", StepsOf["migrate_disk"], <<old, new>>) /\ old # new
      BY <1>5 DEF MigrateDisk, StepsOf
    <2>2. StepsOf["migrate_disk"] \in Seq(StepNames) /\ Len(StepsOf["migrate_disk"]) > 0
      BY StepTable DEF Requests
    <2> QED
      BY <1>2, <2>1, <2>2 DEF Requests
  <1>6. CASE Succeed
    BY <1>6, Progress
  <1>7. CASE Fail \/ FailInevitably
    <2>1. running' = [name |-> "none", todo |-> <<>>, args |-> <<>>] /\ serving' = "down"
      BY <1>7 DEF Fail, FailInevitably, Ends, NotRunning, Runs
    <2>2. running'.name = "none" /\ running'.todo = <<>> /\ running'.args = <<>> /\ Left' = 0
      BY <2>1 DEF Left
    <2> QED
      BY <2>1, <2>2, StepTable DEF RunningInv, Requests
  <1>8. CASE ServiceStops
    BY <1>8 DEF ServiceStops, RunningInv, Idle, Requests, Left
  <1>9. CASE UNCHANGED <<running, serving>>
    BY <1>9 DEF RunningInv, Left
  <1>10. \A d \in Disks : Attach(d) \/ Detach(d) => UNCHANGED <<running, serving>>
    BY DEF Attach, Detach
  <1>11. \A i \in Items : ServiceWrites(i) => UNCHANGED <<running, serving>>
    BY DEF ServiceWrites
  <1>12. ServiceDoesNotStart \/ UNCHANGED setupVars => UNCHANGED <<running, serving>>
    BY DEF ServiceDoesNotStart, setupVars
  <1> QED
    BY <1>1, <1>3, <1>4, <1>5, <1>6, <1>7, <1>8, <1>9, <1>10, <1>11, <1>12 DEF SetupNext

\* What a step does to the disks keeps their types.
LEMMA DiskStepTypes ==
  ASSUME HostTypeOK, RunningInv, ~Idle, CanDo(Head(running.todo)), DiskStep(Head(running.todo))
  PROVE  /\ partitioned' \subseteq Disks /\ readOnly' \subseteq Disks
         /\ mount' \in [Disks -> {NoMount, StoreDir, TargetDir}]
         /\ holds' \in [Disks -> SUBSET Items]
  <1> DEFINE now == Head(running.todo)
             Goal == /\ partitioned' \subseteq Disks /\ readOnly' \subseteq Disks
                     /\ mount' \in [Disks -> {NoMount, StoreDir, TargetDir}]
                     /\ holds' \in [Disks -> SUBSET Items]
             a == running.args
  <1> USE DEF HostTypeOK
  <1>1. /\ now \in {"partition", "mount", "mountReadOnly", "unmountDisk"} => a[1] \in Disks
        /\ now = "mountStore" => a[2] \in Disks
        /\ now = "mountPersistentDisk" /\ settings # {} => First \in Disks
    <2>1. /\ now \in {"partition", "mount"} => running.name = "mount_disk"
          /\ now = "unmountDisk" => running.name = "unmount_disk"
          /\ now \in {"mountReadOnly", "mountStore"} => running.name = "migrate_disk"
      BY NextStep DEF Requests
    <2>2. /\ running.name \in {"mount_disk", "unmount_disk"} => a[1] \in Disks
          /\ running.name = "migrate_disk" => a[1] \in Disks /\ a[2] \in Disks
      BY DEF RunningInv
    <2>3. now = "mountPersistentDisk" /\ settings # {} => First \in Disks
      BY DEF CanDo, Known
    <2> QED
      BY <2>1, <2>2, <2>3
  <1>2. MountPlace \in {StoreDir, TargetDir}
    BY DEF MountPlace
  <1>3. CASE now = "partition" /\ partitioned' = partitioned \cup {a[1]} /\ UNCHANGED <<readOnly, mount, holds>>
    BY <1>1, <1>3
  <1>4. CASE now = "mount" /\ MountPartition(a[1], MountPlace) /\ UNCHANGED <<partitioned, holds>>
    BY <1>1, <1>2, <1>4 DEF MountPartition, AssignMount
  <1>5. CASE /\ now = "mountPersistentDisk"
             /\ IF settings = {} THEN UNCHANGED diskVars
                ELSE MountPartition(First, StoreDir) /\ partitioned' = partitioned \cup {First} /\ UNCHANGED holds
    BY <1>1, <1>5 DEF MountPartition, AssignMount, diskVars
  <1>6. CASE Unmounts(StoreDir) \/ Unmounts(TargetDir) \/ Unmounts(mount[a[1]])
    BY <1>6 DEF Unmounts
  <1>7. CASE now = "mountReadOnly" /\ MountReadOnly(a[1], StoreDir) /\ UNCHANGED <<partitioned, holds>>
    BY <1>1, <1>7 DEF MountReadOnly, AssignMount
  <1>8. CASE CopyData /\ UNCHANGED <<partitioned, readOnly, mount>>
    <2>1. \A d \in Disks : UNION {holds[s] : s \in MountedAt(StoreDir)} \in SUBSET Items
      BY DEF MountedAt
    <2> QED
      BY <1>8, <2>1 DEF CopyData
  <1>9. CASE now = "mountStore" /\ MountPartition(a[2], StoreDir) /\ UNCHANGED <<partitioned, holds>>
    BY <1>1, <1>9 DEF MountPartition, AssignMount
  <1>10. CASE UNCHANGED diskVars
    BY <1>10 DEF diskVars
  <1> QED
    BY <1>3, <1>4, <1>5, <1>6, <1>7, <1>8, <1>9, <1>10 DEF DiskStep

\* Every step keeps the types.
LEMMA HostTypesKept == HostTypeOK /\ RunningInv /\ [SetupNext]_setupVars => HostTypeOK'
  <1> SUFFICES ASSUME HostTypeOK, RunningInv, [SetupNext]_setupVars PROVE HostTypeOK'
    OBVIOUS
  <1>1. running'.name \in DOMAIN StepsOf
    <2>1. {"none", "start", "mount_disk", "migrate_disk", "unmount_disk"} \subseteq DOMAIN StepsOf
      BY StepTable DEF Requests
    <2>2. \A name, todo, args : running' = Runs(name, todo, args) => running'.name = name
      BY DEF Runs
    <2>3. CASE Succeed
      BY <2>1, <2>2, <2>3, Progress DEF NotRunning, HostTypeOK
    <2>4. CASE ~Succeed /\ SetupNext
      <3>1. CASE ServiceStarts
        BY <2>1, <2>2, <3>1 DEF ServiceStarts
      <3>2. CASE \E d \in Disks : MountDisk(d) \/ UnmountDisk(d)
        BY <2>1, <2>2, <3>2 DEF MountDisk, UnmountDisk, Request
      <3>3. CASE \E old, new \in Disks : MigrateDisk(old, new)
        BY <2>1, <2>2, <3>3 DEF MigrateDisk, Request
      <3>4. CASE Fail \/ FailInevitably
        BY <2>1, <2>2, <3>4 DEF Fail, FailInevitably, Ends, NotRunning
      <3>5. CASE UNCHANGED running
        BY <3>5 DEF HostTypeOK
      <3>6. \A d \in Disks : Attach(d) \/ Detach(d) => UNCHANGED running
        BY DEF Attach, Detach
      <3>7. \A i \in Items : ServiceWrites(i) => UNCHANGED running
        BY DEF ServiceWrites
      <3>8. ServiceDoesNotStart \/ ServiceStops => UNCHANGED running
        BY DEF ServiceDoesNotStart, ServiceStops, setupVars
      <3> QED
        BY <2>4, <3>1, <3>2, <3>3, <3>4, <3>5, <3>6, <3>7, <3>8 DEF SetupNext
    <2>5. CASE UNCHANGED setupVars
      BY <2>5 DEF setupVars, HostTypeOK
    <2> QED
      BY <2>3, <2>4, <2>5
  <1> USE DEF HostTypeOK
  <1>2. CASE ServiceStarts
    BY <1>1, <1>2 DEF ServiceStarts, hostVars, diskVars
  <1>3. CASE \E d \in Disks : MountDisk(d) \/ UnmountDisk(d)
    BY <1>1, <1>3 DEF MountDisk, UnmountDisk, Request, fileVars, hostVars, diskVars
  <1>4. CASE \E old, new \in Disks : MigrateDisk(old, new)
    BY <1>1, <1>4 DEF MigrateDisk, Request, fileVars, hostVars, diskVars
  <1>5. CASE Succeed
    <2>1. CanDo(Head(running.todo)) /\ FileStep(Head(running.todo)) /\ DiskStep(Head(running.todo)) /\ HostStep(Head(running.todo)) /\ ~Idle
      BY <1>5 DEF Succeed
    <2>2. settingsFile' \in (SUBSET Disks) \cup {Absent, Torn} /\ settings' \in (SUBSET Disks) \cup {Absent, Torn}
      <3>1. settingsFile' = Absent \/ settingsFile' = attached \/ settingsFile' = settingsFile
        BY <2>1 DEF FileStep
      <3>2. settings' = settingsFile \/ settings' = settings
        BY <2>1 DEF FileStep
      <3>3. attached \in SUBSET Disks
        OBVIOUS
      <3> QED
        BY <3>1, <3>2, <3>3
    <2>3. configured' \in BOOLEAN /\ dataMounted' \in BOOLEAN /\ dataFailed' \in BOOLEAN
      BY <2>1 DEF HostStep
    <2>4. attached' = attached /\ bootCut' = bootCut /\ migrateCut' = migrateCut \cap readOnly'
      BY <1>5 DEF Succeed
    <2>5. serving' \in {"down", "boot", "up"}
      BY <1>5, Progress
    <2> QED
      BY <1>1, <2>1, <2>2, <2>3, <2>4, <2>5, DiskStepTypes
  <1>6. CASE Fail
    <2> DEFINE now == Head(running.todo)
    <2>1. CanDo(now) /\ Leaves(now) /\ ~Idle
      BY <1>6 DEF Fail
    <2>2. settingsFile' \in (SUBSET Disks) \cup {Absent, Torn}
      <3>1. settingsFile' = settingsFile \/ settingsFile' = Torn
        BY <2>1 DEF Leaves
      <3> QED
        BY <3>1
    <2>3. /\ partitioned' \subseteq Disks /\ readOnly' \subseteq Disks
          /\ mount' \in [Disks -> {NoMount, StoreDir, TargetDir}]
          /\ holds' \in [Disks -> SUBSET Items]
      <3>1. CASE UNCHANGED diskVars
        BY <3>1 DEF diskVars
      <3>2. CASE DiskStep(now)
        BY <2>1, <3>2, DiskStepTypes
      <3>3. CASE /\ \E d \in MountedAt(TargetDir), s \in MountedAt(StoreDir), kept \in SUBSET Items :
                      kept \subseteq holds[s] \cup holds[d] /\ holds' = [holds EXCEPT ![d] = kept]
                 /\ UNCHANGED <<settingsFile, partitioned, readOnly, mount>>
        BY <3>3 DEF MountedAt
      <3> QED
        BY <2>1, <3>1, <3>2, <3>3 DEF Leaves
    <2>4. bootCut' \in BOOLEAN /\ serving' = "down" /\ migrateCut' \subseteq Disks
      BY <1>6, <2>3 DEF Fail, Ends, LeavesSettings
    <2> QED
      BY <1>1, <1>6, <2>2, <2>3, <2>4 DEF Fail
  <1>7. CASE FailInevitably
    <2>1. bootCut' \in BOOLEAN /\ serving' = "down"
      BY <1>7 DEF FailInevitably, Ends, LeavesSettings
    <2>2. migrateCut' \subseteq Disks
      BY <1>7 DEF FailInevitably, Ends, diskVars
    <2> QED
      BY <1>1, <1>7, <2>1, <2>2 DEF FailInevitably, diskVars
  <1>8. CASE ServiceStops
    BY <1>1, <1>8 DEF ServiceStops, fileVars, hostVars, diskVars
  <1>9. ASSUME NEW d \in Disks, Attach(d) \/ Detach(d) PROVE HostTypeOK'
    BY <1>1, <1>9 DEF Attach, Detach, fileVars, hostVars, diskVars
  <1>10. ASSUME NEW i \in Items, ServiceWrites(i) PROVE HostTypeOK'
    BY <1>1, <1>10 DEF ServiceWrites, fileVars, hostVars, MountedAt
  <1>11. CASE ServiceDoesNotStart \/ UNCHANGED setupVars
    BY <1>11 DEF ServiceDoesNotStart, setupVars, fileVars, hostVars, diskVars
  <1> HIDE DEF HostTypeOK
  <1> QED
    BY <1>2, <1>3, <1>4, <1>5, <1>6, <1>7, <1>8, <1>9, <1>10, <1>11 DEF SetupNext

\* Once the host is set up it stays so.
LEMMA SetUpStays == HostTypeOK /\ SetUp /\ [SetupNext]_setupVars => SetUp'
  <1> SUFFICES ASSUME HostTypeOK, SetUp, [SetupNext]_setupVars PROVE SetUp'
    OBVIOUS
  <1>1. CASE UNCHANGED hostVars
    BY <1>1 DEF SetUp, hostVars
  <1>2. CASE Succeed
    <2>1. HostStep(Head(running.todo)) /\ bootCut' = bootCut
      BY <1>2 DEF Succeed
    <2>2. (configured => configured') /\ (dataMounted => dataMounted') /\ (dataFailed => dataFailed')
      BY <2>1 DEF HostStep, HostTypeOK
    <2> QED
      BY <2>1, <2>2 DEF SetUp
  <1>3. CASE Fail \/ FailInevitably
    <2>1. UNCHANGED <<configured, dataMounted, dataFailed>> /\ (bootCut => bootCut')
      BY <1>3 DEF Fail, FailInevitably, Ends
    <2> QED
      BY <2>1 DEF SetUp
  <1>4. ServiceStarts \/ ServiceDoesNotStart \/ ServiceStops \/ UNCHANGED setupVars => UNCHANGED hostVars
    BY DEF ServiceStarts, ServiceDoesNotStart, ServiceStops, setupVars
  <1>5. \A d \in Disks : MountDisk(d) \/ UnmountDisk(d) \/ Attach(d) \/ Detach(d) => UNCHANGED hostVars
    BY DEF MountDisk, UnmountDisk, Request, Attach, Detach
  <1>6. \A old, new \in Disks : MigrateDisk(old, new) => UNCHANGED hostVars
    BY DEF MigrateDisk, Request
  <1>7. \A i \in Items : ServiceWrites(i) => UNCHANGED hostVars
    BY DEF ServiceWrites
  <1> QED
    BY <1>1, <1>2, <1>3, <1>4, <1>5, <1>6, <1>7 DEF SetupNext

\* What ends leaves a host without settings.json, one that is set up, or
\* notes that it is not.
LEMMA EndsSetUp ==
  ASSUME HostTypeOK, RunningInv, SetupOrder, ~Idle, Ends, UNCHANGED <<configured, dataMounted, dataFailed>>
  PROVE  settingsFile' \notin {Absent, Torn} => SetUp'
  <1> SUFFICES ASSUME settingsFile' \notin {Absent, Torn} PROVE SetUp'
    OBVIOUS
  <1>1. bootCut => bootCut'
    BY DEF Ends
  <1>2. CASE SetUp
    BY <1>1, <1>2 DEF SetUp
  <1>3. CASE ~SetUp
    <2>1. running.name = "start" /\ Left \in 4..10
      BY <1>3, NextStep DEF SetupOrder, RunningInv, Requests
    <2>2. running.todo \in Seq(StepNames) /\ Len(StepsOf["start"]) = 10 /\ StepsOf["start"][9] = "finish"
      BY StepTable DEF RunningInv
    <2>3. Left - 1 \in 1..Left /\ 10 - Left + (Left - 1) = 9
      BY <2>1
    <2>4. running.todo[Left - 1] = "finish"
      BY <2>1, <2>2, <2>3 DEF RunningInv
    <2>5. "finish" \in ToSet(running.todo)
      BY <2>2, <2>3, <2>4 DEF ToSet, Left
    <2>6. bootCut'
      BY <2>5 DEF Ends, LeavesSettings
    <2> QED
      BY <2>6 DEF SetUp
  <1> QED
    BY <1>2, <1>3

\* The agent serves, and settings.json stays, on a host that is set up.
LEMMA SetupOrderKept == HostTypeOK /\ RunningInv /\ SetupOrder /\ [SetupNext]_setupVars => SetupOrder'
  <1> SUFFICES ASSUME HostTypeOK, RunningInv, SetupOrder, [SetupNext]_setupVars PROVE SetupOrder'
    OBVIOUS
  <1>1. CASE SetUp
    <2>1. SetUp'
      BY <1>1, SetUpStays
    <2> QED
      BY <2>1 DEF SetUp, SetupOrder
  <1>2. CASE ~SetUp
    <2>1. serving # "up" /\ (serving = "down" => settingsFile \in {Absent, Torn})
      BY <1>2 DEF SetupOrder
    <2>2. CASE ServiceStarts
      <3>1. settingsFile = Absent
        BY <2>1, <2>2 DEF ServiceStarts
      <3>2. running'.todo = Configure \o Serve /\ serving' = "boot"
        BY <2>2, <3>1 DEF ServiceStarts, Runs
      <3>3. Left' = 10
        BY <3>2, StepTable DEF StepsOf, Left
      <3> QED
        BY <3>2, <3>3 DEF SetupOrder
    <2>3. CASE Succeed
      <3>1. running.name = "start" /\ Left \in 4..10
        BY <1>2, <2>1, <2>3, Progress, NextStep DEF SetupOrder, RunningInv, Requests
      <3>2. Left' = Left - 1 /\ serving' = "boot" /\ bootCut' = bootCut
        BY <2>3, <3>1, Progress DEF RunningInv, Succeed
      <3>3. HostStep(Head(running.todo))
        BY <2>3 DEF Succeed
      <3>4. (configured => configured') /\ (Left = 5 => configured')
        BY <2>3, <3>1, <3>3, Progress, NextStep DEF HostStep, HostTypeOK
      <3>5. Left = 4 => dataMounted' \/ dataFailed'
        BY <2>3, <3>1, <3>3, Progress, NextStep DEF HostStep
      <3>6. Left = 4 => configured' \/ bootCut'
        BY <3>1, <3>2, <3>4 DEF SetupOrder
      <3>7. Left = 5 => configured' \/ bootCut'
        BY <3>4
      <3> QED
        BY <3>1, <3>2, <3>5, <3>6, <3>7 DEF SetupOrder, SetUp
    <2>4. CASE Fail \/ FailInevitably
      <3>1. ~Idle /\ Ends /\ UNCHANGED <<configured, dataMounted, dataFailed>>
        BY <2>4 DEF Fail, FailInevitably
      <3>2. settingsFile' \notin {Absent, Torn} => SetUp'
        BY <3>1, EndsSetUp
      <3>3. serving' = "down" /\ running'.name = "none"
        BY <3>1 DEF Ends, NotRunning, Runs
      <3> QED
        BY <3>2, <3>3 DEF SetupOrder
    <2>5. CASE UNCHANGED <<serving, running, settingsFile, hostVars>>
      BY <1>2, <2>5 DEF SetupOrder, SetUp, hostVars, Left
    <2>6. ServiceDoesNotStart \/ UNCHANGED setupVars => UNCHANGED <<serving, running, settingsFile, hostVars>>
      BY DEF ServiceDoesNotStart, setupVars, fileVars
    <2>7. \A d \in Disks : ~MountDisk(d) /\ ~UnmountDisk(d)
      BY <2>1 DEF MountDisk, UnmountDisk, Request
    <2>8. \A old, new \in Disks : ~MigrateDisk(old, new)
      BY <2>1 DEF MigrateDisk, Request
    <2>9. \A d \in Disks : Attach(d) \/ Detach(d) => UNCHANGED <<serving, running, settingsFile, hostVars>>
      BY DEF Attach, Detach, fileVars
    <2>10. \A i \in Items : ServiceWrites(i) => UNCHANGED <<serving, running, settingsFile, hostVars>>
      BY DEF ServiceWrites, fileVars
    <2>11. ~ServiceStops
      BY <2>1 DEF ServiceStops
    <2> QED
      BY <2>2, <2>3, <2>4, <2>5, <2>6, <2>7, <2>8, <2>9, <2>10, <2>11 DEF SetupNext
  <1> QED
    BY <1>1, <1>2

\* A step mounts a disk that is attached, and none read-only at the store
\* but "mountReadOnly"; "unmountStore" leaves none there.
LEMMA StepMounts ==
  ASSUME HostTypeOK, RunningInv, MountedIsAttached, ~Idle,
         CanDo(Head(running.todo)), DiskStep(Head(running.todo)), NEW d \in Disks
  PROVE  LET now == Head(running.todo)
         IN  /\ mount'[d] # NoMount => d \in attached
             /\ d \in readOnly' /\ mount'[d] = StoreDir
                  => \/ d \in readOnly /\ mount[d] = StoreDir /\ now # "unmountStore"
                     \/ now = "mountReadOnly"
  <1> DEFINE now == Head(running.todo)
             a == running.args
             Goal == /\ mount'[d] # NoMount => d \in attached
                     /\ d \in readOnly' /\ mount'[d] = StoreDir
                          => \/ d \in readOnly /\ mount[d] = StoreDir /\ now # "unmountStore"
                             \/ now = "mountReadOnly"
  <1> USE DEF HostTypeOK
  <1>1. mount[d] # NoMount => d \in attached
    BY DEF MountedIsAttached
  <1>2. ASSUME NEW p \in {NoMount, StoreDir, TargetDir}, p # NoMount, Unmounts(p), now = "unmountStore" => p = StoreDir
        PROVE Goal
    <2>1. mount'[d] = IF mount[d] = p THEN NoMount ELSE mount[d]
      BY <1>2 DEF Unmounts
    <2>2. readOnly' = readOnly /\ NoMount # StoreDir
      BY <1>2 DEF Unmounts, NoMount, StoreDir
    <2> QED
      BY <1>1, <1>2, <2>1, <2>2
  <1>3. ASSUME NEW e \in attached, NEW place \in {StoreDir, TargetDir}, MountPartition(e, place), now # "unmountStore"
        PROVE Goal
    BY <1>1, <1>3 DEF MountPartition, AssignMount
  <1>4. CASE now = "partition" /\ partitioned' = partitioned \cup {a[1]} /\ UNCHANGED <<readOnly, mount, holds>>
    BY <1>1, <1>4
  <1>5. CASE now = "mount" /\ MountPartition(a[1], MountPlace) /\ UNCHANGED <<partitioned, holds>>
    <2>1. running.name = "mount_disk" /\ Left = 1
      BY <1>5, NextStep DEF Requests
    <2>2. a[1] \in attached
      BY <2>1 DEF MountedIsAttached
    <2>3. MountPlace \in {StoreDir, TargetDir}
      BY DEF MountPlace
    <2> QED
      BY <1>3, <1>5, <2>2, <2>3
  <1>6. CASE /\ now = "mountPersistentDisk"
             /\ IF settings = {} THEN UNCHANGED diskVars
                ELSE MountPartition(First, StoreDir) /\ partitioned' = partitioned \cup {First} /\ UNCHANGED holds
    <2>1. CASE settings = {}
      BY <1>1, <1>6, <2>1 DEF diskVars
    <2>2. CASE settings # {}
      <3>1. First \in attached
        BY <1>6, <2>2 DEF CanDo, Known
      <3> QED
        BY <1>3, <1>6, <2>2, <3>1
    <2> QED
      BY <2>1, <2>2
  <1>7. CASE now = "unmountStore" /\ Unmounts(StoreDir)
    BY <1>2, <1>7 DEF StoreDir, NoMount
  <1>8. CASE now = "unmountTarget" /\ Unmounts(TargetDir)
    BY <1>2, <1>8 DEF TargetDir, NoMount
  <1>9. CASE now = "mountReadOnly" /\ MountReadOnly(a[1], StoreDir) /\ UNCHANGED <<partitioned, holds>>
    <2>1. a[1] \in attached
      BY <1>9 DEF CanDo, Known
    <2> QED
      BY <1>1, <1>9, <2>1 DEF MountReadOnly, AssignMount
  <1>10. CASE now = "copyData" /\ CopyData /\ UNCHANGED <<partitioned, readOnly, mount>>
    BY <1>1, <1>10
  <1>11. CASE now = "mountStore" /\ MountPartition(a[2], StoreDir) /\ UNCHANGED <<partitioned, holds>>
    <2>1. a[2] \in attached
      BY <1>11 DEF CanDo, Known
    <2> QED
      BY <1>3, <1>11, <2>1
  <1>12. CASE /\ now = "unmountDisk"
              /\ IF mount[a[1]] = NoMount THEN UNCHANGED diskVars ELSE Unmounts(mount[a[1]])
    <2>1. CASE mount[a[1]] = NoMount
      BY <1>1, <1>12, <2>1 DEF diskVars
    <2>2. CASE mount[a[1]] # NoMount
      <3>1. a[1] \in Disks
        BY <1>12, NextStep DEF Requests, RunningInv
      <3> QED
        BY <1>2, <1>12, <2>2, <3>1
    <2> QED
      BY <2>1, <2>2
  <1>13. CASE now \in ToSet(LoadSettings) \cup {"configure", "setupDiskData", "finish", "listen"} /\ UNCHANGED diskVars
    <2>1. \A i \in 1..Len(LoadSettings) : LoadSettings[i] # "unmountStore"
      BY DEF LoadSettings
    <2>2. now # "unmountStore"
      BY <1>13, <2>1 DEF ToSet, LoadSettings
    <2> QED
      BY <1>1, <1>13, <2>2 DEF diskVars
  <1> QED
    BY <1>4, <1>5, <1>6, <1>7, <1>8, <1>9, <1>10, <1>11, <1>12, <1>13 DEF DiskStep

\* What a step that is cut short leaves of the mounts is what it makes of
\* them, or what was there.
LEMMA LeavesMounts ==
  ASSUME Fail \/ FailInevitably
  PROVE  \/ UNCHANGED <<mount, readOnly>>
         \/ CanDo(Head(running.todo)) /\ DiskStep(Head(running.todo))
  BY DEF Fail, FailInevitably, Leaves, diskVars

\* Disks are detached when they are not mounted and nothing runs.
LEMMA MountedIsAttachedKept ==
  HostTypeOK /\ RunningInv /\ MountedIsAttached /\ [SetupNext]_setupVars => MountedIsAttached'
  <1> SUFFICES ASSUME HostTypeOK, RunningInv, MountedIsAttached, [SetupNext]_setupVars PROVE MountedIsAttached'
    OBVIOUS
  <1> DEFINE Same == UNCHANGED <<mount, attached, running>>
  <1>1. CASE Succeed
    <2>1. \A d \in Disks : mount'[d] # NoMount => d \in attached
      BY <1>1, StepMounts DEF Succeed
    <2>2. attached' = attached
      BY <1>1 DEF Succeed
    <2>3. running'.name = "mount_disk" /\ Left' = 1 => running'.args[1] \in attached
      <3> SUFFICES ASSUME running'.name = "mount_disk", Left' = 1 PROVE running'.args[1] \in attached
        OBVIOUS
      <3>1. running.name = "mount_disk" /\ Left = 2 /\ running'.args = running.args
        BY <1>1, Progress, NextStep DEF NotRunning, Runs
      <3>2. CanDo("partition")
        BY <1>1, <3>1, Progress, NextStep DEF Succeed
      <3> QED
        BY <3>1, <3>2 DEF CanDo, Known
    <2> QED
      BY <2>1, <2>2, <2>3 DEF MountedIsAttached
  <1>2. CASE Fail \/ FailInevitably
    <2>1. attached' = attached /\ running'.name = "none" /\ ~Idle
      BY <1>2 DEF Fail, FailInevitably, Ends, NotRunning, Runs
    <2>2. \A d \in Disks : mount'[d] # NoMount => d \in attached
      BY <1>2, <2>1, LeavesMounts, StepMounts DEF MountedIsAttached
    <2> QED
      BY <2>1, <2>2 DEF MountedIsAttached
  <1>3. ASSUME UNCHANGED <<mount, attached>>, running'.name # "mount_disk" \/ Left' = 7 PROVE MountedIsAttached'
    BY <1>3 DEF MountedIsAttached
  <1>4. CASE ServiceStarts
    BY <1>3, <1>4 DEF ServiceStarts, Runs, diskVars
  <1>5. ASSUME NEW d \in Disks, MountDisk(d) PROVE MountedIsAttached'
    <2>1. Len(MountDiskSteps) = 7
      BY StepTable DEF StepsOf
    <2> QED
      BY <1>3, <1>5, <2>1 DEF MountDisk, Request, Runs, Left, diskVars
  <1>6. ASSUME NEW d \in Disks, UnmountDisk(d) PROVE MountedIsAttached'
    BY <1>3, <1>6 DEF UnmountDisk, Request, Runs, diskVars
  <1>7. ASSUME NEW old \in Disks, NEW new \in Disks, MigrateDisk(old, new) PROVE MountedIsAttached'
    BY <1>3, <1>7 DEF MigrateDisk, Request, Runs, diskVars
  <1>8. ASSUME NEW d \in Disks, Attach(d) PROVE MountedIsAttached'
    BY <1>8 DEF Attach, MountedIsAttached, diskVars, Left
  <1>9. ASSUME NEW d \in Disks, Detach(d) PROVE MountedIsAttached'
    <2>1. running.name # "mount_disk"
      BY <1>9 DEF Detach, Idle, RunningInv, Left
    <2> QED
      BY <1>9, <2>1 DEF Detach, MountedIsAttached, diskVars
  <1>10. CASE Same
    BY <1>10 DEF MountedIsAttached, Left
  <1>11. \A i \in Items : ServiceWrites(i) => Same
    BY DEF ServiceWrites
  <1>12. ServiceDoesNotStart \/ ServiceStops \/ UNCHANGED setupVars => Same
    BY DEF ServiceDoesNotStart, ServiceStops, setupVars, diskVars
  <1> QED
    BY <1>1, <1>2, <1>4, <1>5, <1>6, <1>7, <1>8, <1>9, <1>10, <1>11, <1>12 DEF SetupNext

\* Nothing runs when the agent is down.
LEMMA DownIsIdle == HostTypeOK /\ RunningInv /\ serving = "down" => Idle
  <1> SUFFICES ASSUME HostTypeOK, RunningInv, serving = "down", ~Idle PROVE FALSE
    OBVIOUS
  <1>1. running.name \in {"start"} \cup Requests
    BY NextStep
  <1> QED
    BY <1>1 DEF RunningInv

\* The store is read-only in the middle of a migration only.
LEMMA ReadOnlyKept ==
  HostTypeOK /\ RunningInv /\ MountedIsAttached /\ ReadOnlyInv /\ [SetupNext]_setupVars => ReadOnlyInv'
  <1> SUFFICES ASSUME HostTypeOK, RunningInv, MountedIsAttached, ReadOnlyInv, [SetupNext]_setupVars,
                      NEW d \in readOnly', mount'[d] = StoreDir, d \notin migrateCut'
               PROVE  (running.name = "migrate_disk" /\ Left \in {3, 4})'
    BY DEF ReadOnlyInv
  <1>1. CASE Succeed
    <2>1. d \in Disks /\ d \notin migrateCut
      BY <1>1, HostTypesKept DEF HostTypeOK, Succeed
    <2>2. \/ d \in readOnly /\ mount[d] = StoreDir /\ Head(running.todo) # "unmountStore"
          \/ Head(running.todo) = "mountReadOnly"
      BY <1>1, <2>1, StepMounts DEF Succeed
    <2>3. running.name = "migrate_disk" /\ Left \in {4, 5}
      BY <1>1, <2>1, <2>2, Progress, NextStep DEF ReadOnlyInv, Requests
    <2> QED
      BY <1>1, <2>3, Progress
  <1>2. CASE Fail \/ FailInevitably
    <2>1. ~Idle /\ Ends
      BY <1>2 DEF Fail, FailInevitably
    <2>2. running.name # "migrate_disk" /\ d \notin migrateCut
      BY <2>1 DEF Ends
    <2>3. d \in Disks
      BY HostTypesKept DEF HostTypeOK
    <2>4. d \notin readOnly \/ mount[d] # StoreDir
      BY <2>2 DEF ReadOnlyInv
    <2>5. Head(running.todo) = "mountReadOnly"
      BY <1>2, <2>1, <2>3, <2>4, LeavesMounts, StepMounts
    <2> QED
      BY <2>1, <2>2, <2>5, NextStep DEF Requests
  <1>3. CASE UNCHANGED <<readOnly, mount, migrateCut, running>>
    BY <1>3 DEF ReadOnlyInv, Left
  <1>4. CASE UNCHANGED <<readOnly, mount, migrateCut>> /\ Idle
    <2>1. running.name = "none"
      BY <1>4 DEF Idle, RunningInv, Left
    <2> QED
      BY <1>4, <2>1 DEF ReadOnlyInv
  <1>5. ServiceStarts => UNCHANGED <<readOnly, mount, migrateCut>> /\ Idle
    BY DownIsIdle DEF ServiceStarts, diskVars
  <1>6. ServiceDoesNotStart \/ ServiceStops \/ UNCHANGED setupVars => UNCHANGED <<readOnly, mount, migrateCut, running>>
    BY DEF ServiceDoesNotStart, ServiceStops, setupVars, diskVars
  <1>7. \A e \in Disks : MountDisk(e) \/ UnmountDisk(e) => UNCHANGED <<readOnly, mount, migrateCut>> /\ Idle
    BY DEF MountDisk, UnmountDisk, Request, diskVars
  <1>8. \A old, new \in Disks : MigrateDisk(old, new) => UNCHANGED <<readOnly, mount, migrateCut>> /\ Idle
    BY DEF MigrateDisk, Request, diskVars
  <1>9. \A e \in Disks : Attach(e) \/ Detach(e) => UNCHANGED <<readOnly, mount, migrateCut, running>>
    BY DEF Attach, Detach, diskVars
  <1>10. \A i \in Items : ServiceWrites(i) => UNCHANGED <<readOnly, mount, migrateCut, running>>
    BY DEF ServiceWrites
  <1> QED
    BY <1>1, <1>2, <1>3, <1>4, <1>5, <1>6, <1>7, <1>8, <1>9, <1>10 DEF SetupNext

\* Each of a migration's steps does one thing to the disks.
LEMMA MigrationSteps ==
  ASSUME NEW now, DiskStep(now)
  PROVE  /\ now = "unmountStore" => Unmounts(StoreDir)
         /\ now = "unmountTarget" => Unmounts(TargetDir)
         /\ now = "mountReadOnly" => MountReadOnly(running.args[1], StoreDir) /\ UNCHANGED <<partitioned, holds>>
         /\ now = "copyData" => CopyData /\ UNCHANGED <<partitioned, readOnly, mount>>
         /\ now = "mountStore" => MountPartition(running.args[2], StoreDir) /\ UNCHANGED <<partitioned, holds>>
  <1>1. \A i \in 1..Len(LoadSettings) :
          LoadSettings[i] \notin {"unmountStore", "unmountTarget", "mountReadOnly", "copyData", "mountStore"}
    BY DEF LoadSettings
  <1>2. ToSet(LoadSettings) = {LoadSettings[i] : i \in 1..Len(LoadSettings)}
    BY DEF ToSet, LoadSettings
  <1>3. \A s \in ToSet(LoadSettings) :
          s \notin {"unmountStore", "unmountTarget", "mountReadOnly", "copyData", "mountStore"}
    BY <1>1, <1>2
  <1> QED
    BY <1>3 DEF DiskStep

\* What a migration's steps have made of its disks stays until the next of
\* them: a store that is read-only, or not mounted, is not written to, and
\* no disk is detached.
LEMMA MigrationKept ==
  HostTypeOK /\ RunningInv /\ MountedIsAttached /\ MigrationInv /\ [SetupNext]_setupVars => MigrationInv'
  <1> SUFFICES ASSUME HostTypeOK, RunningInv, MountedIsAttached, MigrationInv, [SetupNext]_setupVars
               PROVE  MigrationInv'
    OBVIOUS
  <1> DEFINE old == running.args[1]
             Copied(d) == d # old /\ d \in attached /\ holds[old] \subseteq holds[d]
  <1>1. NoMount # StoreDir /\ NoMount # TargetDir /\ StoreDir # TargetDir
    BY DEF NoMount, StoreDir, TargetDir
  <1>2. CASE Succeed /\ running'.name = "migrate_disk"
    <2>1. running.name = "migrate_disk" /\ running'.args = running.args /\ Left' = Left - 1 /\ Left \in 2..6
      BY <1>2, Progress, NextStep DEF NotRunning, Runs
    <2>2. old \in Disks /\ attached' = attached
      BY <1>2, <2>1 DEF RunningInv, Succeed
    <2>3. CanDo(Head(running.todo)) /\ DiskStep(Head(running.todo)) /\ ~Idle
      BY <1>2 DEF Succeed
    <2>4. CASE Left = 6
      BY <2>1, <2>4 DEF MigrationInv
    <2>5. CASE Left = 5
      <3>1. Head(running.todo) = "mountReadOnly"
        BY <2>1, <2>3, <2>5, NextStep
      <3>2. Known(old) /\ MountedAt(StoreDir) \subseteq {old}
        BY <2>3, <3>1 DEF CanDo, Assignable
      <3>3. readOnly' = readOnly \cup {old} /\ mount' = [mount EXCEPT ![old] = StoreDir]
        BY <2>3, <3>1, MigrationSteps DEF MountReadOnly, AssignMount
      <3>4. MountedAt(StoreDir)' = {old}
        BY <2>2, <3>2, <3>3 DEF MountedAt, HostTypeOK
      <3> QED
        BY <2>1, <2>5, <3>3, <3>4 DEF MigrationInv
    <2>6. CASE Left = 4
      <3>1. Head(running.todo) = "copyData" /\ MountedAt(StoreDir) = {old} /\ old \in readOnly
        BY <2>1, <2>3, <2>6, NextStep DEF MigrationInv
      <3>2. CopyData /\ UNCHANGED <<partitioned, readOnly, mount>>
        BY <2>3, <3>1, MigrationSteps
      <3>3. ASSUME NEW d \in MountedAt(TargetDir) PROVE Copied(d)'
        <4>1. d \in Disks /\ mount[d] = TargetDir /\ mount[old] = StoreDir
          BY <3>1 DEF MountedAt
        <4>2. BothMounted
          BY <3>1, <4>1 DEF BothMounted, IsMountPoint, MountedAt
        <4>3. holds' = [e \in Disks |-> IF mount[e] = TargetDir THEN UNION {holds[s] : s \in {old}} ELSE holds[e]]
          BY <3>1, <3>2, <4>2 DEF CopyData
        <4>4. UNION {holds[s] : s \in {old}} = holds[old]
          OBVIOUS
        <4>5. holds'[d] = holds[old] /\ holds'[old] = holds[old]
          BY <1>1, <2>2, <4>1, <4>3, <4>4
        <4>6. d \in attached /\ d # old
          BY <1>1, <4>1 DEF MountedIsAttached
        <4> QED
          BY <2>1, <2>2, <4>5, <4>6
      <3>4. MountedAt(TargetDir)' = MountedAt(TargetDir) /\ MountedAt(StoreDir)' = {old} /\ old \in readOnly'
        BY <3>1, <3>2 DEF MountedAt
      <3> QED
        BY <2>1, <2>6, <3>3, <3>4 DEF MigrationInv
    <2>7. CASE Left = 3
      <3>1. Head(running.todo) = "unmountStore"
        BY <2>1, <2>3, <2>7, NextStep
      <3>2. Unmounts(StoreDir)
        BY <2>3, <3>1, MigrationSteps
      <3>3. MountedAt(StoreDir)' = {} /\ MountedAt(TargetDir)' = MountedAt(TargetDir) /\ holds' = holds
        BY <1>1, <3>2 DEF Unmounts, MountedAt
      <3>4. \A d \in MountedAt(TargetDir) : Copied(d)'
        BY <2>1, <2>2, <2>7, <3>3 DEF MigrationInv
      <3> QED
        BY <2>1, <2>7, <3>3, <3>4 DEF MigrationInv
    <2>8. CASE Left = 2
      <3>1. Head(running.todo) = "unmountTarget"
        BY <2>1, <2>3, <2>8, NextStep
      <3>2. Unmounts(TargetDir) /\ IsMountPoint(TargetDir)
        BY <2>3, <3>1, MigrationSteps DEF CanDo
      <3>3. MountedAt(StoreDir) = {}
        BY <2>1, <2>8 DEF MigrationInv
      <3>4. MountedAt(StoreDir)' = {} /\ holds' = holds
        BY <1>1, <3>2, <3>3 DEF Unmounts, MountedAt
      <3>5. PICK d \in MountedAt(TargetDir) : TRUE
        BY <3>2 DEF IsMountPoint
      <3>6. d \in Disks /\ Copied(d)'
        BY <2>1, <2>2, <2>8, <3>4, <3>5 DEF MigrationInv, MountedAt
      <3> QED
        BY <2>1, <2>8, <3>4, <3>6 DEF MigrationInv
    <2> QED
      BY <2>1, <2>4, <2>5, <2>6, <2>7, <2>8
  <1>3. ASSUME running'.name # "migrate_disk" \/ Left' = 6 PROVE MigrationInv'
    BY <1>3 DEF MigrationInv
  <1>4. CASE Fail \/ FailInevitably
    BY <1>3, <1>4 DEF Fail, FailInevitably, Ends, NotRunning, Runs
  <1>5. CASE ServiceStarts
    BY <1>3, <1>5 DEF ServiceStarts, Runs
  <1>6. ASSUME NEW d \in Disks, MountDisk(d) \/ UnmountDisk(d) PROVE MigrationInv'
    BY <1>3, <1>6 DEF MountDisk, UnmountDisk, Request, Runs
  <1>7. ASSUME NEW o \in Disks, NEW n \in Disks, MigrateDisk(o, n) PROVE MigrationInv'
    <2>1. Len(MigrateSteps) = 6
      BY StepTable DEF StepsOf
    <2> QED
      BY <1>3, <1>7, <2>1 DEF MigrateDisk, Request, Runs, Left
  <1>8. ASSUME NEW d \in Disks, Attach(d) PROVE MigrationInv'
    BY <1>8 DEF Attach, MigrationInv, diskVars, MountedAt, Left
  <1>9. ASSUME NEW d \in Disks, Detach(d) PROVE MigrationInv'
    <2>1. running'.name # "migrate_disk"
      BY <1>9 DEF Detach, Idle, RunningInv, Left
    <2> QED
      BY <1>3, <2>1
  <1>10. ASSUME NEW i \in Items, ServiceWrites(i) PROVE MigrationInv'
    <2> SUFFICES ASSUME running'.name = "migrate_disk" PROVE MigrationInv'
      BY <1>3
    <2>1. UNCHANGED <<running, attached, mount, readOnly>>
      BY <1>10 DEF ServiceWrites
    <2>2. PICK d \in MountedAt(StoreDir) \ readOnly : holds' = [holds EXCEPT ![d] = @ \cup {i}]
      BY <1>10 DEF ServiceWrites
    <2>3. Left \notin {1, 2, 3, 4}
      BY <2>1, <2>2 DEF MigrationInv
    <2> QED
      BY <2>1, <2>3 DEF MigrationInv, Left
  <1>11. CASE UNCHANGED <<running, attached, mount, readOnly, holds>>
    BY <1>11 DEF MigrationInv, MountedAt, Left
  <1>12. ServiceDoesNotStart \/ ServiceStops \/ UNCHANGED setupVars
           => UNCHANGED <<running, attached, mount, readOnly, holds>>
    BY DEF ServiceDoesNotStart, ServiceStops, setupVars, diskVars
  <1> QED
    BY <1>2, <1>3, <1>4, <1>5, <1>6, <1>7, <1>8, <1>9, <1>10, <1>11, <1>12 DEF SetupNext

\* The invariant of the host, at the start and over every step.
LEMMA HostInvStarts == SetupInit => HostInv
  <1> SUFFICES ASSUME SetupInit PROVE HostInv
    OBVIOUS
  <1>1. running = [name |-> "none", todo |-> <<>>, args |-> <<>>]
    BY DEF SetupInit, NotRunning, Runs
  <1>2. running.name = "none" /\ running.todo = <<>> /\ running.args = <<>> /\ Left = 0
    BY <1>1 DEF Left
  <1>3. HostTypeOK
    <2>1. attached \subseteq Disks
      BY DEF SetupInit
    <2>2. "none" \in DOMAIN StepsOf
      BY StepTable
    <2> QED
      BY <1>2, <2>1, <2>2 DEF SetupInit, HostTypeOK
  <1>4. RunningInv
    BY <1>1, <1>2, StepTable DEF SetupInit, RunningInv, Requests
  <1> QED
    BY <1>2, <1>3, <1>4
    DEF SetupInit, HostInv, SetupOrder, MountedIsAttached, ReadOnlyInv, MigrationInv, NoMount, StoreDir

\* For any disks and faults: nothing runs by chance, the agent serves on a
\* host that is set up, and a migration goes from disk to disk in its order.
THEOREM HostInvariant == SetupSpec => []HostInv
  <1>1. HostInv /\ [SetupNext]_setupVars => HostInv'
    BY HostTypesKept, RunningKept, SetupOrderKept, MountedIsAttachedKept, ReadOnlyKept, MigrationKept DEF HostInv
  <1> QED
    BY <1>1, HostInvStarts, PTL DEF SetupSpec

\* A migration is answered by its last step, which takes the old disk's
\* contents to the only other disk.
LEMMA MigratedAllStep ==
  ASSUME HostInv, [SetupNext]_setupVars,
         running.name = "migrate_disk", attached \subseteq {running.args[1], running.args[2]}, Idle', serving' = "up"
  PROVE  holds'[running.args[1]] \subseteq holds'[running.args[2]] /\ mount'[running.args[2]] = StoreDir
  <1> DEFINE old == running.args[1]
             new == running.args[2]
  <1>1. ~Idle /\ Left # 0 /\ serving = "up"
    BY DEF HostInv, RunningInv, Idle, Left, Requests
  <1>2. CASE Succeed
    <2>1. Left = 1
      <3>1. Left' = 0 /\ Left \in 1..6
        BY <1>2, Progress, NextStep DEF HostInv, Idle, Left
      <3> QED
        BY <1>2, <3>1, Progress DEF HostInv
    <2>2. Head(running.todo) = "mountStore"
      BY <1>1, <2>1, NextStep DEF HostInv
    <2>3. MountPartition(new, StoreDir) /\ holds' = holds
      BY <1>2, <2>2, MigrationSteps DEF Succeed
    <2>4. new \in Disks
      BY DEF HostInv, RunningInv
    <2>5. mount'[new] = StoreDir
      BY <2>3, <2>4 DEF MountPartition, AssignMount, HostInv, HostTypeOK
    <2>6. PICK d \in Disks : d # old /\ d \in attached /\ holds[old] \subseteq holds[d]
      BY <2>1 DEF HostInv, MigrationInv
    <2> QED
      BY <2>3, <2>5, <2>6
  <1>3. CASE UNCHANGED running
    BY <1>1, <1>3 DEF Idle
  <1>4. ~(Fail \/ FailInevitably \/ ServiceStarts)
    BY <1>1 DEF Fail, FailInevitably, Ends, ServiceStarts
  <1>5. \A d \in Disks : ~MountDisk(d) /\ ~UnmountDisk(d) /\ (Attach(d) \/ Detach(d) => UNCHANGED running)
    BY <1>1 DEF MountDisk, UnmountDisk, Request, Attach, Detach
  <1>6. \A o, n \in Disks : ~MigrateDisk(o, n)
    BY <1>1 DEF MigrateDisk, Request
  <1>7. ServiceDoesNotStart \/ ServiceStops \/ UNCHANGED setupVars => UNCHANGED running
    BY DEF ServiceDoesNotStart, ServiceStops, setupVars
  <1>8. \A i \in Items : ServiceWrites(i) => UNCHANGED running
    BY DEF ServiceWrites
  <1> QED
    BY <1>2, <1>3, <1>4, <1>5, <1>6, <1>7, <1>8 DEF SetupNext

\* The host is set up when the agent serves, its store writable when nothing
\* runs, and a migration that is answered has taken everything along:
\* AgentRunner, Bootstrap.Configure and MigrateDisk.Migrate.
THEOREM HostIsKept == SetupSpec => HostKept
  <1>1. HostInv => ConfiguredWhenUp
    BY DEF HostInv, SetupOrder, SetUp, ConfiguredWhenUp
  <1>2. HostInv => WritableAgain
    <2> SUFFICES ASSUME HostInv, Idle, NEW d \in MountedAt(StoreDir) \cap readOnly PROVE d \in migrateCut
      BY DEF WritableAgain
    <2>1. Left = 0
      BY DEF Idle, Left
    <2> QED
      BY <2>1 DEF HostInv, ReadOnlyInv, MountedAt
  <1>3. HostInv /\ [SetupNext]_setupVars
          => [LET old == running.args[1]
                  new == running.args[2]
              IN  running.name = "migrate_disk" /\ attached \subseteq {old, new} /\ Idle' /\ serving' = "up"
                    => holds'[old] \subseteq holds'[new] /\ mount'[new] = StoreDir]_setupVars
    BY MigratedAllStep
  <1> QED
    BY <1>1, <1>2, <1>3, HostInvariant, PTL DEF SetupSpec, HostKept, MigratedAll

-----------------------------------------------------------------------------
(* StateFile.                                                              *)

(* What a step of a get_state request leaves behind is of the right type.  *)
LEMMA ReaderTypeStep ==
  ASSUME TypeOK, NEW r \in Readers, GetState(r)
  PROVE  /\ readers' \in [Readers -> ReaderStates]
         /\ keys' \in [Versions -> SUBSET Keys]
         /\ reported' \in Versions
         /\ UNCHANGED rest
<1> USE StateFileAssumption
<1> DEFINE old == readers[r]
           Kept == /\ readers' \in [Readers -> ReaderStates]
                   /\ keys' \in [Versions -> SUBSET Keys]
                   /\ reported' \in Versions
                   /\ UNCHANGED rest
<1>1. /\ readers \in [Readers -> ReaderStates]
      /\ keys \in [Versions -> SUBSET Keys]
      /\ reported \in Versions
      /\ data \in Versions
      /\ old \in ReaderStates
  BY DEF TypeOK
<1>2. IdleReader \in ReaderStates
  BY DEF IdleReader, ReaderStates, ReaderSteps, Versions, Keys
<1> SUFFICES Kept
  OBVIOUS
<1>3. CASE BeginState(r)
  <2>1. [IdleReader EXCEPT !.step = "setting"] \in ReaderStates
    BY <1>2 DEF ReaderStates, ReaderSteps
  <2> QED BY <1>1, <1>3, <2>1 DEF BeginState
<1>4. CASE SetValue(r)
  <2>1. old.next \in Keys /\ old.next + 1 \in 1..(LastKey + 1)
    BY <1>1, <1>4 DEF SetValue, Keys
  <2>2. [old EXCEPT !.next = @ + 1] \in ReaderStates
    BY <1>1, <2>1 DEF ReaderStates
  <2>3. readers' = [readers EXCEPT ![r] = [old EXCEPT !.next = @ + 1]]
    BY <1>4 DEF SetValue
  <2>4. keys' \in [Versions -> SUBSET Keys]
    BY <1>1, <1>4, <2>1 DEF SetValue
  <2> QED BY <1>1, <1>4, <2>2, <2>3, <2>4 DEF SetValue
<1>5. CASE ToHash(r)
  <2>1. [old EXCEPT !.step = "hashed", !.doc = data] \in ReaderStates
    BY <1>1 DEF ReaderStates, ReaderSteps
  <2>2. readers' = [readers EXCEPT ![r] =
                      [old EXCEPT !.step = "hashed", !.doc = data]]
    BY <1>5 DEF ToHash
  <2> QED BY <1>1, <1>5, <2>1, <2>2 DEF ToHash
<1>6. CASE OpenReply(r)
  <2>1. [old EXCEPT !.step = "serialising", !.seen = keys[old.doc]]
          \in ReaderStates
    BY <1>1 DEF ReaderStates, ReaderSteps
  <2>2. readers' = [readers EXCEPT ![r] =
          [old EXCEPT !.step = "serialising", !.seen = keys[old.doc]]]
    BY <1>6 DEF OpenReply
  <2> QED BY <1>1, <1>6, <2>1, <2>2 DEF OpenReply
<1>7. CASE CloseReply(r)
  <2>1. PICK s \in {"reply", "broken"} :
          readers' = [readers EXCEPT ![r] = [old EXCEPT !.step = s]]
    BY <1>7 DEF CloseReply
  <2>2. [old EXCEPT !.step = s] \in ReaderStates
    BY <1>1 DEF ReaderStates, ReaderSteps
  <2> QED BY <1>1, <1>7, <2>1, <2>2 DEF CloseReply
<1>8. CASE SendReply(r)
  <2>1. old.doc \in Versions
    BY <1>1 DEF ReaderStates
  <2>2. reported' \in Versions
    BY <1>1, <1>8, <2>1 DEF SendReply, Report
  <2> QED BY <1>1, <1>2, <1>8, <2>2 DEF SendReply
<1>9. CASE StateThrows(r)
  BY <1>1, <1>2, <1>9 DEF StateThrows
<1> QED
  BY <1>3, <1>4, <1>5, <1>6, <1>7, <1>8, <1>9 DEF GetState

(* Every step keeps the types.                                             *)
LEMMA StateTypeStep == TypeOK /\ [Next]_vars => TypeOK'
<1> SUFFICES ASSUME TypeOK, [Next]_vars PROVE TypeOK'
  OBVIOUS
<1> USE StateFileAssumption
<1>1. IdleReader \in ReaderStates
  BY DEF IdleReader, ReaderStates, ReaderSteps, Versions, Keys
<1>2. CASE Write
  <2> USE <1>2 DEF TypeOK, Go, Versions, WriterSteps, memory, others
  <2>1. CASE BeginWrite BY <2>1 DEF BeginWrite
  <2>2. CASE WriteThrows BY <2>2 DEF WriteThrows
  <2>3. CASE TruncateFile BY <2>3 DEF TruncateFile
  <2>4. CASE WritePart BY <2>4 DEF WritePart
  <2>5. CASE WriteSpec BY <2>5 DEF WriteSpec
  <2>6. CASE AssignData
    <3>1. \A r \in Readers :
            [readers[r] EXCEPT !.swapped = TRUE] \in ReaderStates
      BY DEF ReaderStates
    <3> QED BY <2>6, <3>1 DEF AssignData
  <2>7. CASE RefreshJob BY <2>7 DEF RefreshJob
  <2>8. CASE RefreshThrows BY <2>8 DEF RefreshThrows
  <2>9. CASE OpenDocument BY <2>9 DEF OpenDocument
  <2>10. CASE CloseDocument BY <2>10 DEF CloseDocument
  <2>11. CASE WriteDocument BY <2>11 DEF WriteDocument
  <2>12. CASE AnswerApply BY <2>12 DEF AnswerApply, Report
  <2> QED BY <2>1, <2>2, <2>3, <2>4, <2>5, <2>6, <2>7, <2>8, <2>9, <2>10,
             <2>11, <2>12 DEF Write
<1>3. ASSUME NEW r \in Readers, GetState(r) PROVE TypeOK'
  BY <1>3, ReaderTypeStep DEF TypeOK, rest
<1>4. CASE Heartbeat
  <2>1. beat' \in [step : {"idle", "index", "send"}, job : Versions,
                   index : Versions]
    <3>1. 0 \in Versions
      BY DEF Versions
    <3>2. CASE ReadJob BY <3>2 DEF ReadJob, TypeOK
    <3>3. CASE ReadIndex BY <3>3 DEF ReadIndex, TypeOK
    <3>4. CASE SendBeat BY <3>1, <3>4 DEF SendBeat, IdleBeat
    <3> QED BY <1>4, <3>2, <3>3, <3>4 DEF Heartbeat
  <2>2. reported' \in Versions
    BY <1>4 DEF Heartbeat, ReadJob, ReadIndex, SendBeat, Report, TypeOK
  <2> QED BY <1>4, <2>1, <2>2 DEF Heartbeat, TypeOK, memory
<1>5. CASE Crash
  <2>1. IdleBeat \in [step : {"idle", "index", "send"}, job : Versions,
                      index : Versions]
    BY DEF IdleBeat, Versions
  <2>2. writer' \in [step : WriterSteps, version : Versions, seen : SUBSET Keys]
    BY <1>5 DEF Crash, Go, TypeOK, WriterSteps
  <2> QED BY <1>1, <1>5, <2>1, <2>2 DEF Crash, TypeOK, memory
<1>6. CASE Start
  <2>1. \A v \in Versions :
          (IF v = file.version THEN file.keys ELSE {}) \in SUBSET Keys
    BY DEF TypeOK
  <2> QED BY <1>6, <2>1 DEF Start, TypeOK, memory
<1>7. CASE UNCHANGED vars
  BY <1>7 DEF vars, TypeOK
<1> QED
  BY <1>2, <1>3, <1>4, <1>5, <1>6, <1>7 DEF Next

(* The agent of a fresh host is of the right type.                         *)
LEMMA StateTypeInit == Init => TypeOK
<1> SUFFICES ASSUME Init PROVE TypeOK
  OBVIOUS
<1> USE StateFileAssumption DEF Init
<1>1. 0 \in Versions
  BY DEF Versions
<1>2. IdleReader \in ReaderStates
  BY <1>1 DEF IdleReader, ReaderStates, ReaderSteps
<1>3. readers \in [Readers -> ReaderStates]
  BY <1>2
<1>4. /\ writer \in [step : WriterSteps, version : Versions, seen : SUBSET Keys]
      /\ beat \in [step : {"idle", "index", "send"}, job : Versions,
                    index : Versions]
      /\ file \in [kind : {"missing", "empty", "torn", "whole"},
                    version : Versions, keys : SUBSET Keys]
  BY <1>1 DEF IdleBeat, WriterSteps
<1> QED BY <1>1, <1>3, <1>4 DEF TypeOK

(* TypeOK holds in every reachable state.                                  *)
THEOREM StateTypes == Spec => []TypeOK
  BY StateTypeInit, StateTypeStep, PTL DEF Spec
-----------------------------------------------------------------------------
(* The invariant, action by action.                                        *)

(* The copies of the state are numbers.                                    *)
LEMMA StateNumbers ==
  ASSUME TypeOK
  PROVE  /\ file.version \in Nat /\ data \in Nat /\ job \in Nat
         /\ writer.version \in Nat /\ reported \in Nat
         /\ beat.job \in Nat /\ beat.index \in Nat
         /\ \A r \in Readers : readers[r].doc \in Nat
<1>1. \A v \in Versions : v \in Nat
  BY StateFileAssumption DEF Versions
<1> QED
  BY <1>1 DEF TypeOK, ReaderStates

(* A step of Write.  All but AssignData leave the document and the         *)
(* requests alone; what ties the file, the writer and memory is checked    *)
(* action by action.                                                       *)
LEMMA StateWriteStep ==
  ASSUME StateInv, Write, TypeOK'
  PROVE  StateInv'
<1> USE StateFileAssumption
<1>1. TypeOK /\ VersionInv /\ WriterInv /\ SettledInv /\ ReaderInv
      /\ BeatInv /\ NeverForgets /\ QuietPolls /\ StartsAfterCleanWrite
      /\ phase = "up"
  BY DEF StateInv, Write
<1>2. /\ file.version \in Nat /\ data \in Nat /\ job \in Nat
      /\ writer.version \in Nat /\ reported \in Nat
      /\ beat.job \in Nat /\ beat.index \in Nat
  BY <1>1, StateNumbers
<1>3. /\ writer = [step |-> writer.step, version |-> writer.version,
                   seen |-> writer.seen]
      /\ file = [kind |-> file.kind, version |-> file.version,
                 keys |-> file.keys]
      /\ writer.step \in WriterSteps
  BY <1>1 DEF TypeOK
<1> DEFINE Copies == /\ VersionInv' /\ WriterInv' /\ SettledInv' /\ BeatInv'
                     /\ NeverForgets' /\ StartsAfterCleanWrite'
<1>4. Copies
  <2> USE <1>1, <1>2, <1>3
      DEF VersionInv, WriterInv, SettledInv, BeatInv, NeverForgets,
          StartsAfterCleanWrite, Startable, Saved, Shown, Go, memory, others
  <2>1. CASE BeginWrite BY <2>1 DEF BeginWrite
  <2>2. CASE WriteThrows BY <2>2 DEF WriteThrows
  <2>3. CASE TruncateFile BY <2>3 DEF TruncateFile
  <2>4. CASE WritePart BY <2>4 DEF WritePart
  <2>5. CASE WriteSpec BY <2>5 DEF WriteSpec
  <2>6. CASE AssignData BY <2>6 DEF AssignData
  <2>7. CASE RefreshJob BY <2>7 DEF RefreshJob
  <2>8. CASE RefreshThrows BY <2>8 DEF RefreshThrows
  <2>9. CASE OpenDocument BY <2>9 DEF OpenDocument
  <2>10. CASE CloseDocument BY <2>10 DEF CloseDocument
  <2>11. CASE WriteDocument BY <2>11 DEF WriteDocument
  <2>12. CASE AnswerApply BY <2>12 DEF AnswerApply, Report
  <2> QED BY <2>1, <2>2, <2>3, <2>4, <2>5, <2>6, <2>7, <2>8, <2>9, <2>10,
             <2>11, <2>12 DEF Write
<1>5. ReaderInv' /\ QuietPolls'
  <2>1. CASE AssignData
    <3>1. \A r \in Readers :
            /\ readers'[r].step = readers[r].step
            /\ readers'[r].doc = readers[r].doc
            /\ readers'[r].swapped
      BY <1>1, <2>1 DEF AssignData, TypeOK, ReaderStates
    <3>2. \A r \in Readers : readers[r].doc \in Nat
      BY <1>1, StateNumbers
    <3>3. data <= data' /\ data' \in Nat /\ phase' = "up"
      BY <1>1, <1>2, <2>1 DEF AssignData, VersionInv, WriterInv, Saved
    <3> QED
      BY <1>1, <1>2, <3>1, <3>2, <3>3 DEF ReaderInv, QuietPolls
  <2>2. CASE UNCHANGED <<phase, data, keys, readers>>
    BY <1>1, <2>2 DEF ReaderInv, QuietPolls
  <2> QED
    BY <2>1, <2>2
    DEF Write, BeginWrite, WriteThrows, TruncateFile, WritePart, WriteSpec,
        RefreshJob, RefreshThrows, OpenDocument, CloseDocument, WriteDocument,
        AnswerApply, memory, others
<1> QED
  BY <1>4, <1>5 DEF StateInv

(* A step of a get_state request.  The request that steps is looked at by  *)
(* its action; for the others a key more on the document changes nothing,  *)
(* all keys of it being theirs already.                                    *)
LEMMA StateReaderStep ==
  ASSUME StateInv, NEW r \in Readers, GetState(r), TypeOK'
  PROVE  StateInv'
<1> USE StateFileAssumption
<1>1. TypeOK /\ VersionInv /\ WriterInv /\ SettledInv /\ ReaderInv
      /\ BeatInv /\ NeverForgets /\ QuietPolls /\ StartsAfterCleanWrite
      /\ phase = "up"
  BY DEF StateInv, GetState
<1>2. UNCHANGED <<phase, file, data, job, writer, unsettled, beat>>
  BY <1>1, ReaderTypeStep DEF rest
<1>3. /\ file.version \in Nat /\ data \in Nat /\ reported \in Nat
      /\ \A q \in Readers : readers[q].doc \in Nat
      /\ readers \in [Readers -> ReaderStates]
      /\ keys \in [Versions -> SUBSET Keys]
      /\ data \in Versions
  BY <1>1, StateNumbers DEF TypeOK
<1>4. reported' <= data /\ reported' <= file.version
  <2>1. reported <= data /\ data <= file.version /\ reported \in Nat
    BY <1>1, <1>3 DEF VersionInv, NeverForgets
  <2>2. CASE SendReply(r)
    <3>1. readers[r].doc <= data
      BY <1>1, <2>2 DEF SendReply, ReaderInv
    <3> QED BY <1>3, <2>1, <2>2, <3>1 DEF SendReply, Report
  <2>3. CASE UNCHANGED reported
    BY <1>3, <2>1, <2>3
  <2> QED
    BY <2>2, <2>3 DEF GetState, BeginState, SetValue, ToHash, OpenReply,
                      CloseReply, StateThrows
<1>5. /\ VersionInv' /\ WriterInv' /\ SettledInv' /\ BeatInv'
      /\ NeverForgets' /\ StartsAfterCleanWrite'
  BY <1>1, <1>2, <1>3, <1>4
  DEF VersionInv, WriterInv, SettledInv, BeatInv, NeverForgets,
      StartsAfterCleanWrite, Startable
<1>6. \A q \in Readers \ {r} : readers'[q] = readers[q]
  BY <1>3 DEF GetState, BeginState, SetValue, ToHash, OpenReply, CloseReply,
              SendReply, StateThrows
<1>7. keys[data] \subseteq keys'[data] /\ keys'[data] \subseteq Keys
  <2>1. CASE SetValue(r)
    BY <1>3, <2>1 DEF SetValue
  <2>2. CASE UNCHANGED keys
    BY <1>3, <2>2
  <2> QED
    BY <2>1, <2>2 DEF GetState, BeginState, ToHash, OpenReply, CloseReply,
                      SendReply, StateThrows
<1> DEFINE Good(x, ks) ==
      /\ x.step \in {"hashed", "serialising", "reply", "broken"} =>
           x.doc <= data
      /\ ~x.swapped =>
           /\ x.step = "setting" => \A k \in Keys : k < x.next => k \in ks
           /\ x.step \in {"hashed", "serialising", "reply"} =>
                x.doc = data /\ ks = Keys
           /\ x.step \in {"serialising", "reply"} => x.seen = Keys
      /\ x.step = "broken" => x.swapped
<1>8. \A q \in Readers : Good(readers[q], keys[data])
  BY <1>1 DEF ReaderInv, QuietPolls
<1>9. \A q \in Readers \ {r} : Good(readers'[q], keys'[data])
  BY <1>6, <1>7, <1>8
<1>10. Good(readers'[r], keys'[data])
  <2>1. readers[r] \in ReaderStates
    BY <1>3
  <2> USE <1>3, <1>8, <2>1
  <2>2. CASE BeginState(r)
    <3>1. readers'[r] = [IdleReader EXCEPT !.step = "setting"]
      BY <2>2 DEF BeginState
    <3> QED BY <3>1 DEF IdleReader, Keys
  <2>3. CASE SetValue(r)
    <3>1. readers'[r] = [readers[r] EXCEPT !.next = @ + 1]
      BY <2>3 DEF SetValue
    <3>2. keys'[data] = keys[data] \cup {readers[r].next}
      BY <2>3 DEF SetValue
    <3>3. readers[r].step = "setting" /\ readers[r].next \in Keys
      BY <2>3 DEF SetValue
    <3>4. /\ readers'[r].step = "setting"
          /\ readers'[r].next = readers[r].next + 1
          /\ readers'[r].swapped = readers[r].swapped
      BY <3>1, <3>3 DEF ReaderStates
    <3> QED BY <3>2, <3>3, <3>4 DEF Keys
  <2>4. CASE ToHash(r)
    <3>1. /\ readers'[r].step = "hashed"
          /\ readers'[r].doc = data
          /\ readers'[r].swapped = readers[r].swapped
          /\ keys' = keys
      BY <2>4 DEF ToHash, ReaderStates
    <3>2. \A k \in Keys : k < readers[r].next
      BY <2>4 DEF ToHash, Keys
    <3>3. ~readers[r].swapped => keys[data] = Keys
      BY <2>4, <3>2 DEF ToHash
    <3> QED BY <3>1, <3>3
  <2>5. CASE OpenReply(r)
    <3>1. /\ readers'[r].step = "serialising"
          /\ readers'[r].doc = readers[r].doc
          /\ readers'[r].seen = keys[readers[r].doc]
          /\ readers'[r].swapped = readers[r].swapped
          /\ readers[r].step = "hashed"
          /\ keys' = keys
      BY <2>5 DEF OpenReply, ReaderStates
    <3> QED BY <3>1
  <2>6. CASE CloseReply(r)
    <3>1. /\ readers'[r].step \in {"reply", "broken"}
          /\ readers'[r].step = "broken" =>
               readers[r].seen # keys[readers[r].doc]
          /\ readers'[r].doc = readers[r].doc
          /\ readers'[r].seen = readers[r].seen
          /\ readers'[r].swapped = readers[r].swapped
          /\ readers[r].step = "serialising"
          /\ keys' = keys
      BY <2>6 DEF CloseReply, ReaderStates
    <3> QED BY <3>1
  <2>7. CASE SendReply(r) \/ StateThrows(r)
    <3>1. readers'[r] = IdleReader
      BY <2>7 DEF SendReply, StateThrows
    <3> QED BY <3>1 DEF IdleReader
  <2> QED
    BY <2>2, <2>3, <2>4, <2>5, <2>6, <2>7 DEF GetState
<1>11. ReaderInv' /\ QuietPolls'
  <2>1. \A q \in Readers : Good(readers'[q], keys'[data])
    BY <1>9, <1>10
  <2> QED BY <1>1, <1>2, <2>1 DEF ReaderInv, QuietPolls
<1> QED
  BY <1>5, <1>11 DEF StateInv

(* A step of the heartbeat, the end of the process, and its start.         *)
LEMMA StateHostStep ==
  ASSUME StateInv, Heartbeat \/ Crash \/ Start, TypeOK'
  PROVE  StateInv'
<1> USE StateFileAssumption
<1>1. TypeOK /\ VersionInv /\ WriterInv /\ SettledInv /\ ReaderInv
      /\ BeatInv /\ NeverForgets /\ QuietPolls /\ StartsAfterCleanWrite
  BY DEF StateInv
<1>2. /\ file.version \in Nat /\ data \in Nat /\ job \in Nat
      /\ writer.version \in Nat /\ reported \in Nat
      /\ beat.job \in Nat /\ beat.index \in Nat
  BY <1>1, StateNumbers
<1>3. /\ beat = [step |-> beat.step, job |-> beat.job, index |-> beat.index]
      /\ writer = [step |-> writer.step, version |-> writer.version,
                   seen |-> writer.seen]
      /\ file.kind \in {"missing", "empty", "torn", "whole"}
  BY <1>1 DEF TypeOK
<1>4. CASE Heartbeat
  <2>1. UNCHANGED <<phase, file, memory, writer, unsettled, readers>>
    BY <1>4 DEF Heartbeat
  <2>2. \/ /\ beat'.step = "index" /\ beat'.job = job
           /\ UNCHANGED reported
        \/ /\ beat'.step = "send" /\ beat'.job = beat.job
           /\ beat'.index = data /\ beat.step = "index"
           /\ UNCHANGED reported
        \/ /\ beat'.step = "idle" /\ beat.step = "send"
           /\ reported' \in {reported, beat.index}
    <3>1. CASE ReadJob BY <1>3, <3>1 DEF ReadJob
    <3>2. CASE ReadIndex BY <1>3, <3>2 DEF ReadIndex
    <3>3. CASE SendBeat BY <3>3 DEF SendBeat, IdleBeat, Report
    <3> QED BY <1>4, <3>1, <3>2, <3>3 DEF Heartbeat
  <2>3. reported' <= data /\ reported' <= file.version
    <3>1. /\ reported <= data /\ data <= file.version
          /\ beat.step = "send" => beat.index <= data
      BY <1>1, <1>4 DEF Heartbeat, NeverForgets, VersionInv, BeatInv
    <3> QED BY <1>2, <2>2, <3>1
  <2>4. VersionInv' /\ NeverForgets'
    BY <1>1, <1>2, <2>1, <2>3 DEF VersionInv, NeverForgets, memory
  <2>5. phase = "up" /\ job <= data
    BY <1>1, <1>4 DEF Heartbeat, VersionInv
  <2>6. BeatInv'
    BY <1>1, <1>2, <2>1, <2>2, <2>5 DEF BeatInv, memory
  <2> QED
    BY <1>1, <2>1, <2>4, <2>6
    DEF StateInv, WriterInv, SettledInv, Startable, ReaderInv, QuietPolls,
        StartsAfterCleanWrite, memory
<1>5. CASE Crash
  BY <1>1, <1>2, <1>3, <1>5
  DEF Crash, Go, memory, IdleReader, IdleBeat, StateInv, VersionInv, WriterInv,
      SettledInv, Startable, ReaderInv, BeatInv, NeverForgets, QuietPolls,
      StartsAfterCleanWrite, Saved, Shown
<1>6. CASE Start
  BY <1>1, <1>2, <1>3, <1>6
  DEF Start, memory, StateInv, VersionInv, WriterInv, SettledInv, Startable,
      ReaderInv, BeatInv, NeverForgets, QuietPolls, StartsAfterCleanWrite,
      Saved, Shown
<1> QED BY <1>4, <1>5, <1>6

(* StateInv is inductive.                                                  *)
LEMMA StateInvStep == StateInv /\ [Next]_vars => StateInv'
<1> SUFFICES ASSUME StateInv, [Next]_vars PROVE StateInv'
  OBVIOUS
<1>1. TypeOK'
  BY StateTypeStep DEF StateInv
<1>2. CASE Write BY <1>1, <1>2, StateWriteStep
<1>3. CASE \E r \in Readers : GetState(r) BY <1>1, <1>3, StateReaderStep
<1>4. CASE Heartbeat \/ Crash \/ Start BY <1>1, <1>4, StateHostStep
<1>5. CASE UNCHANGED vars
  BY <1>1, <1>5
  DEF vars, StateInv, VersionInv, WriterInv, SettledInv, Startable, ReaderInv,
      BeatInv, NeverForgets, QuietPolls, StartsAfterCleanWrite
<1> QED
  BY <1>2, <1>3, <1>4, <1>5 DEF Next

(* The inductive invariant of the state file holds in every reachable      *)
(* state: memory never leads the disk, whatever is cut short.              *)
THEOREM StateInvariant == Spec => []StateInv
<1>1. Init => StateInv
  <2>1. 0 <= 0
    OBVIOUS
  <2> QED
    BY StateTypeInit, StateFileAssumption
    DEF Init, StateInv, VersionInv, WriterInv, SettledInv, Startable, ReaderInv,
        BeatInv, NeverForgets, QuietPolls, StartsAfterCleanWrite, IdleReader,
        IdleBeat, Saved, Shown
<1> QED
  BY <1>1, StateInvStep, PTL DEF Spec

(* What the director has heard of survives any crash, failed Write and     *)
(* restart, for any number of applies.                                     *)
THEOREM NothingForgotten == Spec => []NeverForgets
<1>1. StateInv => NeverForgets
  BY DEF StateInv
<1> QED BY <1>1, StateInvariant, PTL

(* A heartbeat never pairs a job with the index of an earlier apply.       *)
THEOREM HeartbeatOrder == Spec => []IndexNotOlderThanJob
<1>1. StateInv => IndexNotOlderThanJob
  <2> SUFFICES ASSUME StateInv, beat.step = "send"
               PROVE  beat.index >= beat.job
    BY DEF IndexNotOlderThanJob
  <2>1. beat.job <= beat.index /\ beat.job \in Nat /\ beat.index \in Nat
    BY StateNumbers DEF StateInv, BeatInv
  <2> QED BY <2>1
<1> QED BY <1>1, StateInvariant, PTL

(* Any number of get_state requests may be serialised at once, as long as  *)
(* no apply replaces the document.                                         *)
THEOREM PollsAreQuiet == Spec => []QuietPolls
<1>1. StateInv => QuietPolls
  BY DEF StateInv
<1> QED BY <1>1, StateInvariant, PTL

(* Only a Write cut short keeps the agent from starting.                   *)
THEOREM CleanWriteStarts == Spec => []StartsAfterCleanWrite
<1>1. StateInv => StartsAfterCleanWrite
  BY DEF StateInv
<1> QED BY <1>1, StateInvariant, PTL

(* After a Write that ran to its end the file and memory agree.            *)
THEOREM SettledAgreement == Spec => []SettledStateAgrees
<1>1. StateInv => SettledStateAgrees
  BY DEF StateInv, SettledInv, Startable, SettledStateAgrees
<1> QED BY <1>1, StateInvariant, PTL

-----------------------------------------------------------------------------
(* ApplyPlan.                                                              *)

\* The order of the naturals.
NatLess == {ss \in Nat \X Nat : ss[1] < ss[2]}

(* A set of naturals that is not empty has a least element.                *)
LEMMA LeastNat ==
  ASSUME NEW S \in SUBSET Nat, S # {}
  PROVE  \E x \in S : \A y \in S : x <= y
<1>1. IsWellFoundedOn(NatLess, Nat)
  BY NatLessThanWellFounded DEF OpToRel, NatLess
<1>2. \E x \in S : \A y \in S : ~(<<y, x>> \in NatLess)
  BY <1>1, WFMin
<1>3. \A x, y \in S : (<<y, x>> \in NatLess) <=> y < x
  BY DEF NatLess
<1>4. \A x, y \in S : ~(y < x) => x <= y
  OBVIOUS
<1> QED BY <1>2, <1>3, <1>4

(* A set with 0 and with the successor of each of its numbers below n.     *)
LEMMA UpToN ==
  ASSUME NEW n \in Nat, NEW S, 0 \in S, \A i \in 0..(n - 1) : i \in S => i + 1 \in S
  PROVE  \A i \in 0..n : i \in S
<1>1. PICK R : R = {i \in 0..n : i \notin S}
  OBVIOUS
<1>2. SUFFICES ASSUME R # {} PROVE FALSE
  BY <1>1
<1>3. PICK k \in R : \A j \in R : k <= j
  BY <1>1, <1>2, LeastNat
<1>4. k \in 1..n /\ k - 1 \in 0..(n - 1) /\ k - 1 \in 0..n /\ k - 1 + 1 = k /\ ~(k <= k - 1)
  BY <1>1, <1>3
<1>5. k - 1 \in S
  BY <1>1, <1>3, <1>4
<1> QED BY <1>1, <1>3, <1>4, <1>5

\* The lists put together, one more at a time.
Chains(X, lists) ==
  {f \in [0..Len(lists) -> Seq(X)] : f[0] = <<>> /\ \A i \in 1..Len(lists) : f[i] = f[i - 1] \o lists[i]}

(* They can be.                                                            *)
LEMMA ChainExists ==
  ASSUME NEW X, NEW lists \in Seq(Seq(X))
  PROVE  Chains(X, lists) # {}
<1>1. PICK n : n = Len(lists)
  OBVIOUS
<1>2. n \in Nat /\ (\A i \in 1..n : lists[i] \in Seq(X)) /\ <<>> \in Seq(X)
  BY <1>1
<1>3. PICK K : K = {k \in 0..n : \E f \in [0..k -> Seq(X)] : f[0] = <<>> /\ \A i \in 1..k : f[i] = f[i - 1] \o lists[i]}
  OBVIOUS
<1>4. 0 \in K
  <2>1. PICK f : f = [i \in 0..0 |-> <<>>]
    OBVIOUS
  <2>2. f \in [0..0 -> Seq(X)] /\ f[0] = <<>> /\ \A i \in 1..0 : f[i] = f[i - 1] \o lists[i]
    BY <1>2, <2>1
  <2>3. 0 \in 0..n
    BY <1>2
  <2>4. \E h \in [0..0 -> Seq(X)] : h[0] = <<>> /\ \A i \in 1..0 : h[i] = h[i - 1] \o lists[i]
    BY <2>2
  <2> QED BY <1>3, <2>3, <2>4
<1>5. ASSUME NEW k \in 0..(n - 1), k \in K PROVE k + 1 \in K
  <2>1. PICK f \in [0..k -> Seq(X)] : f[0] = <<>> /\ \A i \in 1..k : f[i] = f[i - 1] \o lists[i]
    BY <1>3, <1>5
  <2>2. PICK last : last = f[k] \o lists[k + 1]
    OBVIOUS
  <2>3. k \in Nat /\ k + 1 \in 1..n /\ k + 1 \in 0..n /\ k \in 0..k
    BY <1>2, <1>5
  <2>4. last \in Seq(X)
    BY <1>2, <2>1, <2>2, <2>3
  <2>5. PICK g : g = [i \in 0..(k + 1) |-> IF i = k + 1 THEN last ELSE f[i]]
    OBVIOUS
  <2>6. \A i \in 0..k : g[i] = f[i] /\ i # k + 1 /\ f[i] \in Seq(X)
    BY <2>1, <2>3, <2>5
  <2>7. g[k + 1] = last
    BY <2>3, <2>5
  <2>8. g \in [0..(k + 1) -> Seq(X)]
    <3>1. \A i \in 0..(k + 1) : i = k + 1 \/ i \in 0..k
      BY <2>3
    <3>2. \A i \in 0..(k + 1) : g[i] \in Seq(X)
      BY <2>4, <2>6, <2>7, <3>1
    <3> QED BY <2>5, <3>2
  <2>9. g[0] = <<>>
    BY <2>1, <2>3, <2>6
  <2>10. \A i \in 1..(k + 1) : g[i] = g[i - 1] \o lists[i]
    <3>1. \A i \in 1..(k + 1) : i = k + 1 \/ i \in 1..k
      BY <2>3
    <3>2. ASSUME NEW i \in 1..k PROVE g[i] = g[i - 1] \o lists[i]
      <4>1. i \in 0..k /\ i - 1 \in 0..k
        BY <2>3, <3>2
      <4>2. g[i] = f[i] /\ g[i - 1] = f[i - 1]
        BY <2>6, <4>1
      <4> QED BY <2>1, <4>2
    <3>3. ASSUME NEW i \in 1..(k + 1), i = k + 1 PROVE g[i] = g[i - 1] \o lists[i]
      <4>1. i - 1 = k /\ k \in 0..k
        BY <2>3, <3>3
      <4>2. g[i - 1] = f[k]
        BY <2>6, <4>1
      <4> QED BY <2>2, <2>7, <3>3, <4>2
    <3> QED BY <3>1, <3>2, <3>3
  <2> QED BY <1>3, <2>3, <2>8, <2>9, <2>10
<1>6. n \in K
  <2>1. n \in 0..n
    BY <1>2
  <2>2. \A k \in 0..(n - 1) : k \in K => k + 1 \in K
    BY <1>5
  <2>3. \A k \in 0..n : k \in K
    BY <1>2, <1>4, <2>2, UpToN
  <2> QED BY <2>1, <2>3
<1>7. \E f \in [0..n -> Seq(X)] : f[0] = <<>> /\ \A i \in 1..n : f[i] = f[i - 1] \o lists[i]
  BY <1>3, <1>6
<1> QED BY <1>1, <1>7 DEF Chains

(* Concat is the end of it.                                                *)
LEMMA ConcatIs ==
  ASSUME NEW X, NEW lists \in Seq(Seq(X)), NEW f \in Chains(X, lists)
  PROVE  Concat(lists) = f[Len(lists)]
<1>1. PICK n \in Nat : n = Len(lists)
  OBVIOUS
<1> DEFINE IsChain(h) == h = [i \in 0..Len(lists) |-> IF i = 0 THEN <<>> ELSE h[i - 1] \o lists[i]]
<1>2. f \in [0..n -> Seq(X)] /\ f[0] = <<>> /\ \A i \in 1..n : f[i] = f[i - 1] \o lists[i]
  BY <1>1 DEF Chains
<1>3. \A i \in 0..n : f[i] = IF i = 0 THEN <<>> ELSE f[i - 1] \o lists[i]
  <2>1. \A i \in 0..n : i = 0 \/ i \in 1..n
    BY <1>1
  <2>2. \A i \in 1..n : i # 0
    BY <1>1
  <2> QED BY <1>2, <2>1, <2>2
<1>4. IsChain(f)
  BY <1>1, <1>2, <1>3
<1>5. PICK h : IsChain(h) /\ Concat(lists) = h[Len(lists)]
  BY <1>4 DEF Concat
<1>6. PICK A : A = {i \in 0..n : h[i] = f[i]}
  OBVIOUS
<1>7. 0 \in A
  <2>1. 0 \in 0..n
    BY <1>1
  <2>2. h[0] = <<>>
    BY <1>1, <1>5, <2>1
  <2> QED BY <1>2, <1>6, <2>1, <2>2
<1>8. ASSUME NEW i \in 0..(n - 1), i \in A PROVE i + 1 \in A
  <2>1. PICK k : k = i + 1
    OBVIOUS
  <2>2. k \in 1..n /\ k \in 0..n /\ k - 1 = i /\ k # 0
    BY <1>1, <1>8, <2>1
  <2>3. h[i] = f[i]
    BY <1>6, <1>8
  <2>4. h[k] = h[i] \o lists[k]
    BY <1>1, <1>5, <2>2
  <2>5. f[k] = f[i] \o lists[k]
    <3>1. f[k] = f[k - 1] \o lists[k]
      BY <1>2, <2>2
    <3> QED BY <2>2, <3>1
  <2> QED BY <1>6, <2>1, <2>2, <2>3, <2>4, <2>5
<1>9. n \in A
  <2>1. n \in 0..n
    BY <1>1
  <2>2. \A i \in 0..(n - 1) : i \in A => i + 1 \in A
    BY <1>8
  <2> QED BY <1>1, <1>7, <2>1, <2>2, UpToN
<1> QED BY <1>1, <1>5, <1>6, <1>9

(* What each list is, and two of them together, all of them are.           *)
LEMMA ConcatIn ==
  ASSUME NEW X, NEW G \in SUBSET Seq(X), <<>> \in G, \A a, b \in G : a \o b \in G,
         NEW lists \in Seq(G)
  PROVE  Concat(lists) \in G
<1>1. lists \in Seq(Seq(X)) /\ Len(lists) \in Nat /\ \A i \in 1..Len(lists) : lists[i] \in G
  OBVIOUS
<1>2. PICK n \in Nat : n = Len(lists)
  BY <1>1
<1>3. PICK f : f \in Chains(X, lists)
  BY <1>1, ChainExists
<1>4. f[0] = <<>> /\ \A i \in 1..n : f[i] = f[i - 1] \o lists[i]
  BY <1>2, <1>3 DEF Chains
<1>5. PICK A : A = {i \in 0..n : f[i] \in G}
  OBVIOUS
<1>6. 0 \in A
  BY <1>2, <1>4, <1>5
<1>7. ASSUME NEW i \in 0..(n - 1), i \in A PROVE i + 1 \in A
  <2>1. PICK k : k = i + 1
    OBVIOUS
  <2>2. k \in 1..n /\ k \in 0..n /\ k - 1 = i
    BY <1>2, <1>7, <2>1
  <2>3. f[k] = f[i] \o lists[k]
    <3>1. f[k] = f[k - 1] \o lists[k]
      BY <1>4, <2>2
    <3> QED BY <2>2, <3>1
  <2>4. f[i] \in G /\ lists[k] \in G
    BY <1>1, <1>2, <1>5, <1>7, <2>2
  <2> QED BY <1>5, <2>1, <2>2, <2>3, <2>4
<1>8. n \in A
  <2>1. n \in 0..n
    BY <1>2
  <2>2. \A i \in 0..(n - 1) : i \in A => i + 1 \in A
    BY <1>7
  <2> QED BY <1>2, <1>6, <2>1, <2>2, UpToN
<1>9. Concat(lists) = f[n]
  BY <1>1, <1>2, <1>3, ConcatIs
<1> QED BY <1>5, <1>8, <1>9

(* Two lists together hold what either holds.                              *)
LEMMA ToSetAdd ==
  ASSUME NEW X, NEW a \in Seq(X), NEW b \in Seq(X)
  PROVE  ToSet(a) \subseteq ToSet(a \o b) /\ ToSet(b) \subseteq ToSet(a \o b)
<1>1. /\ Len(a) \in Nat /\ Len(b) \in Nat /\ Len(a \o b) = Len(a) + Len(b)
      /\ \A i \in 1..Len(a) : (a \o b)[i] = a[i]
      /\ \A i \in 1..Len(b) : (a \o b)[Len(a) + i] = b[i]
  OBVIOUS
<1>2. DOMAIN a = 1..Len(a) /\ DOMAIN b = 1..Len(b) /\ DOMAIN (a \o b) = 1..(Len(a) + Len(b))
  OBVIOUS
<1>3. \A i \in 1..Len(a) : i \in 1..(Len(a) + Len(b))
  BY <1>1
<1>4. \A i \in 1..Len(b) : Len(a) + i \in 1..(Len(a) + Len(b))
  BY <1>1
<1>5. ASSUME NEW y \in ToSet(a) PROVE y \in ToSet(a \o b)
  <2>1. PICK i \in 1..Len(a) : y = a[i]
    BY <1>2 DEF ToSet
  <2> QED BY <1>1, <1>2, <1>3, <2>1 DEF ToSet
<1>6. ASSUME NEW y \in ToSet(b) PROVE y \in ToSet(a \o b)
  <2>1. PICK i \in 1..Len(b) : y = b[i]
    BY <1>2 DEF ToSet
  <2>2. PICK k1 : k1 = Len(a) + i
    OBVIOUS
  <2>3. k1 \in DOMAIN (a \o b) /\ (a \o b)[k1] = y
    BY <1>1, <1>2, <1>4, <2>1, <2>2
  <2> QED BY <2>3 DEF ToSet
<1> QED BY <1>5, <1>6

(* What is in one of the lists is in all of them together.                 *)
LEMMA ConcatHas ==
  ASSUME NEW X, NEW lists \in Seq(Seq(X)), NEW k \in DOMAIN lists, NEW x \in ToSet(lists[k])
  PROVE  x \in ToSet(Concat(lists))
<1>1. Len(lists) \in Nat /\ \A i \in 1..Len(lists) : lists[i] \in Seq(X)
  OBVIOUS
<1>2. PICK n \in Nat : n = Len(lists)
  BY <1>1
<1>3. PICK f : f \in Chains(X, lists)
  BY ChainExists
<1>4. f \in [0..n -> Seq(X)] /\ \A i \in 1..n : f[i] = f[i - 1] \o lists[i]
  BY <1>2, <1>3 DEF Chains
<1>5. k \in 1..n
  BY <1>2
<1>6. \A a, b \in Seq(X) : ToSet(a) \subseteq ToSet(a \o b) /\ ToSet(b) \subseteq ToSet(a \o b)
  BY ToSetAdd
<1>7. PICK A : A = {i \in 0..n : i >= k => x \in ToSet(f[i])}
  OBVIOUS
<1>8. 0 \in A
  BY <1>2, <1>5, <1>7
<1>9. ASSUME NEW i \in 0..(n - 1), i \in A PROVE i + 1 \in A
  <2>1. PICK j : j = i + 1
    OBVIOUS
  <2>2. j \in 1..n /\ j \in 0..n /\ j - 1 = i /\ i \in 0..n
    BY <1>2, <1>9, <2>1
  <2>3. f[j] = f[i] \o lists[j]
    <3>1. f[j] = f[j - 1] \o lists[j]
      BY <1>4, <2>2
    <3> QED BY <2>2, <3>1
  <2>4. f[i] \in Seq(X) /\ lists[j] \in Seq(X)
    BY <1>1, <1>2, <1>4, <2>2
  <2>5. CASE i >= k
    <3>1. x \in ToSet(f[i])
      BY <1>7, <1>9, <2>5
    <3>2. x \in ToSet(f[j])
      BY <1>6, <2>3, <2>4, <3>1
    <3> QED BY <1>7, <2>1, <2>2, <3>2
  <2>6. CASE j = k
    <3>1. x \in ToSet(f[j])
      BY <1>6, <2>3, <2>4, <2>6
    <3> QED BY <1>7, <2>1, <2>2, <3>1
  <2>7. CASE ~(j >= k)
    BY <1>7, <2>1, <2>2, <2>7
  <2>8. i >= k \/ j = k \/ ~(j >= k)
    BY <1>2, <1>5, <1>9, <2>1
  <2> QED BY <2>5, <2>6, <2>7, <2>8
<1>10. n \in A
  <2>1. n \in 0..n
    BY <1>2
  <2>2. \A i \in 0..(n - 1) : i \in A => i + 1 \in A
    BY <1>9
  <2> QED BY <1>2, <1>8, <2>1, <2>2, UpToN
<1>11. Concat(lists) = f[n]
  BY <1>2, <1>3, ConcatIs
<1>12. n >= k
  BY <1>2, <1>5
<1> QED BY <1>7, <1>10, <1>11, <1>12

-----------------------------------------------------------------------------
(* The steps of a request, and the invariant.                              *)

Dirs == JobDirs \cup PackageDirs
Ops == {"stop", "fetch", "unlink", "symlink", "bind", "hook", "write", "throw", "source", "clear",
        "packaging", "upload", "cleanup"}

\* A step is on a path that is there for it.
Fits(one) ==
  /\ one.op = "fetch" => one.path \in Dirs
  /\ one.op \in {"unlink", "symlink"} => one.path \in Links /\ one.to \in Dirs
  /\ one.op = "bind" => one.path \in JobDirs
  /\ one.op \in {"clear", "packaging", "upload"} => one.path \in PackageDirs
Steps == {one \in [op : Ops, path : Dirs \cup Links \cup {None}, to : Dirs \cup {None}] : Fits(one)}

\* The links of a spec, and of a compilation, each with where it leads.
InJob(s, template) == {<<SymlinkPathInJob(template, package), PackageDir(package)>> : package \in ToSet(s.packages)}
InJobs(s) == UNION {InJob(s, template) : template \in ToSet(s.jobs)}
SpecLeads(s) ==
  {<<JobLink(template), JobDir(template)>> : template \in ToSet(s.jobs)}
    \cup {<<PackageLink(package), PackageDir(package)>> : package \in ToSet(s.packages)}
    \cup InJobs(s)
CompileLeads(c) == {<<PackageLink(package), PackageDir(package)>> : package \in ToSet(c.dependencies)}

\* The steps of some kinds, with links that are among leads.
Kind(ops, leads) ==
  {one \in Steps : one.op \in ops /\ (one.op \in {"unlink", "symlink"} => <<one.path, one.to>> \in leads)}
InstallOps == {"stop", "fetch", "unlink", "symlink", "bind", "hook"}
LinkOps == {"fetch", "unlink", "symlink"}
FetchOps == {"stop", "fetch", "throw"}

\* A link is made where one has just been deleted, and deleted to be made; a
\* configuration is bound in a directory that was fetched before.
Made(t, i) == i > 1 /\ t[i - 1].op = "unlink" /\ t[i - 1].path = t[i].path
Remade(t, i) == i < Len(t) /\ t[i + 1].op = "symlink" /\ t[i + 1].path = t[i].path /\ t[i + 1].to = t[i].to
Fetched(t, i) == \E j \in 1..(i - 1) : t[j].op = "fetch" /\ t[j].path = t[i].path
Sequenced(t) ==
  \A i \in 1..Len(t) :
    /\ t[i].op = "symlink" => Made(t, i)
    /\ t[i].op = "unlink" => Remade(t, i)
    /\ t[i].op = "bind" => Fetched(t, i)
Plans(ops, leads) == {t \in Seq(Kind(ops, leads)) : Sequenced(t)}

\* The same of what is left to do, where the first step finds what it asks.
Ready(t) ==
  \A i \in 1..Len(t) :
    /\ t[i].op = "symlink" => Made(t, i) \/ (i = 1 /\ links[t[i].path] = None)
    /\ t[i].op = "unlink" => Remade(t, i)
    /\ t[i].op = "bind" => Fetched(t, i) \/ bits[t[i].path] = "all"

\* What is there, or comes with a step that is left.
Whole(t, dir) == bits[dir] = "all" \/ Step("fetch", dir, None) \in ToSet(t)
Leading(t, link, dir) == links[link] = dir \/ Step("symlink", link, dir) \in ToSet(t)
Bound(t, dir, properties) == bound[dir] = properties \/ Step("bind", dir, None) \in ToSet(t)
Comes(s, t) ==
  \A template \in ToSet(s.jobs) :
    /\ Whole(t, JobDir(template)) /\ Leading(t, JobLink(template), JobDir(template)) /\ Bound(t, JobDir(template), s.properties)
    /\ \A package \in ToSet(s.packages) :
         /\ Whole(t, PackageDir(package))
         /\ Leading(t, PackageLink(package), PackageDir(package))
         /\ Leading(t, SymlinkPathInJob(template, package), PackageDir(package))
DependenciesCome(c, t) ==
  \A p \in ToSet(c.dependencies) : Whole(t, PackageDir(p)) /\ Leading(t, PackageLink(p), PackageDir(p))

Applies(s, t) ==
  /\ s \in Specs
  /\ \A i \in 1..Len(t) : IF i = Len(t) THEN t[i] = Step("write", None, None)
                                       ELSE t[i] \in Kind(InstallOps, SpecLeads(s))
  /\ s.configured => Comes(s, t)
Prepares(t) == \A i \in 1..Len(t) : t[i] \in Kind(FetchOps, {})

\* The last steps of a compilation, from the end, after those on dependencies.
Finishing(c, left) ==
  CASE left = 1 -> Step("cleanup", None, None)
    [] left = 2 -> Step("upload", PackageDir(c.package), None)
    [] left = 3 -> Step("packaging", PackageDir(c.package), None)
    [] left = 4 -> Step("clear", PackageDir(c.package), None)
    [] left = 5 -> Step("source", None, None)
CompilesNow(c, t) ==
  /\ c \in Compiles
  /\ \A i \in 1..Len(t) : IF Len(t) - i < 5 THEN t[i] = Finishing(c, Len(t) - i + 1)
                                            ELSE t[i] \in Kind(LinkOps, CompileLeads(c))
  /\ Len(t) >= 2 => DependenciesCome(c, t)
  /\ Len(t) = 3 => bits[PackageDir(c.package)] = "none"
  /\ Len(t) = 2 => bits[PackageDir(c.package)] = "all"

AttemptOK ==
  attempt.todo # <<>> =>
    /\ attempt.kind \in {"apply", "prepare", "compile"}
    /\ attempt.kind = "apply" => Applies(attempt.of, attempt.todo)
    /\ attempt.kind = "prepare" => Prepares(attempt.todo)
    /\ attempt.kind = "compile" => CompilesNow(attempt.of, attempt.todo)

SavedKept ==
  ~spoiled /\ saved.configured /\ (BetweenRequests \/ attempt.kind = "prepare") => Installed(saved)

Bits == {"none", "part", "all"}
Bounds == {s.properties : s \in Specs} \cup {None, "part"}
Attempts == [kind : {None, "apply", "prepare", "compile"}, of : Specs \cup Compiles \cup {NoSpec},
             todo : Seq(Steps), end : {None, "refused", "done", "fault", "ended", "null", "stuck"}]
ApplyTypes ==
  /\ bits \in [Dirs -> Bits]
  /\ bound \in [JobDirs -> Bounds]
  /\ links \in [Links -> Dirs \cup {None}]
  /\ saved \in Specs \cup {NoSpec}
  /\ attempt \in Attempts
  /\ spoiled \in BOOLEAN

ApplyIInv ==
  /\ ApplyTypes /\ Ready(attempt.todo) /\ AttemptOK /\ SavedKept
  /\ attempt.kind = "compile" => spoiled
  /\ LeftoversDoNotMatter /\ UploadsAreWhole

-----------------------------------------------------------------------------
(* Plans put together.                                                     *)

(* Two lists that are one: where each step of it is from.                  *)
LEMMA TwoLists ==
  ASSUME NEW X, NEW a \in Seq(X), NEW b \in Seq(X), NEW t, t = a \o b
  PROVE  /\ t \in Seq(X) /\ Len(a) \in Nat /\ Len(b) \in Nat /\ Len(t) = Len(a) + Len(b)
         /\ \A i \in 1..Len(a) : t[i] = a[i]
         /\ \A i \in 1..Len(b) : t[Len(a) + i] = b[i]
         /\ \A i \in 1..Len(t) : i \in 1..Len(a) \/ i - Len(a) \in 1..Len(b)
OBVIOUS

(* A plan after a plan is a plan.                                          *)
LEMMA PlansAdd ==
  ASSUME NEW ops, NEW leads, NEW a \in Plans(ops, leads), NEW b \in Plans(ops, leads)
  PROVE  a \o b \in Plans(ops, leads)
<1>1. PICK X : X = Kind(ops, leads)
  OBVIOUS
<1>2. a \in Seq(X) /\ b \in Seq(X) /\ Sequenced(a) /\ Sequenced(b)
  BY <1>1 DEF Plans
<1>3. PICK t : t = a \o b
  OBVIOUS
<1>4. PICK n, m : n = Len(a) /\ m = Len(b)
  OBVIOUS
<1>5. /\ t \in Seq(X) /\ n \in Nat /\ m \in Nat /\ Len(t) = n + m
      /\ \A i \in 1..n : t[i] = a[i]
      /\ \A i \in 1..m : t[n + i] = b[i]
      /\ \A i \in 1..Len(t) : i \in 1..n \/ i - n \in 1..m
  BY <1>2, <1>3, <1>4, TwoLists
<1>6. ASSUME NEW i \in 1..n
      PROVE  /\ t[i].op = "symlink" => Made(t, i)
             /\ t[i].op = "unlink" => Remade(t, i)
             /\ t[i].op = "bind" => Fetched(t, i)
  <2>1. t[i] = a[i] /\ i \in 1..Len(a)
    BY <1>4, <1>5, <1>6
  <2>2. ASSUME t[i].op = "symlink" PROVE Made(t, i)
    <3>1. i > 1 /\ a[i - 1].op = "unlink" /\ a[i - 1].path = a[i].path
      BY <1>2, <2>1, <2>2 DEF Sequenced, Made
    <3>2. i - 1 \in 1..n
      BY <1>5, <1>6, <3>1
    <3> QED BY <1>5, <2>1, <3>1, <3>2 DEF Made
  <2>3. ASSUME t[i].op = "unlink" PROVE Remade(t, i)
    <3>1. i < n /\ a[i + 1].op = "symlink" /\ a[i + 1].path = a[i].path /\ a[i + 1].to = a[i].to
      BY <1>2, <1>4, <2>1, <2>3 DEF Sequenced, Remade
    <3>2. i + 1 \in 1..n /\ i < n + m
      BY <1>5, <1>6, <3>1
    <3> QED BY <1>5, <2>1, <3>1, <3>2 DEF Remade
  <2>4. ASSUME t[i].op = "bind" PROVE Fetched(t, i)
    <3>1. PICK j \in 1..(i - 1) : a[j].op = "fetch" /\ a[j].path = a[i].path
      BY <1>2, <2>1, <2>4 DEF Sequenced, Fetched
    <3>2. j \in 1..n
      BY <1>5, <1>6, <3>1
    <3>3. t[j] = a[j]
      BY <1>5, <3>2
    <3> QED BY <2>1, <3>1, <3>3 DEF Fetched
  <2> QED BY <2>2, <2>3, <2>4
<1>7. ASSUME NEW i \in 1..Len(t), i - n \in 1..m
      PROVE  /\ t[i].op = "symlink" => Made(t, i)
             /\ t[i].op = "unlink" => Remade(t, i)
             /\ t[i].op = "bind" => Fetched(t, i)
  <2>1. PICK k \in 1..m : k = i - n
    BY <1>7
  <2>2. i = n + k /\ k \in Nat /\ k \in 1..Len(b)
    BY <1>4, <1>5, <1>7, <2>1
  <2>3. t[i] = b[k]
    BY <1>5, <2>1, <2>2
  <2>4. ASSUME t[i].op = "symlink" PROVE Made(t, i)
    <3>1. k > 1 /\ b[k - 1].op = "unlink" /\ b[k - 1].path = b[k].path
      BY <1>2, <2>2, <2>3, <2>4 DEF Sequenced, Made
    <3>2. PICK l : l = k - 1
      OBVIOUS
    <3>a. n \in Nat /\ m \in Nat /\ k \in 1..m /\ i = n + k /\ k > 1
      BY <1>5, <2>1, <2>2, <3>1
    <3>3. l \in 1..m /\ n + l = i - 1 /\ i > 1
      BY <3>a, <3>2
    <3>4. t[n + l] = b[l]
      BY <1>5, <3>3
    <3>5. t[i - 1] = b[k - 1]
      BY <3>2, <3>3, <3>4
    <3> QED BY <2>3, <3>1, <3>3, <3>5 DEF Made
  <2>5. ASSUME t[i].op = "unlink" PROVE Remade(t, i)
    <3>1. k < m /\ b[k + 1].op = "symlink" /\ b[k + 1].path = b[k].path /\ b[k + 1].to = b[k].to
      BY <1>2, <1>4, <2>2, <2>3, <2>5 DEF Sequenced, Remade
    <3>2. PICK l : l = k + 1
      OBVIOUS
    <3>a. n \in Nat /\ m \in Nat /\ k \in 1..m /\ i = n + k /\ k < m
      BY <1>5, <2>1, <2>2, <3>1
    <3>3. l \in 1..m /\ n + l = i + 1 /\ i < n + m
      BY <3>a, <3>2
    <3>4. t[n + l] = b[l]
      BY <1>5, <3>3
    <3>5. t[i + 1] = b[k + 1]
      BY <3>2, <3>3, <3>4
    <3> QED BY <1>5, <2>3, <3>1, <3>3, <3>5 DEF Remade
  <2>6. ASSUME t[i].op = "bind" PROVE Fetched(t, i)
    <3>1. PICK j \in 1..(k - 1) : b[j].op = "fetch" /\ b[j].path = b[k].path
      BY <1>2, <2>2, <2>3, <2>6 DEF Sequenced, Fetched
    <3>a. n \in Nat /\ m \in Nat /\ k \in 1..m /\ i = n + k
      BY <1>5, <2>1, <2>2
    <3>2. j \in 1..m /\ n + j \in 1..(i - 1)
      BY <3>a, <3>1
    <3>3. t[n + j] = b[j]
      BY <1>5, <3>2
    <3> QED BY <2>3, <3>1, <3>2, <3>3 DEF Fetched
  <2> QED BY <2>4, <2>5, <2>6
<1>8. Sequenced(t)
  BY <1>5, <1>6, <1>7 DEF Sequenced
<1> QED BY <1>1, <1>3, <1>5, <1>8 DEF Plans

(* No steps are a plan.                                                    *)
LEMMA NoPlan == ASSUME NEW ops, NEW leads PROVE <<>> \in Plans(ops, leads)
<1>1. Len(<<>>) = 0 /\ 1..0 = {}
  OBVIOUS
<1>2. Sequenced(<<>>)
  BY <1>1 DEF Sequenced
<1> QED BY <1>2 DEF Plans

(* Plans for each are a plan.                                              *)
LEMMA PlansConcat ==
  ASSUME NEW ops, NEW leads, NEW lists \in Seq(Plans(ops, leads))
  PROVE  Concat(lists) \in Plans(ops, leads)
<1>1. PICK X, G : X = Kind(ops, leads) /\ G = Plans(ops, leads)
  OBVIOUS
<1>2. G \in SUBSET Seq(X)
  BY <1>1 DEF Plans
<1>3. <<>> \in G /\ \A a, b \in G : a \o b \in G
  BY <1>1, NoPlan, PlansAdd
<1>4. lists \in Seq(G)
  BY <1>1
<1>5. Concat(lists) \in G
  BY <1>2, <1>3, <1>4, ConcatIn
<1> QED BY <1>1, <1>5

(* A step.                                                                 *)
LEMMA StepIs ==
  ASSUME NEW op, NEW path, NEW to
  PROVE  /\ Step(op, path, to).op = op /\ Step(op, path, to).path = path /\ Step(op, path, to).to = to
BY DEF Step

(* A step that asks for none before it is a plan.                          *)
LEMMA OneStep ==
  ASSUME NEW ops, NEW leads, NEW x \in Kind(ops, leads), x.op \notin {"symlink", "unlink", "bind"}
  PROVE  <<x>> \in Plans(ops, leads)
<1>1. PICK t : t = <<x>>
  OBVIOUS
<1>2. t \in Seq(Kind(ops, leads)) /\ Len(t) = 1 /\ \A i \in 1..1 : t[i] = x
  BY <1>1
<1>3. Sequenced(t)
  BY <1>2 DEF Sequenced
<1> QED BY <1>1, <1>2, <1>3 DEF Plans

(* Deleting a link and making it is a plan.                                *)
LEMMA CreateSymLinkPlan ==
  ASSUME NEW ops, NEW leads, NEW target \in Dirs, NEW link \in Links,
         "unlink" \in ops, "symlink" \in ops, <<link, target>> \in leads
  PROVE  CreateSymLink(target, link) \in Plans(ops, leads)
<1>1. PICK u, v : u = Step("unlink", link, target) /\ v = Step("symlink", link, target)
  OBVIOUS
<1>2. u \in Kind(ops, leads) /\ v \in Kind(ops, leads)
  BY <1>1 DEF Kind, Steps, Fits, Ops, Step
<1>3. u.op = "unlink" /\ v.op = "symlink" /\ u.path = v.path /\ u.to = v.to
  BY <1>1 DEF Step
<1>4. PICK t : t = <<u, v>>
  OBVIOUS
<1>5. t \in Seq(Kind(ops, leads)) /\ Len(t) = 2 /\ t[1] = u /\ t[2] = v
  BY <1>2, <1>4
<1>6. Sequenced(t)
  <2>1. Made(t, 2)
    BY <1>3, <1>5 DEF Made
  <2>2. Remade(t, 1)
    BY <1>3, <1>5 DEF Remade
  <2>3. \A i \in 1..2 : i = 1 \/ i = 2
    OBVIOUS
  <2> QED BY <1>3, <1>5, <2>1, <2>2, <2>3 DEF Sequenced
<1>7. t \in Plans(ops, leads)
  BY <1>5, <1>6 DEF Plans
<1> QED BY <1>1, <1>4, <1>7 DEF CreateSymLink

(* So is fetching a directory.                                             *)
LEMMA FetchPlan ==
  ASSUME NEW ops, NEW leads, NEW dir \in Dirs, "fetch" \in ops
  PROVE  FetchBits(dir) \in Plans(ops, leads)
<1>1. PICK x : x = Step("fetch", dir, None)
  OBVIOUS
<1>2. x \in Kind(ops, leads) /\ x.op = "fetch"
  BY <1>1 DEF Kind, Steps, Fits, Ops, Step
<1>3. <<x>> \in Plans(ops, leads)
  BY <1>2, OneStep
<1> QED BY <1>1, <1>3 DEF FetchBits

-----------------------------------------------------------------------------
(* What the specs name.                                                    *)

(* The jobs and packages of a spec are among all, with their places.       *)
LEMMA SpecPlaces ==
  ASSUME NEW s \in Specs
  PROVE  /\ s.jobs \in Seq(Jobs) /\ s.packages \in Seq(Packages) /\ s.configured \in BOOLEAN
         /\ \A template \in ToSet(s.jobs) :
              /\ JobDir(template) \in JobDirs /\ JobLink(template) \in Links /\ <<JobLink(template), JobDir(template)>> \in SpecLeads(s)
              /\ \A package \in ToSet(s.packages) :
                   /\ PackageDir(package) \in PackageDirs
                   /\ PackageLink(package) \in Links /\ <<PackageLink(package), PackageDir(package)>> \in SpecLeads(s)
                   /\ SymlinkPathInJob(template, package) \in Links
                   /\ <<SymlinkPathInJob(template, package), PackageDir(package)>> \in SpecLeads(s)
         /\ \A package \in ToSet(s.packages) : PackageDir(package) \in PackageDirs
<1>1. s.jobs \in Seq(Jobs) /\ s.packages \in Seq(Packages) /\ s.configured \in BOOLEAN
  BY ApplyAssumption DEF NamedOnce
<1>2. ToSet(s.jobs) \subseteq Jobs /\ ToSet(s.packages) \subseteq Packages
  BY DEF Jobs, Packages
<1>3. ASSUME NEW template \in ToSet(s.jobs)
      PROVE  JobDir(template) \in JobDirs /\ JobLink(template) \in Links /\ <<JobLink(template), JobDir(template)>> \in SpecLeads(s)
  <2>1. template \in Jobs
    BY <1>2
  <2>2. JobDir(template) \in JobDirs
    BY <2>1 DEF JobDirs
  <2>3. JobLink(template) \in Links
    BY <2>1 DEF Links
  <2>4. <<JobLink(template), JobDir(template)>> \in SpecLeads(s)
    BY DEF SpecLeads
  <2> QED BY <2>2, <2>3, <2>4
<1>4. ASSUME NEW package \in ToSet(s.packages)
      PROVE  PackageDir(package) \in PackageDirs /\ PackageLink(package) \in Links
             /\ <<PackageLink(package), PackageDir(package)>> \in SpecLeads(s)
  <2>1. package \in Packages
    BY <1>2
  <2>2. PackageDir(package) \in PackageDirs
    BY <2>1 DEF PackageDirs
  <2>3. PackageLink(package) \in Links
    BY <2>1 DEF Links
  <2>4. <<PackageLink(package), PackageDir(package)>> \in SpecLeads(s)
    BY DEF SpecLeads
  <2> QED BY <2>2, <2>3, <2>4
<1>5. ASSUME NEW template \in ToSet(s.jobs), NEW package \in ToSet(s.packages)
      PROVE  SymlinkPathInJob(template, package) \in Links
             /\ <<SymlinkPathInJob(template, package), PackageDir(package)>> \in SpecLeads(s)
  <2>1. template \in Jobs /\ package \in Packages
    BY <1>2
  <2>2. SymlinkPathInJob(template, package) \in Links
    <3>1. SymlinkPathInJob(template, package) \in LinksInJob(template)
      BY <2>1 DEF LinksInJob
    <3>2. SymlinkPathInJob(template, package) \in UNION {LinksInJob(j) : j \in Jobs}
      BY <2>1, <3>1
    <3> QED BY <3>2 DEF Links
  <2>3. <<SymlinkPathInJob(template, package), PackageDir(package)>> \in InJobs(s)
    <3>1. <<SymlinkPathInJob(template, package), PackageDir(package)>> \in InJob(s, template)
      BY DEF InJob
    <3> QED BY <3>1 DEF InJobs
  <2> QED BY <2>2, <2>3 DEF SpecLeads
<1> QED BY <1>1, <1>3, <1>4, <1>5

(* So are the packages of a compilation.                                   *)
LEMMA CompilePlaces ==
  ASSUME NEW c \in Compiles
  PROVE  /\ c.dependencies \in Seq(Packages) /\ PackageDir(c.package) \in PackageDirs
         /\ \A p \in ToSet(c.dependencies) :
              /\ PackageDir(p) \in PackageDirs /\ PackageLink(p) \in Links
              /\ <<PackageLink(p), PackageDir(p)>> \in CompileLeads(c)
              /\ PackageDir(p) # PackageDir(c.package)
<1>1. c.dependencies \in Seq(Packages) /\ c.package \notin ToSet(c.dependencies)
  BY ApplyAssumption DEF NamedOnce
<1>2. c.package \in Packages /\ ToSet(c.dependencies) \subseteq Packages
  <2>1. c.package \in {d.package : d \in Compiles}
    OBVIOUS
  <2>2. ToSet(c.dependencies) \subseteq UNION {ToSet(d.dependencies) : d \in Compiles}
    OBVIOUS
  <2>3. {d.package : d \in Compiles} \subseteq Packages
    BY DEF Packages
  <2>4. UNION {ToSet(d.dependencies) : d \in Compiles} \subseteq Packages
    BY DEF Packages
  <2> QED BY <2>1, <2>2, <2>3, <2>4
<1>3. PackageDir(c.package) \in PackageDirs
  BY <1>2 DEF PackageDirs
<1>4. ASSUME NEW p \in ToSet(c.dependencies)
      PROVE  /\ PackageDir(p) \in PackageDirs /\ PackageLink(p) \in Links
             /\ <<PackageLink(p), PackageDir(p)>> \in CompileLeads(c)
             /\ PackageDir(p) # PackageDir(c.package)
  <2>1. p \in Packages /\ p # c.package
    BY <1>1, <1>2
  <2>2. PackageDir(p) \in PackageDirs
    BY <2>1 DEF PackageDirs
  <2>3. PackageLink(p) \in Links
    BY <2>1 DEF Links
  <2>4. <<PackageLink(p), PackageDir(p)>> \in CompileLeads(c)
    BY DEF CompileLeads
  <2>5. PackageDir(p) # PackageDir(c.package)
    <3>1. PICK q : q = c.package
      OBVIOUS
    <3>2. p = <<p[1], p[2]>> /\ q = <<q[1], q[2]>>
      BY <1>2, <2>1, <3>1, ApplyAssumption DEF IsNamed
    <3>3. SUFFICES ASSUME PackageDir(p) = PackageDir(q) PROVE p = q
      BY <2>1, <3>1
    <3>4. p[1] = q[1] /\ p[2] = q[2]
      BY <3>3 DEF PackageDir
    <3> QED BY <3>2, <3>4
  <2> QED BY <2>2, <2>3, <2>4, <2>5
<1> QED BY <1>1, <1>3, <1>4

\* A link leads to one directory.
OneTarget(leads) == \A x, y \in leads : x[1] = y[1] => x[2] = y[2]

(* The links of a spec and of a compilation do.                            *)
LEMMA SpecTargets == ASSUME NEW s \in Specs PROVE OneTarget(SpecLeads(s))
<1>1. /\ \A a, b \in ToSet(s.jobs) : a[1] = b[1] => a = b
      /\ \A a, b \in ToSet(s.packages) : a[1] = b[1] => a = b
  BY ApplyAssumption DEF NamedOnce
<1>2. SUFFICES ASSUME NEW x \in SpecLeads(s), NEW y \in SpecLeads(s), x[1] = y[1] PROVE x[2] = y[2]
  BY DEF OneTarget
<1> DEFINE ByJob(z) == \E template \in ToSet(s.jobs) : z = <<JobLink(template), JobDir(template)>>
           ByPackage(z) == \E package \in ToSet(s.packages) : z = <<PackageLink(package), PackageDir(package)>>
           Within(z) == \E template \in ToSet(s.jobs) : \E package \in ToSet(s.packages) :
                          z = <<SymlinkPathInJob(template, package), PackageDir(package)>>
<1>3. \A z \in SpecLeads(s) : ByJob(z) \/ ByPackage(z) \/ Within(z)
  <2>1. ASSUME NEW z \in InJobs(s) PROVE Within(z)
    <3>1. PICK template \in ToSet(s.jobs) : z \in InJob(s, template)
      BY DEF InJobs
    <3>2. PICK package \in ToSet(s.packages) : z = <<SymlinkPathInJob(template, package), PackageDir(package)>>
      BY <3>1 DEF InJob
    <3> QED BY <3>1, <3>2
  <2> QED BY <2>1 DEF SpecLeads
<1>4. /\ \A template : JobLink(template)[1] = "jobs" /\ JobLink(template)[2] = template[1] /\ Len(JobLink(template)) = 2
      /\ \A package : /\ PackageLink(package)[1] = "packages" /\ PackageLink(package)[2] = package[1]
                      /\ Len(PackageLink(package)) = 2
  BY DEF JobLink, PackageLink
<1>a. ASSUME NEW template, NEW package
      PROVE  SymlinkPathInJob(template, package)[4] = package[1] /\ Len(SymlinkPathInJob(template, package)) = 4
  BY DEF SymlinkPathInJob
<1>5. CASE ByJob(x)
  <2>1. PICK a \in ToSet(s.jobs) : x = <<JobLink(a), JobDir(a)>>
    BY <1>5
  <2>2. CASE ByJob(y)
    <3>1. PICK b \in ToSet(s.jobs) : y = <<JobLink(b), JobDir(b)>>
      BY <2>2
    <3>2. JobLink(a) = JobLink(b)
      BY <1>2, <2>1, <3>1
    <3>3. a[1] = b[1]
      BY <1>4, <3>2
    <3> QED BY <1>1, <2>1, <3>1, <3>3
  <2>3. CASE ByPackage(y)
    <3>1. PICK b \in ToSet(s.packages) : y = <<PackageLink(b), PackageDir(b)>>
      BY <2>3
    <3>2. JobLink(a) = PackageLink(b)
      BY <1>2, <2>1, <3>1
    <3> QED BY <1>4, <3>2
  <2>4. CASE Within(y)
    <3>1. PICK j \in ToSet(s.jobs) : \E b \in ToSet(s.packages) : y = <<SymlinkPathInJob(j, b), PackageDir(b)>>
      BY <2>4
    <3>2. PICK b \in ToSet(s.packages) : y = <<SymlinkPathInJob(j, b), PackageDir(b)>>
      BY <3>1
    <3>3. JobLink(a) = SymlinkPathInJob(j, b)
      BY <1>2, <2>1, <3>2
    <3>4. Len(SymlinkPathInJob(j, b)) = 4
      BY <1>a
    <3>5. Len(JobLink(a)) = 2
      BY <1>4
    <3> QED BY <3>3, <3>4, <3>5
  <2> QED BY <1>3, <2>2, <2>3, <2>4
<1>6. CASE ByPackage(x)
  <2>1. PICK a \in ToSet(s.packages) : x = <<PackageLink(a), PackageDir(a)>>
    BY <1>6
  <2>2. CASE ByJob(y)
    <3>1. PICK b \in ToSet(s.jobs) : y = <<JobLink(b), JobDir(b)>>
      BY <2>2
    <3>2. PackageLink(a) = JobLink(b)
      BY <1>2, <2>1, <3>1
    <3> QED BY <1>4, <3>2
  <2>3. CASE ByPackage(y)
    <3>1. PICK b \in ToSet(s.packages) : y = <<PackageLink(b), PackageDir(b)>>
      BY <2>3
    <3>2. PackageLink(a) = PackageLink(b)
      BY <1>2, <2>1, <3>1
    <3>3. a[1] = b[1]
      BY <1>4, <3>2
    <3> QED BY <1>1, <2>1, <3>1, <3>3
  <2>4. CASE Within(y)
    <3>1. PICK j \in ToSet(s.jobs) : \E b \in ToSet(s.packages) : y = <<SymlinkPathInJob(j, b), PackageDir(b)>>
      BY <2>4
    <3>2. PICK b \in ToSet(s.packages) : y = <<SymlinkPathInJob(j, b), PackageDir(b)>>
      BY <3>1
    <3>3. PackageLink(a) = SymlinkPathInJob(j, b)
      BY <1>2, <2>1, <3>2
    <3>4. Len(SymlinkPathInJob(j, b)) = 4
      BY <1>a
    <3>5. Len(PackageLink(a)) = 2
      BY <1>4
    <3> QED BY <3>3, <3>4, <3>5
  <2> QED BY <1>3, <2>2, <2>3, <2>4
<1>7. CASE Within(x)
  <2>1. PICK i \in ToSet(s.jobs) : \E a \in ToSet(s.packages) : x = <<SymlinkPathInJob(i, a), PackageDir(a)>>
    BY <1>7
  <2>2. PICK a \in ToSet(s.packages) : x = <<SymlinkPathInJob(i, a), PackageDir(a)>>
    BY <2>1
  <2>3. CASE ByJob(y)
    <3>1. PICK b \in ToSet(s.jobs) : y = <<JobLink(b), JobDir(b)>>
      BY <2>3
    <3>2. SymlinkPathInJob(i, a) = JobLink(b)
      BY <1>2, <2>2, <3>1
    <3>3. Len(SymlinkPathInJob(i, a)) = 4
      BY <1>a
    <3>4. Len(JobLink(b)) = 2
      BY <1>4
    <3> QED BY <3>2, <3>3, <3>4
  <2>4. CASE ByPackage(y)
    <3>1. PICK b \in ToSet(s.packages) : y = <<PackageLink(b), PackageDir(b)>>
      BY <2>4
    <3>2. SymlinkPathInJob(i, a) = PackageLink(b)
      BY <1>2, <2>2, <3>1
    <3>3. Len(SymlinkPathInJob(i, a)) = 4
      BY <1>a
    <3>4. Len(PackageLink(b)) = 2
      BY <1>4
    <3> QED BY <3>2, <3>3, <3>4
  <2>5. CASE Within(y)
    <3>1. PICK j \in ToSet(s.jobs) : \E b \in ToSet(s.packages) : y = <<SymlinkPathInJob(j, b), PackageDir(b)>>
      BY <2>5
    <3>2. PICK b \in ToSet(s.packages) : y = <<SymlinkPathInJob(j, b), PackageDir(b)>>
      BY <3>1
    <3>3. SymlinkPathInJob(i, a) = SymlinkPathInJob(j, b)
      BY <1>2, <2>2, <3>2
    <3>4. a[1] = b[1]
      BY <1>a, <3>3
    <3> QED BY <1>1, <2>2, <3>2, <3>4
  <2> QED BY <1>3, <2>3, <2>4, <2>5
<1> QED BY <1>3, <1>5, <1>6, <1>7

(* So do those of a compilation.                                           *)
LEMMA CompileTargets == ASSUME NEW c \in Compiles PROVE OneTarget(CompileLeads(c))
<1>1. \A a, b \in ToSet(c.dependencies) : a[1] = b[1] => a = b
  BY ApplyAssumption DEF NamedOnce
<1>2. SUFFICES ASSUME NEW x \in CompileLeads(c), NEW y \in CompileLeads(c), x[1] = y[1] PROVE x[2] = y[2]
  BY DEF OneTarget
<1>3. PICK a \in ToSet(c.dependencies) : x = <<PackageLink(a), PackageDir(a)>>
  BY DEF CompileLeads
<1>4. PICK b \in ToSet(c.dependencies) : y = <<PackageLink(b), PackageDir(b)>>
  BY DEF CompileLeads
<1>5. PackageLink(a) = PackageLink(b)
  BY <1>2, <1>3, <1>4
<1>6. a[1] = b[1]
  BY <1>5 DEF PackageLink
<1> QED BY <1>1, <1>3, <1>4, <1>6

-----------------------------------------------------------------------------
(* The plans of the requests.                                              *)

(* Plans for each are a plan that holds each.                              *)
LEMMA PlansHave ==
  ASSUME NEW ops, NEW leads, NEW lists \in Seq(Plans(ops, leads))
  PROVE  /\ Concat(lists) \in Plans(ops, leads)
         /\ \A k \in DOMAIN lists : ToSet(lists[k]) \subseteq ToSet(Concat(lists))
<1>1. Plans(ops, leads) \subseteq Seq(Kind(ops, leads))
  BY DEF Plans
<1>2. PICK X, G : X = Kind(ops, leads) /\ G = Plans(ops, leads)
  OBVIOUS
<1>3. lists \in Seq(G) /\ G \subseteq Seq(X)
  BY <1>1, <1>2
<1>4. lists \in Seq(Seq(X))
  BY <1>3
<1>5. ASSUME NEW k \in DOMAIN lists, NEW x \in ToSet(lists[k]) PROVE x \in ToSet(Concat(lists))
  BY <1>4, <1>5, ConcatHas
<1> QED BY <1>5, PlansConcat

(* A bind after the fetch of its directory is a plan.                      *)
LEMMA BindPlan ==
  ASSUME NEW ops, NEW leads, NEW p \in Plans(ops, leads), NEW x \in Kind(ops, leads), x.op = "bind",
         NEW f \in ToSet(p), f.op = "fetch", f.path = x.path
  PROVE  p \o <<x>> \in Plans(ops, leads)
<1>1. p \in Seq(Kind(ops, leads)) /\ Sequenced(p)
  BY DEF Plans
<1>2. PICK t : t = p \o <<x>>
  OBVIOUS
<1>3. PICK n \in Nat : n = Len(p)
  BY <1>1
<1>4. t \in Seq(Kind(ops, leads)) /\ Len(t) = n + 1 /\ t[n + 1] = x /\ \A i \in 1..n : t[i] = p[i]
  BY <1>1, <1>2, <1>3
<1>5. PICK j \in 1..n : p[j] = f
  BY <1>1, <1>3 DEF ToSet
<1>6. ASSUME NEW i \in 1..n
      PROVE  /\ t[i].op = "symlink" => Made(t, i)
             /\ t[i].op = "unlink" => Remade(t, i)
             /\ t[i].op = "bind" => Fetched(t, i)
  <2>1. t[i] = p[i] /\ i \in 1..Len(p)
    BY <1>3, <1>4, <1>6
  <2>2. ASSUME t[i].op = "symlink" PROVE Made(t, i)
    <3>1. i > 1 /\ p[i - 1].op = "unlink" /\ p[i - 1].path = p[i].path
      BY <1>1, <2>1, <2>2 DEF Sequenced, Made
    <3>2. i - 1 \in 1..n
      BY <1>3, <1>6, <3>1
    <3> QED BY <1>4, <2>1, <3>1, <3>2 DEF Made
  <2>3. ASSUME t[i].op = "unlink" PROVE Remade(t, i)
    <3>1. i < n /\ p[i + 1].op = "symlink" /\ p[i + 1].path = p[i].path /\ p[i + 1].to = p[i].to
      BY <1>1, <1>3, <2>1, <2>3 DEF Sequenced, Remade
    <3>2. i + 1 \in 1..n /\ i < n + 1
      BY <1>3, <1>6, <3>1
    <3> QED BY <1>4, <2>1, <3>1, <3>2 DEF Remade
  <2>4. ASSUME t[i].op = "bind" PROVE Fetched(t, i)
    <3>1. PICK k \in 1..(i - 1) : p[k].op = "fetch" /\ p[k].path = p[i].path
      BY <1>1, <2>1, <2>4 DEF Sequenced, Fetched
    <3>2. k \in 1..n
      BY <1>3, <1>6, <3>1
    <3> QED BY <1>4, <2>1, <3>1, <3>2 DEF Fetched
  <2> QED BY <2>2, <2>3, <2>4
<1>7. ASSUME NEW i, i = n + 1
      PROVE  /\ t[i].op = "symlink" => Made(t, i)
             /\ t[i].op = "unlink" => Remade(t, i)
             /\ t[i].op = "bind" => Fetched(t, i)
  <2>1. t[i] = x
    BY <1>4, <1>7
  <2>2. j \in 1..(i - 1) /\ t[j] = f
    BY <1>3, <1>4, <1>5, <1>7
  <2>3. Fetched(t, i)
    BY <2>1, <2>2 DEF Fetched
  <2> QED BY <2>1, <2>3
<1>8. \A i \in 1..(n + 1) : i \in 1..n \/ i = n + 1
  BY <1>3
<1>9. Sequenced(t)
  BY <1>4, <1>6, <1>7, <1>8 DEF Sequenced
<1> QED BY <1>2, <1>4, <1>9 DEF Plans

(* What fetching and linking hold.                                         *)
LEMMA StepsHave ==
  ASSUME NEW target, NEW link
  PROVE  /\ Step("fetch", target, None) \in ToSet(FetchBits(target))
         /\ Step("symlink", link, target) \in ToSet(CreateSymLink(target, link))
<1>1. PICK u, v, w : u = Step("unlink", link, target) /\ v = Step("symlink", link, target) /\ w = Step("fetch", target, None)
  OBVIOUS
<1>2. w \in ToSet(<<w>>)
  <2>1. 1 \in DOMAIN <<w>> /\ <<w>>[1] = w
    OBVIOUS
  <2> QED BY <2>1 DEF ToSet
<1>3. v \in ToSet(<<u, v>>)
  <2>1. 2 \in DOMAIN <<u, v>> /\ <<u, v>>[2] = v
    OBVIOUS
  <2> QED BY <2>1 DEF ToSet
<1> QED BY <1>1, <1>2, <1>3 DEF FetchBits, CreateSymLink

(* Two plans together, and what they hold.                                 *)
LEMMA PlansTogether ==
  ASSUME NEW ops, NEW leads, NEW a \in Plans(ops, leads), NEW b \in Plans(ops, leads)
  PROVE  a \o b \in Plans(ops, leads) /\ ToSet(a) \subseteq ToSet(a \o b) /\ ToSet(b) \subseteq ToSet(a \o b)
<1>1. PICK X : X = Kind(ops, leads)
  OBVIOUS
<1>2. a \in Seq(X) /\ b \in Seq(X)
  BY <1>1 DEF Plans
<1> QED BY <1>2, PlansAdd, ToSetAdd

(* The steps of a job.                                                     *)
LEMMA JobPlan ==
  ASSUME NEW s \in Specs, NEW template \in ToSet(s.jobs)
  PROVE  /\ InstallJob(template) \in Plans(InstallOps, SpecLeads(s))
         /\ Step("fetch", JobDir(template), None) \in ToSet(InstallJob(template))
         /\ Step("symlink", JobLink(template), JobDir(template)) \in ToSet(InstallJob(template))
         /\ Step("bind", JobDir(template), None) \in ToSet(InstallJob(template))
<1>1. /\ JobDir(template) \in JobDirs /\ JobDir(template) \in Dirs /\ JobLink(template) \in Links
      /\ <<JobLink(template), JobDir(template)>> \in SpecLeads(s)
  BY SpecPlaces DEF Dirs
<1>2. PICK f, l, x : f = FetchBits(JobDir(template)) /\ l = CreateSymLink(JobDir(template), JobLink(template))
                     /\ x = Step("bind", JobDir(template), None)
  OBVIOUS
<1>3. f \in Plans(InstallOps, SpecLeads(s))
  <2>1. "fetch" \in InstallOps
    BY DEF InstallOps
  <2> QED BY <1>1, <1>2, <2>1, FetchPlan
<1>4. l \in Plans(InstallOps, SpecLeads(s))
  <2>1. "unlink" \in InstallOps /\ "symlink" \in InstallOps
    BY DEF InstallOps
  <2> QED BY <1>1, <1>2, <2>1, CreateSymLinkPlan
<1>5. PICK p : p = f \o l
  OBVIOUS
<1>6. p \in Plans(InstallOps, SpecLeads(s)) /\ ToSet(f) \subseteq ToSet(p) /\ ToSet(l) \subseteq ToSet(p)
  BY <1>3, <1>4, <1>5, PlansTogether
<1>7. x \in Kind(InstallOps, SpecLeads(s)) /\ x.op = "bind" /\ x.path = JobDir(template)
  BY <1>1, <1>2 DEF Kind, Steps, Fits, Ops, Step, InstallOps
<1>8. Step("fetch", JobDir(template), None) \in ToSet(p) /\ Step("symlink", JobLink(template), JobDir(template)) \in ToSet(p)
  BY <1>2, <1>6, StepsHave
<1>9. Step("fetch", JobDir(template), None).op = "fetch" /\ Step("fetch", JobDir(template), None).path = JobDir(template)
  BY DEF Step
<1>10. p \o <<x>> \in Plans(InstallOps, SpecLeads(s))
  BY <1>6, <1>7, <1>8, <1>9, BindPlan
<1>11. ToSet(p) \subseteq ToSet(p \o <<x>>) /\ ToSet(<<x>>) \subseteq ToSet(p \o <<x>>)
  <2>1. PICK X : X = Kind(InstallOps, SpecLeads(s))
    OBVIOUS
  <2>2. p \in Seq(X) /\ <<x>> \in Seq(X)
    BY <1>6, <1>7, <2>1 DEF Plans
  <2> QED BY <2>2, ToSetAdd
<1>12. x \in ToSet(<<x>>)
  <2>1. 1 \in DOMAIN <<x>> /\ <<x>>[1] = x
    OBVIOUS
  <2> QED BY <2>1 DEF ToSet
<1>13. InstallJob(template) = p \o <<x>>
  BY <1>2, <1>5 DEF InstallJob
<1> QED BY <1>2, <1>8, <1>10, <1>11, <1>12, <1>13

(* The steps of a package for a job.                                       *)
LEMMA PackagePlan ==
  ASSUME NEW s \in Specs, NEW template \in ToSet(s.jobs), NEW package \in ToSet(s.packages)
  PROVE  /\ InstallForJob(package, template) \in Plans(InstallOps, SpecLeads(s))
         /\ Step("fetch", PackageDir(package), None) \in ToSet(InstallForJob(package, template))
         /\ Step("symlink", PackageLink(package), PackageDir(package)) \in ToSet(InstallForJob(package, template))
         /\ Step("symlink", SymlinkPathInJob(template, package), PackageDir(package)) \in ToSet(InstallForJob(package, template))
<1>1. /\ PackageDir(package) \in Dirs /\ PackageLink(package) \in Links
      /\ <<PackageLink(package), PackageDir(package)>> \in SpecLeads(s)
      /\ SymlinkPathInJob(template, package) \in Links
      /\ <<SymlinkPathInJob(template, package), PackageDir(package)>> \in SpecLeads(s)
  BY SpecPlaces DEF Dirs
<1>2. PICK f, l, m : f = FetchBits(PackageDir(package)) /\ l = CreateSymLink(PackageDir(package), PackageLink(package))
                     /\ m = CreateSymLink(PackageDir(package), SymlinkPathInJob(template, package))
  OBVIOUS
<1>3. f \in Plans(InstallOps, SpecLeads(s))
  <2>1. "fetch" \in InstallOps
    BY DEF InstallOps
  <2> QED BY <1>1, <1>2, <2>1, FetchPlan
<1>4. l \in Plans(InstallOps, SpecLeads(s)) /\ m \in Plans(InstallOps, SpecLeads(s))
  <2>1. "unlink" \in InstallOps /\ "symlink" \in InstallOps
    BY DEF InstallOps
  <2> QED BY <1>1, <1>2, <2>1, CreateSymLinkPlan
<1>5. PICK p : p = f \o l
  OBVIOUS
<1>6. p \in Plans(InstallOps, SpecLeads(s)) /\ ToSet(f) \subseteq ToSet(p) /\ ToSet(l) \subseteq ToSet(p)
  BY <1>3, <1>4, <1>5, PlansTogether
<1>7. /\ p \o m \in Plans(InstallOps, SpecLeads(s))
      /\ ToSet(p) \subseteq ToSet(p \o m) /\ ToSet(m) \subseteq ToSet(p \o m)
  BY <1>4, <1>6, PlansTogether
<1>8. InstallForJob(package, template) = p \o m
  BY <1>2, <1>5 DEF InstallForJob
<1>9. /\ Step("fetch", PackageDir(package), None) \in ToSet(f)
      /\ Step("symlink", PackageLink(package), PackageDir(package)) \in ToSet(l)
      /\ Step("symlink", SymlinkPathInJob(template, package), PackageDir(package)) \in ToSet(m)
  BY <1>2, StepsHave
<1> QED BY <1>6, <1>7, <1>8, <1>9

(* The steps of all jobs of a spec.                                        *)
LEMMA JobsPlan ==
  ASSUME NEW s \in Specs
  PROVE  /\ Each(InstallJob, s.jobs) \in Plans(InstallOps, SpecLeads(s))
         /\ \A template \in ToSet(s.jobs) : ToSet(InstallJob(template)) \subseteq ToSet(Each(InstallJob, s.jobs))
<1>1. PICK q : q = s.jobs
  OBVIOUS
<1>2. PICK lists : lists = [i \in DOMAIN q |-> InstallJob(q[i])]
  OBVIOUS
<1>3. q \in Seq(Jobs) /\ \A i \in DOMAIN q : q[i] \in ToSet(q)
  BY <1>1, SpecPlaces DEF ToSet
<1>4. \A i \in DOMAIN q : lists[i] \in Plans(InstallOps, SpecLeads(s))
  BY <1>1, <1>2, <1>3, JobPlan
<1>5. lists \in Seq(Plans(InstallOps, SpecLeads(s))) /\ DOMAIN lists = DOMAIN q
  BY <1>2, <1>3, <1>4
<1>6. Each(InstallJob, s.jobs) = Concat(lists)
  BY <1>1, <1>2 DEF Each
<1>7. ASSUME NEW template \in ToSet(s.jobs) PROVE ToSet(InstallJob(template)) \subseteq ToSet(Concat(lists))
  <2>1. PICK k \in DOMAIN q : q[k] = template
    BY <1>1 DEF ToSet
  <2>2. lists[k] = InstallJob(template)
    BY <1>2, <2>1
  <2> QED BY <1>5, <2>1, <2>2, PlansHave
<1> QED BY <1>5, <1>6, <1>7, PlansHave

\* The steps of all packages for a job.
ForJob(s, template) == Each(LAMBDA package : InstallForJob(package, template), s.packages)

(* They are a plan.                                                        *)
LEMMA ForJobPlan ==
  ASSUME NEW s \in Specs, NEW template \in ToSet(s.jobs)
  PROVE  /\ ForJob(s, template) \in Plans(InstallOps, SpecLeads(s))
         /\ \A package \in ToSet(s.packages) : ToSet(InstallForJob(package, template)) \subseteq ToSet(ForJob(s, template))
<1>1. PICK q : q = s.packages
  OBVIOUS
<1>2. PICK lists : lists = [i \in DOMAIN q |-> InstallForJob(q[i], template)]
  OBVIOUS
<1>3. q \in Seq(Packages) /\ \A i \in DOMAIN q : q[i] \in ToSet(q)
  BY <1>1, SpecPlaces DEF ToSet
<1>4. \A i \in DOMAIN q : lists[i] \in Plans(InstallOps, SpecLeads(s))
  BY <1>1, <1>2, <1>3, PackagePlan
<1>5. lists \in Seq(Plans(InstallOps, SpecLeads(s))) /\ DOMAIN lists = DOMAIN q
  BY <1>2, <1>3, <1>4
<1>6. ForJob(s, template) = Concat(lists)
  BY <1>1, <1>2 DEF Each, ForJob
<1>7. ASSUME NEW package \in ToSet(s.packages) PROVE ToSet(InstallForJob(package, template)) \subseteq ToSet(Concat(lists))
  <2>1. PICK k \in DOMAIN q : q[k] = package
    BY <1>1 DEF ToSet
  <2>2. lists[k] = InstallForJob(package, template)
    BY <1>2, <2>1
  <2> QED BY <1>5, <2>1, <2>2, PlansHave
<1> QED BY <1>5, <1>6, <1>7, PlansHave

(* The steps of all packages of a spec.                                    *)
LEMMA PackagesPlan ==
  ASSUME NEW s \in Specs
  PROVE  /\ InstallPackages(s) \in Plans(InstallOps, SpecLeads(s))
         /\ \A template \in ToSet(s.jobs) : ToSet(ForJob(s, template)) \subseteq ToSet(InstallPackages(s))
<1>1. PICK q : q = s.jobs
  OBVIOUS
<1>2. PICK lists : lists = [i \in DOMAIN q |-> ForJob(s, q[i])]
  OBVIOUS
<1>3. q \in Seq(Jobs) /\ \A i \in DOMAIN q : q[i] \in ToSet(q)
  BY <1>1, SpecPlaces DEF ToSet
<1>4. \A i \in DOMAIN q : lists[i] \in Plans(InstallOps, SpecLeads(s))
  BY <1>1, <1>2, <1>3, ForJobPlan
<1>5. lists \in Seq(Plans(InstallOps, SpecLeads(s))) /\ DOMAIN lists = DOMAIN q
  BY <1>2, <1>3, <1>4
<1>6. InstallPackages(s) = Concat(lists)
  BY <1>1, <1>2 DEF Each, ForJob, InstallPackages
<1>7. ASSUME NEW template \in ToSet(s.jobs) PROVE ToSet(ForJob(s, template)) \subseteq ToSet(Concat(lists))
  <2>1. PICK k \in DOMAIN q : q[k] = template
    BY <1>1 DEF ToSet
  <2>2. lists[k] = ForJob(s, template)
    BY <1>2, <2>1
  <2> QED BY <1>5, <2>1, <2>2, PlansHave
<1> QED BY <1>5, <1>6, <1>7, PlansHave

\* The hooks of all jobs.
Hooks(s) == Each(LAMBDA template : <<Step("hook", JobDir(template), None)>>, s.jobs)

(* They are a plan.                                                        *)
LEMMA HooksPlan == ASSUME NEW s \in Specs PROVE Hooks(s) \in Plans(InstallOps, SpecLeads(s))
<1>1. PICK q : q = s.jobs
  OBVIOUS
<1>2. PICK lists : lists = [i \in DOMAIN q |-> <<Step("hook", JobDir(q[i]), None)>>]
  OBVIOUS
<1>3. q \in Seq(Jobs) /\ \A i \in DOMAIN q : q[i] \in ToSet(q)
  BY <1>1, SpecPlaces DEF ToSet
<1>4. ASSUME NEW i \in DOMAIN q PROVE lists[i] \in Plans(InstallOps, SpecLeads(s))
  <2>1. JobDir(q[i]) \in Dirs
    BY <1>1, <1>3, SpecPlaces DEF Dirs
  <2>2. PICK x : x = Step("hook", JobDir(q[i]), None)
    OBVIOUS
  <2>3. x \in Kind(InstallOps, SpecLeads(s)) /\ x.op = "hook"
    BY <2>1, <2>2 DEF Kind, Steps, Fits, Ops, Step, InstallOps
  <2>4. <<x>> \in Plans(InstallOps, SpecLeads(s))
    BY <2>3, OneStep
  <2> QED BY <1>2, <2>2, <2>4
<1>5. lists \in Seq(Plans(InstallOps, SpecLeads(s)))
  BY <1>2, <1>3, <1>4
<1>6. Hooks(s) = Concat(lists)
  BY <1>1, <1>2 DEF Each, Hooks
<1> QED BY <1>5, <1>6, PlansHave

\* All an apply does before it writes.
Installing(s) == <<Step("stop", None, None)>> \o Each(InstallJob, s.jobs) \o InstallPackages(s) \o Hooks(s)

(* It is a plan, and makes all the spec names.                             *)
LEMMA InstallingPlan ==
  ASSUME NEW s \in Specs
  PROVE  /\ Installing(s) \in Plans(InstallOps, SpecLeads(s))
         /\ \A template \in ToSet(s.jobs) :
              /\ ToSet(InstallJob(template)) \subseteq ToSet(Installing(s))
              /\ \A package \in ToSet(s.packages) :
                   ToSet(InstallForJob(package, template)) \subseteq ToSet(Installing(s))
<1>1. PICK a, b, c, d : a = <<Step("stop", None, None)>> /\ b = Each(InstallJob, s.jobs) /\ c = InstallPackages(s)
                        /\ d = Hooks(s)
  OBVIOUS
<1>2. PICK P : P = Plans(InstallOps, SpecLeads(s))
  OBVIOUS
<1>3. a \in Plans(InstallOps, SpecLeads(s))
  <2>1. PICK x : x = Step("stop", None, None)
    OBVIOUS
  <2>2. x \in Kind(InstallOps, SpecLeads(s)) /\ x.op = "stop"
    BY <2>1 DEF Kind, Steps, Fits, Ops, Step, InstallOps
  <2>3. <<x>> \in Plans(InstallOps, SpecLeads(s))
    BY <2>2, OneStep
  <2> QED BY <1>1, <2>1, <2>3
<1>4. b \in Plans(InstallOps, SpecLeads(s))
  BY <1>1, JobsPlan
<1>5. c \in Plans(InstallOps, SpecLeads(s))
  BY <1>1, PackagesPlan
<1>6. d \in Plans(InstallOps, SpecLeads(s))
  BY <1>1, HooksPlan
<1>7. PICK e, f, g : e = a \o b /\ f = e \o c /\ g = f \o d
  OBVIOUS
<1>8. e \in Plans(InstallOps, SpecLeads(s)) /\ ToSet(b) \subseteq ToSet(e)
  BY <1>3, <1>4, <1>7, PlansTogether
<1>9. f \in Plans(InstallOps, SpecLeads(s)) /\ ToSet(e) \subseteq ToSet(f) /\ ToSet(c) \subseteq ToSet(f)
  BY <1>5, <1>7, <1>8, PlansTogether
<1>10. g \in Plans(InstallOps, SpecLeads(s)) /\ ToSet(f) \subseteq ToSet(g)
  BY <1>6, <1>7, <1>9, PlansTogether
<1>11. Installing(s) = g
  BY <1>1, <1>7 DEF Installing
<1>12. ASSUME NEW template \in ToSet(s.jobs) PROVE ToSet(InstallJob(template)) \subseteq ToSet(b)
  BY <1>1, <1>12, JobsPlan
<1>13. ASSUME NEW template \in ToSet(s.jobs), NEW package \in ToSet(s.packages)
       PROVE  ToSet(InstallForJob(package, template)) \subseteq ToSet(c)
  <2>1. ToSet(ForJob(s, template)) \subseteq ToSet(c)
    BY <1>1, <1>13, PackagesPlan
  <2>2. ToSet(InstallForJob(package, template)) \subseteq ToSet(ForJob(s, template))
    BY <1>13, ForJobPlan
  <2> QED BY <2>1, <2>2
<1> QED BY <1>8, <1>9, <1>10, <1>11, <1>12, <1>13

(* A step that is on a link is not a step of these kinds.                  *)
LEMMA KindIs ==
  ASSUME NEW ops, NEW leads, NEW x \in Kind(ops, leads)
  PROVE  x \in Steps /\ x.op \in ops /\ (x.op \in {"unlink", "symlink"} => <<x.path, x.to>> \in leads)
BY DEF Kind

\* Links of any kind.
AnyLeads == Links \X Dirs
\* Steps that ask for nothing before them.
Free(steps) == \A i \in 1..Len(steps) : steps[i].op \notin {"symlink", "unlink", "bind"}

\* A plan p and then f, which are t.
Followed(ops, leads, p, f, t) ==
  /\ t \in Seq(Steps) /\ Sequenced(t) /\ ToSet(p) \subseteq ToSet(t)
  /\ Len(p) \in Nat /\ Len(f) \in Nat /\ Len(t) = Len(p) + Len(f)
  /\ \A i \in 1..Len(p) : t[i] = p[i] /\ t[i] \in Kind(ops, leads)
  /\ \A i \in 1..Len(f) : t[Len(p) + i] = f[i]

(* What comes after a plan, if it asks for nothing, leaves it a plan.      *)
LEMMA PlanThen ==
  ASSUME NEW ops, NEW leads, NEW p \in Plans(ops, leads), NEW f \in Seq(Steps), Free(f), NEW t, t = p \o f
  PROVE  Followed(ops, leads, p, f, t)
<1>1. Kind(ops, leads) \subseteq Kind(Ops, AnyLeads) /\ Steps \subseteq Kind(Ops, AnyLeads)
  BY DEF Kind, Steps, Fits, AnyLeads
<1>2. Kind(Ops, AnyLeads) \subseteq Steps
  BY DEF Kind
<1>3. p \in Seq(Kind(ops, leads)) /\ Sequenced(p)
  BY DEF Plans
<1>4. p \in Seq(Kind(Ops, AnyLeads))
  BY <1>1, <1>3
<1>5. p \in Plans(Ops, AnyLeads)
  BY <1>3, <1>4 DEF Plans
<1>6. f \in Seq(Kind(Ops, AnyLeads)) /\ Sequenced(f)
  <2>1. f \in Seq(Kind(Ops, AnyLeads))
    BY <1>1
  <2> QED BY <2>1 DEF Free, Sequenced
<1>7. f \in Plans(Ops, AnyLeads)
  BY <1>6 DEF Plans
<1>8. t \in Plans(Ops, AnyLeads) /\ ToSet(p) \subseteq ToSet(t)
  BY <1>5, <1>7, PlansTogether
<1>9. t \in Seq(Kind(Ops, AnyLeads)) /\ Sequenced(t)
  BY <1>8 DEF Plans
<1>10. t \in Seq(Steps)
  BY <1>2, <1>9
<1>11. /\ Len(p) \in Nat /\ Len(f) \in Nat /\ Len(t) = Len(p) + Len(f)
       /\ \A i \in 1..Len(p) : t[i] = p[i]
       /\ \A i \in 1..Len(f) : t[Len(p) + i] = f[i]
  BY <1>4, <1>6, TwoLists
<1>12. \A i \in 1..Len(p) : p[i] \in Kind(ops, leads)
  BY <1>3
<1> QED BY <1>8, <1>9, <1>10, <1>11, <1>12 DEF Followed

(* An apply begins with all its spec asks for still to come.               *)
LEMMA ApplyBegins ==
  ASSUME NEW s \in Specs, NEW t, t = ApplySteps(s)
  PROVE  t \in Seq(Steps) /\ t # <<>> /\ Sequenced(t) /\ Applies(s, t)
<1>1. PICK x, w : x = Step("write", None, None) /\ w = <<x>>
  OBVIOUS
<1>2. x \in Steps /\ x.op = "write"
  BY <1>1 DEF Steps, Fits, Ops, Step
<1>3. w \in Seq(Steps) /\ Len(w) = 1 /\ w[1] = x /\ w # <<>>
  BY <1>1, <1>2
<1>4. Free(w)
  BY <1>2, <1>3 DEF Free
<1>5. PICK p : p = IF s.configured THEN Installing(s) ELSE <<>>
  OBVIOUS
<1>6. s.configured \in BOOLEAN
  BY SpecPlaces
<1>7. p \in Plans(InstallOps, SpecLeads(s))
  BY <1>5, <1>6, InstallingPlan, NoPlan
<1>8. t = p \o w
  <2>1. CASE s.configured
    BY <1>1, <1>5, <2>1 DEF ApplySteps, Installing, Hooks
  <2>2. CASE ~s.configured
    BY <1>1, <1>5, <2>2 DEF ApplySteps
  <2> QED BY <2>1, <2>2
<1>9. /\ t \in Seq(Steps) /\ Sequenced(t) /\ ToSet(p) \subseteq ToSet(t)
      /\ Len(p) \in Nat /\ Len(w) \in Nat /\ Len(t) = Len(p) + Len(w)
      /\ \A i \in 1..Len(p) : t[i] = p[i] /\ t[i] \in Kind(InstallOps, SpecLeads(s))
      /\ \A i \in 1..Len(w) : t[Len(p) + i] = w[i]
  <2>1. Followed(InstallOps, SpecLeads(s), p, w, t)
    BY <1>3, <1>4, <1>7, <1>8, PlanThen
  <2> QED BY <2>1 DEF Followed
<1>10. PICK n \in Nat : n = Len(p)
  BY <1>9
<1>11. Len(t) = n + 1 /\ t[n + 1] = x /\ t # <<>>
  BY <1>3, <1>9, <1>10
<1>12. \A i \in 1..Len(t) : IF i = Len(t) THEN t[i] = Step("write", None, None)
                                        ELSE t[i] \in Kind(InstallOps, SpecLeads(s))
  <2>1. \A i \in 1..(n + 1) : i = n + 1 \/ i \in 1..n
    BY <1>10
  <2>2. \A i \in 1..n : t[i] \in Kind(InstallOps, SpecLeads(s))
    BY <1>9, <1>10
  <2> QED BY <1>1, <1>11, <2>1, <2>2
<1>13. ASSUME s.configured PROVE Comes(s, t)
  <2>1. p = Installing(s)
    BY <1>5, <1>13
  <2>2. ASSUME NEW template \in ToSet(s.jobs)
        PROVE  Whole(t, JobDir(template)) /\ Leading(t, JobLink(template), JobDir(template)) /\ Bound(t, JobDir(template), s.properties)
    <3>1. ToSet(InstallJob(template)) \subseteq ToSet(t)
      BY <1>9, <2>1, <2>2, InstallingPlan
    <3>2. /\ Step("fetch", JobDir(template), None) \in ToSet(t)
          /\ Step("symlink", JobLink(template), JobDir(template)) \in ToSet(t)
          /\ Step("bind", JobDir(template), None) \in ToSet(t)
      BY <2>2, <3>1, JobPlan
    <3> QED BY <3>2 DEF Whole, Leading, Bound
  <2>3. ASSUME NEW template \in ToSet(s.jobs), NEW package \in ToSet(s.packages)
        PROVE  /\ Whole(t, PackageDir(package))
               /\ Leading(t, PackageLink(package), PackageDir(package))
               /\ Leading(t, SymlinkPathInJob(template, package), PackageDir(package))
    <3>1. ToSet(InstallForJob(package, template)) \subseteq ToSet(t)
      BY <1>9, <2>1, <2>3, InstallingPlan
    <3>2. /\ Step("fetch", PackageDir(package), None) \in ToSet(t)
          /\ Step("symlink", PackageLink(package), PackageDir(package)) \in ToSet(t)
          /\ Step("symlink", SymlinkPathInJob(template, package), PackageDir(package)) \in ToSet(t)
      BY <2>3, <3>1, PackagePlan
    <3> QED BY <3>2 DEF Whole, Leading
  <2> QED BY <2>2, <2>3 DEF Comes
<1> QED BY <1>9, <1>11, <1>12, <1>13 DEF Applies

(* Fetching the directories of a list is a plan.                           *)
LEMMA FetchesPlan ==
  ASSUME NEW dirs, NEW n \in Nat, DOMAIN dirs = 1..n, \A i \in 1..n : dirs[i] \in Dirs
  PROVE  Concat([i \in 1..n |-> FetchBits(dirs[i])]) \in Plans(FetchOps, {})
<1>1. PICK lists : lists = [i \in 1..n |-> FetchBits(dirs[i])]
  OBVIOUS
<1>2. "fetch" \in FetchOps
  BY DEF FetchOps
<1>3. \A i \in 1..n : lists[i] \in Plans(FetchOps, {})
  BY <1>1, <1>2, FetchPlan
<1>4. lists \in Seq(Plans(FetchOps, {}))
  BY <1>1, <1>3
<1> QED BY <1>1, <1>4, PlansHave

(* A prepare fetches, or throws.                                           *)
LEMMA PrepareBegins ==
  ASSUME NEW s \in Specs, NEW t, t = PrepareSteps(s)
  PROVE  t \in Seq(Steps) /\ t # <<>> /\ Sequenced(t) /\ Prepares(t)
<1>1. PICK a, b, x : /\ a = <<Step("stop", None, None)>>
                     /\ x = <<Step("throw", None, None)>>
                     /\ b = Each(LAMBDA template : FetchBits(JobDir(template)), s.jobs)
                              \o Each(LAMBDA package : FetchBits(PackageDir(package)), s.packages)
  OBVIOUS
<1>2. s.jobs \in Seq(Jobs) /\ s.packages \in Seq(Packages)
  BY SpecPlaces
<1>3. a \in Plans(FetchOps, {}) /\ x \in Plans(FetchOps, {})
  <2>1. PICK y, z : y = Step("stop", None, None) /\ z = Step("throw", None, None)
    OBVIOUS
  <2>2. y \in Kind(FetchOps, {}) /\ y.op = "stop" /\ z \in Kind(FetchOps, {}) /\ z.op = "throw"
    BY <2>1 DEF Kind, Steps, Fits, Ops, Step, FetchOps
  <2>3. <<y>> \in Plans(FetchOps, {})
    BY <2>2, OneStep
  <2>4. <<z>> \in Plans(FetchOps, {})
    BY <2>2, OneStep
  <2> QED BY <1>1, <2>1, <2>3, <2>4
<1>4. Each(LAMBDA template : FetchBits(JobDir(template)), s.jobs) \in Plans(FetchOps, {})
  <2>1. PICK q : q = s.jobs
    OBVIOUS
  <2>2. PICK n \in Nat : n = Len(q) /\ DOMAIN q = 1..n
    BY <1>2, <2>1
  <2>3. PICK dirs : dirs = [i \in 1..n |-> JobDir(q[i])]
    OBVIOUS
  <2>4. \A i \in 1..n : q[i] \in ToSet(s.jobs)
    BY <2>1, <2>2 DEF ToSet
  <2>5. \A i \in 1..n : dirs[i] \in Dirs
    BY <2>3, <2>4, SpecPlaces DEF Dirs
  <2>6. Concat([i \in 1..n |-> FetchBits(dirs[i])]) \in Plans(FetchOps, {})
    BY <2>2, <2>3, <2>5, FetchesPlan
  <2>7. [i \in 1..n |-> FetchBits(dirs[i])] = [i \in DOMAIN q |-> FetchBits(JobDir(q[i]))]
    BY <2>2, <2>3
  <2> QED BY <2>1, <2>6, <2>7 DEF Each
<1>5. Each(LAMBDA package : FetchBits(PackageDir(package)), s.packages) \in Plans(FetchOps, {})
  <2>1. PICK q : q = s.packages
    OBVIOUS
  <2>2. PICK n \in Nat : n = Len(q) /\ DOMAIN q = 1..n
    BY <1>2, <2>1
  <2>3. PICK dirs : dirs = [i \in 1..n |-> PackageDir(q[i])]
    OBVIOUS
  <2>4. \A i \in 1..n : q[i] \in ToSet(s.packages)
    BY <2>1, <2>2 DEF ToSet
  <2>5. \A i \in 1..n : dirs[i] \in Dirs
    BY <2>3, <2>4, SpecPlaces DEF Dirs
  <2>6. Concat([i \in 1..n |-> FetchBits(dirs[i])]) \in Plans(FetchOps, {})
    BY <2>2, <2>3, <2>5, FetchesPlan
  <2>7. [i \in 1..n |-> FetchBits(dirs[i])] = [i \in DOMAIN q |-> FetchBits(PackageDir(q[i]))]
    BY <2>2, <2>3
  <2> QED BY <2>1, <2>6, <2>7 DEF Each
<1>6. b \in Plans(FetchOps, {})
  BY <1>1, <1>4, <1>5, PlansAdd
<1>7. PICK r : r = (IF s.jobs = <<>> THEN x ELSE b)
  OBVIOUS
<1>8. r \in Plans(FetchOps, {}) /\ t = a \o r
  BY <1>1, <1>3, <1>6, <1>7 DEF PrepareSteps
<1>9. t \in Plans(FetchOps, {})
  BY <1>3, <1>8, PlansAdd
<1>10. t \in Seq(Kind(FetchOps, {})) /\ Sequenced(t)
  BY <1>9 DEF Plans
<1>11. t \in Seq(Steps) /\ Prepares(t)
  <2>1. Kind(FetchOps, {}) \subseteq Steps
    BY DEF Kind
  <2> QED BY <1>10, <2>1 DEF Prepares
<1>12. t # <<>>
  <2>1. r \in Seq(Kind(FetchOps, {}))
    BY <1>8 DEF Plans
  <2>2. a # <<>> /\ a \in Seq(Kind(FetchOps, {})) /\ Len(a) = 1
    BY <1>1, <1>3 DEF Plans
  <2>3. Len(t) = 1 + Len(r) /\ Len(r) \in Nat
    <3>1. PICK X : X = Kind(FetchOps, {})
      OBVIOUS
    <3>2. a \in Seq(X) /\ r \in Seq(X) /\ t = a \o r
      BY <1>8, <2>1, <2>2, <3>1
    <3>3. Len(t) = Len(a) + Len(r) /\ Len(r) \in Nat
      BY <3>2
    <3> QED BY <2>2, <3>3
  <2>4. Len(t) # 0
    BY <2>3
  <2> QED BY <2>4
<1> QED BY <1>10, <1>11, <1>12

(* A compilation begins with its dependencies still to come.               *)
LEMMA CompileBegins ==
  ASSUME NEW c \in Compiles, NEW t, t = CompileSteps(c)
  PROVE  t \in Seq(Steps) /\ t # <<>> /\ Sequenced(t) /\ CompilesNow(c, t)
<1>1. PICK q : q = c.dependencies
  OBVIOUS
<1>2. q \in Seq(Packages) /\ PackageDir(c.package) \in PackageDirs /\ \A i \in DOMAIN q : q[i] \in ToSet(c.dependencies)
  BY <1>1, CompilePlaces DEF ToSet
<1>3. PICK lists : lists = [i \in DOMAIN q |-> FetchBits(PackageDir(q[i])) \o CreateSymLink(PackageDir(q[i]), PackageLink(q[i]))]
  OBVIOUS
<1>4. ASSUME NEW i \in DOMAIN q
      PROVE  /\ lists[i] \in Plans(LinkOps, CompileLeads(c))
             /\ Step("fetch", PackageDir(q[i]), None) \in ToSet(lists[i])
             /\ Step("symlink", PackageLink(q[i]), PackageDir(q[i])) \in ToSet(lists[i])
  <2>1. PICK f, l : f = FetchBits(PackageDir(q[i])) /\ l = CreateSymLink(PackageDir(q[i]), PackageLink(q[i]))
    OBVIOUS
  <2>2. PackageDir(q[i]) \in Dirs /\ PackageLink(q[i]) \in Links /\ <<PackageLink(q[i]), PackageDir(q[i])>> \in CompileLeads(c)
    BY <1>2, <1>4, CompilePlaces DEF Dirs
  <2>3. "fetch" \in LinkOps /\ "unlink" \in LinkOps /\ "symlink" \in LinkOps
    BY DEF LinkOps
  <2>4. f \in Plans(LinkOps, CompileLeads(c))
    BY <2>1, <2>2, <2>3, FetchPlan
  <2>5. l \in Plans(LinkOps, CompileLeads(c))
    BY <2>1, <2>2, <2>3, CreateSymLinkPlan
  <2>6. f \o l \in Plans(LinkOps, CompileLeads(c)) /\ ToSet(f) \subseteq ToSet(f \o l) /\ ToSet(l) \subseteq ToSet(f \o l)
    BY <2>4, <2>5, PlansTogether
  <2>7. lists[i] = f \o l
    BY <1>3, <1>4, <2>1
  <2>8. Step("fetch", PackageDir(q[i]), None) \in ToSet(f) /\ Step("symlink", PackageLink(q[i]), PackageDir(q[i])) \in ToSet(l)
    BY <2>1, StepsHave
  <2> QED BY <2>6, <2>7, <2>8
<1>5. lists \in Seq(Plans(LinkOps, CompileLeads(c))) /\ DOMAIN lists = DOMAIN q
  <2>1. \A i \in DOMAIN q : lists[i] \in Plans(LinkOps, CompileLeads(c))
    BY <1>4
  <2>2. PICK f, l : f = [i \in DOMAIN q |-> FetchBits(PackageDir(q[i]))]
                    /\ l = [i \in DOMAIN q |-> CreateSymLink(PackageDir(q[i]), PackageLink(q[i]))]
    OBVIOUS
  <2>3. lists = [i \in DOMAIN q |-> f[i] \o l[i]]
    BY <1>3, <2>2
  <2>4. DOMAIN lists = DOMAIN q /\ lists = [i \in DOMAIN q |-> lists[i]]
    BY <2>3
  <2>5. PICK n \in Nat : n = Len(q) /\ DOMAIN q = 1..n
    BY <1>2
  <2>6. lists = [i \in 1..n |-> lists[i]] /\ \A i \in 1..n : lists[i] \in Plans(LinkOps, CompileLeads(c))
    BY <2>1, <2>4, <2>5
  <2> QED BY <2>4, <2>6
<1>6. PICK p : p = InstallDependencies(c)
  OBVIOUS
<1>7. p = Concat(lists)
  BY <1>1, <1>3, <1>6 DEF InstallDependencies, Each
<1>8. p \in Plans(LinkOps, CompileLeads(c)) /\ \A k \in DOMAIN lists : ToSet(lists[k]) \subseteq ToSet(p)
  BY <1>5, <1>7, PlansHave
<1>9. PICK f1, f2, f3, f4, f5 :
        /\ f1 = Step("source", None, None) /\ f2 = Step("clear", PackageDir(c.package), None)
        /\ f3 = Step("packaging", PackageDir(c.package), None) /\ f4 = Step("upload", PackageDir(c.package), None)
        /\ f5 = Step("cleanup", None, None)
  OBVIOUS
<1>10. /\ f1 \in Steps /\ f2 \in Steps /\ f3 \in Steps /\ f4 \in Steps /\ f5 \in Steps
       /\ f1.op = "source" /\ f2.op = "clear" /\ f3.op = "packaging" /\ f4.op = "upload" /\ f5.op = "cleanup"
  BY <1>2, <1>9 DEF Steps, Fits, Ops, Step, Dirs
<1>11. PICK w : w = <<f1, f2, f3, f4, f5>>
  OBVIOUS
<1>12. w \in Seq(Steps) /\ Len(w) = 5 /\ w[1] = f1 /\ w[2] = f2 /\ w[3] = f3 /\ w[4] = f4 /\ w[5] = f5
  BY <1>10, <1>11
<1>13. \A i \in 1..5 : i = 1 \/ i = 2 \/ i = 3 \/ i = 4 \/ i = 5
  OBVIOUS
<1>14. Free(w)
  BY <1>10, <1>12, <1>13 DEF Free
<1>15. t = p \o w
  BY <1>6, <1>9, <1>11 DEF CompileSteps
<1>16. /\ t \in Seq(Steps) /\ Sequenced(t) /\ ToSet(p) \subseteq ToSet(t)
       /\ Len(p) \in Nat /\ Len(w) \in Nat /\ Len(t) = Len(p) + Len(w)
       /\ \A i \in 1..Len(p) : t[i] = p[i] /\ t[i] \in Kind(LinkOps, CompileLeads(c))
       /\ \A i \in 1..Len(w) : t[Len(p) + i] = w[i]
  <2>1. Followed(LinkOps, CompileLeads(c), p, w, t)
    BY <1>8, <1>12, <1>14, <1>15, PlanThen
  <2> QED BY <2>1 DEF Followed
<1>17. PICK n \in Nat : n = Len(p)
  BY <1>16
<1>18. /\ Len(t) = n + 5
       /\ t[n + 1] = f1 /\ t[n + 2] = f2 /\ t[n + 3] = f3 /\ t[n + 4] = f4 /\ t[n + 5] = f5
  BY <1>12, <1>16, <1>17
<1>19. t # <<>>
  BY <1>17, <1>18
<1>20. ASSUME NEW i \in 1..Len(t)
       PROVE  IF Len(t) - i < 5 THEN t[i] = Finishing(c, Len(t) - i + 1) ELSE t[i] \in Kind(LinkOps, CompileLeads(c))
  <2>1. i \in 1..n \/ i = n + 1 \/ i = n + 2 \/ i = n + 3 \/ i = n + 4 \/ i = n + 5
    BY <1>17, <1>18, <1>20
  <2>2. CASE i \in 1..n
    <3>1. ~(Len(t) - i < 5)
      BY <1>17, <1>18, <2>2
    <3> QED BY <1>16, <1>17, <2>2, <3>1
  <2>3. CASE i = n + 1
    <3>1. Len(t) - i + 1 = 5 /\ Len(t) - i < 5
      BY <1>17, <1>18, <2>3
    <3>2. t[i] = Finishing(c, 5)
      BY <1>9, <1>18, <2>3 DEF Finishing
    <3> QED BY <3>1, <3>2
  <2>4. CASE i = n + 2
    <3>1. Len(t) - i + 1 = 4 /\ Len(t) - i < 5
      BY <1>17, <1>18, <2>4
    <3>2. t[i] = Finishing(c, 4)
      BY <1>9, <1>18, <2>4 DEF Finishing
    <3> QED BY <3>1, <3>2
  <2>5. CASE i = n + 3
    <3>1. Len(t) - i + 1 = 3 /\ Len(t) - i < 5
      BY <1>17, <1>18, <2>5
    <3>2. t[i] = Finishing(c, 3)
      BY <1>9, <1>18, <2>5 DEF Finishing
    <3> QED BY <3>1, <3>2
  <2>6. CASE i = n + 4
    <3>1. Len(t) - i + 1 = 2 /\ Len(t) - i < 5
      BY <1>17, <1>18, <2>6
    <3>2. t[i] = Finishing(c, 2)
      BY <1>9, <1>18, <2>6 DEF Finishing
    <3> QED BY <3>1, <3>2
  <2>7. CASE i = n + 5
    <3>1. Len(t) - i + 1 = 1 /\ Len(t) - i < 5
      BY <1>17, <1>18, <2>7
    <3>2. t[i] = Finishing(c, 1)
      BY <1>9, <1>18, <2>7 DEF Finishing
    <3> QED BY <3>1, <3>2
  <2> QED BY <2>1, <2>2, <2>3, <2>4, <2>5, <2>6, <2>7
<1>21. DependenciesCome(c, t)
  <2>1. ASSUME NEW d \in ToSet(c.dependencies) PROVE Whole(t, PackageDir(d)) /\ Leading(t, PackageLink(d), PackageDir(d))
    <3>1. PICK i \in DOMAIN q : q[i] = d
      BY <1>1, <2>1 DEF ToSet
    <3>2. ToSet(lists[i]) \subseteq ToSet(t)
      BY <1>5, <1>8, <1>16
    <3>3. Step("fetch", PackageDir(d), None) \in ToSet(t) /\ Step("symlink", PackageLink(d), PackageDir(d)) \in ToSet(t)
      BY <1>4, <3>1, <3>2
    <3> QED BY <3>3 DEF Whole, Leading
  <2> QED BY <2>1 DEF DependenciesCome
<1>22. Len(t) # 3 /\ Len(t) # 2
  BY <1>17, <1>18
<1> QED BY <1>16, <1>19, <1>20, <1>21, <1>22 DEF CompilesNow

-----------------------------------------------------------------------------
(* A step that passes.                                                     *)

(* What is left when the first step is done.                               *)
LEMMA TailIs ==
  ASSUME NEW t \in Seq(Steps), t # <<>>, NEW u, u = Tail(t)
  PROVE  /\ Head(t) = t[1] /\ t[1] \in Steps /\ t[1] \in ToSet(t) /\ u \in Seq(Steps)
         /\ Len(t) \in Nat /\ Len(t) >= 1 /\ Len(u) = Len(t) - 1
         /\ \A i \in 1..Len(u) : i + 1 \in 1..Len(t) /\ u[i] = t[i + 1]
         /\ \A y \in ToSet(t) : y = t[1] \/ y \in ToSet(u)
<1>1. PICK n \in Nat : n = Len(t) /\ DOMAIN t = 1..n
  OBVIOUS
<1>2. n >= 1
  BY <1>1
<1>3. u \in Seq(Steps) /\ Len(u) = n - 1 /\ \A i \in 1..(n - 1) : u[i] = t[i + 1]
  BY <1>1, <1>2
<1>4. DOMAIN u = 1..(n - 1)
  BY <1>3
<1>5. Head(t) = t[1] /\ t[1] \in Steps
  BY <1>1, <1>2
<1>6. t[1] \in ToSet(t)
  BY <1>1, <1>2 DEF ToSet
<1>7. \A i \in 1..(n - 1) : i + 1 \in 1..n
  BY <1>1
<1>8. ASSUME NEW y \in ToSet(t) PROVE y = t[1] \/ y \in ToSet(u)
  <2>1. PICK i \in 1..n : y = t[i]
    BY <1>1, <1>8 DEF ToSet
  <2>2. CASE i = 1
    BY <2>1, <2>2
  <2>3. CASE i # 1
    <3>1. PICK j : j = i - 1
      OBVIOUS
    <3>2. j \in 1..(n - 1) /\ j + 1 = i
      BY <1>1, <2>1, <2>3, <3>1
    <3>3. u[j] = y
      BY <1>3, <2>1, <3>2
    <3> QED BY <1>4, <3>2, <3>3 DEF ToSet
  <2> QED BY <2>2, <2>3
<1> QED BY <1>1, <1>2, <1>3, <1>5, <1>6, <1>7, <1>8

(* What is left stays ready when the first step did what the next asks.    *)
LEMMA ReadyTail ==
  ASSUME NEW t \in Seq(Steps), t # <<>>, NEW u, u = Tail(t), Ready(t),
         t[1].op = "unlink" => links'[t[1].path] = None,
         t[1].op = "fetch" => bits'[t[1].path] = "all",
         \A i \in 1..Len(t) : t[i].op = "bind" /\ bits[t[i].path] = "all" => bits'[t[i].path] = "all"
  PROVE  Ready(u)'
<1>1. /\ Len(t) \in Nat /\ Len(t) >= 1 /\ Len(u) = Len(t) - 1
      /\ \A i \in 1..Len(u) : i + 1 \in 1..Len(t) /\ u[i] = t[i + 1]
  BY TailIs
<1>2. PICK n \in Nat : Len(t) = n + 1 /\ Len(u) = n
  <2>1. Len(u) \in Nat /\ Len(t) = Len(u) + 1
    BY <1>1
  <2> QED BY <2>1
<1>3. SUFFICES ASSUME NEW i \in 1..n
               PROVE  /\ u[i].op = "symlink" => Made(u, i) \/ (i = 1 /\ links'[u[i].path] = None)
                      /\ u[i].op = "unlink" => Remade(u, i)
                      /\ u[i].op = "bind" => Fetched(u, i) \/ bits'[u[i].path] = "all"
  BY <1>2 DEF Ready, Made, Remade, Fetched
<1>4. PICK k : k = i + 1
  OBVIOUS
<1>5. k \in 1..(n + 1) /\ k \in 1..Len(t) /\ k - 1 = i /\ k > 1 /\ k # 1 /\ u[i] = t[k]
  BY <1>1, <1>2, <1>3, <1>4
<1>6. ASSUME u[i].op = "symlink" PROVE Made(u, i) \/ (i = 1 /\ links'[u[i].path] = None)
  <2>1. Made(t, k)
    BY <1>5, <1>6 DEF Ready
  <2>2. t[i].op = "unlink" /\ t[i].path = u[i].path
    BY <1>5, <2>1 DEF Made
  <2>3. CASE i = 1
    BY <2>2, <2>3
  <2>4. CASE i # 1
    <3>1. PICK j : j = i - 1
      OBVIOUS
    <3>2. j \in 1..n /\ j + 1 = i /\ i > 1
      BY <1>2, <1>3, <2>4, <3>1
    <3>3. u[j] = t[i]
      BY <1>1, <1>2, <3>2
    <3> QED BY <2>2, <3>1, <3>2, <3>3 DEF Made
  <2> QED BY <2>3, <2>4
<1>7. ASSUME u[i].op = "unlink" PROVE Remade(u, i)
  <2>1. Remade(t, k)
    BY <1>5, <1>7 DEF Ready
  <2>2. k < Len(t) /\ t[k + 1].op = "symlink" /\ t[k + 1].path = t[k].path /\ t[k + 1].to = t[k].to
    BY <2>1 DEF Remade
  <2>3. k \in 1..n /\ i < n
    BY <1>2, <1>4, <1>5, <2>2
  <2>4. u[k] = t[k + 1]
    BY <1>1, <1>2, <2>3
  <2> QED BY <1>2, <1>4, <1>5, <2>2, <2>3, <2>4 DEF Remade
<1>8. ASSUME u[i].op = "bind" PROVE Fetched(u, i) \/ bits'[u[i].path] = "all"
  <2>1. Fetched(t, k) \/ bits[t[k].path] = "all"
    BY <1>5, <1>8 DEF Ready
  <2>2. CASE bits[t[k].path] = "all"
    BY <1>5, <1>8, <2>2
  <2>3. CASE Fetched(t, k)
    <3>1. PICK j \in 1..i : t[j].op = "fetch" /\ t[j].path = t[k].path
      BY <1>5, <2>3 DEF Fetched
    <3>2. CASE j = 1
      BY <1>5, <3>1, <3>2
    <3>3. CASE j # 1
      <4>1. PICK l : l = j - 1
        OBVIOUS
      <4>2. l \in 1..(i - 1) /\ l \in 1..n /\ l + 1 = j
        BY <1>2, <1>3, <3>1, <3>3, <4>1
      <4>3. u[l] = t[j]
        BY <1>1, <1>2, <4>2
      <4> QED BY <1>5, <3>1, <4>2, <4>3 DEF Fetched
    <3> QED BY <3>2, <3>3
  <2> QED BY <2>1, <2>2, <2>3
<1> QED BY <1>6, <1>7, <1>8

\* A step of these kinds changes one thing.
Changes(x) ==
  /\ x.op \in InstallOps
  /\ IF x.op = "fetch" THEN bits' = [bits EXCEPT ![x.path] = "all"] ELSE bits' = bits
  /\ IF x.op = "unlink" THEN links' = [links EXCEPT ![x.path] = None]
     ELSE IF x.op = "symlink" THEN links' = [links EXCEPT ![x.path] = x.to] ELSE links' = links
  /\ IF x.op = "bind" THEN bound' = [bound EXCEPT ![x.path] = attempt.of.properties] ELSE bound' = bound
  /\ upload' = upload /\ saved' = saved /\ spoiled' = spoiled

(* It does.                                                                *)
LEMMA DoesChange == ASSUME NEW x \in Steps, x.op \in InstallOps, Does(x) PROVE Changes(x)
<1>1. x.op \notin {"clear", "packaging", "cleanup", "source", "upload", "write", "throw"}
  BY DEF InstallOps
<1>2. upload' = upload /\ saved' = saved /\ spoiled' = spoiled
  BY <1>1 DEF Does
<1>3. \/ x.op = "fetch" /\ UnpackBlob(x)
      \/ x.op = "unlink" /\ DeleteLink(x)
      \/ x.op = "symlink" /\ CreateLink(x)
      \/ x.op = "bind" /\ BindConfiguration(x)
      \/ x.op \in {"stop", "hook"} /\ UNCHANGED <<bits, bound, links>>
  BY <1>1 DEF Does
<1>4. CASE x.op = "fetch" /\ UnpackBlob(x)
  BY <1>2, <1>4 DEF Changes, UnpackBlob, Unpacked
<1>5. CASE x.op = "unlink" /\ DeleteLink(x)
  BY <1>2, <1>5 DEF Changes, DeleteLink
<1>6. CASE x.op = "symlink" /\ CreateLink(x)
  BY <1>2, <1>6 DEF Changes, CreateLink
<1>7. CASE x.op = "bind" /\ BindConfiguration(x)
  BY <1>2, <1>7 DEF Changes, BindConfiguration
<1>8. CASE x.op \in {"stop", "hook"} /\ UNCHANGED <<bits, bound, links>>
  BY <1>2, <1>8 DEF Changes
<1> QED BY <1>3, <1>4, <1>5, <1>6, <1>7, <1>8

(* What is whole stays whole, and what is fetched becomes it.              *)
LEMMA WholeStays ==
  ASSUME ApplyTypes, NEW t \in Seq(Steps), t # <<>>, NEW u, u = Tail(t), Changes(t[1]),
         NEW dir \in Dirs, Whole(t, dir)
  PROVE  Whole(u, dir)'
<1>1. \A y \in ToSet(t) : y = t[1] \/ y \in ToSet(u)
  BY TailIs
<1>2. bits \in [Dirs -> Bits]
  BY DEF ApplyTypes
<1>3. PICK x : x = t[1]
  OBVIOUS
<1>4. bits[dir] = "all" => bits'[dir] = "all"
  BY <1>2, <1>3 DEF Changes
<1>5. ASSUME Step("fetch", dir, None) = x PROVE bits'[dir] = "all"
  <2>1. x.op = "fetch" /\ x.path = dir
    BY <1>5 DEF Step
  <2> QED BY <1>2, <1>3, <2>1 DEF Changes
<1>6. bits'[dir] = "all" \/ Step("fetch", dir, None) \in ToSet(u)
  BY <1>1, <1>3, <1>4, <1>5 DEF Whole
<1> QED BY <1>6 DEF Whole

(* What is bound stays bound, and what is to be becomes it.                *)
LEMMA BoundStays ==
  ASSUME ApplyTypes, NEW t \in Seq(Steps), t # <<>>, NEW u, u = Tail(t), Changes(t[1]),
         NEW dir \in JobDirs, Bound(t, dir, attempt.of.properties), attempt'.of = attempt.of
  PROVE  Bound(u, dir, attempt.of.properties)'
<1>1. \A y \in ToSet(t) : y = t[1] \/ y \in ToSet(u)
  BY TailIs
<1>2. bound \in [JobDirs -> Bounds]
  BY DEF ApplyTypes
<1>3. PICK x, p : x = t[1] /\ p = attempt.of.properties
  OBVIOUS
<1>4. bound[dir] = p => bound'[dir] = p
  BY <1>2, <1>3 DEF Changes
<1>5. ASSUME Step("bind", dir, None) = x PROVE bound'[dir] = p
  <2>1. x.op = "bind" /\ x.path = dir
    BY <1>5 DEF Step
  <2> QED BY <1>2, <1>3, <2>1 DEF Changes
<1>6. bound'[dir] = p \/ Step("bind", dir, None) \in ToSet(u)
  BY <1>1, <1>3, <1>4, <1>5 DEF Bound
<1>7. attempt'.of.properties = p
  BY <1>3
<1> QED BY <1>6, <1>7 DEF Bound

(* What leads where it should does so, or will again.                      *)
LEMMA LeadingStays ==
  ASSUME ApplyTypes, NEW t \in Seq(Steps), t # <<>>, NEW u, u = Tail(t), Ready(t), Changes(t[1]),
         NEW leads, OneTarget(leads), t[1].op \in {"unlink", "symlink"} => <<t[1].path, t[1].to>> \in leads,
         NEW link \in Links, NEW dir \in Dirs, <<link, dir>> \in leads, Leading(t, link, dir)
  PROVE  Leading(u, link, dir)'
<1>1. /\ \A y \in ToSet(t) : y = t[1] \/ y \in ToSet(u)
      /\ Len(t) \in Nat /\ Len(t) >= 1 /\ Len(u) = Len(t) - 1 /\ u \in Seq(Steps)
      /\ \A i \in 1..Len(u) : i + 1 \in 1..Len(t) /\ u[i] = t[i + 1]
  BY TailIs
<1>2. links \in [Links -> Dirs \cup {None}]
  BY DEF ApplyTypes
<1>3. PICK x : x = t[1]
  OBVIOUS
<1>4. SUFFICES links'[link] = dir \/ Step("symlink", link, dir) \in ToSet(u)
  BY DEF Leading
<1>5. CASE x.op \in {"unlink", "symlink"} /\ x.path = link
  <2>1. x.to = dir
    <3>1. PICK a, b : a = <<x.path, x.to>> /\ b = <<link, dir>>
      OBVIOUS
    <3>2. a \in leads /\ b \in leads /\ a[1] = b[1]
      BY <1>3, <1>5, <3>1
    <3>3. a[2] = b[2]
      BY <3>2 DEF OneTarget
    <3> QED BY <3>1, <3>3
  <2>2. CASE x.op = "symlink"
    BY <1>2, <1>3, <1>5, <2>1, <2>2 DEF Changes
  <2>3. CASE x.op = "unlink"
    <3>1. Remade(t, 1)
      BY <1>1, <1>3, <2>3 DEF Ready
    <3>2. 1 < Len(t) /\ t[2].op = "symlink" /\ t[2].path = link /\ t[2].to = dir
      BY <1>3, <1>5, <2>1, <3>1 DEF Remade
    <3>3. 1 \in 1..Len(u) /\ u[1] = t[2]
      BY <1>1, <3>2
    <3>4. u[1] \in Steps /\ u[1] \in ToSet(u)
      <4>1. 1 \in DOMAIN u /\ u[1] \in Steps
        BY <1>1, <3>3
      <4> QED BY <4>1 DEF ToSet
    <3>5. u[1] = Step("symlink", link, dir)
      <4>1. u[1] \in [op : Ops, path : Dirs \cup Links \cup {None}, to : Dirs \cup {None}]
        BY <3>4 DEF Steps
      <4> QED BY <3>2, <3>3, <4>1 DEF Step
    <3> QED BY <3>4, <3>5
  <2> QED BY <1>5, <2>2, <2>3
<1>6. CASE ~(x.op \in {"unlink", "symlink"} /\ x.path = link)
  <2>1. links'[link] = links[link]
    BY <1>2, <1>3, <1>6 DEF Changes
  <2>2. Step("symlink", link, dir) # x
    BY <1>6 DEF Step
  <2> QED BY <1>1, <1>3, <2>1, <2>2 DEF Leading
<1> QED BY <1>5, <1>6

(* All the spec asks for still comes.                                      *)
LEMMA ComesStays ==
  ASSUME ApplyTypes, NEW t \in Seq(Steps), t # <<>>, NEW u, u = Tail(t), Ready(t), Changes(t[1]),
         NEW s \in Specs, attempt.of = s, attempt'.of = attempt.of,
         t[1].op \in {"unlink", "symlink"} => <<t[1].path, t[1].to>> \in SpecLeads(s), Comes(s, t)
  PROVE  Comes(s, u)'
<1>1. ASSUME NEW template \in ToSet(s.jobs)
      PROVE  Whole(u, JobDir(template))' /\ Leading(u, JobLink(template), JobDir(template))' /\ Bound(u, JobDir(template), s.properties)'
  <2>1. /\ JobDir(template) \in JobDirs /\ JobDir(template) \in Dirs /\ JobLink(template) \in Links
        /\ <<JobLink(template), JobDir(template)>> \in SpecLeads(s)
    BY <1>1, SpecPlaces DEF Dirs
  <2>2. Whole(t, JobDir(template)) /\ Leading(t, JobLink(template), JobDir(template)) /\ Bound(t, JobDir(template), s.properties)
    BY <1>1 DEF Comes
  <2>3. PICK dir, link, leads : dir = JobDir(template) /\ link = JobLink(template) /\ leads = SpecLeads(s)
    OBVIOUS
  <2>4. Whole(u, dir)'
    BY <2>1, <2>2, <2>3, WholeStays
  <2>5. Leading(u, link, dir)'
    <3>1. OneTarget(leads)
      BY <2>3, SpecTargets
    <3> QED BY <2>1, <2>2, <2>3, <3>1, LeadingStays
  <2>6. Bound(u, dir, attempt.of.properties)'
    BY <2>1, <2>2, <2>3, BoundStays
  <2>7. bound'[dir] = s.properties \/ Step("bind", dir, None) \in ToSet(u)
    BY <2>6 DEF Bound
  <2> QED BY <2>3, <2>4, <2>5, <2>7 DEF Bound, Whole, Leading
<1>2. ASSUME NEW template \in ToSet(s.jobs), NEW package \in ToSet(s.packages)
      PROVE  /\ Whole(u, PackageDir(package))'
             /\ Leading(u, PackageLink(package), PackageDir(package))'
             /\ Leading(u, SymlinkPathInJob(template, package), PackageDir(package))'
  <2>1. /\ PackageDir(package) \in Dirs /\ PackageLink(package) \in Links
        /\ SymlinkPathInJob(template, package) \in Links
        /\ <<PackageLink(package), PackageDir(package)>> \in SpecLeads(s)
        /\ <<SymlinkPathInJob(template, package), PackageDir(package)>> \in SpecLeads(s)
    BY <1>2, SpecPlaces DEF Dirs
  <2>2. /\ Whole(t, PackageDir(package)) /\ Leading(t, PackageLink(package), PackageDir(package))
        /\ Leading(t, SymlinkPathInJob(template, package), PackageDir(package))
    BY <1>2 DEF Comes
  <2>3. PICK dir, link, inJob, leads :
          /\ dir = PackageDir(package) /\ link = PackageLink(package) /\ inJob = SymlinkPathInJob(template, package)
          /\ leads = SpecLeads(s)
    OBVIOUS
  <2>4. OneTarget(leads)
    BY <2>3, SpecTargets
  <2>5. Whole(u, dir)'
    BY <2>1, <2>2, <2>3, WholeStays
  <2>6. Leading(u, link, dir)'
    BY <2>1, <2>2, <2>3, <2>4, LeadingStays
  <2>7. Leading(u, inJob, dir)'
    BY <2>1, <2>2, <2>3, <2>4, LeadingStays
  <2> QED BY <2>3, <2>5, <2>6, <2>7 DEF Whole, Leading
<1> QED BY <1>1, <1>2 DEF Comes

(* So do the dependencies.                                                 *)
LEMMA DependenciesStay ==
  ASSUME ApplyTypes, NEW t \in Seq(Steps), t # <<>>, NEW u, u = Tail(t), Ready(t), Changes(t[1]),
         NEW c \in Compiles,
         t[1].op \in {"unlink", "symlink"} => <<t[1].path, t[1].to>> \in CompileLeads(c), DependenciesCome(c, t)
  PROVE  DependenciesCome(c, u)'
<1>1. ASSUME NEW p \in ToSet(c.dependencies)
      PROVE  Whole(u, PackageDir(p))' /\ Leading(u, PackageLink(p), PackageDir(p))'
  <2>1. /\ PackageDir(p) \in Dirs /\ PackageLink(p) \in Links
        /\ <<PackageLink(p), PackageDir(p)>> \in CompileLeads(c)
    BY <1>1, CompilePlaces DEF Dirs
  <2>2. Whole(t, PackageDir(p)) /\ Leading(t, PackageLink(p), PackageDir(p))
    BY <1>1 DEF DependenciesCome
  <2>3. PICK dir, link, leads : dir = PackageDir(p) /\ link = PackageLink(p) /\ leads = CompileLeads(c)
    OBVIOUS
  <2>4. Whole(u, dir)'
    BY <2>1, <2>2, <2>3, WholeStays
  <2>5. Leading(u, link, dir)'
    <3>1. OneTarget(leads)
      BY <2>3, CompileTargets
    <3> QED BY <2>1, <2>2, <2>3, <3>1, LeadingStays
  <2> QED BY <2>3, <2>4, <2>5 DEF Whole, Leading
<1> QED BY <1>1 DEF DependenciesCome

(* What a step that passes makes of the request.                           *)
LEMMA PassIs ==
  ASSUME ApplyTypes, StepPasses, NEW t, t = attempt.todo, NEW u, u = Tail(t)
  PROVE  /\ t \in Seq(Steps) /\ t # <<>> /\ CanBeDone(t[1]) /\ Does(t[1])
         /\ attempt' \in Attempts /\ attempt'.todo = u /\ attempt'.kind = attempt.kind /\ attempt'.of = attempt.of
         /\ attempt.end # "stuck" => attempt'.end # "stuck"
<1>1. attempt \in Attempts
  BY DEF ApplyTypes
<1>2. t \in Seq(Steps) /\ t # <<>>
  BY <1>1 DEF Attempts, StepPasses, BetweenRequests
<1>3. Head(t) = t[1] /\ u \in Seq(Steps)
  BY <1>2, TailIs
<1>4. PICK e : e = IF Len(attempt.todo) = 1 /\ attempt.end = None THEN "done" ELSE attempt.end
  OBVIOUS
<1>5. attempt' = [attempt EXCEPT !.todo = Tail(attempt.todo), !.end = e]
  BY <1>4 DEF StepPasses, Passes
<1>6. /\ attempt'.todo = u /\ attempt'.end = e /\ attempt'.kind = attempt.kind /\ attempt'.of = attempt.of
      /\ attempt' = [kind |-> attempt.kind, of |-> attempt.of, todo |-> u, end |-> e]
  BY <1>1, <1>5 DEF Attempts
<1>7. e \in {None, "refused", "done", "fault", "ended", "null", "stuck"} /\ (attempt.end # "stuck" => e # "stuck")
  BY <1>1, <1>4 DEF Attempts
<1>8. attempt' \in Attempts
  BY <1>1, <1>3, <1>6, <1>7 DEF Attempts
<1> QED BY <1>2, <1>3, <1>6, <1>7, <1>8 DEF StepPasses

\* What the steps work on has its types.
PlaceTypes ==
  /\ bits \in [Dirs -> Bits]
  /\ bound \in [JobDirs -> Bounds]
  /\ links \in [Links -> Dirs \cup {None}]
  /\ saved \in Specs \cup {NoSpec}
  /\ spoiled \in BOOLEAN

(* A step keeps the types.                                                 *)
LEMMA DoesTypes ==
  ASSUME ApplyTypes, NEW x \in Steps, Does(x), x.op \in {"bind", "write"} => attempt.of \in Specs
  PROVE  PlaceTypes'
<1>1. /\ bits \in [Dirs -> Bits] /\ bound \in [JobDirs -> Bounds]
      /\ links \in [Links -> Dirs \cup {None}] /\ saved \in Specs \cup {NoSpec} /\ spoiled \in BOOLEAN
  BY DEF ApplyTypes
<1>2. saved' \in Specs \cup {NoSpec} /\ spoiled' \in BOOLEAN
  BY <1>1 DEF Does
<1>3. CASE x.op = "fetch" /\ UnpackBlob(x)
  BY <1>1, <1>2, <1>3 DEF UnpackBlob, Unpacked, Bits, PlaceTypes
<1>4. CASE x.op = "unlink" /\ DeleteLink(x)
  BY <1>1, <1>2, <1>4 DEF DeleteLink, PlaceTypes
<1>5. CASE x.op = "symlink" /\ CreateLink(x)
  <2>1. x.to \in Dirs \cup {None}
    BY DEF Steps
  <2> QED BY <1>1, <1>2, <1>5, <2>1 DEF CreateLink, PlaceTypes
<1>6. CASE x.op = "bind" /\ BindConfiguration(x)
  <2>1. attempt.of.properties \in Bounds
    BY <1>6 DEF Bounds
  <2> QED BY <1>1, <1>2, <1>6, <2>1 DEF BindConfiguration, PlaceTypes
<1>7. CASE x.op = "clear" /\ ClearInstallDir(x)
  BY <1>1, <1>2, <1>7 DEF ClearInstallDir, Emptied, Bits, PlaceTypes
<1>8. CASE x.op = "packaging" /\ Packaging(x)
  BY <1>1, <1>2, <1>8 DEF Packaging, Bits, PlaceTypes
<1>9. CASE x.op = "cleanup" /\ DeleteTempFiles
  BY <1>1, <1>2, <1>9 DEF DeleteTempFiles, Emptied, Bits, PlaceTypes
<1>10. CASE x.op \in {"stop", "hook", "source", "upload", "write"} /\ UNCHANGED <<bits, bound, links>>
  BY <1>1, <1>2, <1>10 DEF PlaceTypes
<1> QED BY <1>3, <1>4, <1>5, <1>6, <1>7, <1>8, <1>9, <1>10 DEF Does

(* What is left after one of these steps is ready.                         *)
LEMMA ReadyAfter ==
  ASSUME ApplyTypes, NEW t \in Seq(Steps), t # <<>>, NEW u, u = Tail(t), Ready(t), Changes(t[1])
  PROVE  Ready(u)'
<1>1. t[1] \in Steps
  BY TailIs
<1>2. bits \in [Dirs -> Bits] /\ links \in [Links -> Dirs \cup {None}]
  BY DEF ApplyTypes
<1>3. PICK x : x = t[1]
  OBVIOUS
<1>4. (x.op = "unlink" => x.path \in Links) /\ (x.op = "fetch" => x.path \in Dirs)
  BY <1>1, <1>3 DEF Steps, Fits
<1>5. (x.op = "unlink" => links'[x.path] = None) /\ (x.op = "fetch" => bits'[x.path] = "all")
  BY <1>2, <1>3, <1>4 DEF Changes
<1>6. ASSUME NEW i \in 1..Len(t), t[i].op = "bind", bits[t[i].path] = "all" PROVE bits'[t[i].path] = "all"
  <2>1. t[i] \in Steps
    OBVIOUS
  <2>2. t[i].path \in Dirs
    BY <1>6, <2>1 DEF Steps, Fits, Dirs
  <2> QED BY <1>2, <1>3, <1>6, <2>2 DEF Changes
<1>7. \A i \in 1..Len(t) : t[i].op = "bind" /\ bits[t[i].path] = "all" => bits'[t[i].path] = "all"
  BY <1>6
<1> QED BY <1>3, <1>5, <1>7, ReadyTail

(* A step of an apply.                                                     *)
LEMMA ApplyPasses ==
  ASSUME ApplyIInv, StepPasses, attempt.kind = "apply"
  PROVE  ApplyIInv'
<1>1. PICK t, u, s : t = attempt.todo /\ u = Tail(t) /\ s = attempt.of
  OBVIOUS
<1>2. ApplyTypes /\ Ready(t) /\ attempt.end # "stuck" /\ upload # "torn"
  BY <1>1 DEF ApplyIInv, LeftoversDoNotMatter, UploadsAreWhole
<1>3. /\ t \in Seq(Steps) /\ t # <<>> /\ CanBeDone(t[1]) /\ Does(t[1])
      /\ attempt' \in Attempts /\ attempt'.todo = u /\ attempt'.kind = attempt.kind /\ attempt'.of = attempt.of
      /\ attempt.end # "stuck" => attempt'.end # "stuck"
  BY <1>1, <1>2, PassIs
<1>4. Applies(s, t)
  BY <1>1, <1>3 DEF ApplyIInv, AttemptOK
<1>5. /\ t[1] \in Steps /\ u \in Seq(Steps) /\ Len(t) \in Nat /\ Len(t) >= 1 /\ Len(u) = Len(t) - 1
      /\ \A i \in 1..Len(u) : i + 1 \in 1..Len(t) /\ u[i] = t[i + 1]
      /\ t[1] \in ToSet(t) /\ \A y \in ToSet(t) : y = t[1] \/ y \in ToSet(u)
  BY <1>3, <1>1, TailIs
<1>6. s \in Specs
  BY <1>4 DEF Applies
<1>7. ApplyTypes'
  <2>1. PlaceTypes'
    <3>1. t[1].op \in {"bind", "write"} => attempt.of \in Specs
      BY <1>1, <1>6
    <3> QED BY <1>2, <1>3, <1>5, <3>1, DoesTypes
  <2> QED BY <1>3, <2>1 DEF PlaceTypes, ApplyTypes
<1>8. LeftoversDoNotMatter' /\ (attempt.kind = "compile" => spoiled)'
  BY <1>2, <1>3 DEF LeftoversDoNotMatter
<1>9. CASE Len(t) = 1
  <2>1. t[1] = Step("write", None, None)
    BY <1>4, <1>9 DEF Applies
  <2>2. t[1].op = "write"
    BY <2>1 DEF Step
  <2>3. /\ bits' = bits /\ bound' = bound /\ links' = links /\ saved' = s /\ upload' = upload
    BY <1>1, <1>3, <2>2 DEF Does
  <2>4. u = <<>>
    <3>1. Len(u) = 0
      BY <1>5, <1>9
    <3> QED BY <1>5, <3>1
  <2>5. ASSUME s.configured PROVE Installed(s)'
    <3>1. Comes(s, t)
      BY <1>4, <2>5 DEF Applies
    <3>2. \A y \in ToSet(t) : y = t[1]
      <4>1. ToSet(u) = {}
        BY <2>4 DEF ToSet
      <4> QED BY <1>5, <4>1
    <3>3. \A dir, to : Step("fetch", dir, to) \notin ToSet(t) /\ Step("bind", dir, to) \notin ToSet(t)
                       /\ Step("symlink", dir, to) \notin ToSet(t)
      BY <2>2, <3>2 DEF Step
    <3>4. Installed(s)
      BY <3>1, <3>3 DEF Comes, Whole, Leading, Bound, Installed
    <3> QED BY <2>3, <3>4 DEF Installed
  <2>6. SavedKept'
    BY <2>3, <2>5 DEF SavedKept, Installed
  <2>7. Ready(attempt.todo)' /\ AttemptOK'
    BY <1>3, <2>4 DEF Ready, AttemptOK
  <2>8. UploadsAreWhole'
    BY <1>2, <2>3 DEF UploadsAreWhole
  <2> QED BY <1>7, <1>8, <2>6, <2>7, <2>8 DEF ApplyIInv
<1>10. CASE Len(t) # 1
  <2>1. t[1] \in Kind(InstallOps, SpecLeads(s))
    BY <1>4, <1>5, <1>10 DEF Applies
  <2>2. t[1].op \in InstallOps /\ (t[1].op \in {"unlink", "symlink"} => <<t[1].path, t[1].to>> \in SpecLeads(s))
    BY <2>1 DEF Kind
  <2>3. Changes(t[1])
    BY <1>3, <1>5, <2>2, DoesChange
  <2>4. Ready(u)'
    BY <1>1, <1>2, <1>3, <2>3, ReadyAfter
  <2>5. u # <<>>
    <3>1. Len(u) # 0
      BY <1>5, <1>10
    <3> QED BY <3>1
  <2>6. Applies(s, u)'
    <3>1. \A i \in 1..Len(u) : IF i = Len(u) THEN u[i] = Step("write", None, None)
                                            ELSE u[i] \in Kind(InstallOps, SpecLeads(s))
      <4>1. ASSUME NEW i \in 1..Len(u)
            PROVE  IF i = Len(u) THEN u[i] = Step("write", None, None) ELSE u[i] \in Kind(InstallOps, SpecLeads(s))
        <5>1. PICK k : k = i + 1
          OBVIOUS
        <5>2. k \in 1..Len(t) /\ u[i] = t[k] /\ (i = Len(u) <=> k = Len(t))
          BY <1>5, <4>1, <5>1
        <5>3. IF k = Len(t) THEN t[k] = Step("write", None, None) ELSE t[k] \in Kind(InstallOps, SpecLeads(s))
          BY <1>4, <5>2 DEF Applies
        <5> QED BY <5>2, <5>3
      <4> QED BY <4>1
    <3>2. ASSUME s.configured PROVE Comes(s, u)'
      <4>1. Comes(s, t)
        BY <1>4, <3>2 DEF Applies
      <4> QED BY <1>1, <1>2, <1>3, <1>6, <2>2, <2>3, <4>1, ComesStays
    <3> QED BY <1>6, <3>1, <3>2 DEF Applies
  <2>7. Ready(attempt.todo)'
    BY <1>3, <2>4 DEF Ready
  <2>8. AttemptOK'
    <3>1. Applies(attempt.of, attempt.todo)'
      BY <1>1, <1>3, <2>6
    <3> QED BY <1>3, <3>1 DEF AttemptOK
  <2>9. SavedKept'
    BY <1>3, <2>5 DEF SavedKept, BetweenRequests
  <2>10. UploadsAreWhole'
    BY <1>2, <2>3 DEF UploadsAreWhole, Changes
  <2> QED BY <1>7, <1>8, <2>7, <2>8, <2>9, <2>10 DEF ApplyIInv
<1> QED BY <1>9, <1>10

(* A step of a prepare.                                                    *)
LEMMA PreparePasses ==
  ASSUME ApplyIInv, StepPasses, attempt.kind = "prepare"
  PROVE  ApplyIInv'
<1>1. PICK t, u : t = attempt.todo /\ u = Tail(t)
  OBVIOUS
<1>2. ApplyTypes /\ Ready(t) /\ attempt.end # "stuck" /\ upload # "torn"
  BY <1>1 DEF ApplyIInv, LeftoversDoNotMatter, UploadsAreWhole
<1>3. /\ t \in Seq(Steps) /\ t # <<>> /\ CanBeDone(t[1]) /\ Does(t[1])
      /\ attempt' \in Attempts /\ attempt'.todo = u /\ attempt'.kind = attempt.kind /\ attempt'.of = attempt.of
      /\ attempt.end # "stuck" => attempt'.end # "stuck"
  BY <1>1, <1>2, PassIs
<1>4. Prepares(t)
  BY <1>1, <1>3 DEF ApplyIInv, AttemptOK
<1>5. /\ t[1] \in Steps /\ u \in Seq(Steps) /\ Len(t) \in Nat /\ Len(t) >= 1 /\ Len(u) = Len(t) - 1
      /\ \A i \in 1..Len(u) : i + 1 \in 1..Len(t) /\ u[i] = t[i + 1]
  BY <1>3, <1>1, TailIs
<1>6. t[1] \in Kind(FetchOps, {})
  <2>1. 1 \in 1..Len(t)
    BY <1>5
  <2> QED BY <1>4, <2>1 DEF Prepares
<1>7. t[1].op \in {"stop", "fetch"}
  BY <1>3, <1>6 DEF Kind, FetchOps, CanBeDone
<1>8. Changes(t[1])
  <2>1. t[1].op \in InstallOps
    BY <1>7 DEF InstallOps
  <2> QED BY <1>3, <1>5, <2>1, DoesChange
<1>9. ApplyTypes'
  <2>1. PlaceTypes'
    <3>1. t[1].op \in {"bind", "write"} => attempt.of \in Specs
      BY <1>7
    <3> QED BY <1>2, <1>3, <1>5, <3>1, DoesTypes
  <2> QED BY <1>3, <2>1 DEF PlaceTypes, ApplyTypes
<1>10. LeftoversDoNotMatter' /\ (attempt.kind = "compile" => spoiled)'
  BY <1>2, <1>3 DEF LeftoversDoNotMatter
<1>11. Ready(attempt.todo)'
  <2>1. Ready(u)'
    BY <1>1, <1>2, <1>3, <1>8, ReadyAfter
  <2> QED BY <1>3, <2>1 DEF Ready
<1>12. AttemptOK'
  <2>1. Prepares(u)
    BY <1>4, <1>5 DEF Prepares
  <2> QED BY <1>3, <2>1 DEF AttemptOK
<1>13. SavedKept'
  <2>1. saved' = saved /\ spoiled' = spoiled /\ bound' = bound /\ links' = links
    BY <1>7, <1>8 DEF Changes
  <2>2. PICK s : s = saved
    OBVIOUS
  <2>3. SUFFICES ASSUME ~spoiled, s.configured PROVE Installed(s)'
    BY <2>1, <2>2 DEF SavedKept, Installed
  <2>4. Installed(s)
    BY <2>2, <2>3 DEF ApplyIInv, SavedKept
  <2>5. s \in Specs
    <3>1. NoSpec.configured = FALSE
      BY DEF NoSpec
    <3>2. s \in Specs \cup {NoSpec}
      BY <1>2, <2>2 DEF ApplyTypes
    <3> QED BY <2>3, <3>1, <3>2
  <2>6. ASSUME NEW dir \in Dirs, bits[dir] = "all" PROVE bits'[dir] = "all"
    <3>1. bits \in [Dirs -> Bits]
      BY <1>2 DEF ApplyTypes
    <3> QED BY <1>8, <2>6, <3>1 DEF Changes
  <2>7. /\ \A template \in ToSet(s.jobs) : JobDir(template) \in Dirs
        /\ \A package \in ToSet(s.packages) : PackageDir(package) \in Dirs
    BY <2>5, SpecPlaces DEF Dirs
  <2> QED BY <2>1, <2>4, <2>6, <2>7 DEF Installed
<1>14. UploadsAreWhole'
  BY <1>2, <1>8 DEF UploadsAreWhole, Changes
<1> QED BY <1>9, <1>10, <1>11, <1>12, <1>13, <1>14 DEF ApplyIInv

(* The last steps of a compilation.                                        *)
LEMMA FinishingIs ==
  ASSUME NEW c, NEW left \in 1..5
  PROVE  /\ left = 1 => Finishing(c, left).op = "cleanup"
         /\ left = 2 => Finishing(c, left).op = "upload"
         /\ left = 3 => Finishing(c, left).op = "packaging" /\ Finishing(c, left).path = PackageDir(c.package)
         /\ left = 4 => Finishing(c, left).op = "clear" /\ Finishing(c, left).path = PackageDir(c.package)
         /\ left = 5 => Finishing(c, left).op = "source"
         /\ Finishing(c, left).op \in {"cleanup", "upload", "packaging", "clear", "source"}
<1>1. CASE left = 1
  BY <1>1 DEF Finishing, Step
<1>2. CASE left = 2
  BY <1>2 DEF Finishing, Step
<1>3. CASE left = 3
  BY <1>3 DEF Finishing, Step
<1>4. CASE left = 4
  BY <1>4 DEF Finishing, Step
<1>5. CASE left = 5
  BY <1>5 DEF Finishing, Step
<1> QED BY <1>1, <1>2, <1>3, <1>4, <1>5

\* The steps left of a compilation are those they should be.
CompileOrder(c, t) ==
  \A i \in 1..Len(t) : IF Len(t) - i < 5 THEN t[i] = Finishing(c, Len(t) - i + 1)
                                          ELSE t[i] \in Kind(LinkOps, CompileLeads(c))

(* So they are without the first.                                          *)
LEMMA OrderTail ==
  ASSUME NEW c \in Compiles, NEW t \in Seq(Steps), t # <<>>, NEW u, u = Tail(t), CompileOrder(c, t)
  PROVE  /\ CompileOrder(c, u)
         /\ Len(t) <= 5 => t[1] = Finishing(c, Len(t))
         /\ Len(t) > 5 => t[1] \in Kind(LinkOps, CompileLeads(c))
         /\ \A i \in 1..Len(t) : t[i].op # "bind"
<1>1. /\ Len(t) \in Nat /\ Len(t) >= 1 /\ Len(u) = Len(t) - 1
      /\ \A i \in 1..Len(u) : i + 1 \in 1..Len(t) /\ u[i] = t[i + 1]
  BY TailIs
<1>2. PICK n \in Nat : n = Len(t)
  BY <1>1
<1>3. ASSUME NEW i \in 1..n PROVE IF n - i < 5 THEN t[i] = Finishing(c, n - i + 1) ELSE t[i] \in Kind(LinkOps, CompileLeads(c))
  BY <1>2, <1>3 DEF CompileOrder
<1>4. ASSUME NEW i \in 1..Len(u)
      PROVE  IF Len(u) - i < 5 THEN u[i] = Finishing(c, Len(u) - i + 1) ELSE u[i] \in Kind(LinkOps, CompileLeads(c))
  <2>1. PICK k : k = i + 1
    OBVIOUS
  <2>2. k \in 1..n /\ u[i] = t[k] /\ Len(u) - i = n - k
    BY <1>1, <1>2, <1>4, <2>1
  <2> QED BY <1>3, <2>2
<1>5. ASSUME n <= 5 PROVE t[1] = Finishing(c, n)
  <2>1. 1 \in 1..n /\ n - 1 < 5 /\ n - 1 + 1 = n
    BY <1>1, <1>2, <1>5
  <2> QED BY <1>3, <2>1
<1>6. ASSUME n > 5 PROVE t[1] \in Kind(LinkOps, CompileLeads(c))
  <2>1. 1 \in 1..n /\ ~(n - 1 < 5)
    BY <1>1, <1>2, <1>6
  <2> QED BY <1>3, <2>1
<1>7. ASSUME NEW i \in 1..n PROVE t[i].op # "bind"
  <2>1. CASE n - i < 5
    <3>1. PICK left : left = n - i + 1
      OBVIOUS
    <3>2. left \in 1..5
      BY <1>2, <1>7, <2>1, <3>1
    <3>3. t[i] = Finishing(c, left)
      BY <1>3, <2>1, <3>1
    <3> QED BY <3>2, <3>3, FinishingIs
  <2>2. CASE ~(n - i < 5)
    <3>1. t[i] \in Kind(LinkOps, CompileLeads(c))
      BY <1>3, <2>2
    <3> QED BY <3>1 DEF Kind, LinkOps
  <2> QED BY <2>1, <2>2
<1> QED BY <1>2, <1>4, <1>5, <1>6, <1>7 DEF CompileOrder

(* The dependencies still come after a step that leaves them alone.        *)
LEMMA DependenciesKept ==
  ASSUME NEW t \in Seq(Steps), t # <<>>, NEW u, u = Tail(t), NEW c \in Compiles,
         t[1].op \notin {"fetch", "symlink"}, links' = links,
         \A p \in ToSet(c.dependencies) : bits'[PackageDir(p)] = bits[PackageDir(p)], DependenciesCome(c, t)
  PROVE  DependenciesCome(c, u)'
<1>1. \A y \in ToSet(t) : y = t[1] \/ y \in ToSet(u)
  BY TailIs
<1>2. ASSUME NEW dir PROVE Step("fetch", dir, None) # t[1]
  BY DEF Step
<1>3. ASSUME NEW link, NEW dir PROVE Step("symlink", link, dir) # t[1]
  BY DEF Step
<1>4. ASSUME NEW p \in ToSet(c.dependencies)
      PROVE  /\ bits'[PackageDir(p)] = "all" \/ Step("fetch", PackageDir(p), None) \in ToSet(u)
             /\ links'[PackageLink(p)] = PackageDir(p) \/ Step("symlink", PackageLink(p), PackageDir(p)) \in ToSet(u)
  <2>1. Whole(t, PackageDir(p)) /\ Leading(t, PackageLink(p), PackageDir(p))
    BY <1>4 DEF DependenciesCome
  <2>2. bits[PackageDir(p)] = "all" \/ Step("fetch", PackageDir(p), None) \in ToSet(t)
    BY <2>1 DEF Whole
  <2>3. links[PackageLink(p)] = PackageDir(p) \/ Step("symlink", PackageLink(p), PackageDir(p)) \in ToSet(t)
    BY <2>1 DEF Leading
  <2> QED BY <1>1, <1>2, <1>3, <1>4, <2>2, <2>3
<1> QED BY <1>4 DEF DependenciesCome, Whole, Leading

(* A step of a compilation.                                                *)
LEMMA CompilePasses ==
  ASSUME ApplyIInv, StepPasses, attempt.kind = "compile"
  PROVE  ApplyIInv'
<1>1. PICK t, u, c : t = attempt.todo /\ u = Tail(t) /\ c = attempt.of
  OBVIOUS
<1>2. ApplyTypes /\ Ready(t) /\ attempt.end # "stuck" /\ upload # "torn" /\ spoiled
  BY <1>1 DEF ApplyIInv, LeftoversDoNotMatter, UploadsAreWhole
<1>3. /\ t \in Seq(Steps) /\ t # <<>> /\ CanBeDone(t[1]) /\ Does(t[1])
      /\ attempt' \in Attempts /\ attempt'.todo = u /\ attempt'.kind = attempt.kind /\ attempt'.of = attempt.of
      /\ attempt.end # "stuck" => attempt'.end # "stuck"
  BY <1>1, <1>2, PassIs
<1>4. CompilesNow(c, t)
  BY <1>1, <1>3 DEF ApplyIInv, AttemptOK
<1>5. /\ t[1] \in Steps /\ u \in Seq(Steps) /\ Len(t) \in Nat /\ Len(t) >= 1 /\ Len(u) = Len(t) - 1
      /\ \A y \in ToSet(t) : y = t[1] \/ y \in ToSet(u)
      /\ \A i \in 1..Len(u) : i + 1 \in 1..Len(t) /\ u[i] = t[i + 1]
  BY <1>3, <1>1, TailIs
<1>6. /\ c \in Compiles /\ CompileOrder(c, t)
      /\ Len(t) >= 2 => DependenciesCome(c, t)
      /\ Len(t) = 3 => bits[PackageDir(c.package)] = "none"
      /\ Len(t) = 2 => bits[PackageDir(c.package)] = "all"
  BY <1>4 DEF CompilesNow, CompileOrder
<1>7. /\ CompileOrder(c, u)
      /\ Len(t) <= 5 => t[1] = Finishing(c, Len(t))
      /\ Len(t) > 5 => t[1] \in Kind(LinkOps, CompileLeads(c))
      /\ \A i \in 1..Len(t) : t[i].op # "bind"
  BY <1>1, <1>3, <1>6, OrderTail
<1>8. PICK n \in Nat : n = Len(t) /\ n >= 1 /\ Len(u) = n - 1
  BY <1>5
<1>9. PICK x, dir : x = t[1] /\ dir = PackageDir(c.package)
  OBVIOUS
<1>10. dir \in Dirs
  BY <1>6, <1>9, CompilePlaces DEF Dirs
<1>11. bits \in [Dirs -> Bits]
  BY <1>2 DEF ApplyTypes
<1>12. CASE n > 5
  <2>1. x.op \in LinkOps /\ (x.op \in {"unlink", "symlink"} => <<x.path, x.to>> \in CompileLeads(c))
    BY <1>7, <1>8, <1>9, <1>12 DEF Kind
  <2>2. x.op \in InstallOps /\ x.op \notin {"bind", "write"}
    BY <2>1 DEF LinkOps, InstallOps
  <2>3. Changes(x)
    BY <1>3, <1>5, <1>9, <2>2, DoesChange
  <2>4. Ready(u)'
    BY <1>1, <1>2, <1>3, <1>9, <2>3, ReadyAfter
  <2>5. PlaceTypes'
    BY <1>2, <1>3, <1>5, <1>9, <2>2, DoesTypes
  <2>6. DependenciesCome(c, u)'
    <3>1. DependenciesCome(c, t)
      BY <1>6, <1>8, <1>12
    <3> QED BY <1>1, <1>2, <1>3, <1>6, <1>9, <2>1, <2>3, <3>1, DependenciesStay
  <2>7. Len(u) # 3 /\ Len(u) # 2
    BY <1>8, <1>12
  <2>8. CompilesNow(c, u)'
    BY <1>6, <1>7, <2>6, <2>7 DEF CompilesNow, CompileOrder
  <2>9. saved' = saved /\ spoiled' = spoiled /\ upload' = upload
    BY <2>3 DEF Changes
  <2>10. Ready(attempt.todo)'
    BY <1>3, <2>4 DEF Ready
  <2>11. AttemptOK'
    <3>1. CompilesNow(attempt.of, attempt.todo)'
      BY <1>1, <1>3, <2>8
    <3> QED BY <1>3, <3>1 DEF AttemptOK
  <2>12. ApplyTypes'
    BY <1>3, <2>5 DEF PlaceTypes, ApplyTypes
  <2> QED BY <1>2, <1>3, <2>9, <2>10, <2>11, <2>12 DEF ApplyIInv, SavedKept, LeftoversDoNotMatter, UploadsAreWhole
<1>13. CASE n <= 5
  <2>1. x = Finishing(c, n) /\ n \in 1..5
    BY <1>7, <1>8, <1>9, <1>13
  <2>2. /\ n = 1 => x.op = "cleanup"
        /\ n = 2 => x.op = "upload"
        /\ n = 3 => x.op = "packaging" /\ x.path = dir
        /\ n = 4 => x.op = "clear" /\ x.path = dir
        /\ n = 5 => x.op = "source"
        /\ x.op \in {"cleanup", "upload", "packaging", "clear", "source"}
    <3>1. PICK f : f = Finishing(c, n)
      OBVIOUS
    <3>2. /\ n = 1 => f.op = "cleanup"
          /\ n = 2 => f.op = "upload"
          /\ n = 3 => f.op = "packaging" /\ f.path = PackageDir(c.package)
          /\ n = 4 => f.op = "clear" /\ f.path = PackageDir(c.package)
          /\ n = 5 => f.op = "source"
          /\ f.op \in {"cleanup", "upload", "packaging", "clear", "source"}
      BY <2>1, <3>1, FinishingIs
    <3>3. x = f /\ dir = PackageDir(c.package)
      BY <1>9, <2>1, <3>1
    <3> QED BY <3>2, <3>3
  <2>3. PlaceTypes'
    <3>1. x.op \notin {"bind", "write"}
      BY <2>2
    <3> QED BY <1>2, <1>3, <1>5, <1>9, <3>1, DoesTypes
  <2>4. saved' = saved /\ spoiled' = spoiled /\ (n # 2 => upload' = upload)
    <3>1. x.op # "write" /\ (n # 2 => x.op # "upload")
      <4>1. n = 1 \/ n = 2 \/ n = 3 \/ n = 4 \/ n = 5
        BY <2>1
      <4> QED BY <2>2, <4>1
    <3> QED BY <1>3, <1>9, <3>1 DEF Does
  <2>5. Ready(u)'
    <3>1. \A i \in 1..Len(t) : t[i].op = "bind" /\ bits[t[i].path] = "all" => bits'[t[i].path] = "all"
      BY <1>7
    <3>2. t[1].op # "unlink" /\ t[1].op # "fetch"
      BY <1>9, <2>2
    <3> QED BY <1>1, <1>2, <1>3, <3>1, <3>2, ReadyTail
  <2>6. /\ n >= 2 => links' = links
        /\ n \in {2, 5} => bits' = bits
        /\ n = 4 => bits' = Emptied({dir})
        /\ n = 3 => bits' = [bits EXCEPT ![dir] = IF bits[dir] = "none" THEN "all" ELSE "part"]
    <3>1. /\ x.op \in {"upload", "source"} => UNCHANGED <<bits, bound, links>>
          /\ x.op = "clear" => ClearInstallDir(x)
          /\ x.op = "packaging" => Packaging(x)
      BY <1>3, <1>9 DEF Does
    <3>2. CASE n \in {2, 5}
      <4>1. n # 4 /\ n # 3 /\ x.op \in {"upload", "source"}
        BY <2>2, <3>2
      <4> QED BY <3>1, <4>1
    <3>3. CASE n = 4
      BY <2>2, <3>1, <3>3 DEF ClearInstallDir
    <3>4. CASE n = 3
      BY <2>2, <3>1, <3>4 DEF Packaging
    <3>5. n >= 2 => n \in {2, 5} \/ n = 3 \/ n = 4
      BY <2>1
    <3>6. n \in {2, 5} => n >= 2
      OBVIOUS
    <3> QED BY <2>1, <3>2, <3>3, <3>4, <3>5
  <2>7. ASSUME n >= 2
        PROVE  \A p \in ToSet(c.dependencies) : bits'[PackageDir(p)] = bits[PackageDir(p)]
    <3>1. ASSUME NEW p \in ToSet(c.dependencies) PROVE bits'[PackageDir(p)] = bits[PackageDir(p)]
      <4>1. PackageDir(p) \in Dirs /\ PackageDir(p) # dir
        BY <1>6, <1>9, <3>1, CompilePlaces DEF Dirs
      <4>2. n = 2 \/ n = 3 \/ n = 4 \/ n = 5
        BY <2>1, <2>7
      <4>3. CASE n \in {2, 5}
        BY <2>6, <4>3
      <4>4. CASE n = 4
        BY <1>11, <2>6, <4>1, <4>4 DEF Emptied
      <4>5. CASE n = 3
        BY <1>11, <2>6, <4>1, <4>5
      <4> QED BY <4>2, <4>3, <4>4, <4>5
    <3> QED BY <3>1
  <2>8. ASSUME n >= 2 PROVE DependenciesCome(c, u)'
    <3>1. t[1].op \notin {"fetch", "symlink"}
      BY <1>9, <2>2
    <3>2. DependenciesCome(c, t) /\ links' = links
      BY <1>6, <1>8, <2>6, <2>8
    <3>3. \A p \in ToSet(c.dependencies) : bits'[PackageDir(p)] = bits[PackageDir(p)]
      BY <2>7, <2>8
    <3> QED BY <1>1, <1>3, <1>6, <3>1, <3>2, <3>3, DependenciesKept
  <2>9. CompilesNow(c, u)'
    <3>1. ASSUME Len(u) >= 2 PROVE DependenciesCome(c, u)'
      <4>1. n >= 2
        BY <1>8, <3>1
      <4> QED BY <2>8, <4>1
    <3>2. ASSUME Len(u) = 3 PROVE bits'[dir] = "none"
      <4>1. n = 4
        <5>1. Len(u) <= 3 /\ Len(u) >= 3
          BY <3>2
        <5> QED BY <1>8, <5>1
      <4>2. bits' = Emptied({dir})
        BY <2>6, <4>1
      <4> QED BY <1>10, <1>11, <4>2 DEF Emptied
    <3>3. ASSUME Len(u) = 2 PROVE bits'[dir] = "all"
      <4>1. n = 3
        <5>1. Len(u) <= 2 /\ Len(u) >= 2
          BY <3>3
        <5> QED BY <1>8, <5>1
      <4>2. bits[dir] = "none"
        BY <1>6, <1>8, <1>9, <4>1
      <4>3. bits' = [bits EXCEPT ![dir] = "all"]
        BY <2>6, <4>1, <4>2
      <4> QED BY <1>10, <1>11, <4>3
    <3> QED BY <1>6, <1>7, <1>9, <3>1, <3>2, <3>3 DEF CompilesNow, CompileOrder
  <2>10. upload' # "torn"
    <3>1. CASE n # 2
      BY <1>2, <2>4, <3>1
    <3>2. CASE n = 2
      <4>1. DependenciesCome(c, t) /\ bits[dir] = "all"
        BY <1>6, <1>8, <1>9, <3>2
      <4>2. \A y \in ToSet(t) : y.op \in {"upload", "cleanup"}
        <5>1. Len(u) = 1 /\ DOMAIN u = 1..1
          BY <1>5, <1>8, <3>2
        <5>2. u[1] = Finishing(c, 1)
          <6>1. 1 \in 1..Len(u) /\ Len(u) - 1 < 5 /\ Len(u) - 1 + 1 = 1
            BY <5>1
          <6> QED BY <1>7, <6>1 DEF CompileOrder
        <5>3. u[1].op = "cleanup"
          BY <5>2, FinishingIs
        <5>4. \A y \in ToSet(u) : y = u[1]
          BY <5>1 DEF ToSet
        <5> QED BY <1>5, <1>9, <2>2, <3>2, <5>3, <5>4
      <4>3. ASSUME NEW p \in ToSet(c.dependencies)
            PROVE  links[PackageLink(p)] = PackageDir(p) /\ bits[PackageDir(p)] = "all"
        <5>1. Whole(t, PackageDir(p)) /\ Leading(t, PackageLink(p), PackageDir(p))
          BY <4>1, <4>3 DEF DependenciesCome
        <5>2. Step("fetch", PackageDir(p), None) \notin ToSet(t)
          BY <4>2 DEF Step
        <5>3. Step("symlink", PackageLink(p), PackageDir(p)) \notin ToSet(t)
          BY <4>2 DEF Step
        <5> QED BY <5>1, <5>2, <5>3 DEF Whole, Leading
      <4>4. BuiltOfWhole(attempt.of)
        BY <1>1, <1>9, <4>1, <4>3 DEF BuiltOfWhole
      <4>5. upload' = "whole"
        BY <1>3, <1>9, <2>2, <3>2, <4>4 DEF Does
      <4> QED BY <4>5
    <3> QED BY <3>1, <3>2
  <2>11. Ready(attempt.todo)'
    BY <1>3, <2>5 DEF Ready
  <2>12. AttemptOK'
    <3>1. CompilesNow(attempt.of, attempt.todo)'
      BY <1>1, <1>3, <2>9
    <3> QED BY <1>3, <3>1 DEF AttemptOK
  <2>13. ApplyTypes'
    BY <1>3, <2>3 DEF PlaceTypes, ApplyTypes
  <2> QED BY <1>2, <1>3, <2>4, <2>10, <2>11, <2>12, <2>13 DEF ApplyIInv, SavedKept, LeftoversDoNotMatter, UploadsAreWhole
<1> QED BY <1>8, <1>12, <1>13

-----------------------------------------------------------------------------
(* A request that ends early, and one that begins.                         *)

\* Whatever is left half done has its types.
HalfDone == bits' \in [Dirs -> Bits] /\ bound' \in [JobDirs -> Bounds] /\ links' \in [Links -> Dirs \cup {None}]
\* The rest of the request under way, and why it ends.
EndsWith(remaining, why) == attempt' = [attempt EXCEPT !.todo = remaining, !.end = why]
\* Nothing is left to do, or the last step of a compilation.
LeftToDo(t, remaining) == remaining = <<>> \/ (attempt.kind = "compile" /\ remaining = <<Last(t)>>)
\* What was saved is in doubt.
InDoubt == saved' = saved /\ spoiled' = TRUE /\ upload' = upload

(* A step leaves no more than that half done.                              *)
LEMMA HalfDoneTypes ==
  ASSUME ApplyTypes, NEW x, LeftHalfDone(x)
  PROVE  HalfDone
<1>1. /\ bits \in [Dirs -> Bits] /\ bound \in [JobDirs -> Bounds]
      /\ links \in [Links -> Dirs \cup {None}]
  BY DEF ApplyTypes
<1>2. CASE UNCHANGED <<bits, bound, links>>
  BY <1>1, <1>2 DEF HalfDone
<1>3. CASE bits' = [bits EXCEPT ![x.path] = "part"] /\ UNCHANGED <<bound, links>>
  BY <1>1, <1>3 DEF Bits, HalfDone
<1>4. CASE bound' = [bound EXCEPT ![x.path] = "part"] /\ UNCHANGED <<bits, links>>
  BY <1>1, <1>4 DEF Bounds, HalfDone
<1>5. CASE /\ bits' = [d \in DOMAIN bits |-> IF d \in PackageDirs /\ bits[d] # "none" THEN "part" ELSE bits[d]]
           /\ UNCHANGED <<bound, links>>
  BY <1>1, <1>5 DEF Bits, HalfDone
<1> QED BY <1>2, <1>3, <1>4, <1>5 DEF LeftHalfDone

(* A request cut short leaves what was saved in doubt, and of what it was  *)
(* to do at most the last step of a compilation.                           *)
LEMMA CutShort ==
  ASSUME ApplyIInv, NEW t, t = attempt.todo, t # <<>>,
         HalfDone, InDoubt, NEW remaining, NEW why, EndsWith(remaining, why),
         LeftToDo(t, remaining),
         why \in {"fault", "ended", "null"}
  PROVE  ApplyIInv'
<1>1. attempt \in Attempts /\ saved \in Specs \cup {NoSpec} /\ upload # "torn"
  BY DEF ApplyIInv, ApplyTypes, UploadsAreWhole
<1>2. t \in Seq(Steps)
  BY <1>1 DEF Attempts
<1>3. /\ attempt'.todo = remaining /\ attempt'.end = why /\ attempt'.kind = attempt.kind /\ attempt'.of = attempt.of
      /\ attempt' = [kind |-> attempt.kind, of |-> attempt.of, todo |-> remaining, end |-> why]
  BY <1>1 DEF Attempts, EndsWith
<1>4. CASE remaining = <<>>
  <2>1. attempt' \in Attempts
    BY <1>1, <1>3, <1>4 DEF Attempts
  <2>2. ApplyTypes'
    BY <1>1, <2>1 DEF ApplyTypes, HalfDone, InDoubt
  <2>3. Ready(attempt.todo)' /\ AttemptOK'
    <3>1. Len(remaining) = 0 /\ 1..0 = {}
      BY <1>4
    <3> QED BY <1>3, <1>4, <3>1 DEF Ready, AttemptOK
  <2> QED BY <1>1, <1>3, <2>2, <2>3 DEF ApplyIInv, SavedKept, LeftoversDoNotMatter, UploadsAreWhole, InDoubt
<1>5. CASE attempt.kind = "compile" /\ remaining = <<Last(t)>>
  <2>1. PICK c, last : c = attempt.of /\ last = Last(t)
    OBVIOUS
  <2>2. CompilesNow(c, t)
    BY <1>5, <2>1 DEF ApplyIInv, AttemptOK
  <2>3. PICK n \in Nat : n = Len(t) /\ n >= 1 /\ n \in 1..n /\ t[n] \in Steps
    <3>1. Len(t) \in Nat /\ Len(t) # 0
      BY <1>2
    <3>2. Len(t) \in 1..Len(t)
      BY <3>1
    <3> QED BY <1>2, <3>1, <3>2
  <2>4. last = t[n]
    BY <2>1, <2>3 DEF Last
  <2>5. last = Finishing(c, 1)
    <3>1. Len(t) - n = 0 /\ 0 < 5 /\ 0 + 1 = 1
      BY <2>3
    <3>2. IF Len(t) - n < 5 THEN t[n] = Finishing(c, Len(t) - n + 1) ELSE t[n] \in Kind(LinkOps, CompileLeads(c))
      BY <2>2, <2>3 DEF CompilesNow
    <3> QED BY <2>4, <3>1, <3>2
  <2>6. last.op = "cleanup"
    <3>1. 1 \in 1..5
      OBVIOUS
    <3> QED BY <2>5, <3>1, FinishingIs
  <2>7. remaining \in Seq(Steps) /\ Len(remaining) = 1 /\ remaining[1] = last
    BY <1>5, <2>1, <2>3, <2>4
  <2>8. attempt' \in Attempts
    BY <1>1, <1>3, <2>7 DEF Attempts
  <2>9. ApplyTypes'
    BY <1>1, <2>8 DEF ApplyTypes, HalfDone, InDoubt
  <2>10. Ready(attempt.todo)'
    <3>1. \A i \in 1..1 : remaining[i].op = "cleanup"
      BY <2>6, <2>7
    <3> QED BY <1>3, <2>7, <3>1 DEF Ready
  <2>11. CompilesNow(c, remaining)'
    <3>1. ASSUME NEW i \in 1..Len(remaining) PROVE Len(remaining) - i < 5 /\ remaining[i] = Finishing(c, Len(remaining) - i + 1)
      <4>1. i = 1 /\ Len(remaining) - i + 1 = 1 /\ Len(remaining) - i < 5
        BY <2>7, <3>1
      <4> QED BY <2>5, <2>7, <4>1
    <3>2. c \in Compiles
      BY <2>2 DEF CompilesNow
    <3>3. ~(Len(remaining) >= 2) /\ Len(remaining) # 3 /\ Len(remaining) # 2
      BY <2>7
    <3> QED BY <3>1, <3>2, <3>3 DEF CompilesNow
  <2>12. AttemptOK'
    <3>1. CompilesNow(attempt.of, attempt.todo)'
      BY <1>3, <2>1, <2>11
    <3> QED BY <1>3, <1>5, <3>1 DEF AttemptOK
  <2> QED BY <1>1, <1>3, <2>9, <2>10, <2>12 DEF ApplyIInv, SavedKept, LeftoversDoNotMatter, UploadsAreWhole, InDoubt
<1> QED BY <1>4, <1>5 DEF LeftToDo

(* An exception does that.                                                 *)
LEMMA Thrown ==
  ASSUME ApplyIInv, ~BetweenRequests, NEW why, Throws(why), why \in {"fault", "null"},
         HalfDone, InDoubt
  PROVE  ApplyIInv'
<1>1. PICK t : t = attempt.todo
  OBVIOUS
<1>2. t # <<>>
  BY <1>1 DEF BetweenRequests
<1>3. PICK remaining : remaining = IF attempt.kind = "compile" /\ Len(attempt.todo) > 1 THEN <<Last(t)>> ELSE <<>>
  OBVIOUS
<1>4. EndsWith(remaining, why)
  <2>1. CASE attempt.kind = "compile" /\ Len(attempt.todo) > 1
    BY <1>1, <1>3, <2>1 DEF Throws, EndsWith
  <2>2. CASE ~(attempt.kind = "compile" /\ Len(attempt.todo) > 1)
    BY <1>1, <1>3, <2>2 DEF Throws, EndsWith
  <2> QED BY <2>1, <2>2
<1>5. LeftToDo(t, remaining)
  BY <1>3 DEF LeftToDo
<1>6. why \in {"fault", "ended", "null"}
  OBVIOUS
<1> QED BY <1>1, <1>2, <1>4, <1>5, <1>6, CutShort

(* The first step of what is left can be done, unless it throws.           *)
LEMMA CanBe ==
  ASSUME NEW t \in Seq(Steps), t # <<>>, Ready(t), t[1].op # "throw"
  PROVE  CanBeDone(t[1])
<1>1. 1 \in 1..Len(t)
  <2>1. Len(t) \in Nat /\ Len(t) # 0
    OBVIOUS
  <2> QED BY <2>1
<1>2. ASSUME t[1].op = "symlink" PROVE links[t[1].path] = None
  <2>1. ~Made(t, 1)
    BY DEF Made
  <2> QED BY <1>1, <1>2, <2>1 DEF Ready
<1>3. ASSUME t[1].op = "bind" PROVE bits[t[1].path] = "all"
  <2>1. ~Fetched(t, 1)
    <3>1. 1..(1 - 1) = {}
      OBVIOUS
    <3> QED BY <3>1 DEF Fetched
  <2> QED BY <1>1, <1>3, <2>1 DEF Ready
<1> QED BY <1>2, <1>3 DEF CanBeDone

(* A request begins.                                                       *)
LEMMA BeginIs ==
  ASSUME ApplyIInv, NEW kind \in {"apply", "prepare", "compile"}, NEW of \in Specs \cup Compiles, NEW t \in Seq(Steps),
         t # <<>>, Sequenced(t), Begins(kind, of, t),
         kind = "apply" => Applies(of, t), kind = "prepare" => Prepares(t), kind = "compile" => CompilesNow(of, t),
         UNCHANGED <<bits, bound, links, saved, upload>>, BetweenRequests,
         IF kind = "compile" THEN spoiled' = TRUE ELSE spoiled' = spoiled
  PROVE  ApplyIInv'
<1>1. attempt' = [kind |-> kind, of |-> of, todo |-> t, end |-> None]
  BY DEF Begins
<1>2. attempt'.kind = kind /\ attempt'.of = of /\ attempt'.todo = t /\ attempt'.end = None
  BY <1>1
<1>3. ApplyTypes /\ SavedKept /\ upload # "torn"
  BY DEF ApplyIInv, UploadsAreWhole
<1>4. ApplyTypes'
  <2>1. attempt' \in Attempts
    BY <1>1 DEF Attempts
  <2>2. spoiled' \in BOOLEAN
    BY <1>3 DEF ApplyTypes
  <2> QED BY <1>3, <2>1, <2>2 DEF ApplyTypes
<1>5. Ready(attempt.todo)'
  <2>1. Ready(t)'
    BY DEF Sequenced, Ready
  <2> QED BY <1>2, <2>1 DEF Ready
<1>6. AttemptOK'
  <2>1. kind = "apply" => Applies(of, t)'
    BY DEF Applies, Comes, Whole, Leading, Bound
  <2>2. kind = "compile" => CompilesNow(of, t)'
    BY DEF CompilesNow, DependenciesCome, Whole, Leading
  <2>3. kind = "apply" => Applies(attempt.of, attempt.todo)'
    BY <1>2, <2>1
  <2>4. kind = "compile" => CompilesNow(attempt.of, attempt.todo)'
    BY <1>2, <2>2
  <2> QED BY <1>2, <2>3, <2>4 DEF AttemptOK
<1>7. SavedKept'
  <2>1. CASE kind = "compile"
    BY <2>1 DEF SavedKept
  <2>2. CASE kind # "compile"
    <3>1. saved' = saved /\ spoiled' = spoiled
      BY <2>2
    <3>2. ASSUME ~spoiled, saved.configured PROVE Installed(saved)
      BY <1>3, <3>2 DEF SavedKept
    <3>3. ASSUME NEW s, Installed(s) PROVE Installed(s)'
      BY <3>3 DEF Installed
    <3>4. PICK s : s = saved
      OBVIOUS
    <3>5. ASSUME ~spoiled, s.configured PROVE Installed(s)'
      BY <3>2, <3>3, <3>4, <3>5
    <3>6. ~spoiled' /\ saved'.configured => Installed(saved)'
      BY <3>1, <3>4, <3>5
    <3> QED BY <3>6 DEF SavedKept
  <2> QED BY <2>1, <2>2
<1>8. LeftoversDoNotMatter'
  BY <1>2 DEF LeftoversDoNotMatter, None
<1>9. UploadsAreWhole' /\ (attempt.kind = "compile" => spoiled)'
  BY <1>2, <1>3 DEF UploadsAreWhole
<1> QED BY <1>4, <1>5, <1>6, <1>7, <1>8, <1>9 DEF ApplyIInv

(* A request refused leaves all as it was.                                 *)
LEMMA RefusedIs ==
  ASSUME ApplyIInv, BetweenRequests, NEW s \in Specs,
         attempt' = [kind |-> "apply", of |-> s, todo |-> <<>>, end |-> "refused"],
         UNCHANGED <<bits, bound, links, saved, spoiled, upload>>
  PROVE  ApplyIInv'
<1>1. attempt'.kind = "apply" /\ attempt'.todo = <<>> /\ attempt'.end = "refused"
  OBVIOUS
<1>2. ApplyTypes /\ SavedKept /\ upload # "torn"
  BY DEF ApplyIInv, UploadsAreWhole
<1>3. ApplyTypes'
  <2>1. attempt' \in Attempts
    BY DEF Attempts
  <2> QED BY <1>2, <2>1 DEF ApplyTypes
<1>4. Ready(attempt.todo)' /\ AttemptOK'
  <2>1. Len(<<>>) = 0 /\ 1..0 = {}
    OBVIOUS
  <2> QED BY <1>1, <2>1 DEF Ready, AttemptOK
<1>5. SavedKept'
  <2>1. ASSUME ~spoiled, saved.configured PROVE Installed(saved)
    BY <1>2, <2>1 DEF SavedKept
  <2>2. PICK k : k = saved
    OBVIOUS
  <2>3. ASSUME ~spoiled, k.configured PROVE Installed(k)'
    BY <2>1, <2>2, <2>3 DEF Installed
  <2>4. ~spoiled' /\ saved'.configured => Installed(saved)'
    BY <2>2, <2>3
  <2> QED BY <2>4 DEF SavedKept
<1> QED BY <1>1, <1>2, <1>3, <1>4, <1>5 DEF ApplyIInv, LeftoversDoNotMatter, UploadsAreWhole

(* Nothing is installed or under way at first.                             *)
LEMMA ApplyStarts == ASSUME ApplyInit PROVE ApplyIInv
<1>1. ApplyTypes
  <2>1. bits \in [Dirs -> Bits] /\ bound \in [JobDirs -> Bounds] /\ links \in [Links -> Dirs \cup {None}]
    BY DEF ApplyInit, Dirs, Bits, Bounds
  <2>2. saved = NoSpec /\ spoiled = FALSE
    BY DEF ApplyInit
  <2>3. attempt \in Attempts
    <3>1. attempt = [kind |-> None, of |-> NoSpec, todo |-> <<>>, end |-> None]
      BY DEF ApplyInit, InitialAttempt
    <3>2. NoSpec \in Specs \cup Compiles \cup {NoSpec} /\ <<>> \in Seq(Steps)
      OBVIOUS
    <3> QED BY <3>1, <3>2 DEF Attempts
  <2> QED BY <2>1, <2>2, <2>3 DEF ApplyTypes
<1>2. attempt.todo = <<>> /\ attempt.end = None /\ attempt.kind = None
  BY DEF ApplyInit, InitialAttempt
<1>3. Ready(attempt.todo) /\ AttemptOK
  <2>1. Len(<<>>) = 0 /\ 1..0 = {}
    OBVIOUS
  <2> QED BY <1>2, <2>1 DEF Ready, AttemptOK
<1>4. SavedKept
  <2>1. NoSpec.configured = FALSE
    BY DEF NoSpec
  <2>2. saved = NoSpec
    BY DEF ApplyInit
  <2> QED BY <2>1, <2>2 DEF SavedKept
<1>5. LeftoversDoNotMatter /\ UploadsAreWhole /\ (attempt.kind = "compile" => spoiled)
  <2>1. upload = None
    BY DEF ApplyInit
  <2> QED BY <1>2, <2>1 DEF LeftoversDoNotMatter, UploadsAreWhole, None
<1> QED BY <1>1, <1>3, <1>4, <1>5 DEF ApplyIInv

(* The invariant does not depend on the count of faults.                   *)
LEMMA ApplyStutters == ASSUME ApplyIInv, UNCHANGED applyVars PROVE ApplyIInv'
<1>1. /\ bits' = bits /\ bound' = bound /\ links' = links /\ saved' = saved /\ attempt' = attempt
      /\ spoiled' = spoiled /\ upload' = upload
  BY DEF applyVars
<1>2. ApplyTypes' /\ Ready(attempt.todo)'
  BY <1>1 DEF ApplyIInv, ApplyTypes, Ready
<1>3. AttemptOK'
  BY <1>1 DEF ApplyIInv, AttemptOK, Applies, Comes, CompilesNow, DependenciesCome, Whole, Leading, Bound
<1>4. SavedKept'
  BY <1>1 DEF ApplyIInv, SavedKept, Installed, BetweenRequests
<1> QED BY <1>1, <1>2, <1>3, <1>4 DEF ApplyIInv, LeftoversDoNotMatter, UploadsAreWhole

(* Each step of apply, prepare and compile_package keeps the invariant.    *)
LEMMA ApplyKept == ASSUME ApplyIInv, [ApplyNext]_applyVars PROVE ApplyIInv'
<1>1. ASSUME NEW s \in Specs, Apply(s) PROVE ApplyIInv'
  <2>1. BetweenRequests /\ UNCHANGED <<bits, bound, links, saved, spoiled, upload>>
    BY <1>1 DEF Apply
  <2>2. CASE Begins("apply", s, ApplySteps(s))
    <3>1. PICK t : t = ApplySteps(s)
      OBVIOUS
    <3>2. t \in Seq(Steps) /\ t # <<>> /\ Sequenced(t) /\ Applies(s, t)
      BY <3>1, ApplyBegins
    <3>3. PICK kind : kind = "apply"
      OBVIOUS
    <3>4. /\ kind \in {"apply", "prepare", "compile"} /\ s \in Specs \cup Compiles
          /\ kind = "apply" => Applies(s, t)
          /\ kind = "prepare" => Prepares(t)
          /\ kind = "compile" => CompilesNow(s, t)
          /\ IF kind = "compile" THEN spoiled' = TRUE ELSE spoiled' = spoiled
      BY <2>1, <3>2, <3>3
    <3>5. Begins(kind, s, t) /\ UNCHANGED <<bits, bound, links, saved, upload>>
      BY <2>1, <2>2, <3>1, <3>3
    <3> QED BY <2>1, <3>2, <3>4, <3>5, BeginIs
  <2>3. CASE attempt' = [kind |-> "apply", of |-> s, todo |-> <<>>, end |-> "refused"]
    BY <2>1, <2>3, RefusedIs
  <2> QED BY <1>1, <2>2, <2>3 DEF Apply
<1>2. ASSUME NEW s \in Specs, Prepare(s) PROVE ApplyIInv'
  <2>1. BetweenRequests /\ UNCHANGED <<bits, bound, links, saved, spoiled, upload>> /\ Begins("prepare", s, PrepareSteps(s))
    BY <1>2 DEF Prepare
  <2>2. PICK t : t = PrepareSteps(s)
    OBVIOUS
  <2>3. t \in Seq(Steps) /\ t # <<>> /\ Sequenced(t) /\ Prepares(t)
    BY <2>2, PrepareBegins
  <2>4. PICK kind : kind = "prepare"
    OBVIOUS
  <2>5. /\ kind \in {"apply", "prepare", "compile"} /\ s \in Specs \cup Compiles
        /\ kind = "apply" => Applies(s, t)
        /\ kind = "prepare" => Prepares(t)
        /\ kind = "compile" => CompilesNow(s, t)
        /\ IF kind = "compile" THEN spoiled' = TRUE ELSE spoiled' = spoiled
    BY <2>1, <2>3, <2>4
  <2>6. Begins(kind, s, t) /\ UNCHANGED <<bits, bound, links, saved, upload>>
    BY <2>1, <2>2, <2>4
  <2> QED BY <2>1, <2>3, <2>5, <2>6, BeginIs
<1>3. ASSUME NEW c \in Compiles, CompilePackage(c) PROVE ApplyIInv'
  <2>1. /\ BetweenRequests /\ UNCHANGED <<bits, bound, links, saved, upload>> /\ spoiled' = TRUE
        /\ Begins("compile", c, CompileSteps(c))
    BY <1>3 DEF CompilePackage
  <2>2. PICK t : t = CompileSteps(c)
    OBVIOUS
  <2>3. t \in Seq(Steps) /\ t # <<>> /\ Sequenced(t) /\ CompilesNow(c, t)
    BY <2>2, CompileBegins
  <2>4. PICK kind : kind = "compile"
    OBVIOUS
  <2>5. /\ kind \in {"apply", "prepare", "compile"} /\ c \in Specs \cup Compiles
        /\ kind = "apply" => Applies(c, t)
        /\ kind = "prepare" => Prepares(t)
        /\ kind = "compile" => CompilesNow(c, t)
        /\ IF kind = "compile" THEN spoiled' = TRUE ELSE spoiled' = spoiled
    BY <2>1, <2>3, <2>4
  <2>6. Begins(kind, c, t) /\ UNCHANGED <<bits, bound, links, saved, upload>>
    BY <2>1, <2>2, <2>4
  <2> QED BY <2>1, <2>3, <2>5, <2>6, BeginIs
<1>4. ASSUME StepPasses PROVE ApplyIInv'
  <2>1. attempt.todo # <<>>
    BY <1>4 DEF StepPasses, BetweenRequests
  <2>2. attempt.kind = "apply" \/ attempt.kind = "prepare" \/ attempt.kind = "compile"
    BY <2>1 DEF ApplyIInv, AttemptOK
  <2> QED BY <1>4, <2>2, ApplyPasses, PreparePasses, CompilePasses
<1>5. ASSUME NEW x, LeftHalfDone(x) PROVE HalfDone
  <2>1. ApplyTypes
    BY DEF ApplyIInv
  <2> QED BY <1>5, <2>1, HalfDoneTypes
<1>6. ASSUME StepFails PROVE ApplyIInv'
  <2>1. ~BetweenRequests /\ Throws("fault") /\ InDoubt /\ LeftHalfDone(Head(attempt.todo))
    BY <1>6 DEF StepFails, InDoubt
  <2>2. HalfDone
    BY <1>5, <2>1
  <2>3. PICK why : why = "fault"
    OBVIOUS
  <2>4. why \in {"fault", "null"} /\ Throws(why)
    BY <2>1, <2>3
  <2> QED BY <2>1, <2>2, <2>4, Thrown
<1>7. ASSUME StepCannotPass PROVE ApplyIInv'
  <2>1. /\ ~BetweenRequests /\ InDoubt /\ ~CanBeDone(Head(attempt.todo)) /\ UNCHANGED <<bits, bound, links>>
        /\ Throws(IF Head(attempt.todo).op = "throw" THEN "null" ELSE "stuck")
    BY <1>7 DEF StepCannotPass, InDoubt
  <2>2. PICK t : t = attempt.todo
    OBVIOUS
  <2>3. t \in Seq(Steps) /\ t # <<>> /\ Ready(t)
    BY <2>1, <2>2 DEF ApplyIInv, ApplyTypes, Attempts, BetweenRequests
  <2>4. Head(t) = t[1]
    BY <2>3
  <2>5. Head(t).op = "throw"
    BY <2>1, <2>2, <2>3, <2>4, CanBe
  <2>6. PICK why : why = "null"
    OBVIOUS
  <2>7. why \in {"fault", "null"} /\ Throws(why)
    BY <2>1, <2>2, <2>5, <2>6
  <2>8. HalfDone
    BY <2>1 DEF HalfDone, ApplyIInv, ApplyTypes
  <2> QED BY <2>1, <2>7, <2>8, Thrown
<1>8. ASSUME EndOfProcess PROVE ApplyIInv'
  <2>1. ~BetweenRequests /\ InDoubt /\ LeftHalfDone(Head(attempt.todo)) /\ EndsWith(<<>>, "ended")
    BY <1>8 DEF EndOfProcess, InDoubt, EndsWith
  <2>2. HalfDone
    BY <1>5, <2>1
  <2>3. PICK t, remaining, why : t = attempt.todo /\ remaining = <<>> /\ why = "ended"
    OBVIOUS
  <2>4. t # <<>>
    BY <2>1, <2>3 DEF BetweenRequests
  <2>5. EndsWith(remaining, why) /\ LeftToDo(t, remaining) /\ why \in {"fault", "ended", "null"}
    BY <2>1, <2>3 DEF LeftToDo
  <2> QED BY <2>1, <2>2, <2>3, <2>4, <2>5, CutShort
<1>9. ASSUME UNCHANGED applyVars PROVE ApplyIInv'
  BY <1>9, ApplyStutters
<1> QED BY <1>1, <1>2, <1>3, <1>4, <1>6, <1>7, <1>8, <1>9 DEF ApplyNext

(* What is under way still makes all that its request asks for and what is *)
(* not there yet, each step finds what it needs, and what was saved stays  *)
(* installed until something is cut short (Apply.ApplyPlan, Prepare,       *)
(* CompilePackage, Util.CreateSymLink).                                    *)
THEOREM ApplyInvariant == ApplySpec => []ApplyIInv
<1>1. ApplyInit => ApplyIInv
  BY ApplyStarts
<1>2. ApplyIInv /\ [ApplyNext]_applyVars => ApplyIInv'
  BY ApplyKept
<1> QED BY <1>1, <1>2, PTL DEF ApplySpec

(* What state.yml names is installed unless a request was cut short since, *)
(* no leftover stops a request, and only whole packages are uploaded       *)
(* (Apply.ApplyPlan, Job.BindConfiguration, CompilePackage.Compile).       *)
THEOREM AppliedIsInstalled == ApplySpec => []ApplyInv
<1>1. ApplyIInv => ApplyInv
  <2>1. SUFFICES ASSUME ApplyIInv PROVE ApplyInv
    OBVIOUS
  <2>2. SavedIsInstalled
    BY <2>1 DEF ApplyIInv, SavedKept, SavedIsInstalled
  <2> QED BY <2>1, <2>2 DEF ApplyIInv, ApplyInv
<1> QED BY <1>1, ApplyInvariant, PTL
=============================================================================
