--------------------------- MODULE SshLoginProofs ---------------------------
(***************************************************************************)
(* Proofs about a session from its login to its files.  SshAuth, for any   *)
(* users, keys and texts, and any number of attempts; and Sftp, for every  *)
(* directory tree the server may begin with, any number of open handles    *)
(* and any window: the loop answers its requests in order, no slot is lost *)
(* track of, what was written is on the disk, and a request acts on the    *)
(* file its handle was opened for.                                         *)
(*                                                                         *)
(* The argument for Sftp: the outcome of every request is Sound (it keeps  *)
(* the disk a tree, and every slot that is not closed known to the client, *)
(* to an answer, to a CLOSE on its way, or leaked), and then each step of  *)
(* the client and of the loop keeps SftpIndInv.                            *)
(***************************************************************************)
EXTENDS SshAuth, Sftp, SequenceTheorems, WellFoundedInduction, TLAPS

-----------------------------------------------------------------------------
(* Types.                                                                  *)

\* What a request is made of.
LEMMA RequestFields ==
  ASSUME NEW req \in Requests
  PROVE  /\ req.user \in Users /\ req.method \in {Query, Unknown, Password, Publickey}
         /\ req.signed \in BOOLEAN /\ req.good \in BOOLEAN
         /\ req.method = Password => req.text \in Texts \cup {EmptyPassword} /\ ~req.signed
         /\ req.text = None <=> req.method # Password
         /\ req.method # Password => req.text = None
         /\ req.method = Publickey => req.key \in Keys
         /\ req.method # Publickey => req.key = None /\ ~req.signed
  BY DEF Requests, Query, Unknown, Password, Publickey

\* What checkCredentialsConsistent leaves of a request that is consistent.
LEMMA ConsistentFields ==
  ASSUME NEW a \in AuthType, NEW req \in Requests, NEW initial \in BOOLEAN, req.method # Unknown
  PROVE  /\ Consistent(a, req, initial) \in AuthType
         /\ Consistent(a, req, initial).pass = a.pass
         /\ Consistent(a, req, initial).read = a.read
  BY RequestFields DEF AuthType, Consistent, Query, Unknown, Password, Publickey

\* A verdict of processUserAuth: CALLERCHECK leaves the credentials of this
\* request and says nothing, a no-op leaves the password and says one thing.
VerdictOK(o, a, req) ==
  /\ o.auth \in AuthType /\ o.auth.read = a.read
  /\ o.said \in Seq(AuthAnswers) /\ o.st \notin {"again", "INTERNAL"}
  /\ \A i \in 1..Len(o.said) : o.said[i] # sendResponseSuccess
  /\ o.st = "NOOP" => o.auth.pass = a.pass /\ Len(o.said) = 1
  /\ o.st = "CALLERCHECK" =>
       /\ o.said = <<>>
       /\ o.auth.user = req.user
       /\ o.auth.key = IF req.signed THEN req.key ELSE None
       /\ o.auth.pass = IF req.signed THEN EmptyPassword ELSE req.text
       /\ o.auth.pass # None
       /\ req.signed => req.good

\* Every verdict is one of these.
LEMMA UserAuth ==
  ASSUME NEW a \in AuthType, NEW req \in Requests, NEW initial \in BOOLEAN
  PROVE  VerdictOK(processUserAuth(a, req, initial), a, req)
  <1> DEFINE o == processUserAuth(a, req, initial)
             st == checkCredentialsConsistent(a, req, initial)
             b == [Consistent(a, req, initial) EXCEPT !.key = IF req.method = Password THEN None ELSE @]
             c == [b EXCEPT !.user = req.user]
  <1> SUFFICES VerdictOK(o, a, req)
    OBVIOUS
  <1> USE DEF VerdictOK
  <1>3. /\ <<sendResponseFailure(TRUE)>> \in Seq(AuthAnswers) /\ <<sendResponseFailure(FALSE)>> \in Seq(AuthAnswers)
        /\ sendResponseFailure(TRUE) # sendResponseSuccess /\ sendResponseFailure(FALSE) # sendResponseSuccess
    BY DEF AuthAnswers, sendResponseFailure, sendResponseSuccess
  <1>4. <<PkOk>> \in Seq(AuthAnswers) /\ PkOk # sendResponseSuccess
    BY DEF AuthAnswers, PkOk, sendResponseSuccess
  <1>1. CASE req.method = Unknown
    <2>1. o = [auth |-> a, st |-> "BADDATA", said |-> <<>>]
      BY <1>1 DEF processUserAuth, Verdict
    <2> QED
      BY <2>1
  <1>2. CASE req.method # Unknown
    <2>1. /\ b \in AuthType /\ b.pass = a.pass /\ b.read = a.read
          /\ req.method = Password => b.key = None
      BY <1>2, ConsistentFields, RequestFields DEF AuthType
    <2>8. /\ c \in AuthType /\ c.pass = a.pass /\ c.read = a.read /\ c.user = req.user
          /\ req.method = Password => c.key = None
      <3> HIDE DEF b
      <3> QED
        BY <2>1, RequestFields DEF AuthType
    <2>9. o = IF st # "OK" THEN Verdict(a, st, <<>>)
              ELSE IF ~initial /\ a.user # req.user
              THEN Verdict(b, "WRONGKEY", <<sendResponseFailure(FALSE)>>)
              ELSE CASE req.method = Query -> Verdict(c, "NOOP", <<sendResponseFailure(TRUE)>>)
                     [] req.method = Password -> Verdict([c EXCEPT !.pass = req.text], "CALLERCHECK", <<>>)
                     [] req.method = Publickey /\ req.signed -> doPublickeyAuth(c, req)
                     [] OTHER -> doPublickeyQuery(c)
      BY <1>2 DEF processUserAuth
    <2> HIDE DEF o, b, c
    <2>2. CASE st # "OK"
      <3>1. o = [auth |-> a, st |-> st, said |-> <<>>]
        BY <2>9, <2>2 DEF Verdict
      <3>2. st \in {"INVALID", "BADDATA", "OK"}
        BY DEF checkCredentialsConsistent
      <3> QED
        BY <3>1, <3>2
    <2>3. CASE st = "OK" /\ ~initial /\ a.user # req.user
      <3>1. o = [auth |-> b, st |-> "WRONGKEY", said |-> <<sendResponseFailure(FALSE)>>]
        BY <2>9, <2>3 DEF Verdict
      <3>2. o.said \in Seq(AuthAnswers) /\ Len(o.said) = 1 /\ o.said[1] # sendResponseSuccess
        BY <1>3, <3>1
      <3>3. o.auth = b /\ o.st = "WRONGKEY"
        BY <3>1
      <3> QED
        BY <2>1, <2>8, <3>2, <3>3
    <2>4. CASE st = "OK" /\ ~(~initial /\ a.user # req.user) /\ req.method = Query
      <3>1. o = [auth |-> c, st |-> "NOOP", said |-> <<sendResponseFailure(TRUE)>>]
        BY <2>9, <2>4 DEF Verdict, Query, Password, Publickey
      <3>2. o.said \in Seq(AuthAnswers) /\ Len(o.said) = 1 /\ o.said[1] # sendResponseSuccess
        BY <1>3, <3>1
      <3>3. o.auth = c /\ o.st = "NOOP"
        BY <3>1
      <3> QED
        BY <2>1, <2>8, <3>2, <3>3
    <2>5. CASE st = "OK" /\ ~(~initial /\ a.user # req.user) /\ req.method = Password
      <3>1. o = [auth |-> [c EXCEPT !.pass = req.text], st |-> "CALLERCHECK", said |-> <<>>]
        BY <2>9, <2>5 DEF Verdict, Query, Password, Publickey
      <3>2. req.text \in Texts \cup {EmptyPassword} /\ req.text # None /\ ~req.signed
        BY <2>5, RequestFields
      <3> QED
        BY <2>1, <2>8, <2>5, <3>1, <3>2 DEF AuthType
    <2>6. CASE st = "OK" /\ ~(~initial /\ a.user # req.user) /\ req.method = Publickey /\ req.signed
      <3>1. o = doPublickeyAuth(c, req)
        BY <2>9, <2>6 DEF Query, Password, Publickey
      <3>2. req.key \in Keys
        BY <2>6, RequestFields
      <3>3. CASE req.good
        <4>1. o = [auth |-> [c EXCEPT !.key = req.key, !.pass = EmptyPassword], st |-> "CALLERCHECK", said |-> <<>>]
          BY <3>1, <3>3 DEF doPublickeyAuth, Verdict
        <4>2. [c EXCEPT !.key = req.key, !.pass = EmptyPassword] \in AuthType
          BY <2>8, <3>2 DEF AuthType
        <4>3. EmptyPassword # None
          BY DEF EmptyPassword, None
        <4>4. o.auth.read = a.read /\ o.auth.user = req.user /\ o.auth.key = req.key /\ o.auth.pass = EmptyPassword
          BY <2>8, <4>1 DEF AuthType
        <4> QED
          BY <2>6, <3>3, <4>1, <4>2, <4>3, <4>4
      <3>4. CASE ~req.good
        <4>1. o = [auth |-> c, st |-> "SIGNATURE", said |-> <<>>]
          BY <3>1, <3>4 DEF doPublickeyAuth, Verdict
        <4> QED
          BY <2>1, <2>8, <4>1
      <3> QED
        BY <3>3, <3>4
    <2>7. CASE st = "OK" /\ ~(~initial /\ a.user # req.user) /\ req.method = Publickey /\ ~req.signed
      <3>1. o = doPublickeyQuery(c)
        BY <2>9, <2>7 DEF Query, Password, Publickey
      <3>2. o = [auth |-> c, st |-> "NOOP", said |-> <<PkOk>>]
        BY <3>1 DEF doPublickeyQuery, Verdict
      <3> QED
        BY <1>4, <2>1, <2>8, <3>2
    <2> QED
      BY <1>2, <2>2, <2>3, <2>4, <2>5, <2>6, <2>7, RequestFields
  <1> QED
    BY <1>1, <1>2

\* What processServerAuth makes of a request: a no-op is read over, or its
\* credentials are the caller's to judge, or the session ends.
ReadsOver ==
  /\ ~auth.read /\ ~auth'.read /\ checked' = checked
  /\ main.reads < 2 /\ main' = [main EXCEPT !.reads = @ + 1] /\ UNCHANGED ending
LeftToCaller(req) ==
  /\ auth'.read /\ checked' = req /\ (req.signed => req.good)
  /\ main' = [main EXCEPT !.at = "logon", !.user = req.user,
                !.pass = IF req.signed THEN EmptyPassword ELSE req.text,
                !.key = IF req.signed THEN req.key ELSE None, !.attempts = @ + 1]
  /\ UNCHANGED ending
GivesUp ==
  /\ checked' = checked
  /\ ending' = [ending EXCEPT !.terminate = TRUE]
  /\ \E u \in Users \cup {None} :
       /\ u = main.user \/ checked = NoRequest
       /\ main' = [main EXCEPT !.user = u, !.at = IF ending.terminate THEN "logon" ELSE "parked"]
ReadOutcome(req, said) ==
  /\ toServer' = Tail(toServer) /\ toClient' = toClient \o said
  /\ \A i \in 1..Len(said) : said[i] # sendResponseSuccess
  /\ auth' \in AuthType /\ (~auth'.read => auth'.pass = None /\ checked' = NoRequest)
  /\ \/ ReadsOver /\ Len(said) = 1
     \/ LeftToCaller(req) /\ said = <<>> /\ auth'.pass # None
     \/ GivesUp

\* LoginReads comes to one of these.
LEMMA LoginReadsOutcome ==
  ASSUME TypeOK, AuthWire, NothingBeforeRead, LoginReads
  PROVE  Head(toServer) \in Requests /\ \E said \in Seq(AuthAnswers) : ReadOutcome(Head(toServer), said)
  <1> DEFINE req == Head(toServer)
             o == processUserAuth(auth, req, ~auth.read /\ main.reads = 0)
             st == ServerAuthStep(auth, o.st, main.reads)
             a == [o.auth EXCEPT !.read = @ \/ st \notin {"again", "INTERNAL"}]
  <1>1. req \in Requests
    BY DEF LoginReads, AuthWire
  <1>2. auth \in AuthType
    BY DEF TypeOK
  <1>3. (~auth.read /\ main.reads = 0) \in BOOLEAN
    OBVIOUS
  <1>4. VerdictOK(o, auth, req)
    BY <1>1, <1>2, <1>3, UserAuth
  <1>5. /\ auth' = a /\ toClient' = toClient \o o.said /\ toServer' = Tail(toServer)
        /\ checked' = IF o.st = "CALLERCHECK" THEN req ELSE checked
        /\ CASE st = "again" -> main' = [main EXCEPT !.reads = @ + 1] /\ UNCHANGED ending
             [] st = "CALLERCHECK" /\ a.pass # None ->
                  /\ main' = [main EXCEPT !.at = "logon", !.user = a.user, !.pass = a.pass,
                                          !.key = a.key, !.attempts = @ + 1]
                  /\ UNCHANGED ending
             [] OTHER -> TerminateSession([main EXCEPT !.user = IF st = "CALLERCHECK" THEN a.user ELSE @],
                                          "logon")
    BY DEF LoginReads
  <1>6. /\ st = "again" => o.st = "NOOP" /\ ~auth.read /\ main.reads < 2
        /\ st = "INTERNAL" => auth.read
        /\ o.st = "CALLERCHECK" => st = "CALLERCHECK"
        /\ st = "CALLERCHECK" => o.st = "CALLERCHECK" \/ (o.st = "NOOP" /\ ~auth.read)
    <2>1. o.st \notin {"again", "INTERNAL"}
      BY <1>4 DEF VerdictOK
    <2>2. st = IF o.st # "NOOP" THEN o.st
               ELSE IF auth.read THEN "INTERNAL"
               ELSE IF main.reads < 2 THEN "again" ELSE "CALLERCHECK"
      BY DEF ServerAuthStep
    <2> HIDE DEF o, st
    <2> QED
      BY <2>1, <2>2
  <1>7. /\ a \in AuthType /\ a.read = (auth.read \/ st \notin {"again", "INTERNAL"})
        /\ a.pass = o.auth.pass /\ a.user = o.auth.user /\ a.key = o.auth.key
    <2>1. o.auth \in AuthType /\ o.auth.read = auth.read
      BY <1>4 DEF VerdictOK
    <2> HIDE DEF o, st
    <2> QED
      BY <2>1 DEF AuthType
  <1> HIDE DEF o, st, a
  <1>8. ~a.read => a.pass = None /\ checked' = NoRequest
    BY <1>4, <1>5, <1>6, <1>7 DEF VerdictOK, NothingBeforeRead
  <1>9. CASE st = "again"
    <2>1. ReadsOver
      BY <1>4, <1>5, <1>6, <1>7, <1>9 DEF ReadsOver
    <2> QED
      BY <1>1, <1>4, <1>5, <1>6, <1>7, <1>8, <1>9, <2>1 DEF ReadOutcome, VerdictOK
  <1>10. CASE o.st = "CALLERCHECK"
    <2>1. LeftToCaller(req)
      BY <1>4, <1>5, <1>6, <1>7, <1>10 DEF LeftToCaller, VerdictOK
    <2> QED
      BY <1>1, <1>4, <1>5, <1>6, <1>7, <1>8, <1>10, <2>1 DEF ReadOutcome, VerdictOK
  <1>11. CASE st # "again" /\ o.st # "CALLERCHECK"
    <2>1. st = "CALLERCHECK" => a.pass = None
      BY <1>4, <1>6, <1>7, <1>11 DEF VerdictOK, NothingBeforeRead
    <2>2. GivesUp
      <3>1. PICK u : u = IF st = "CALLERCHECK" THEN a.user ELSE main.user
        OBVIOUS
      <3>2. u \in Users \cup {None} /\ (u = main.user \/ checked = NoRequest)
        BY <1>4, <1>6, <1>7, <1>11, <3>1 DEF AuthType, TypeOK, MainType, NothingBeforeRead
      <3>3. TerminateSession([main EXCEPT !.user = u], "logon") /\ checked' = checked
        BY <1>5, <1>11, <2>1, <3>1
      <3> QED
        BY <3>2, <3>3 DEF GivesUp, TerminateSession
    <2> QED
      BY <1>1, <1>4, <1>5, <1>7, <1>8, <2>2 DEF ReadOutcome, VerdictOK
  <1> QED
    BY <1>9, <1>10, <1>11

\* A field that is set to what it may be keeps the record's type.
LEMMA MainFields ==
  ASSUME NEW m \in MainType
  PROVE  /\ \A x \in {"login", "read", "logon", "accept", "opening", "in", "parked"} : [m EXCEPT !.at = x] \in MainType
         /\ \A n \in Nat : [m EXCEPT !.loop = n] \in MainType /\ [m EXCEPT !.attempts = n] \in MainType
         /\ \A n \in 0..2 : [m EXCEPT !.reads = n] \in MainType
         /\ \A n \in 0..LogonBound : [m EXCEPT !.logons = n] \in MainType
         /\ \A u \in Users \cup {None} : [m EXCEPT !.user = u] \in MainType
         /\ \A p \in Texts \cup {None, EmptyPassword} : [m EXCEPT !.pass = p] \in MainType
         /\ \A k \in Keys \cup {None} : [m EXCEPT !.key = k] \in MainType
  BY DEF MainType

\* The invariant at the start.
LEMMA AuthStarts == Init => AuthIndInv
  <1> SUFFICES ASSUME Init PROVE AuthIndInv
    OBVIOUS
  <1> USE AuthAssumption DEF Init
  <1>1. TypeOK /\ AuthWire
    BY DEF TypeOK, AuthWire, AuthType, MainType, EndingType, ClientType
  <1>2. NoRequest.user = None /\ NoRequest.key = None /\ NoRequest.text = EmptyPassword /\ ~NoRequest.signed
    BY DEF NoRequest, Request
  <1>3. main.user = None /\ main.key = None /\ main.pass = EmptyPassword
    OBVIOUS
  <1>4. CredentialsOfOneRequest
    BY <1>2, <1>3 DEF CredentialsOfOneRequest
  <1>5. OneAnswerEach /\ NothingBeforeRead
    <2>1. checked = NoRequest /\ client.got = 0 /\ client.sent = 0 /\ ~auth.read /\ auth.pass = None /\ Len(toServer) = 0 /\ Len(toClient) = 0
      OBVIOUS
    <2>2. client.got + Len(toClient) = client.sent - Len(toServer) - 0
      BY <2>1
    <2>3. (auth.read /\ main.at \in {"login", "logon", "accept"}) = FALSE
      BY <2>1
    <2> QED
      BY ONLY <2>1, <2>2, <2>3 DEF OneAnswerEach, NothingBeforeRead
  <1>6. JudgedWhenRead /\ TurnsCounted /\ AdmittedLast
    BY DEF JudgedWhenRead, TurnsCounted, AdmittedLast, Admitted
  <1> QED
    BY <1>1, <1>4, <1>5, <1>6 DEF AuthIndInv

\* What LoginBegins says: a refusal, when credentials were read.
LEMMA LoginBeginsOutcome ==
  ASSUME LoginBegins
  PROVE  /\ auth' = [auth EXCEPT !.response = IF auth.read THEN "none" ELSE @]
         /\ toClient' = IF auth.read THEN toClient \o <<sendResponseFailure(TRUE)>> ELSE toClient \o <<>>
  <1> DEFINE o == ServerAuthBegins(auth)
  <1>1. auth' = o.auth /\ toClient' = toClient \o o.said
    BY DEF LoginBegins
  <1>2. /\ o.auth = [auth EXCEPT !.response = IF auth.read THEN "none" ELSE @]
        /\ o.said = IF auth.read THEN <<sendResponseFailure(TRUE)>> ELSE <<>>
    BY DEF ServerAuthBegins, Verdict
  <1> HIDE DEF o
  <1> QED
    BY <1>1, <1>2

\* Who ends the process keeps the types.
LEMMA TerminateTypes ==
  ASSUME main \in MainType, ending \in EndingType, NEW at \in {"logon", "in"}, TerminateSession(main, at)
  PROVE  main' \in MainType /\ ending' \in EndingType
  BY DEF TerminateSession, MainType, EndingType

\* Every step keeps the types; a password is noted only once something was read.
LEMMA AuthTypesKept ==
  TypeOK /\ AuthWire /\ NothingBeforeRead /\ [Next]_vars => TypeOK' /\ AuthWire' /\ NothingBeforeRead'
  <1> SUFFICES ASSUME TypeOK, AuthWire, NothingBeforeRead, [Next]_vars
               PROVE  TypeOK' /\ AuthWire' /\ NothingBeforeRead'
    OBVIOUS
  <1> USE DEF TypeOK, AuthWire, NothingBeforeRead
  <1>1. CASE LoginBegins
    <2>1. auth' \in AuthType /\ auth'.pass = auth.pass /\ auth'.read = auth.read
      BY <1>1, LoginBeginsOutcome DEF AuthType
    <2>2. <<sendResponseFailure(TRUE)>> \in Seq(AuthAnswers) /\ <<>> \in Seq(AuthAnswers)
      BY DEF AuthAnswers
    <2>3. toClient' \in Seq(AuthAnswers)
      <3> DEFINE refusal == <<sendResponseFailure(TRUE)>>
      <3>1. toClient' = IF auth.read THEN toClient \o refusal ELSE toClient \o <<>>
        BY <1>1, LoginBeginsOutcome
      <3>2. refusal \in Seq(AuthAnswers)
        BY <2>2
      <3> HIDE DEF refusal
      <3> QED
        BY <2>2, <3>1, <3>2
    <2>4. main' \in MainType
      <3>1. [main EXCEPT !.at = "read"] \in MainType
        BY MainFields
      <3>3. 0 \in 0..2
        OBVIOUS
      <3>2. [[main EXCEPT !.at = "read"] EXCEPT !.reads = 0] \in MainType
        BY <3>1, <3>3, MainFields
      <3> QED
        BY <1>1, <3>2 DEF LoginBegins
    <2> QED
      BY <1>1, <2>1, <2>3, <2>4 DEF LoginBegins
  <1>2. CASE LoginReads
    <2>1. PICK said \in Seq(AuthAnswers) : ReadOutcome(Head(toServer), said)
      BY <1>2, LoginReadsOutcome
    <2>2. Head(toServer) \in Requests /\ toServer # <<>> /\ client' = client
      BY <1>2 DEF LoginReads
    <2>3. toServer' \in Seq(Requests) /\ toClient' \in Seq(AuthAnswers)
      BY <2>1, <2>2 DEF ReadOutcome
    <2>4. main' \in MainType /\ ending' \in EndingType /\ checked' \in Requests \cup {NoRequest}
      <3>1. CASE ReadsOver
        BY <3>1 DEF ReadsOver, MainType
      <3>2. CASE LeftToCaller(Head(toServer))
        <4> DEFINE req == Head(toServer)
        <4>1. /\ req.user \in Users \cup {None}
              /\ (IF req.signed THEN EmptyPassword ELSE req.text) \in Texts \cup {None, EmptyPassword}
              /\ (IF req.signed THEN req.key ELSE None) \in Keys \cup {None}
          BY <2>2, RequestFields
        <4> DEFINE pass == IF req.signed THEN EmptyPassword ELSE req.text
                   key == IF req.signed THEN req.key ELSE None
                   m1 == [main EXCEPT !.at = "logon"]
                   m2 == [m1 EXCEPT !.user = req.user]
                   m3 == [m2 EXCEPT !.pass = pass]
                   m4 == [m3 EXCEPT !.key = key]
        <4>3. m1 \in MainType
          BY MainFields
        <4>4. m2 \in MainType
          BY <4>1, <4>3, MainFields
        <4>5. m3 \in MainType
          BY <4>1, <4>4, MainFields
        <4>6. m4 \in MainType
          BY <4>1, <4>5, MainFields
        <4>9. main.attempts + 1 \in Nat
          BY DEF MainType
        <4>7. [m4 EXCEPT !.attempts = main.attempts + 1] \in MainType
          BY <4>6, <4>9, MainFields
        <4>8. main' = [m4 EXCEPT !.attempts = main.attempts + 1]
          BY <3>2 DEF LeftToCaller
        <4>2. main' \in MainType
          BY <4>7, <4>8
        <4> QED
          BY <2>2, <3>2, <4>2 DEF LeftToCaller
      <3>3. CASE GivesUp
        <4> DEFINE at == IF ending.terminate THEN "logon" ELSE "parked"
        <4>1. PICK u \in Users \cup {None} : main' = [main EXCEPT !.user = u, !.at = at]
          BY <3>3 DEF GivesUp
        <4> DEFINE m == [main EXCEPT !.user = u]
        <4>2. m \in MainType
          BY <4>1, MainFields
        <4>3. [m EXCEPT !.at = at] \in MainType
          BY <4>2, MainFields
        <4>4. main' = [m EXCEPT !.at = at]
          BY <4>1
        <4>5. ending' \in EndingType
          BY <3>3 DEF GivesUp, EndingType
        <4>6. checked' \in Requests \cup {NoRequest}
          BY <3>3 DEF GivesUp
        <4> QED
          BY <4>3, <4>4, <4>5, <4>6
      <3> QED
        BY <2>1, <3>1, <3>2, <3>3 DEF ReadOutcome
    <2> QED
      BY <2>1, <2>2, <2>3, <2>4 DEF ReadOutcome
  <1>3. CASE LoginFails \/ LoginNotCompleted
    BY <1>3, TerminateTypes DEF LoginFails, LoginNotCompleted
  <1>4. CASE Logon
    <2>1. main' \in MainType
      <3> DEFINE m == [main EXCEPT !.logons = @ + 1]
      <3>1. main.logons + 1 \in 0..LogonBound /\ main.loop + 1 \in Nat
        BY <1>4, AuthAssumption DEF Logon, MainType
      <3>2. m \in MainType /\ m.loop = main.loop
        <4>1. m \in MainType
          BY <3>1, MainFields
        <4>2. m.loop = main.loop
          BY DEF MainType
        <4> QED
          BY <4>1, <4>2
      <3>3. \/ main' = [m EXCEPT !.at = "accept"]
            \/ main' = [m EXCEPT !.at = "login", !.loop = @ + 1]
            \/ main' = [m EXCEPT !.at = "parked", !.loop = @ + 1]
        BY <1>4 DEF Logon
      <3> HIDE DEF m
      <3>4. \A x \in {"accept", "login", "parked"} :
              [m EXCEPT !.at = x] \in MainType /\ [[m EXCEPT !.at = x] EXCEPT !.loop = main.loop + 1] \in MainType
        BY <3>1, <3>2, MainFields
      <3> QED
        BY <3>2, <3>3, <3>4
    <2>2. ending' \in EndingType
      BY <1>4 DEF Logon, EndingType
    <2> QED
      BY <1>4, <2>1, <2>2 DEF Logon
  <1>5. CASE LoginAccepts
    <2>1. auth' \in AuthType /\ auth'.pass = auth.pass /\ auth'.read = auth.read
      BY <1>5 DEF LoginAccepts, AuthType
    <2>2. main' \in MainType
      BY <1>5 DEF LoginAccepts, MainType
    <2>3. toClient' \in Seq(AuthAnswers)
      BY <1>5 DEF LoginAccepts, AuthAnswers
    <2> QED
      BY <1>5, <2>1, <2>2, <2>3 DEF LoginAccepts
  <1>6. CASE LoginCompletes
    BY <1>6 DEF LoginCompletes, MainType, EndingType
  <1>7. CASE PassTimeout \/ MonitorTerminates
    BY <1>7 DEF PassTimeout, MonitorTerminates, EndingType
  <1>8. CASE Exit
    BY <1>8 DEF Exit, MainType, EndingType
  <1>9. CASE ClientAsks
    <2>1. client' \in ClientType
      <3> DEFINE c == [client EXCEPT !.at = "waits"]
      <3>3. RequestBound \in Nat
        BY AuthAssumption
      <3>4. client \in ClientType /\ client.sent \in 0..RequestBound /\ client.sent < RequestBound
        BY <1>9 DEF ClientAsks, ClientType
      <3>5. c \in ClientType /\ c.sent = client.sent
        BY DEF ClientType
      <3>6. client.sent + 1 \in 0..RequestBound
        BY <3>3, <3>4
      <3>1. c \in ClientType /\ c.sent + 1 \in 0..RequestBound
        BY <3>5, <3>6
      <3>2. client' = [c EXCEPT !.sent = @ + 1]
        BY <1>9 DEF ClientAsks
      <3> HIDE DEF c
      <3> QED
        BY <3>1, <3>2 DEF ClientType
    <2> QED
      BY <1>9, <2>1 DEF ClientAsks
  <1>10. CASE ClientReads
    <2>1. client' \in ClientType
      <3> DEFINE c == [client EXCEPT !.got = @ + 1]
      <3>1. c \in ClientType
        BY DEF ClientType
      <3> DEFINE x == CASE Head(toClient) = sendResponseSuccess -> "in"
                        [] Head(toClient) = sendResponseFailure(FALSE) -> "left"
                        [] OTHER -> "ready"
      <3>2. client' = [c EXCEPT !.at = x]
        BY <1>10 DEF ClientReads
      <3>3. x \in {"in", "left", "ready"}
        OBVIOUS
      <3> HIDE DEF c, x
      <3> QED
        BY <3>1, <3>2, <3>3 DEF ClientType
    <2>2. toClient' \in Seq(AuthAnswers)
      BY <1>10 DEF ClientReads
    <2> QED
      BY <1>10, <2>1, <2>2 DEF ClientReads
  <1>11. CASE ClientOpens \/ ClientLeaves
    BY <1>11 DEF ClientOpens, ClientLeaves, ClientType
  <1>12. CASE UNCHANGED vars
    BY <1>12 DEF vars
  <1> HIDE DEF TypeOK, AuthWire, NothingBeforeRead
  <1> QED
    BY <1>1, <1>2, <1>3, <1>4, <1>5, <1>6, <1>7, <1>8, <1>9, <1>10, <1>11, <1>12 DEF Next, Main

\* Credentials come with a request, and stay until the next.
LEMMA CredentialsStay ==
  ASSUME TypeOK, [Next]_vars, ~LoginReads
  PROVE  /\ checked' = checked /\ main'.user = main.user /\ main'.pass = main.pass /\ main'.key = main.key
         /\ ending.terminate => ending'.terminate
  <1> USE DEF TypeOK
  <1>1. CASE LoginBegins
    BY <1>1 DEF LoginBegins, MainType
  <1>2. CASE LoginFails \/ LoginNotCompleted
    BY <1>2 DEF LoginFails, LoginNotCompleted, TerminateSession, MainType, EndingType
  <1>3. CASE Logon
    <2>1. \/ main' = [[main EXCEPT !.logons = @ + 1] EXCEPT !.at = "accept"]
          \/ main' = [[main EXCEPT !.logons = @ + 1] EXCEPT !.at = "login", !.loop = @ + 1]
          \/ main' = [[main EXCEPT !.logons = @ + 1] EXCEPT !.at = "parked", !.loop = @ + 1]
      BY <1>3 DEF Logon
    <2> QED
      BY <1>3, <2>1 DEF Logon, MainType, EndingType
  <1>4. CASE LoginAccepts \/ LoginCompletes \/ Exit
    BY <1>4 DEF LoginAccepts, LoginCompletes, Exit, MainType, EndingType
  <1>5. CASE PassTimeout \/ MonitorTerminates
    BY <1>5 DEF PassTimeout, MonitorTerminates, EndingType
  <1>6. CASE ClientAsks \/ ClientReads \/ ClientOpens \/ ClientLeaves
    BY <1>6 DEF ClientAsks, ClientReads, ClientOpens, ClientLeaves
  <1>7. CASE UNCHANGED vars
    BY <1>7 DEF vars
  <1> HIDE DEF TypeOK
  <1> QED
    BY <1>1, <1>2, <1>3, <1>4, <1>5, <1>6, <1>7 DEF Next, Main

\* The credentials that are judged are those of one request.
LEMMA CredentialsKept == AuthIndInv /\ [Next]_vars => CredentialsOfOneRequest'
  <1> SUFFICES ASSUME AuthIndInv, [Next]_vars PROVE CredentialsOfOneRequest'
    OBVIOUS
  <1>1. TypeOK /\ AuthWire /\ NothingBeforeRead /\ CredentialsOfOneRequest
    BY DEF AuthIndInv
  <1>2. CASE ~LoginReads
    BY <1>1, <1>2, CredentialsStay DEF CredentialsOfOneRequest
  <1>3. CASE LoginReads
    <2>1. PICK said \in Seq(AuthAnswers) : ReadOutcome(Head(toServer), said)
      BY <1>1, <1>3, LoginReadsOutcome
    <2>2. Head(toServer) \in Requests /\ main \in MainType
      BY <1>1, <1>3, LoginReadsOutcome DEF TypeOK
    <2>3. CASE ReadsOver
      <3>1. main'.user = main.user /\ main'.pass = main.pass /\ main'.key = main.key /\ checked' = checked
            /\ ending' = ending
        BY <2>2, <2>3 DEF ReadsOver, MainType
      <3> QED
        BY <1>1, <3>1 DEF CredentialsOfOneRequest
    <2>5. CASE GivesUp
      <3>1. main'.pass = main.pass /\ main'.key = main.key /\ checked' = checked /\ ending'.terminate
        BY <1>1, <2>2, <2>5 DEF GivesUp, MainType, TypeOK, EndingType
      <3>2. main'.user = main.user \/ checked = NoRequest
        BY <2>2, <2>5 DEF GivesUp, MainType
      <3> QED
        BY <1>1, <3>1, <3>2 DEF CredentialsOfOneRequest
    <2>4. CASE LeftToCaller(Head(toServer))
      <3> DEFINE req == Head(toServer)
      <3>1. /\ main'.user = req.user /\ main'.key = IF req.signed THEN req.key ELSE None
            /\ main'.pass = IF req.signed THEN EmptyPassword ELSE req.text
        BY <2>2, <2>4 DEF LeftToCaller, MainType
      <3>2. checked' = req /\ (req.signed => req.good)
        BY <2>4 DEF LeftToCaller
      <3> HIDE DEF req
      <3> QED
        BY <3>1, <3>2 DEF CredentialsOfOneRequest
    <2> QED
      BY <2>1, <2>3, <2>4, <2>5 DEF ReadOutcome
  <1> QED
    BY <1>2, <1>3

\* Credentials are judged when they were read.
LEMMA JudgedKept == AuthIndInv /\ [Next]_vars => JudgedWhenRead'
  <1> SUFFICES ASSUME AuthIndInv, [Next]_vars, main'.at \in {"logon", "accept"}, ~ending'.terminate
               PROVE  auth'.read
    BY DEF JudgedWhenRead
  <1>1. TypeOK /\ AuthWire /\ NothingBeforeRead /\ JudgedWhenRead
    BY DEF AuthIndInv
  <1>2. main \in MainType /\ ending \in EndingType /\ auth \in AuthType
    BY <1>1 DEF TypeOK
  <1>3. CASE LoginBegins
    BY <1>2, <1>3 DEF LoginBegins, MainType
  <1>4. CASE LoginReads
    <2>1. PICK said \in Seq(AuthAnswers) : ReadOutcome(Head(toServer), said)
      BY <1>1, <1>4, LoginReadsOutcome
    <2>2. ~ReadsOver
      BY <1>2, <1>4 DEF ReadsOver, LoginReads, MainType
    <2>3. ~GivesUp
      BY <1>2 DEF GivesUp, EndingType
    <2> QED
      BY <2>1, <2>2, <2>3 DEF ReadOutcome, LeftToCaller
  <1>5. CASE LoginFails \/ LoginNotCompleted
    BY <1>2, <1>5 DEF LoginFails, LoginNotCompleted, TerminateSession, EndingType
  <1>6. CASE Logon
    <2>1. auth' = auth /\ main.at = "logon" /\ ending' = ending
      BY <1>2, <1>6 DEF Logon, EndingType
    <2> QED
      BY <1>1, <2>1 DEF JudgedWhenRead
  <1>7. CASE LoginAccepts \/ LoginCompletes
    BY <1>2, <1>7 DEF LoginAccepts, LoginCompletes, MainType
  <1>8. CASE PassTimeout \/ MonitorTerminates \/ Exit
    <2>1. UNCHANGED auth /\ (UNCHANGED main \/ main'.at = "parked") /\ ending'.terminate = ending.terminate
      BY <1>2, <1>8 DEF PassTimeout, MonitorTerminates, Exit, MainType, EndingType
    <2> QED
      BY <1>1, <2>1 DEF JudgedWhenRead
  <1>9. CASE UNCHANGED <<auth, main, ending>>
    BY <1>1, <1>9 DEF JudgedWhenRead
  <1>10. ClientAsks \/ ClientReads \/ ClientOpens \/ ClientLeaves \/ UNCHANGED vars => UNCHANGED <<auth, main, ending>>
    BY DEF ClientAsks, ClientReads, ClientOpens, ClientLeaves, vars
  <1> QED
    BY <1>3, <1>4, <1>5, <1>6, <1>7, <1>8, <1>9, <1>10 DEF Next, Main

\* What is owed is sent with the next call into the library.
Owed == IF auth.read /\ main.at \in {"login", "logon", "accept"} THEN 1 ELSE 0

\* Sending what is owed.
LEMMA OneMoreTold ==
  ASSUME NEW got \in Nat, NEW told \in Nat, NEW sent \in Nat, NEW unread \in Nat, got + told = sent - unread - 1
  PROVE  got + (told + 1) = sent - unread - 0
  OBVIOUS

\* The answers are as many as the requests that were read, less what is owed.
LEMMA AnswersKept == AuthIndInv /\ [Next]_vars => OneAnswerEach'
  <1> SUFFICES ASSUME AuthIndInv, [Next]_vars, ~ending'.terminate
               PROVE  client'.got + Len(toClient') = client'.sent - Len(toServer') - Owed'
    BY DEF OneAnswerEach, Owed
  <1>1. TypeOK /\ AuthWire /\ NothingBeforeRead /\ OneAnswerEach
    BY DEF AuthIndInv
  <1>2. /\ main \in MainType /\ ending \in EndingType /\ client \in ClientType /\ auth \in AuthType
        /\ toServer \in Seq(Requests) /\ toClient \in Seq(AuthAnswers)
        /\ Len(toServer) \in Nat /\ Len(toClient) \in Nat /\ client.got \in Nat /\ client.sent \in Nat
        /\ Owed \in {0, 1}
    BY <1>1, AuthAssumption DEF TypeOK, AuthWire, ClientType, Owed
  <1>3. ASSUME ~ending.terminate PROVE client.got + Len(toClient) = client.sent - Len(toServer) - Owed
    BY <1>1, <1>3 DEF OneAnswerEach, Owed
  <1>4. CASE LoginBegins
    <2>1. UNCHANGED <<ending, client, toServer>> /\ main.at = "login" /\ main'.at = "read"
      BY <1>2, <1>4 DEF LoginBegins, MainType
    <2>2. Len(toClient') = Len(toClient) + IF auth.read THEN 1 ELSE 0
      <3> DEFINE refusal == <<sendResponseFailure(TRUE)>>
      <3>1. refusal \in Seq(AuthAnswers) /\ Len(refusal) = 1
        BY DEF AuthAnswers
      <3>2. toClient' = IF auth.read THEN toClient \o refusal ELSE toClient \o <<>>
        BY <1>4, LoginBeginsOutcome
      <3> HIDE DEF refusal
      <3>3. CASE auth.read
        <4>1. toClient' = toClient \o refusal
          BY <3>2, <3>3
        <4>2. Len(toClient \o refusal) = Len(toClient) + Len(refusal)
          BY <1>2, <3>1, ConcatProperties
        <4> QED
          BY <3>1, <3>3, <4>1, <4>2
      <3>4. CASE ~auth.read
        <4>1. toClient' = toClient \o <<>>
          BY <3>2, <3>4
        <4>2. Len(toClient \o <<>>) = Len(toClient)
          BY <1>2
        <4> QED
          BY <1>2, <3>4, <4>1, <4>2
      <3> QED
        BY <3>3, <3>4
    <2>3. Owed' = 0 /\ Owed = IF auth.read THEN 1 ELSE 0
      BY <2>1 DEF Owed
    <2>4. client.got + Len(toClient) = client.sent - Len(toServer) - Owed
      BY <1>3, <2>1
    <2>5. CASE auth.read
      <3>1. Owed = 1 /\ Len(toClient') = Len(toClient) + 1 /\ Owed' = 0
        BY <2>2, <2>3, <2>5
      <3>2. client'.got = client.got /\ client'.sent = client.sent /\ Len(toServer') = Len(toServer)
        BY <2>1
      <3>3. client.got + Len(toClient) = client.sent - Len(toServer) - 1
        BY <2>4, <3>1
      <3> QED
        BY <1>2, <3>1, <3>2, <3>3, OneMoreTold
    <2>6. CASE ~auth.read
      <3>1. Owed = 0 /\ Len(toClient') = Len(toClient)
        BY <1>2, <2>2, <2>3, <2>6
      <3> QED
        BY <1>2, <2>1, <2>3, <2>4, <3>1
    <2> QED
      BY <2>5, <2>6
  <1>5. CASE LoginReads
    <2>1. PICK said \in Seq(AuthAnswers) : ReadOutcome(Head(toServer), said)
      BY <1>1, <1>5, LoginReadsOutcome
    <2>2. main.at = "read" /\ Owed = 0 /\ client' = client /\ toServer # <<>>
      BY <1>5 DEF LoginReads, Owed
    <2>3. Len(toServer') = Len(toServer) - 1 /\ Len(toClient') = Len(toClient) + Len(said)
      BY <1>2, <2>1, <2>2 DEF ReadOutcome
    <2>4. CASE ReadsOver /\ Len(said) = 1
      <3>1. Owed' = 0 /\ ending' = ending
        BY <2>4 DEF ReadsOver, Owed
      <3> QED
        <4>1. client.got + Len(toClient) = client.sent - Len(toServer) - 0
          BY <1>3, <2>2, <3>1
        <4> QED
          BY <1>2, <2>2, <2>3, <2>4, <3>1, <4>1
    <2>5. CASE LeftToCaller(Head(toServer)) /\ said = <<>>
      <3>1. Owed' = 1 /\ ending' = ending /\ Len(said) = 0
        <4>1. main'.at = "logon" /\ auth'.read /\ ending' = ending
          BY <1>2, <2>5 DEF LeftToCaller, MainType
        <4> QED
          BY <2>5, <4>1 DEF Owed
      <3> QED
        BY <1>2, <1>3, <2>2, <2>3, <3>1
    <2>6. CASE GivesUp
      BY <1>2, <2>6 DEF GivesUp, EndingType
    <2> QED
      BY <2>1, <2>4, <2>5, <2>6 DEF ReadOutcome
  <1>6. CASE LoginFails \/ LoginNotCompleted
    BY <1>2, <1>6 DEF LoginFails, LoginNotCompleted, TerminateSession, EndingType
  <1>7. CASE Logon
    <2>1. UNCHANGED <<ending, auth, client, toServer, toClient>>
      BY <1>2, <1>7 DEF Logon, EndingType
    <2>2. main'.at \in {"accept", "login"} /\ main.at = "logon"
      <3>1. \/ main' = [[main EXCEPT !.logons = @ + 1] EXCEPT !.at = "accept"]
            \/ main' = [[main EXCEPT !.logons = @ + 1] EXCEPT !.at = "login", !.loop = @ + 1]
        BY <1>2, <1>7 DEF Logon, EndingType
      <3> QED
        BY <1>2, <1>7, <3>1 DEF Logon, MainType
    <2>3. Owed' = Owed
      BY <2>1, <2>2 DEF Owed
    <2> QED
      BY <1>3, <2>1, <2>3
  <1>8. CASE LoginAccepts
    <2>1. UNCHANGED <<ending, client, toServer>> /\ main.at = "accept" /\ main'.at = "opening"
      BY <1>2, <1>8 DEF LoginAccepts, MainType
    <2>2. Len(toClient') = Len(toClient) + 1
      BY <1>2, <1>8 DEF LoginAccepts
    <2>3. Owed' = 0 /\ Owed = IF auth.read THEN 1 ELSE 0
      BY <2>1 DEF Owed
    <2>4. ~ending.terminate => auth.read
      BY <1>8 DEF AuthIndInv, JudgedWhenRead, LoginAccepts
    <2>5. Owed = 1 /\ ~ending.terminate
      BY <2>1, <2>3, <2>4
    <2>6. client.got + Len(toClient) = client.sent - Len(toServer) - 1
      BY <1>3, <2>5
    <2>7. client'.got = client.got /\ client'.sent = client.sent /\ Len(toServer') = Len(toServer) /\ Owed' = 0
      BY <2>1, <2>3
    <2>8. client.got + (Len(toClient) + 1) = client.sent - Len(toServer) - 0
      <3>1. client.got \in Nat /\ client.sent \in Nat /\ Len(toServer) \in Nat /\ Len(toClient) \in Nat
        BY <1>2
      <3> QED
        BY ONLY <2>6, <3>1
    <2> QED
      BY <2>2, <2>7, <2>8
  <1>9. CASE LoginCompletes
    <2>1. UNCHANGED <<client, toServer, toClient>> /\ main.at = "opening" /\ main'.at = "in"
      BY <1>2, <1>9 DEF LoginCompletes, MainType
    <2>2. ending'.terminate = ending.terminate
      BY <1>2, <1>9 DEF LoginCompletes, EndingType
    <2>3. Owed' = Owed
      BY <2>1 DEF Owed
    <2> QED
      BY <1>3, <2>1, <2>2, <2>3
  <1>10. CASE PassTimeout \/ MonitorTerminates \/ Exit
    <2>1. UNCHANGED <<main, auth, client, toServer, toClient>> /\ ending'.terminate = ending.terminate
      BY <1>2, <1>10 DEF PassTimeout, MonitorTerminates, Exit, EndingType
    <2> QED
      BY <1>3, <2>1 DEF Owed
  <1>11. CASE ClientAsks
    <2>1. UNCHANGED <<auth, main, ending, toClient>> /\ client'.got = client.got /\ client'.sent = client.sent + 1
      BY <1>2, <1>11 DEF ClientAsks, ClientType
    <2>2. Len(toServer') = Len(toServer) + 1
      BY <1>2, <1>11 DEF ClientAsks
    <2> QED
      BY <1>2, <1>3, <2>1, <2>2 DEF Owed
  <1>12. CASE ClientReads
    <2>1. UNCHANGED <<auth, main, ending, toServer>> /\ client'.got = client.got + 1 /\ client'.sent = client.sent
      BY <1>2, <1>12 DEF ClientReads, ClientType
    <2>2. Len(toClient') = Len(toClient) - 1
      BY <1>2, <1>12 DEF ClientReads
    <2> QED
      BY <1>2, <1>3, <2>1, <2>2 DEF Owed
  <1>13. CASE ClientOpens \/ ClientLeaves
    <2>1. UNCHANGED <<auth, main, ending, toServer, toClient>> /\ client'.got = client.got /\ client'.sent = client.sent
      BY <1>2, <1>13 DEF ClientOpens, ClientLeaves, ClientType
    <2> QED
      BY <1>3, <2>1 DEF Owed
  <1>14. CASE UNCHANGED vars
    BY <1>3, <1>14 DEF vars, Owed
  <1> QED
    BY <1>4, <1>5, <1>6, <1>7, <1>8, <1>9, <1>10, <1>11, <1>12, <1>13, <1>14 DEF Next, Main

\* Windows is asked once a turn, and the turns are counted.
LEMMA TurnsKept == AuthIndInv /\ [Next]_vars => TurnsCounted'
  <1> SUFFICES ASSUME AuthIndInv, [Next]_vars, ~ending'.terminate
               PROVE  /\ main'.at # "parked"
                      /\ main'.at \in {"login", "read", "logon"} => main'.logons = main'.loop /\ main'.loop < MaxAttempts
                      /\ main'.logons <= MaxAttempts
    BY DEF TurnsCounted
  <1>1. TypeOK /\ AuthWire /\ NothingBeforeRead /\ TurnsCounted
    BY DEF AuthIndInv
  <1>2. main \in MainType /\ ending \in EndingType
    BY <1>1 DEF TypeOK
  <1>3. MaxAttempts \in Nat /\ main.loop \in Nat /\ main.logons \in Nat
    BY <1>2, AuthAssumption DEF MainType
  <1>4. ASSUME ~ending.terminate, main'.at # "parked", main'.logons = main.logons, main'.loop = main.loop,
               main'.at \in {"login", "read", "logon"} => main.at \in {"login", "read", "logon"}
        PROVE  /\ main'.at # "parked"
               /\ main'.at \in {"login", "read", "logon"} => main'.logons = main'.loop /\ main'.loop < MaxAttempts
               /\ main'.logons <= MaxAttempts
    BY <1>1, <1>4 DEF TurnsCounted
  <1>5. CASE LoginBegins
    <2>1. main'.at = "read" /\ main'.logons = main.logons /\ main'.loop = main.loop /\ main.at = "login"
      BY <1>2, <1>5 DEF LoginBegins, MainType
    <2> QED
      BY <1>4, <1>5, <2>1 DEF LoginBegins
  <1>6. CASE LoginReads
    <2>1. PICK said \in Seq(AuthAnswers) : ReadOutcome(Head(toServer), said)
      BY <1>1, <1>6, LoginReadsOutcome
    <2>2. main.at = "read"
      BY <1>6 DEF LoginReads
    <2>3. CASE ReadsOver
      <3>1. main'.at = "read" /\ main'.logons = main.logons /\ main'.loop = main.loop
        BY <1>2, <2>2, <2>3 DEF ReadsOver, MainType
      <3> QED
        BY <1>4, <2>2, <2>3, <3>1 DEF ReadsOver
    <2>4. CASE LeftToCaller(Head(toServer))
      <3>1. main'.at = "logon" /\ main'.logons = main.logons /\ main'.loop = main.loop
        BY <1>2, <2>4 DEF LeftToCaller, MainType
      <3> QED
        BY <1>4, <2>2, <2>4, <3>1 DEF LeftToCaller
    <2>5. ~GivesUp
      BY <1>2 DEF GivesUp, EndingType
    <2> QED
      BY <2>1, <2>3, <2>4, <2>5 DEF ReadOutcome
  <1>7. CASE LoginFails \/ LoginNotCompleted
    BY <1>2, <1>7 DEF LoginFails, LoginNotCompleted, TerminateSession, EndingType
  <1>8. CASE Logon
    <2>1. ~ending.terminate /\ main.at = "logon" /\ main.logons = main.loop /\ main.loop < MaxAttempts
      BY <1>1, <1>2, <1>8 DEF Logon, EndingType, TurnsCounted
    <2>2. \/ main' = [[main EXCEPT !.logons = @ + 1] EXCEPT !.at = "accept"]
          \/ main' = [[main EXCEPT !.logons = @ + 1] EXCEPT !.at = "login", !.loop = @ + 1] /\ main.loop + 1 < MaxAttempts
      BY <1>2, <1>8, <2>1 DEF Logon, EndingType
    <2>3. \/ main'.at = "accept" /\ main'.logons = main.logons + 1
          \/ main'.at = "login" /\ main'.logons = main.logons + 1 /\ main'.loop = main.loop + 1 /\ main.loop + 1 < MaxAttempts
      BY <1>2, <2>2 DEF MainType
    <2> QED
      BY <1>3, <2>1, <2>3
  <1>9. CASE LoginAccepts
    <2>1. main'.at = "opening" /\ main'.logons = main.logons /\ main'.loop = main.loop
      BY <1>2, <1>9 DEF LoginAccepts, MainType
    <2> QED
      BY <1>4, <1>9, <2>1 DEF LoginAccepts
  <1>10. CASE LoginCompletes
    <2>1. main'.at = "in" /\ main'.logons = main.logons /\ main'.loop = main.loop
      BY <1>2, <1>10 DEF LoginCompletes, MainType
    <2>2. ~ending.terminate
      BY <1>2, <1>10 DEF LoginCompletes, EndingType
    <2> QED
      BY <1>4, <2>1, <2>2
  <1>11. ASSUME UNCHANGED main, ~ending.terminate
         PROVE  /\ main'.at # "parked"
                /\ main'.at \in {"login", "read", "logon"} => main'.logons = main'.loop /\ main'.loop < MaxAttempts
                /\ main'.logons <= MaxAttempts
    BY <1>1, <1>11 DEF TurnsCounted
  <1>12. PassTimeout \/ MonitorTerminates => UNCHANGED main /\ ~ending.terminate
    BY <1>2 DEF PassTimeout, MonitorTerminates, EndingType
  <1>13. ~Exit
    BY <1>2 DEF Exit, EndingType
  <1>14. ClientAsks \/ ClientReads \/ ClientOpens \/ ClientLeaves \/ UNCHANGED vars
           => UNCHANGED main /\ ~ending.terminate
    BY DEF ClientAsks, ClientReads, ClientOpens, ClientLeaves, vars
  <1> QED
    BY <1>5, <1>6, <1>7, <1>8, <1>9, <1>10, <1>11, <1>12, <1>13, <1>14 DEF Next, Main

\* What is judged is the user in question, with what checked shows.
LEMMA JudgedIs ==
  ASSUME CredentialsOfOneRequest
  PROVE  /\ Judged.user = main.user /\ Judged.signed = checked.signed
         /\ Judged.key = checked.key /\ Judged.text = checked.text
  BY DEF Judged, CredentialsOfOneRequest, NoRequest, Request

\* What LogonUser1 finds good is deserved by the request.
LEMMA GoodIsDeserved == CredentialsOfOneRequest /\ TypeOK /\ Good(main) => Deserved
  <1> SUFFICES ASSUME CredentialsOfOneRequest, TypeOK, Good(main), ~DebugFlag PROVE Deserved
    BY DEF Deserved
  <1>0. PICK r : r = Judged
    OBVIOUS
  <1> DEFINE rows == {l \in Logons : r.signed /\ l.key = r.key /\ l.user = r.user}
             found == GetPublickeyCredentials(main.key, main.user)
  <1>1. /\ main.user = r.user /\ r.signed = checked.signed /\ r.key = checked.key /\ r.text = checked.text
        /\ Account[r.user] = TriedPassword(main.user, main.pass, main.key)
    BY <1>0, JudgedIs DEF Good, LogonUser1
  <1>2. CASE checked.signed
    <2>1. main.key = r.key /\ main.pass = EmptyPassword /\ main.key # None
      <3>1. checked \in Requests
        BY <1>2 DEF TypeOK, NoRequest, Request
      <3> QED
        BY <1>1, <1>2, <3>1, RequestFields, AuthAssumption DEF CredentialsOfOneRequest, None
    <2>2. found = rows
      BY <1>1, <1>2, <2>1 DEF GetPublickeyCredentials
    <2>3. CASE rows = {}
      BY <1>0, <1>1, <1>2, <2>1, <2>2, <2>3 DEF TriedPassword, Deserved
    <2>4. CASE rows # {}
      <3>1. TriedPassword(main.user, main.pass, main.key) = (CHOOSE l \in rows : TRUE).pass
        BY <2>1, <2>2, <2>4 DEF TriedPassword
      <3>2. (CHOOSE l \in rows : TRUE) \in rows
        BY <2>4
      <3>3. \E l \in rows : Account[r.user] = l.pass
        BY <1>1, <3>1, <3>2
      <3> QED
        BY <1>0, <3>3 DEF Deserved
    <2> QED
      BY <2>3, <2>4
  <1>3. CASE ~checked.signed
    <2>1. main.key = None /\ main.pass = checked.text
      BY <1>3 DEF CredentialsOfOneRequest
    <2>2. Account[r.user] = Salt(r.user, r.text)
      BY <1>1, <2>1 DEF TriedPassword
    <2> QED
      BY <1>0, <1>1, <1>3, <2>2 DEF Deserved
  <1> QED
    BY <1>2, <1>3

\* Nobody is told of a success before the verdict, nor read after it.
LEMMA AdmittedKept == AuthIndInv /\ [Next]_vars => AdmittedLast'
  <1> SUFFICES ASSUME AuthIndInv, [Next]_vars PROVE AdmittedLast'
    OBVIOUS
  <1>1. TypeOK /\ AuthWire /\ NothingBeforeRead /\ CredentialsOfOneRequest /\ AdmittedLast
    BY DEF AuthIndInv
  <1>2. /\ main \in MainType /\ ending \in EndingType /\ client \in ClientType
        /\ toServer \in Seq(Requests) /\ toClient \in Seq(AuthAnswers)
    BY <1>1 DEF TypeOK, AuthWire
  <1>3. ~LoginReads => (Deserved' <=> Deserved)
    <2>1. ~LoginReads => Judged' = Judged
      BY <1>1, CredentialsStay DEF Judged
    <2> QED
      BY <2>1 DEF Deserved
  <1>4. ASSUME main.at \in {"login", "read", "logon", "accept"} PROVE ~Admitted
    BY <1>1, <1>4 DEF AdmittedLast
  <1>5. ASSUME ~Admitted, client' = client, NEW said \in Seq(AuthAnswers), toClient' = toClient \o said,
               \A i \in 1..Len(said) : said[i] # sendResponseSuccess
        PROVE  ~Admitted'
    <2>1. \A i \in 1..Len(toClient') : toClient'[i] # sendResponseSuccess
      BY <1>2, <1>5, ConcatProperties DEF Admitted
    <2> QED
      BY <1>5, <2>1 DEF Admitted
  <1>6. CASE LoginBegins
    <2> DEFINE refusal == <<sendResponseFailure(TRUE)>>
    <2>1. client' = client /\ main.at = "login" /\ main'.at = "read"
      BY <1>2, <1>6 DEF LoginBegins, MainType
    <2>2. refusal \in Seq(AuthAnswers) /\ \A i \in 1..Len(refusal) : refusal[i] # sendResponseSuccess
      BY DEF AuthAnswers, sendResponseFailure, sendResponseSuccess
    <2>3. toClient' = toClient \o refusal \/ toClient' = toClient \o <<>>
      BY <1>6, LoginBeginsOutcome
    <2>4. ~Admitted'
      <3> HIDE DEF refusal
      <3>1. <<>> \in Seq(AuthAnswers) /\ \A i \in 1..Len(<<>>) : <<>>[i] # sendResponseSuccess
        OBVIOUS
      <3> QED
        BY <1>4, <1>5, <2>1, <2>2, <2>3, <3>1
    <2> QED
      BY <2>1, <2>4 DEF AdmittedLast
  <1>7. CASE LoginReads
    <2>1. PICK said \in Seq(AuthAnswers) : ReadOutcome(Head(toServer), said)
      BY <1>1, <1>7, LoginReadsOutcome
    <2>2. main.at = "read" /\ client' = client
      BY <1>7 DEF LoginReads
    <2>3. ~Admitted'
      BY <1>4, <1>5, <2>1, <2>2 DEF ReadOutcome
    <2>4. main'.at \notin {"accept", "opening"}
      <3>1. CASE ReadsOver
        BY <1>2, <2>2, <3>1 DEF ReadsOver, MainType
      <3>2. CASE LeftToCaller(Head(toServer))
        BY <1>2, <3>2 DEF LeftToCaller, MainType
      <3>3. CASE GivesUp
        BY <1>2, <3>3 DEF GivesUp, MainType
      <3> QED
        BY <2>1, <3>1, <3>2, <3>3 DEF ReadOutcome
    <2> QED
      BY <2>3, <2>4 DEF AdmittedLast
  <1>8. CASE LoginFails
    <2>1. client' = client /\ toClient' = toClient /\ main.at = "read" /\ main'.at \in {"logon", "parked"}
      BY <1>2, <1>8 DEF LoginFails, TerminateSession, MainType
    <2> QED
      BY <1>4, <2>1 DEF AdmittedLast, Admitted
  <1>9. CASE Logon /\ ~LoginReads
    <2>1. client' = client /\ toClient' = toClient /\ main.at = "logon" /\ checked' = checked
      BY <1>9 DEF Logon
    <2>2. \/ Good(main) /\ main' = [[main EXCEPT !.logons = @ + 1] EXCEPT !.at = "accept"]
          \/ main' = [[main EXCEPT !.logons = @ + 1] EXCEPT !.at = "login", !.loop = @ + 1]
          \/ main' = [[main EXCEPT !.logons = @ + 1] EXCEPT !.at = "parked", !.loop = @ + 1]
      BY <1>9 DEF Logon
    <2>3. (Good(main) /\ main'.at = "accept") \/ main'.at \in {"login", "parked"}
      BY <1>2, <2>2 DEF MainType
    <2>4. ~Admitted'
      BY <1>4, <2>1 DEF Admitted
    <2> QED
      BY <1>1, <1>3, <1>9, <2>1, <2>3, <2>4, GoodIsDeserved DEF AdmittedLast
  <1>10. CASE LoginAccepts /\ ~LoginReads
    <2>1. checked' = checked /\ main.at = "accept" /\ main'.at = "opening"
      BY <1>2, <1>10 DEF LoginAccepts, MainType
    <2> QED
      BY <1>1, <1>3, <1>10, <2>1 DEF AdmittedLast
  <1>11. CASE (LoginCompletes \/ LoginNotCompleted) /\ ~LoginReads
    <2>1. UNCHANGED <<checked, client, toClient>> /\ main.at = "opening" /\ main'.at \in {"in", "parked"}
      BY <1>2, <1>11 DEF LoginCompletes, LoginNotCompleted, TerminateSession, MainType
    <2> QED
      BY <1>1, <1>3, <1>11, <2>1 DEF AdmittedLast
  <1>12. CASE (PassTimeout \/ MonitorTerminates \/ Exit) /\ ~LoginReads
    <2>1. UNCHANGED <<checked, client, toClient>> /\ (UNCHANGED main \/ main'.at = "parked")
      BY <1>2, <1>12 DEF PassTimeout, MonitorTerminates, Exit, MainType
    <2> QED
      BY <1>1, <1>3, <1>12, <2>1 DEF AdmittedLast, Admitted
  <1>13. ASSUME ~LoginReads, UNCHANGED <<checked, main>>, Admitted' => Admitted PROVE AdmittedLast'
    BY <1>1, <1>3, <1>13 DEF AdmittedLast
  <1>14. CASE ClientAsks /\ ~LoginReads
    <2>1. client'.at = "waits" /\ toClient' = toClient
      BY <1>2, <1>14 DEF ClientAsks, ClientType
    <2> QED
      BY <1>13, <1>14, <2>1 DEF ClientAsks, Admitted
  <1>15. CASE ClientReads /\ ~LoginReads
    <2>1. toClient' = Tail(toClient) /\ toClient # <<>> /\ client.at = "waits"
      BY <1>15 DEF ClientReads
    <2>2. client'.at = "in" => toClient[1] = sendResponseSuccess
      <3> DEFINE x == CASE Head(toClient) = sendResponseSuccess -> "in"
                        [] Head(toClient) = sendResponseFailure(FALSE) -> "left"
                        [] OTHER -> "ready"
      <3>1. client' = [client EXCEPT !.got = @ + 1, !.at = x]
        BY <1>15 DEF ClientReads
      <3>2. x = "in" => Head(toClient) = sendResponseSuccess
        OBVIOUS
      <3> HIDE DEF x
      <3>3. client'.at = x
        BY <1>2, <3>1 DEF ClientType
      <3> QED
        BY <1>2, <2>1, <3>2, <3>3
    <2>3. client'.at # "open"
      BY <1>2, <1>15 DEF ClientReads, ClientType
    <2>4. \A i \in 1..Len(toClient') : toClient'[i] = toClient[i + 1] /\ i + 1 \in 1..Len(toClient)
      BY <1>2, <2>1
    <2>5. 1 \in 1..Len(toClient)
      BY <1>2, <2>1
    <2> QED
      BY <1>13, <1>15, <2>2, <2>3, <2>4, <2>5 DEF ClientReads, Admitted
  <1>16. CASE ClientOpens /\ ~LoginReads
    BY <1>2, <1>13, <1>16 DEF ClientOpens, ClientType, Admitted
  <1>17. CASE ClientLeaves /\ ~LoginReads
    BY <1>2, <1>13, <1>17 DEF ClientLeaves, ClientType, Admitted
  <1>18. CASE UNCHANGED vars /\ ~LoginReads
    BY <1>13, <1>18 DEF vars, Admitted
  <1> QED
    BY <1>6, <1>7, <1>8, <1>9, <1>10, <1>11, <1>12, <1>14, <1>15, <1>16, <1>17, <1>18 DEF Next, Main

\* For any clients, accounts and keys: what is judged is one request, which
\* is answered once, and who is told of a success deserved it.
THEOREM AuthInvariant == Spec => []AuthIndInv
  <1>1. AuthIndInv /\ [Next]_vars => AuthIndInv'
    <2> SUFFICES ASSUME AuthIndInv, [Next]_vars PROVE AuthIndInv'
      OBVIOUS
    <2>1. TypeOK' /\ AuthWire' /\ NothingBeforeRead'
      BY AuthTypesKept DEF AuthIndInv
    <2> QED
      BY <2>1, CredentialsKept, AnswersKept, JudgedKept, TurnsKept, AdmittedKept DEF AuthIndInv
  <1> QED
    BY <1>1, AuthStarts, PTL DEF Spec

\* Whoever is let in is so by the credentials of one request: processUserAuth,
\* KSsh::Login and KSession::LoginSSH.
THEOREM LoginIsSafe == Spec => []AuthInv
  <1>1. AuthIndInv => AuthInv
    <2> SUFFICES ASSUME AuthIndInv PROVE AuthInv
      OBVIOUS
    <2>1. AdmittedByRequest
      <3>1. main.at \in {"accept", "opening"} \/ client.at \in {"in", "open"} => Deserved
        BY DEF AuthIndInv, AdmittedLast, Admitted
      <3> QED
        BY <3>1 DEF AdmittedByRequest, Deserved
    <2>2. AttemptsBounded
      <3>1. MaxAttempts \in Nat /\ main.logons \in Nat
        BY AuthAssumption DEF AuthIndInv, TypeOK, MainType
      <3> QED
        BY <3>1 DEF AuthIndInv, TurnsCounted, AttemptsBounded
    <2> QED
      BY <2>1, <2>2 DEF AuthIndInv, AuthInv
  <1> QED
    BY <1>1, AuthInvariant, PTL

-----------------------------------------------------------------------------
(* The file server (Sftp).                                                 *)

\* Slots are counted from 1.
LEMMA SlotsAreNumbers == Slots \subseteq Nat \ {0}
  <1>1. MAX_OPEN_HANDLES \in Nat
    BY SftpAssumption, Zenon
  <1> QED
    BY <1>1 DEF Slots

\* A set of slots that is not empty has a first one.
LEMMA FirstSlot ==
  ASSUME NEW free \in SUBSET Slots, free # {}
  PROVE  Min(free) \in free
  <1>1. free \subseteq Nat
    BY SlotsAreNumbers
  <1>2. \E x \in free : \A y \in free : ~ (<<y, x>> \in OpToRel(<, Nat))
    BY <1>1, WFMin, NatLessThanWellFounded, Zenon
  <1>3. PICK x \in free : \A y \in free : ~ (<<y, x>> \in OpToRel(<, Nat))
    BY <1>2
  <1>4. \A y \in free : x <= y
    <2> TAKE y \in free
    <2>1. <<y, x>> \notin OpToRel(<, Nat)
      BY <1>3
    <2>2. y \in Nat /\ x \in Nat
      BY <1>1
    <2>3. ~ (y < x)
      BY <2>1, <2>2 DEF OpToRel
    <2> QED
      BY <2>2, <2>3
  <1> QED
    BY <1>4 DEF Min

\* The first handle.
LEMMA OpenedHandle ==
  ASSUME NEW file \in SftpPaths, sftp \in SessionType
  PROVE  /\ OpenSftpHandle(file) \in SftpHandles
         /\ OpenSftpHandle(file) # NoHandle =>
              /\ OpenSftpHandle(file)[1] \in Slots /\ OpenSftpHandle(file)[2] = file
              /\ OpenSftpHandle(file) = <<OpenSftpHandle(file)[1], file>>
              /\ sftp.handles[OpenSftpHandle(file)[1]].state = "closed"
         /\ OpenSftpHandle(file) = NoHandle => OpenSftpHandle(file)[1] \notin Slots
  <1> DEFINE free == {i \in Slots : sftp.handles[i].state = "closed"}
  <1>1. CASE free = {}
    BY <1>1, SlotsAreNumbers DEF OpenSftpHandle, NoHandle, SftpHandles
  <1>2. CASE free # {}
    <2>1. Min(free) \in free
      BY <1>2, FirstSlot
    <2>2. OpenSftpHandle(file) = <<Min(free), file>>
      BY <1>2 DEF OpenSftpHandle
    <2>3. Min(free) \in Slots /\ Min(free) # 0
      BY <2>1, SlotsAreNumbers
    <2>4. OpenSftpHandle(file)[1] = Min(free) /\ OpenSftpHandle(file)[2] = file
      BY <2>2
    <2>5. OpenSftpHandle(file) # NoHandle
      <3>1. NoHandle[1] = 0
        BY DEF NoHandle
      <3> QED
        BY <2>3, <2>4, <3>1
    <2>6. OpenSftpHandle(file) \in SftpHandles
      BY <2>2, <2>3 DEF SftpHandles
    <2> QED
      BY <2>1, <2>2, <2>3, <2>4, <2>5, <2>6
  <1> QED
    BY <1>1, <1>2

\* The disk is a tree, and the directory is one of it.
TreeOf(files, cwd) ==
  /\ \A p \in Nodes : files[p].kind # "none" => files[Parent(p)].kind = "dir"
  /\ files[cwd].kind = "dir"

\* A session that is where it was in the loop.
SameLoop(s) ==
  /\ s \in SessionType /\ s.pc = sftp.pc /\ s.buff = sftp.buff /\ s.out = sftp.out
  /\ sftp.leaked \subseteq s.leaked

\* What a request may do to the table of handles: a slot that is not closed after
\* it was so before, for the same file, and is not what a CLOSE names, or its handle
\* is the answer, or is leaked.
SlotsKnown(r, s, a) ==
  \A i \in Slots :
    s.handles[i].state # "closed" =>
      \/ <<i, s.handles[i].file>> \in s.leaked
      \/ a.type = "HANDLE" /\ a.what = <<i, s.handles[i].file>>
      \/ /\ sftp.handles[i].state # "closed" /\ sftp.handles[i].file = s.handles[i].file
         /\ r.type = "CLOSE" => r.handle # <<i, s.handles[i].file>>

\* What a request comes to: the process has ended, or it is answered by its number.
Sound(r, o) ==
  /\ o.sftp \in SessionType /\ o.disk \in DiskType /\ TreeOf(o.disk, o.sftp.cwd)
  /\ o.sftp.buff = sftp.buff /\ o.sftp.out = sftp.out
  /\ \/ o.sftp.pc = "ended" /\ o.answer = <<>>
     \/ \E a \in SftpAnswer : /\ o.answer = <<a>> /\ a.id = r.id
                              /\ SameLoop(o.sftp) /\ SlotsKnown(r, o.sftp, a)

\* The outcomes of one form.
LEMMA SoundOutcome ==
  ASSUME NEW r, NEW s, NEW files \in DiskType, NEW a \in SftpAnswer,
         SameLoop(s), TreeOf(files, s.cwd), a.id = r.id, SlotsKnown(r, s, a)
  PROVE  Sound(r, Outcome(s, files, a))
  BY DEF Sound, Outcome, SameLoop

\* A status is an answer.
LEMMA StatusIsAnswer ==
  ASSUME NEW r \in SftpRequest, NEW code \in Codes
  PROVE  Status(r, code) \in SftpAnswer /\ Status(r, code).id = r.id /\ Status(r, code).type = "STATUS"
  BY DEF Status, Answer, SftpAnswer, SftpRequest, Codes

\* A session that keeps its handles.
LEMMA SameSlots ==
  ASSUME NEW r, NEW s, NEW a, s.handles = sftp.handles, r.type # "CLOSE"
  PROVE  SlotsKnown(r, s, a)
  BY DEF SlotsKnown

\* To say something and do nothing.
LEMMA SaysIsSound ==
  ASSUME NEW r \in SftpRequest, NEW code \in Codes, SftpTypes, DiskIsTree, r.type # "CLOSE"
  PROVE  Sound(r, Says(r, code))
  <1>1. SameLoop(sftp) /\ TreeOf(disk, sftp.cwd) /\ disk \in DiskType
    BY DEF SameLoop, TreeOf, DiskIsTree, SftpTypes
  <1> QED
    BY <1>1, SoundOutcome, StatusIsAnswer, SameSlots DEF Says

\* What the impersonation makes of an outcome that leaves the handles alone.
LEMMA ImpersonatedIsSound ==
  ASSUME NEW r \in SftpRequest, NEW s, NEW files \in DiskType, NEW a \in SftpAnswer,
         SftpTypes, DiskIsTree, SameLoop(s), TreeOf(files, s.cwd), a.id = r.id,
         s.handles = sftp.handles, r.type # "CLOSE",
         NEW o \in Impersonated(r, Outcome(s, files, a))
  PROVE  Sound(r, o)
  <1>0. /\ "FAILURE" \in Codes
        /\ Status(r, "FAILURE") \in SftpAnswer /\ Status(r, "FAILURE").id = r.id
    BY StatusIsAnswer DEF Codes
  <1>1. SlotsKnown(r, s, a) /\ SlotsKnown(r, s, Status(r, "FAILURE"))
    BY SameSlots
  <1>2. Sound(r, Outcome(s, files, a)) /\ Sound(r, Outcome(s, files, Status(r, "FAILURE")))
    BY <1>0, <1>1, SoundOutcome
  <1>3. Sound(r, Says(r, "FAILURE"))
    BY <1>0, SaysIsSound
  <1>4. [Outcome(s, files, a) EXCEPT !.answer = <<Status(r, "FAILURE")>>] = Outcome(s, files, Status(r, "FAILURE"))
    BY DEF Outcome
  <1> QED
    BY <1>2, <1>3, <1>4 DEF Impersonated

\* The same, for a request that may be impossible.
LEMMA IfPossibleIsSound ==
  ASSUME NEW r \in SftpRequest, NEW s, NEW files, NEW a, NEW possible \in BOOLEAN,
         SftpTypes, DiskIsTree, r.type # "CLOSE",
         possible => /\ files \in DiskType /\ a \in SftpAnswer /\ SameLoop(s) /\ TreeOf(files, s.cwd)
                     /\ a.id = r.id /\ s.handles = sftp.handles,
         NEW o \in IfPossible(r, possible, Outcome(s, files, a))
  PROVE  Sound(r, o)
  <1>1. CASE possible
    <2>1. o \in Impersonated(r, Outcome(s, files, a))
      BY <1>1 DEF IfPossible
    <2> QED
      BY <1>1, <2>1, ImpersonatedIsSound
  <1>2. CASE ~possible
    <2>1. SameLoop(sftp) /\ TreeOf(disk, sftp.cwd) /\ disk \in DiskType
      BY DEF SameLoop, TreeOf, DiskIsTree, SftpTypes
    <2>2. o \in Impersonated(r, Outcome(sftp, disk, Status(r, "FAILURE")))
      BY <1>2 DEF IfPossible, Says
    <2>3. /\ "FAILURE" \in Codes
          /\ Status(r, "FAILURE") \in SftpAnswer /\ Status(r, "FAILURE").id = r.id
      BY StatusIsAnswer DEF Codes
    <2> QED
      BY <2>1, <2>2, <2>3, ImpersonatedIsSound
  <1> QED
    BY <1>1, <1>2

\* What the state is made of.
LEMMA SftpFields ==
  ASSUME SftpTypes, DiskIsTree
  PROVE  /\ sftp \in SessionType /\ SameLoop(sftp) /\ sftp.cwd \in Nodes
         /\ disk \in DiskType /\ TreeOf(disk, sftp.cwd)
         /\ \A p \in Nodes : disk[p].kind \in {"none", "file", "dir"} /\ disk[p].data \in Seq(SftpBlocks)
  BY DEF SftpTypes, DiskIsTree, SameLoop, TreeOf, SessionType, DiskType, NodeType

\* What a request is made of.
LEMMA AskFields ==
  ASSUME NEW r \in SftpRequest
  PROVE  /\ r.path \in SftpPaths /\ r.handle \in SftpHandles /\ r.off \in Nat /\ r.data \in SftpBlocks /\ r.id \in Nat
         /\ r.handle[2] \in SftpPaths
  <1>1. r.path \in SftpPaths /\ r.handle \in SftpHandles /\ r.off \in Nat /\ r.data \in SftpBlocks /\ r.id \in Nat
    BY DEF SftpRequest, SftpPaths
  <1>2. "" \in SftpPaths
    BY DEF SftpPaths
  <1>3. CASE r.handle = NoHandle
    <2>1. NoHandle[2] = ""
      BY DEF NoHandle
    <2> QED
      BY <1>1, <1>2, <1>3, <2>1
  <1>4. CASE r.handle \in Slots \X SftpPaths
    BY <1>1, <1>4
  <1> QED
    BY <1>1, <1>3, <1>4 DEF SftpHandles

\* A path that is there is a node.
LEMMA ThereIsNode ==
  ASSUME NEW p
  PROVE  /\ Abs(p) \in Nodes => There(p) = disk[Abs(p)]
         /\ There(p).kind # "none" => Abs(p) \in Nodes
         /\ Abs(p) \notin Nodes => There(p) = NoFile
  BY DEF There, NoFile

\* A directory that can be entered is one of the tree.
LEMMA CdMoves ==
  ASSUME SftpTypes, DiskIsTree, NEW p, Cd(p)
  PROVE  /\ SameLoop(CdTo(p)) /\ CdTo(p).handles = sftp.handles /\ CdTo(p).leaked = sftp.leaked
         /\ CdTo(p).cwd \in Nodes /\ TreeOf(disk, CdTo(p).cwd)
  <1>1. CASE p = "/"
    BY <1>1, SftpFields DEF CdTo
  <1>2. CASE p # "/"
    <2>1. Abs(p) \in Nodes /\ disk[Abs(p)].kind = "dir"
      BY <1>2, ThereIsNode DEF Cd
    <2>2. CdTo(p) = [sftp EXCEPT !.cwd = Abs(p)]
      BY <1>2 DEF CdTo
    <2>3. CdTo(p) \in SessionType /\ CdTo(p).cwd = Abs(p)
      BY <2>1, <2>2, SftpFields DEF SessionType
    <2>4. /\ CdTo(p).handles = sftp.handles /\ CdTo(p).leaked = sftp.leaked
          /\ CdTo(p).pc = sftp.pc /\ CdTo(p).buff = sftp.buff /\ CdTo(p).out = sftp.out
      BY <2>2, SftpFields DEF SessionType
    <2> QED
      BY <2>1, <2>3, <2>4, SftpFields DEF SameLoop, TreeOf
  <1> QED
    BY <1>1, <1>2

\* REALPATH.
LEMMA RealPathIsSound ==
  ASSUME NEW r \in SftpRequest, SftpTypes, DiskIsTree, r.type = "REALPATH", NEW o \in RealPath(r)
  PROVE  Sound(r, o)
  <1> DEFINE a == Answer(r, "NAME", {IF r.path = "/" THEN "/" ELSE CdTo(r.path).cwd})
  <1>1. Cd(r.path) \in BOOLEAN
    BY DEF Cd
  <1>2. ASSUME Cd(r.path)
        PROVE  a \in SftpAnswer /\ a.id = r.id
    <2>1. CdTo(r.path).cwd \in Nodes
      BY <1>2, CdMoves
    <2>2. (IF r.path = "/" THEN "/" ELSE CdTo(r.path).cwd) \in SftpPaths
      BY <2>1 DEF SftpPaths
    <2> HIDE DEF SftpPaths
    <2> QED
      BY <2>2, AskFields DEF Answer, SftpAnswer
  <1> HIDE DEF a
  <1>3. o \in IfPossible(r, Cd(r.path), Outcome(CdTo(r.path), disk, a))
    BY DEF RealPath, a
  <1> QED
    BY <1>1, <1>2, <1>3, CdMoves, SftpFields, IfPossibleIsSound

\* The outcomes of a request that may be impossible, by what they are.
LEMMA IfPossibleIs ==
  ASSUME NEW r, NEW possible \in BOOLEAN, NEW s, NEW files, NEW a, NEW o \in IfPossible(r, possible, Outcome(s, files, a))
  PROVE  \/ possible /\ (o = Outcome(s, files, a) \/ o = Outcome(s, files, Status(r, "FAILURE")))
         \/ o = Says(r, "FAILURE")
  BY DEF IfPossible, Impersonated, Outcome, Says

\* A slot that is opened is one that was closed.
LEMMA OpenedIsSound ==
  ASSUME SftpTypes, DiskIsTree, NEW r \in SftpRequest, r.type # "CLOSE",
         NEW h, h = OpenSftpHandle(r.path)
  PROVE  /\ SameLoop(Opened(h)) /\ Opened(h).cwd = sftp.cwd /\ Opened(h).leaked = sftp.leaked
         /\ SlotsKnown(r, Opened(h), Answer(r, "HANDLE", h))
         /\ Answer(r, "HANDLE", h) \in SftpAnswer /\ Answer(r, "HANDLE", h).id = r.id
  <1>1. /\ h \in SftpHandles
        /\ h # NoHandle => /\ h[1] \in Slots /\ h[2] = r.path /\ h = <<h[1], r.path>>
                           /\ sftp.handles[h[1]].state = "closed"
        /\ h = NoHandle => h[1] \notin Slots
    BY AskFields, SftpFields, OpenedHandle
  <1>2. Answer(r, "HANDLE", h) \in SftpAnswer /\ Answer(r, "HANDLE", h).id = r.id
    BY <1>1, AskFields DEF Answer, SftpAnswer
  <1>3. CASE h = NoHandle
    <2>1. Opened(h) = sftp
      BY <1>1, <1>3 DEF Opened
    <2> QED
      BY <1>2, <2>1, SftpFields, SameSlots
  <1>4. CASE h # NoHandle
    <2> DEFINE slot == [file |-> r.path, state |-> "opened"]
    <2>1. slot \in SlotType
      BY AskFields DEF SlotType
    <2>2. Opened(h) = [sftp EXCEPT !.handles = [sftp.handles EXCEPT ![h[1]] = slot]]
      BY <1>1, <1>4 DEF Opened
    <2> HIDE DEF slot
    <2>3. sftp.handles \in [Slots -> SlotType] /\ [sftp.handles EXCEPT ![h[1]] = slot] \in [Slots -> SlotType]
      BY <1>1, <1>4, <2>1, SftpFields DEF SessionType
    <2>4. Opened(h) \in SessionType
      BY <2>2, <2>3, SftpFields DEF SessionType
    <2>5. /\ Opened(h).handles = [sftp.handles EXCEPT ![h[1]] = slot] /\ Opened(h).leaked = sftp.leaked
          /\ Opened(h).pc = sftp.pc /\ Opened(h).buff = sftp.buff /\ Opened(h).out = sftp.out /\ Opened(h).cwd = sftp.cwd
      BY <2>2, SftpFields DEF SessionType
    <2>6. slot.file = h[2]
      BY <1>1, <1>4 DEF slot
    <2>7. \A i \in Slots : i # h[1] => Opened(h).handles[i] = sftp.handles[i]
      BY <2>3, <2>5
    <2>8. Opened(h).handles[h[1]] = slot
      BY <1>1, <1>4, <2>3, <2>5
    <2>9. <<h[1], Opened(h).handles[h[1]].file>> = h
      BY <1>1, <1>4, <2>6, <2>8
    <2>10. Answer(r, "HANDLE", h).type = "HANDLE" /\ Answer(r, "HANDLE", h).what = h
      BY DEF Answer
    <2>11. SlotsKnown(r, Opened(h), Answer(r, "HANDLE", h))
      BY <2>7, <2>9, <2>10 DEF SlotsKnown
    <2> QED
      BY <1>2, <2>4, <2>5, <2>11 DEF SameLoop
  <1> QED
    BY <1>3, <1>4

\* OPENDIR.
LEMMA OpenDirIsSound ==
  ASSUME NEW r \in SftpRequest, SftpTypes, DiskIsTree, r.type = "OPENDIR", NEW o \in OpenDir(r)
  PROVE  Sound(r, o)
  <1> DEFINE h == OpenSftpHandle(r.path)
             a == Answer(r, "HANDLE", h)
             d == CdTo(r.path)
             s == [Opened(h) EXCEPT !.cwd = d.cwd]
  <1>1. Cd(r.path) \in BOOLEAN
    BY DEF Cd
  <1>2. /\ SameLoop(Opened(h)) /\ Opened(h).cwd = sftp.cwd /\ Opened(h).leaked = sftp.leaked
        /\ SlotsKnown(r, Opened(h), a) /\ a \in SftpAnswer /\ a.id = r.id
    BY OpenedIsSound
  <1>3. a.type = "HANDLE" /\ Status(r, "FAILURE").type = "STATUS"
    BY DEF Answer, Status
  <1>4. Status(r, "FAILURE") \in SftpAnswer /\ Status(r, "FAILURE").id = r.id
    BY StatusIsAnswer DEF Codes
  <1>5. PICK b \in IfPossible(r, Cd(r.path), Outcome(d, disk, a)) :
               o = IF b.answer[1].type = "HANDLE" THEN [b EXCEPT !.sftp = [Opened(h) EXCEPT !.cwd = b.sftp.cwd]] ELSE b
    BY DEF OpenDir
  <1> HIDE DEF h, a, d
  <1>6. CASE Cd(r.path) /\ b = Outcome(d, disk, a)
    <2>1. o = Outcome(s, disk, a)
      BY <1>3, <1>5, <1>6 DEF Outcome
    <2>2. d.cwd \in Nodes /\ TreeOf(disk, d.cwd)
      BY <1>6, CdMoves DEF d
    <2>3. s \in SessionType /\ s.cwd = d.cwd
      BY <1>2, <2>2 DEF SameLoop, SessionType
    <2>4. /\ s.pc = Opened(h).pc /\ s.buff = Opened(h).buff /\ s.out = Opened(h).out
          /\ s.leaked = Opened(h).leaked /\ s.handles = Opened(h).handles
      BY <1>2 DEF SameLoop, SessionType
    <2> HIDE DEF s
    <2>5. SameLoop(s) /\ SlotsKnown(r, s, a)
      BY <1>2, <2>3, <2>4 DEF SameLoop, SlotsKnown
    <2> QED
      BY <1>2, <2>1, <2>2, <2>3, <2>5, SoundOutcome, SftpFields
  <1>7. CASE Cd(r.path) /\ b = Outcome(d, disk, Status(r, "FAILURE"))
    <2>1. o = Outcome(d, disk, Status(r, "FAILURE"))
      BY <1>3, <1>5, <1>7 DEF Outcome
    <2>2. SameLoop(d) /\ d.handles = sftp.handles /\ TreeOf(disk, d.cwd)
      BY <1>7, CdMoves DEF d
    <2> QED
      BY <1>4, <2>1, <2>2, SoundOutcome, SameSlots, SftpFields
  <1>8. CASE b = Says(r, "FAILURE")
    <2>1. o = Says(r, "FAILURE")
      BY <1>3, <1>5, <1>8 DEF Outcome, Says
    <2> QED
      BY <2>1, SaysIsSound DEF Codes
  <1> QED
    BY <1>1, <1>5, <1>6, <1>7, <1>8, IfPossibleIs

\* A change of the state of a slot: no slot becomes another's, and a CLOSE leaves
\* none open that it names.
LEMMA StateOfSlot ==
  ASSUME SftpTypes, DiskIsTree, NEW r \in SftpRequest, NEW state \in {"closed", "eof"},
         NEW h \in SftpHandles, NEW a,
         state = "eof" => GetSftpHandleState(h) # "closed" /\ r.type # "CLOSE",
         r.type = "CLOSE" => state = "closed" /\ h = r.handle
  PROVE  /\ SameLoop(SetSftpHandleState(h, state)) /\ SetSftpHandleState(h, state).cwd = sftp.cwd
         /\ SlotsKnown(r, SetSftpHandleState(h, state), a)
  <1> DEFINE k == ParseSftpHandle(h)
             s == SetSftpHandleState(h, state)
  <1>0. 0 \notin Slots
    BY SlotsAreNumbers
  <1>1. /\ k # 0 => k \in Slots /\ k = h[1] /\ sftp.handles[k].file = h[2]
        /\ k = 0 => \A i \in Slots : <<i, sftp.handles[i].file>> # h
    BY <1>0 DEF ParseSftpHandle
  <1> HIDE DEF k
  <1>2. CASE k = 0
    <2>1. s = sftp
      BY <1>2 DEF SetSftpHandleState, k
    <2>2. SlotsKnown(r, sftp, a)
      BY <1>1, <1>2 DEF SlotsKnown
    <2> QED
      BY <2>1, <2>2, SftpFields
  <1>3. CASE k # 0
    <2> DEFINE slot == [sftp.handles[k] EXCEPT !.state = state]
    <2>1. sftp.handles \in [Slots -> SlotType] /\ k \in Slots /\ sftp.handles[k] \in SlotType
      BY <1>1, <1>3, SftpFields DEF SessionType
    <2>2. slot \in SlotType /\ slot.file = h[2] /\ slot.state = state
      BY <1>1, <1>3, <2>1 DEF SlotType
    <2>3. s = [sftp EXCEPT !.handles = [sftp.handles EXCEPT ![k] = slot]]
      BY <1>3 DEF SetSftpHandleState, k
    <2> HIDE DEF slot
    <2>4. [sftp.handles EXCEPT ![k] = slot] \in [Slots -> SlotType]
      BY <2>1, <2>2
    <2>5. s \in SessionType
      BY <2>3, <2>4, SftpFields DEF SessionType
    <2>6. /\ s.handles = [sftp.handles EXCEPT ![k] = slot] /\ s.leaked = sftp.leaked
          /\ s.pc = sftp.pc /\ s.buff = sftp.buff /\ s.out = sftp.out /\ s.cwd = sftp.cwd
      BY <2>3, SftpFields DEF SessionType
    <2> HIDE DEF s
    <2>7. \A i \in Slots : i # k => s.handles[i] = sftp.handles[i]
      BY <2>1, <2>6
    <2>8. s.handles[k] = slot
      BY <2>1, <2>6
    <2>9. \A i \in Slots : i # k /\ h[1] = k => <<i, s.handles[i].file>> # h
      OBVIOUS
    <2>10. state = "eof" => sftp.handles[k].state # "closed"
      BY <1>3 DEF GetSftpHandleState, k
    <2>11. SlotsKnown(r, s, a)
      BY <1>1, <1>3, <2>2, <2>7, <2>8, <2>9, <2>10 DEF SlotsKnown
    <2> QED
      BY <2>5, <2>6, <2>11 DEF SameLoop, s
  <1> QED
    BY <1>2, <1>3

\* A process that ends.
LEMMA CrashIsSound ==
  ASSUME NEW r \in SftpRequest, SftpTypes, DiskIsTree, NEW o \in Crash
  PROVE  Sound(r, o)
  <1>2. o = [sftp |-> [sftp EXCEPT !.pc = "ended"], disk |-> disk, answer |-> <<>>]
    BY DEF Crash
  <1>3. /\ [sftp EXCEPT !.pc = "ended"] \in SessionType /\ [sftp EXCEPT !.pc = "ended"].pc = "ended"
        /\ [sftp EXCEPT !.pc = "ended"].cwd = sftp.cwd
        /\ [sftp EXCEPT !.pc = "ended"].buff = sftp.buff /\ [sftp EXCEPT !.pc = "ended"].out = sftp.out
    BY SftpFields DEF SessionType
  <1> QED
    BY <1>2, <1>3, SftpFields DEF Sound

\* READDIR.
LEMMA ReadDirIsSound ==
  ASSUME NEW r \in SftpRequest, SftpTypes, DiskIsTree, r.type = "READDIR", NEW o \in ReadDir(r)
  PROVE  Sound(r, o)
  <1> DEFINE p == GetSftpHandleFile(r.handle)
             d == CdTo(p)
             listed == [SetSftpHandleState(r.handle, "eof") EXCEPT !.cwd = d.cwd]
             a == Answer(r, "NAME", IF p = "/" THEN {"/c"} ELSE Inside(d.cwd))
  <1>1. CASE ParseSftpHandle(r.handle) = 0
    BY <1>1, CrashIsSound DEF ReadDir
  <1>2. CASE ParseSftpHandle(r.handle) # 0 /\ GetSftpHandleState(r.handle) # "opened"
    <2>1. o \in IfPossible(r, Cd(p), Outcome(d, disk, Status(r, "EOF")))
      BY <1>2 DEF ReadDir
    <2>2. Cd(p) \in BOOLEAN
      BY DEF Cd
    <2>3. Status(r, "EOF") \in SftpAnswer /\ Status(r, "EOF").id = r.id
      BY StatusIsAnswer DEF Codes
    <2> HIDE DEF p
    <2> QED
      BY <2>1, <2>2, <2>3, CdMoves, SftpFields, IfPossibleIsSound
  <1>3. CASE ParseSftpHandle(r.handle) # 0 /\ GetSftpHandleState(r.handle) = "opened"
    <2>1. PICK b \in IfPossible(r, Cd(p), Outcome(d, disk, a)) :
                 o = IF b.answer[1].type = "NAME" THEN [b EXCEPT !.sftp = listed] ELSE b
      BY <1>3 DEF ReadDir
    <2>2. Cd(p) \in BOOLEAN
      BY DEF Cd
    <2>3. a.type = "NAME" /\ a.id = r.id /\ Status(r, "FAILURE").type = "STATUS"
      BY DEF Answer, Status
    <2>4. a \in SftpAnswer
      <3>1. (IF p = "/" THEN {"/c"} ELSE Inside(d.cwd)) \in SUBSET SftpPaths
        BY DEF SftpPaths, Inside, Nodes
      <3> HIDE DEF p, d
      <3> QED
        BY <3>1, AskFields DEF Answer, SftpAnswer
    <2>5. Status(r, "FAILURE") \in SftpAnswer /\ Status(r, "FAILURE").id = r.id
      BY StatusIsAnswer DEF Codes
    <2>6. /\ SameLoop(SetSftpHandleState(r.handle, "eof"))
          /\ SlotsKnown(r, SetSftpHandleState(r.handle, "eof"), a)
      BY <1>3, StateOfSlot, AskFields
    <2> HIDE DEF p, a
    <2>7. CASE Cd(p) /\ b = Outcome(d, disk, a)
      <3> DEFINE t == SetSftpHandleState(r.handle, "eof")
      <3>1. o = Outcome(listed, disk, a)
        BY <2>1, <2>3, <2>7 DEF Outcome
      <3>2. d.cwd \in Nodes /\ TreeOf(disk, d.cwd)
        BY <2>7, CdMoves
      <3> HIDE DEF d, t
      <3>3. t \in SessionType
        BY <2>6 DEF SameLoop, t
      <3>4. listed = [t EXCEPT !.cwd = d.cwd]
        BY DEF t
      <3>5. listed \in SessionType /\ listed.cwd = d.cwd
        BY <3>2, <3>3, <3>4 DEF SessionType
      <3>6. /\ listed.pc = t.pc /\ listed.buff = t.buff /\ listed.out = t.out
            /\ listed.leaked = t.leaked /\ listed.handles = t.handles
        BY <3>3, <3>4 DEF SessionType
      <3> HIDE DEF listed
      <3>7. SameLoop(listed) /\ SlotsKnown(r, listed, a)
        BY <2>6, <3>5, <3>6 DEF SameLoop, SlotsKnown, t
      <3> QED
        BY <2>3, <2>4, <3>1, <3>2, <3>5, <3>7, SoundOutcome, SftpFields
    <2>8. CASE Cd(p) /\ b = Outcome(d, disk, Status(r, "FAILURE"))
      <3>1. o = Outcome(d, disk, Status(r, "FAILURE"))
        BY <2>1, <2>3, <2>8 DEF Outcome
      <3>2. SameLoop(d) /\ d.handles = sftp.handles /\ TreeOf(disk, d.cwd)
        BY <2>8, CdMoves
      <3> QED
        BY <2>5, <3>1, <3>2, SoundOutcome, SameSlots, SftpFields
    <2>9. CASE b = Says(r, "FAILURE")
      <3>1. o = Says(r, "FAILURE")
        BY <2>1, <2>3, <2>9 DEF Outcome, Says
      <3> QED
        BY <3>1, SaysIsSound DEF Codes
    <2> QED
      BY <2>1, <2>2, <2>7, <2>8, <2>9, IfPossibleIs
  <1> QED
    BY <1>1, <1>2, <1>3

\* Something put at a node that is no directory, or a directory at any node: the
\* parent is a directory, so the disk stays a tree.
LEMMA PutIsTree ==
  ASSUME NEW files \in DiskType, NEW p \in Nodes, NEW node \in NodeType, NEW cwd \in Nodes, TreeOf(files, cwd),
         files[Parent(p)].kind = "dir", files[p].kind # "dir" \/ node.kind = "dir"
  PROVE  [files EXCEPT ![p] = node] \in DiskType /\ TreeOf([files EXCEPT ![p] = node], cwd)
  <1> DEFINE put == [files EXCEPT ![p] = node]
  <1>1. put \in DiskType
    BY DEF DiskType
  <1>2. put[p] = node /\ \A q \in Nodes : q # p => put[q] = files[q]
    BY DEF DiskType
  <1>3. \A q \in Nodes : Parent(q) \in Nodes
    BY DEF Parent, Nodes
  <1> HIDE DEF put
  <1>4. put[cwd].kind = "dir"
    BY <1>2 DEF TreeOf
  <1>5. ASSUME NEW q \in Nodes, put[q].kind # "none"
        PROVE  put[Parent(q)].kind = "dir"
    <2>1. files[Parent(q)].kind = "dir"
      BY <1>2, <1>5 DEF TreeOf
    <2> QED
      BY <1>2, <1>3, <2>1
  <1> QED
    BY <1>1, <1>4, <1>5 DEF TreeOf, put

\* A directory that is empty, and that the session is not in, can go.
LEMMA RemoveIsTree ==
  ASSUME NEW p \in Nodes, NEW cwd \in Nodes, disk \in DiskType, TreeOf(disk, cwd), Removable(p, cwd)
  PROVE  [disk EXCEPT ![p] = NoFile] \in DiskType /\ TreeOf([disk EXCEPT ![p] = NoFile], cwd)
  <1> DEFINE put == [disk EXCEPT ![p] = NoFile]
  <1>0. NoFile \in NodeType /\ NoFile.kind = "none"
    BY DEF NoFile, NodeType
  <1>1. put \in DiskType
    BY <1>0 DEF DiskType
  <1>2. put[p] = NoFile /\ \A q \in Nodes : q # p => put[q] = disk[q]
    BY DEF DiskType
  <1>3. \A q \in Nodes : Parent(q) \in Nodes
    BY DEF Parent, Nodes
  <1>4. cwd # p /\ \A q \in Nodes : q # p /\ Parent(q) = p => disk[q].kind = "none"
    BY DEF Removable, Inside
  <1> HIDE DEF put
  <1>5. put[cwd].kind = "dir"
    BY <1>2, <1>4 DEF TreeOf
  <1>6. ASSUME NEW q \in Nodes, put[q].kind # "none"
        PROVE  put[Parent(q)].kind = "dir"
    <2>1. disk[Parent(q)].kind = "dir" /\ q # p
      BY <1>0, <1>2, <1>6 DEF TreeOf
    <2>2. Parent(q) # p
      BY <1>2, <1>4, <1>6, <2>1
    <2> QED
      BY <1>2, <1>3, <2>1, <2>2
  <1> QED
    BY <1>1, <1>5, <1>6 DEF TreeOf, put

\* What is put on the disk is of its type.
LEMMA NodesHaveTypes ==
  /\ Dir \in NodeType /\ NoFile \in NodeType /\ File(<<>>) \in NodeType
  /\ Dir.kind = "dir" /\ NoFile.kind = "none"
  /\ \A data \in Seq(SftpBlocks) : File(data) \in NodeType /\ File(data).kind = "file" /\ File(data).data = data
  BY DEF Dir, NoFile, File, NodeType

\* A change of the disk alone, said to be done.
LEMMA ChangeIsSound ==
  ASSUME NEW r \in SftpRequest, SftpTypes, DiskIsTree, r.type # "CLOSE", NEW possible \in BOOLEAN, NEW files,
         possible => files \in DiskType /\ TreeOf(files, sftp.cwd),
         NEW o \in IfPossible(r, possible, OKWith(r, files))
  PROVE  Sound(r, o)
  <1>1. Status(r, "OK") \in SftpAnswer /\ Status(r, "OK").id = r.id
    BY StatusIsAnswer DEF Codes
  <1>2. o \in IfPossible(r, possible, Outcome(sftp, files, Status(r, "OK")))
    BY DEF OKWith
  <1> QED
    BY <1>1, <1>2, SftpFields, IfPossibleIsSound

\* MKDIR makes a directory where there is none, under one.
LEMMA MkDirIsSound ==
  ASSUME NEW r \in SftpRequest, SftpTypes, DiskIsTree, r.type = "MKDIR", NEW o \in MkDir(r)
  PROVE  Sound(r, o)
  <1> DEFINE possible == r.path # "." /\ There(r.path).kind = "none" /\ CanCreate(r.path)
  <1>1. ASSUME possible
        PROVE  Writes(r.path, Dir) \in DiskType /\ TreeOf(Writes(r.path, Dir), sftp.cwd)
    BY <1>1, PutIsTree, NodesHaveTypes, SftpFields DEF Writes, CanCreate
  <1>2. o \in IfPossible(r, possible, OKWith(r, Writes(r.path, Dir)))
    BY DEF MkDir
  <1>3. possible \in BOOLEAN
    OBVIOUS
  <1> HIDE DEF possible
  <1> QED
    BY <1>1, <1>2, <1>3, ChangeIsSound

\* REMOVE takes a file, which has nothing under it.
LEMMA DeleteIsSound ==
  ASSUME NEW r \in SftpRequest, SftpTypes, DiskIsTree, r.type = "REMOVE", NEW o \in Delete(r)
  PROVE  Sound(r, o)
  <1> DEFINE possible == There(r.path).kind = "file"
  <1>1. ASSUME possible
        PROVE  Writes(r.path, NoFile) \in DiskType /\ TreeOf(Writes(r.path, NoFile), sftp.cwd)
    <2>1. Abs(r.path) \in Nodes /\ disk[Abs(r.path)].kind = "file"
      BY <1>1, ThereIsNode
    <2>2. disk[Parent(Abs(r.path))].kind = "dir"
      BY <2>1, SftpFields DEF TreeOf
    <2> QED
      BY <2>1, <2>2, PutIsTree, NodesHaveTypes, SftpFields DEF Writes
  <1>2. o \in IfPossible(r, possible, OKWith(r, Writes(r.path, NoFile)))
    BY DEF Delete
  <1>3. possible \in BOOLEAN
    OBVIOUS
  <1> HIDE DEF possible
  <1> QED
    BY <1>1, <1>2, <1>3, ChangeIsSound

\* RENAME moves what is there to where nothing is and it can be made.
LEMMA RenameIsSound ==
  ASSUME NEW r \in SftpRequest, SftpTypes, DiskIsTree, r.type = "RENAME", NEW o \in Rename(r)
  PROVE  Sound(r, o)
  <1> DEFINE possible == There(r.path).kind = "file" /\ There(r.to).kind = "none" /\ CanCreate(r.to)
             files == [disk EXCEPT ![Abs(r.path)] = NoFile, ![Abs(r.to)] = There(r.path)]
             gone == [disk EXCEPT ![Abs(r.path)] = NoFile]
  <1>1. ASSUME possible
        PROVE  files \in DiskType /\ TreeOf(files, sftp.cwd)
    <2>1. Abs(r.path) \in Nodes /\ disk[Abs(r.path)].kind = "file"
      BY <1>1, ThereIsNode
    <2>2. disk[Parent(Abs(r.path))].kind = "dir"
      BY <2>1, SftpFields DEF TreeOf
    <2>3. gone \in DiskType /\ TreeOf(gone, sftp.cwd)
      BY <2>1, <2>2, PutIsTree, NodesHaveTypes, SftpFields
    <2>4. Abs(r.to) \in Nodes /\ disk[Parent(Abs(r.to))].kind = "dir" /\ disk[Abs(r.to)].kind = "none"
      BY <1>1, ThereIsNode DEF CanCreate
    <2>5. Parent(Abs(r.to)) \in Nodes
      BY DEF Parent, Nodes
    <2>6. gone[Parent(Abs(r.to))].kind = "dir" /\ gone[Abs(r.to)].kind = "none"
      BY <2>1, <2>4, <2>5, SftpFields DEF DiskType
    <2>7. There(r.path) = disk[Abs(r.path)] /\ There(r.path) \in NodeType
      BY <2>1, ThereIsNode, SftpFields DEF DiskType
    <2>8. files = [gone EXCEPT ![Abs(r.to)] = There(r.path)]
      OBVIOUS
    <2> HIDE DEF gone, files
    <2> QED
      BY <2>3, <2>4, <2>6, <2>7, <2>8, PutIsTree, SftpFields
  <1>2. o \in IfPossible(r, possible, OKWith(r, files))
    BY DEF Rename
  <1>3. possible \in BOOLEAN
    OBVIOUS
  <1> HIDE DEF possible, files
  <1> QED
    BY <1>1, <1>2, <1>3, ChangeIsSound

\* RMDIR: the session is in the parent of its directory before it removes one.
LEMMA RmDirIsSound ==
  ASSUME NEW r \in SftpRequest, SftpTypes, DiskIsTree, r.type = "RMDIR", NEW o \in RmDir(r)
  PROVE  Sound(r, o)
  <1> DEFINE up == [sftp EXCEPT !.cwd = Parent(@)]
             p  == IF r.path = "d" THEN IF up.cwd = "/c" THEN "/c/d" ELSE "/c/d/d" ELSE r.path
             gone == [disk EXCEPT ![p] = NoFile]
  <1>1. CASE r.path = "."
    BY <1>1, SaysIsSound DEF RmDir, Codes
  <1>2. CASE r.path # "."
    <2>1. o \in Impersonated(r, IF Removable(p, up.cwd) THEN Outcome(up, gone, Status(r, "OK"))
                                ELSE Outcome(up, disk, Status(r, "FAILURE")))
      BY <1>2 DEF RmDir
    <2>2. Parent(sftp.cwd) \in Nodes /\ disk[Parent(sftp.cwd)].kind = "dir"
      <3>1. disk[sftp.cwd].kind # "none"
        BY SftpFields DEF TreeOf
      <3> QED
        BY <3>1, SftpFields DEF TreeOf, Parent, Nodes
    <2>3. /\ up \in SessionType /\ up.cwd = Parent(sftp.cwd) /\ up.handles = sftp.handles /\ up.leaked = sftp.leaked
          /\ up.pc = sftp.pc /\ up.buff = sftp.buff /\ up.out = sftp.out
      BY <2>2, SftpFields DEF SessionType
    <2>4. SameLoop(up) /\ TreeOf(disk, up.cwd)
      BY <2>2, <2>3, SftpFields DEF SameLoop, TreeOf
    <2>5. Status(r, "OK") \in SftpAnswer /\ Status(r, "OK").id = r.id
      BY StatusIsAnswer DEF Codes
    <2>6. Status(r, "FAILURE") \in SftpAnswer /\ Status(r, "FAILURE").id = r.id
      BY StatusIsAnswer DEF Codes
    <2>7. up.cwd \in Nodes
      BY <2>2, <2>3
    <2> HIDE DEF up, p
    <2>8. CASE Removable(p, up.cwd)
      <3>1. gone \in DiskType /\ TreeOf(gone, up.cwd)
        <4>1. p \in Nodes
          BY <2>8 DEF Removable
        <4> QED
          BY <2>4, <2>7, <2>8, <4>1, RemoveIsTree, SftpFields
      <3>2. o \in Impersonated(r, Outcome(up, gone, Status(r, "OK")))
        BY <2>1, <2>8
      <3> HIDE DEF gone
      <3> QED
        BY <2>3, <2>4, <2>5, <3>1, <3>2, ImpersonatedIsSound
    <2>9. CASE ~Removable(p, up.cwd)
      BY <2>1, <2>3, <2>4, <2>6, <2>9, ImpersonatedIsSound, SftpFields
    <2> QED
      BY <2>8, <2>9
  <1> QED
    BY <1>1, <1>2

\* OPEN.
LEMMA OpenIsSound ==
  ASSUME NEW r \in SftpRequest, SftpTypes, DiskIsTree, r.type = "OPEN", NEW o \in Open(r)
  PROVE  Sound(r, o)
  <1> DEFINE h == OpenSftpHandle(r.path)
             lost == IF h = NoHandle THEN sftp ELSE [Opened(h) EXCEPT !.leaked = @ \cup {h}]
             makes == There(r.path).kind # "dir" /\ CanCreate(r.path)
             made == Writes(r.path, File(<<>>))
             granted(files) == Outcome(Opened(h), files, Answer(r, "HANDLE", h))
             leaked(files) == Outcome(lost, files, Status(r, "FAILURE"))
  <1>1. /\ SameLoop(Opened(h)) /\ Opened(h).cwd = sftp.cwd /\ Opened(h).leaked = sftp.leaked
        /\ SlotsKnown(r, Opened(h), Answer(r, "HANDLE", h))
        /\ Answer(r, "HANDLE", h) \in SftpAnswer /\ Answer(r, "HANDLE", h).id = r.id
    BY OpenedIsSound
  <1>2. h \in SftpHandles
    BY AskFields, SftpFields, OpenedHandle
  <1>3. Status(r, "FAILURE") \in SftpAnswer /\ Status(r, "FAILURE").id = r.id
    BY StatusIsAnswer DEF Codes
  <1>4. SameLoop(lost) /\ lost.cwd = sftp.cwd /\ SlotsKnown(r, lost, Status(r, "FAILURE"))
    <2>1. CASE h = NoHandle
      BY <2>1, SftpFields, SameSlots
    <2>2. CASE h # NoHandle
      <3> DEFINE s == Opened(h)
                 a == Answer(r, "HANDLE", h)
      <3>1. s \in SessionType /\ s.leaked \in SUBSET SftpHandles
        BY <1>1 DEF SameLoop, SessionType
      <3>2. lost = [s EXCEPT !.leaked = @ \cup {h}]
        BY <2>2
      <3>3. a.what = h
        BY DEF Answer
      <3> HIDE DEF s, a, lost, h
      <3>4. lost \in SessionType /\ lost.leaked = s.leaked \cup {h}
        BY <1>2, <3>1, <3>2 DEF SessionType
      <3>5. /\ lost.handles = s.handles /\ lost.cwd = s.cwd
            /\ lost.pc = s.pc /\ lost.buff = s.buff /\ lost.out = s.out
        BY <3>1, <3>2 DEF SessionType
      <3>6. SlotsKnown(r, s, a) /\ SameLoop(s) /\ s.cwd = sftp.cwd
        BY <1>1 DEF s, a
      <3> QED
        BY <3>3, <3>4, <3>5, <3>6 DEF SameLoop, SlotsKnown
    <2> QED
      BY <2>1, <2>2
  <1>5. ASSUME makes
        PROVE  made \in DiskType /\ TreeOf(made, sftp.cwd)
    <2>1. Abs(r.path) \in Nodes /\ disk[Parent(Abs(r.path))].kind = "dir" /\ disk[Abs(r.path)].kind # "dir"
      BY <1>5, ThereIsNode DEF CanCreate
    <2> QED
      BY <2>1, PutIsTree, NodesHaveTypes, SftpFields DEF Writes
  <1>6. \/ o = granted(disk) \/ o = leaked(disk)
        \/ makes /\ (o = granted(made) \/ o = leaked(made))
    BY DEF Open
  <1> HIDE DEF h, lost, makes, made
  <1>7. \A files \in DiskType : TreeOf(files, sftp.cwd) => Sound(r, granted(files)) /\ Sound(r, leaked(files))
    BY <1>1, <1>3, <1>4, SoundOutcome
  <1> QED
    BY <1>5, <1>6, <1>7, SftpFields

\* The lesser of two numbers.
LEMMA MinOfTwo ==
  ASSUME NEW a \in Nat, NEW b \in Nat
  PROVE  Min({a, b}) = IF a <= b THEN a ELSE b
  BY DEF Min

\* What a READ answers is a part of the file.
LEMMA DataRead ==
  ASSUME NEW data \in Seq(SftpBlocks), NEW off \in Nat
  PROVE  LET read == SubSeq(data, off + 1, Min({off + ReadSize, Len(data)}))
         IN  read \in Seq(SftpBlocks) /\ read = SubSeq(data, off + 1, off + Len(read))
  <1> DEFINE last == Min({off + ReadSize, Len(data)})
             read == SubSeq(data, off + 1, last)
  <1>1. ReadSize \in Nat
    BY SftpAssumption, Zenon
  <1>2. Len(data) \in Nat
    BY LenProperties
  <1>3. last \in Nat /\ last <= Len(data)
    BY <1>1, <1>2, MinOfTwo
  <1> HIDE DEF last
  <1>4. CASE off + 1 <= last
    <2>1. read \in Seq(SftpBlocks) /\ Len(read) = last - off
      BY <1>2, <1>3, <1>4, SubSeqProperties
    <2>2. off + Len(read) = last
      BY <1>3, <1>4, <2>1
    <2> QED
      BY <2>1, <2>2 DEF last
  <1>5. CASE ~ (off + 1 <= last)
    <2>1. read = <<>> /\ SubSeq(data, off + 1, off + 0) = <<>>
      BY <1>2, <1>3, <1>5, SubSeqProperties
    <2> HIDE DEF read
    <2>2. Len(read) = 0
      BY <2>1
    <2>3. read \in Seq(SftpBlocks) /\ read = SubSeq(data, off + 1, off + Len(read))
      BY <2>1, <2>2
    <2> QED
      BY <2>3 DEF last, read
  <1> QED
    BY <1>4, <1>5

\* READ.
LEMMA ReadIsSound ==
  ASSUME NEW r \in SftpRequest, SftpTypes, DiskIsTree, r.type = "READ", NEW o \in Read(r)
  PROVE  Sound(r, o)
  <1> DEFINE p == GetSftpHandleFile(r.handle)
             data == SubSeq(There(p).data, r.off + 1, Min({r.off + ReadSize, Len(There(p).data)}))
             s == IF Len(data) = ReadSize THEN sftp ELSE SetSftpHandleState(r.handle, "closed")
             a == Answer(r, "DATA", data)
  <1>1. CASE o = Says(r, "EOF") \/ o = Says(r, "FAILURE")
    BY <1>1, SaysIsSound DEF Codes
  <1>2. CASE There(p).kind = "file" /\ o = Outcome(s, disk, a)
    <2>1. There(p).data \in Seq(SftpBlocks)
      BY <1>2, ThereIsNode, SftpFields
    <2> HIDE DEF p
    <2>2. data \in Seq(SftpBlocks)
      BY <2>1, AskFields, DataRead
    <2> HIDE DEF data
    <2>3. a \in SftpAnswer /\ a.id = r.id
      BY <2>2, AskFields DEF Answer, SftpAnswer
    <2> HIDE DEF a
    <2>4. SameLoop(s) /\ s.cwd = sftp.cwd /\ SlotsKnown(r, s, a)
      BY StateOfSlot, SameSlots, SftpFields, AskFields
    <2> QED
      BY <1>2, <2>3, <2>4, SoundOutcome, SftpFields
  <1>3. \/ o = Says(r, "EOF") \/ o = Says(r, "FAILURE")
        \/ There(p).kind = "file" /\ o = Outcome(s, disk, a)
    BY DEF Read
  <1> QED
    BY <1>1, <1>2, <1>3

\* WRITE puts a file whose blocks are those there and the one written.
LEMMA WriteIsSound ==
  ASSUME NEW r \in SftpRequest, SftpTypes, DiskIsTree, r.type = "WRITE", NEW o \in Write(r)
  PROVE  Sound(r, o)
  <1> DEFINE p == GetSftpHandleFile(r.handle)
             data == IF r.off = 0 THEN <<r.data>> ELSE Append(There(p).data, r.data)
             possible == There(p).kind # "dir" /\ CanCreate(p)
  <1>1. CASE ParseSftpHandle(r.handle) = 0
    BY <1>1, CrashIsSound DEF Write
  <1>2. CASE ParseSftpHandle(r.handle) # 0
    <2>1. o \in IfPossible(r, possible, OKWith(r, Writes(p, File(data))))
      BY <1>2 DEF Write
    <2>2. possible \in BOOLEAN
      OBVIOUS
    <2>3. ASSUME possible
          PROVE  Writes(p, File(data)) \in DiskType /\ TreeOf(Writes(p, File(data)), sftp.cwd)
      <3>1. Abs(p) \in Nodes /\ disk[Parent(Abs(p))].kind = "dir" /\ disk[Abs(p)].kind # "dir"
        BY <2>3, ThereIsNode DEF CanCreate
      <3>2. There(p).data \in Seq(SftpBlocks) /\ r.data \in SftpBlocks
        BY <3>1, ThereIsNode, SftpFields, AskFields
      <3> HIDE DEF p
      <3>3. data \in Seq(SftpBlocks)
        BY <3>2
      <3> HIDE DEF data
      <3> QED
        BY <3>1, <3>3, PutIsTree, NodesHaveTypes, SftpFields DEF Writes
    <2> HIDE DEF possible, p, data
    <2> QED
      BY <2>1, <2>2, <2>3, ChangeIsSound
  <1> QED
    BY <1>1, <1>2

\* CLOSE frees the slot of its handle and leaves the others.
LEMMA CloseIsSound ==
  ASSUME NEW r \in SftpRequest, SftpTypes, DiskIsTree, r.type = "CLOSE", NEW o \in Close(r)
  PROVE  Sound(r, o)
  <1> DEFINE s == SetSftpHandleState(r.handle, "closed")
  <1>1. Status(r, "OK") \in SftpAnswer /\ Status(r, "OK").id = r.id
    BY StatusIsAnswer DEF Codes
  <1>2. SameLoop(s) /\ s.cwd = sftp.cwd /\ SlotsKnown(r, s, Status(r, "OK"))
    BY StateOfSlot, AskFields
  <1>3. o = Outcome(s, disk, Status(r, "OK"))
    BY DEF Close
  <1> HIDE DEF s
  <1> QED
    BY <1>1, <1>2, <1>3, SoundOutcome, SftpFields

\* STAT and FSTAT.
LEMMA StatIsSound ==
  ASSUME NEW r \in SftpRequest, SftpTypes, DiskIsTree, r.type \in {"STAT", "FSTAT"}, NEW o \in Stat(r)
  PROVE  Sound(r, o)
  <1> DEFINE p == IF r.type = "FSTAT" THEN GetSftpHandleFile(r.handle) ELSE r.path
             a == Answer(r, "ATTRS", There(p).kind)
  <1>1. CASE o \in Crash
    BY <1>1, CrashIsSound
  <1>2. CASE o = Says(r, "NO_SUCH_FILE") \/ o = Says(r, "FAILURE")
    BY <1>2, SaysIsSound DEF Codes
  <1>3. CASE There(p).kind # "none" /\ o = Outcome(sftp, disk, a)
    <2>1. There(p).kind \in {"file", "dir"}
      BY <1>3, ThereIsNode, SftpFields
    <2> HIDE DEF p
    <2>2. a \in SftpAnswer /\ a.id = r.id
      BY <2>1, AskFields DEF Answer, SftpAnswer
    <2> QED
      BY <1>3, <2>2, SoundOutcome, SameSlots, SftpFields
  <1>4. \/ o \in Crash \/ o = Says(r, "NO_SUCH_FILE") \/ o = Says(r, "FAILURE")
        \/ There(p).kind # "none" /\ o = Outcome(sftp, disk, a)
    BY DEF Stat
  <1> QED
    BY <1>1, <1>2, <1>3, <1>4

\* What every request comes to is sound.
LEMMA PacketIsSound ==
  ASSUME NEW r \in SftpRequest, SftpTypes, DiskIsTree, NEW o \in ProcessPacket(r)
  PROVE  Sound(r, o)
  <1>1. CASE r.type \in {"REALPATH", "OPENDIR", "READDIR", "MKDIR", "RMDIR"}
    BY <1>1, RealPathIsSound, OpenDirIsSound, ReadDirIsSound, MkDirIsSound, RmDirIsSound DEF ProcessPacket
  <1>2. CASE r.type \in {"OPEN", "READ", "WRITE", "CLOSE"}
    BY <1>2, OpenIsSound, ReadIsSound, WriteIsSound, CloseIsSound DEF ProcessPacket
  <1>3. CASE r.type \in {"REMOVE", "RENAME", "STAT", "FSTAT"}
    BY <1>3, DeleteIsSound, RenameIsSound, StatIsSound DEF ProcessPacket
  <1>4. CASE r.type = "FSETSTAT"
    BY <1>4, SaysIsSound DEF ProcessPacket, FSetStat, Codes
  <1>5. CASE r.type = "INIT"
    <2> DEFINE a == Answer(r, "VERSION", "3")
    <2>1. a \in SftpAnswer /\ a.id = r.id
      BY AskFields DEF Answer, SftpAnswer
    <2>2. o = Outcome(sftp, disk, a)
      BY <1>5 DEF ProcessPacket, InitVersion
    <2> HIDE DEF a
    <2> QED
      BY <1>5, <2>1, <2>2, SoundOutcome, SameSlots, SftpFields
  <1>6. CASE r.type \notin {"REALPATH", "OPENDIR", "READDIR", "MKDIR", "RMDIR", "OPEN", "READ", "WRITE", "CLOSE",
                            "REMOVE", "RENAME", "STAT", "FSTAT", "FSETSTAT", "INIT"}
    BY <1>6, SaysIsSound DEF ProcessPacket, Unsupported, Codes
  <1> QED
    BY <1>1, <1>2, <1>3, <1>4, <1>5, <1>6

\* What a WRITE does to the disk, if anything.
LEMMA WriteOutcome ==
  ASSUME NEW r \in SftpRequest, SftpTypes, DiskIsTree, NEW o \in Write(r), o.disk # disk
  PROVE  LET p == Abs(r.handle[2])
         IN  /\ p \in Nodes
             /\ o.disk = [disk EXCEPT ![p] = File(IF r.off = 0 THEN <<r.data>> ELSE Append(disk[p].data, r.data))]
  <1> DEFINE p == GetSftpHandleFile(r.handle)
             data == IF r.off = 0 THEN <<r.data>> ELSE Append(There(p).data, r.data)
             possible == There(p).kind # "dir" /\ CanCreate(p)
  <1>1. ParseSftpHandle(r.handle) # 0
    BY DEF Write, Crash
  <1>2. o \in IfPossible(r, possible, OKWith(r, Writes(p, File(data))))
    BY <1>1 DEF Write
  <1>3. p = r.handle[2]
    BY <1>1 DEF GetSftpHandleFile, ParseSftpHandle
  <1>4. possible /\ o.disk = Writes(p, File(data))
    <2>1. o \in IfPossible(r, possible, Outcome(sftp, Writes(p, File(data)), Status(r, "OK")))
      BY <1>2 DEF OKWith
    <2>2. possible \in BOOLEAN
      OBVIOUS
    <2> HIDE DEF possible, p, data
    <2>3. \/ possible /\ \/ o = Outcome(sftp, Writes(p, File(data)), Status(r, "OK"))
                         \/ o = Outcome(sftp, Writes(p, File(data)), Status(r, "FAILURE"))
          \/ o = Says(r, "FAILURE")
      BY <2>1, <2>2, IfPossibleIs
    <2> QED
      BY <2>3 DEF Outcome, Says
  <1>5. Abs(p) \in Nodes /\ There(p) = disk[Abs(p)]
    BY <1>4, ThereIsNode DEF CanCreate
  <1> QED
    BY <1>3, <1>4, <1>5 DEF Writes

\* The history of the writes is right about the disk.
Landed(w, files) == w \in WrittenType /\ \A p \in Nodes : w[p].inOrder => files[p].data = w[p].data

\* A file is on the disk as the writes in sequence left it.
LEMMA WrittenLands ==
  ASSUME NEW r \in SftpRequest, SftpTypes, DiskIsTree, WritesLand, NEW o \in ProcessPacket(r)
  PROVE  Landed(Written(r, o), o.disk)
  <1>1. o.disk \in DiskType
    BY PacketIsSound DEF Sound
  <1>2. written \in WrittenType
    BY DEF SftpTypes
  <1>3. CASE r.type # "WRITE" \/ o.disk = disk
    <2>1. Written(r, o) = [q \in Nodes |-> IF o.disk[q] = disk[q] THEN written[q]
                                          ELSE [data |-> o.disk[q].data, inOrder |-> TRUE]]
      BY <1>3 DEF Written
    <2>2. ASSUME NEW q \in Nodes
          PROVE  [data |-> o.disk[q].data, inOrder |-> TRUE] \in [data : Seq(SftpBlocks), inOrder : BOOLEAN]
      BY <1>1 DEF DiskType, NodeType
    <2>3. Written(r, o) \in WrittenType
      BY <1>2, <2>1, <2>2 DEF WrittenType
    <2>4. ASSUME NEW q \in Nodes, Written(r, o)[q].inOrder
          PROVE  o.disk[q].data = Written(r, o)[q].data
      BY <2>1, <2>4 DEF WritesLand
    <2> QED
      BY <2>3, <2>4 DEF Landed
  <1>4. CASE r.type = "WRITE" /\ o.disk # disk
    <2> DEFINE p == Abs(r.handle[2])
               w == [data    |-> IF r.off = 0 THEN <<r.data>> ELSE Append(written[p].data, r.data),
                     inOrder |-> r.off = 0 \/ (written[p].inOrder /\ r.off = Len(written[p].data))]
    <2>1. o \in Write(r)
      BY <1>4 DEF ProcessPacket
    <2>2. /\ p \in Nodes
          /\ o.disk = [disk EXCEPT ![p] = File(IF r.off = 0 THEN <<r.data>> ELSE Append(disk[p].data, r.data))]
      BY <1>4, <2>1, WriteOutcome
    <2>3. Written(r, o) = [written EXCEPT ![p] = w]
      BY <1>4 DEF Written
    <2>4. written[p].data \in Seq(SftpBlocks) /\ r.data \in SftpBlocks
      BY <1>2, <2>2, AskFields DEF WrittenType
    <2>5. w.data \in Seq(SftpBlocks) /\ w.inOrder \in BOOLEAN
      BY <2>4
    <2>6. w \in [data : Seq(SftpBlocks), inOrder : BOOLEAN]
      BY <2>5
    <2>7. Written(r, o) \in WrittenType
      BY <1>2, <2>2, <2>3, <2>6 DEF WrittenType
    <2>8. w.inOrder => o.disk[p].data = w.data
      <3>1. o.disk[p].data = IF r.off = 0 THEN <<r.data>> ELSE Append(disk[p].data, r.data)
        BY <2>2, SftpFields DEF DiskType, File
      <3> QED
        BY <2>2, <3>1 DEF WritesLand
    <2> HIDE DEF p, w
    <2>9. ASSUME NEW q \in Nodes, Written(r, o)[q].inOrder
          PROVE  o.disk[q].data = Written(r, o)[q].data
      <3>1. CASE q = p
        BY <1>2, <2>2, <2>3, <2>8, <2>9, <3>1 DEF WrittenType
      <3>2. CASE q # p
        <4>1. o.disk[q] = disk[q] /\ Written(r, o)[q] = written[q]
          BY <1>2, <2>2, <2>3, <3>2, SftpFields DEF WrittenType, DiskType
        <4> QED
          BY <2>9, <4>1 DEF WritesLand
      <3> QED
        BY <3>1, <3>2
    <2> QED
      BY <2>7, <2>9 DEF Landed
  <1> QED
    BY <1>3, <1>4

\* A sequence of three.
LEMMA ThreeInARow ==
  ASSUME NEW S, NEW a \in S, NEW b \in S, NEW c \in S
  PROVE  <<a, b, c>> \in Seq(S)
  OBVIOUS

\* The initial state.
LEMMA SftpStarts == SftpInit => SftpIndInv
  <1> SUFFICES ASSUME SftpInit
               PROVE  SftpIndInv
    OBVIOUS
  <1>1. "" \in SftpPaths /\ "x" \in SftpBlocks /\ "y" \in SftpBlocks /\ "z" \in SftpBlocks
    BY DEF SftpPaths, SftpBlocks
  <1> DEFINE slots == [i \in Slots |-> [file |-> "", state |-> "closed"]]
  <1>2. sftp = [pc |-> "receive", buff |-> <<>>, half |-> FALSE, out |-> <<>>, cwd |-> "/c",
                leaked |-> {}, handles |-> slots]
    BY DEF SftpInit
  <1>3. disk = [p \in Nodes |-> CASE p \in {"/c", "/c/d"} -> Dir
                                  [] p = "/c/f" -> File(<<"x", "y", "z">>)
                                  [] OTHER -> NoFile]
    BY DEF SftpInit
  <1>4. PICK menu \in SftpMenus : sftpUser = [menu |-> menu, sent |-> 0, told |-> 0, held |-> {}]
    BY DEF SftpInit
  <1>5. wire = <<>> /\ written = [p \in Nodes |-> [data |-> disk[p].data, inOrder |-> TRUE]]
    BY DEF SftpInit
  <1>6. sftp \in SessionType
    <2>1. slots \in [Slots -> SlotType] /\ "/c" \in Nodes
      BY <1>1 DEF SlotType, Nodes
    <2>2. <<>> \in Seq(SftpRequest) /\ <<>> \in Seq(SftpAnswer)
      OBVIOUS
    <2> HIDE DEF slots
    <2> QED
      BY <1>2, <2>1, <2>2 DEF SessionType
  <1>7. disk \in DiskType
    <2>1. <<"x", "y", "z">> \in Seq(SftpBlocks)
      BY <1>1, ThreeInARow
    <2>2. File(<<"x", "y", "z">>) \in NodeType
      BY <2>1, NodesHaveTypes
    <2> QED
      BY <1>3, <2>2, NodesHaveTypes DEF DiskType
  <1>8. sftpUser \in UserType
    BY <1>4 DEF UserType
  <1>9. written \in WrittenType
    <2>1. \A p \in Nodes : disk[p].data \in Seq(SftpBlocks)
      BY <1>7 DEF DiskType, NodeType
    <2> QED
      BY <1>5, <2>1 DEF WrittenType
  <1>10. wire \in Seq(SftpRequest)
    BY <1>5
  <1>11. Numbered
    <2>1. sftp.out = <<>> /\ sftp.buff = <<>> /\ wire = <<>>
      BY <1>2, <1>5
    <2>2. sftpUser.sent = 0 /\ sftpUser.told = 0
      BY <1>4
    <2>3. Len(sftp.out) = 0 /\ Len(sftp.buff) = 0 /\ Len(wire) = 0
      BY <2>1
    <2> QED
      BY <2>2, <2>3 DEF Numbered, Follows
  <1>12. OpenIsKnown
    BY <1>2 DEF OpenIsKnown
  <1>13. DiskIsTree
    BY <1>2, <1>3, NodesHaveTypes DEF DiskIsTree, Nodes, Parent, NoFile, File, Dir
  <1>14. WritesLand
    BY <1>5 DEF WritesLand
  <1> QED
    BY <1>6, <1>7, <1>8, <1>9, <1>10, <1>11, <1>12, <1>13, <1>14 DEF SftpIndInv, SftpTypes

\* What the invariant says of the session, the client and the wire.
LEMMA StateFields ==
  ASSUME SftpTypes
  PROVE  /\ sftp.pc \in {"process", "send", "receive", "ended"} /\ sftp.half \in BOOLEAN
         /\ sftp.buff \in Seq(SftpRequest) /\ sftp.out \in Seq(SftpAnswer) /\ wire \in Seq(SftpRequest)
         /\ Len(sftp.buff) \in Nat /\ Len(sftp.out) \in Nat /\ Len(wire) \in Nat
         /\ sftpUser.menu \in SftpMenus /\ sftpUser.sent \in Nat /\ sftpUser.told \in Nat
         /\ sftpUser.held \subseteq HandleAnswer
  BY LenProperties DEF SftpTypes, SessionType, UserType

\* What a session that only moves on in its loop keeps.
Moved(s, pc, buff, half, out) ==
  [[[[s EXCEPT !.pc = pc] EXCEPT !.buff = buff] EXCEPT !.half = half] EXCEPT !.out = out]
\* What a step of the loop changes of the session, and what it leaves.
LEMMA LoopMoves ==
  ASSUME NEW pc \in {"process", "send", "receive", "ended"}, NEW buff \in Seq(SftpRequest),
         NEW half \in BOOLEAN, NEW out \in Seq(SftpAnswer), NEW s \in SessionType
  PROVE  /\ Moved(s, pc, buff, half, out) \in SessionType
         /\ Moved(s, pc, buff, half, out).pc = pc /\ Moved(s, pc, buff, half, out).buff = buff
         /\ Moved(s, pc, buff, half, out).half = half /\ Moved(s, pc, buff, half, out).out = out
         /\ Moved(s, pc, buff, half, out).cwd = s.cwd /\ Moved(s, pc, buff, half, out).leaked = s.leaked
         /\ Moved(s, pc, buff, half, out).handles = s.handles
  <1> DEFINE a == [s EXCEPT !.pc = pc]
             b == [a EXCEPT !.buff = buff]
             c == [b EXCEPT !.half = half]
             d == [c EXCEPT !.out = out]
  <1>1. /\ a \in SessionType /\ a.pc = pc
        /\ a.cwd = s.cwd /\ a.leaked = s.leaked /\ a.handles = s.handles
    BY DEF SessionType
  <1>3. Moved(s, pc, buff, half, out) = d
    BY DEF Moved
  <1> HIDE DEF a
  <1>4. /\ b \in SessionType /\ b.pc = pc /\ b.buff = buff
        /\ b.cwd = s.cwd /\ b.leaked = s.leaked /\ b.handles = s.handles
    BY <1>1 DEF SessionType
  <1> HIDE DEF b
  <1>5. /\ c \in SessionType /\ c.pc = pc /\ c.buff = buff /\ c.half = half
        /\ c.cwd = s.cwd /\ c.leaked = s.leaked /\ c.handles = s.handles
    BY <1>4 DEF SessionType
  <1> HIDE DEF c
  <1>6. /\ d \in SessionType /\ d.pc = pc /\ d.buff = buff /\ d.half = half /\ d.out = out
        /\ d.cwd = s.cwd /\ d.leaked = s.leaked /\ d.handles = s.handles
    BY <1>5 DEF SessionType
  <1> HIDE DEF d
  <1> QED
    BY <1>3, <1>6

\* A sequence and one more.
LEMMA OneMore ==
  ASSUME NEW S, NEW out \in Seq(S), NEW a \in S
  PROVE  /\ out \o <<a>> \in Seq(S) /\ Len(out \o <<a>>) = Len(out) + 1
         /\ \A i \in 1..Len(out) : (out \o <<a>>)[i] = out[i]
         /\ (out \o <<a>>)[Len(out) + 1] = a
  <1>1. <<a>> \in Seq(S) /\ Len(<<a>>) = 1 /\ <<a>>[1] = a /\ Len(out) \in Nat
    BY LenProperties
  <1> QED
    BY <1>1, ConcatProperties

\* A sequence and one less.
LEMMA OneLess ==
  ASSUME NEW S, NEW buff \in Seq(S), buff # <<>>
  PROVE  /\ Head(buff) \in S /\ Head(buff) = buff[1] /\ Tail(buff) \in Seq(S) /\ Len(Tail(buff)) = Len(buff) - 1
         /\ \A i \in 1..Len(Tail(buff)) : Tail(buff)[i] = buff[i + 1]
         /\ Len(buff) \in Nat /\ Len(buff) >= 1
  BY HeadTailProperties, EmptySeq, LenProperties

\* An answer has the number of its request, the first of those in the buffer.
LEMMA NumbersMove ==
  ASSUME NEW S, NEW T, NEW out \in Seq(S), NEW buff \in Seq(T), buff # <<>>, NEW a \in S, a.id = Head(buff).id,
         NEW told \in Nat, Follows(out, told), Follows(buff, told + Len(out))
  PROVE  /\ Len(out) + Len(buff) = Len(out \o <<a>>) + Len(Tail(buff))
         /\ Follows(out \o <<a>>, told) /\ Follows(Tail(buff), told + Len(out \o <<a>>))
  <1> DEFINE more == out \o <<a>>
             rest == Tail(buff)
  <1>1. /\ Len(more) = Len(out) + 1 /\ more[Len(out) + 1] = a
        /\ \A i \in 1..Len(out) : more[i] = out[i]
    BY OneMore
  <1>2. /\ Len(rest) = Len(buff) - 1 /\ a.id = buff[1].id /\ Len(buff) \in Nat /\ Len(buff) >= 1
        /\ \A i \in 1..Len(rest) : rest[i] = buff[i + 1]
    BY OneLess
  <1>3. Len(out) \in Nat
    BY LenProperties
  <1> HIDE DEF more, rest
  <1>4. a.id = told + (Len(out) + 1)
    BY <1>2, <1>3 DEF Follows
  <1>5. ASSUME NEW i \in 1..Len(more)
        PROVE  more[i].id = told + i
    <2>1. CASE i \in 1..Len(out)
      BY <1>1, <2>1 DEF Follows
    <2>2. CASE i = Len(out) + 1
      BY <1>1, <1>4, <2>2
    <2> QED
      BY <1>1, <1>3, <2>1, <2>2
  <1>6. ASSUME NEW i \in 1..Len(rest)
        PROVE  rest[i].id = told + Len(more) + i
    <2>1. i + 1 \in 1..Len(buff) /\ rest[i] = buff[i + 1]
      BY <1>2
    <2>2. buff[i + 1].id = told + Len(out) + (i + 1)
      BY <2>1 DEF Follows
    <2> QED
      BY <1>1, <1>3, <2>1, <2>2
  <1>7. Len(out) + Len(buff) = Len(more) + Len(rest)
    BY <1>1, <1>2, <1>3
  <1> QED
    BY <1>5, <1>6, <1>7 DEF Follows, more, rest

\* What Process makes of the session after a request that was answered.
LEMMA AfterAnswer ==
  ASSUME SftpTypes, DiskIsTree, NEW o, NEW r, NEW a \in SftpAnswer,
         o.answer = <<a>>, SameLoop(o.sftp), sftp.pc = "process", sftp.buff # <<>>
  PROVE  /\ After(o) \in SessionType /\ After(o).pc \in {"send", "process"}
         /\ After(o).out = sftp.out \o <<a>> /\ After(o).buff = Tail(sftp.buff)
         /\ After(o).cwd = o.sftp.cwd /\ After(o).leaked = o.sftp.leaked /\ After(o).handles = o.sftp.handles
         /\ After(o).pc = "send" <=> a.type \in {"DATA", "NAME"}
  <1> DEFINE s == o.sftp
             pc == IF a.type \in {"DATA", "NAME"} THEN "send" ELSE "process"
             out == sftp.out \o <<a>>
             buff == Tail(sftp.buff)
  <1>1. out \in Seq(SftpAnswer) /\ buff \in Seq(SftpRequest) /\ pc \in {"process", "send", "receive", "ended"}
    BY StateFields, OneMore, OneLess
  <1>2. s \in SessionType /\ s.pc = "process" /\ s.out = sftp.out /\ s.buff = sftp.buff
    BY DEF SameLoop
  <1>3. After(o) = [s EXCEPT !.out = out, !.buff = buff, !.pc = pc]
    BY <1>2 DEF After
  <1> HIDE DEF s, pc, out, buff
  <1>4. After(o) = Moved(s, pc, buff, s.half, out)
    BY <1>2, <1>3 DEF SessionType, Moved
  <1>5. s.half \in BOOLEAN
    BY <1>2 DEF SessionType
  <1>6. /\ After(o) \in SessionType /\ After(o).pc = pc /\ After(o).out = out /\ After(o).buff = buff
        /\ After(o).cwd = s.cwd /\ After(o).leaked = s.leaked /\ After(o).handles = s.handles
    BY <1>1, <1>2, <1>4, <1>5, LoopMoves
  <1> QED
    BY <1>6 DEF s, pc, out, buff

\* And after one that ended the process.
LEMMA AfterCrash ==
  ASSUME SftpTypes, NEW o, o.sftp \in SessionType, o.sftp.pc = "ended", o.answer = <<>>,
         o.sftp.buff = sftp.buff, o.sftp.out = sftp.out, sftp.buff # <<>>
  PROVE  After(o) \in SessionType /\ After(o).pc = "ended" /\ After(o).cwd = o.sftp.cwd
         /\ After(o).buff = Tail(sftp.buff)
  <1> DEFINE s == o.sftp
             buff == Tail(sftp.buff)
  <1>1. sftp.out \in Seq(SftpAnswer) /\ buff \in Seq(SftpRequest)
    BY StateFields, OneLess
  <1>2. sftp.out \o <<>> = sftp.out
    BY <1>1, ConcatEmptySeq
  <1>3. After(o) = [s EXCEPT !.out = sftp.out, !.buff = buff, !.pc = "ended"]
    BY <1>2 DEF After
  <1> HIDE DEF s, buff
  <1>4. After(o) = Moved(s, "ended", buff, s.half, sftp.out)
    BY <1>3 DEF SessionType, s, Moved
  <1>5. s.half \in BOOLEAN /\ s \in SessionType
    BY DEF SessionType, s
  <1>6. After(o) \in SessionType /\ After(o).pc = "ended" /\ After(o).cwd = s.cwd /\ After(o).buff = buff
    BY <1>1, <1>4, <1>5, LoopMoves
  <1> QED
    BY <1>6 DEF s, buff

\* A request is processed.
LEMMA ProcessKeeps ==
  ASSUME SftpIndInv, ProcessNext
  PROVE  SftpIndInv'
  <1> DEFINE r == Head(sftp.buff)
  <1>1. SftpTypes /\ Numbered /\ OpenIsKnown /\ DiskIsTree /\ WritesLand
    BY DEF SftpIndInv
  <1>2. PICK o \in ProcessPacket(r) : sftp' = After(o) /\ disk' = o.disk /\ written' = Written(r, o)
    BY DEF ProcessNext
  <1>3. sftp.pc = "process" /\ sftp.buff # <<>> /\ sftpUser' = sftpUser /\ wire' = wire
    <2>1. Len(sftp.buff) > 0
      BY <1>1, StateFields DEF ProcessNext
    <2>2. Len(<<>>) = 0
      OBVIOUS
    <2> QED
      BY <2>1, <2>2 DEF ProcessNext
  <1>4. r \in SftpRequest /\ r = sftp.buff[1] /\ Len(sftp.buff) \in Nat /\ Len(sftp.buff) >= 1
    BY <1>1, <1>3, StateFields, OneLess
  <1> HIDE DEF r
  <1>5. Sound(r, o) /\ Landed(Written(r, o), o.disk)
    BY <1>1, <1>2, <1>4, PacketIsSound, WrittenLands
  <1>6. written' \in WrittenType /\ WritesLand'
    BY <1>2, <1>5 DEF Landed, WritesLand
  <1>7. CASE o.sftp.pc = "ended" /\ o.answer = <<>>
    <2>1. sftp' \in SessionType /\ sftp'.pc = "ended" /\ sftp'.cwd = o.sftp.cwd
      BY <1>1, <1>2, <1>3, <1>5, <1>7, AfterCrash DEF Sound
    <2>2. disk' \in DiskType /\ TreeOf(disk', sftp'.cwd)
      BY <1>2, <1>5, <2>1 DEF Sound
    <2>3. SftpTypes' /\ DiskIsTree'
      BY <1>1, <1>3, <1>6, <2>1, <2>2 DEF SftpTypes, DiskIsTree, TreeOf
    <2>4. Numbered' /\ OpenIsKnown'
      BY <2>1 DEF Numbered, OpenIsKnown
    <2> QED
      BY <1>6, <2>3, <2>4 DEF SftpIndInv
  <1>8. CASE \E a \in SftpAnswer : o.answer = <<a>> /\ a.id = r.id /\ SameLoop(o.sftp) /\ SlotsKnown(r, o.sftp, a)
    <2>1. PICK a \in SftpAnswer : o.answer = <<a>> /\ a.id = r.id /\ SameLoop(o.sftp) /\ SlotsKnown(r, o.sftp, a)
      BY <1>8
    <2>2. /\ sftp' \in SessionType /\ sftp'.pc # "ended"
          /\ sftp'.out = sftp.out \o <<a>> /\ sftp'.buff = Tail(sftp.buff)
          /\ sftp'.cwd = o.sftp.cwd /\ sftp'.leaked = o.sftp.leaked /\ sftp'.handles = o.sftp.handles
      BY <1>1, <1>2, <1>3, <2>1, AfterAnswer
    <2>3. disk' \in DiskType /\ TreeOf(disk', sftp'.cwd)
      BY <1>2, <1>5, <2>2 DEF Sound
    <2>4. SftpTypes' /\ DiskIsTree'
      BY <1>1, <1>3, <1>6, <2>2, <2>3 DEF SftpTypes, DiskIsTree, TreeOf
    <2>5. /\ Len(sftp'.out) = Len(sftp.out) + 1
          /\ \A i \in 1..Len(sftp.out) : sftp'.out[i] = sftp.out[i]
          /\ sftp'.out[Len(sftp.out) + 1] = a
      BY <1>1, <2>2, StateFields, OneMore
    <2>6. /\ Len(sftp'.buff) = Len(sftp.buff) - 1
          /\ \A i \in 1..Len(sftp'.buff) : sftp'.buff[i] = sftp.buff[i + 1]
      BY <1>1, <1>3, <2>2, StateFields, OneLess
    <2>7. Len(sftp.out) \in Nat /\ Len(wire) \in Nat /\ sftpUser.told \in Nat /\ sftpUser.sent \in Nat
      BY <1>1, StateFields
    <2>8. Numbered'
      <3>1. /\ Follows(sftp.out, sftpUser.told)
            /\ Follows(sftp.buff, sftpUser.told + Len(sftp.out))
            /\ Follows(wire, sftpUser.told + Len(sftp.out) + Len(sftp.buff))
        BY <1>1, <1>3 DEF Numbered
      <3>2. sftpUser.sent = sftpUser.told + Len(sftp.out) + Len(sftp.buff) + Len(wire)
        BY <1>1, <1>3 DEF Numbered
      <3>3. a.id = Head(sftp.buff).id
        BY <2>1 DEF r
      <3>4. sftp.out \in Seq(SftpAnswer) /\ sftp.buff \in Seq(SftpRequest)
        BY <1>1, StateFields
      <3>5. /\ Follows(sftp.out \o <<a>>, sftpUser.told)
            /\ Follows(Tail(sftp.buff), sftpUser.told + Len(sftp.out \o <<a>>))
        BY <1>3, <2>7, <3>1, <3>3, <3>4, NumbersMove
      <3>6. /\ Follows(sftp'.out, sftpUser.told)
            /\ Follows(sftp'.buff, sftpUser.told + Len(sftp'.out))
        BY <2>2, <3>5
      <3>7. sftpUser.told + Len(sftp.out) + Len(sftp.buff) = sftpUser.told + Len(sftp'.out) + Len(sftp'.buff)
        <4>1. Len(sftp'.out) = Len(sftp.out) + 1 /\ Len(sftp'.buff) = Len(sftp.buff) - 1
          BY <2>5, <2>6
        <4>2. Len(sftp.out) \in Nat /\ Len(sftp.buff) \in Nat /\ sftpUser.told \in Nat
          BY <1>4, <2>7
        <4>3. \A m, n, told \in Nat : told + m + n = told + (m + 1) + (n - 1)
          OBVIOUS
        <4>4. sftpUser.told + Len(sftp.out) + Len(sftp.buff)
                = sftpUser.told + (Len(sftp.out) + 1) + (Len(sftp.buff) - 1)
          BY <4>2, <4>3, Zenon
        <4> QED
          BY <4>1, <4>4, Zenon
      <3> QED
        BY <1>3, <3>1, <3>2, <3>6, <3>7 DEF Numbered
    <2>9. OpenIsKnown'
      <3> SUFFICES ASSUME NEW i \in Slots, sftp'.handles[i].state # "closed",
                          NEW h, h = <<i, sftp'.handles[i].file>>
                   PROVE  Known(h)'
        BY DEF OpenIsKnown, Known
      <3>1. CASE h \in o.sftp.leaked
        BY <2>2, <3>1 DEF Known
      <3>2. CASE a.type = "HANDLE" /\ a.what = h
        <4>1. Len(sftp.out) + 1 \in 1..Len(sftp'.out)
          BY <2>5, <2>7
        <4> QED
          BY <2>5, <3>2, <4>1 DEF Known
      <3>3. CASE /\ sftp.handles[i].state # "closed" /\ sftp.handles[i].file = sftp'.handles[i].file
                 /\ r.type = "CLOSE" => r.handle # h
        <4>1. Known(h)
          BY <1>1, <1>3, <3>3 DEF OpenIsKnown
        <4>2. sftp.leaked \subseteq sftp'.leaked
          BY <2>1, <2>2 DEF SameLoop
        <4>3. ASSUME NEW j \in 1..Len(sftp.out), sftp.out[j].type = "HANDLE" /\ sftp.out[j].what = h
              PROVE  Known(h)'
          <5>1. j \in 1..Len(sftp'.out) /\ sftp'.out[j] = sftp.out[j]
            BY <2>5, <2>7
          <5> QED
            BY <4>3, <5>1 DEF Known
        <4>4. ASSUME NEW j \in 1..Len(sftp.buff), sftp.buff[j].type = "CLOSE" /\ sftp.buff[j].handle = h
              PROVE  Known(h)'
          <5>1. j # 1
            BY <1>4, <3>3, <4>4
          <5>2. j - 1 \in 1..Len(sftp'.buff) /\ (j - 1) + 1 = j
            BY <1>4, <2>6, <5>1
          <5>3. sftp'.buff[j - 1] = sftp.buff[j]
            BY <2>6, <5>2
          <5> QED
            BY <4>4, <5>2, <5>3 DEF Known
        <4> QED
          BY <1>3, <4>1, <4>2, <4>3, <4>4 DEF Known
      <3> QED
        BY <2>1, <2>2, <3>1, <3>2, <3>3 DEF SlotsKnown
    <2> QED
      BY <1>6, <2>4, <2>8, <2>9 DEF SftpIndInv
  <1> QED
    BY <1>5, <1>7, <1>8 DEF Sound

\* A session that moves on in its loop, and leaves the rest alone.
LEMMA MovesInLoop ==
  ASSUME SftpTypes, DiskIsTree, NEW pc \in {"process", "send", "receive", "ended"}, NEW buff \in Seq(SftpRequest),
         NEW half \in BOOLEAN, NEW out \in Seq(SftpAnswer), sftp' = Moved(sftp, pc, buff, half, out),
         sftpUser' \in UserType, wire' \in Seq(SftpRequest), UNCHANGED <<disk, written>>
  PROVE  /\ SftpTypes' /\ DiskIsTree'
         /\ sftp'.pc = pc /\ sftp'.buff = buff /\ sftp'.out = out
         /\ sftp'.leaked = sftp.leaked /\ sftp'.handles = sftp.handles
  <1>1. /\ sftp' \in SessionType /\ sftp'.pc = pc /\ sftp'.buff = buff /\ sftp'.out = out
        /\ sftp'.cwd = sftp.cwd /\ sftp'.leaked = sftp.leaked /\ sftp'.handles = sftp.handles
    BY SftpFields, LoopMoves
  <1>2. SftpTypes'
    BY <1>1 DEF SftpTypes
  <1>3. DiskIsTree'
    BY <1>1 DEF DiskIsTree
  <1> QED
    BY <1>1, <1>2, <1>3

\* The session ends.
LEMMA EndingKeeps ==
  ASSUME SftpIndInv, ProcessFails \/ SftpEnds
  PROVE  SftpIndInv'
  <1>1. SftpTypes /\ DiskIsTree /\ WritesLand /\ sftp \in SessionType /\ sftpUser \in UserType
    BY DEF SftpIndInv, SftpTypes
  <1>2. /\ sftp' = [sftp EXCEPT !.pc = "ended", !.out = <<>>]
        /\ UNCHANGED <<disk, sftpUser, wire, written>>
    BY DEF ProcessFails, SftpEnds
  <1>3. sftp' = Moved(sftp, "ended", sftp.buff, sftp.half, <<>>)
    BY <1>1, <1>2 DEF Moved, SessionType
  <1>4. <<>> \in Seq(SftpAnswer)
    OBVIOUS
  <1>5. /\ SftpTypes' /\ DiskIsTree' /\ sftp'.pc = "ended"
    BY <1>1, <1>2, <1>3, <1>4, StateFields, MovesInLoop
  <1>6. WritesLand'
    BY <1>1, <1>2 DEF WritesLand
  <1> QED
    BY <1>5, <1>6 DEF SftpIndInv, Numbered, OpenIsKnown

\* Process has come to the end of the buffer.
LEMMA EndsKeeps ==
  ASSUME SftpIndInv, ProcessEnds
  PROVE  SftpIndInv'
  <1>1. /\ SftpTypes /\ DiskIsTree /\ WritesLand /\ Numbered /\ OpenIsKnown
        /\ sftp \in SessionType /\ sftpUser \in UserType
    BY DEF SftpIndInv, SftpTypes
  <1>2. sftp' = [sftp EXCEPT !.pc = "send"] /\ sftp.pc # "ended"
    BY DEF ProcessEnds
  <1>3. UNCHANGED <<disk, sftpUser, wire, written>>
    BY DEF ProcessEnds
  <1>4. sftp' = Moved(sftp, "send", sftp.buff, sftp.half, sftp.out)
    BY <1>1, <1>2 DEF Moved, SessionType
  <1>5. /\ SftpTypes' /\ DiskIsTree' /\ sftp'.buff = sftp.buff /\ sftp'.out = sftp.out
        /\ sftp'.leaked = sftp.leaked /\ sftp'.handles = sftp.handles
    BY <1>1, <1>3, <1>4, StateFields, MovesInLoop
  <1>6. WritesLand'
    BY <1>1, <1>3 DEF WritesLand
  <1>7. Numbered'
    BY <1>1, <1>2, <1>3, <1>5 DEF Numbered
  <1>8. OpenIsKnown'
    BY <1>1, <1>2, <1>3, <1>5 DEF OpenIsKnown, Known
  <1> QED
    BY <1>5, <1>6, <1>7, <1>8 DEF SftpIndInv

\* The client has its answers, and the handles among them.
LEMMA SendKeeps ==
  ASSUME SftpIndInv, SendAnswers
  PROVE  SftpIndInv'
  <1>1. /\ SftpTypes /\ DiskIsTree /\ WritesLand /\ Numbered /\ OpenIsKnown
        /\ sftp \in SessionType /\ sftpUser \in UserType
    BY DEF SftpIndInv, SftpTypes
  <1>2. sftp' = [sftp EXCEPT !.pc = "receive", !.out = <<>>] /\ sftp.pc # "ended"
    BY DEF SendAnswers
  <1>3. sftpUser' = [sftpUser EXCEPT !.told = @ + Len(sftp.out), !.held = @ \cup Granted(sftp.out)]
    BY DEF SendAnswers
  <1>4. UNCHANGED <<disk, wire, written>>
    BY DEF SendAnswers
  <1>5. sftp' = Moved(sftp, "receive", sftp.buff, sftp.half, <<>>)
    BY <1>1, <1>2 DEF Moved, SessionType
  <1>6. <<>> \in Seq(SftpAnswer)
    OBVIOUS
  <1>7. Granted(sftp.out) \subseteq HandleAnswer
    <2> SUFFICES ASSUME NEW i \in DOMAIN sftp.out, sftp.out[i].type = "HANDLE", sftp.out[i].what # NoHandle
                 PROVE  sftp.out[i] \in HandleAnswer
      BY DEF Granted
    <2>1. sftp.out[i] \in SftpAnswer
      BY <1>1, StateFields, ElementOfSeq
    <2>2. sftp.out[i] \in [id : Nat, type : {"HANDLE"}, what : SftpHandles]
      BY <2>1 DEF SftpAnswer
    <2> QED
      BY <2>2 DEF HandleAnswer, SftpHandles
  <1>8. /\ sftpUser' \in UserType /\ sftpUser'.told = sftpUser.told + Len(sftp.out) /\ sftpUser'.sent = sftpUser.sent
        /\ sftpUser'.held = sftpUser.held \cup Granted(sftp.out)
    <2>1. Len(sftp.out) \in Nat
      BY <1>1, StateFields
    <2> DEFINE told == sftpUser.told + Len(sftp.out)
               held == sftpUser.held \cup Granted(sftp.out)
               u == [sftpUser EXCEPT !.told = told]
    <2>2. told \in Nat /\ held \in SUBSET HandleAnswer
      BY <1>1, <1>7, <2>1, StateFields
    <2>3. sftpUser' = [u EXCEPT !.held = held]
      BY <1>3
    <2> HIDE DEF told, held
    <2>4. u \in UserType /\ u.told = told /\ u.sent = sftpUser.sent
      BY <1>1, <2>2 DEF UserType
    <2> HIDE DEF u
    <2>5. sftpUser' \in UserType /\ sftpUser'.told = told /\ sftpUser'.sent = u.sent /\ sftpUser'.held = held
      BY <2>2, <2>3, <2>4 DEF UserType
    <2> QED
      BY <2>4, <2>5 DEF told, held
  <1>9. /\ SftpTypes' /\ DiskIsTree' /\ sftp'.buff = sftp.buff /\ sftp'.out = <<>>
        /\ sftp'.leaked = sftp.leaked /\ sftp'.handles = sftp.handles
    <2>1. wire' \in Seq(SftpRequest)
      BY <1>1, <1>4, StateFields
    <2> QED
      BY <1>1, <1>4, <1>5, <1>6, <1>8, <2>1, StateFields, MovesInLoop
  <1>10. WritesLand'
    BY <1>1, <1>4 DEF WritesLand
  <1>11. Numbered'
    <2>1. Len(<<>>) = 0
      OBVIOUS
    <2>2. Follows(<<>>, sftpUser'.told)
      BY <2>1 DEF Follows
    <2>3. \A told, m, n \in Nat : told + m = (told + m) + 0 /\ told + m + n = (told + m) + 0 + n
      OBVIOUS
    <2>4. Len(sftp.out) \in Nat /\ Len(sftp.buff) \in Nat /\ sftpUser.told \in Nat
      BY <1>1, StateFields
    <2>5. /\ sftpUser.told + Len(sftp.out) = sftpUser'.told + Len(sftp'.out)
          /\ sftpUser.told + Len(sftp.out) + Len(sftp.buff) = sftpUser'.told + Len(sftp'.out) + Len(sftp'.buff)
      BY <1>8, <1>9, <2>1, <2>3, <2>4
    <2> QED
      BY <1>1, <1>2, <1>4, <1>8, <1>9, <2>2, <2>5 DEF Numbered
  <1>12. OpenIsKnown'
    <2> SUFFICES ASSUME NEW i \in Slots, sftp.handles[i].state # "closed",
                        NEW h, h = <<i, sftp.handles[i].file>>
                 PROVE  Known(h)'
      BY <1>9 DEF OpenIsKnown, Known
    <2>1. Known(h)
      BY <1>1, <1>2 DEF OpenIsKnown
    <2>2. ASSUME NEW j \in 1..Len(sftp.out), sftp.out[j].type = "HANDLE" /\ sftp.out[j].what = h
          PROVE  \E a \in sftpUser'.held : a.what = h
      <3>1. h # NoHandle
        BY SlotsAreNumbers DEF NoHandle
      <3>2. sftp.out[j] \in Granted(sftp.out)
        BY <1>1, <2>2, <3>1, StateFields, LenProperties DEF Granted
      <3> QED
        BY <1>8, <2>2, <3>2
    <2> QED
      BY <1>4, <1>8, <1>9, <2>1, <2>2 DEF Known
  <1> QED
    BY <1>9, <1>10, <1>11, <1>12 DEF SftpIndInv

\* What is in the buffer, and what is left on the wire, after some came.
More(buff, w, k) == buff \o SubSeq(w, 1, k)
Rest(w, k) == SubSeq(w, k + 1, Len(w))
Split(buff, w, k, n) ==
  /\ More(buff, w, k) \in Seq(SftpRequest) /\ Rest(w, k) \in Seq(SftpRequest)
  /\ Len(More(buff, w, k)) = Len(buff) + k /\ Len(Rest(w, k)) = Len(w) - k
  /\ Follows(More(buff, w, k), n) /\ Follows(Rest(w, k), n + Len(More(buff, w, k)))
  /\ \A i \in 1..Len(buff) : More(buff, w, k)[i] = buff[i]
  /\ \A i \in 1..k : More(buff, w, k)[Len(buff) + i] = w[i]
  /\ \A i \in 1..(Len(w) - k) : Rest(w, k)[i] = w[k + i]

\* Requests that come from the wire into the buffer keep their numbers.
LEMMA PartMoves ==
  ASSUME NEW buff \in Seq(SftpRequest), NEW w \in Seq(SftpRequest), NEW k \in 0..Len(w), NEW n \in Nat,
         Follows(buff, n), Follows(w, n + Len(buff))
  PROVE  Split(buff, w, k, n)
  <1> DEFINE part == SubSeq(w, 1, k)
             more == buff \o part
             rest == SubSeq(w, k + 1, Len(w))
  <1>1. Len(w) \in Nat /\ Len(buff) \in Nat /\ k \in Nat /\ k <= Len(w)
    BY LenProperties
  <1>2. part \in Seq(SftpRequest) /\ Len(part) = k /\ \A i \in 1..k : part[i] = w[i]
    <2>1. CASE k = 0
      <3>1. part = <<>>
        BY <2>1, SubSeqProperties
      <3> HIDE DEF part
      <3> QED
        BY <2>1, <3>1
    <2>2. CASE k >= 1
      BY <1>1, <2>2, SubSeqProperties
    <2> QED
      BY <1>1, <2>1, <2>2
  <1>3. rest \in Seq(SftpRequest) /\ Len(rest) = Len(w) - k /\ \A i \in 1..(Len(w) - k) : rest[i] = w[k + i]
    <2>1. CASE k = Len(w)
      <3>1. rest = <<>>
        BY <1>1, <2>1, SubSeqProperties
      <3> HIDE DEF rest
      <3>2. Len(rest) = 0 /\ rest \in Seq(SftpRequest)
        BY <3>1
      <3> QED
        BY <1>1, <2>1, <3>2
    <2>2. CASE k < Len(w)
      <3>1. /\ rest \in Seq(SftpRequest) /\ Len(rest) = Len(w) - (k + 1) + 1
            /\ \A i \in 1..(Len(w) - (k + 1) + 1) : rest[i] = w[(k + 1) + i - 1]
        BY <1>1, <2>2, SubSeqProperties
      <3> HIDE DEF rest
      <3>2. Len(w) - (k + 1) + 1 = Len(w) - k
        BY <1>1
      <3> QED
        BY <1>1, <3>1, <3>2
    <2> QED
      BY <1>1, <2>1, <2>2
  <1> HIDE DEF part, rest
  <1>4. /\ more \in Seq(SftpRequest) /\ Len(more) = Len(buff) + k
        /\ \A i \in 1..Len(buff) : more[i] = buff[i]
        /\ \A i \in 1..k : more[Len(buff) + i] = w[i]
    <2>1. /\ more \in Seq(SftpRequest) /\ Len(more) = Len(buff) + Len(part)
          /\ \A i \in 1..(Len(buff) + Len(part)) : more[i] = IF i <= Len(buff) THEN buff[i] ELSE part[i - Len(buff)]
      BY <1>2, ConcatProperties
    <2> HIDE DEF more
    <2>2. \A i \in 1..Len(buff) : more[i] = buff[i]
      BY <1>1, <1>2, <2>1
    <2>3. ASSUME NEW i \in 1..k
          PROVE  more[Len(buff) + i] = w[i]
      <3>1. Len(buff) + i \in 1..(Len(buff) + Len(part)) /\ ~ (Len(buff) + i <= Len(buff)) /\ (Len(buff) + i) - Len(buff) = i
        BY <1>1, <1>2
      <3> QED
        BY <1>2, <2>1, <3>1
    <2> QED
      BY <1>2, <2>1, <2>2, <2>3
  <1> HIDE DEF more
  <1>5. ASSUME NEW i \in 1..Len(more)
        PROVE  more[i].id = n + i
    <2>1. CASE i <= Len(buff)
      BY <1>1, <1>4, <2>1 DEF Follows
    <2>2. CASE i > Len(buff)
      <3>1. i - Len(buff) \in 1..k /\ Len(buff) + (i - Len(buff)) = i
        BY <1>1, <1>4, <2>2
      <3>2. more[i] = w[i - Len(buff)]
        BY <1>4, <3>1
      <3>3. i - Len(buff) \in 1..Len(w)
        BY <1>1, <3>1
      <3>4. w[i - Len(buff)].id = n + Len(buff) + (i - Len(buff))
        BY <3>3 DEF Follows
      <3> QED
        BY <1>1, <3>1, <3>2, <3>4
    <2> QED
      BY <1>1, <1>4, <2>1, <2>2
  <1>6. ASSUME NEW i \in 1..Len(rest)
        PROVE  rest[i].id = n + Len(more) + i
    <2>1. k + i \in 1..Len(w) /\ rest[i] = w[k + i]
      BY <1>1, <1>3
    <2>2. w[k + i].id = n + Len(buff) + (k + i)
      BY <2>1 DEF Follows
    <2> QED
      BY <1>1, <1>4, <2>1, <2>2
  <1>7. More(buff, w, k) = more /\ Rest(w, k) = rest
    BY DEF More, Rest, more, rest, part
  <1> QED
    BY <1>3, <1>4, <1>5, <1>6, <1>7 DEF Split, Follows

\* Packets come.
LEMMA ReceiveKeeps ==
  ASSUME SftpIndInv, Receive
  PROVE  SftpIndInv'
  <1>1. /\ SftpTypes /\ DiskIsTree /\ WritesLand /\ Numbered /\ OpenIsKnown
        /\ sftp \in SessionType /\ sftpUser \in UserType
    BY DEF SftpIndInv, SftpTypes
  <1>2. sftp.pc = "receive" /\ UNCHANGED <<disk, sftpUser, written>>
    BY DEF Receive
  <1>3. PICK k \in (IF wire = <<>> \/ sftp.half THEN 0 ELSE 1)..Len(wire), part \in BOOLEAN :
          /\ sftp' = [sftp EXCEPT !.pc = "process", !.buff = @ \o SubSeq(wire, 1, k), !.half = part]
          /\ wire' = SubSeq(wire, k + 1, Len(wire))
    BY DEF Receive
  <1> DEFINE more == More(sftp.buff, wire, k)
             n == sftpUser.told + Len(sftp.out)
  <1>4. k \in 0..Len(wire) /\ n \in Nat /\ Len(sftp.buff) \in Nat /\ Len(wire) \in Nat /\ k \in Nat
    BY <1>1, <1>3, StateFields
  <1>5. /\ Follows(sftp.buff, n) /\ Follows(wire, n + Len(sftp.buff)) /\ Follows(sftp.out, sftpUser.told)
        /\ sftpUser.sent = n + Len(sftp.buff) + Len(wire)
    BY <1>1, <1>2 DEF Numbered
  <1>6. sftp.buff \in Seq(SftpRequest) /\ wire \in Seq(SftpRequest)
    BY <1>1, StateFields
  <1> HIDE DEF n
  <1>7. /\ more \in Seq(SftpRequest) /\ wire' \in Seq(SftpRequest)
        /\ Len(more) = Len(sftp.buff) + k /\ Len(wire') = Len(wire) - k
        /\ Follows(more, n) /\ Follows(wire', n + Len(more))
        /\ \A i \in 1..Len(sftp.buff) : more[i] = sftp.buff[i]
        /\ \A i \in 1..k : more[Len(sftp.buff) + i] = wire[i]
        /\ \A i \in 1..(Len(wire) - k) : wire'[i] = wire[k + i]
    <2>1. wire' = Rest(wire, k)
      BY <1>3 DEF Rest
    <2>2. /\ more \in Seq(SftpRequest) /\ Rest(wire, k) \in Seq(SftpRequest)
          /\ Len(more) = Len(sftp.buff) + k /\ Len(Rest(wire, k)) = Len(wire) - k
          /\ Follows(more, n) /\ Follows(Rest(wire, k), n + Len(more))
          /\ \A i \in 1..Len(sftp.buff) : more[i] = sftp.buff[i]
          /\ \A i \in 1..k : more[Len(sftp.buff) + i] = wire[i]
          /\ \A i \in 1..(Len(wire) - k) : Rest(wire, k)[i] = wire[k + i]
      <3>1. k \in 0..Len(wire) /\ n \in Nat
        BY <1>4
      <3>2. Follows(sftp.buff, n) /\ Follows(wire, n + Len(sftp.buff))
        BY <1>5
      <3>3. Split(sftp.buff, wire, k, n)
        BY <1>6, <3>1, <3>2, PartMoves
      <3> QED
        BY <3>3 DEF Split
    <2> QED
      BY <2>1, <2>2
  <1>8. sftp' = Moved(sftp, "process", more, part, sftp.out)
    BY <1>1, <1>3 DEF Moved, SessionType, More
  <1> HIDE DEF more
  <1>9. /\ SftpTypes' /\ DiskIsTree' /\ sftp'.buff = more /\ sftp'.out = sftp.out
        /\ sftp'.leaked = sftp.leaked /\ sftp'.handles = sftp.handles
    BY <1>1, <1>2, <1>7, <1>8, StateFields, MovesInLoop
  <1>10. WritesLand'
    BY <1>1, <1>2 DEF WritesLand
  <1>11. Numbered'
    <2>1. n + Len(sftp.buff) + Len(wire) = n + Len(more) + Len(wire')
      BY <1>4, <1>7
    <2> QED
      BY <1>2, <1>5, <1>7, <1>9, <2>1 DEF Numbered, n
  <1>12. OpenIsKnown'
    <2> SUFFICES ASSUME NEW i \in Slots, sftp.handles[i].state # "closed",
                        NEW h, h = <<i, sftp.handles[i].file>>
                 PROVE  Known(h)'
      BY <1>9 DEF OpenIsKnown, Known
    <2>1. Known(h)
      BY <1>1, <1>2 DEF OpenIsKnown
    <2>2. ASSUME NEW j \in 1..Len(sftp.buff), sftp.buff[j].type = "CLOSE" /\ sftp.buff[j].handle = h
          PROVE  Known(h)'
      <3>1. j \in 1..Len(sftp'.buff) /\ sftp'.buff[j] = sftp.buff[j]
        BY <1>4, <1>7, <1>9
      <3> QED
        BY <2>2, <3>1 DEF Known
    <2>3. ASSUME NEW j \in 1..Len(wire), wire[j].type = "CLOSE" /\ wire[j].handle = h
          PROVE  Known(h)'
      <3>1. CASE j <= k
        <4>1. Len(sftp.buff) + j \in 1..Len(sftp'.buff) /\ j \in 1..k
          BY <1>4, <1>7, <1>9, <3>1
        <4>2. sftp'.buff[Len(sftp.buff) + j] = wire[j]
          BY <1>7, <1>9, <4>1
        <4> QED
          BY <2>3, <4>1, <4>2 DEF Known
      <3>2. CASE j > k
        <4>1. j - k \in 1..Len(wire') /\ j - k \in 1..(Len(wire) - k) /\ k + (j - k) = j
          BY <1>4, <1>7, <3>2
        <4>2. wire'[j - k] = wire[j]
          BY <1>7, <4>1
        <4> QED
          BY <2>3, <4>1, <4>2 DEF Known
      <3> QED
        BY <1>4, <3>1, <3>2
    <2> QED
      BY <1>2, <1>9, <2>1, <2>2, <2>3 DEF Known
  <1> QED
    BY <1>9, <1>10, <1>11, <1>12 DEF SftpIndInv

\* A request of a menu, with its number and its handle.
Asked(r, num, h) == [r EXCEPT !.id = num, !.handle = h]
\* A request of the menu that was given a number and a handle is a request.
LEMMA AskIsRequest ==
  ASSUME NEW menu \in SftpMenus, NEW r \in menu.requests, NEW num \in Nat, NEW h \in SftpHandles
  PROVE  /\ Asked(r, num, h) \in SftpRequest /\ Asked(r, num, h).id = num
         /\ Asked(r, num, h).handle = h /\ Asked(r, num, h).type = r.type
  <1>1. menu \in [requests : SUBSET [type : STRING, path : STRING, to : STRING, off : Nat, data : STRING,
                                     id : {0}, handle : {<<0, "">>}],
                  faulty : BOOLEAN]
    BY SftpAssumption
  <1>2. r \in [type : STRING, path : STRING, to : STRING, off : Nat, data : STRING, id : {0}, handle : {<<0, "">>}]
    BY <1>1
  <1>3. r \in SftpAsks
    BY DEF SftpAsks
  <1>4. /\ r.type \in {ask.type : ask \in SftpAsks} /\ r.path \in {ask.path : ask \in SftpAsks}
        /\ r.to \in {ask.to : ask \in SftpAsks} /\ r.off \in Nat /\ r.data \in SftpBlocks
    BY <1>2, <1>3 DEF SftpBlocks
  <1>5. r.id \in Nat /\ r.handle \in SftpHandles
    <2>1. r.id = 0
      BY <1>2
    <2>2. r.handle = NoHandle
      BY <1>2 DEF NoHandle
    <2>3. r.id \in Nat
      BY <2>1
    <2>4. r.handle \in SftpHandles
      BY <2>2 DEF SftpHandles
    <2> QED
      BY <2>3, <2>4
  <1>6. r \in SftpRequest
    BY <1>2, <1>4, <1>5 DEF SftpRequest
  <1> DEFINE p == [r EXCEPT !.id = num]
             q == [p EXCEPT !.handle = h]
  <1>7. p \in SftpRequest /\ p.id = num /\ p.type = r.type
    BY <1>6 DEF SftpRequest
  <1>8. Asked(r, num, h) = q
    BY DEF Asked
  <1> HIDE DEF p
  <1>9. q \in SftpRequest /\ q.id = num /\ q.handle = h /\ q.type = r.type
    BY <1>7 DEF SftpRequest
  <1> HIDE DEF q
  <1> QED
    BY <1>8, <1>9

\* A request that is sent has the next number.
LEMMA NextNumber ==
  ASSUME NEW S, NEW w \in Seq(S), NEW q \in S, NEW n \in Nat, Follows(w, n), q.id = n + Len(w) + 1
  PROVE  /\ Append(w, q) \in Seq(S) /\ Len(Append(w, q)) = Len(w) + 1 /\ Follows(Append(w, q), n)
         /\ \A i \in 1..Len(w) : Append(w, q)[i] = w[i]
         /\ Append(w, q)[Len(w) + 1] = q
  <1>1. Len(w) \in Nat
    BY LenProperties
  <1>2. /\ Append(w, q) \in Seq(S) /\ Len(Append(w, q)) = Len(w) + 1
        /\ \A i \in 1..Len(w) : Append(w, q)[i] = w[i]
        /\ Append(w, q)[Len(w) + 1] = q
    BY AppendProperties
  <1>3. ASSUME NEW i \in 1..(Len(w) + 1)
        PROVE  Append(w, q)[i].id = n + i
    <2>1. CASE i \in 1..Len(w)
      BY <1>2, <2>1 DEF Follows
    <2>2. CASE i = Len(w) + 1
      BY <1>1, <1>2, <2>2
    <2> QED
      BY <1>1, <2>1, <2>2
  <1> QED
    BY <1>2, <1>3 DEF Follows

\* The client asks; a CLOSE takes the handle from those it holds.
LEMMA RequestKeeps ==
  ASSUME SftpIndInv, ClientRequests
  PROVE  SftpIndInv'
  <1>1. /\ SftpTypes /\ DiskIsTree /\ WritesLand /\ Numbered /\ OpenIsKnown
        /\ sftp \in SessionType /\ sftpUser \in UserType
    BY DEF SftpIndInv, SftpTypes
  <1>2. sftp.pc # "ended" /\ UNCHANGED <<sftp, disk, written>>
    BY DEF ClientRequests
  <1>3. PICK r \in sftpUser.menu.requests :
          \E a \in IF r.type \in Handled THEN sftpUser.held ELSE {[what |-> NoHandle]} :
            /\ wire' = Append(wire, [r EXCEPT !.id = sftpUser.sent + 1, !.handle = a.what])
            /\ sftpUser' = [sftpUser EXCEPT !.sent = @ + 1,
                              !.held = IF r.type = "CLOSE" THEN @ \ {a} ELSE @]
    BY DEF ClientRequests
  <1>4. PICK a \in IF r.type \in Handled THEN sftpUser.held ELSE {[what |-> NoHandle]} :
            /\ wire' = Append(wire, [r EXCEPT !.id = sftpUser.sent + 1, !.handle = a.what])
            /\ sftpUser' = [sftpUser EXCEPT !.sent = @ + 1,
                              !.held = IF r.type = "CLOSE" THEN @ \ {a} ELSE @]
    BY <1>3
  <1> DEFINE q == Asked(r, sftpUser.sent + 1, a.what)
             n == sftpUser.told + Len(sftp.out) + Len(sftp.buff)
             held == IF r.type = "CLOSE" THEN sftpUser.held \ {a} ELSE sftpUser.held
  <1>5. /\ Len(sftp.out) \in Nat /\ Len(sftp.buff) \in Nat /\ Len(wire) \in Nat /\ wire \in Seq(SftpRequest)
        /\ sftpUser.sent \in Nat /\ sftpUser.told \in Nat /\ sftpUser.menu \in SftpMenus
        /\ sftpUser.held \subseteq HandleAnswer
    BY <1>1, StateFields
  <1>6. a.what \in SftpHandles
    <2>1. CASE r.type \in Handled
      <3>1. a \in HandleAnswer
        BY <1>5, <2>1
      <3> QED
        BY <3>1 DEF HandleAnswer, SftpHandles
    <2>2. CASE r.type \notin Handled
      BY <2>2 DEF SftpHandles
    <2> QED
      BY <2>1, <2>2
  <1>7. q \in SftpRequest /\ q.id = sftpUser.sent + 1 /\ q.handle = a.what /\ q.type = r.type
    <2>1. sftpUser.sent + 1 \in Nat
      BY <1>5
    <2> QED
      <3>1. sftpUser.menu \in SftpMenus
        BY <1>5
      <3> QED
        BY <1>6, <2>1, <3>1, AskIsRequest
  <1>8. wire' = Append(wire, q)
    BY <1>4 DEF Asked
  <1> HIDE DEF q
  <1>9. sftpUser.sent = n + Len(wire) /\ Follows(wire, n) /\ n \in Nat
    BY <1>1, <1>2, <1>5 DEF Numbered
  <1>10. /\ sftpUser' \in UserType /\ sftpUser'.sent = sftpUser.sent + 1 /\ sftpUser'.told = sftpUser.told
         /\ sftpUser'.held = held
    <2> DEFINE sent == sftpUser.sent + 1
               u == [sftpUser EXCEPT !.sent = sent]
    <2>1. sent \in Nat /\ held \in SUBSET HandleAnswer
      BY <1>5
    <2>2. sftpUser' = [u EXCEPT !.held = held]
      BY <1>4
    <2> HIDE DEF sent, held
    <2>3. u \in UserType /\ u.sent = sent /\ u.told = sftpUser.told
      BY <1>1, <2>1 DEF UserType
    <2> HIDE DEF u
    <2>4. sftpUser' \in UserType /\ sftpUser'.sent = u.sent /\ sftpUser'.told = u.told /\ sftpUser'.held = held
      BY <2>1, <2>2, <2>3 DEF UserType
    <2> QED
      BY <2>3, <2>4 DEF sent
  <1>11. /\ wire' \in Seq(SftpRequest) /\ Len(wire') = Len(wire) + 1 /\ Follows(wire', n)
         /\ \A i \in 1..Len(wire) : wire'[i] = wire[i]
         /\ wire'[Len(wire) + 1] = q
    <2> HIDE DEF n
    <2>1. q.id = n + Len(wire) + 1
      BY <1>7, <1>9
    <2> QED
      BY <1>5, <1>7, <1>8, <1>9, <2>1, NextNumber
  <1>12. SftpTypes' /\ DiskIsTree' /\ WritesLand'
    BY <1>1, <1>2, <1>10, <1>11 DEF SftpTypes, DiskIsTree, WritesLand
  <1>13. Numbered'
    <2> DEFINE m == Len(wire)
    <2>1. n + m + 1 = n + (m + 1)
      BY <1>5, <1>9
    <2>2. sftpUser'.sent = n + Len(wire')
      BY <1>9, <1>10, <1>11, <2>1
    <2> QED
      BY <1>1, <1>2, <1>10, <1>11, <2>2 DEF Numbered
  <1>14. OpenIsKnown'
    <2> SUFFICES ASSUME NEW i \in Slots, sftp.handles[i].state # "closed",
                        NEW h, h = <<i, sftp.handles[i].file>>
                 PROVE  Known(h)'
      BY <1>2 DEF OpenIsKnown, Known
    <2>1. Known(h)
      BY <1>1, <1>2 DEF OpenIsKnown
    <2>2. ASSUME NEW b \in sftpUser.held, b.what = h
          PROVE  Known(h)'
      <3>1. CASE b \in held
        BY <1>10, <2>2, <3>1 DEF Known
      <3>2. CASE b \notin held
        <4>1. r.type = "CLOSE" /\ b = a
          BY <3>2
        <4>2. Len(wire) + 1 \in 1..Len(wire')
          BY <1>5, <1>11
        <4>3. wire'[Len(wire) + 1].type = "CLOSE" /\ wire'[Len(wire) + 1].handle = h
          BY <1>7, <1>11, <2>2, <4>1
        <4> QED
          BY <4>2, <4>3 DEF Known
      <3> QED
        BY <3>1, <3>2
    <2>3. ASSUME NEW j \in 1..Len(wire), wire[j].type = "CLOSE" /\ wire[j].handle = h
          PROVE  Known(h)'
      <3>1. j \in 1..Len(wire') /\ wire'[j] = wire[j]
        BY <1>5, <1>11
      <3> QED
        BY <2>3, <3>1 DEF Known
    <2> QED
      BY <1>2, <2>1, <2>2, <2>3 DEF Known
  <1> QED
    BY <1>12, <1>13, <1>14 DEF SftpIndInv

\* The invariant of sftp: the numbers follow one another, every slot that is not
\* closed is known to somebody, the disk is a tree with the session in it, and
\* the writes are what is on the disk (KSftp, KSession::SftpLoop).
THEOREM SftpInvariant == SftpSpec => []SftpIndInv
  <1>1. SftpIndInv /\ [SftpNext]_sftpVars => SftpIndInv'
    <2> SUFFICES ASSUME SftpIndInv, [SftpNext]_sftpVars
                 PROVE  SftpIndInv'
      OBVIOUS
    <2>1. CASE ProcessNext
      BY <2>1, ProcessKeeps
    <2>2. CASE ProcessFails \/ SftpEnds
      BY <2>2, EndingKeeps
    <2>3. CASE ProcessEnds
      BY <2>3, EndsKeeps
    <2>4. CASE SendAnswers
      BY <2>4, SendKeeps
    <2>5. CASE Receive
      BY <2>5, ReceiveKeeps
    <2>6. CASE ClientRequests
      BY <2>6, RequestKeeps
    <2>7. CASE UNCHANGED sftpVars
      BY <2>7 DEF sftpVars, SftpIndInv, SftpTypes, Numbered, OpenIsKnown, Known, DiskIsTree, There, Abs, WritesLand
    <2> QED
      BY <2>1, <2>2, <2>3, <2>4, <2>5, <2>6, <2>7 DEF SftpNext, SftpLoop
  <1> QED
    BY <1>1, SftpStarts, PTL DEF SftpSpec

\* One sequence after another.
LEMMA Chained ==
  ASSUME NEW S, NEW u \in Seq(S), NEW v \in Seq(S), NEW n \in Nat, Follows(u, n), Follows(v, n + Len(u))
  PROVE  u \o v \in Seq(S) /\ Len(u \o v) = Len(u) + Len(v) /\ Follows(u \o v, n)
  <1> DEFINE uv == u \o v
  <1>1. Len(u) \in Nat /\ Len(v) \in Nat
    BY LenProperties
  <1>2. /\ uv \in Seq(S) /\ Len(uv) = Len(u) + Len(v)
        /\ \A i \in 1..(Len(u) + Len(v)) : uv[i] = IF i <= Len(u) THEN u[i] ELSE v[i - Len(u)]
    BY ConcatProperties
  <1> HIDE DEF uv
  <1>3. ASSUME NEW i \in 1..Len(uv)
        PROVE  uv[i].id = n + i
    <2>1. CASE i <= Len(u)
      BY <1>1, <1>2, <2>1 DEF Follows
    <2>2. CASE i > Len(u)
      <3>1. i - Len(u) \in 1..Len(v) /\ uv[i] = v[i - Len(u)]
        BY <1>1, <1>2, <2>2
      <3>2. v[i - Len(u)].id = n + Len(u) + (i - Len(u))
        BY <3>1 DEF Follows
      <3> QED
        BY <1>1, <1>2, <3>1, <3>2
    <2> QED
      BY <1>1, <1>2, <2>1, <2>2
  <1> QED
    BY <1>2, <1>3 DEF Follows, uv

\* What is on its way has the numbers that follow one another.
LEMMA InOrder ==
  ASSUME SftpIndInv, sftp.pc # "ended"
  PROVE  LET on == sftp.out \o sftp.buff \o wire
         IN  [i \in DOMAIN on |-> on[i].id] = [i \in 1..(sftpUser.sent - sftpUser.told) |-> sftpUser.told + i]
  <1> DEFINE out == sftp.out
             buff == sftp.buff
             told == sftpUser.told
             first == out \o buff
             on == first \o wire
  <1>1. SftpTypes /\ Numbered
    BY DEF SftpIndInv
  <1>2. /\ out \in Seq(SftpAnswer \cup SftpRequest) /\ buff \in Seq(SftpAnswer \cup SftpRequest)
        /\ wire \in Seq(SftpAnswer \cup SftpRequest)
        /\ Len(out) \in Nat /\ Len(buff) \in Nat /\ Len(wire) \in Nat /\ told \in Nat
    BY <1>1, StateFields
  <1>3. /\ Follows(out, told) /\ Follows(buff, told + Len(out)) /\ Follows(wire, told + Len(out) + Len(buff))
        /\ sftpUser.sent = told + Len(out) + Len(buff) + Len(wire)
    BY <1>1 DEF Numbered
  <1> HIDE DEF out, buff, told
  <1>4. /\ first \in Seq(SftpAnswer \cup SftpRequest) /\ Len(first) = Len(out) + Len(buff)
        /\ Follows(first, told)
    BY <1>2, <1>3, Chained
  <1> HIDE DEF first
  <1>5. Follows(wire, told + Len(first))
    BY <1>2, <1>3, <1>4
  <1>6. /\ on \in Seq(SftpAnswer \cup SftpRequest) /\ Len(on) = Len(first) + Len(wire) /\ Follows(on, told)
    BY <1>2, <1>4, <1>5, Chained
  <1> HIDE DEF on
  <1>7. Len(on) = sftpUser.sent - told
    BY <1>2, <1>3, <1>4, <1>6
  <1>8. DOMAIN on = 1..Len(on)
    BY <1>6, LenProperties
  <1>9. [i \in DOMAIN on |-> on[i].id] = [i \in 1..(sftpUser.sent - told) |-> told + i]
    BY <1>6, <1>7, <1>8 DEF Follows
  <1> QED
    BY <1>9 DEF on, first, out, buff, told

\* The slots that are not closed when all is answered.
LEMMA SlotsAreTheirs ==
  ASSUME SftpIndInv
  PROVE  SlotsAccounted
  <1> SUFFICES ASSUME sftp.pc # "ended", sftpUser.sent = sftpUser.told,
                      NEW i \in Slots, sftp.handles[i].state # "closed"
               PROVE  <<i, sftp.handles[i].file>> \in {a.what : a \in sftpUser.held} \cup sftp.leaked
    BY DEF SlotsAccounted
  <1> DEFINE h == <<i, sftp.handles[i].file>>
  <1>1. SftpTypes /\ Numbered /\ Known(h)
    BY DEF SftpIndInv, OpenIsKnown
  <1>2. Len(sftp.out) = 0 /\ Len(sftp.buff) = 0 /\ Len(wire) = 0
    <2>1. sftpUser.told = sftpUser.told + Len(sftp.out) + Len(sftp.buff) + Len(wire)
      BY <1>1 DEF Numbered
    <2>2. \A t, l, m, n \in Nat : t = t + l + m + n => l = 0 /\ m = 0 /\ n = 0
      OBVIOUS
    <2> QED
      BY <1>1, <2>1, <2>2, StateFields
  <1> HIDE DEF h
  <1>3. h \in sftp.leaked \/ \E a \in sftpUser.held : a.what = h
    BY <1>1, <1>2 DEF Known
  <1> QED
    BY <1>3 DEF h

\* Sftp is safe: the answers come in order, each once, the slots that are not
\* closed are known to somebody, and what is written from beginning to end is on
\* the disk (KSftp::Process, KSession::SftpLoop).
THEOREM SftpIsSafe == SftpSpec => []SftpInv
  <1>1. SftpIndInv => SftpInv
    <2> SUFFICES ASSUME SftpIndInv
                 PROVE  SftpInv
      OBVIOUS
    <2>1. SftpTypes /\ DiskIsTree /\ WritesLand
      BY DEF SftpIndInv
    <2>2. SftpTypeOK
      <3>1. \A a \in sftpUser.held : a.what[1] \in Slots
        BY <2>1, StateFields DEF HandleAnswer
      <3>2. \A i \in Slots : sftp.handles[i].state \in {"closed", "opened", "eof"}
        BY <2>1, SftpFields DEF SessionType, SlotType
      <3> QED
        BY <2>1, <3>1, <3>2, StateFields DEF SftpTypeOK, DiskIsTree
    <2>3. AnsweredInOrder
      BY InOrder DEF AnsweredInOrder
    <2>4. SlotsAccounted
      BY SlotsAreTheirs
    <2> QED
      BY <2>1, <2>2, <2>3, <2>4 DEF SftpInv
  <1> QED
    BY <1>1, SftpInvariant, PTL

\* A step that takes a request from the buffer is one of Process, with what the
\* request came to.
LEMMA ProcessedStep ==
  ASSUME SftpIndInv, [SftpNext]_sftpVars, NEW r, Processed(r)
  PROVE  /\ r \in SftpRequest /\ SftpTypes /\ DiskIsTree
         /\ \E o \in ProcessPacket(r) :
              /\ disk' = o.disk
              /\ \/ sftp'.pc = "ended" /\ o.answer = <<>>
                 \/ \E a \in SftpAnswer :
                      o.answer = <<a>> /\ Told = a /\ (sftp'.pc = "send" <=> a.type \in {"DATA", "NAME"})
  <1>1. SftpTypes /\ DiskIsTree
    BY DEF SftpIndInv
  <1>2. sftp.pc = "process" /\ sftp.buff # <<>> /\ r = Head(sftp.buff) /\ Len(sftp'.buff) < Len(sftp.buff)
    BY DEF Processed
  <1>3. Len(sftp.buff) \in Nat /\ sftp.buff \in Seq(SftpRequest)
    BY <1>1, StateFields
  <1>4. ProcessNext
    <2>1. sftp'.buff # sftp.buff
      BY <1>2, <1>3
    <2>2. CASE UNCHANGED sftp
      BY <2>1, <2>2
    <2>3. CASE ProcessFails \/ ProcessEnds
      BY <1>1, <2>1, <2>3 DEF ProcessFails, ProcessEnds, SftpTypes, SessionType
    <2> QED
      BY <1>2, <2>2, <2>3 DEF SftpNext, SftpLoop, SendAnswers, Receive, SftpEnds, ClientRequests, sftpVars
  <1>5. r \in SftpRequest
    BY <1>2, <1>3, OneLess
  <1>6. PICK o \in ProcessPacket(r) : sftp' = After(o) /\ disk' = o.disk
    BY <1>2, <1>4 DEF ProcessNext
  <1>7. Sound(r, o)
    BY <1>1, <1>5, PacketIsSound
  <1>8. CASE o.sftp.pc = "ended" /\ o.answer = <<>>
    <2>1. sftp'.pc = "ended"
      BY <1>1, <1>2, <1>6, <1>7, <1>8, AfterCrash DEF Sound
    <2> QED
      BY <1>1, <1>5, <1>6, <1>8, <2>1
  <1>9. CASE \E a \in SftpAnswer : o.answer = <<a>> /\ a.id = r.id /\ SameLoop(o.sftp) /\ SlotsKnown(r, o.sftp, a)
    <2>1. PICK a \in SftpAnswer : o.answer = <<a>> /\ SameLoop(o.sftp)
      BY <1>9
    <2>2. sftp'.out = sftp.out \o <<a>> /\ (sftp'.pc = "send" <=> a.type \in {"DATA", "NAME"})
      BY <1>1, <1>2, <1>6, <2>1, AfterAnswer
    <2>3. /\ Len(sftp'.out) = Len(sftp.out) + 1 /\ sftp'.out[Len(sftp.out) + 1] = a
      BY <1>1, <2>2, StateFields, OneMore
    <2>4. Told = a
      BY <2>3 DEF Told, Last
    <2> QED
      BY <1>1, <1>5, <1>6, <2>1, <2>2, <2>4
  <1> QED
    BY <1>7, <1>8, <1>9 DEF Sound

\* A path that has been made absolute is so.
LEMMA AbsAgain ==
  ASSUME SftpTypes, NEW p
  PROVE  Abs(Abs(p)) = Abs(p) /\ There(Abs(p)) = There(p)
  <1>1. sftp.cwd \in Nodes
    BY DEF SftpTypes, SessionType
  <1>2. \A q \in Nodes : q # "." /\ q # "d"
    BY DEF Nodes
  <1>3. Abs(Abs(p)) = Abs(p)
    BY <1>1, <1>2 DEF Abs
  <1> QED
    BY <1>3 DEF There

\* READ and WRITE.
LEMMA ActsOnItsFileStep ==
  ASSUME SftpIndInv, [SftpNext]_sftpVars, NEW r, Processed(r)
  PROVE  ActsOnItsFile(r)
  <1> SUFFICES ASSUME r.type \in {"READ", "WRITE"}
               PROVE  ActsOnItsFile(r)
    BY DEF ActsOnItsFile
  <1> DEFINE p == Abs(r.handle[2])
  <1>1. r \in SftpRequest /\ SftpTypes /\ DiskIsTree
    BY ProcessedStep
  <1>2. PICK o \in ProcessPacket(r) :
              /\ disk' = o.disk
              /\ \/ sftp'.pc = "ended" /\ o.answer = <<>>
                 \/ \E a \in SftpAnswer :
                      o.answer = <<a>> /\ Told = a /\ (sftp'.pc = "send" <=> a.type \in {"DATA", "NAME"})
    BY ProcessedStep
  <1>3. CASE r.type = "WRITE"
    <2>1. o \in Write(r)
      BY <1>3 DEF ProcessPacket
    <2>2. \A q \in Nodes \ {p} : disk'[q] = disk[q]
      BY <1>1, <1>2, <2>1, WriteOutcome, SftpFields DEF DiskType
    <2>3. ASSUME sftp'.pc = "send", Told.type = "DATA"
          PROVE  FALSE
      <3>1. PICK a \in SftpAnswer : o.answer = <<a>> /\ a.type = "DATA"
        BY <1>2, <2>3
      <3>2. o.answer = <<>> \/ \E c \in Codes : o.answer = <<Status(r, c)>>
        <4> DEFINE fp == GetSftpHandleFile(r.handle)
                   files == Writes(fp, File(IF r.off = 0 THEN <<r.data>> ELSE Append(There(fp).data, r.data)))
                   possible == There(fp).kind # "dir" /\ CanCreate(fp)
        <4>1. o \in Crash \/ o \in IfPossible(r, possible, Outcome(sftp, files, Status(r, "OK")))
          BY <2>1 DEF Write, OKWith
        <4>2. possible \in BOOLEAN
          OBVIOUS
        <4> HIDE DEF fp, files, possible
        <4>3. \/ o \in Crash \/ o = Outcome(sftp, files, Status(r, "OK"))
              \/ o = Outcome(sftp, files, Status(r, "FAILURE")) \/ o = Says(r, "FAILURE")
          BY <4>1, <4>2, IfPossibleIs
        <4> QED
          BY <4>3 DEF Crash, Outcome, Says, Codes
      <3>3. \A c : Status(r, c).type = "STATUS"
        BY DEF Status, Answer
      <3> QED
        BY <3>1, <3>2, <3>3
    <2> QED
      BY <2>2, <2>3 DEF ActsOnItsFile
  <1>4. CASE r.type = "READ"
    <2> DEFINE f == GetSftpHandleFile(r.handle)
               data == SubSeq(There(f).data, r.off + 1, Min({r.off + ReadSize, Len(There(f).data)}))
    <2>1. o \in Read(r)
      BY <1>4 DEF ProcessPacket
    <2>2. \/ o = Says(r, "EOF") \/ o = Says(r, "FAILURE")
          \/ /\ There(f).kind = "file" /\ GetSftpHandleState(r.handle) = "opened"
             /\ o.disk = disk /\ o.answer = <<Answer(r, "DATA", data)>>
      BY <2>1 DEF Read, Outcome
    <2>3. o.disk = disk
      BY <2>2 DEF Says, Outcome
    <2>4. ASSUME sftp'.pc = "send", Told.type = "DATA"
          PROVE  Told.what = SubSeq(There(p).data, r.off + 1, r.off + Len(Told.what))
      <3>1. PICK a \in SftpAnswer : o.answer = <<a>> /\ a.type = "DATA" /\ Told = a
        BY <1>2, <2>4
      <3>2. /\ There(f).kind = "file" /\ GetSftpHandleState(r.handle) = "opened"
            /\ o.answer = <<Answer(r, "DATA", data)>>
        <4>1. Status(r, "EOF").type = "STATUS" /\ Status(r, "FAILURE").type = "STATUS"
          BY DEF Status, Answer
        <4>2. a # Status(r, "EOF") /\ a # Status(r, "FAILURE")
          BY <3>1, <4>1
        <4>3. o # Says(r, "EOF") /\ o # Says(r, "FAILURE")
          BY <3>1, <4>2 DEF Says, Outcome
        <4> QED
          BY <2>2, <4>3
      <3>3. f = r.handle[2]
        BY <3>2 DEF GetSftpHandleState, GetSftpHandleFile, ParseSftpHandle
      <3> HIDE DEF data
      <3>4. Told.what = data
        <4>1. a = Answer(r, "DATA", data)
          BY <3>1, <3>2
        <4> QED
          BY <3>1, <4>1 DEF Answer
      <3>5. There(p) = There(f)
        BY <1>1, <3>3, AbsAgain
      <3>6. There(f).data \in Seq(SftpBlocks)
        BY <1>1, <3>2, ThereIsNode, SftpFields
      <3> HIDE DEF f
      <3>7. data = SubSeq(There(f).data, r.off + 1, r.off + Len(data))
        BY <1>1, <3>6, AskFields, DataRead DEF data
      <3> QED
        BY <3>4, <3>5, <3>7
    <2> QED
      BY <1>2, <2>3, <2>4 DEF ActsOnItsFile
  <1> QED
    BY <1>3, <1>4

\* READDIR.
LEMMA ListsThatStep ==
  ASSUME SftpIndInv, [SftpNext]_sftpVars, NEW r, Processed(r)
  PROVE  ListsThat(r)
  <1> SUFFICES ASSUME r.type = "READDIR", r.handle[2] = "/c/d", sftp'.pc = "send"
               PROVE  Told.what = Inside("/c/d")
    BY DEF ListsThat
  <1>1. r \in SftpRequest /\ SftpTypes /\ DiskIsTree
    BY ProcessedStep
  <1>2. PICK o \in ProcessPacket(r) :
          \E a \in SftpAnswer : o.answer = <<a>> /\ Told = a /\ a.type \in {"DATA", "NAME"}
    BY ProcessedStep
  <1>3. PICK a \in SftpAnswer : o.answer = <<a>> /\ Told = a /\ a.type \in {"DATA", "NAME"}
    BY <1>2
  <1>4. o \in ReadDir(r)
    BY <1>2 DEF ProcessPacket
  <1>5. ParseSftpHandle(r.handle) # 0
    <2> SUFFICES ASSUME ParseSftpHandle(r.handle) = 0
                 PROVE  FALSE
      OBVIOUS
    <2>1. ReadDir(r) = Crash
      BY Zenon DEF ReadDir
    <2>2. o.answer = <<>>
      BY <1>4, <2>1 DEF Crash
    <2>3. Len(o.answer) = 0 /\ Len(<<a>>) = 1
      BY <2>2
    <2> QED
      BY <1>3, <2>3
  <1>6. GetSftpHandleFile(r.handle) = "/c/d"
    BY <1>5 DEF GetSftpHandleFile, ParseSftpHandle
  <1> DEFINE d == CdTo("/c/d")
             listed == [SetSftpHandleState(r.handle, "eof") EXCEPT !.cwd = d.cwd]
             names == Answer(r, "NAME", Inside(d.cwd))
  <1>7. Cd("/c/d") \in BOOLEAN
    BY DEF Cd
  <1>8. \A c : Status(r, c).type = "STATUS"
    BY DEF Status, Answer
  <1>9. GetSftpHandleState(r.handle) = "opened"
    <2> SUFFICES ASSUME GetSftpHandleState(r.handle) # "opened"
                 PROVE  FALSE
      OBVIOUS
    <2>1. o \in IfPossible(r, Cd("/c/d"), Outcome(d, disk, Status(r, "EOF")))
      BY <1>4, <1>5, <1>6 DEF ReadDir
    <2> HIDE DEF d
    <2>2. \/ o = Outcome(d, disk, Status(r, "EOF")) \/ o = Outcome(d, disk, Status(r, "FAILURE"))
          \/ o = Says(r, "FAILURE")
      BY <1>7, <2>1, IfPossibleIs
    <2>3. \E c : o.answer = <<Status(r, c)>>
      BY <2>2 DEF Outcome, Says
    <2> QED
      BY <1>3, <1>8, <2>3
  <1>10. PICK b \in IfPossible(r, Cd("/c/d"), Outcome(d, disk, names)) :
               o = IF b.answer[1].type = "NAME" THEN [b EXCEPT !.sftp = listed] ELSE b
    BY <1>4, <1>5, <1>6, <1>9 DEF ReadDir
  <1> HIDE DEF d, names, listed
  <1>11. \/ b = Outcome(d, disk, names) \/ b = Outcome(d, disk, Status(r, "FAILURE")) \/ b = Says(r, "FAILURE")
    BY <1>7, <1>10, IfPossibleIs
  <1>12. b.answer = o.answer
    BY <1>10, <1>11 DEF Outcome, Says
  <1>13. a = names
    BY <1>3, <1>8, <1>11, <1>12 DEF Outcome, Says
  <1>14. d.cwd = "/c/d"
    BY <1>1, SftpFields DEF d, CdTo, Abs, SessionType
  <1> QED
    BY <1>3, <1>13, <1>14 DEF names, Answer

\* RMDIR.
LEMMA RemovesThatStep ==
  ASSUME SftpIndInv, [SftpNext]_sftpVars, NEW r, Processed(r)
  PROVE  RemovesThat(r)
  <1> SUFFICES ASSUME r.type = "RMDIR", r.path = "/c/d", ~sftpUser.menu.faulty, disk["/c/d"] = Dir, Inside("/c/d") = {}
               PROVE  Told.what = "OK"
    BY DEF RemovesThat
  <1> DEFINE up == [sftp EXCEPT !.cwd = Parent(@)]
             gone == [disk EXCEPT !["/c/d"] = NoFile]
  <1>1. r \in SftpRequest /\ SftpTypes /\ DiskIsTree
    BY ProcessedStep
  <1>2. PICK o \in ProcessPacket(r) :
          \/ sftp'.pc = "ended" /\ o.answer = <<>>
          \/ \E a \in SftpAnswer : o.answer = <<a>> /\ Told = a
    BY ProcessedStep
  <1>3. o \in RmDir(r)
    BY <1>2 DEF ProcessPacket
  <1>4. up.cwd = Parent(sftp.cwd)
    BY <1>1, SftpFields DEF SessionType
  <1>5. Parent(sftp.cwd) # "/c/d"
    <2>1. sftp.cwd # "/c/d/d"
      <3>1. "/c/d/d" \in Nodes \ {"/c/d"} /\ Parent("/c/d/d") = "/c/d"
        BY DEF Nodes, Parent
      <3>2. disk["/c/d/d"].kind = "none"
        BY <3>1 DEF Inside
      <3> QED
        BY <1>1, <3>2 DEF DiskIsTree
    <2> QED
      BY <2>1 DEF Parent
  <1>6. Removable("/c/d", up.cwd)
    BY <1>4, <1>5, NodesHaveTypes DEF Removable, Nodes
  <1>7. o \in Impersonated(r, Outcome(up, gone, Status(r, "OK")))
    BY <1>3, <1>6 DEF RmDir
  <1>8. o.answer = <<Status(r, "OK")>>
    BY <1>7 DEF Impersonated, Outcome
  <1>9. Told = Status(r, "OK")
    BY <1>2, <1>8
  <1> QED
    BY <1>9 DEF Status, Answer

\* A name or a handle means the same file whenever it is used, though slots are
\* given away and every request moves the current directory (KSftp::ParseSftpHandle,
\* c_SSH_FXP_READDIR, c_SSH_FXP_RMDIR).
THEOREM SftpActsOnNames == SftpSpec => ActsOnNames
  <1>1. SftpIndInv /\ [SftpNext]_sftpVars =>
          /\ [\A r \in Range(sftp.buff) : Processed(r) => ActsOnItsFile(r)]_sftpVars
          /\ [\A r \in Range(sftp.buff) : Processed(r) => ListsThat(r)]_sftpVars
          /\ [\A r \in Range(sftp.buff) : Processed(r) => RemovesThat(r)]_sftpVars
    BY ActsOnItsFileStep, ListsThatStep, RemovesThatStep
  <1> QED
    BY <1>1, SftpInvariant, PTL DEF SftpSpec, ActsOnNames, ActsOnHandle, ListsWhatWasOpened, RemovesWhatItListed
=============================================================================
