---------------------------- MODULE SshTransport ----------------------------
(***************************************************************************)
(* The transport of one SSH session of the bundled server: the handshake   *)
(* (ssh2_svr.c), the packets it reads (ssh2_rd.c), the keys it derives     *)
(* (ssh2_cry.c) and the open session, against a client that keeps to the   *)
(* protocol and may guess the key exchange, send no-ops or leave.  What    *)
(* authenticates the user is module SshAuth; here it succeeds or it does   *)
(* not.  The re-keying of the open session is module SshRekey.             *)
(***************************************************************************)
EXTENDS SshPacket

CONSTANT
  NoOpBound    \* bound: no-op packets the client sends

ASSUME TransportAssumption == NoOpBound \in Nat

VARIABLES
  ini,       \* the lists of the server's kts.ini
  lists,     \* the arrays and tables the server keeps of them
  hello,     \* the client's KEXINIT
  sv,        \* the server: SESSION_INFO and SSH_HANDSHAKE_INFO
  cl,        \* the client
  toServer,  \* packets in flight to the server
  toClient   \* packets in flight to the client

vars == <<ini, lists, hello, sv, cl, toServer, toClient>>

\* What the client makes of the two hellos.
Chosen == ClientChoice(lists, hello)

Plain == <<"plain">>

Init ==
  /\ ini \in Inis
  /\ lists = SetAlgoLists(ini.kex, ini.encr)
  /\ hello \in Hellos
  /\ sv = [at |-> "start", why |-> Ok, noPackets |-> 0, readKey |-> Plain,
           writeKey |-> Plain, readSeq |-> 0, writeSeq |-> 0, hash |-> <<>>,
           kex |-> None, encr |-> None, requested |-> FALSE, group |-> 0,
           skip |-> FALSE, secret |-> <<>>, sent |-> 0]
  /\ cl = [at |-> "hello", readKey |-> Plain, writeKey |-> Plain, readSeq |-> 0,
           writeSeq |-> 0, hash |-> <<>>, kex |-> None, encr |-> None, group |-> 0,
           request |-> <<>>, bad |-> FALSE, noOps |-> 0, sent |-> 0]
  /\ toServer = <<>>
  /\ toClient = <<>>

-----------------------------------------------------------------------------
(* ssh2_rd.c: reading a packet of the handshake. *)

\* checkPacketValid: the packets a handshake may hold.
ValidHSPackets ==
  {DISCONNECT, IGNORE, SERVICE_REQUEST, SERVICE_ACCEPT, KEXINIT, NEWKEYS, KEXDH_INIT,
   KEXDH_REPLY, GEX_INIT, GEX_REPLY, GEX_REQUEST_NEW, USERAUTH_REQUEST,
   USERAUTH_FAILURE, USERAUTH_SUCCESS, CHANNEL_OPEN, CHANNEL_OPEN_CONFIRMATION}

\* readHSPacketSSH2 once it has left the no-ops behind: a disconnect, the
\* length, the type.  What is waited for as 30 may come in the newer form, 34.
PacketStatus(p, expected) ==
  IF p.type = DISCONNECT THEN getDisconnectInfo
  ELSE IF sv.at \in {"skip", "init"} /\ p.body # Long THEN BadData
  ELSE IF p.type = expected \/ <<expected, p.type>> = <<GEX_REQUEST_OLD, GEX_REQUEST_NEW>>
       THEN Ok ELSE BadData

\* The packet the server waits for in each of its reads.
ExchangeInit == IF sv.requested THEN GEX_INIT ELSE KEXDH_INIT
Expected ==
  CASE sv.at = "hello" -> KEXINIT
    [] sv.at \in {"skip", "init"} -> ExchangeInit
    [] sv.at = "request" -> GEX_REQUEST_OLD
    [] sv.at = "newkeys" -> NEWKEYS
    [] sv.at = "service" -> SERVICE_REQUEST
    [] sv.at = "auth" -> USERAUTH_REQUEST
    [] sv.at = "open" -> CHANNEL_OPEN

InHandshake == sv.at \notin {"start", "data", "ended"}

\* readHSPacketSSH2: "again" after a no-op; five packets without an answer are
\* an overflow, and the fifth counts even when it is the one waited for.
NoOpLimit == 5

readHSPacketSSH2(p) ==
  IF readPacketHeaderSSH2(sv, p, ValidHSPackets) # Ok THEN BadData
  ELSE IF ~checkMacSSH(sv, p)
  THEN IF Expected = SERVICE_REQUEST THEN "WRONGKEY" ELSE BadData
  ELSE IF sv.noPackets + 1 >= NoOpLimit THEN "OVERFLOW"
  ELSE IF p.type = IGNORE THEN "again"
  ELSE PacketStatus(p, Expected)

\* The server after reading the head of its queue.
Read(s) == [s EXCEPT !.readSeq = @ + 1, !.noPackets = 0]

\* The server becomes s and sends the <<type, body>> of msgs.
Send(s, msgs) ==
  \E t \in {s} :
    /\ toClient' = toClient \o Packets(t, msgs)
    /\ sv' = [t EXCEPT !.writeSeq = @ + Len(msgs)]

\* shutdownFunction: a disconnect, in the clear until the keys are in use.
End(s, why) == Send([s EXCEPT !.at = "ended", !.why = why], <<<<DISCONNECT, Short>>>>)

-----------------------------------------------------------------------------
(* ssh2_svr.c: the handshake.  An action runs from one read to the next. *)

Offer == <<lists.kex.offered, lists.encr.offered>>

\* beginServerHandshake up to its first read: the identification strings are
\* hashed and the server's KEXINIT goes out.
ServerBegin ==
  /\ sv.at = "start"
  /\ Send([sv EXCEPT !.at = "hello", !.group = initDHcontextSSH(0),
                     !.hash = <<<<"client id">>, <<"server id">>>>],
          <<<<KEXINIT, Offer>>>>)
  /\ UNCHANGED <<ini, lists, hello, cl, toServer>>

ServerReceives(at) ==
  /\ sv.at = at
  /\ toServer # <<>>
  /\ readHSPacketSSH2(Head(toServer)) = Ok
  /\ toServer' = Tail(toServer)
  /\ UNCHANGED <<ini, lists, hello, cl>>

\* processHelloSSH, then the rest of the hellos into the exchange hash; a
\* guessed packet is skipped between the two.
ServerHello ==
  /\ ServerReceives("hello")
  /\ \E r \in {processHelloSSH(lists, HostKey, Head(toServer).body)} :
       LET next == [Read(sv) EXCEPT !.kex = r.kex, !.encr = r.encr,
                                    !.requested = r.requested, !.skip = r.st = OkSpecial]
           hashed == Append(sv.hash, <<"client hello", Head(toServer).body>>)
       IN  IF r.st \notin {Ok, OkSpecial} THEN End(Read(sv), r.st)
           ELSE IF r.st = OkSpecial
           THEN Send([next EXCEPT !.at = "skip", !.hash = hashed], <<>>)
           ELSE Send([next EXCEPT !.at = IF r.requested THEN "request" ELSE "init",
                                  !.hash = Append(hashed, <<"server hello">>)], <<>>)

\* readHSPacketSSH2 of the guessed packet.
ServerSkip ==
  /\ ServerReceives("skip")
  /\ Send([Read(sv) EXCEPT !.at = IF sv.requested THEN "request" ELSE "init",
                           !.hash = Append(@, <<"server hello">>)], <<>>)

\* processDHE: the size asked for must be possible; the default group is kept
\* when it is near it.
ServerGroup ==
  /\ ServerReceives("request")
  /\ LET r == Head(toServer).body
     IN  IF r.n \notin MinPkcSize..MaxPkcSize THEN End(Read(sv), BadData)
         ELSE Send([Read(sv) EXCEPT !.at = "init", !.group = GroupFor(r.n),
                                    !.secret = <<<<"sizes", r>>, <<"group", GroupFor(r.n)>>>>],
                   <<<<GEX_GROUP, <<GroupFor(r.n)>>>>>>)

\* exchangeServerKeys, then completeServerHandshake up to its first read.
ServerReply ==
  /\ ServerReceives("init")
  /\ \E hash \in {completeKeyex(sv)} :
       LET replied == [Read(sv) EXCEPT !.hash = hash, !.writeSeq = @ + 2]
           st == initSecurityContextsSSH(sv.encr)
       IN  /\ toClient' = toClient \o
                Packets(sv, <<<<IF sv.requested THEN GEX_REPLY ELSE KEXDH_REPLY, hash>>,
                              <<NEWKEYS, Short>>>>)
           /\ sv' = IF st # Ok THEN [replied EXCEPT !.at = "ended", !.why = st]
                    ELSE [replied EXCEPT !.at = "newkeys",
                                         !.writeKey = initSecurityInfo(sv.encr, hash).out]

\* Mutant: both directions under the key of the server's.
ServerNewKeysSwapped ==
  /\ ServerReceives("newkeys")
  /\ Send([Read(sv) EXCEPT !.at = "service", !.readKey = initSecurityInfo(sv.encr, sv.hash).out], <<>>)

\* The client's NEWKEYS: what it sends from here on is under the new key.
ServerNewKeys ==
  /\ ServerReceives("newkeys")
  /\ Send([Read(sv) EXCEPT !.at = "service", !.readKey = initSecurityInfo(sv.encr, sv.hash).in], <<>>)

ServerService ==
  /\ ServerReceives("service")
  /\ Send([Read(sv) EXCEPT !.at = "auth"], <<<<SERVICE_ACCEPT, Short>>>>)

\* processServerAuth, of which this module knows the result only.
ServerAuthenticates ==
  /\ ServerReceives("auth")
  /\ Send([Read(sv) EXCEPT !.at = "open"], <<<<USERAUTH_SUCCESS, Short>>>>)

ServerRejects ==
  /\ ServerReceives("auth")
  /\ Send([Read(sv) EXCEPT !.at = "ended", !.why = "WRONGKEY"],
          <<<<USERAUTH_FAILURE, Short>>, <<DISCONNECT, Short>>>>)

\* The first channel, with which the handshake is over.
ServerOpens ==
  /\ ServerReceives("open")
  /\ Send([Read(sv) EXCEPT !.at = "data"], <<<<CHANNEL_OPEN_CONFIRMATION, Short>>>>)

\* readHSPacketSSH2: a no-op is left behind, anything wrong ends the session.
ServerIgnores ==
  /\ InHandshake
  /\ toServer # <<>>
  /\ readHSPacketSSH2(Head(toServer)) = "again"
  /\ sv' = [sv EXCEPT !.readSeq = @ + 1, !.noPackets = @ + 1]
  /\ toServer' = Tail(toServer)
  /\ UNCHANGED <<ini, lists, hello, cl, toClient>>

ServerFails ==
  /\ InHandshake
  /\ toServer # <<>>
  /\ readHSPacketSSH2(Head(toServer)) \notin {Ok, "again"}
  /\ End(Read(sv), readHSPacketSSH2(Head(toServer)))
  /\ toServer' = Tail(toServer)
  /\ UNCHANGED <<ini, lists, hello, cl>>

\* A packet of the open session: data, a no-op or the end.
ServerData ==
  /\ sv.at = "data"
  /\ toServer # <<>>
  /\ toServer' = Tail(toServer)
  /\ UNCHANGED <<ini, lists, hello, cl>>
  /\ LET p == Head(toServer)
         s == [sv EXCEPT !.readSeq = @ + 1]
     IN  IF readPacketHeaderSSH2(sv, p, ValidDataPackets) # Ok \/ ~checkMacSSH(sv, p)
         THEN End(s, BadData)
         ELSE IF p.type = DISCONNECT THEN End(s, getDisconnectInfo)
         ELSE Send(s, <<>>)

\* Shell output, pushed between two reads.
ServerPushes ==
  /\ sv.at = "data"
  /\ sv.sent < DataBound
  /\ Send([sv EXCEPT !.sent = @ + 1], <<<<CHANNEL_DATA, Short>>>>)
  /\ UNCHANGED <<ini, lists, hello, cl, toServer>>

-----------------------------------------------------------------------------
(* The client, which keeps to the protocol. *)

\* The client sends what msgs lists and becomes c.
Say(c, msgs) ==
  /\ \E d \in {c} : /\ toServer' = toServer \o Packets(d, msgs)
                  /\ cl' = [d EXCEPT !.writeSeq = @ + Len(msgs)]
  /\ UNCHANGED <<ini, lists, hello, sv>>

Leave(c) == Say([c EXCEPT !.at = "left"], <<<<DISCONNECT, Long>>>>)
GiveUp(c) == Say([c EXCEPT !.at = "gave up"], <<<<DISCONNECT, Long>>>>)

\* The client speaks without waiting for the server, perhaps with a guess.
ClientHello ==
  /\ cl.at = "hello"
  /\ \E request \in Requests :
       Say([cl EXCEPT !.at = "server hello", !.request = request],
           <<<<KEXINIT, hello>>>> \o
           (IF hello.guess THEN <<FirstOf(hello.kex[1], request)>> ELSE <<>>))
  /\ UNCHANGED toClient

\* The head of the client's queue, taken.
ClientTakes ==
  /\ toClient # <<>>
  /\ toClient' = Tail(toClient)
ClientRead(c) == [c EXCEPT !.readSeq = @ + 1]

ClientReadsHello ==
  /\ cl.at = "server hello"
  /\ ClientTakes
  /\ LET p == Head(toClient)
         c == Chosen
         next == [ClientRead(cl) EXCEPT
                    !.kex = c.kex, !.encr = <<c.in, c.out>>,
                    !.group = IF c.kex = DH THEN DHDefault ELSE 0,
                    !.at = IF c.kex = DH THEN "reply" ELSE "group"]
     IN  IF p.type # KEXINIT \/ None \in {c.kex, c.in, c.out} \/ HostKey \notin ToSet(hello.host)
         THEN GiveUp(ClientRead(cl))
         ELSE Say(next, IF c.right THEN <<>> ELSE <<FirstOf(c.kex, cl.request)>>)

ClientReadsGroup ==
  /\ cl.at = "group"
  /\ ClientTakes
  /\ LET p == Head(toClient)
     IN  IF p.type # GEX_GROUP \/ p.body[1] \notin cl.request.min..cl.request.max
         THEN GiveUp(ClientRead(cl))
         ELSE Say([ClientRead(cl) EXCEPT !.group = p.body[1], !.at = "reply"],
                  <<<<GEX_INIT, Long>>>>)

\* The hash the client signs off: RFC 4253 and RFC 4419.
ClientHash ==
  <<<<"client id">>, <<"server id">>, <<"client hello", hello>>, <<"server hello">>,
    <<"host key">>>>
  \o (IF cl.kex = DH THEN <<>>
      ELSE <<<<"sizes", cl.request>>, <<"group", cl.group>>>>)
  \o <<<<"client value">>, <<"server value">>, <<"secret", cl.group>>>>

\* The signature holds for the same hash only.
ClientReadsReply ==
  /\ cl.at = "reply"
  /\ ClientTakes
  /\ LET p == Head(toClient)
         c == [ClientRead(cl) EXCEPT !.hash = ClientHash, !.at = "newkeys"]
     IN  IF p.type = (IF cl.kex = DH THEN KEXDH_REPLY ELSE GEX_REPLY)
         THEN IF p.body # ClientHash \/ cl.kex = DHEAlt THEN GiveUp(ClientRead(cl))
              ELSE /\ toServer' = toServer \o Packets(c, <<<<NEWKEYS, Long>>>>)
                   /\ cl' = [c EXCEPT !.writeSeq = @ + 1,
                                      !.writeKey = loadCryptovariable(cl.encr[1], ClientHash, "C")]
                   /\ UNCHANGED <<ini, lists, hello, sv>>
         ELSE GiveUp(ClientRead(cl))

ClientReadsNewKeys ==
  /\ cl.at = "newkeys"
  /\ ClientTakes
  /\ Say([ClientRead(cl) EXCEPT !.at = "accept",
                                !.readKey = loadCryptovariable(cl.encr[2], cl.hash, "D")],
         <<<<SERVICE_REQUEST, Long>>>>)

\* The rest of the dialogue: each answer of the server and what follows it.
Dialogue == [accept |-> [answer |-> SERVICE_ACCEPT, next |-> "auth",
                         says |-> <<<<USERAUTH_REQUEST, Long>>>>],
             auth |-> [answer |-> USERAUTH_SUCCESS, next |-> "open",
                       says |-> <<<<CHANNEL_OPEN, Long>>>>],
             open |-> [answer |-> CHANNEL_OPEN_CONFIRMATION, next |-> "data", says |-> <<>>]]

ClientProceeds ==
  /\ cl.at \in DOMAIN Dialogue
  /\ ClientTakes
  /\ LET p == Head(toClient)
         d == Dialogue[cl.at]
     IN  IF ~Authentic(cl, p)
         THEN Say([ClientRead(cl) EXCEPT !.bad = TRUE, !.at = "gave up"], <<>>)
         ELSE IF p.type # d.answer THEN GiveUp(ClientRead(cl))
         ELSE Say([ClientRead(cl) EXCEPT !.at = d.next], d.says)

ClientReadsData ==
  /\ cl.at = "data"
  /\ ClientTakes
  /\ LET p == Head(toClient)
     IN  IF ~Authentic(cl, p)
         THEN Say([ClientRead(cl) EXCEPT !.bad = TRUE, !.at = "gave up"], <<>>)
         ELSE Say([ClientRead(cl) EXCEPT !.at = IF p.type = DISCONNECT THEN "left" ELSE @], <<>>)

\* Data of the open session.
ClientSendsData ==
  /\ cl.at = "data"
  /\ cl.sent < DataBound
  /\ Say([cl EXCEPT !.sent = @ + 1], <<<<CHANNEL_DATA, Long>>>>)
  /\ UNCHANGED toClient

\* A no-op where the protocol allows one.
ClientSendsNoOp ==
  /\ cl.at \in {"reply", "accept"}
  /\ cl.noOps < NoOpBound
  /\ Say([cl EXCEPT !.noOps = @ + 1], <<<<IGNORE, Long>>>>)
  /\ UNCHANGED toClient

ClientLeaves ==
  /\ cl.at \notin {"hello", "left", "gave up"}
  /\ Leave(cl)
  /\ UNCHANGED toClient

ServerReads ==
  \/ ServerHello \/ ServerSkip \/ ServerGroup \/ ServerReply \/ ServerNewKeys
  \/ ServerService \/ ServerAuthenticates \/ ServerRejects \/ ServerOpens
  \/ ServerIgnores \/ ServerFails \/ ServerData

ClientReads ==
  \/ ClientHello \/ ClientReadsHello \/ ClientReadsGroup \/ ClientReadsReply
  \/ ClientReadsNewKeys \/ ClientProceeds \/ ClientReadsData

Next ==
  \/ ServerBegin \/ ServerReads \/ ServerPushes
  \/ ClientReads \/ ClientSendsData \/ ClientSendsNoOp \/ ClientLeaves

\* Both sides read what arrives; the network delivers.
Spec == Init /\ [][Next]_vars /\ WF_vars(ServerBegin) /\ WF_vars(ServerReads)
             /\ WF_vars(ClientReads)

-----------------------------------------------------------------------------
(* Properties. *)

SvPlaces == {"start", "hello", "skip", "request", "init", "newkeys", "service",
             "auth", "open", "data", "ended"}
ClPlaces == {"hello", "server hello", "group", "reply", "newkeys", "accept", "auth",
             "open", "data", "left", "gave up"}

\* The types of the variables.
TypeOK ==
  /\ ini \in Inis /\ hello \in Hellos
  /\ sv.at \in SvPlaces /\ sv.noPackets \in 0..(NoOpLimit - 1) /\ sv.sent \in 0..DataBound
  /\ sv.readSeq \in Nat /\ sv.writeSeq \in Nat
  /\ {sv.requested, sv.skip, cl.bad} \subseteq BOOLEAN
  /\ cl.at \in ClPlaces /\ cl.noOps \in 0..NoOpBound /\ cl.sent \in 0..DataBound
  /\ \A i \in DOMAIN toServer : toServer[i].type \in 1..100
  /\ \A i \in DOMAIN toClient : toClient[i].type \in 1..100

\* Every packet arrives under the key and the number its reader is at: both
\* sides change keys at the same packet of each direction (initSecurityInfo,
\* SESSION_ISSECURE_READ and _WRITE), whatever is in flight around it.  A
\* client that orders its two cipher lists differently is left out:
\* readAlgoStringPair then takes a cipher the client did not choose.
SameKeys ==
  hello.encrIn = hello.encrOut =>
    /\ toServer # <<>> /\ sv.at # "ended" => Authentic(sv, Head(toServer))
    /\ toClient # <<>> /\ cl.at \notin {"left", "gave up"} => Authentic(cl, Head(toClient))

\* The hash the server signs is the hash the client computes: both saw the
\* same hellos, sizes, group and values in the same order, whichever packets
\* were skipped between them (beginServerHandshake, processDHE, completeKeyex).
SameHash ==
  sv.at = "newkeys" /\ cl.at = "reply" => sv.hash = ClientHash

\* With the group exchange named first, as in kts.ini, a server that accepts
\* the hello drops a guessed packet exactly when the client means it to
\* (prefAlgoMismatch).
SkipsWrongGuesses ==
  sv.kex # None /\ ini.kex[1] = DHE => (sv.skip <=> hello.guess /\ ~Chosen.right)

\* What is lost when the session ends was sent by a side that had given up or
\* has ended: the open session of a client that stays goes on.
OpenSessionsLast == [][sv.at = "data" /\ sv'.at = "ended" => sv'.why = "READ"]_vars

\* A client whose lists share algorithms with the configured ones, whose guess,
\* if any, is right and whose group can be made gets its session, unless it
\* leaves, fails to authenticate or floods the server with no-ops.
Compatible ==
  /\ ini.kex[1] = DHE /\ hello.encrIn = hello.encrOut
  /\ ToSet(ini.encr) \subseteq KnownNames /\ DHEAlt \notin ToSet(ini.kex)
  /\ None \notin {Chosen.kex, Chosen.in}
  /\ HostKey \in ToSet(hello.host)
  /\ hello.guess => Chosen.right

ClientsServed ==
  Compatible =>
    <>(\/ cl.at \in {"data", "left"} \/ sv.why \in {"WRONGKEY", "OVERFLOW"}
       \/ cl.at # "hello" /\ ~Feasible(cl.request))

\* Whatever is skipped, guessed or in flight, both sides are at the same keys,
\* packet numbers and hash.
TransportInv == TypeOK /\ SameKeys /\ SameHash /\ SkipsWrongGuesses

\* A client that shares algorithms with the server gets its session, and keeps it
\* until it leaves.
SessionsServed == ClientsServed /\ OpenSessionsLast
=============================================================================
