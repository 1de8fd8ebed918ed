------------------------------ MODULE SshRekey ------------------------------
(***************************************************************************)
(* The re-keying of an open SSH session (ssh2_svr.c, the functions ke_...) *)
(* at a client's request.  An exchange is spread over packets of the open  *)
(* session and its state kept in a global, ke_handshakeInfo, while data    *)
(* goes on in both directions.  The session starts open, under the keys of *)
(* its first exchange, that of SshTransport.                               *)
(*                                                                         *)
(* The client keeps to the protocol, may name other algorithms than at     *)
(* first, guess, send data where it may, and take data at any time.        *)
(***************************************************************************)
EXTENDS SshPacket

CONSTANTS
  LongHellos,  \* the hellos that fill the server's copy of 2000 bytes
  RekeyBound   \* bound: exchanges the client asks for

ASSUME RekeyAssumption == LongHellos \subseteq Hellos /\ RekeyBound \in Nat

VARIABLES
  offers,    \* the arrays and tables the server keeps of the lists of kts.ini
  server,    \* SESSION_INFO and, as ke, the state of the exchange
  client,
  inbound,   \* packets in flight to the server
  outbound   \* packets in flight to the client

rekeyVars == <<offers, server, client, inbound, outbound>>

\* ke_sessionID: the hash of the first exchange.  Keys are made of it and of
\* the hash of the latest exchange.
SessionID == <<"first exchange">>

\* Mutant: the hash of the latest exchange twice, as in the handshake.
KeyMaterialOwn(hash) == <<hash, hash>>
KeyMaterial(hash) == <<hash, SessionID>>

\* ke_handshakeInfo: NULL; made, it has the hash so far, whether a group was
\* asked for, the group (0: no context), and the finished hash as sessionID.
NoExchange ==
  [made |-> FALSE, hash |-> <<>>, requested |-> FALSE, secret |-> <<>>, group |-> 0,
   sessionID |-> <<>>]

\* A body with the sender's Diffie-Hellman value, the n-th it made.
Value(n) == [long |-> TRUE, value |-> n]

\* The finished hash holds both values.
SignedHash(parts, clientValue, serverValue) ==
  <<completeKeyex(parts), clientValue, serverValue>>

FirstCiphers(l) ==
  {Negotiated(h.encrIn, l.encr.offered) : h \in {k \in Hellos : k.encrIn = k.encrOut}} \ {None}

RekeyInit ==
  /\ \E i \in Inis : offers = SetAlgoLists(i.kex, i.encr)
  /\ \E encr \in FirstCiphers(offers) :
       LET keys == initSecurityInfo(encr, KeyMaterial(SessionID))
       IN  /\ server = [at |-> "data", why |-> Ok, encr |-> encr, ke |-> NoExchange,
                        readKey |-> keys.in, writeKey |-> keys.out, readSeq |-> 0,
                        writeSeq |-> 0, turn |-> 0, sent |-> 0]
           /\ client = [at |-> "data", encr |-> <<encr, encr>>, hello |-> <<>>,
                        request |-> <<>>, kex |-> None, group |-> 0, hash |-> <<>>,
                        readKey |-> keys.out, writeKey |-> keys.in, readSeq |-> 0,
                        writeSeq |-> 0, turn |-> 0, sent |-> 0]
  /\ inbound = <<>>
  /\ outbound = <<>>

-----------------------------------------------------------------------------
(* The server, a packet at a time. *)

\* The server becomes s and sends the <<type, body>> of msgs under its keys.
Answer(s, msgs) ==
  \E t \in {s} :
    /\ outbound' = outbound \o Packets(t, msgs)
    /\ server' = [t EXCEPT !.writeSeq = @ + Len(msgs)]

\* An error is fatal to the session: a disconnect, under the keys in use.
Abort(s, why) == Answer([s EXCEPT !.at = "ended", !.why = why], <<<<DISCONNECT, Short>>>>)

\* ke_SSH2_MSG_KEXINIT: one exchange at a time.  Its state is made first and
\* outlives a failure; the cipher read from the lists is not the session's.  A
\* wrong guess returns before the server's own KEXINIT and before any hash.  What
\* follows the host key table in memory is the other table, with a row for dsa,
\* or nothing with a name.
keKexinit(s, hello) ==
  \E r \in {processClientKexinit(offers, HostKey, last, hello) : last \in {None, "dsa"}} :
  LET made == [s EXCEPT !.ke = [NoExchange EXCEPT !.made = TRUE], !.turn = @ + 1]
      read == [made EXCEPT !.ke.requested = r.requested]
      hashed == <<<<"client id">>, <<"server id">>, <<"client hello", hello>>, <<"server hello">>>>
  IN  IF s.ke.made THEN Abort(s, "ERROR")
      ELSE IF hello \in LongHellos THEN Abort(made, "OVERFLOW")
      ELSE IF r.st = OkSpecial THEN Answer(read, <<>>)
      ELSE IF r.st # Ok THEN Abort(read, r.st)
      ELSE Answer([read EXCEPT !.ke.hash = hashed, !.ke.group = initDHcontextSSH(0)],
                  <<<<KEXINIT, <<offers.kex.offered, offers.encr.offered>>>>>>)

\* The length of a Diffie-Hellman value of group1, 128, read as a size in bits.
ValueAsSize == 128 \div 8

\* ke_SSH2_MSG_KEXDH_GEX_REQUEST: of both forms, and of a KEXDH_INIT, which has
\* the older form's number.  Without a context only another group can be sent.
keGexRequest(s, body) ==
  LET request == body \in Requests
      n == IF request THEN body.n ELSE ValueAsSize
      far == n < DHDefault - 16 \/ n > DHDefault + 16
      group == IF far THEN initDHcontextSSH(n) ELSE s.ke.group
  IN  IF n \notin MinPkcSize..MaxPkcSize THEN Abort(s, BadData)
      ELSE IF group = 0 THEN Abort(s, Internal)
      ELSE Answer([s EXCEPT !.ke.requested = TRUE, !.ke.group = group,
                            !.ke.secret = <<<<"sizes", body>>, <<"group", group>>>>],
                  <<<<GEX_GROUP, <<group>>>>>>)

\* ke_SSH2_MSG_KEXDH_INIT, for a GEX_INIT: the context of the hash is gone once
\* the hash is signed.
keKexdhInit(s, body) ==
  LET hash == SignedHash(s.ke, body.value, s.turn)
  IN  IF s.ke.group = 0 THEN Abort(s, BadData)
      ELSE IF s.ke.sessionID # <<>> \/ s.ke.hash = <<>> THEN Abort(s, "ERROR")
      ELSE Answer([s EXCEPT !.ke.sessionID = hash],
                  <<<<IF s.ke.requested THEN GEX_REPLY ELSE KEXDH_REPLY,
                      [hash |-> hash, value |-> s.turn]>>>>)

\* Mutant: the state of the exchange is not freed.
keNewKeysUnfreed(s) ==
  LET keys == initSecurityInfo(s.encr, KeyMaterial(s.ke.sessionID))
  IN  /\ outbound' = outbound \o Packets(s, <<<<NEWKEYS, Short>>>>)
      /\ server' = [s EXCEPT !.writeSeq = @ + 1, !.readKey = keys.in, !.writeKey = keys.out]

\* ke_SSH2_MSG_NEWKEYS: the server's own goes out under the old keys, then both
\* directions change and the exchange is over.
keNewKeys(s) ==
  LET keys == initSecurityInfo(s.encr, KeyMaterial(s.ke.sessionID))
  IN  /\ outbound' = outbound \o Packets(s, <<<<NEWKEYS, Short>>>>)
      /\ server' = [s EXCEPT !.writeSeq = @ + 1, !.readKey = keys.in, !.writeKey = keys.out,
                             !.ke = NoExchange]

\* ke_DH_ROUTER, by the packet's type.
keDHRouter(s, p) ==
  IF p.type = KEXINIT THEN keKexinit(s, p.body)
  ELSE IF ~s.ke.made THEN Abort(s, BadData)
  ELSE CASE p.type = NEWKEYS -> keNewKeys(s)
         [] p.type \in {GEX_REQUEST_OLD, GEX_REQUEST_NEW} -> keGexRequest(s, p.body)
         [] p.type = GEX_INIT -> keKexdhInit(s, p.body)

\* A packet of the open session.
ServerTakes ==
  /\ server.at = "data"
  /\ inbound # <<>>
  /\ inbound' = Tail(inbound)
  /\ UNCHANGED <<offers, client>>
  /\ \E s \in {[server EXCEPT !.readSeq = @ + 1]} :
       LET p == Head(inbound)
       IN  IF readPacketHeaderSSH2(server, p, ValidDataPackets) # Ok THEN Abort(server, BadData)
           ELSE IF ~checkMacSSH(server, p) THEN Abort(server, "SIGNATURE")
           ELSE CASE p.type = DISCONNECT -> Abort(s, getDisconnectInfo)
                  [] p.type = CHANNEL_DATA -> Answer(s, <<>>)
                  [] OTHER -> keDHRouter(s, p)

\* Shell output is pushed between two reads, an exchange under way or not.
ServerWrites ==
  /\ server.at = "data"
  /\ server.sent < DataBound
  /\ Answer([server EXCEPT !.sent = @ + 1], <<<<CHANNEL_DATA, Short>>>>)
  /\ UNCHANGED <<offers, client, inbound>>

-----------------------------------------------------------------------------
(* The client. *)

RekeyChoice == ClientChoice(offers, client.hello)

\* The client becomes c and sends what msgs lists under its keys.
Tell(c, msgs) ==
  /\ inbound' = inbound \o Packets(c, msgs)
  /\ client' = [c EXCEPT !.writeSeq = @ + Len(msgs)]
  /\ UNCHANGED <<offers, server>>

\* It leaves on its own, or because of what it was sent.
Disconnect(c, at) == Tell([c EXCEPT !.at = at], <<<<DISCONNECT, Short>>>>)
BreaksOff(c) == Disconnect(c, "gave up")

\* The first packet of the exchange; a value is the client's own.
FirstPacket(kex, c) ==
  LET first == FirstOf(kex, c.request)
  IN  IF first[2] = Long THEN <<first[1], Value(c.turn)>> ELSE first

Away == {"left", "gave up"}

ClientRekeys ==
  /\ client.at = "data"
  /\ client.turn < RekeyBound
  /\ \E hello \in Hellos, request \in Requests :
       LET c == [client EXCEPT !.at = "hello", !.hello = hello, !.request = request,
                               !.turn = @ + 1]
       IN  Tell(c, <<<<KEXINIT, hello>>>> \o
                   (IF hello.guess THEN <<FirstPacket(hello.kex[1], c)>> ELSE <<>>))
  /\ UNCHANGED outbound

ClientWrites ==
  /\ client.at \in {"data", "newkeys"}
  /\ client.sent < DataBound
  /\ Tell([client EXCEPT !.sent = @ + 1], <<<<CHANNEL_DATA, Short>>>>)
  /\ UNCHANGED outbound

ClientHangsUp ==
  /\ client.at \notin Away
  /\ Disconnect(client, "left")
  /\ UNCHANGED outbound

\* The head of the client's queue, of the type it waits for in its place.
Hears(at, types) ==
  /\ client.at = at
  /\ outbound # <<>>
  /\ Authentic(client, Head(outbound))
  /\ Head(outbound).type \in types
  /\ outbound' = Tail(outbound)
Heard == [client EXCEPT !.readSeq = @ + 1]

HearsHello ==
  /\ Hears("hello", {KEXINIT})
  /\ LET c == RekeyChoice
         next == [Heard EXCEPT !.kex = c.kex, !.encr = <<c.in, c.out>>, !.group = DHDefault,
                               !.at = IF c.kex = DH THEN "reply" ELSE "group"]
     IN  IF None \in {c.kex, c.in, c.out} \/ HostKey \notin ToSet(client.hello.host)
         THEN BreaksOff(Heard)
         ELSE Tell(next, IF c.right THEN <<>> ELSE <<FirstPacket(c.kex, next)>>)

HearsGroup ==
  /\ Hears("group", {GEX_GROUP})
  /\ LET group == Head(outbound).body[1]
     IN  IF group \notin client.request.min..client.request.max THEN BreaksOff(Heard)
         ELSE Tell([Heard EXCEPT !.group = group, !.at = "reply"],
                   <<<<GEX_INIT, Value(client.turn)>>>>)

\* The hash of what the client saw: RFC 4253 and RFC 4419.
OwnHash(serverValue) ==
  SignedHash(
    [hash |-> <<<<"client id">>, <<"server id">>, <<"client hello", client.hello>>, <<"server hello">>>>,
     secret |-> IF client.kex = DH THEN <<>>
                ELSE <<<<"sizes", client.request>>, <<"group", client.group>>>>,
     group |-> client.group],
    client.turn, serverValue)

\* The signature holds for the same hash only; what the client sends behind its
\* NEWKEYS is under the new keys.
HearsReply ==
  /\ Hears("reply", {KEXDH_REPLY, GEX_REPLY})
  /\ LET p == Head(outbound)
         hash == OwnHash(p.body.value)
         new == loadCryptovariable(client.encr[1], <<hash, SessionID>>, "C")
     IN  IF p.body.hash # hash \/ (p.type = KEXDH_REPLY) # (client.kex = DH) THEN BreaksOff(Heard)
         ELSE /\ inbound' = inbound \o Packets(client, <<<<NEWKEYS, Short>>>>)
              /\ client' = [Heard EXCEPT !.writeSeq = @ + 1, !.writeKey = new, !.hash = hash,
                                         !.at = "newkeys"]
              /\ UNCHANGED <<offers, server>>

HearsNewKeys ==
  /\ Hears("newkeys", {NEWKEYS})
  /\ Tell([Heard EXCEPT !.at = "data",
                        !.readKey = loadCryptovariable(client.encr[2],
                                                       <<client.hash, SessionID>>, "D")], <<>>)

\* Data, wherever it comes; the server's disconnect; a packet that cannot be
\* read or does not belong where it is.
Awaited == [data |-> {}, hello |-> {KEXINIT}, group |-> {GEX_GROUP},
            reply |-> {KEXDH_REPLY, GEX_REPLY}, newkeys |-> {NEWKEYS}]
HearsOther ==
  /\ client.at \notin Away
  /\ outbound # <<>>
  /\ LET p == Head(outbound)
     IN  /\ ~Authentic(client, p) \/ p.type \notin Awaited[client.at]
         /\ IF Authentic(client, p) /\ p.type = CHANNEL_DATA THEN Tell(Heard, <<>>)
            ELSE IF Authentic(client, p) /\ p.type = DISCONNECT
            THEN Tell([Heard EXCEPT !.at = "left"], <<>>)
            ELSE BreaksOff(Heard)
  /\ outbound' = Tail(outbound)

ClientHears ==
  HearsHello \/ HearsGroup \/ HearsReply \/ HearsNewKeys \/ HearsOther

RekeyNext ==
  \/ ServerTakes \/ ServerWrites
  \/ ClientRekeys \/ ClientWrites \/ ClientHangsUp \/ ClientHears

\* A packet leaves its queue, which ServerTakes and ClientHears alone do.
Inbound == server.at = "data" /\ inbound # <<>> /\ inbound' = Tail(inbound)
Outbound == client.at \notin Away /\ outbound # <<>> /\ outbound' = Tail(outbound)

\* Both sides read what arrives.
RekeySpec == RekeyInit /\ [][RekeyNext]_rekeyVars /\ WF_inbound(Inbound)
                       /\ WF_outbound(Outbound)

-----------------------------------------------------------------------------
(* Properties. *)

\* The types of the variables.
RekeyTypes ==
  /\ server.at \in {"data", "ended"} /\ server.sent \in 0..DataBound
  /\ server.ke.made \in BOOLEAN /\ server.ke.requested \in BOOLEAN
  /\ client.at \in DOMAIN Awaited \cup Away /\ client.sent \in 0..DataBound
  /\ client.turn \in 0..RekeyBound /\ server.turn \in 0..RekeyBound
  /\ {server.readSeq, server.writeSeq, client.readSeq, client.writeSeq} \subseteq Nat

\* The client's latest exchange keeps the cipher of the session, which is the
\* one the server goes on with whatever the lists say.
KeepsCipher == client.encr = <<server.encr, server.encr>>

\* Each packet is read with the key and the number it was written with, though
\* the two sides change theirs at different times and send data meanwhile.
KeysFollow ==
  KeepsCipher =>
    /\ inbound # <<>> /\ server.at = "data" => Authentic(server, Head(inbound))
    /\ outbound # <<>> /\ client.at \notin Away => Authentic(client, Head(outbound))

\* What the server signs is what the client computes, of this exchange and of no
\* earlier one.
SameSum ==
  server.ke.sessionID # <<>> /\ client.at = "reply" => server.ke.sessionID = OwnHash(server.turn)

\* An exchange is over on both sides or on neither: a client back at data has
\* left no state of it with the server, which would refuse the next.
NothingHalfMade ==
  client.at = "data" /\ server.at = "data" => ~server.ke.made

RekeyInv == RekeyTypes /\ KeysFollow /\ SameSum /\ NothingHalfMade

\* A re-key that the server can make: with a group exchange, a right guess if any,
\* a group it has, a hello it has room for, and the session's cipher, with which
\* the earlier ones were made too.
Possible ==
  /\ client.hello \notin LongHellos
  /\ RekeyChoice.kex = DHE /\ RekeyChoice.in = server.encr /\ RekeyChoice.out = server.encr
  /\ HostKey \in ToSet(client.hello.host)
  /\ client.hello.guess => RekeyChoice.right
  /\ Feasible(client.request)
  /\ KeepsCipher

\* Such a re-key ends in the open session or with the client's own leaving, and
\* a session without any other does not end before the client leaves.
RekeysServed ==
  /\ [](client.turn > 0 /\ Possible => <>(client.at \in {"data", "left"}))
  /\ [][server.at = "data" /\ server'.at = "ended" =>
          server'.why = "READ" \/ (client.turn > 0 /\ ~Possible)]_rekeyVars
=============================================================================
