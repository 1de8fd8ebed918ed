----------------------------- MODULE SshPacket -----------------------------
(***************************************************************************)
(* Packets of the SSH session: their numbers, the keys and codes they are  *)
(* written with (ssh2_cry.c), how a reader takes one (ssh2_rd.c), and what *)
(* a client that keeps to the protocol makes of two hellos.  The handshake *)
(* (SshTransport) and the re-keying of an open session (SshRekey) are made *)
(* of them.                                                                *)
(*                                                                         *)
(* A key is the record of what it was derived from, so that a packet is    *)
(* readable exactly with the key it was written with.                      *)
(***************************************************************************)
EXTENDS SshNegotiate

CONSTANTS
  Inis,        \* the algorithm lists of kts.ini: records [kex, encr]
  Hellos,      \* what clients send as KEXINIT: [kex, host, encrIn, encrOut, guess]
  Requests,    \* group requests: [type, min, n, max], in bytes
  DataBound,   \* bound: data packets of either side
  MinPkcSize,  \* MIN_PKCSIZE and CRYPT_MAX_PKCSIZE, in bytes
  MaxPkcSize

HostKey == "rsa"

\* ssh.h: two packets of the two exchanges share the number 30, two 31.
DISCONNECT == 1
IGNORE == 2
SERVICE_REQUEST == 5
SERVICE_ACCEPT == 6
KEXINIT == 20
NEWKEYS == 21
KEXDH_INIT == 30
KEXDH_REPLY == 31
GEX_REQUEST_OLD == 30
GEX_GROUP == 31
GEX_INIT == 32
GEX_REPLY == 33
GEX_REQUEST_NEW == 34
USERAUTH_REQUEST == 50
USERAUTH_FAILURE == 51
USERAUTH_SUCCESS == 52
CHANNEL_OPEN == 90
CHANNEL_OPEN_CONFIRMATION == 91
CHANNEL_DATA == 94

\* A list of names, or any other sequence.
IsList(s) == s \in Seq(ToSet(s))

\* The lists are lists; no algorithm is called none; the cipher list of kts.ini
\* names no key exchange.
ASSUME PacketAssumption ==
  /\ \A i \in Inis : IsList(i.kex) /\ IsList(i.encr) /\ DHEAlt \notin ToSet(i.encr)
  /\ \A h \in Hellos :
       /\ IsList(h.kex) /\ IsList(h.host) /\ IsList(h.encrIn) /\ IsList(h.encrOut)
       /\ None \notin ToSet(h.kex) \cup ToSet(h.host) \cup ToSet(h.encrIn) \cup ToSet(h.encrOut)
       /\ h.guess \in BOOLEAN
  /\ Requests \subseteq [type : {GEX_REQUEST_OLD, GEX_REQUEST_NEW}, min : Nat, n : Nat, max : Nat]
  /\ DataBound \in Nat

-----------------------------------------------------------------------------
(* ssh2_cry.c: keys and codes. *)

\* A key is made of the cipher, the hash of the exchange and a letter.
loadCryptovariable(encr, hash, letter) == <<encr, hash, letter>>

\* initSecurityContextsSSH: an algorithm that has no context fails.
initSecurityContextsSSH(encr) == IF encr = None THEN NotAvail ELSE Ok

\* initSecurityInfo: the keys of both directions of a server; the IVs and the
\* MAC keys are made with them, with letters of their own.
initSecurityInfo(encr, hash) ==
  [in |-> loadCryptovariable(encr, hash, "C"), out |-> loadCryptovariable(encr, hash, "D")]

\* The MAC stands for its key and the packet's number.
macDataSSH(key, seq) == <<key, seq>>

\* completeKeyex: what the exchange hash has seen, in its order.
completeKeyex(s) ==
  s.hash \o <<<<"host key">>>> \o s.secret
         \o <<<<"client value">>, <<"server value">>, <<"secret", s.group>>>>

\* The packets of msgs, as the side sends them.
Packets(side, msgs) ==
  [i \in 1..Len(msgs) |-> [type |-> msgs[i][1], body |-> msgs[i][2], key |-> side.writeKey,
                          mac |-> macDataSSH(side.writeKey, side.writeSeq + i - 1)]]

\* A body of the size of a Diffie-Hellman value, and one that is smaller.
Long == [long |-> TRUE]
Short == [long |-> FALSE]

-----------------------------------------------------------------------------
(* ssh2_rd.c: what a reader finds. *)

\* checkPacketValid: the packets an open session may hold.
ValidDataPackets ==
  {DISCONNECT, IGNORE, KEXINIT, KEXDH_INIT, GEX_INIT, GEX_REQUEST_NEW, NEWKEYS,
   CHANNEL_OPEN, CHANNEL_OPEN_CONFIRMATION, CHANNEL_DATA}

checkMacSSH(side, p) == p.mac = macDataSSH(side.readKey, side.readSeq)

\* The header is decrypted before the MAC is seen: under another key its length
\* is out of range.  Then its type must be one of those valid at the time.
readPacketHeaderSSH2(side, p, valid) ==
  IF p.key # side.readKey \/ p.type \notin valid THEN BadData ELSE Ok

\* What both sides can tell of a packet before they act on it.
Authentic(side, p) == p.key = side.readKey /\ checkMacSSH(side, p)

\* getDisconnectInfo: what the peer's disconnect becomes.
getDisconnectInfo == "READ"

-----------------------------------------------------------------------------
(* A client that keeps to the protocol. *)

\* What it makes of its hello and the lists the server offers.
ClientChoice(offered, hello) ==
  [kex |-> Negotiated(hello.kex, offered.kex.offered),
   in |-> Negotiated(hello.encrIn, offered.encr.offered),
   out |-> Negotiated(hello.encrOut, offered.encr.offered),
   right |-> hello.guess /\ GuessRight(hello, offered.kex.offered, HostKey)]

\* The first packet of an exchange: a request for a group, a Diffie-Hellman
\* value, or the smaller value of an exchange the server does not know.
FirstOf(kex, request) ==
  CASE kex \in {DHE, DHEAlt} -> <<request.type, request>>
    [] kex = DH -> <<KEXDH_INIT, Long>>
    [] OTHER -> <<KEXDH_INIT, Short>>

\* A request the server has a group for that the client takes.
Feasible(r) == r.n \in MinPkcSize..MaxPkcSize /\ GroupFor(r.n) \in r.min..r.max
=============================================================================
