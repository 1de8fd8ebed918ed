---------------------------- MODULE MCSshServer ----------------------------
(* Instances of what runs beside and before the sessions: the daemon, the   *)
(* setup program, the transport, a re-key, the automatic logon.  They share *)
(* no state: a behaviour is one of one part, and the others rest in one     *)
(* initial state.                                                           *)
EXTENDS KtsDaemon, KtsSetup, AutoLogon, SshTransport, SshRekey

(* The daemon: two clients at one address, one at another. *)

MCIp == [c \in Conns |-> IF c = "c3" THEN "b" ELSE "a"]

\* The two at one address are interchangeable: the first comes first.
InOrder == conn["c2"] # "none" => conn["c1"] # "none"

(* The setup program, with kts.ini as it is delivered: a service name, a    *)
(* message in quotes.                                                       *)

MCCharacters == {"\\", "n", "k", "SP", "NL", "QT", "AP"}
MCSetupChars == {"\\", "n", "QT"}
MCSetupName == <<"k">>
MCSetupText == <<"QT", "\\", "n", "SP", "QT">>

(* The transport, and the re-key. *)

DefaultCiphers == <<"3des", "blowfish", "cast128">>
DefaultIni == [kex |-> <<DHE, DH>>, encr |-> DefaultCiphers]

\* kts.ini as it is delivered, with the exchanges the other way round, with a
\* name nobody knows among the ciphers, with an exchange the tables lack.
MCInis == {DefaultIni, [DefaultIni EXCEPT !.kex = <<DH, DHE>>],
           [DefaultIni EXCEPT !.encr = <<"3des", "aes256", "blowfish">>],
           [DefaultIni EXCEPT !.kex = <<DHE, DHEAlt>>]}

Hello(kex, host, in, out, guess) ==
  [kex |-> kex, host |-> host, encrIn |-> in, encrOut |-> out, guess |-> guess]

\* A client that shares no key exchange with the server.
NoKex == Hello(<<"ecdh">>, <<"rsa">>, <<"3des">>, <<"3des">>, FALSE)

MCHellos ==
  LET ciphers == <<"aes128-ctr", "3des", "blowfish">>
  IN  {Hello(<<"ecdh", DHEAlt, DHE, DH>>, <<"rsa", "dsa">>, ciphers, ciphers, FALSE),
       Hello(<<DH>>, <<"rsa">>, <<"3des">>, <<"3des">>, FALSE),
       Hello(<<DH, DHE>>, <<"rsa">>, <<"3des">>, <<"3des">>, TRUE),
       Hello(<<DHE, DH>>, <<"rsa">>, <<"blowfish">>, <<"blowfish">>, TRUE),
       Hello(<<DHE>>, <<"dsa", "rsa">>, <<"3des">>, <<"3des">>, TRUE),
       Hello(<<DHE>>, <<"rsa">>, <<"3des", "blowfish">>, <<"blowfish", "3des">>, FALSE),
       NoKex}

Request(type, min, n, max) == [type |-> type, min |-> min, n |-> n, max |-> max]
MCRequests == {Request(GEX_REQUEST_OLD, 128, 128, 512), Request(GEX_REQUEST_NEW, 128, 256, 512),
               Request(GEX_REQUEST_NEW, 256, 1024, 1024)}

\* One of the hellos is taken for a long one.
MCLongHellos == {Hello(<<DHE, DH>>, <<"rsa">>, <<"blowfish">>, <<"blowfish">>, TRUE)}

(* The automatic logon. *)

Letters == {"1", "2", "."}
MCAddresses == UNION {[1..n -> Letters] : n \in 1..3}

One == Atom("char", "1")
Two == Atom("char", "2")
Dot == Atom("char", ".")
Digit == Atom("digit", "")
Simple == {One, Digit, Atom("any", "")}
Loops(ts, ops) == {Loop(op, t) : op \in ops, t \in ts}
Pairs(ts) == {Both(a, b) : a, b \in ts} \cup {Either(a, b) : a, b \in ts}

Greedy == {<<"*">>, <<"+">>, <<"?">>}
Small == Simple \cup {Two} \cup Loops(Simple, Greedy) \cup Pairs({One, Two})
Medium == Small \cup Loops(Small, Greedy) \cup Pairs(Small)
Single == Medium \cup {Line(t) : t \in Pairs(Simple)}
             \cup {Both(Atom("not", "1"), t) : t \in Small} \cup {Both(t, Atom("set", "1")) : t \in Small}
             \cup {Both(One, Either(t, Either(Two, Digit))) : t \in Small}
MCRuleFiles == {<<t>> : t \in Single} \cup {<<t, u>> : t \in Small, u \in Simple}

-----------------------------------------------------------------------------

VARIABLE part

serverVars == <<part, daemonVars, setupVars, autoVars, vars, rekeyVars>>

ServerInit ==
  /\ part \in {"daemon", "setup", "autologon", "transport", "rekey"}
  /\ DaemonInit /\ SetupInit /\ AutoInit /\ Init /\ RekeyInit
  /\ part # "setup" => menu.options = 0
  /\ part # "transport" => ini = DefaultIni /\ hello = NoKex
  /\ part # "rekey" => offers = lists /\ server.encr = "3des"

OfDaemon(A) == part = "daemon" /\ A /\ UNCHANGED <<part, setupVars, autoVars, vars, rekeyVars>>
OfSetup(A) == part = "setup" /\ A /\ UNCHANGED <<part, daemonVars, autoVars, vars, rekeyVars>>
OfAutoLogon(A) == part = "autologon" /\ A /\ UNCHANGED <<part, daemonVars, setupVars, vars, rekeyVars>>
OfTransport(A) ==
  part = "transport" /\ A /\ UNCHANGED <<part, daemonVars, setupVars, autoVars, rekeyVars>>
OfRekey(A) == part = "rekey" /\ A /\ UNCHANGED <<part, daemonVars, setupVars, autoVars, vars>>

ServerNext ==
  \/ OfDaemon(DaemonNext) /\ InOrder'
  \/ OfSetup(SetupNext)
  \/ OfAutoLogon(AutoNext)
  \/ OfTransport(Next)
  \/ OfRekey(RekeyNext)

\* As DaemonSpec, SetupSpec, AutoSpec, RekeySpec and the Spec of SshTransport.
ServerSpec ==
  /\ ServerInit /\ [][ServerNext]_serverVars
  /\ WF_serverVars(OfDaemon(AcceptConnections))
  /\ \A c \in Conns : WF_serverVars(OfDaemon(ClientCloses(c)))
  /\ WF_serverVars(OfTransport(ServerBegin))
  /\ WF_serverVars(OfTransport(ServerReads))
  /\ WF_serverVars(OfTransport(ClientReads))
  /\ WF_inbound(part = "rekey" /\ Inbound)
  /\ WF_outbound(part = "rekey" /\ Outbound)

\* A client that shares algorithms with the server gets its session (SshTransport),
\* and keeps it through each re-key the server can make (SshRekey).
SessionsKept == SessionsServed /\ RekeysServed
=============================================================================
