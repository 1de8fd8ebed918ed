---------------------------- MODULE MCKtsSession ----------------------------
(* Instances of KtsSession and of KtsTelnet, what a session makes of the    *)
(* bytes of its client.  They share no state: a behaviour is one of one of  *)
(* them, and the other rests in one initial state.                          *)
EXTENDS KtsSession, KtsTelnet
CONSTANTS s1, s2, s3

(* The processes. *)

\* The port of s2 begins with that of s1.
MCPrefix == [s \in Sessions |-> IF s = s1 THEN Sessions \cap {s1, s2} ELSE {s}]

\* Two sessions come upon one that waits; a faulty one upon a faulty one that
\* waits; each kind of session alone; two from the beginning.
Scene(come, waiting, faulty, stops) ==
  [come |-> come, waiting |-> waiting, faulty |-> faulty, stops |-> stops]
Nobody == Scene({}, {}, {}, FALSE)
MCScenes == {Scene(Sessions, {s1}, {}, FALSE), Scene({s1, s2}, {s1}, {s1, s2}, FALSE),
             Scene({s1}, {}, {s1}, TRUE), Scene({s2}, {}, {s2}, TRUE),
             Scene({s1, s2}, {}, {}, TRUE), Scene(Sessions, {s2}, {s1}, FALSE), Nobody}

(* The input: the first rows of telnet.ini and some of utf-8.ini. *)

Row(client, server) == [client |-> client, server |-> server]
MCClientServer ==
  <<Row(<<>>, <<<<IAC, WILL, 1>>, <<IAC, DO, NAWS>>, <<IAC, WILL, 3>>>>),
    Row(<<IAC, WILL, NAWS>>, <<<<IAC, DO, NAWS>>>>),
    Row(<<IAC, DO, 1>>, <<<<IAC, WILL, 1>>>>),
    Row(<<IAC, DONT, 1>>, <<>>),
    Row(<<IAC, DO, 3>>, <<<<IAC, WILL, 3>>>>)>>
Key(client, key) == [client |-> client, key |-> key]
MCKeyFile == <<Key(<<1>>, "alt"), Key(<<>>, ""), Key(<<27, 79, 80>>, "F1"), Key(<<97>>, "a"), Key(<<27>>, "Esc")>>
Types(bytes, means) == [bytes |-> bytes, keys |-> means, size |-> <<>>]
Resizes(x, y) == [bytes |-> naws(x, y), keys |-> <<>>, size |-> <<x, y>>]
Tells(x, y) == [bytes |-> <<>>, keys |-> <<>>, size |-> <<x, y>>]
TelnetScene(units, left) ==
  [units |-> units, left |-> left, ssh |-> FALSE, cuts |-> FALSE, answers |-> FALSE, faulty |-> FALSE,
   programs |-> 0, meant |-> <<>>, size |-> <<>>]
Keyboard == {Types(<<97>>, <<"a">>), Types(<<27, 79, 80>>, <<"F1">>), Types(<<27>>, <<"Esc">>), Types(<<3>>, <<"event">>)}
MCTelnetScenes ==
  {TelnetScene({}, 0),
   [TelnetScene({Types(<<97>>, <<"a">>), Types(<<IAC, DO, 1>>, <<>>)}, 1) EXCEPT !.answers = TRUE],
   [TelnetScene(Keyboard \cup {Resizes(132, 43)}, 2) EXCEPT !.cuts = TRUE],
   [TelnetScene(Keyboard, 2) EXCEPT !.faulty = TRUE, !.cuts = TRUE],
   [TelnetScene({Resizes(132, 43), Resizes(200, 50), Resizes(40, 70)}, 2) EXCEPT !.programs = 2],
   [TelnetScene({Tells(132, 43), Tells(0, 0), Tells(40000, 20)}, 2) EXCEPT !.programs = 2, !.ssh = TRUE]}
MCMaxWindow == <<160, 60>>

-----------------------------------------------------------------------------

VARIABLE part

processVars == <<part, vars, telnetVars>>

ProcessInit ==
  /\ part \in {"processes", "input"}
  /\ Init /\ TelnetInit
  /\ IF part = "input" THEN scene = Nobody ELSE user.left = 0

OfProcesses(A) == part = "processes" /\ A /\ UNCHANGED <<part, telnetVars>>
OfInput(A) == part = "input" /\ A /\ UNCHANGED <<part, vars>>

ProcessNext == OfProcesses(Next) \/ OfInput(TelnetNext)

\* As the Spec of KtsSession and TelnetSpec.
ProcessSpec ==
  /\ ProcessInit /\ [][ProcessNext]_processVars
  /\ \A s \in Sessions :
       /\ WF_processVars(OfProcesses(Main(s) /\ UNCHANGED scene))
       /\ WF_processVars(OfProcesses(Login(s) /\ UNCHANGED scene))
       /\ WF_processVars(OfProcesses(Monitor(s) /\ UNCHANGED scene))
       /\ WF_processVars(OfProcesses(ShuttingDown(s) /\ UNCHANGED scene))
       /\ WF_processVars(OfProcesses(s \in scene.faulty /\ Waiting(s) /\ TimeOut(s) /\ UNCHANGED scene))
  /\ WF_processVars(OfInput(SessionLoop))
  /\ WF_processVars(OfInput(ClientReads))
=============================================================================
