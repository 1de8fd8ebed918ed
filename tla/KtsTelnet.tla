----------------------------- MODULE KtsTelnet -----------------------------
(* What a session makes of the bytes of its client (KSession::Consume,      *)
(* KTelnet, KKey): commands of the telnet protocol are answered, sizes set  *)
(* the console (FixConsoleScreenSize, KConsole), the rest are keys.  Reads  *)
(* cut the stream anywhere; programs change the same console.               *)
EXTENDS Integers, Sequences, SequencesExt, FiniteSetsExt, TLC

CONSTANTS
  ClientServer,  \* rows client<i>, server<i> of telnet.ini
  KeyFile,       \* rows input<i>, key<i> of the key file, in its order
  TelnetScenes,  \* clients: what they send, over what, beside which programs
  MaxWindow      \* largest window of the console, columns and rows

IAC == 255  DONT == 254  DO == 253  WONT == 252  WILL == 251
SB == 250   NAWS == 31   SE == 240
MaxWidth == 150    \* columns FixConsoleScreenSize goes up to
BuffHeight == 300  \* rows of the buffer it makes

VARIABLES
  user,      \* the client: scene, units left, keys meant, size announced
  toServer,  \* units of bytes on their way to the session
  toClient,  \* commands on their way to the client
  session,   \* rows passed, screen, keys typed; which half of the loop is next
  console    \* window and buffer of the console

telnetVars == <<user, toServer, toClient, session, console>>

-----------------------------------------------------------------------------
(* Sizes as bytes. *)

naws(width, height) ==
  <<IAC, SB, NAWS, (width \div 256) % 256, width % 256, (height \div 256) % 256, height % 256, IAC, SE>>

Short(n) == IF n >= 32768 THEN n - 65536 ELSE n

-----------------------------------------------------------------------------
(* The console of Windows: what it refuses leaves it as it was. *)

WindowFits(con, left, top, x, y) ==
  /\ x \in 1..MaxWindow[1] /\ left >= 0 /\ left + x <= con.bx
  /\ y \in 1..MaxWindow[2] /\ top >= 0 /\ top + y <= con.by

SetWindow(con, left, top, x, y) ==
  IF WindowFits(con, left, top, x, y)
  THEN [con EXCEPT !.left = left, !.top = top, !.x = x, !.y = y]
  ELSE con

SetBuffer(con, bx, by) ==
  IF bx >= con.x /\ by >= con.y
  THEN [con EXCEPT !.bx = bx, !.by = by, !.left = Min({@, bx - con.x}), !.top = Min({@, by - con.y})]
  ELSE con

HasScroll(con) == ~(con.top + con.y = con.by /\ con.top = 0)

SetScreenSizeAsIs(con, x, y) == SetWindow(con, con.left, con.top, x, y)

SetScreenSize(con, x, y) ==
  IF con.x = x /\ con.y = y
  THEN con
  ELSE LET grown == SetBuffer(con, Max({con.bx, x}), Max({con.by, y}))
       IN SetWindow(grown, Min({con.left, grown.bx - x}), Min({con.top, grown.by - y}), x, y)

SetBuffSize(con, x, y) ==
  LET low == y < con.y
      narrow == x < con.x
      tight == IF low THEN SetBuffer(con, con.bx, con.y) ELSE con
      left == IF narrow THEN 0 ELSE con.left
      top == IF low THEN 0 ELSE con.top
      wide == IF narrow THEN x ELSE con.x
      high == IF low THEN y ELSE con.y
  IN IF con.bx = x /\ con.by = y THEN con
     ELSE IF ~WindowFits(tight, left, top, wide, high) THEN tight
     ELSE SetBuffer(SetWindow(tight, left, top, wide, high), x, y)

-----------------------------------------------------------------------------
(* Bytes of the client.  Each Consume takes st, what is left of the input   *)
(* with what came of it so far, and gives what it leaves.                   *)

After(st, n) == [st EXCEPT !.input = SubSeq(@, n + 1, Len(@)), !.taken = TRUE]

Begins(st, verbs) == Len(st.input) >= 3 /\ st.input[1] = IAC /\ st.input[2] \in verbs

Rows(st) == {i \in DOMAIN ClientServer \ st.passed : IsPrefix(ClientServer[i].client, st.input)}

Consume_client_server(st) ==
  LET i == Min(Rows(st))
  IN [After(st, Len(ClientServer[i].client)) EXCEPT
        !.out = @ \o ClientServer[i].server, !.passed = @ \cup {i}]

Consume_iac_do_will(st) ==
  [After(st, 3) EXCEPT !.out = Append(@, <<IAC, DONT, st.input[3]>>)]

Consume_iac_dont_wont(st) == After(st, 3)

IsNaws(st) == Len(st.input) >= 9 /\ SubSeq(st.input, 1, 3) = <<IAC, SB, NAWS>>

Consume_iac_sb_naws(st) ==
  [After(st, 9) EXCEPT !.screen = <<Short(st.input[4] * 256 + st.input[5]),
                                    Short(st.input[6] * 256 + st.input[7])>>]

\* The byte is gone whether or not the event could be made; if not, the
\* session goes on as if nothing had been taken.
Consume_ctrl_c(st) ==
  IF st.faulty THEN [After(st, 1) EXCEPT !.taken = FALSE]
  ELSE [After(st, 1) EXCEPT !.typed = Append(@, "event")]

TelnetConsume(st) ==
  CASE Rows(st) # {} -> Consume_client_server(st)
    [] Rows(st) = {} /\ Begins(st, {DO, WILL}) -> Consume_iac_do_will(st)
    [] Rows(st) = {} /\ Begins(st, {DONT, WONT}) -> Consume_iac_dont_wont(st)
    [] Rows(st) = {} /\ IsNaws(st) -> Consume_iac_sb_naws(st)
    [] Rows(st) = {} /\ st.input[1] = 3 -> Consume_ctrl_c(st)
    [] OTHER -> st

SortKeysShortest(file) == SortSeq(file, LAMBDA k, l : Len(k.client) < Len(l.client))
SortKeys(file) == SortSeq(file, LAMBDA k, l : Len(k.client) > Len(l.client))

\* The rows of the file, those without input left out.
keys == SortKeys(SelectSeq(KeyFile, LAMBDA k : k.client # <<>>))

SendKey(typed, key) == IF key = "" THEN typed ELSE Append(typed, key)

KeyConsume(st) ==
  LET hits == {i \in DOMAIN keys : IsPrefix(keys[i].client, st.input)}
      k == keys[Min(hits)]
  IN IF hits = {} THEN st
     ELSE [After(st, Len(k.client)) EXCEPT !.typed = SendKey(@, k.key)]

Inputs == [input : Seq(0..255), taken : BOOLEAN, out : Seq(Seq(0..255)), passed : SUBSET Nat,
           screen : Seq(Int), typed : Seq(STRING), faulty : BOOLEAN, ended : BOOLEAN]

\* What nobody takes is dropped, byte by byte; dropping from nothing throws.
Consume[st \in Inputs] ==
  LET telnet == TelnetConsume([st EXCEPT !.taken = FALSE])
      key == IF telnet.taken THEN telnet ELSE KeyConsume(telnet)
  IN IF st.input = <<>> THEN st
     ELSE IF key.taken THEN Consume[key]
     ELSE IF key.input = <<>> THEN [key EXCEPT !.ended = TRUE]
     ELSE Consume[After(key, 1)]

Consumed(s, input) ==
  Consume[[input |-> input, taken |-> FALSE, out |-> <<>>, passed |-> s.passed, screen |-> s.screen,
           typed |-> s.typed, faulty |-> user.faulty, ended |-> FALSE]]

-----------------------------------------------------------------------------
(* The session. *)

\* KSession::Init, with the values of kts.ini, on a console as Windows makes it.
FirstScreen == <<80, 24>>
FirstConsole ==
  LET made == [left |-> 0, top |-> 0, x |-> 80, y |-> 25, bx |-> 80, by |-> 300]
  IN SetBuffSize(SetScreenSize(made, FirstScreen[1], FirstScreen[2]), FirstScreen[1], BuffHeight)

\* The rows as they are read from telnet.ini: none passed.
Loaded == [passed |-> {}, screen |-> FirstScreen, typed |-> <<>>]

\* The loop begins by consuming one byte, for the row that wants none.
TelnetInit ==
  /\ user \in {[s EXCEPT !.size = FirstScreen] : s \in TelnetScenes}
  /\ LET st == Consumed(Loaded, <<0>>)
     IN /\ session = [passed |-> st.passed, screen |-> FirstScreen, typed |-> <<>>,
                      next |-> "read", cut |-> FALSE]
        /\ toClient = IF user.ssh \/ ~user.answers THEN <<>> ELSE st.out
  /\ toServer = <<>>
  /\ console = FirstConsole

\* A read gets whole units, k of them, and m bytes of one more.
SessionReads ==
  /\ session.next = "read"
  /\ \E k \in 0..Len(toServer) :
     \E m \in {0} \cup (IF user.cuts /\ ~session.cut /\ k < Len(toServer) THEN 1..Len(toServer[k + 1]) - 1
                        ELSE {}) :
     \E st \in {Consumed(session, FlattenSeq(SubSeq(toServer, 1, k))
                                     \o (IF m = 0 THEN <<>> ELSE SubSeq(toServer[k + 1], 1, m)))} :
       LET rest == SubSeq(toServer, k + 1, Len(toServer))
       IN /\ k + m > 0 \/ toServer = <<>>
          /\ toServer' = IF m = 0 THEN rest ELSE [rest EXCEPT ![1] = SubSeq(@, m + 1, Len(@))]
          /\ toClient' = IF user.answers THEN toClient \o st.out ELSE toClient
          /\ session' = [passed |-> st.passed, screen |-> st.screen, typed |-> st.typed,
                         next |-> IF st.ended THEN "ended" ELSE "fix", cut |-> session.cut \/ m > 0]
  /\ UNCHANGED <<user, console>>

FixConsoleScreenSize ==
  /\ session.next = "fix"
  /\ LET screen == IF user.ssh THEN <<Short(user.size[1]), Short(user.size[2])>> ELSE session.screen
         x == Min({screen[1], MaxWidth})
         sized == SetScreenSize(console, x, screen[2])
     IN IF HasScroll(console)
        THEN /\ session' = [session EXCEPT !.next = "read", !.screen = <<x, screen[2]>>]
             /\ console' = IF console.left + console.x - 1 # x - 1
                           THEN SetBuffSize(sized, x, BuffHeight)
                           ELSE sized
        ELSE /\ session' = [session EXCEPT !.next = "read", !.screen = screen]
             /\ UNCHANGED console
  /\ UNCHANGED <<user, toServer, toClient>>

-----------------------------------------------------------------------------
(* The client, and the programs on the console. *)

\* A unit: bytes, what they mean as keys, or a size.
ClientSends ==
  /\ user.left > 0
  /\ \E unit \in user.units :
       /\ toServer' = IF unit.bytes = <<>> THEN toServer ELSE Append(toServer, unit.bytes)
       /\ user' = [user EXCEPT !.left = @ - 1, !.meant = @ \o unit.keys,
                               !.size = IF unit.size = <<>> THEN @ ELSE unit.size]
  /\ UNCHANGED <<toClient, session, console>>

\* A client may acknowledge every command, or only what changes something;
\* commands to one that answers nothing are not kept.
Answers(command) ==
  LET verbs == [v \in {DO, WILL, DONT, WONT} |->
                  CASE v = DO -> {WILL, WONT} [] v = WILL -> {DO, DONT}
                    [] v = DONT -> {WONT} [] OTHER -> {DONT}]
  IN {<<>>} \cup {<<<<IAC, v, command[3]>>>> : v \in verbs[command[2]]}

ClientReads ==
  /\ toClient # <<>>
  /\ toClient' = Tail(toClient)
  /\ \E answer \in Answers(Head(toClient)) : toServer' = toServer \o answer
  /\ UNCHANGED <<user, session, console>>

\* Output scrolls the window; a program takes the buffer for a screen of its
\* own, or gives the console another width, or the buffer other rows.
ProgramRuns ==
  /\ user.programs > 0
  /\ \/ console' = SetWindow(console, console.left, console.by - console.y, console.x, console.y)
     \/ console' = SetBuffer([console EXCEPT !.left = 0, !.top = 0], console.x, console.y)
     \/ console' = SetBuffer(console, console.x, BuffHeight)
     \/ console' = SetBuffer(console, 120, console.by)
     \/ console' = SetBuffer(console, console.bx, 50)
  /\ user' = [user EXCEPT !.programs = @ - 1]
  /\ UNCHANGED <<toServer, toClient, session>>

TelnetNext == SessionReads \/ FixConsoleScreenSize \/ ClientSends \/ ClientReads \/ ProgramRuns

SessionLoop == SessionReads \/ FixConsoleScreenSize

\* The loop turns for as long as the session lives; a client reads.
TelnetSpec ==
  /\ TelnetInit /\ [][TelnetNext]_telnetVars
  /\ WF_telnetVars(SessionLoop)
  /\ WF_telnetVars(ClientReads)

-----------------------------------------------------------------------------
(* Unless a read cut a command or the console refused an event, what the    *)
(* session typed is what the client's bytes mean, in order, however the     *)
(* reads fell, whichever rows were passed and whatever was answered in      *)
(* between; and its screen is the size announced last.                      *)
InputUnderstood ==
  ~session.cut /\ ~user.faulty /\ toServer = <<>> =>
    /\ session.typed = user.meant
    /\ user.ssh \/ session.screen \in {user.size, <<Min({user.size[1], MaxWidth}), user.size[2]>>}

(* Negotiation ends, also with a client that acknowledges every command,    *)
(* answers to its own included.                                             *)
NegotiationEnds == <>[]((toServer = <<>> /\ toClient = <<>>) \/ session.next = "ended")

(* In the end the window has the client's size, if a window can have it:    *)
(* what programs and earlier sizes left behind is overcome.  A size that a  *)
(* read cuts is lost, and a console without rows to scroll is left alone:   *)
(* the code takes it for a program's full screen.                           *)
ScreenFollows ==
  LET wide == Min({Short(user.size[1]), MaxWidth})
  IN <>[](\/ session.next = "ended" \/ session.cut
          \/ ~HasScroll(console)
          \/ wide \notin 1..MaxWindow[1] \/ user.size[2] \notin 1..MaxWindow[2]
          \/ console.x = wide /\ console.y = user.size[2])

(* The conversation settles: no command is answered for ever, and the       *)
(* console ends with the size of the client's window.                       *)
TelnetSettles == NegotiationEnds /\ ScreenFollows
=============================================================================
