------------------------------ MODULE KtsSetup ------------------------------
(***************************************************************************)
(* The setup program of the SSH server (KSetup.hxx): a menu of functions   *)
(* on the Windows service and of the options of kts.ini, which it edits,   *)
(* and the same functions from the command line.                           *)
(***************************************************************************)
EXTENDS Naturals, Sequences, SequencesExt

CONSTANTS
  SetupOptions, \* bound: how many options kts.ini may have
  SetupHeight,  \* rows of the menu on the screen, 20
  Characters,   \* what texts are made of; "NL" is the line feed, "SP" a blank,
                \* "QT" and "AP" are a quotation mark and an apostrophe
  SetupChars,   \* bound: the characters a user types
  SetupName,    \* what kts.ini holds at first for the name of the service,
  SetupText,    \* and for each other option
  KeyBuffer,    \* characters GetKey has room for, 999
  TextBound,    \* bound: characters of an option
  SaveBound     \* bound: options saved

ASSUME SetupAssumption ==
  /\ SetupOptions \subseteq Nat /\ SetupHeight \in Nat \ {0}
  /\ {"NL", "\\", "n"} \subseteq Characters /\ SetupChars \subseteq Characters
  /\ {SetupName, SetupText} \subseteq Seq(Characters)
  /\ KeyBuffer \in Nat

VARIABLES
  menu,     \* the menu: its options, place, and the option that is edited
  ktsIni,   \* kts.ini: each option's text, as it is in the file; 1 is the service's name
  services, \* the service manager: the services, each with its state
  saved     \* history: what the editor showed when an option was saved

setupVars == <<menu, ktsIni, services, saved>>

\* The functions, an empty row, and the options.
BlankRow == 5
MenuRows(n) == 6 + n
Shown(n) == IF MenuRows(n) < SetupHeight THEN MenuRows(n) ELSE SetupHeight

\* LoadSetup.
SetupInit ==
  \E n \in SetupOptions :
    /\ menu = [options |-> n, pc |-> "menu", top |-> 0, index |-> 0, param |-> <<>>, saves |-> 0]
    /\ ktsIni = [k \in 1..n |-> IF k = 1 THEN SetupName ELSE SetupText]
    /\ services = <<>>
    /\ saved = [k \in 1..n |-> <<>>]

-----------------------------------------------------------------------------
(* KIni *)

\* ReplaceString, a character at a time: a backslash and an n are a line feed.
WithLineFeed(text, char) ==
  IF char = "n" /\ text # <<>> /\ Last(text) = "\\" THEN Append(Front(text), "NL")
  ELSE Append(text, char)

\* GetPrivateProfileString: blanks around a text are not part of it, nor are the
\* quotes that enclose it, and what the buffer has no room for is cut off.
Trimmed(text) ==
  LET ink == {i \in DOMAIN text : text[i] # "SP"}
  IN  IF ink = {} THEN <<>>
      ELSE SubSeq(text, CHOOSE i \in ink : \A j \in ink : i <= j, CHOOSE i \in ink : \A j \in ink : j <= i)

Enclosed(text) ==
  Len(text) >= 2 /\ text[1] \in {"QT", "AP"} /\ text[Len(text)] = text[1]
Unquoted(text) == IF Enclosed(text) THEN SubSeq(text, 2, Len(text) - 1) ELSE text
Cut(text) == IF Len(text) > KeyBuffer THEN SubSeq(text, 1, KeyBuffer) ELSE text

LineFeeds(text) ==
  LET read[i \in 0..Len(text)] == IF i = 0 THEN <<>> ELSE WithLineFeed(read[i - 1], text[i])
  IN  read[Len(text)]
Written(char) == IF char = "NL" THEN <<"\\", "n">> ELSE <<char>>
Escaped(text) ==
  LET written[i \in 0..Len(text)] == IF i = 0 THEN <<>> ELSE written[i - 1] \o Written(text[i])
  IN  written[Len(text)]

GetKey(k) == LineFeeds(Cut(Unquoted(Trimmed(ktsIni[k]))))
SetKey(k, text) == ktsIni' = [ktsIni EXCEPT ![k] = text]

-----------------------------------------------------------------------------
(* KService *)

Becomes(name, service) == services' = [s \in DOMAIN services \cup {name} |->
                                         IF s = name THEN service ELSE services[s]]
Gone(name) == services' = [s \in DOMAIN services \ {name} |-> services[s]]

\* CreateService fails without a name, and when the name is there, marked for
\* deletion or not.
CreateService(name) ==
  IF name \in {<<>>} \cup DOMAIN services THEN UNCHANGED services
  ELSE Becomes(name, [state |-> "stopped", deleted |-> FALSE, early |-> FALSE])

StartService(name) ==
  IF name \in DOMAIN services /\ services[name].state = "stopped"
  THEN Becomes(name, [services[name] EXCEPT !.state = "starting"])
  ELSE UNCHANGED services

\* A service that has not reported that it runs takes no controls.
Told(service) == IF service.state = "running" THEN [service EXCEPT !.state = "stopping"] ELSE service
StopService(name) ==
  IF name \in DOMAIN services THEN Becomes(name, Told(services[name])) ELSE UNCHANGED services

Marked(service) == [service EXCEPT !.deleted = TRUE, !.early = @ \/ service.state = "starting"]
\* Whether it could be told to stop is not looked at; it is there until it ends.
DeleteService(name) ==
  CASE name \notin DOMAIN services -> UNCHANGED services
    [] name \in DOMAIN services /\ services[name].state = "stopped" -> Gone(name)
    [] OTHER -> Becomes(name, Told(Marked(services[name])))

\* The daemon and the manager: the service runs, or it does not come up; it
\* stops when told and may end by itself; once marked it goes when it ends.
ServiceEnds(name) ==
  IF services[name].deleted THEN Gone(name)
  ELSE Becomes(name, [services[name] EXCEPT !.state = "stopped"])
ServiceMoves ==
  /\ \E name \in DOMAIN services :
       \/ /\ services[name].state = "starting"
          /\ Becomes(name, [services[name] EXCEPT !.state = "running"]) \/ ServiceEnds(name)
       \/ services[name].state \in {"running", "stopping"} /\ ServiceEnds(name)
  /\ UNCHANGED <<menu, ktsIni, saved>>

-----------------------------------------------------------------------------
(* KSetup *)

\* The functions are for the service that kts.ini names now.
ServiceName == IF 1 \in DOMAIN ktsIni THEN GetKey(1) ELSE <<>>
Install == CreateService(ServiceName)
Start == StartService(ServiceName)
Stop == StopService(ServiceName)
Uninstall == DeleteService(ServiceName)
RSAKey == UNCHANGED services
ProcessFunction(i) == CASE i = 0 -> Install
                        [] i = 1 -> Uninstall
                        [] i = 2 -> Start
                        [] i = 3 -> Stop
                        [] i = 4 -> RSAKey

\* The rows UpdateScreen draws.
OnScreen(m) == m.top..(m.top + Shown(m.options) - 1)

Down(m) ==
  LET index == IF m.index < MenuRows(m.options) - 1 THEN m.index + 1 ELSE m.index
  IN  [m EXCEPT !.index = index, !.top = IF index > @ + Shown(m.options) - 1 THEN @ + 1 ELSE @]
Up(m) ==
  LET index == IF m.index > 0 THEN m.index - 1 ELSE m.index
  IN  [m EXCEPT !.index = index, !.top = IF index < @ THEN @ - 1 ELSE @]

\* The key counts again on the empty row; where it moves nothing, for ever.
Skip(once, twice) ==
  menu' = CASE once.index # BlankRow -> once
            [] once.index = BlankRow /\ twice.index # BlankRow -> twice
            [] OTHER -> [menu EXCEPT !.pc = "overflow"]

PressKey ==
  /\ menu.pc = "menu"
  /\ \/ Skip(Up(menu), Up(Up(menu)))
     \/ Skip(Down(menu), Down(Down(menu)))
     \/ menu' = [menu EXCEPT !.pc = "exit"]
  /\ UNCHANGED <<ktsIni, services, saved>>

PressEnter ==
  /\ menu.pc = "menu"
  /\ IF menu.index < BlankRow
     THEN ProcessFunction(menu.index) /\ UNCHANGED menu
     ELSE /\ menu.saves < SaveBound
          /\ menu' = [menu EXCEPT !.pc = "edit", !.param = GetKey(menu.index - BlankRow)]
          /\ UNCHANGED services
  /\ UNCHANGED <<ktsIni, saved>>

\* Mutant: what is typed stays as it is.
TypedRaw(param, char) == Append(param, char)
Typed(param, char) == WithLineFeed(param, char)

\* EditParam: a character, a backspace, or the end.
EditParam ==
  /\ menu.pc = "edit"
  /\ \/ \E char \in SetupChars : /\ Len(menu.param) < TextBound
                                 /\ menu' = [menu EXCEPT !.param = Typed(@, char)]
     \/ menu.param # <<>> /\ menu' = [menu EXCEPT !.param = Front(@)]
     \/ menu' = [menu EXCEPT !.pc = "menu", !.param = <<>>]
  /\ UNCHANGED <<ktsIni, services, saved>>

SaveParam ==
  /\ menu.pc = "edit"
  /\ SetKey(menu.index - BlankRow, Escaped(menu.param))
  /\ saved' = [saved EXCEPT ![menu.index - BlankRow] = menu.param]
  /\ menu' = [menu EXCEPT !.pc = "menu", !.param = <<>>, !.saves = @ + 1]
  /\ UNCHANGED services

\* daemon.exe -install, -uninstall, -start, -stop, at any time.
CommandLine == \E i \in 0..4 : ProcessFunction(i) /\ UNCHANGED <<menu, ktsIni, saved>>

SetupNext == PressKey \/ PressEnter \/ EditParam \/ SaveParam \/ CommandLine \/ ServiceMoves

SetupSpec == SetupInit /\ [][SetupNext]_setupVars

-----------------------------------------------------------------------------
(* Properties *)

\* The row with the cursor is on the screen and is not the empty one, every row
\* of the screen is a row of the menu, and only a kts.ini without options makes
\* the key that skips the empty row call itself for ever (ProcessKey).
CursorOnScreen ==
  /\ menu.index \in OnScreen(menu)
  /\ OnScreen(menu) \subseteq 0..(MenuRows(menu.options) - 1)
  /\ menu.index # BlankRow
  /\ menu.pc = "overflow" => menu.options = 0

\* A text that the file keeps: one with blanks at its ends or in quotes would need
\* quotes around it, which SetKey does not write, and a long one is cut off.
Keepable(text) ==
  /\ text # <<>> /\ Head(text) # "SP" /\ Last(text) # "SP"
  /\ ~Enclosed(text)
  /\ Len(Escaped(text)) <= KeyBuffer

\* What the editor showed when an option was saved is what every program reads
\* from kts.ini afterwards, the line feeds of a message too, if the file can keep
\* it at all (KSetup::EditParam, KIni::GetKey, KIni::SetKey).
SavedAsShown == \A k \in DOMAIN ktsIni : Keepable(saved[k]) => GetKey(k) = saved[k]

\* A service that is marked for deletion has been told to stop, unless it was
\* starting then and could not be told (KService::Uninstall).
DeletedAreStopping ==
  \A name \in DOMAIN services :
    services[name].deleted => services[name].state = "stopping" \/ services[name].early

\* The setup program shows what is: its cursor is on a row, an option is saved as
\* it was shown, and a service it removes is one that ends (KSetup, KService).
SetupInv == CursorOnScreen /\ SavedAsShown /\ DeletedAreStopping
=============================================================================
