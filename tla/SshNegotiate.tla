---------------------------- MODULE SshNegotiate ----------------------------
(***************************************************************************)
(* How the SSH server chooses algorithms: the lists of kts.ini (KSsh,      *)
(* cryptSetAlgoList), what it offers (writeAlgoList) and what it takes     *)
(* from the client's KEXINIT (readAlgoStringEx, processHelloSSH).          *)
(*                                                                         *)
(* A table of ALGO_STRING_INFO is the sequence of its algorithms; a NULL   *)
(* name is None.  Names and algorithms are the same strings, except a name *)
(* the tables do not know.                                                 *)
(***************************************************************************)
EXTENDS Integers, Sequences, FiniteSets, SequencesExt, FiniteSetsExt

None == "none"               \* CRYPT_ALGO_NONE, a NULL name
DHE == "group-exchange-sha1"
DHEAlt == "group-exchange-sha256"
DH == "group1-sha1"

Ok == "OK"
OkSpecial == "OK_SPECIAL"
BadData == "BADDATA"
NotAvail == "NOTAVAIL"
Internal == "INTERNAL"

\* What cryptAlgoInfoFromString knows of the names in these models.
KnownNames == {DHE, DHEAlt, DH, "3des", "blowfish", "cast128", "rsa", "dsa"}

cryptAlgoFromString(name) == IF name \in KnownNames THEN name ELSE None

\* The second table has no row for group-exchange-sha256.
cryptAlgoInfoFromAlgo(algo) == IF algo = DHEAlt THEN None ELSE algo

\* The length of an array in front of its first terminator.
Rows(array) == SelectInSeq(array, LAMBDA a : a = None) - 1

\* algoSize: those entries and two terminators, the last of which is the entry
\* that a name without a row is paired with.
algoSize(array) == Rows(array) + 2
Table(array) == [rows |-> SubSeq(array, 1, Rows(array)), last |-> array[algoSize(array)]]

\* writeAlgoList: the list ends at its first None.
writeAlgoList(array) == SubSeq(array, 1, Rows(array))

\* cryptSetAlgoList: the algorithms offered and the names understood, both
\* cut at the length of the static array and closed by two terminators.
cryptSetAlgoList(list, room) ==
  LET kept == SubSeq(list, 1, Min({Len(list), room}))
      end == <<None, None>>
  IN  [offered |-> writeAlgoList(kept \o end),
       table |-> Table([i \in 1..Len(kept) |-> cryptAlgoInfoFromAlgo(kept[i])] \o end)]

\* KSsh::SetAlgoLists: the lists of the ini file, at most 18 names each.
SetAlgoLists(kexList, encrList) ==
  LET Algos(list) == [i \in 1..Min({Len(list), 18}) |-> cryptAlgoFromString(list[i])]
  IN  [kex |-> cryptSetAlgoList(Algos(kexList), 2),
       encr |-> cryptSetAlgoList(Algos(encrList), 5)]

\* readAlgoStringEx on a server.  A name is matched with its row; a name without
\* one is paired with the table's last entry, a terminator when the table is
\* well formed, and keeps the index of the first terminator.  A table without
\* a row fails the ENSURES behind the search.
readAlgoStringEx(table, names, preferred, warn) ==
  LET Known(p) == \E r \in DOMAIN table.rows : table.rows[r] = names[p]
      Entry(p) == IF Known(p) THEN names[p] ELSE table.last
      Match == {p \in DOMAIN names : /\ Entry(p) # None
                                     /\ warn \/ preferred \in {None, Entry(p)}}
      Result(st, algo, mismatch) == [st |-> st, algo |-> algo, mismatch |-> mismatch]
  IN  IF table.rows = <<>> THEN Result(Internal, None, FALSE)
      ELSE IF Match = {} THEN Result(NotAvail, None, FALSE)
      ELSE LET p == Min(Match)
           IN  Result(Ok, IF Known(p) THEN names[p] ELSE None,
                      warn /\ (p # 1 \/ Entry(p) # preferred))

\* readAlgoStringPair: the second list must hold the choice of the first.
readAlgoStringPair(table, first, second) ==
  LET one == readAlgoStringEx(table, first, None, FALSE)
      two == readAlgoStringEx(table, second, one.algo, FALSE)
  IN  IF one.st # Ok THEN one
      ELSE IF two.st = Ok /\ two.algo # one.algo THEN [two EXCEPT !.st = BadData]
      ELSE two

\* What processHelloSSH and processClientKexinit have in common: the lists of
\* the client's KEXINIT in their order, and whether its guess must be skipped.
ReadHello(lists, hostTable, hostKey, hello) ==
  LET kex == readAlgoStringEx(lists.kex.table, hello.kex, DHE, TRUE)
      host == readAlgoStringEx(hostTable, hello.host, hostKey, TRUE)
      encr == readAlgoStringPair(lists.encr.table, hello.encrIn, hello.encrOut)
      skip == hello.guess /\ (kex.mismatch \/ host.mismatch)
  IN  [st |-> IF kex.st # Ok THEN kex.st
              ELSE IF host.st # Ok THEN host.st
              ELSE IF encr.st # Ok THEN encr.st
              ELSE IF skip THEN OkSpecial ELSE Ok,
       kex |-> kex.algo, encr |-> encr.algo]

\* processHelloSSH, server side, with the table of the one host key that
\* beginServerHandshake makes.  requested: the client will ask for a group.
processHelloSSH(lists, hostKey, hello) ==
  LET r == ReadHello(lists, [rows |-> <<hostKey>>, last |-> None], hostKey, hello)
  IN  [st |-> r.st, kex |-> r.kex, encr |-> r.encr, requested |-> r.kex \in {DHE, DHEAlt}]

\* processClientKexinit, for a re-key.  ke_SSH2_MSG_KEXINIT sets the host key
\* table to one of two rows, but its length stays that of a table of three: a
\* name without a row is paired with what follows the table in memory, last.
processClientKexinit(lists, hostKey, last, hello) ==
  LET r == ReadHello(lists, [rows |-> <<hostKey>>, last |-> last], hostKey, hello)
  IN  [st |-> r.st, requested |-> r.kex = DHE]

\* initDHcontextSSH: the group for a requested size in bytes; 0 is the default.
DHDefault == 128
initDHcontextSSH(requested) ==
  IF requested = 0 THEN DHDefault
  ELSE IF requested < 128 + 8 THEN 128
  ELSE IF requested < 192 + 8 THEN 192
  ELSE IF requested < 256 + 8 THEN 256
  ELSE 384

\* The group after a GEX request: the default one is kept when it is near enough.
GroupFor(requested) ==
  IF requested < DHDefault - 16 \/ requested > DHDefault + 16
  THEN initDHcontextSSH(requested) ELSE DHDefault

-----------------------------------------------------------------------------
(* The rule of the protocol, as a client applies it. *)

\* The client's first choice that the server offers too.
Negotiated(clientNames, serverNames) ==
  LET both == {p \in DOMAIN clientNames : clientNames[p] \in ToSet(serverNames)}
  IN  IF both = {} THEN None ELSE clientNames[Min(both)]

\* A guess is right when both sides name the same algorithms first.
GuessRight(hello, kexOffered, hostKey) ==
  /\ kexOffered # <<>> /\ hello.kex[1] = kexOffered[1]
  /\ hello.host[1] = hostKey
=============================================================================
