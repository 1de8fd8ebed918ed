------------------------- MODULE SshTransportProofs -------------------------
(***************************************************************************)
(* Proofs about the handshake and the open session of the SSH server       *)
(* (SshTransport, SshNegotiate), for any kts.ini, any hello of a client    *)
(* and any group it asks for.                                              *)
(*                                                                         *)
(* TransportIndInv is the inductive invariant.  ServerInv and ClientInv    *)
(* say what each side knows where it is, OutInv and InInv what the packets *)
(* on their way are, by their number: which key and code they carry, which *)
(* of them change the keys and what a reader of them will find.  The sides *)
(* then agree without ever having compared anything.                       *)
(*                                                                         *)
(* The parts: lists and the choice of algorithms (what readAlgoStringEx    *)
(* takes is what the client takes), packets, the server's steps behind the *)
(* exchange, its steps of the exchange, the client's steps.                *)
(***************************************************************************)
EXTENDS SshTransport, SequenceTheorems, WellFoundedInduction, TLAPS

-----------------------------------------------------------------------------
(* Sequences and minima.                                                   *)

(* One natural is less than another.                                       *)
NatLess == {ss \in Nat \X Nat : ss[1] < ss[2]}

(* The order of the naturals, as a relation, has no descent without end.   *)
LEMMA NatLessIsWellFounded == IsWellFoundedOn(NatLess, Nat)
BY NatLessThanWellFounded DEF OpToRel, NatLess

(* A set of naturals that is not empty has a least element.                *)
LEMMA LeastNat ==
  ASSUME NEW S \in SUBSET Nat, S # {}
  PROVE  /\ Min(S) \in S
         /\ \A y \in S : Min(S) <= y
<1>1. \E x \in S : \A y \in S : ~(<<y, x>> \in NatLess)
  BY NatLessIsWellFounded, WFMin
<1>2. \E x \in S : \A y \in S : x <= y
  <2>1. \A x, y \in S : (<<y, x>> \in NatLess) <=> y < x
    BY DEF NatLess
  <2>2. \A x, y \in S : ~(y < x) => x <= y
    OBVIOUS
  <2> QED BY <1>1, <2>1, <2>2
<1> QED BY <1>2 DEF Min

(* The lesser of two naturals.                                             *)
LEMMA MinOfTwo ==
  ASSUME NEW m \in Nat, NEW n \in Nat
  PROVE  Min({m, n}) = IF m <= n THEN m ELSE n
<1>1. Min({m, n}) \in {m, n} /\ \A y \in {m, n} : Min({m, n}) <= y
  BY LeastNat
<1> QED BY <1>1

(* What a list is, element by element.                                     *)
LEMMA ListShape ==
  ASSUME NEW s, IsList(s)
  PROVE  /\ Len(s) \in Nat /\ DOMAIN s = 1..Len(s)
         /\ \A i \in 1..Len(s) : s[i] \in ToSet(s)
         /\ s \in [1..Len(s) -> ToSet(s)]
<1>1. s \in Seq(ToSet(s))
  BY DEF IsList
<1> HIDE DEF ToSet
<1>2. Len(s) \in Nat /\ DOMAIN s = 1..Len(s)
  BY <1>1
<1> QED BY <1>1, <1>2 DEF ToSet

(* A sequence over any set is a list.                                      *)
LEMMA SeqIsList ==
  ASSUME NEW S, NEW s \in Seq(S)
  PROVE  IsList(s)
<1>1. Len(s) \in Nat /\ DOMAIN s = 1..Len(s) /\ s \in [1..Len(s) -> S]
  BY LenProperties
<1>2. s \in [1..Len(s) -> ToSet(s)]
  BY <1>1 DEF ToSet
<1> QED BY <1>1, <1>2, SeqDef DEF IsList

(* A function on 1..n is a list of n elements.                             *)
LEMMA FunctionIsList ==
  ASSUME NEW n \in Nat, NEW S, NEW s \in [1..n -> S]
  PROVE  IsList(s) /\ Len(s) = n /\ DOMAIN s = 1..n
<1>1. s \in Seq(S)
  BY SeqDef
<1>2. IsList(s)
  BY <1>1, SeqIsList
<1>3. Len(s) = n
  BY <1>1, LenProperties
<1> QED BY <1>2, <1>3

(* Two lists, one behind the other.                                        *)
LEMMA ListConcat ==
  ASSUME NEW q, NEW r, IsList(q), IsList(r)
  PROVE  /\ IsList(q \o r) /\ Len(q \o r) = Len(q) + Len(r)
         /\ DOMAIN (q \o r) = 1..(Len(q) + Len(r))
         /\ \A i \in 1..Len(q) : (q \o r)[i] = q[i]
         /\ \A i \in 1..Len(r) : (q \o r)[Len(q) + i] = r[i]
<1> DEFINE S == ToSet(q) \cup ToSet(r)
<1>1. Len(q) \in Nat /\ Len(r) \in Nat
  BY ListShape
<1>2. q \in [1..Len(q) -> S] /\ r \in [1..Len(r) -> S]
  BY ListShape
<1>3. q \in Seq(S) /\ r \in Seq(S)
  BY <1>1, <1>2, SeqDef
<1> HIDE DEF S
<1>4. /\ q \o r \in Seq(S) /\ Len(q \o r) = Len(q) + Len(r)
      /\ \A i \in 1..(Len(q) + Len(r)) : (q \o r)[i] = IF i <= Len(q) THEN q[i] ELSE r[i - Len(q)]
  BY <1>3, ConcatProperties
<1>5. IsList(q \o r)
  BY <1>4, SeqIsList
<1>6. DOMAIN (q \o r) = 1..(Len(q) + Len(r))
  BY <1>4, LenProperties
<1>7. \A i \in 1..Len(q) : (q \o r)[i] = q[i]
  BY <1>1, <1>4
<1>8. \A i \in 1..Len(r) : (q \o r)[Len(q) + i] = r[i]
  BY <1>1, <1>4
<1> QED BY <1>4, <1>5, <1>6, <1>7, <1>8

(* A list without its head.                                                *)
LEMMA ListTail ==
  ASSUME NEW q, IsList(q), q # <<>>
  PROVE  /\ IsList(Tail(q)) /\ Len(Tail(q)) = Len(q) - 1
         /\ DOMAIN Tail(q) = 1..(Len(q) - 1)
         /\ \A i \in 1..(Len(q) - 1) : Tail(q)[i] = q[i + 1]
         /\ Head(q) = q[1] /\ Len(q) >= 1
<1>1. q \in Seq(ToSet(q))
  BY DEF IsList
<1> HIDE DEF ToSet
<1>2. Len(q) \in Nat \ {0}
  BY <1>1, EmptySeq
<1>3. Tail(q) \in Seq(ToSet(q)) /\ Len(Tail(q)) = Len(q) - 1
      /\ \A i \in 1..Len(Tail(q)) : Tail(q)[i] = q[i + 1]
  BY <1>1, HeadTailProperties
<1>4. IsList(Tail(q))
  BY <1>3, SeqIsList
<1>5. DOMAIN Tail(q) = 1..(Len(q) - 1)
  BY <1>3, LenProperties
<1>6. Head(q) = q[1]
  BY <1>1, <1>2
<1> QED BY <1>2, <1>3, <1>4, <1>5, <1>6

(* A list up to its nth element.                                           *)
LEMMA ListPrefix ==
  ASSUME NEW q, IsList(q), NEW n \in 0..Len(q)
  PROVE  /\ IsList(SubSeq(q, 1, n)) /\ Len(SubSeq(q, 1, n)) = n
         /\ DOMAIN SubSeq(q, 1, n) = 1..n
         /\ \A i \in 1..n : SubSeq(q, 1, n)[i] = q[i]
<1>1. q \in Seq(ToSet(q)) /\ Len(q) \in Nat
  BY ListShape DEF IsList
<1> HIDE DEF ToSet
<1>2. SubSeq(q, 1, n) \in Seq(ToSet(q)) /\ Len(SubSeq(q, 1, n)) = n
      /\ \A i \in 1..n : SubSeq(q, 1, n)[i] = q[i]
  BY <1>1, SubSeqProperties
<1>3. IsList(SubSeq(q, 1, n))
  BY <1>2, SeqIsList
<1> QED BY <1>2, <1>3, LenProperties

-----------------------------------------------------------------------------
(* The lists of kts.ini.                                                   *)

(* What counts the rows of an array.                                       *)
LEMMA RowsCount ==
  ASSUME NEW a
  PROVE  Rows(a) = (IF {i \in 1..Len(a) : a[i] = None} # {}
                    THEN Min({i \in 1..Len(a) : a[i] = None}) ELSE 0) - 1
BY DEF Rows, SelectInSeq

(* The rows of an array end in front of its first terminator.              *)
LEMMA RowsOfArray ==
  ASSUME NEW a, IsList(a), NEW n \in 1..Len(a), a[n] = None
  PROVE  /\ Rows(a) \in 0..(n - 1) /\ a[Rows(a) + 1] = None
         /\ \A i \in 1..Rows(a) : a[i] # None
<1>1. PICK I : I = {i \in 1..Len(a) : a[i] = None}
  OBVIOUS
<1>2. Len(a) \in Nat
  BY ListShape
<1>3. I \in SUBSET Nat /\ n \in I
  BY <1>1, <1>2
<1>4. Min(I) \in I /\ \A y \in I : Min(I) <= y
  BY <1>3, LeastNat
<1>5. Rows(a) = (IF I # {} THEN Min(I) ELSE 0) - 1
  BY <1>1, RowsCount, Zenon
<1>6. Rows(a) = Min(I) - 1
  BY <1>3, <1>5
<1>7. PICK m : m = Min(I)
  OBVIOUS
<1>8. m \in 1..Len(a) /\ a[m] = None /\ m <= n /\ \A i \in 1..Len(a) : a[i] = None => m <= i
  BY <1>1, <1>3, <1>4, <1>7
<1> QED BY <1>2, <1>6, <1>7, <1>8

(* A list with its two terminators.                                        *)
LEMMA Terminated ==
  ASSUME NEW s, IsList(s), NEW a, a = s \o <<None, None>>
  PROVE  /\ IsList(a) /\ Len(a) = Len(s) + 2
         /\ \A i \in 1..Len(s) : a[i] = s[i]
         /\ a[Len(s) + 1] = None /\ a[Len(s) + 2] = None
         /\ Rows(a) \in 0..Len(s) /\ a[Rows(a) + 1] = None
         /\ \A i \in 1..Rows(a) : s[i] # None
<1>1. PICK e : e = <<None, None>>
  OBVIOUS
<1>2. IsList(e) /\ Len(e) = 2 /\ e[1] = None /\ e[2] = None
  <2>1. e \in Seq({None})
    BY <1>1
  <2> QED BY <1>1, <2>1, SeqIsList
<1>3. a = s \o e
  BY <1>1
<1>4. Len(s) \in Nat
  BY ListShape
<1>5. IsList(a)
  BY <1>2, <1>3, ListConcat
<1>6. Len(a) = Len(s) + 2
  BY <1>2, <1>3, ListConcat
<1>7. \A i \in 1..Len(s) : a[i] = s[i]
  BY <1>2, <1>3, ListConcat
<1>8. \A i \in 1..2 : a[Len(s) + i] = e[i]
  BY <1>2, <1>3, ListConcat
<1>9. a[Len(s) + 1] = None /\ a[Len(s) + 2] = None
  BY <1>2, <1>8
<1>10. PICK n : n = Len(s) + 1
  OBVIOUS
<1>11. n \in 1..Len(a) /\ a[n] = None
  BY <1>4, <1>6, <1>9, <1>10
<1>12. PICK r : r = Rows(a)
  OBVIOUS
<1>13. r \in 0..(n - 1) /\ a[r + 1] = None /\ \A i \in 1..r : a[i] # None
  BY <1>5, <1>11, <1>12, RowsOfArray
<1>14. r \in 0..Len(s)
  BY <1>4, <1>10, <1>13
<1>15. \A i \in 1..r : i \in 1..Len(s)
  BY <1>4, <1>14
<1>16. \A i \in 1..r : s[i] # None
  BY <1>7, <1>13, <1>15
<1> QED BY <1>5, <1>6, <1>7, <1>9, <1>12, <1>13, <1>14, <1>16

(* What the server offers and what it understands: the same names up to the *)
(* first one without a row, and behind it the entry that is read by mistake.*)
Lists(list, room, r) ==
  /\ IsList(r.offered) /\ IsList(r.table.rows)
  /\ Len(r.offered) <= room /\ Len(r.offered) <= Len(list)
  /\ Len(r.table.rows) <= Len(r.offered)
  /\ \A i \in 1..Len(r.offered) : r.offered[i] = list[i] /\ r.offered[i] # None
  /\ \A i \in 1..Len(r.table.rows) :
       r.table.rows[i] = r.offered[i] /\ r.offered[i] # DHEAlt
  /\ Len(r.table.rows) < Len(r.offered) => r.offered[Len(r.table.rows) + 1] = DHEAlt
  /\ Len(r.table.rows) + 2 > room => r.table.last = None

(* What cryptSetAlgoList makes of a list.                                  *)
LEMMA AlgoLists ==
  ASSUME NEW list, IsList(list), NEW room \in Nat,
         NEW r, r = cryptSetAlgoList(list, room)
  PROVE  Lists(list, room, r)
<1>1. PICK k : k = SubSeq(list, 1, Min({Len(list), room}))
  OBVIOUS
<1>2. PICK t : t = [i \in 1..Len(k) |-> cryptAlgoInfoFromAlgo(k[i])]
  OBVIOUS
<1>3. PICK a, b : a = k \o <<None, None>> /\ b = t \o <<None, None>>
  OBVIOUS
<1>4. r.offered = SubSeq(a, 1, Rows(a)) /\ r.table.rows = SubSeq(b, 1, Rows(b))
      /\ r.table.last = b[Rows(b) + 2]
  BY <1>1, <1>2, <1>3 DEF cryptSetAlgoList, writeAlgoList, Table, algoSize
<1>5. Len(list) \in Nat /\ Min({Len(list), room}) = IF Len(list) <= room THEN Len(list) ELSE room
  BY ListShape, MinOfTwo
<1>6. PICK n : n = Min({Len(list), room})
  OBVIOUS
<1>7. n \in 0..Len(list) /\ n <= room
  BY <1>5, <1>6
<1>8. IsList(k) /\ Len(k) = n /\ \A i \in 1..n : k[i] = list[i]
  BY <1>1, <1>6, <1>7, ListPrefix
<1>9. IsList(t) /\ Len(t) = n /\ \A i \in 1..n : t[i] = cryptAlgoInfoFromAlgo(k[i])
  <2>1. t \in [1..n -> {cryptAlgoInfoFromAlgo(k[i]) : i \in 1..n}]
    BY <1>2, <1>8
  <2>2. n \in Nat
    BY <1>5, <1>7
  <2>3. IsList(t) /\ Len(t) = n
    BY <2>1, <2>2, FunctionIsList
  <2> QED BY <1>2, <1>8, <2>3
<1>10. PICK F, R : F = Rows(a) /\ R = Rows(b)
  OBVIOUS
<1>11. /\ IsList(a) /\ Len(a) = n + 2 /\ F \in 0..n
       /\ \A i \in 1..n : a[i] = k[i]
       /\ a[F + 1] = None
       /\ \A i \in 1..F : k[i] # None
  BY <1>3, <1>8, <1>10, Terminated
<1>12. /\ IsList(b) /\ Len(b) = n + 2 /\ R \in 0..n
       /\ \A i \in 1..n : b[i] = t[i]
       /\ b[n + 1] = None /\ b[n + 2] = None
       /\ b[R + 1] = None
       /\ \A i \in 1..R : t[i] # None
  <2>1. /\ IsList(b) /\ Len(b) = Len(t) + 2 /\ R \in 0..Len(t)
        /\ b[Len(t) + 1] = None /\ b[Len(t) + 2] = None
        /\ b[R + 1] = None
    BY <1>3, <1>9, <1>10, Terminated
  <2>2. \A i \in 1..Len(t) : b[i] = t[i]
    BY <1>3, <1>9, Terminated
  <2>3. \A i \in 1..R : t[i] # None
    BY <1>3, <1>9, <1>10, Terminated
  <2> QED BY <1>9, <2>1, <2>2, <2>3
<1>13. F \in 0..Len(a) /\ R \in 0..Len(b)
  BY <1>5, <1>7, <1>11, <1>12
<1>14. /\ IsList(r.offered) /\ Len(r.offered) = F
       /\ \A i \in 1..F : r.offered[i] = a[i]
  BY <1>4, <1>10, <1>11, <1>13, ListPrefix
<1>15. /\ IsList(r.table.rows) /\ Len(r.table.rows) = R
       /\ \A i \in 1..R : r.table.rows[i] = b[i]
  BY <1>4, <1>10, <1>12, <1>13, ListPrefix
<1>16. \A i \in 1..n : t[i] # None => k[i] # DHEAlt /\ k[i] # None /\ t[i] = k[i]
  BY <1>9 DEF cryptAlgoInfoFromAlgo, DHEAlt, None
<1>17. \A i \in 1..n : t[i] = None => k[i] \in {DHEAlt, None}
  BY <1>9 DEF cryptAlgoInfoFromAlgo, DHEAlt, None
<1>18. R <= F
  <2>1. SUFFICES ASSUME F < R PROVE FALSE
    BY <1>5, <1>7, <1>11, <1>12
  <2>2. F + 1 \in 1..R /\ F + 1 \in 1..n
    BY <1>5, <1>7, <1>11, <1>12, <2>1
  <2>3. k[F + 1] = None
    BY <1>11, <2>2
  <2>4. t[F + 1] # None
    BY <1>12, <2>2
  <2> QED BY <1>16, <2>2, <2>3, <2>4
<1>19. \A i \in 1..F : i \in 1..n
  BY <1>5, <1>7, <1>11
<1>20. \A i \in 1..F : r.offered[i] = list[i] /\ r.offered[i] # None
  BY <1>8, <1>11, <1>14, <1>19
<1>21. \A i \in 1..R : r.table.rows[i] = r.offered[i] /\ r.offered[i] # DHEAlt
  <2>1. TAKE i \in 1..R
  <2>2. i \in 1..F /\ i \in 1..n
    BY <1>5, <1>7, <1>11, <1>12, <1>18
  <2>3. t[i] # None /\ r.table.rows[i] = t[i]
    BY <1>12, <1>15, <2>2
  <2>4. r.offered[i] = k[i]
    BY <1>11, <1>14, <2>2
  <2> QED BY <1>16, <2>2, <2>3, <2>4
<1>22. R < F => r.offered[R + 1] = DHEAlt
  <2>1. SUFFICES ASSUME R < F PROVE r.offered[R + 1] = DHEAlt
    OBVIOUS
  <2>2. R + 1 \in 1..F /\ R + 1 \in 1..n
    BY <1>5, <1>7, <1>11, <1>12, <2>1
  <2>3. t[R + 1] = None
    BY <1>12, <2>2
  <2>4. r.offered[R + 1] = k[R + 1] /\ k[R + 1] # None
    BY <1>11, <1>14, <2>2
  <2> QED BY <1>17, <2>2, <2>3, <2>4
<1>23. R + 2 > room => r.table.last = None
  <2>1. SUFFICES ASSUME R + 2 > room PROVE b[R + 2] = None
    BY <1>4, <1>10
  <2>2. R + 2 = n + 1 \/ R + 2 = n + 2
    BY <1>5, <1>7, <1>12, <2>1
  <2> QED BY <1>12, <2>2
<1>24. F <= room /\ F <= Len(list)
  BY <1>5, <1>7, <1>11
<1> QED BY <1>14, <1>15, <1>18, <1>20, <1>21, <1>22, <1>23, <1>24 DEF Lists

(* The names of kts.ini that are known, the others as None.                *)
LEMMA KnownAlgos ==
  ASSUME NEW list, IsList(list),
         NEW a, a = [i \in 1..Min({Len(list), 18}) |-> cryptAlgoFromString(list[i])]
  PROVE  /\ IsList(a) /\ Len(a) \in Nat /\ Len(a) <= Len(list)
         /\ \A i \in 1..Len(a) : a[i] \in {list[i], None}
<1>1. Len(list) \in Nat /\ Min({Len(list), 18}) = IF Len(list) <= 18 THEN Len(list) ELSE 18
  BY ListShape, MinOfTwo
<1>2. PICK n : n = Min({Len(list), 18})
  OBVIOUS
<1>3. n \in Nat /\ n <= Len(list)
  BY <1>1, <1>2
<1>4. a \in [1..n -> {cryptAlgoFromString(list[i]) : i \in 1..n}]
  BY <1>2
<1>5. IsList(a) /\ Len(a) = n
  BY <1>3, <1>4, FunctionIsList
<1>6. \A i \in 1..n : a[i] = cryptAlgoFromString(list[i])
  BY <1>2
<1> QED BY <1>3, <1>5, <1>6 DEF cryptAlgoFromString

(* The two tables: what they offer, the rows they know of it, and the entry *)
(* behind their rows.                                                      *)
Within(r) ==
  /\ IsList(r.offered) /\ IsList(r.table.rows)
  /\ Len(r.table.rows) <= Len(r.offered)
  /\ \A i \in 1..Len(r.offered) : r.offered[i] # None
  /\ \A i \in 1..Len(r.table.rows) : r.table.rows[i] = r.offered[i]
  /\ Len(r.table.rows) < Len(r.offered) => r.offered[Len(r.table.rows) + 1] = DHEAlt

(* The lists the server keeps of its kts.ini.                              *)
LEMMA ListsOfIni ==
  ASSUME NEW i \in Inis, NEW l, l = SetAlgoLists(i.kex, i.encr)
  PROVE  /\ Within(l.kex) /\ Within(l.encr)
         /\ Len(l.kex.offered) <= 2
         /\ \A n \in 1..Len(l.kex.table.rows) : l.kex.offered[n] # DHEAlt
         /\ l.kex.table.rows # <<>> =>
              l.kex.table.last = None /\ i.kex[1] = l.kex.offered[1]
         /\ Len(l.encr.table.rows) = Len(l.encr.offered)
<1>1. IsList(i.kex) /\ IsList(i.encr) /\ DHEAlt \notin ToSet(i.encr)
  BY TransportAssumption, PacketAssumption
<1>2. PICK a, b : /\ a = [n \in 1..Min({Len(i.kex), 18}) |-> cryptAlgoFromString(i.kex[n])]
                  /\ b = [n \in 1..Min({Len(i.encr), 18}) |-> cryptAlgoFromString(i.encr[n])]
  OBVIOUS
<1>3. l.kex = cryptSetAlgoList(a, 2) /\ l.encr = cryptSetAlgoList(b, 5)
  BY <1>2 DEF SetAlgoLists
<1>4. /\ IsList(a) /\ Len(a) \in Nat /\ Len(a) <= Len(i.kex)
      /\ \A n \in 1..Len(a) : a[n] \in {i.kex[n], None}
  BY <1>1, <1>2, KnownAlgos
<1>5. /\ IsList(b) /\ Len(b) \in Nat /\ Len(b) <= Len(i.encr)
      /\ \A n \in 1..Len(b) : b[n] \in {i.encr[n], None}
  BY <1>1, <1>2, KnownAlgos
<1>6. PICK r, s : r = l.kex /\ s = l.encr
  OBVIOUS
<1>7. /\ IsList(r.offered) /\ IsList(r.table.rows)
      /\ Len(r.offered) <= 2 /\ Len(r.offered) <= Len(a)
      /\ Len(r.table.rows) <= Len(r.offered)
      /\ \A n \in 1..Len(r.offered) : r.offered[n] = a[n] /\ r.offered[n] # None
      /\ \A n \in 1..Len(r.table.rows) : r.table.rows[n] = r.offered[n] /\ r.offered[n] # DHEAlt
      /\ Len(r.table.rows) < Len(r.offered) => r.offered[Len(r.table.rows) + 1] = DHEAlt
      /\ Len(r.table.rows) + 2 > 2 => r.table.last = None
  <2>1. Lists(a, 2, r)
    BY <1>3, <1>4, <1>6, AlgoLists
  <2> QED BY <2>1 DEF Lists
<1>8. /\ IsList(s.offered) /\ IsList(s.table.rows)
      /\ Len(s.offered) <= Len(b)
      /\ Len(s.table.rows) <= Len(s.offered)
      /\ \A n \in 1..Len(s.offered) : s.offered[n] = b[n] /\ s.offered[n] # None
      /\ \A n \in 1..Len(s.table.rows) : s.table.rows[n] = s.offered[n] /\ s.offered[n] # DHEAlt
      /\ Len(s.table.rows) < Len(s.offered) => s.offered[Len(s.table.rows) + 1] = DHEAlt
  <2>1. Lists(b, 5, s)
    BY <1>3, <1>5, <1>6, AlgoLists
  <2> QED BY <2>1 DEF Lists
<1>9. Within(r) /\ Within(s)
  BY <1>7, <1>8 DEF Within
<1>10. /\ Len(r.offered) \in Nat /\ Len(r.table.rows) \in Nat
       /\ Len(s.offered) \in Nat /\ Len(s.table.rows) \in Nat
       /\ r.table.rows \in Seq(ToSet(r.table.rows)) /\ Len(i.encr) \in Nat
       /\ DOMAIN i.encr = 1..Len(i.encr)
  BY <1>1, <1>7, <1>8, ListShape DEF IsList
<1>11. r.table.rows # <<>> => r.table.last = None /\ i.kex[1] = r.offered[1]
  <2>1. SUFFICES ASSUME r.table.rows # <<>> PROVE r.table.last = None /\ i.kex[1] = r.offered[1]
    OBVIOUS
  <2>2. Len(r.table.rows) >= 1
    <3> HIDE DEF ToSet
    <3> QED BY <1>10, <2>1
  <2>3. 1 \in 1..Len(r.offered) /\ 1 \in 1..Len(a)
    BY <1>4, <1>7, <1>10, <2>2
  <2> QED BY <1>4, <1>7, <1>10, <2>2, <2>3
<1>12. ~(Len(s.table.rows) < Len(s.offered))
  <2>1. SUFFICES ASSUME Len(s.table.rows) < Len(s.offered) PROVE FALSE
    OBVIOUS
  <2>2. PICK n : n = Len(s.table.rows) + 1
    OBVIOUS
  <2>3. n \in 1..Len(s.offered) /\ n \in 1..Len(b) /\ n \in DOMAIN i.encr
    BY <1>5, <1>8, <1>10, <2>1, <2>2
  <2>4. i.encr[n] = DHEAlt
    BY <1>5, <1>8, <2>1, <2>2, <2>3
  <2> QED BY <1>1, <2>3, <2>4 DEF ToSet
<1>13. Len(s.table.rows) = Len(s.offered)
  BY <1>8, <1>10, <1>12
<1> QED BY <1>6, <1>7, <1>9, <1>11, <1>13

-----------------------------------------------------------------------------
(* The choice of an algorithm.                                             *)

(* A name is in a list.                                                    *)
Among(x, s) == \E n \in DOMAIN s : s[n] = x

(* The place of the first name of a list that is in another one.           *)
FirstIn(names, s, p) ==
  /\ p \in DOMAIN names /\ Among(names[p], s)
  /\ \A q \in DOMAIN names : Among(names[q], s) => p <= q

(* What the client makes of two lists: its first name that is in the other. *)
FirstShared(names, s, N) ==
  \/ N = None /\ \A q \in DOMAIN names : ~Among(names[q], s)
  \/ \E p \in DOMAIN names : FirstIn(names, s, p) /\ N = names[p]

(* The client's rule, Negotiated.                                          *)
LEMMA NegotiatedFirst ==
  ASSUME NEW names, NEW s, IsList(names)
  PROVE  FirstShared(names, s, Negotiated(names, s))
<1> PICK N : N = Negotiated(names, s)
  OBVIOUS
<1> SUFFICES FirstShared(names, s, N)
  OBVIOUS
<1>1. DOMAIN names \subseteq Nat
  BY ListShape
<1>2. \A p : names[p] \in ToSet(s) <=> Among(names[p], s)
  BY DEF ToSet, Among
<1>3. PICK B : B = {p \in DOMAIN names : names[p] \in ToSet(s)}
  OBVIOUS
<1>4. N = IF B = {} THEN None ELSE names[Min(B)]
  BY <1>3 DEF Negotiated
<1>5. CASE B = {}
  BY <1>2, <1>3, <1>4, <1>5 DEF FirstShared
<1>6. CASE B # {}
  <2>1. B \in SUBSET Nat
    BY <1>1, <1>3
  <2>2. Min(B) \in B /\ \A y \in B : Min(B) <= y
    BY <1>6, <2>1, LeastNat
  <2>3. PICK p : p = Min(B)
    OBVIOUS
  <2>4. FirstIn(names, s, p)
    BY <1>2, <1>3, <2>2, <2>3 DEF FirstIn
  <2>5. N = names[p]
    BY <1>4, <1>6, <2>3
  <2> QED BY <2>4, <2>5 DEF FirstIn, FirstShared
<1> QED BY <1>5, <1>6

(* What the server makes of a list and a table: its first name that has an *)
(* entry there, which for a name without a row is the last one.            *)
FirstEntry(table, names, preferred, warn, r) ==
  /\ table.rows # <<>>
  /\ \E p \in DOMAIN names : \E e :
       /\ e = IF Among(names[p], table.rows) THEN names[p] ELSE table.last
       /\ e # None
       /\ warn \/ preferred \in {None, e}
       /\ \A q \in DOMAIN names :
            (/\ (IF Among(names[q], table.rows) THEN names[q] ELSE table.last) # None
             /\ \/ warn
                \/ preferred \in {None, IF Among(names[q], table.rows) THEN names[q]
                                        ELSE table.last}) => p <= q
       /\ r.algo = IF Among(names[p], table.rows) THEN names[p] ELSE None
       /\ r.mismatch = (warn /\ (p # 1 \/ e # preferred))

(* The server's rule, readAlgoStringEx.                                    *)
LEMMA ReadsFirst ==
  ASSUME NEW table, NEW names, IsList(names), NEW preferred, NEW warn \in BOOLEAN,
         NEW r, r = readAlgoStringEx(table, names, preferred, warn), r.st = Ok
  PROVE  FirstEntry(table, names, preferred, warn, r)
<1> DEFINE Known(p) == \E n \in DOMAIN table.rows : table.rows[n] = names[p]
           Entry(p) == IF Known(p) THEN names[p] ELSE table.last
<1>1. DOMAIN names \subseteq Nat
  BY ListShape
<1>2. PICK M : M = {p \in DOMAIN names : Entry(p) # None /\ (warn \/ preferred \in {None, Entry(p)})}
  OBVIOUS
<1>3. r = IF table.rows = <<>> THEN [st |-> Internal, algo |-> None, mismatch |-> FALSE]
          ELSE IF M = {} THEN [st |-> NotAvail, algo |-> None, mismatch |-> FALSE]
          ELSE [st |-> Ok, algo |-> IF Known(Min(M)) THEN names[Min(M)] ELSE None,
                mismatch |-> warn /\ (Min(M) # 1 \/ Entry(Min(M)) # preferred)]
  BY <1>2, Zenon DEF readAlgoStringEx
<1> HIDE DEF Known, Entry
<1>4. table.rows # <<>> /\ M # {}
  BY <1>3 DEF Internal, NotAvail, Ok
<1>5. Min(M) \in M /\ \A y \in M : Min(M) <= y
  <2>1. M \in SUBSET Nat
    BY <1>1, <1>2
  <2> QED BY <1>4, <2>1, LeastNat
<1>6. PICK p : p = Min(M)
  OBVIOUS
<1>7. /\ r.algo = IF Known(p) THEN names[p] ELSE None
      /\ r.mismatch = (warn /\ (p # 1 \/ Entry(p) # preferred))
  <2>1. PICK m, a : /\ m = (warn /\ (p # 1 \/ Entry(p) # preferred))
                    /\ a = IF Known(p) THEN names[p] ELSE None
    OBVIOUS
  <2>2. r = [st |-> Ok, algo |-> a, mismatch |-> m]
    BY <1>3, <1>4, <1>6, <2>1, Zenon
  <2>3. r.algo = a /\ r.mismatch = m
    BY <2>2
  <2> QED BY <2>1, <2>3, Zenon
<1>8. p \in DOMAIN names /\ Entry(p) # None /\ (warn \/ preferred \in {None, Entry(p)})
  BY <1>2, <1>5, <1>6
<1>9. \A q \in DOMAIN names : Entry(q) # None /\ (warn \/ preferred \in {None, Entry(q)}) => p <= q
  BY <1>2, <1>5, <1>6
<1>10. \A q : Known(q) <=> Among(names[q], table.rows)
  BY DEF Known, Among
<1>11. \A q : Entry(q) = IF Among(names[q], table.rows) THEN names[q] ELSE table.last
  BY <1>10 DEF Entry
<1> QED BY <1>4, <1>7, <1>8, <1>9, <1>10, <1>11 DEF FirstEntry

(* With a preferred algorithm and no entry behind the rows.                *)
Prefers(table, names, preferred, r) ==
  \E p \in DOMAIN names :
    /\ FirstIn(names, table.rows, p)
    /\ r.algo = names[p] /\ r.algo # None
    /\ r.mismatch = (p # 1 \/ names[p] # preferred)

(* What readAlgoStringEx then returns.                                     *)
LEMMA ReadsPreferred ==
  ASSUME NEW table, table.last = None, NEW names, IsList(names), None \notin ToSet(names),
         NEW preferred,
         NEW r, r = readAlgoStringEx(table, names, preferred, TRUE), r.st = Ok
  PROVE  Prefers(table, names, preferred, r)
<1>1. PICK p, e :
        /\ p \in DOMAIN names
        /\ e = IF Among(names[p], table.rows) THEN names[p] ELSE table.last
        /\ e # None
        /\ \A q \in DOMAIN names :
             (IF Among(names[q], table.rows) THEN names[q] ELSE table.last) # None => p <= q
        /\ r.algo = IF Among(names[p], table.rows) THEN names[p] ELSE None
        /\ r.mismatch = (p # 1 \/ e # preferred)
  <2>1. TRUE \in BOOLEAN
    OBVIOUS
  <2>2. FirstEntry(table, names, preferred, TRUE, r)
    BY <2>1, ReadsFirst
  <2> QED BY <2>2, Zenon DEF FirstEntry
<1>2. Among(names[p], table.rows) /\ e = names[p] /\ e # None
  BY <1>1
<1>3. \A q \in DOMAIN names : names[q] # None
  BY DEF ToSet
<1>4. \A q \in DOMAIN names : Among(names[q], table.rows) => p <= q
  BY <1>1, <1>3, Zenon
<1>5. FirstIn(names, table.rows, p)
  BY <1>1, <1>2, <1>4 DEF FirstIn
<1> QED BY <1>1, <1>2, <1>5, Zenon DEF Prefers

(* The key exchange: what the server takes is what the client chooses,     *)
(* unless the client chooses the exchange that the server's table lacks.   *)
KexRead(i, l, names, x) ==
  /\ x.algo # None /\ x.algo # DHEAlt
  /\ Negotiated(names, l.kex.offered) \in {x.algo, DHEAlt}
  /\ x.mismatch \in BOOLEAN
  /\ ~x.mismatch => names[1] = DHE /\ x.algo = DHE
  /\ i.kex[1] = DHE => (x.mismatch <=> names[1] # DHE)
  /\ l.kex.offered # <<>> /\ l.kex.offered[1] = i.kex[1]

(* The key exchange as processHelloSSH reads it.                           *)
LEMMA KexIsRead ==
  ASSUME NEW i \in Inis, NEW l, l = SetAlgoLists(i.kex, i.encr),
         NEW names, IsList(names), None \notin ToSet(names),
         NEW x, x = readAlgoStringEx(l.kex.table, names, DHE, TRUE), x.st = Ok
  PROVE  KexRead(i, l, names, x)
<1>1. PICK o, t : o = l.kex.offered /\ t = l.kex.table
  OBVIOUS
<1>2. /\ IsList(o) /\ IsList(t.rows)
      /\ Len(t.rows) <= Len(o) /\ Len(o) <= 2
      /\ \A n \in 1..Len(o) : o[n] # None
      /\ \A n \in 1..Len(t.rows) : t.rows[n] = o[n] /\ o[n] # DHEAlt
      /\ Len(t.rows) < Len(o) => o[Len(t.rows) + 1] = DHEAlt
      /\ t.rows # <<>> => t.last = None /\ i.kex[1] = o[1]
  BY <1>1, ListsOfIni DEF Within
<1>3. t.rows # <<>>
  <2>1. TRUE \in BOOLEAN
    OBVIOUS
  <2>2. x = readAlgoStringEx(t, names, DHE, TRUE)
    BY <1>1
  <2>3. FirstEntry(t, names, DHE, TRUE, x)
    BY <2>1, <2>2, ReadsFirst
  <2> QED BY <2>3 DEF FirstEntry
<1>4. /\ Len(o) \in Nat /\ DOMAIN o = 1..Len(o) /\ Len(t.rows) \in Nat
      /\ DOMAIN t.rows = 1..Len(t.rows) /\ Len(names) \in Nat /\ DOMAIN names = 1..Len(names)
  BY <1>2, ListShape
<1>5. Len(t.rows) >= 1
  <2>1. t.rows \in Seq(ToSet(t.rows))
    BY <1>2 DEF IsList
  <2> HIDE DEF ToSet
  <2> QED BY <1>3, <1>4, <2>1
<1>6. \A p \in DOMAIN names : names[p] # None
  BY DEF ToSet
<1>7. t.last = None /\ x = readAlgoStringEx(t, names, DHE, TRUE)
  BY <1>1, <1>2, <1>3
<1>8. PICK p \in DOMAIN names :
        /\ FirstIn(names, t.rows, p)
        /\ x.algo = names[p] /\ x.algo # None
        /\ x.mismatch = (p # 1 \/ names[p] # DHE)
  <2>1. Prefers(t, names, DHE, x)
    BY <1>7, ReadsPreferred
  <2> QED BY <2>1, Zenon DEF Prefers
<1>9. \A y : Among(y, t.rows) => Among(y, o)
  BY <1>2, <1>4 DEF Among
<1>10. \A y : Among(y, o) => Among(y, t.rows) \/ y = DHEAlt
  <2>1. SUFFICES ASSUME NEW y, NEW n \in 1..Len(o), o[n] = y
                 PROVE  Among(y, t.rows) \/ y = DHEAlt
    BY <1>4 DEF Among
  <2>2. CASE n \in 1..Len(t.rows)
    BY <1>2, <1>4, <2>1, <2>2 DEF Among
  <2>3. CASE n \notin 1..Len(t.rows)
    <3>1. n = Len(t.rows) + 1
      BY <1>2, <1>4, <1>5, <2>3
    <3> QED BY <1>2, <1>4, <2>1, <3>1
  <2> QED BY <2>2, <2>3
<1>11. \A y : Among(y, t.rows) => y # DHEAlt
  BY <1>2, <1>4 DEF Among
<1>12. x.algo # DHEAlt /\ Among(x.algo, o)
  BY <1>8, <1>9, <1>11 DEF FirstIn
<1>13. Negotiated(names, o) \in {x.algo, DHEAlt}
  <2>1. PICK N : N = Negotiated(names, o)
    OBVIOUS
  <2>2. ~\A q \in DOMAIN names : ~Among(names[q], o)
    BY <1>8, <1>12
  <2>3. PICK q \in DOMAIN names : FirstIn(names, o, q) /\ N = names[q]
    <3>1. FirstShared(names, o, N)
      BY <2>1, NegotiatedFirst
    <3> QED BY <2>2, <3>1 DEF FirstShared
  <2>4. CASE N = DHEAlt
    BY <2>1, <2>4
  <2>5. CASE N # DHEAlt
    <3>1. Among(names[q], t.rows)
      BY <1>10, <2>3, <2>5 DEF FirstIn
    <3>2. p <= q /\ q <= p
      BY <1>8, <1>9, <2>3, <3>1 DEF FirstIn
    <3>3. p = q
      BY <1>4, <3>2
    <3> QED BY <1>8, <2>1, <2>3, <3>3
  <2> QED BY <2>4, <2>5
<1>14. ~(p # 1 \/ names[p] # DHE) => names[1] = DHE /\ x.algo = DHE
  BY <1>8
<1>15. o[1] = DHE /\ names[1] = DHE => p = 1 /\ names[p] = DHE
  <2>1. SUFFICES ASSUME o[1] = DHE, names[1] = DHE PROVE p = 1
    OBVIOUS
  <2>2. Among(names[1], t.rows)
    BY <1>2, <1>4, <1>5, <2>1 DEF Among
  <2>3. 1 \in DOMAIN names
    BY <1>4
  <2>4. p <= 1
    BY <1>8, <2>2, <2>3 DEF FirstIn
  <2> QED BY <1>4, <2>4
<1>16. i.kex[1] = o[1]
  BY <1>2, <1>3
<1>17. o # <<>>
  BY <1>2, <1>4, <1>5
<1>18. i.kex[1] = DHE => ((p # 1 \/ names[p] # DHE) <=> names[1] # DHE)
  BY <1>15, <1>16
<1>19. x.mismatch \in BOOLEAN /\ (x.mismatch <=> (p # 1 \/ names[p] # DHE))
  BY <1>8, Zenon
<1>20. ~x.mismatch => names[1] = DHE /\ x.algo = DHE
  BY <1>14, <1>19, Zenon
<1>21. i.kex[1] = DHE => (x.mismatch <=> names[1] # DHE)
  BY <1>18, <1>19, Zenon
<1> QED BY <1>1, <1>8, <1>12, <1>13, <1>16, <1>17, <1>19, <1>20, <1>21, Zenon DEF KexRead

(* The host key: the guess was right when it is the client's first.        *)
LEMMA HostIsRead ==
  ASSUME NEW names, IsList(names), None \notin ToSet(names),
         NEW x, x = readAlgoStringEx([rows |-> <<HostKey>>, last |-> None], names, HostKey, TRUE),
         x.st = Ok
  PROVE  x.mismatch \in BOOLEAN /\ (x.mismatch <=> names[1] # HostKey)
<1>1. PICK t : t = [rows |-> <<HostKey>>, last |-> None]
  OBVIOUS
<1>2. t.last = None /\ t.rows = <<HostKey>> /\ x = readAlgoStringEx(t, names, HostKey, TRUE)
  BY <1>1
<1>3. \A p \in DOMAIN names : names[p] # None
  BY DEF ToSet
<1>4. PICK p \in DOMAIN names :
        FirstIn(names, t.rows, p) /\ x.mismatch = (p # 1 \/ names[p] # HostKey)
  <2>1. Prefers(t, names, HostKey, x)
    BY <1>2, ReadsPreferred
  <2> QED BY <2>1, Zenon DEF Prefers
<1>5. \A y : Among(y, t.rows) <=> y = HostKey
  BY <1>2 DEF Among
<1>6. Len(names) \in Nat /\ DOMAIN names = 1..Len(names)
  BY ListShape
<1>7. names[1] = HostKey => p = 1
  BY <1>4, <1>5, <1>6 DEF FirstIn
<1>8. names[p] = HostKey
  BY <1>4, <1>5 DEF FirstIn
<1>9. (p # 1 \/ names[p] # HostKey) <=> names[1] # HostKey
  BY <1>7, <1>8
<1> QED BY <1>4, <1>9, Zenon

(* The cipher of a list: none, or the one the client chooses.              *)
LEMMA CipherIsRead ==
  ASSUME NEW i \in Inis, NEW l, l = SetAlgoLists(i.kex, i.encr),
         NEW names, IsList(names), None \notin ToSet(names),
         NEW x, x = readAlgoStringEx(l.encr.table, names, None, FALSE), x.st = Ok
  PROVE  x.algo \in {None, Negotiated(names, l.encr.offered)}
<1>1. PICK o, t : o = l.encr.offered /\ t = l.encr.table
  OBVIOUS
<1>2. /\ IsList(o) /\ IsList(t.rows) /\ Len(t.rows) = Len(o)
      /\ \A n \in 1..Len(t.rows) : t.rows[n] = o[n]
  BY <1>1, ListsOfIni DEF Within
<1>3. DOMAIN o = 1..Len(o) /\ DOMAIN t.rows = 1..Len(t.rows)
      /\ Len(names) \in Nat /\ DOMAIN names = 1..Len(names)
  BY <1>2, ListShape
<1>4. \A y : Among(y, t.rows) <=> Among(y, o)
  BY <1>2, <1>3 DEF Among
<1>5. \A p \in DOMAIN names : names[p] # None
  BY DEF ToSet
<1>6. PICK p \in DOMAIN names :
        /\ \A q \in DOMAIN names :
             /\ (IF Among(names[q], t.rows) THEN names[q] ELSE t.last) # None
             /\ \/ FALSE
                \/ None \in {None, IF Among(names[q], t.rows) THEN names[q] ELSE t.last}
             => p <= q
        /\ x.algo = IF Among(names[p], t.rows) THEN names[p] ELSE None
  <2>1. FALSE \in BOOLEAN /\ x = readAlgoStringEx(t, names, None, FALSE)
    BY <1>1
  <2>2. FirstEntry(t, names, None, FALSE, x)
    BY <2>1, ReadsFirst
  <2> QED BY <2>2, Zenon DEF FirstEntry
<1>7. CASE ~Among(names[p], t.rows)
  BY <1>6, <1>7
<1>8. CASE Among(names[p], t.rows)
  <2>1. x.algo = names[p]
    BY <1>6, <1>8
  <2>2. \A q \in DOMAIN names : Among(names[q], t.rows) => p <= q
    BY <1>5, <1>6
  <2>3. PICK N : N = Negotiated(names, o)
    OBVIOUS
  <2>4. PICK q \in DOMAIN names : FirstIn(names, o, q) /\ N = names[q]
    <3>1. FirstShared(names, o, N)
      BY <2>3, NegotiatedFirst
    <3> QED BY <1>4, <1>8, <3>1 DEF FirstShared
  <2>5. p <= q /\ q <= p
    BY <1>4, <1>8, <2>2, <2>4 DEF FirstIn
  <2>6. p = q
    BY <1>3, <2>5
  <2> QED BY <1>1, <2>1, <2>3, <2>4, <2>6
<1> QED BY <1>7, <1>8

(* The ciphers of the two directions: the choice of the first.             *)
LEMMA PairIsRead ==
  ASSUME NEW i \in Inis, NEW l, l = SetAlgoLists(i.kex, i.encr),
         NEW in, IsList(in), None \notin ToSet(in), NEW out,
         NEW x, x = readAlgoStringPair(l.encr.table, in, out), x.st = Ok
  PROVE  x.algo \in {None, Negotiated(in, l.encr.offered)}
<1>1. PICK one : one = readAlgoStringEx(l.encr.table, in, None, FALSE)
  OBVIOUS
<1>2. PICK two : two = readAlgoStringEx(l.encr.table, out, one.algo, FALSE)
  OBVIOUS
<1>3. x = IF one.st # Ok THEN one
          ELSE IF two.st = Ok /\ two.algo # one.algo THEN [two EXCEPT !.st = BadData] ELSE two
  BY <1>1, <1>2 DEF readAlgoStringPair
<1>4. one.st = Ok
  BY <1>3
<1>5. CASE two.st = Ok /\ two.algo # one.algo
  <2>1. x = [two EXCEPT !.st = BadData]
    BY <1>3, <1>4, <1>5
  <2>2. two.st = x.st \/ x.st = BadData
    BY <2>1
  <2> QED BY <1>5, <2>1 DEF Ok, BadData
<1>6. CASE ~(two.st = Ok /\ two.algo # one.algo)
  <2>1. x = two
    BY <1>3, <1>4, <1>6
  <2>2. x.algo = one.algo
    BY <1>6, <2>1
  <2> QED BY <1>1, <1>4, <2>2, CipherIsRead
<1> QED BY <1>5, <1>6

(* What the server takes of a hello it accepts.                            *)
HelloTaken(r) ==
  /\ r.kex # None /\ r.kex # DHEAlt
  /\ Chosen.kex \in {r.kex, DHEAlt}
  /\ r.requested \in BOOLEAN /\ (r.requested <=> r.kex = DHE)
  /\ hello.guess /\ r.kex = DHE /\ r.st = Ok => hello.kex[1] = DHE
  /\ hello.guess /\ r.kex # DHE => r.st = OkSpecial
  /\ r.encr \in {None, Chosen.in}
  /\ ini.kex[1] = DHE => (r.st = OkSpecial <=> hello.guess /\ ~Chosen.right)

(* processHelloSSH agrees with the protocol on the key exchange and on the *)
(* cipher of the client's direction, or takes none; and whether it skips a *)
(* guess is the client's intent when kts.ini names the group exchange first.*)
LEMMA HelloIsTaken ==
  ASSUME ini \in Inis, hello \in Hellos, lists = SetAlgoLists(ini.kex, ini.encr),
         NEW r, r = processHelloSSH(lists, HostKey, hello), r.st \in {Ok, OkSpecial}
  PROVE  HelloTaken(r)
<1>1. PICK h, k, o, t, e : /\ h = hello.host /\ k = hello.kex
                           /\ o = lists.kex.offered /\ t = lists.kex.table
                           /\ e = lists.encr.table
  OBVIOUS
<1>2. /\ IsList(k) /\ IsList(h) /\ IsList(hello.encrIn)
      /\ None \notin ToSet(k) /\ None \notin ToSet(h) /\ None \notin ToSet(hello.encrIn)
      /\ hello.guess \in BOOLEAN
  BY <1>1, TransportAssumption, PacketAssumption
<1>3. PICK a, b, c :
        /\ a = readAlgoStringEx(t, k, DHE, TRUE)
        /\ b = readAlgoStringEx([rows |-> <<HostKey>>, last |-> None], h, HostKey, TRUE)
        /\ c = readAlgoStringPair(e, hello.encrIn, hello.encrOut)
  OBVIOUS
<1>4. PICK skip : skip = (hello.guess /\ (a.mismatch \/ b.mismatch))
  OBVIOUS
<1>5. /\ r.st = (IF a.st # Ok THEN a.st ELSE IF b.st # Ok THEN b.st
                 ELSE IF c.st # Ok THEN c.st ELSE IF skip THEN OkSpecial ELSE Ok)
      /\ r.kex = a.algo /\ r.encr = c.algo /\ r.requested = (a.algo \in {DHE, DHEAlt})
  <2>1. PICK s : s = ReadHello(lists, [rows |-> <<HostKey>>, last |-> None], HostKey, hello)
    OBVIOUS
  <2>2. PICK st, q : /\ st = (IF a.st # Ok THEN a.st ELSE IF b.st # Ok THEN b.st
                              ELSE IF c.st # Ok THEN c.st ELSE IF skip THEN OkSpecial ELSE Ok)
                     /\ q = (a.algo \in {DHE, DHEAlt})
    OBVIOUS
  <2>3. s = [st |-> st, kex |-> a.algo, encr |-> c.algo]
    BY <1>1, <1>3, <1>4, <2>1, <2>2, Zenon DEF ReadHello
  <2>4. s.st = st /\ s.kex = a.algo /\ s.encr = c.algo
    BY <2>3
  <2>5. r = [st |-> st, kex |-> a.algo, encr |-> c.algo, requested |-> q]
    BY <2>1, <2>2, <2>4, Zenon DEF processHelloSSH
  <2>6. r.st = st /\ r.kex = a.algo /\ r.encr = c.algo /\ r.requested = q
    BY <2>5
  <2> QED BY <2>2, <2>6, Zenon
<1>6. \A x : x.st \in {Ok, NotAvail, Internal, BadData} => x.st # OkSpecial
  BY DEF Ok, OkSpecial, NotAvail, Internal, BadData
<1>7. /\ a.st \in {Ok, NotAvail, Internal} /\ b.st \in {Ok, NotAvail, Internal}
      /\ c.st \in {Ok, NotAvail, Internal, BadData}
  <2>1. \A table, names, preferred : \A warn \in BOOLEAN :
          readAlgoStringEx(table, names, preferred, warn).st \in {Ok, NotAvail, Internal}
    BY DEF readAlgoStringEx
  <2>2. a.st \in {Ok, NotAvail, Internal} /\ b.st \in {Ok, NotAvail, Internal}
    BY <1>3, <2>1
  <2>3. PICK one : one = readAlgoStringEx(e, hello.encrIn, None, FALSE)
    OBVIOUS
  <2>4. PICK two : two = readAlgoStringEx(e, hello.encrOut, one.algo, FALSE)
    OBVIOUS
  <2>5. c = IF one.st # Ok THEN one
            ELSE IF two.st = Ok /\ two.algo # one.algo THEN [two EXCEPT !.st = BadData] ELSE two
    BY <1>3, <2>3, <2>4 DEF readAlgoStringPair
  <2>6. one.st \in {Ok, NotAvail, Internal} /\ two.st \in {Ok, NotAvail, Internal}
    BY <2>1, <2>3, <2>4
  <2>7. [two EXCEPT !.st = BadData].st \in {two.st, BadData}
    OBVIOUS
  <2> QED BY <2>2, <2>5, <2>6, <2>7
<1>8. a.st = Ok /\ b.st = Ok /\ c.st = Ok
  BY <1>5, <1>7 DEF Ok, OkSpecial, NotAvail, Internal, BadData
<1>9. r.st = IF skip THEN OkSpecial ELSE Ok
  BY <1>5, <1>8
<1>10. /\ a.algo # None /\ a.algo # DHEAlt
       /\ Negotiated(k, o) \in {a.algo, DHEAlt}
       /\ a.mismatch \in BOOLEAN
       /\ ~a.mismatch => k[1] = DHE /\ a.algo = DHE
       /\ ini.kex[1] = DHE => (a.mismatch <=> k[1] # DHE)
       /\ o # <<>> /\ o[1] = ini.kex[1]
  <2>1. KexRead(ini, lists, k, a)
    BY <1>1, <1>2, <1>3, <1>8, KexIsRead
  <2> QED BY <1>1, <2>1 DEF KexRead
<1>11. b.mismatch \in BOOLEAN /\ (b.mismatch <=> h[1] # HostKey)
  BY <1>2, <1>3, <1>8, HostIsRead
<1>12. c.algo \in {None, Negotiated(hello.encrIn, lists.encr.offered)}
  BY <1>1, <1>2, <1>3, <1>8, PairIsRead
<1>13. /\ Chosen.kex = Negotiated(k, o) /\ Chosen.in = Negotiated(hello.encrIn, lists.encr.offered)
       /\ Chosen.right = (hello.guess /\ o # <<>> /\ k[1] = o[1] /\ h[1] = HostKey)
  BY <1>1 DEF Chosen, ClientChoice, GuessRight
<1>14. skip \in BOOLEAN /\ (skip <=> hello.guess /\ (a.mismatch \/ b.mismatch))
  BY <1>4, Zenon
<1>15. r.st = OkSpecial <=> skip
  BY <1>9, <1>14 DEF Ok, OkSpecial
<1>16. Chosen.right <=> hello.guess /\ k[1] = ini.kex[1] /\ h[1] = HostKey
  BY <1>10, <1>13, Zenon
<1>17. ini.kex[1] = DHE => (r.st = OkSpecial <=> hello.guess /\ ~Chosen.right)
  BY <1>10, <1>11, <1>14, <1>15, <1>16, Zenon
<1>18. hello.guess /\ r.kex # DHE => r.st = OkSpecial
  BY <1>5, <1>10, <1>14, <1>15, Zenon
<1>19. hello.guess /\ r.kex = DHE /\ r.st = Ok => hello.kex[1] = DHE
  <2>1. r.st = Ok => ~skip
    BY <1>15 DEF Ok, OkSpecial
  <2> QED BY <1>1, <1>10, <1>14, <2>1, Zenon
<1>20. r.requested \in BOOLEAN /\ (r.requested <=> r.kex = DHE)
  <2>1. (a.algo \in {DHE, DHEAlt}) \in BOOLEAN /\ (a.algo \in {DHE, DHEAlt} <=> a.algo = DHE)
    BY <1>10
  <2> QED BY <1>5, <2>1, Zenon
<1>21. r.encr \in {None, Chosen.in} /\ Chosen.kex \in {r.kex, DHEAlt} /\ r.kex # None /\ r.kex # DHEAlt
  BY <1>5, <1>10, <1>12, <1>13
<1> QED BY <1>17, <1>18, <1>19, <1>20, <1>21, Zenon DEF HelloTaken

-----------------------------------------------------------------------------
(* The invariant.                                                          *)

(* The fields of the two sides.                                            *)
ServerFields == {"at", "why", "noPackets", "readKey", "writeKey", "readSeq", "writeSeq",
                 "hash", "kex", "encr", "requested", "group", "skip", "secret", "sent"}
ClientFields == {"at", "readKey", "writeKey", "readSeq", "writeSeq", "hash", "kex", "encr",
                 "group", "request", "bad", "noOps", "sent"}

(* Where each side can be.                                                 *)
BeforeReply == {"start", "hello", "skip", "request", "init"}
AfterReply == {"newkeys", "service", "auth", "open", "data"}
Secure == {"service", "auth", "open", "data"}
Early == {"hello", "server hello", "group", "reply"}
SecureClient == {"accept", "auth", "open", "data"}
Departed == {"left", "gave up"}

(* The number of the server's NEWKEYS, and whether it was sent.            *)
Switch == IF sv.requested THEN 3 ELSE 2
Replied == sv.writeSeq > Switch

(* The hash of the exchange in its stages, and the keys made with it.      *)
Prefix == <<<<"client id">>, <<"server id">>, <<"client hello", hello>>, <<"server hello">>>>
Sizes(group) == <<<<"sizes", cl.request>>, <<"group", group>>>>
FinalHash ==
  Prefix \o <<<<"host key">>>> \o sv.secret
         \o <<<<"client value">>, <<"server value">>, <<"secret", sv.group>>>>
InKey == <<sv.encr, sv.hash, "C">>
OutKey == <<sv.encr, sv.hash, "D">>

(* What the server took from the hello it accepted.                        *)
Accepted == sv.kex # None
Choice ==
  /\ Chosen.kex \in {sv.kex, DHEAlt}
  /\ sv.kex # DHEAlt
  /\ sv.requested = (sv.kex = DHE)
  /\ hello.guess /\ sv.requested /\ ~sv.skip => hello.kex[1] = DHE
  /\ hello.guess /\ ~sv.requested => sv.skip
  /\ sv.encr \in {None, Chosen.in}
  /\ ini.kex[1] = DHE => (sv.skip <=> hello.guess /\ ~Chosen.right)

(* The server and where it is in the exchange.                             *)
ServerInv ==
  /\ DOMAIN sv = ServerFields
  /\ sv.at \in SvPlaces /\ sv.noPackets \in 0..(NoOpLimit - 1) /\ sv.sent \in 0..DataBound
  /\ sv.readSeq \in Nat /\ sv.writeSeq \in Nat
  /\ sv.requested \in BOOLEAN /\ sv.skip \in BOOLEAN
  /\ IF Accepted THEN Choice /\ sv.at \notin {"start", "hello"}
     ELSE ~sv.requested /\ ~sv.skip /\ sv.encr = None /\ sv.at \in {"start", "hello", "ended"}
  /\ sv.at \in {"start", "hello", "skip", "request"} =>
       sv.writeSeq = IF sv.at = "start" THEN 0 ELSE 1
  /\ sv.at = "init" => sv.writeSeq = Switch - 1
  /\ sv.at = "request" => sv.requested
  /\ sv.at \in AfterReply => Replied /\ sv.encr # None
  /\ sv.writeSeq > Switch + 1 => sv.encr # None
  /\ sv.at \in {"hello", "skip"} => sv.hash = SubSeq(Prefix, 1, IF sv.at = "hello" THEN 2 ELSE 3)
  /\ sv.at \in {"request", "init"} => sv.hash = Prefix
  /\ Replied => sv.hash = FinalHash /\ Accepted
  /\ ~sv.requested => sv.secret = <<>> /\ (sv.at # "start" => sv.group = DHDefault)
  /\ sv.requested /\ (sv.at \in {"init"} \/ Replied) => sv.secret = Sizes(sv.group)
  /\ ~sv.requested /\ Replied => Chosen.kex = DH
  /\ sv.at # "ended" => sv.writeKey = IF sv.at \in AfterReply THEN OutKey ELSE Plain
  /\ Accepted => sv.readSeq >= 1
  /\ sv.at \in {"request", "init"} /\ sv.skip => sv.readSeq >= 2

(* The packet p the server has sent with number n.                         *)
OutPacket(p, n) ==
  /\ p.type \in 1..100
  /\ p.key = (IF n <= Switch THEN Plain ELSE OutKey) /\ p.mac = <<p.key, n>>
  /\ p.type \in {GEX_GROUP, GEX_REPLY} =>
       \/ /\ n = 1 /\ sv.requested /\ p.type = GEX_GROUP /\ p.body = <<sv.group>>
          /\ sv.secret = Sizes(sv.group)
       \/ /\ n = Switch - 1 /\ Replied /\ p.body = sv.hash
          /\ p.type = IF sv.requested THEN GEX_REPLY ELSE KEXDH_REPLY

(* What is on its way to the client.                                       *)
OutInv ==
  /\ IsList(toClient)
  /\ cl.readSeq + Len(toClient) = sv.writeSeq
  /\ \A i \in DOMAIN toClient : OutPacket(toClient[i], cl.readSeq + i - 1)

(* The client and where it is.                                             *)
ClientInv ==
  /\ DOMAIN cl = ClientFields
  /\ cl.at \in ClPlaces /\ cl.noOps \in 0..NoOpBound /\ cl.sent \in 0..DataBound
  /\ cl.readSeq \in Nat /\ cl.writeSeq \in Nat /\ cl.bad \in BOOLEAN
  /\ cl.at \in Early \cup {"newkeys"} => cl.readKey = Plain
  /\ cl.at \in {"hello", "server hello"} => cl.readSeq = 0
  /\ cl.at = "hello" => cl.writeSeq = 0
  /\ cl.at # "hello" => cl.request \in Requests /\ cl.writeSeq >= (IF hello.guess THEN 2 ELSE 1)
  /\ cl.at \notin {"hello", "server hello"} \cup Departed =>
       /\ cl.kex = Chosen.kex /\ cl.encr = <<Chosen.in, Chosen.out>>
       /\ None \notin {Chosen.kex, Chosen.in, Chosen.out}
  /\ cl.at = "group" => cl.readSeq = 1 /\ cl.kex # DH
  /\ cl.at = "reply" => cl.readSeq = IF cl.kex = DH THEN 1 ELSE 2
  /\ cl.at = "reply" /\ cl.kex = DH => cl.group = DHDefault
  /\ cl.at = "reply" /\ cl.kex # DH =>
       sv.requested /\ cl.group = sv.group /\ sv.secret = Sizes(sv.group)
  /\ cl.at = "newkeys" => Replied /\ cl.readSeq = Switch /\ cl.hash = sv.hash
  /\ cl.at \in SecureClient =>
       /\ Replied /\ cl.readSeq > Switch /\ cl.hash = sv.hash
       /\ cl.readKey = <<cl.encr[2], sv.hash, "D">>

(* What the client sends behind the opening of its channel.                *)
AfterOpen == {DISCONNECT, CHANNEL_DATA}

(* The packet p the client has sent with number n.                         *)
InPacket(p, n) ==
  /\ p.type \in 1..100
  /\ p.mac = <<p.key, n>>
  /\ p.type = KEXINIT => p.body = hello
  /\ p.type \in {GEX_REQUEST_OLD, GEX_REQUEST_NEW} =>
       /\ n >= 1
       /\ <<p.type, p.body>> =
            FirstOf(IF n = 1 /\ hello.guess THEN hello.kex[1] ELSE Chosen.kex, cl.request)
  /\ p.type = NEWKEYS =>
       /\ sv.at \in {"newkeys", "ended"} /\ Replied /\ cl.at \notin Early
       /\ cl.writeKey = <<Chosen.in, sv.hash, "C">>
  /\ p.type = CHANNEL_OPEN => cl.at \in {"open", "data"} \cup Departed

(* Keys change behind the NEWKEYS, and little follows a channel's opening. *)
KeysInOrder(q) ==
  \A i, j \in DOMAIN q :
    /\ q[i].type = NEWKEYS => q[j].key = (IF j <= i THEN Plain ELSE cl.writeKey)
    /\ q[i].type = NEWKEYS /\ q[j].type = NEWKEYS => i = j
    /\ q[i].type = CHANNEL_OPEN /\ i < j => q[j].type \in AfterOpen

(* The client's NEWKEYS is not on its way.                                 *)
NoNewKeys == \A i \in DOMAIN toServer : toServer[i].type # NEWKEYS

(* What is on its way to the server, and the keys it is written with.      *)
InInv ==
  /\ IsList(toServer)
  /\ sv.readSeq + Len(toServer) = cl.writeSeq
  /\ \A i \in DOMAIN toServer : InPacket(toServer[i], sv.readSeq + i - 1)
  /\ KeysInOrder(toServer)
  /\ cl.at \in Early => /\ cl.writeKey = Plain
                         /\ \A i \in DOMAIN toServer : toServer[i].key = Plain
  /\ sv.at \in BeforeReply \cup {"newkeys"} => sv.readKey = Plain
  /\ sv.at \in Secure => sv.readKey = InKey /\ cl.at \notin Early
  /\ sv.at # "ended" /\ NoNewKeys =>
       /\ cl.writeKey = sv.readKey
       /\ \A i \in DOMAIN toServer : toServer[i].key = sv.readKey
  /\ sv.at = "data" =>
       /\ cl.at \in {"open", "data"} \cup Departed
       /\ \A i \in DOMAIN toServer : toServer[i].type \in AfterOpen

(* The inductive invariant.                                                *)
TransportIndInv ==
  /\ ini \in Inis /\ hello \in Hellos /\ lists = SetAlgoLists(ini.kex, ini.encr)
  /\ ServerInv /\ OutInv /\ ClientInv /\ InInv

-----------------------------------------------------------------------------
(* Packets and what is sent.                                               *)

(* A packet of a side, of a type and with a body, that has number n.       *)
IsPacket(p, type, body, key, n) ==
  p.type = type /\ p.body = body /\ p.key = key /\ p.mac = <<key, n>>

(* Nothing to send.                                                        *)
LEMMA NoPackets ==
  ASSUME NEW side
  PROVE  IsList(Packets(side, <<>>)) /\ Len(Packets(side, <<>>)) = 0 /\ Len(<<>>) = 0
<1>1. PICK q : q = Packets(side, <<>>)
  OBVIOUS
<1>2. q \in [1..0 -> {}]
  BY <1>1 DEF Packets
<1>3. IsList(q) /\ Len(q) = 0
  BY <1>2, FunctionIsList
<1> QED BY <1>1, <1>3

(* One message.                                                            *)
LEMMA OnePacket ==
  ASSUME NEW side, side.writeSeq \in Nat, NEW type, NEW body,
         NEW q, q = Packets(side, <<<<type, body>>>>)
  PROVE  /\ IsList(q) /\ Len(q) = 1 /\ Len(<<<<type, body>>>>) = 1
         /\ IsPacket(q[1], type, body, side.writeKey, side.writeSeq)
<1>1. q = [i \in 1..1 |-> [type |-> <<<<type, body>>>>[i][1], body |-> <<<<type, body>>>>[i][2],
                           key |-> side.writeKey, mac |-> <<side.writeKey, side.writeSeq + i - 1>>]]
  BY DEF Packets, macDataSSH
<1>2. PICK p : p = [type |-> type, body |-> body, key |-> side.writeKey,
                    mac |-> <<side.writeKey, side.writeSeq>>]
  OBVIOUS
<1>3. side.writeSeq + 1 - 1 = side.writeSeq
  OBVIOUS
<1>4. q \in [1..1 -> {q[1]}]
  BY <1>1
<1>5. IsList(q) /\ Len(q) = 1
  BY <1>4, FunctionIsList
<1>6. q[1] = p
  BY <1>1, <1>2, <1>3
<1> QED BY <1>2, <1>5, <1>6 DEF IsPacket

(* Two messages.                                                           *)
LEMMA TwoPackets ==
  ASSUME NEW side, side.writeSeq \in Nat, NEW type1, NEW body1, NEW type2, NEW body2,
         NEW q, q = Packets(side, <<<<type1, body1>>, <<type2, body2>>>>)
  PROVE  /\ IsList(q) /\ Len(q) = 2 /\ Len(<<<<type1, body1>>, <<type2, body2>>>>) = 2
         /\ IsPacket(q[1], type1, body1, side.writeKey, side.writeSeq)
         /\ IsPacket(q[2], type2, body2, side.writeKey, side.writeSeq + 1)
<1>1. PICK m : m = <<<<type1, body1>>, <<type2, body2>>>>
  OBVIOUS
<1>2. Len(m) = 2 /\ m[1] = <<type1, body1>> /\ m[2] = <<type2, body2>>
  BY <1>1
<1>3. q = [i \in 1..2 |-> [type |-> m[i][1], body |-> m[i][2], key |-> side.writeKey,
                           mac |-> <<side.writeKey, side.writeSeq + i - 1>>]]
  BY <1>1, <1>2 DEF Packets, macDataSSH
<1>4. q \in [1..2 -> {q[1], q[2]}]
  BY <1>3
<1>5. IsList(q) /\ Len(q) = 2
  BY <1>4, FunctionIsList
<1>6. side.writeSeq + 1 - 1 = side.writeSeq /\ side.writeSeq + 2 - 1 = side.writeSeq + 1
  OBVIOUS
<1>7. q[1] = [type |-> type1, body |-> body1, key |-> side.writeKey,
              mac |-> <<side.writeKey, side.writeSeq>>]
  BY <1>2, <1>3, <1>6
<1>8. q[2] = [type |-> type2, body |-> body2, key |-> side.writeKey,
              mac |-> <<side.writeKey, side.writeSeq + 1>>]
  BY <1>2, <1>3, <1>6
<1>9. IsPacket(q[1], type1, body1, side.writeKey, side.writeSeq)
  BY <1>7 DEF IsPacket
<1>10. IsPacket(q[2], type2, body2, side.writeKey, side.writeSeq + 1)
  BY <1>8 DEF IsPacket
<1> QED BY <1>1, <1>2, <1>5, <1>9, <1>10

(* The server after it has sent msgs as s.                                 *)
LEMMA SendIs ==
  ASSUME NEW s, NEW msgs, Send(s, msgs), DOMAIN s = ServerFields
  PROVE  /\ toClient' = toClient \o Packets(s, msgs)
         /\ DOMAIN sv' = ServerFields
         /\ sv'.writeSeq = s.writeSeq + Len(msgs)
         /\ \A f \in ServerFields \ {"writeSeq"} : sv'[f] = s[f]
<1>1. toClient' = toClient \o Packets(s, msgs)
      /\ sv' = [s EXCEPT !.writeSeq = s.writeSeq + Len(msgs)]
  BY DEF Send
<1>2. "writeSeq" \in ServerFields
  BY DEF ServerFields
<1> HIDE DEF ServerFields
<1> QED BY <1>1, <1>2

(* The client after it has sent msgs as c.                                 *)
LEMMA SayIs ==
  ASSUME NEW c, NEW msgs, Say(c, msgs), DOMAIN c = ClientFields
  PROVE  /\ toServer' = toServer \o Packets(c, msgs)
         /\ DOMAIN cl' = ClientFields
         /\ cl'.writeSeq = c.writeSeq + Len(msgs)
         /\ \A f \in ClientFields \ {"writeSeq"} : cl'[f] = c[f]
         /\ UNCHANGED <<ini, lists, hello, sv>>
<1>1. toServer' = toServer \o Packets(c, msgs)
      /\ cl' = [c EXCEPT !.writeSeq = c.writeSeq + Len(msgs)]
      /\ UNCHANGED <<ini, lists, hello, sv>>
  BY DEF Say
<1>2. "writeSeq" \in ClientFields
  BY DEF ClientFields
<1> HIDE DEF ClientFields
<1> QED BY <1>1, <1>2

(* A packet the handshake accepts.                                         *)
LEMMA PacketAccepted ==
  ASSUME NEW p, readHSPacketSSH2(p) = Ok, sv.noPackets \in Nat
  PROVE  /\ p.key = sv.readKey /\ p.mac = <<sv.readKey, sv.readSeq>>
         /\ sv.noPackets < NoOpLimit - 1
         /\ p.type # DISCONNECT
         /\ sv.at \in {"skip", "init"} => p.body = Long
         /\ p.type = Expected \/ (Expected = GEX_REQUEST_OLD /\ p.type = GEX_REQUEST_NEW)
<1>1. readPacketHeaderSSH2(sv, p, ValidHSPackets) = Ok
  BY DEF readHSPacketSSH2, Ok, BadData
<1>2. checkMacSSH(sv, p)
  BY <1>1 DEF readHSPacketSSH2, Ok, BadData
<1>3. ~(sv.noPackets + 1 >= NoOpLimit)
  BY <1>1, <1>2 DEF readHSPacketSSH2, Ok
<1>4. PacketStatus(p, Expected) = Ok
  BY <1>1, <1>2, <1>3 DEF readHSPacketSSH2, Ok
<1>5. p.key = sv.readKey
  BY <1>1 DEF readPacketHeaderSSH2, Ok, BadData
<1>6. p.mac = <<sv.readKey, sv.readSeq>>
  BY <1>2 DEF checkMacSSH, macDataSSH
<1>7. p.type # DISCONNECT
  BY <1>4 DEF PacketStatus, getDisconnectInfo, Ok
<1>8. sv.at \in {"skip", "init"} => p.body = Long
  BY <1>4, <1>7 DEF PacketStatus, BadData, Ok
<1>9. p.type = Expected \/ <<Expected, p.type>> = <<GEX_REQUEST_OLD, GEX_REQUEST_NEW>>
  BY <1>4, <1>7, <1>8 DEF PacketStatus, BadData, Ok
<1>10. p.type = Expected \/ (Expected = GEX_REQUEST_OLD /\ p.type = GEX_REQUEST_NEW)
  BY <1>9
<1>11. sv.noPackets < NoOpLimit - 1
  BY <1>3 DEF NoOpLimit
<1> QED BY <1>5, <1>6, <1>7, <1>8, <1>10, <1>11

(* The client's choice is fixed by the two lists.                          *)
LEMMA ChosenKept ==
  ASSUME hello' = hello, lists' = lists
  PROVE  Chosen' = Chosen
BY DEF Chosen, ClientChoice, GuessRight

(* A packet sent remains what it was while the exchange is settled.        *)
LEMMA OutKept ==
  ASSUME NEW p, NEW n, OutPacket(p, n),
         sv'.requested = sv.requested, sv'.group = sv.group, sv'.secret = sv.secret,
         sv'.hash = sv.hash, sv'.encr = sv.encr, cl'.request = cl.request, Replied => Replied'
  PROVE  OutPacket(p, n)'
<1>1. Switch' = Switch /\ OutKey' = OutKey /\ Sizes(sv.group)' = Sizes(sv.group)
  BY DEF Switch, OutKey, Sizes
<1> HIDE DEF Switch, OutKey, Sizes, Replied
<1> QED BY <1>1 DEF OutPacket

(* The first packet is the server's hello, whatever follows it.            *)
LEMMA OutFirst ==
  ASSUME NEW p, OutPacket(p, 0)
  PROVE  OutPacket(p, 0)'
<1>1. p.type \notin {GEX_GROUP, GEX_REPLY}
  BY DEF OutPacket, Switch
<1>2. p.key = Plain /\ 0 <= Switch'
  BY DEF OutPacket, Switch
<1> HIDE DEF Switch
<1> QED BY <1>1, <1>2 DEF OutPacket

(* The server sends the packets q.                                         *)
LEMMA Sends ==
  ASSUME OutInv, sv.writeSeq \in Nat, cl.readSeq \in Nat, cl' = cl,
         NEW q, IsList(q), toClient' = toClient \o q, sv'.writeSeq = sv.writeSeq + Len(q),
         \A p : \A n \in Nat : n < sv.writeSeq /\ OutPacket(p, n) => OutPacket(p, n)',
         \A n \in Nat : \A i \in 1..Len(q) : n = sv.writeSeq + i - 1 => OutPacket(q[i], n)'
  PROVE  OutInv'
<1> DEFINE m == Len(toClient)
<1>1. IsList(toClient) /\ cl.readSeq + Len(toClient) = sv.writeSeq
      /\ \A i \in DOMAIN toClient : OutPacket(toClient[i], cl.readSeq + i - 1)
  BY DEF OutInv
<1>2. m \in Nat /\ DOMAIN toClient = 1..m /\ Len(q) \in Nat
  BY <1>1, ListShape
<1>3. /\ IsList(toClient') /\ Len(toClient') = m + Len(q)
      /\ DOMAIN (toClient') = 1..(m + Len(q))
  BY <1>1, ListConcat
<1>4. \A i \in 1..m : (toClient')[i] = toClient[i]
  BY <1>1, ListConcat
<1>5. \A i \in 1..Len(q) : (toClient')[m + i] = q[i]
  BY <1>1, ListConcat
<1> HIDE DEF m
<1>6. cl.readSeq + m = sv.writeSeq
  BY <1>1 DEF m
<1>7. ASSUME NEW i \in 1..(m + Len(q)), NEW p, p = (toClient')[i], NEW n, n = cl.readSeq + i - 1
      PROVE  OutPacket(p, n)'
  <2>1. CASE i <= m
    <3>1. i \in 1..m /\ n \in Nat /\ n < sv.writeSeq
      BY <1>2, <1>6, <1>7, <2>1
    <3>2. OutPacket(p, n)
      BY <1>1, <1>2, <1>4, <1>7, <3>1
    <3> QED BY <3>1, <3>2
  <2>2. CASE i > m
    <3>1. PICK j : j = i - m
      OBVIOUS
    <3>2. j \in 1..Len(q) /\ i = m + j
      BY <1>2, <1>7, <2>2, <3>1
    <3>3. n = sv.writeSeq + j - 1
      BY <1>2, <1>6, <1>7, <3>2
    <3>4. n \in Nat
      BY <1>7
    <3>5. p = q[j]
      BY <1>5, <1>7, <3>2
    <3> QED BY <3>2, <3>3, <3>4, <3>5
  <2> QED BY <1>2, <1>7, <2>1, <2>2
<1>8. cl'.readSeq + Len(toClient') = sv'.writeSeq
  BY <1>2, <1>3, <1>6
<1>9. \A i \in DOMAIN (toClient') : OutPacket(toClient[i], cl.readSeq + i - 1)'
  BY <1>3, <1>7
<1> QED BY <1>3, <1>8, <1>9 DEF OutInv

(* A packet of the client's remains what it was when the server moves.     *)
LEMMA InKept ==
  ASSUME NEW p, NEW n, InPacket(p, n), hello' = hello, lists' = lists, cl' = cl,
         p.type = NEWKEYS => /\ sv'.at \in {"newkeys", "ended"} /\ Replied' /\ sv'.hash = sv.hash
  PROVE  InPacket(p, n)'
<1>1. Chosen' = Chosen
  BY ChosenKept
<1> HIDE DEF Replied
<1> QED BY <1>1 DEF InPacket

(* The server reads the head of its queue, in any way but the change of    *)
(* keys, and goes on or ends.                                              *)
Proceeds(H) ==
  /\ sv'.readKey = sv.readKey /\ H.type # NEWKEYS
  /\ sv'.at \in Secure => sv.at \in Secure /\ sv'.hash = sv.hash /\ sv'.encr = sv.encr
  /\ sv'.at \in BeforeReply \cup {"newkeys"} => sv.at \in BeforeReply \cup {"newkeys"}
  /\ sv'.at = "data" => sv.at = "data" \/ H.type = CHANNEL_OPEN

(* What is still to be read then.                                          *)
LEMMA Takes ==
  ASSUME InInv, toServer # <<>>, toServer' = Tail(toServer), sv.readSeq \in Nat,
         sv'.readSeq = sv.readSeq + 1, cl' = cl, hello' = hello, lists' = lists,
         sv.at \in SvPlaces, sv.at # "ended",
         sv.at = "newkeys" => sv'.at \in {"newkeys", "ended"} /\ sv'.hash = sv.hash /\ Replied',
         NEW H, H = Head(toServer), sv'.at = "ended" \/ Proceeds(H)
  PROVE  InInv'
<1>1. PICK q, r : q = toServer /\ r = toServer'
  OBVIOUS
<1>2. IsList(q) /\ q # <<>> /\ r = Tail(q)
  BY <1>1 DEF InInv
<1>3. PICK m : m = Len(q)
  OBVIOUS
<1>4. /\ m \in Nat /\ m >= 1 /\ DOMAIN q = 1..m
      /\ IsList(r) /\ Len(r) = m - 1 /\ DOMAIN r = 1..(m - 1)
      /\ H = q[1]
  BY <1>1, <1>2, <1>3, ListShape, ListTail
<1>5. \A i \in 1..(m - 1) : r[i] = q[i + 1]
  BY <1>2, <1>3, ListTail
<1>6. \A i \in 1..(m - 1) : i + 1 \in 1..m
  BY <1>4
<1>7. \A i \in 1..m : q[i].type = NEWKEYS => sv.at = "newkeys"
  BY <1>1, <1>4 DEF InInv, InPacket
<1>8. \A i \in 1..(m - 1) : InPacket(r[i], sv.readSeq + i - 1)'
  <2>1. TAKE i \in 1..(m - 1)
  <2>2. PICK p, n : p = r[i] /\ n = sv.readSeq + 1 + i - 1
    OBVIOUS
  <2>3. n = sv.readSeq + (i + 1) - 1 /\ p = q[i + 1] /\ i + 1 \in 1..m
    BY <1>4, <1>5, <1>6, <2>2
  <2>4. InPacket(p, n)
    BY <1>1, <1>4, <2>3 DEF InInv
  <2>5. p.type = NEWKEYS => sv'.at \in {"newkeys", "ended"} /\ Replied' /\ sv'.hash = sv.hash
    BY <1>7, <2>3
  <2>6. InPacket(p, n)'
    BY <2>4, <2>5, InKept
  <2>7. sv'.readSeq + i - 1 = n
    BY <1>4, <2>2
  <2> QED BY <2>2, <2>6, <2>7
<1>9. KeysInOrder(q)
  BY <1>1 DEF InInv
<1>10. KeysInOrder(r)'
  <2>1. SUFFICES ASSUME NEW i \in 1..(m - 1), NEW j \in 1..(m - 1)
                 PROVE  /\ r[i].type = NEWKEYS => r[j].key = (IF j <= i THEN Plain ELSE cl.writeKey)
                        /\ r[i].type = NEWKEYS /\ r[j].type = NEWKEYS => i = j
                        /\ r[i].type = CHANNEL_OPEN /\ i < j => r[j].type \in AfterOpen
    BY <1>4 DEF KeysInOrder
  <2>2. PICK a, b : a = i + 1 /\ b = j + 1
    OBVIOUS
  <2>3. a \in DOMAIN q /\ b \in DOMAIN q /\ r[i] = q[a] /\ r[j] = q[b]
    BY <1>4, <1>5, <1>6, <2>2
  <2>4. /\ q[a].type = NEWKEYS => q[b].key = (IF b <= a THEN Plain ELSE cl.writeKey)
        /\ q[a].type = NEWKEYS /\ q[b].type = NEWKEYS => a = b
        /\ q[a].type = CHANNEL_OPEN /\ a < b => q[b].type \in AfterOpen
    BY <1>9, <2>3 DEF KeysInOrder
  <2>5. (b <= a <=> j <= i) /\ (a = b <=> i = j) /\ (a < b <=> i < j)
    BY <1>4, <2>2
  <2> QED BY <2>3, <2>4, <2>5
<1>11. sv.readSeq + m = cl.writeSeq
  BY <1>1, <1>3 DEF InInv
<1>12. sv'.readSeq + Len(r) = cl'.writeSeq
  BY <1>4, <1>11
<1>13. cl.at \in Early => /\ cl.writeKey = Plain
                          /\ \A i \in 1..(m - 1) : r[i].key = Plain
  BY <1>1, <1>4, <1>5, <1>6 DEF InInv
<1>14. CASE sv'.at = "ended"
  <2>1. sv'.at \notin BeforeReply \cup Secure \cup {"newkeys", "data"}
    BY <1>14 DEF BeforeReply, Secure
  <2> QED BY <1>1, <1>4, <1>8, <1>10, <1>12, <1>13, <1>14, <2>1 DEF InInv
<1>15. CASE Proceeds(H)
  <2>1. sv'.at \in BeforeReply \cup {"newkeys"} => sv'.readKey = Plain
    BY <1>15 DEF InInv, Proceeds
  <2>2. sv'.at \in Secure => sv'.readKey = InKey' /\ cl.at \notin Early
    BY <1>15 DEF InInv, Proceeds, InKey
  <2>3. H.type # NEWKEYS
    BY <1>15 DEF Proceeds
  <2>4. (\A i \in 1..(m - 1) : r[i].type # NEWKEYS) => \A i \in 1..m : q[i].type # NEWKEYS
    <3>1. SUFFICES ASSUME \A i \in 1..(m - 1) : r[i].type # NEWKEYS, NEW i \in 1..m
                   PROVE  q[i].type # NEWKEYS
      OBVIOUS
    <3>2. CASE i = 1
      BY <1>4, <2>3, <3>2
    <3>3. CASE i # 1
      <4>1. i - 1 \in 1..(m - 1) /\ (i - 1) + 1 = i
        BY <1>4, <3>3
      <4> QED BY <1>5, <3>1, <4>1
    <3> QED BY <3>2, <3>3
  <2>5. (\A i \in 1..(m - 1) : r[i].type # NEWKEYS) =>
          cl.writeKey = sv.readKey /\ \A i \in 1..m : q[i].key = sv.readKey
    BY <1>1, <1>4, <2>4 DEF InInv, NoNewKeys
  <2>6. (\A i \in 1..(m - 1) : r[i].type # NEWKEYS) =>
          cl.writeKey = sv'.readKey /\ \A i \in 1..(m - 1) : r[i].key = sv'.readKey
    BY <1>5, <1>6, <1>15, <2>5 DEF Proceeds
  <2>7. sv'.at = "data" =>
          cl.at \in {"open", "data"} \cup Departed /\ \A i \in 1..(m - 1) : r[i].type \in AfterOpen
    <3>1. CASE sv.at = "data"
      BY <1>1, <1>4, <1>5, <1>6, <3>1 DEF InInv
    <3>2. CASE H.type = CHANNEL_OPEN
      <4>1. 1 \in DOMAIN q /\ q[1].type = CHANNEL_OPEN
        BY <1>4, <3>2
      <4>2. InPacket(q[1], sv.readSeq + 1 - 1)
        BY <1>1, <4>1 DEF InInv
      <4>3. cl.at \in {"open", "data"} \cup Departed
        BY <4>1, <4>2 DEF InPacket
      <4>4. \A i \in 1..(m - 1) : i + 1 \in DOMAIN q /\ 1 < i + 1
        BY <1>4
      <4>5. \A j \in DOMAIN q : 1 < j => q[j].type \in AfterOpen
        BY <1>9, <4>1 DEF KeysInOrder
      <4>6. \A i \in 1..(m - 1) : r[i].type \in AfterOpen
        BY <1>5, <4>4, <4>5
      <4> QED BY <4>3, <4>6
    <3> QED BY <1>15, <3>1, <3>2 DEF Proceeds
  <2> QED BY <1>1, <1>4, <1>8, <1>10, <1>12, <1>13, <2>1, <2>2, <2>6, <2>7 DEF InInv, NoNewKeys
<1> QED BY <1>14, <1>15

(* The client stands where it stood when the server moves.                 *)
LEMMA ClientKept ==
  ASSUME ClientInv, cl' = cl, hello' = hello, lists' = lists,
         Replied => Replied' /\ sv'.hash = sv.hash /\ sv'.requested = sv.requested,
         cl.at = "reply" /\ cl.kex # DH =>
           sv'.requested = sv.requested /\ sv'.group = sv.group /\ sv'.secret = sv.secret
  PROVE  ClientInv'
<1>1. Chosen' = Chosen
  BY ChosenKept
<1>2. sv'.requested = sv.requested => Switch' = Switch
  BY DEF Switch
<1>3. \A g : Sizes(g)' = Sizes(g)
  BY DEF Sizes
<1> HIDE DEF Replied, Switch, Sizes
<1>4. cl.at = "reply" /\ cl.kex # DH =>
        sv'.requested /\ cl.group = sv'.group /\ sv'.secret = Sizes(sv'.group)
  BY DEF ClientInv
<1>5. cl.at = "newkeys" => Replied' /\ cl.readSeq = Switch' /\ cl.hash = sv'.hash
  BY <1>2 DEF ClientInv
<1>6. cl.at \in SecureClient =>
        /\ Replied' /\ cl.readSeq > Switch' /\ cl.hash = sv'.hash
        /\ cl.readKey = <<cl.encr[2], sv'.hash, "D">>
  BY <1>2 DEF ClientInv
<1> QED BY <1>1, <1>3, <1>4, <1>5, <1>6 DEF ClientInv

(* The server sends the packets q, which do not belong to the exchange, and *)
(* stays, goes on behind the exchange, or ends.                            *)
Settles(q) ==
  /\ UNCHANGED <<ini, lists, hello, cl>>
  /\ DOMAIN sv' = ServerFields
  /\ sv'.requested = sv.requested /\ sv'.group = sv.group /\ sv'.secret = sv.secret
  /\ sv'.hash = sv.hash /\ sv'.encr = sv.encr /\ sv'.kex = sv.kex /\ sv'.skip = sv.skip
  /\ IsList(q) /\ toClient' = toClient \o q /\ sv'.writeSeq = sv.writeSeq + Len(q)
  /\ \A i \in 1..Len(q) :
       /\ q[i].type \in (1..100) \ {GEX_GROUP, GEX_REPLY}
       /\ q[i].key = sv.writeKey /\ q[i].mac = <<sv.writeKey, sv.writeSeq + i - 1>>
  /\ sv'.readSeq \in Nat /\ sv'.readSeq >= sv.readSeq
  /\ sv'.noPackets \in 0..(NoOpLimit - 1) /\ sv'.sent \in 0..DataBound
  /\ \/ sv'.at = "ended" /\ (sv.at \in BeforeReply => Len(q) <= 1)
     \/ sv'.at = sv.at /\ Len(q) = 0 /\ sv'.writeKey = sv.writeKey
     \/ sv.at \in AfterReply /\ sv'.at \in AfterReply /\ sv'.writeKey = sv.writeKey

(* Every place of the server is before its reply, after it, or the end.    *)
LEMMA ServerPlace ==
  ASSUME ServerInv, sv.at # "ended"
  PROVE  \/ /\ sv.at \in BeforeReply /\ sv.writeSeq <= Switch - 1 /\ sv.writeKey = Plain
         \/ /\ sv.at \in AfterReply /\ sv.writeSeq > Switch /\ sv.writeKey = OutKey
            /\ sv.encr # None
<1>1. sv.at \in BeforeReply \/ sv.at \in AfterReply
  BY DEF ServerInv, SvPlaces, BeforeReply, AfterReply
<1>2. CASE sv.at \in AfterReply
  <2> HIDE DEF OutKey
  <2>1. sv.writeKey = OutKey /\ sv.encr # None
    BY <1>2 DEF ServerInv
  <2> QED BY <1>2, <2>1 DEF ServerInv, Replied
<1>3. CASE sv.at \in BeforeReply
  <2>1. sv.at \notin AfterReply
    BY <1>3 DEF AfterReply, BeforeReply
  <2>2. sv.writeKey = Plain
    BY <2>1 DEF ServerInv
  <2>3. sv.at = "init" => sv.writeSeq = Switch - 1
    BY DEF ServerInv
  <2>4. sv.at # "init" => sv.writeSeq <= 1
    BY <1>3 DEF ServerInv, BeforeReply
  <2>5. Switch >= 2
    BY DEF Switch
  <2>6. Switch \in Nat
    BY DEF Switch
  <2>7. sv.writeSeq <= Switch - 1
    <3> HIDE DEF Switch
    <3> QED BY <2>3, <2>4, <2>5, <2>6 DEF ServerInv
  <2> QED BY <1>3, <2>2, <2>7
<1> QED BY <1>1, <1>2, <1>3

(* What such a step keeps of the server and of the packets to the client.  *)
LEMMA SettledStep ==
  ASSUME ServerInv, OutInv, ClientInv, NEW q, Settles(q), sv.at \notin {"start", "ended"}
  PROVE  /\ ServerInv' /\ OutInv' /\ ClientInv'
         /\ (Replied => Replied')
<1>1. /\ Switch' = Switch /\ OutKey' = OutKey /\ FinalHash' = FinalHash
      /\ Sizes(sv.group)' = Sizes(sv.group) /\ Switch \in {2, 3} /\ Chosen' = Chosen
  <2>1. Chosen' = Chosen
    BY ChosenKept DEF Settles
  <2> QED BY <2>1 DEF Settles, Switch, OutKey, FinalHash, Sizes, Prefix
<1>2. \/ /\ sv.at \in BeforeReply /\ sv.writeSeq <= Switch - 1 /\ sv.writeKey = Plain
      \/ /\ sv.at \in AfterReply /\ sv.writeSeq > Switch /\ sv.writeKey = OutKey
         /\ sv.encr # None
  BY ServerPlace
<1>3. sv.writeSeq \in Nat /\ sv.readSeq \in Nat /\ Len(q) \in Nat /\ cl.readSeq \in Nat
  BY ListShape DEF ServerInv, ClientInv, Settles
<1>4. sv'.writeSeq = sv.writeSeq + Len(q) /\ sv'.writeSeq \in Nat
  BY <1>3 DEF Settles
<1>5. sv.at \in BeforeReply => sv'.writeSeq <= Switch
  <2>1. sv.at \in BeforeReply => sv.at \notin AfterReply
    BY DEF BeforeReply, AfterReply
  <2> QED BY <1>1, <1>2, <1>3, <1>4, <2>1 DEF Settles
<1> HIDE DEF Switch, OutKey, FinalHash, Sizes, Chosen
<1>6. Replied <=> sv.at \in AfterReply
  <2>1. sv.at \in BeforeReply => sv.at \notin AfterReply
    BY DEF BeforeReply, AfterReply
  <2> QED BY <1>1, <1>2, <1>3, <2>1 DEF Replied
<1>7. Replied' <=> sv.at \in AfterReply
  <2>1. sv.at \in BeforeReply => sv.at \notin AfterReply
    BY DEF BeforeReply, AfterReply
  <2>2. sv.at \in AfterReply => sv'.writeSeq > Switch
    BY <1>1, <1>2, <1>3, <1>4, <2>1
  <2> QED BY <1>1, <1>2, <1>3, <1>4, <1>5, <2>1, <2>2 DEF Replied
<1>8. OutInv'
  <2>1. \A p : \A n \in Nat : n < sv.writeSeq /\ OutPacket(p, n) => OutPacket(p, n)'
    BY <1>6, <1>7, OutKept DEF Settles
  <2>2. ASSUME NEW n \in Nat, NEW i \in 1..Len(q), n = sv.writeSeq + i - 1
        PROVE  OutPacket(q[i], n)'
    <3>1. PICK p : p = q[i]
      OBVIOUS
    <3>2. /\ p.type \in (1..100) \ {GEX_GROUP, GEX_REPLY}
          /\ p.key = sv.writeKey /\ p.mac = <<sv.writeKey, n>>
      BY <2>2, <3>1 DEF Settles
    <3>3. p.key = IF n <= Switch THEN Plain ELSE OutKey
      <4>1. CASE sv.at \in AfterReply
        <5>1. n > Switch
          BY <1>1, <1>2, <1>3, <2>2, <4>1 DEF BeforeReply, AfterReply
        <5>2. ~(n <= Switch)
          BY <1>1, <5>1
        <5>3. sv.writeKey = OutKey
          BY <1>2, <4>1 DEF BeforeReply, AfterReply
        <5> QED BY <3>2, <5>2, <5>3
      <4>2. CASE sv.at \in BeforeReply
        <5>1. sv.writeSeq + Len(q) <= Switch
          BY <1>4, <1>5, <4>2
        <5>2. n <= Switch
          BY <1>1, <1>3, <2>2, <5>1
        <5>3. sv.writeKey = Plain
          BY <1>2, <4>2 DEF BeforeReply, AfterReply
        <5> QED BY <3>2, <5>2, <5>3
      <4> QED BY <1>2, <4>1, <4>2
    <3>4. OutPacket(p, n)'
      BY <1>1, <3>2, <3>3 DEF OutPacket
    <3> QED BY <3>1, <3>4
  <2> QED BY <1>3, <2>1, <2>2, Sends DEF Settles
<1>9. ClientInv'
  BY <1>6, <1>7, ClientKept DEF Settles
<1>10. ServerInv'
  <2>1. /\ DOMAIN sv' = ServerFields
        /\ sv'.noPackets \in 0..(NoOpLimit - 1) /\ sv'.sent \in 0..DataBound
        /\ sv'.readSeq \in Nat /\ sv'.writeSeq \in Nat
    BY <1>4 DEF Settles
  <2>2. sv'.at = "ended" \/ sv'.at = sv.at \/ (sv.at \in AfterReply /\ sv'.at \in AfterReply)
    BY DEF Settles
  <2>3. sv'.at \in SvPlaces /\ sv'.requested \in BOOLEAN /\ sv'.skip \in BOOLEAN
    BY <2>2 DEF ServerInv, Settles, SvPlaces, AfterReply
  <2>4. Accepted' = Accepted /\ (Accepted => Choice')
    BY <1>1 DEF ServerInv, Settles, Accepted, Choice
  <2>5. IF Accepted' THEN Choice' /\ sv'.at \notin {"start", "hello"}
        ELSE ~sv'.requested /\ ~sv'.skip /\ sv'.encr = None /\ sv'.at \in {"start", "hello", "ended"}
    <3>1. CASE Accepted
      BY <2>2, <2>4, <3>1 DEF ServerInv, AfterReply
    <3>2. CASE ~Accepted
      BY <2>2, <2>4, <3>2 DEF ServerInv, Settles, AfterReply
    <3> QED BY <3>1, <3>2
  <2>6. /\ sv'.at \in {"start", "hello", "skip", "request"} =>
             sv'.writeSeq = IF sv'.at = "start" THEN 0 ELSE 1
        /\ sv'.at = "init" => sv'.writeSeq = Switch' - 1
    <3>1. sv'.at \in {"start", "hello", "skip", "request", "init"} => sv'.at = sv.at /\ Len(q) = 0
      BY DEF Settles, AfterReply
    <3> QED BY <1>1, <1>3, <1>4, <3>1 DEF ServerInv
  <2>7. /\ sv'.at = "request" => sv'.requested
        /\ sv'.at \in {"hello", "skip"} => sv'.hash = SubSeq(Prefix', 1, IF sv'.at = "hello" THEN 2 ELSE 3)
        /\ sv'.at \in {"request", "init"} => sv'.hash = Prefix'
    <3>1. sv'.at \in {"hello", "skip", "request", "init"} => sv'.at = sv.at
      BY <2>2 DEF AfterReply
    <3>2. Prefix' = Prefix
      BY DEF Prefix, Settles
    <3> HIDE DEF Prefix
    <3> QED BY <3>1, <3>2 DEF ServerInv, Settles
  <2>8. sv'.at \in AfterReply => Replied' /\ sv'.encr # None
    <3>1. sv'.at \in AfterReply => sv.at \in AfterReply
      BY <2>2 DEF AfterReply
    <3> QED BY <1>7, <3>1 DEF ServerInv, Settles
  <2>9. sv'.writeSeq > Switch' + 1 => sv'.encr # None
    BY <1>1, <1>2, <1>4, <1>5 DEF Settles
  <2>10. /\ Replied' => sv'.hash = FinalHash' /\ Accepted'
         /\ ~sv'.requested /\ Replied' => Chosen'.kex = DH
    BY <1>1, <1>6, <1>7, <2>4 DEF ServerInv, Settles
  <2>11. ~sv'.requested => sv'.secret = <<>> /\ (sv'.at # "start" => sv'.group = DHDefault)
    BY DEF ServerInv, Settles
  <2>12. sv'.requested /\ (sv'.at \in {"init"} \/ Replied') => sv'.secret = Sizes(sv.group)'
    <3>1. sv'.at = "init" => sv.at = "init"
      BY <2>2 DEF AfterReply
    <3>2. sv.requested /\ (sv.at \in {"init"} \/ Replied) => sv.secret = Sizes(sv.group)
      BY DEF ServerInv
    <3> QED BY <1>1, <1>6, <1>7, <3>1, <3>2 DEF Settles
  <2>13. sv'.at # "ended" => sv'.writeKey = IF sv'.at \in AfterReply THEN OutKey' ELSE Plain
    <3>1. sv'.at # "ended" => sv'.writeKey = sv.writeKey /\ (sv'.at \in AfterReply <=> sv.at \in AfterReply)
      BY DEF Settles
    <3>2. sv.writeKey = IF sv.at \in AfterReply THEN OutKey ELSE Plain
      BY DEF ServerInv
    <3> QED BY <1>1, <3>1, <3>2
  <2>14. /\ Accepted' => sv'.readSeq >= 1
         /\ sv'.at \in {"request", "init"} /\ sv'.skip => sv'.readSeq >= 2
    <3>1. sv'.at \in {"request", "init"} => sv'.at = sv.at
      BY <2>2 DEF AfterReply
    <3>2. (Accepted => sv.readSeq >= 1) /\ (sv.at \in {"request", "init"} /\ sv.skip => sv.readSeq >= 2)
      BY DEF ServerInv
    <3>3. sv'.readSeq >= sv.readSeq /\ sv'.skip = sv.skip /\ sv'.readSeq \in Nat
      BY DEF Settles
    <3> QED BY <1>3, <2>4, <3>1, <3>2, <3>3
  <2> HIDE DEF Accepted, Choice, Replied, Prefix
  <2> QED BY <2>1, <2>3, <2>5, <2>6, <2>7, <2>8, <2>9, <2>10, <2>11, <2>12, <2>13, <2>14
        DEF ServerInv
<1> QED BY <1>6, <1>7, <1>8, <1>9, <1>10

-----------------------------------------------------------------------------
(* The server's steps that do not belong to the exchange.                  *)

(* The fields that such a step leaves alone.                               *)
ExchangeFields == {"requested", "group", "secret", "hash", "encr", "kex", "skip",
                   "writeKey", "writeSeq"}

(* The server becomes s and sends n packets.                               *)
Moves(s, n) ==
  /\ DOMAIN s = ServerFields /\ \A f \in ExchangeFields : s[f] = sv[f]
  /\ s.readSeq \in Nat /\ s.readSeq >= sv.readSeq
  /\ s.noPackets \in 0..(NoOpLimit - 1) /\ s.sent \in 0..DataBound
  /\ \/ s.at = "ended" /\ (sv.at \in BeforeReply => n <= 1)
     \/ s.at = sv.at /\ n = 0
     \/ sv.at \in AfterReply /\ s.at \in AfterReply

(* At most two messages, none of the exchange.                             *)
Says(msgs, n) ==
  \/ n = 0 /\ msgs = <<>>
  \/ n = 1 /\ \E t \in (1..100) \ {GEX_GROUP, GEX_REPLY} : \E b : msgs = <<<<t, b>>>>
  \/ n = 2 /\ \E t, u \in (1..100) \ {GEX_GROUP, GEX_REPLY} : \E b, c : msgs = <<<<t, b>>, <<u, c>>>>

(* n packets outside the exchange, under a key, numbered from a number.    *)
Quiet(q, n, key, number) ==
  /\ IsList(q) /\ Len(q) = n
  /\ \A i \in 1..n : /\ q[i].type \in (1..100) \ {GEX_GROUP, GEX_REPLY}
                     /\ q[i].key = key
                     /\ q[i].mac = <<key, number + i - 1>>

(* The packets of such messages.                                           *)
LEMMA SaysPackets ==
  ASSUME NEW s, s.writeSeq \in Nat, NEW msgs, NEW n, Says(msgs, n), NEW q, q = Packets(s, msgs)
  PROVE  Len(msgs) = n /\ Quiet(q, n, s.writeKey, s.writeSeq)
<1>1. CASE n = 0 /\ msgs = <<>>
  BY <1>1, NoPackets DEF Quiet
<1>2. CASE n = 1 /\ \E t \in (1..100) \ {GEX_GROUP, GEX_REPLY} : \E b : msgs = <<<<t, b>>>>
  <2>1. PICK t \in (1..100) \ {GEX_GROUP, GEX_REPLY} : \E b : msgs = <<<<t, b>>>>
    BY <1>2
  <2>2. PICK b : msgs = <<<<t, b>>>>
    BY <2>1
  <2>3. /\ IsList(q) /\ Len(q) = 1 /\ Len(msgs) = 1
        /\ IsPacket(q[1], t, b, s.writeKey, s.writeSeq)
    BY <2>2, OnePacket
  <2>4. s.writeSeq + 1 - 1 = s.writeSeq
    OBVIOUS
  <2>5. \A i \in 1..1 : i = 1
    OBVIOUS
  <2> QED BY <1>2, <2>3, <2>4, <2>5 DEF IsPacket, Quiet
<1>3. CASE n = 2 /\ \E t, u \in (1..100) \ {GEX_GROUP, GEX_REPLY} :
                       \E b, c : msgs = <<<<t, b>>, <<u, c>>>>
  <2>1. PICK t \in (1..100) \ {GEX_GROUP, GEX_REPLY}, u \in (1..100) \ {GEX_GROUP, GEX_REPLY} :
          \E b, c : msgs = <<<<t, b>>, <<u, c>>>>
    BY <1>3
  <2>2. PICK b, c : msgs = <<<<t, b>>, <<u, c>>>>
    BY <2>1
  <2>3. /\ IsList(q) /\ Len(q) = 2 /\ Len(msgs) = 2
        /\ IsPacket(q[1], t, b, s.writeKey, s.writeSeq)
        /\ IsPacket(q[2], u, c, s.writeKey, s.writeSeq + 1)
    BY <2>2, TwoPackets
  <2>4. s.writeSeq + 1 - 1 = s.writeSeq /\ s.writeSeq + 2 - 1 = s.writeSeq + 1
    OBVIOUS
  <2>5. \A i \in 1..2 : i = 1 \/ i = 2
    OBVIOUS
  <2> QED BY <1>3, <2>3, <2>4, <2>5 DEF IsPacket, Quiet
<1> QED BY <1>1, <1>2, <1>3 DEF Says

(* Such a step sends its packets and settles.                              *)
LEMMA SendSettles ==
  ASSUME ServerInv, NEW s, NEW msgs, NEW n, Moves(s, n), Says(msgs, n), Send(s, msgs),
         UNCHANGED <<ini, lists, hello, cl>>
  PROVE  /\ \E q : Settles(q)
         /\ \A f \in ServerFields \ {"writeSeq"} : sv'[f] = s[f]
<1>1. s.writeSeq = sv.writeSeq /\ s.writeKey = sv.writeKey /\ s.writeSeq \in Nat
  BY DEF Moves, ExchangeFields, ServerInv
<1>2. PICK q : q = Packets(s, msgs)
  OBVIOUS
<1>3. /\ IsList(q) /\ Len(q) = n /\ Len(msgs) = n
      /\ \A i \in 1..n : /\ q[i].type \in (1..100) \ {GEX_GROUP, GEX_REPLY}
                         /\ q[i].key = s.writeKey
                         /\ q[i].mac = <<s.writeKey, s.writeSeq + i - 1>>
  <2>1. Len(msgs) = n /\ Quiet(q, n, s.writeKey, s.writeSeq)
    BY <1>1, <1>2, SaysPackets
  <2> QED BY <2>1, Zenon DEF Quiet
<1>4. /\ toClient' = toClient \o q
      /\ DOMAIN sv' = ServerFields
      /\ sv'.writeSeq = s.writeSeq + Len(msgs)
      /\ \A f \in ServerFields \ {"writeSeq"} : sv'[f] = s[f]
  BY <1>2, SendIs DEF Moves
<1>5. /\ sv'.requested = sv.requested /\ sv'.group = sv.group /\ sv'.secret = sv.secret
      /\ sv'.hash = sv.hash /\ sv'.encr = sv.encr /\ sv'.kex = sv.kex /\ sv'.skip = sv.skip
      /\ sv'.writeKey = sv.writeKey
  BY <1>4 DEF Moves, ExchangeFields, ServerFields
<1>6. /\ sv'.readSeq = s.readSeq /\ sv'.noPackets = s.noPackets /\ sv'.sent = s.sent
      /\ sv'.at = s.at
  BY <1>4 DEF ServerFields
<1>7. /\ sv'.readSeq \in Nat /\ sv'.readSeq >= sv.readSeq
      /\ sv'.noPackets \in 0..(NoOpLimit - 1) /\ sv'.sent \in 0..DataBound
  BY <1>6 DEF Moves
<1>8. \/ sv'.at = "ended" /\ (sv.at \in BeforeReply => Len(q) <= 1)
      \/ sv'.at = sv.at /\ Len(q) = 0 /\ sv'.writeKey = sv.writeKey
      \/ sv.at \in AfterReply /\ sv'.at \in AfterReply /\ sv'.writeKey = sv.writeKey
  BY <1>3, <1>5, <1>6 DEF Moves
<1>9. Settles(q)
  BY <1>1, <1>3, <1>4, <1>5, <1>7, <1>8, Zenon DEF Settles
<1> QED BY <1>4, <1>9

(* Such a step behind the head H of the server's queue.                    *)
LEMMA ReadsAndSettles ==
  ASSUME TransportIndInv, toServer # <<>>, toServer' = Tail(toServer), UNCHANGED <<ini, lists, hello, cl>>,
         sv.at \notin {"start", "ended"}, NEW H, H = Head(toServer),
         NEW s, NEW msgs, NEW n, Moves(s, n), Says(msgs, n), Send(s, msgs),
         s.readSeq = sv.readSeq + 1, s.readKey = sv.readKey, sv.at = "newkeys" => s.at \in {"newkeys", "ended"},
         \/ s.at = "ended"
         \/ /\ H.type # NEWKEYS
            /\ s.at = "data" => sv.at = "data" \/ H.type = CHANNEL_OPEN
            /\ s.at \in Secure => sv.at \in Secure
            /\ s.at \in BeforeReply \cup {"newkeys"} => sv.at \in BeforeReply \cup {"newkeys"}
  PROVE  TransportIndInv'
<1>1. ServerInv /\ OutInv /\ ClientInv /\ InInv
  BY DEF TransportIndInv
<1>2. /\ \E q : Settles(q)
      /\ \A f \in ServerFields \ {"writeSeq"} : sv'[f] = s[f]
  BY <1>1, SendSettles
<1>3. PICK q : Settles(q)
  BY <1>2
<1>4. ServerInv' /\ OutInv' /\ ClientInv' /\ (Replied => Replied')
  BY <1>1, <1>3, SettledStep
<1>5. sv'.at = s.at /\ sv'.readSeq = sv.readSeq + 1 /\ sv'.readKey = s.readKey
  BY <1>2 DEF ServerFields
<1>6. sv'.readKey = sv.readKey /\ sv'.hash = sv.hash /\ sv'.encr = sv.encr
  BY <1>3, <1>5 DEF Moves, ExchangeFields, Settles
<1>7. sv.at = "newkeys" => sv'.at \in {"newkeys", "ended"} /\ sv'.hash = sv.hash /\ Replied'
  BY <1>1, <1>4, <1>5, <1>6 DEF ServerInv, AfterReply
<1>8. sv'.at = "ended" \/ Proceeds(H)
  BY <1>5, <1>6 DEF Proceeds
<1>9. InInv'
  <2>1. sv.readSeq \in Nat /\ sv.at \in SvPlaces
    BY <1>1 DEF ServerInv
  <2> QED BY <1>1, <1>5, <1>7, <1>8, <2>1, Takes
<1> QED BY <1>4, <1>9 DEF TransportIndInv

(* The server has read a packet that changes nothing of the exchange.      *)
AfterRead(s) ==
  /\ DOMAIN s = ServerFields /\ \A f \in ExchangeFields : s[f] = sv[f]
  /\ s.readSeq = sv.readSeq + 1 /\ s.noPackets \in 0..(NoOpLimit - 1) /\ s.sent = sv.sent
  /\ s.readKey = sv.readKey

(* Read resets the count of no-ops.                                        *)
LEMMA ReadIs ==
  ASSUME ServerInv
  PROVE  AfterRead(Read(sv)) /\ Read(sv).at = sv.at
<1>1. PICK s : s = Read(sv)
  OBVIOUS
<1>2. s = [sv EXCEPT !.readSeq = sv.readSeq + 1, !.noPackets = 0]
  BY <1>1 DEF Read
<1>3. DOMAIN sv = ServerFields
  BY DEF ServerInv
<1>4. DOMAIN s = ServerFields
  BY <1>2, <1>3
<1>5. s.readSeq = sv.readSeq + 1 /\ s.noPackets = 0
  BY <1>2, <1>3 DEF ServerFields
<1>6. s.readKey = sv.readKey /\ s.at = sv.at /\ s.sent = sv.sent
  BY <1>2, <1>3 DEF ServerFields
<1>7. \A f \in ExchangeFields : s[f] = sv[f]
  BY <1>2, <1>3 DEF ServerFields, ExchangeFields
<1>8. 0 \in 0..(NoOpLimit - 1)
  BY DEF NoOpLimit
<1> QED BY <1>1, <1>3, <1>4, <1>5, <1>6, <1>7, <1>8 DEF AfterRead

(* The server then waits for the next packet.                              *)
LEMMA GoesTo ==
  ASSUME NEW s, AfterRead(s), NEW at, NEW t, t = [s EXCEPT !.at = at]
  PROVE  AfterRead(t) /\ t.at = at
<1>1. DOMAIN s = ServerFields
  BY DEF AfterRead
<1>2. DOMAIN t = ServerFields /\ t.at = at
  BY <1>1 DEF ServerFields
<1>3. \A f \in ExchangeFields \cup {"readSeq", "noPackets", "sent", "readKey"} : t[f] = s[f]
  BY <1>1 DEF ServerFields, ExchangeFields
<1> QED BY <1>2, <1>3 DEF AfterRead

(* Or it ends.                                                             *)
LEMMA EndsAs ==
  ASSUME NEW s, AfterRead(s), NEW why, NEW t, t = [s EXCEPT !.at = "ended", !.why = why]
  PROVE  AfterRead(t) /\ t.at = "ended"
<1>1. DOMAIN s = ServerFields
  BY DEF AfterRead
<1>2. DOMAIN t = ServerFields /\ t.at = "ended"
  BY <1>1 DEF ServerFields
<1>3. \A f \in ExchangeFields \cup {"readSeq", "noPackets", "sent", "readKey"} : t[f] = s[f]
  BY <1>1 DEF ServerFields, ExchangeFields
<1> QED BY <1>2, <1>3 DEF AfterRead

(* What was read and where the server goes from it.                        *)
LEMMA ReadMoves ==
  ASSUME ServerInv, NEW s, AfterRead(s), NEW n,
         \/ s.at = "ended" /\ (sv.at \in BeforeReply => n <= 1)
         \/ s.at = sv.at /\ n = 0
         \/ sv.at \in AfterReply /\ s.at \in AfterReply
  PROVE  Moves(s, n)
<1>1. sv.readSeq \in Nat /\ sv.sent \in 0..DataBound
  BY DEF ServerInv
<1>2. s.readSeq \in Nat /\ s.readSeq >= sv.readSeq
  BY <1>1 DEF AfterRead
<1> QED BY <1>1, <1>2 DEF AfterRead, Moves

(* The end of a session keeps the invariant, whatever was read.            *)
LEMMA EndSettles ==
  ASSUME TransportIndInv, toServer # <<>>, toServer' = Tail(toServer), UNCHANGED <<ini, lists, hello, cl>>,
         sv.at \notin {"start", "ended"}, NEW s, AfterRead(s), NEW why, End(s, why)
  PROVE  TransportIndInv'
<1>1. PICK t : t = [s EXCEPT !.at = "ended", !.why = why]
  OBVIOUS
<1>2. PICK msgs : msgs = <<<<DISCONNECT, Short>>>>
  OBVIOUS
<1>3. Send(t, msgs)
  BY <1>1, <1>2 DEF End
<1>4. AfterRead(t) /\ t.at = "ended"
  BY <1>1, EndsAs
<1>5. DISCONNECT \in (1..100) \ {GEX_GROUP, GEX_REPLY}
  BY DEF DISCONNECT, GEX_GROUP, GEX_REPLY
<1>6. Says(msgs, 1)
  BY <1>2, <1>5 DEF Says
<1>7. Moves(t, 1)
  BY <1>4, ReadMoves DEF TransportIndInv
<1>8. t.readSeq = sv.readSeq + 1 /\ t.readKey = sv.readKey
  BY <1>4 DEF AfterRead
<1>9. PICK H : H = Head(toServer)
  OBVIOUS
<1> QED BY <1>3, <1>4, <1>6, <1>7, <1>8, <1>9, ReadsAndSettles

(* What the server receives in its handshake.                              *)
LEMMA ReceivesIs ==
  ASSUME TransportIndInv, NEW at, ServerReceives(at)
  PROVE  /\ sv.at = at /\ toServer # <<>> /\ toServer' = Tail(toServer)
         /\ UNCHANGED <<ini, lists, hello, cl>>
         /\ Head(toServer).key = sv.readKey
         /\ Head(toServer).type # DISCONNECT
         /\ sv.at \in {"skip", "init"} => Head(toServer).body = Long
         /\ \/ Head(toServer).type = Expected
            \/ Expected = GEX_REQUEST_OLD /\ Head(toServer).type = GEX_REQUEST_NEW
         /\ InPacket(Head(toServer), sv.readSeq)
<1>1. PICK H : H = Head(toServer)
  OBVIOUS
<1>2. /\ sv.at = at /\ toServer # <<>> /\ readHSPacketSSH2(H) = Ok
      /\ toServer' = Tail(toServer) /\ UNCHANGED <<ini, lists, hello, cl>>
  BY <1>1 DEF ServerReceives
<1>3. sv.noPackets \in Nat
  BY DEF TransportIndInv, ServerInv, NoOpLimit
<1>4. /\ H.key = sv.readKey
      /\ H.type # DISCONNECT
      /\ sv.at \in {"skip", "init"} => H.body = Long
      /\ H.type = Expected \/ (Expected = GEX_REQUEST_OLD /\ H.type = GEX_REQUEST_NEW)
  BY <1>2, <1>3, PacketAccepted
<1>5. InPacket(H, sv.readSeq)
  <2>1. IsList(toServer) /\ \A i \in DOMAIN toServer : InPacket(toServer[i], sv.readSeq + i - 1)
    BY DEF TransportIndInv, InInv
  <2>2. H = toServer[1] /\ 1 \in DOMAIN toServer
    BY <1>1, <1>2, <2>1, ListTail, ListShape
  <2>3. sv.readSeq + 1 - 1 = sv.readSeq
    BY DEF TransportIndInv, ServerInv
  <2>4. PICK n : n = sv.readSeq + 1 - 1
    OBVIOUS
  <2>5. InPacket(H, n)
    BY <2>1, <2>2, <2>4
  <2> QED BY <2>3, <2>4, <2>5
<1> QED BY <1>1, <1>2, <1>4, <1>5, Zenon

(* A step behind the exchange: from one place to the next with messages.   *)
LEMMA Onward ==
  ASSUME TransportIndInv, NEW from, ServerReceives(from), from \in Secure, NEW at, NEW s,
         s = [Read(sv) EXCEPT !.at = at], NEW msgs, NEW n, Says(msgs, n), Send(s, msgs),
         at \in Secure, at = "data" => Expected = CHANNEL_OPEN, Expected \notin {NEWKEYS, GEX_REQUEST_OLD}
  PROVE  TransportIndInv'
<1>1. /\ sv.at = from /\ toServer # <<>> /\ toServer' = Tail(toServer)
      /\ UNCHANGED <<ini, lists, hello, cl>> /\ Head(toServer).type = Expected
  BY ReceivesIs
<1>2. ServerInv
  BY DEF TransportIndInv
<1>3. sv.at \in AfterReply /\ at \in AfterReply /\ sv.at \notin {"start", "ended", "newkeys"}
      /\ at \notin BeforeReply \cup {"newkeys", "ended"}
  BY <1>1 DEF Secure, AfterReply, BeforeReply
<1>5. AfterRead(s) /\ s.at = at
  BY <1>2, ReadIs, GoesTo
<1>6. Moves(s, n)
  BY <1>2, <1>3, <1>5, ReadMoves
<1>7. s.readSeq = sv.readSeq + 1 /\ s.readKey = sv.readKey
  BY <1>5 DEF AfterRead
<1>8. PICK H : H = Head(toServer)
  OBVIOUS
<1>9. H.type # NEWKEYS /\ (s.at = "data" => H.type = CHANNEL_OPEN)
  BY <1>1, <1>5, <1>8
<1> QED BY <1>1, <1>3, <1>5, <1>6, <1>7, <1>8, <1>9, ReadsAndSettles

(* The message numbers of the exchange are all different.                  *)
LEMMA Messages ==
  /\ {DISCONNECT, IGNORE, SERVICE_ACCEPT, USERAUTH_SUCCESS, USERAUTH_FAILURE,
      CHANNEL_OPEN_CONFIRMATION, CHANNEL_DATA, KEXINIT, NEWKEYS}
       \subseteq (1..100) \ {GEX_GROUP, GEX_REPLY}
  /\ NEWKEYS \notin {DISCONNECT, IGNORE, SERVICE_REQUEST, USERAUTH_REQUEST, CHANNEL_OPEN, KEXINIT,
                     KEXDH_INIT, GEX_INIT, GEX_REQUEST_OLD, GEX_REQUEST_NEW, CHANNEL_DATA}
  /\ GEX_REQUEST_OLD \notin {SERVICE_REQUEST, USERAUTH_REQUEST, CHANNEL_OPEN, NEWKEYS}
BY DEF DISCONNECT, IGNORE, SERVICE_REQUEST, SERVICE_ACCEPT, KEXINIT, NEWKEYS, KEXDH_INIT,
       KEXDH_REPLY, GEX_REQUEST_OLD, GEX_GROUP, GEX_INIT, GEX_REPLY, GEX_REQUEST_NEW,
       USERAUTH_REQUEST, USERAUTH_FAILURE, USERAUTH_SUCCESS, CHANNEL_OPEN,
       CHANNEL_OPEN_CONFIRMATION, CHANNEL_DATA

(* The service is accepted.                                                *)
LEMMA ServerServiceKeeps ==
  ASSUME TransportIndInv, ServerService
  PROVE  TransportIndInv'
<1>1. PICK s, msgs : s = [Read(sv) EXCEPT !.at = "auth"] /\ msgs = <<<<SERVICE_ACCEPT, Short>>>>
  OBVIOUS
<1>2. ServerReceives("service") /\ Send(s, msgs)
  BY <1>1 DEF ServerService
<1>3. Says(msgs, 1)
  BY <1>1, Messages DEF Says
<1>4. Expected = SERVICE_REQUEST
  BY <1>2 DEF ServerReceives, Expected
<1>5. "service" \in Secure /\ "auth" \in Secure
  BY DEF Secure
<1> QED BY <1>1, <1>2, <1>3, <1>4, <1>5, Messages, Onward

(* The user is let in.                                                     *)
LEMMA ServerAuthenticatesKeeps ==
  ASSUME TransportIndInv, ServerAuthenticates
  PROVE  TransportIndInv'
<1>1. PICK s, msgs : s = [Read(sv) EXCEPT !.at = "open"] /\ msgs = <<<<USERAUTH_SUCCESS, Short>>>>
  OBVIOUS
<1>2. ServerReceives("auth") /\ Send(s, msgs)
  BY <1>1 DEF ServerAuthenticates
<1>3. Says(msgs, 1)
  BY <1>1, Messages DEF Says
<1>4. Expected = USERAUTH_REQUEST
  BY <1>2 DEF ServerReceives, Expected
<1>5. "auth" \in Secure /\ "open" \in Secure
  BY DEF Secure
<1> QED BY <1>1, <1>2, <1>3, <1>4, <1>5, Messages, Onward

(* The first channel is opened.                                            *)
LEMMA ServerOpensKeeps ==
  ASSUME TransportIndInv, ServerOpens
  PROVE  TransportIndInv'
<1>1. PICK s, msgs : /\ s = [Read(sv) EXCEPT !.at = "data"]
                     /\ msgs = <<<<CHANNEL_OPEN_CONFIRMATION, Short>>>>
  OBVIOUS
<1>2. ServerReceives("open") /\ Send(s, msgs)
  BY <1>1 DEF ServerOpens
<1>3. Says(msgs, 1)
  BY <1>1, Messages DEF Says
<1>4. Expected = CHANNEL_OPEN
  BY <1>2 DEF ServerReceives, Expected
<1>5. "open" \in Secure /\ "data" \in Secure
  BY DEF Secure
<1> QED BY <1>1, <1>2, <1>3, <1>4, <1>5, Messages, Onward

(* The user is turned away.                                                *)
LEMMA ServerRejectsKeeps ==
  ASSUME TransportIndInv, ServerRejects
  PROVE  TransportIndInv'
<1>1. PICK s, msgs : /\ s = [Read(sv) EXCEPT !.at = "ended", !.why = "WRONGKEY"]
                     /\ msgs = <<<<USERAUTH_FAILURE, Short>>, <<DISCONNECT, Short>>>>
  OBVIOUS
<1>2. ServerReceives("auth") /\ Send(s, msgs)
  BY <1>1 DEF ServerRejects
<1>3. Says(msgs, 2)
  BY <1>1, Messages DEF Says
<1>4. /\ sv.at = "auth" /\ toServer # <<>> /\ toServer' = Tail(toServer)
      /\ UNCHANGED <<ini, lists, hello, cl>>
  BY <1>2, ReceivesIs
<1>5. ServerInv
  BY DEF TransportIndInv
<1>6. AfterRead(s) /\ s.at = "ended"
  <2>1. AfterRead(Read(sv))
    BY <1>5, ReadIs
  <2> QED BY <1>1, <2>1, EndsAs
<1>7. Moves(s, 2)
  BY <1>4, <1>5, <1>6, ReadMoves DEF BeforeReply
<1>8. s.readSeq = sv.readSeq + 1 /\ s.readKey = sv.readKey
  BY <1>6 DEF AfterRead
<1>9. PICK H : H = Head(toServer)
  OBVIOUS
<1> QED BY <1>2, <1>3, <1>4, <1>6, <1>7, <1>8, <1>9, ReadsAndSettles

(* Nothing is sent.                                                        *)
LEMMA SendNothing ==
  ASSUME NEW s, DOMAIN s = ServerFields, s = [f \in ServerFields |-> s[f]], s.writeSeq \in Nat,
         sv' = s, toClient' = toClient, IsList(toClient)
  PROVE  Send(s, <<>>)
<1>1. toClient \o Packets(s, <<>>) = toClient
  <2>1. PICK q, r : q = Packets(s, <<>>) /\ r = toClient \o q
    OBVIOUS
  <2>2. IsList(q) /\ Len(q) = 0
    BY <2>1, NoPackets
  <2>3. PICK S : S = ToSet(toClient)
    OBVIOUS
  <2>4. toClient \in Seq(S)
    BY <2>3 DEF IsList
  <2>5. q \in Seq(ToSet(q))
    BY <2>2 DEF IsList
  <2>6. q = <<>>
    BY <2>2, <2>5, EmptySeq
  <2>7. r = toClient
    BY <2>1, <2>4, <2>6, ConcatEmptySeq
  <2> QED BY <2>1, <2>7
<1>2. s.writeSeq + Len(<<>>) = s.writeSeq
  BY NoPackets
<1>3. [s EXCEPT !.writeSeq = s.writeSeq + Len(<<>>)] = s
  BY <1>2
<1> QED BY <1>1, <1>3 DEF Send

(* A no-op is passed over.                                                 *)
LEMMA ServerIgnoresKeeps ==
  ASSUME TransportIndInv, ServerIgnores
  PROVE  TransportIndInv'
<1>1. PICK s, H : /\ s = [sv EXCEPT !.readSeq = @ + 1, !.noPackets = @ + 1]
                  /\ H = Head(toServer)
  OBVIOUS
<1>2. /\ InHandshake /\ toServer # <<>> /\ readHSPacketSSH2(H) = "again" /\ sv' = s
      /\ toServer' = Tail(toServer) /\ UNCHANGED <<ini, lists, hello, cl, toClient>>
  BY <1>1 DEF ServerIgnores
<1>3. ServerInv
  BY DEF TransportIndInv
<1>4. sv.at \notin {"start", "data", "ended"}
  BY <1>2 DEF InHandshake
<1>5. sv.noPackets + 1 < NoOpLimit /\ H.type = IGNORE
  <2>1. readPacketHeaderSSH2(sv, H, ValidHSPackets) = Ok
    BY <1>2 DEF readHSPacketSSH2, BadData
  <2>2. checkMacSSH(sv, H)
    BY <1>2, <2>1 DEF readHSPacketSSH2, BadData
  <2>3. ~(sv.noPackets + 1 >= NoOpLimit)
    BY <1>2, <2>1, <2>2 DEF readHSPacketSSH2
  <2>4. H.type = IGNORE
    <3>1. PacketStatus(H, Expected) # "again"
      BY DEF PacketStatus, getDisconnectInfo, BadData, Ok
    <3> QED BY <1>2, <2>1, <2>2, <2>3, <3>1 DEF readHSPacketSSH2
  <2> QED BY <1>3, <2>3, <2>4 DEF ServerInv, NoOpLimit
<1>6. AfterRead(s) /\ s.at = sv.at
  <2>1. DOMAIN sv = ServerFields /\ sv.noPackets \in 0..(NoOpLimit - 1)
    BY <1>3 DEF ServerInv
  <2>2. DOMAIN s = ServerFields
    BY <1>1, <2>1
  <2>3. s.readSeq = sv.readSeq + 1 /\ s.noPackets = sv.noPackets + 1
    BY <1>1, <2>1 DEF ServerFields
  <2>4. s.readKey = sv.readKey /\ s.at = sv.at /\ s.sent = sv.sent
    BY <1>1, <2>1 DEF ServerFields
  <2>5. \A f \in ExchangeFields : s[f] = sv[f]
    BY <1>1, <2>1 DEF ServerFields, ExchangeFields
  <2>6. s.noPackets \in 0..(NoOpLimit - 1)
    BY <1>5, <2>1, <2>3 DEF NoOpLimit
  <2> QED BY <2>1, <2>2, <2>3, <2>4, <2>5, <2>6 DEF AfterRead
<1>7. Send(s, <<>>)
  <2>1. s = [f \in ServerFields |-> s[f]] /\ DOMAIN s = ServerFields
    BY <1>1, <1>6 DEF AfterRead
  <2>2. s.writeSeq = sv.writeSeq
    BY <1>6 DEF AfterRead, ExchangeFields
  <2>3. s.writeSeq \in Nat /\ IsList(toClient)
    BY <1>3, <2>2 DEF ServerInv, TransportIndInv, OutInv
  <2> QED BY <1>2, <2>1, <2>3, SendNothing
<1>9. Moves(s, 0)
  BY <1>3, <1>6, ReadMoves
<1>10. Says(<<>>, 0)
  BY DEF Says
<1>11. s.readSeq = sv.readSeq + 1 /\ s.readKey = sv.readKey
  BY <1>6 DEF AfterRead
<1>12. H.type # NEWKEYS
  BY <1>5, Messages
<1> QED BY <1>1, <1>2, <1>4, <1>6, <1>7, <1>9, <1>10, <1>11, <1>12, ReadsAndSettles

(* Whatever else is wrong with a packet of the handshake ends the session. *)
LEMMA ServerFailsKeeps ==
  ASSUME TransportIndInv, ServerFails
  PROVE  TransportIndInv'
<1>1. PICK why : why = readHSPacketSSH2(Head(toServer))
  OBVIOUS
<1>2. /\ sv.at \notin {"start", "ended"} /\ toServer # <<>> /\ toServer' = Tail(toServer)
      /\ End(Read(sv), why) /\ UNCHANGED <<ini, lists, hello, cl>>
  BY <1>1 DEF ServerFails, InHandshake
<1>3. AfterRead(Read(sv))
  BY ReadIs DEF TransportIndInv
<1>4. PICK s : s = Read(sv)
  OBVIOUS
<1> QED BY <1>2, <1>3, <1>4, EndSettles

(* A packet of the open session: the keys of the session stay.             *)
LEMMA ServerDataKeeps ==
  ASSUME TransportIndInv, ServerData
  PROVE  TransportIndInv'
<1>1. PICK s, H : s = [sv EXCEPT !.readSeq = @ + 1] /\ H = Head(toServer)
  OBVIOUS
<1>2. /\ sv.at = "data" /\ toServer # <<>> /\ toServer' = Tail(toServer)
      /\ UNCHANGED <<ini, lists, hello, cl>>
  BY DEF ServerData
<1>3. ServerInv
  BY DEF TransportIndInv
<1>4. AfterRead(s) /\ s.at = "data"
  <2>1. DOMAIN sv = ServerFields /\ sv.noPackets \in 0..(NoOpLimit - 1)
    BY <1>2, <1>3 DEF ServerInv
  <2>2. DOMAIN s = ServerFields
    BY <1>1, <2>1
  <2>3. s.readSeq = sv.readSeq + 1
    BY <1>1, <2>1 DEF ServerFields
  <2>4. s.readKey = sv.readKey /\ s.at = sv.at /\ s.sent = sv.sent /\ s.noPackets = sv.noPackets
    BY <1>1, <2>1 DEF ServerFields
  <2>5. \A f \in ExchangeFields : s[f] = sv[f]
    BY <1>1, <2>1 DEF ServerFields, ExchangeFields
  <2> QED BY <1>2, <2>1, <2>2, <2>3, <2>4, <2>5 DEF AfterRead
<1>5. H.type \in AfterOpen
  <2>1. IsList(toServer) /\ \A i \in DOMAIN toServer : toServer[i].type \in AfterOpen
    BY <1>2 DEF TransportIndInv, InInv
  <2>2. H = toServer[1] /\ 1 \in DOMAIN toServer
    BY <1>1, <1>2, <2>1, ListTail, ListShape
  <2> QED BY <2>1, <2>2
<1>6. ASSUME NEW t, AfterRead(t), NEW why, End(t, why)
      PROVE  TransportIndInv'
  BY <1>2, <1>6, EndSettles
<1>7. ASSUME Send(s, <<>>)
      PROVE  TransportIndInv'
  <2>1. Moves(s, 0)
    BY <1>2, <1>3, <1>4, ReadMoves
  <2>2. Says(<<>>, 0)
    BY DEF Says
  <2>3. s.readSeq = sv.readSeq + 1 /\ s.readKey = sv.readKey /\ s.at = "data" /\ s.at \notin BeforeReply \cup {"newkeys"}
    BY <1>4 DEF AfterRead, BeforeReply
  <2>4. H.type # NEWKEYS
    BY <1>5, Messages DEF AfterOpen
  <2>5. sv.at \in Secure
    BY <1>2 DEF Secure
  <2> QED BY <1>1, <1>2, <1>7, <2>1, <2>2, <2>3, <2>4, <2>5, ReadsAndSettles
<1>8. CASE readPacketHeaderSSH2(sv, H, ValidDataPackets) # Ok \/ ~checkMacSSH(sv, H)
  <2>1. End(s, BadData)
    BY <1>1, <1>8, Zenon DEF ServerData
  <2> QED BY <1>4, <1>6, <2>1
<1>9. CASE ~(readPacketHeaderSSH2(sv, H, ValidDataPackets) # Ok \/ ~checkMacSSH(sv, H))
  <2>1. IF H.type = DISCONNECT THEN End(s, getDisconnectInfo) ELSE Send(s, <<>>)
    BY <1>1, <1>9, Zenon DEF ServerData
  <2>2. CASE H.type = DISCONNECT
    <3>1. End(s, getDisconnectInfo)
      BY <2>1, <2>2
    <3> QED BY <1>4, <1>6, <3>1
  <2>3. CASE H.type # DISCONNECT
    <3>1. Send(s, <<>>)
      BY <2>1, <2>3
    <3> QED BY <1>7, <3>1
  <2> QED BY <2>2, <2>3
<1> QED BY <1>8, <1>9

(* What is to be read when the server sends without reading.               *)
LEMMA InStays ==
  ASSUME InInv, UNCHANGED <<hello, lists, cl, toServer>>, sv'.readSeq = sv.readSeq,
         sv'.readKey = sv.readKey, sv.at \notin {"newkeys", "ended"},
         \/ sv'.at = sv.at /\ sv'.hash = sv.hash /\ sv'.encr = sv.encr
         \/ sv.at = "start" /\ sv'.at = "hello"
  PROVE  InInv'
<1>1. \A i \in DOMAIN toServer : /\ InPacket(toServer[i], sv.readSeq + i - 1)
                                 /\ toServer[i].type # NEWKEYS
  BY DEF InInv, InPacket
<1>2. \A i \in DOMAIN toServer : InPacket(toServer[i], sv.readSeq + i - 1)'
  <2>1. TAKE i \in DOMAIN toServer
  <2>2. PICK p, n : p = toServer[i] /\ n = sv.readSeq + i - 1
    OBVIOUS
  <2>3. InPacket(p, n)'
    BY <1>1, <2>2, InKept
  <2> QED BY <2>2, <2>3
<1>3. KeysInOrder(toServer)'
  BY <1>1 DEF InInv, KeysInOrder
<1>4. sv.at = "start" /\ sv'.at = "hello" =>
        /\ sv.at \in BeforeReply /\ sv'.at \in BeforeReply
        /\ sv'.at \notin Secure \cup {"newkeys", "ended", "data"}
  BY DEF BeforeReply, Secure
<1>5. sv'.readKey = sv.readKey /\ (sv'.at \in Secure => InKey' = InKey /\ sv.at \in Secure)
  BY <1>4 DEF InKey
<1> HIDE DEF InKey
<1>6. NoNewKeys' <=> NoNewKeys
  BY DEF NoNewKeys
<1> QED BY <1>2, <1>3, <1>4, <1>5, <1>6 DEF InInv

(* Shell output of the open session.                                       *)
LEMMA ServerPushesKeeps ==
  ASSUME TransportIndInv, ServerPushes
  PROVE  TransportIndInv'
<1>1. PICK s, msgs : s = [sv EXCEPT !.sent = @ + 1] /\ msgs = <<<<CHANNEL_DATA, Short>>>>
  OBVIOUS
<1>2. /\ sv.at = "data" /\ sv.sent < DataBound /\ Send(s, msgs)
      /\ UNCHANGED <<ini, lists, hello, cl, toServer>>
  BY <1>1 DEF ServerPushes
<1>3. ServerInv /\ OutInv /\ ClientInv /\ InInv
  BY DEF TransportIndInv
<1>4. DOMAIN sv = ServerFields /\ sv.noPackets \in 0..(NoOpLimit - 1)
      /\ sv.readSeq \in Nat /\ sv.sent \in 0..DataBound
  BY <1>2, <1>3 DEF ServerInv
<1>5. DOMAIN s = ServerFields
  BY <1>1, <1>4
<1>6. /\ s.sent = sv.sent + 1 /\ s.readKey = sv.readKey /\ s.at = sv.at
      /\ s.noPackets = sv.noPackets /\ s.readSeq = sv.readSeq
  BY <1>1, <1>4 DEF ServerFields
<1>7. \A f \in ExchangeFields : s[f] = sv[f]
  BY <1>1, <1>4 DEF ServerFields, ExchangeFields
<1>8. Moves(s, 1)
  <2>1. sv.at \in AfterReply /\ sv.at \notin BeforeReply
    BY <1>2 DEF AfterReply, BeforeReply
  <2>2. s.sent \in 0..DataBound
    BY <1>2, <1>4, <1>6, TransportAssumption, PacketAssumption
  <2> QED BY <1>4, <1>5, <1>6, <1>7, <2>1, <2>2 DEF Moves
<1>9. Says(msgs, 1)
  BY <1>1, Messages DEF Says
<1>10. (\E q : Settles(q)) /\ \A f \in ServerFields \ {"writeSeq"} : sv'[f] = s[f]
  BY <1>2, <1>3, <1>8, <1>9, SendSettles
<1>11. PICK q : Settles(q)
  BY <1>10
<1>12. ServerInv' /\ OutInv' /\ ClientInv'
  BY <1>2, <1>3, <1>11, SettledStep
<1>13. /\ sv'.at = sv.at /\ sv'.readSeq = sv.readSeq /\ sv'.readKey = sv.readKey
       /\ sv'.hash = sv.hash /\ sv'.encr = sv.encr
  BY <1>6, <1>10, <1>11 DEF ServerFields, Settles
<1>14. InInv'
  BY <1>2, <1>3, <1>13, InStays
<1> QED BY <1>2, <1>3, <1>12, <1>14 DEF TransportIndInv

(* The keys of the client's direction change at its NEWKEYS, and all that  *)
(* is behind it in the queue was written with the key the server now has.  *)
LEMMA ServerNewKeysKeeps ==
  ASSUME TransportIndInv, ServerNewKeys
  PROVE  TransportIndInv'
<1>1. PICK r, s, key, H : /\ r = [Read(sv) EXCEPT !.at = "service"]
                          /\ s = [Read(sv) EXCEPT !.at = "service", !.readKey = key]
                          /\ key = initSecurityInfo(sv.encr, sv.hash).in
                          /\ H = Head(toServer)
  OBVIOUS
<1>2. ServerReceives("newkeys") /\ Send(s, <<>>)
  BY <1>1 DEF ServerNewKeys
<1>3. /\ sv.at = "newkeys" /\ toServer # <<>> /\ toServer' = Tail(toServer)
      /\ UNCHANGED <<ini, lists, hello, cl>> /\ H.key = sv.readKey
      /\ InPacket(H, sv.readSeq)
      /\ H.type = Expected \/ (Expected = GEX_REQUEST_OLD /\ H.type = GEX_REQUEST_NEW)
  BY <1>1, <1>2, ReceivesIs
<1>4. H.type = NEWKEYS
  BY <1>3, Messages DEF Expected
<1>5. ServerInv /\ OutInv /\ ClientInv /\ InInv
  BY DEF TransportIndInv
<1>6. sv.encr # None /\ Replied /\ Accepted /\ Choice
  BY <1>3, <1>5 DEF ServerInv, AfterReply
<1>7. key = InKey
  BY <1>1 DEF initSecurityInfo, loadCryptovariable, InKey
<1>8. cl.writeKey = InKey /\ cl.at \notin Early
  <2>1. sv.encr = Chosen.in
    BY <1>6 DEF Choice
  <2> QED BY <1>3, <1>4, <2>1 DEF InPacket, InKey
<1>9. AfterRead(r) /\ r.at = "service"
  BY <1>1, <1>5, <1>6, ReadIs, GoesTo
<1>10. s = [r EXCEPT !.readKey = key]
  <2>1. DOMAIN Read(sv) = ServerFields
    BY <1>5, ReadIs DEF AfterRead
  <2> QED BY <1>1, <2>1
<1>11. DOMAIN s = ServerFields /\ s.readKey = key
       /\ \A f \in ServerFields \ {"readKey"} : s[f] = r[f]
  BY <1>9, <1>10 DEF AfterRead, ServerFields
<1>12. Moves(s, 0) /\ s.at = "service" /\ s.readSeq = sv.readSeq + 1
  <2>1. Moves(r, 0)
    BY <1>3, <1>5, <1>9, ReadMoves DEF AfterReply
  <2>2. \A f \in ExchangeFields : s[f] = r[f]
    BY <1>11 DEF ServerFields, ExchangeFields
  <2>3. s.readSeq = r.readSeq /\ s.noPackets = r.noPackets /\ s.sent = r.sent
        /\ s.at = r.at
    BY <1>11 DEF ServerFields
  <2> QED BY <1>9, <1>11, <2>1, <2>2, <2>3 DEF Moves, AfterRead
<1>13. (\E q : Settles(q)) /\ \A f \in ServerFields \ {"writeSeq"} : sv'[f] = s[f]
  <2>1. Says(<<>>, 0)
    BY DEF Says
  <2> QED BY <1>2, <1>3, <1>5, <1>12, <2>1, SendSettles
<1>14. PICK w : Settles(w)
  BY <1>13
<1>15. ServerInv' /\ OutInv' /\ ClientInv'
  BY <1>3, <1>5, <1>14, SettledStep
<1>16. /\ sv'.at = "service" /\ sv'.readSeq = sv.readSeq + 1 /\ sv'.readKey = InKey
       /\ InKey' = InKey
  BY <1>7, <1>11, <1>12, <1>13, <1>14 DEF ServerFields, Settles, InKey
<1> HIDE DEF InKey
<1>17. InInv'
  <2>1. PICK q, t, m : q = toServer /\ t = toServer' /\ m = Len(q)
    OBVIOUS
  <2>2. IsList(q) /\ q # <<>> /\ t = Tail(q)
    BY <1>3, <1>5, <2>1 DEF InInv
  <2>3. /\ m \in Nat /\ m >= 1 /\ DOMAIN q = 1..m
        /\ IsList(t) /\ Len(t) = m - 1 /\ DOMAIN t = 1..(m - 1)
        /\ H = q[1]
    BY <1>1, <2>1, <2>2, ListShape, ListTail
  <2>4. \A i \in 1..(m - 1) : t[i] = q[i + 1] /\ i + 1 \in 1..m /\ ~(i + 1 <= 1) /\ i + 1 # 1
    BY <2>1, <2>2, <2>3, ListTail
  <2>5. KeysInOrder(q)
    BY <1>5, <2>1 DEF InInv
  <2>6. \A i \in 1..(m - 1) : t[i].type # NEWKEYS /\ t[i].key = InKey
    <3>1. 1 \in DOMAIN q
      BY <2>3
    <3>2. \A j \in DOMAIN q : /\ q[j].key = (IF j <= 1 THEN Plain ELSE cl.writeKey)
                              /\ q[j].type = NEWKEYS => 1 = j
      BY <1>4, <2>3, <2>5, <3>1 DEF KeysInOrder
    <3> QED BY <1>8, <2>3, <2>4, <3>2
  <2>7. \A i \in 1..(m - 1) : InPacket(t[i], sv.readSeq + i - 1)'
    <3>1. TAKE i \in 1..(m - 1)
    <3>2. PICK p, n : p = t[i] /\ n = sv.readSeq + 1 + i - 1
      OBVIOUS
    <3>3. sv.readSeq \in Nat
      BY <1>5 DEF ServerInv
    <3>4. n = sv.readSeq + (i + 1) - 1 /\ p = q[i + 1] /\ i + 1 \in 1..m
      <4>1. i \in Nat /\ p = q[i + 1] /\ i + 1 \in 1..m
        BY <2>3, <2>4, <3>2
      <4>2. n = sv.readSeq + (i + 1) - 1
        BY <3>2, <3>3, <4>1
      <4> QED BY <4>1, <4>2
    <3>5. InPacket(p, n)
      BY <1>5, <2>1, <2>3, <3>4 DEF InInv
    <3>6. InPacket(p, n)'
      BY <1>3, <2>6, <3>2, <3>5, InKept
    <3>7. sv'.readSeq + i - 1 = n
      BY <1>16, <3>2, <3>3
    <3> QED BY <3>2, <3>6, <3>7
  <2>8. KeysInOrder(t)'
    <3>1. SUFFICES ASSUME NEW i \in 1..(m - 1), NEW j \in 1..(m - 1), t[i].type = CHANNEL_OPEN, i < j
                   PROVE  t[j].type \in AfterOpen
      BY <2>3, <2>6 DEF KeysInOrder
    <3>2. i + 1 \in DOMAIN q /\ j + 1 \in DOMAIN q /\ i + 1 < j + 1
      BY <2>3, <3>1
    <3> QED BY <2>4, <2>5, <3>1, <3>2 DEF KeysInOrder
  <2>9. sv'.readSeq + Len(t) = cl'.writeSeq
    BY <1>3, <1>5, <1>16, <2>1, <2>3 DEF InInv, ServerInv
  <2>10. sv'.at \in Secure /\ sv'.at \notin BeforeReply \cup {"newkeys", "data", "ended"}
    BY <1>16 DEF Secure, BeforeReply
  <2> QED BY <1>3, <1>8, <1>16, <2>1, <2>3, <2>6, <2>7, <2>8, <2>9, <2>10 DEF InInv
<1> QED BY <1>3, <1>15, <1>17 DEF TransportIndInv

-----------------------------------------------------------------------------
(* The server's steps of the exchange.                                     *)

(* What is still to be read behind a packet of the exchange.               *)
LEMMA ExchangeTakes ==
  ASSUME TransportIndInv, toServer # <<>>, toServer' = Tail(toServer), UNCHANGED <<hello, lists, cl>>,
         sv.at \in BeforeReply, sv'.at \in BeforeReply \cup {"newkeys", "ended"},
         sv'.readSeq = sv.readSeq + 1, sv'.readKey = sv.readKey
  PROVE  InInv'
<1>1. PICK H : H = Head(toServer)
  OBVIOUS
<1>2. InInv /\ sv.readSeq \in Nat /\ sv.at \in SvPlaces /\ sv.at \notin {"newkeys", "ended"}
  BY DEF TransportIndInv, ServerInv, BeforeReply
<1>3. H.type # NEWKEYS
  <2>1. IsList(toServer) /\ \A i \in DOMAIN toServer : InPacket(toServer[i], sv.readSeq + i - 1)
    BY <1>2 DEF InInv
  <2>2. H = toServer[1] /\ 1 \in DOMAIN toServer
    BY <1>1, <2>1, ListTail, ListShape
  <2>3. PICK n : n = sv.readSeq + 1 - 1
    OBVIOUS
  <2>4. InPacket(H, n)
    BY <2>1, <2>2, <2>3
  <2> QED BY <1>2, <2>4 DEF InPacket
<1>4. sv'.at = "ended" \/ Proceeds(H)
  BY <1>3 DEF Proceeds, BeforeReply, Secure
<1> QED BY <1>1, <1>2, <1>4, Takes

(* A list and one more element.                                            *)
LEMMA OneMore ==
  ASSUME NEW S, NEW q \in Seq(S), NEW e \in S, NEW r, r = Append(q, e)
  PROVE  /\ r \in Seq(S) /\ Len(r) = Len(q) + 1
         /\ \A i \in 1..Len(q) : r[i] = q[i]
         /\ r[Len(q) + 1] = e
<1>1. Append(q, e) \in Seq(S)
  BY AppendProperties
<1>2. Len(Append(q, e)) = Len(q) + 1
  BY AppendProperties
<1>3. \A i \in 1..Len(q) : Append(q, e)[i] = q[i]
  BY AppendProperties
<1>4. Append(q, e)[Len(q) + 1] = e
  BY AppendProperties
<1> QED BY <1>1, <1>2, <1>3, <1>4, Zenon

(* A list of four in its stages.                                           *)
LEMMA FourGrow ==
  ASSUME NEW a, NEW b, NEW c, NEW d
  PROVE  /\ SubSeq(<<a, b, c, d>>, 1, 2) = <<a, b>>
         /\ Append(SubSeq(<<a, b, c, d>>, 1, 2), c) = SubSeq(<<a, b, c, d>>, 1, 3)
         /\ Append(SubSeq(<<a, b, c, d>>, 1, 3), d) = <<a, b, c, d>>
<1>1. PICK S : a \in S /\ b \in S /\ c \in S /\ d \in S
  <2>1. a \in {a, b, c, d} /\ b \in {a, b, c, d} /\ c \in {a, b, c, d} /\ d \in {a, b, c, d}
    OBVIOUS
  <2> QED BY <2>1
<1>2. PICK p, q, two, three : /\ p = <<a, b, c, d>> /\ q = <<a, b>>
                              /\ two = SubSeq(p, 1, 2) /\ three = SubSeq(p, 1, 3)
  OBVIOUS
<1>3. /\ p \in Seq(S) /\ Len(p) = 4 /\ p[1] = a /\ p[2] = b /\ p[3] = c /\ p[4] = d
      /\ q \in Seq(S) /\ Len(q) = 2 /\ q[1] = a /\ q[2] = b
  BY <1>1, <1>2
<1>4. two \in Seq(S) /\ Len(two) = 2 /\ \A i \in 1..2 : two[i] = p[i]
  BY <1>2, <1>3, SubSeqProperties
<1>5. three \in Seq(S) /\ Len(three) = 3 /\ \A i \in 1..3 : three[i] = p[i]
  BY <1>2, <1>3, SubSeqProperties
<1>6. two = q
  BY <1>3, <1>4, SeqEqual
<1>7. PICK r : r = Append(two, c)
  OBVIOUS
<1>8. r \in Seq(S) /\ Len(r) = 3 /\ \A i \in 1..3 : r[i] = IF i = 3 THEN c ELSE two[i]
  <2>1. /\ r \in Seq(S) /\ Len(r) = Len(two) + 1 /\ r[Len(two) + 1] = c
        /\ \A i \in 1..Len(two) : r[i] = two[i]
    <3>1. two \in Seq(S) /\ c \in S
      BY <1>1, <1>4, <1>7
    <3>2. r \in Seq(S)
      BY <3>1, <1>7, OneMore
    <3>3. Len(r) = Len(two) + 1
      BY <3>1, <1>7, OneMore
    <3>4. r[Len(two) + 1] = c
      BY <3>1, <1>7, OneMore
    <3>5. \A i \in 1..Len(two) : r[i] = two[i]
      BY <3>1, <1>7, OneMore
    <3> QED BY <3>2, <3>3, <3>4, <3>5
  <2> QED BY <1>4, <2>1
<1>9. r = three
  <2>1. \A i \in 1..3 : r[i] = three[i]
    BY <1>3, <1>4, <1>5, <1>8
  <2> QED BY <1>5, <1>8, <2>1, SeqEqual
<1>10. PICK t : t = Append(three, d)
  OBVIOUS
<1>11. t \in Seq(S) /\ Len(t) = 4 /\ \A i \in 1..4 : t[i] = IF i = 4 THEN d ELSE three[i]
  <2>1. /\ t \in Seq(S) /\ Len(t) = Len(three) + 1 /\ t[Len(three) + 1] = d
        /\ \A i \in 1..Len(three) : t[i] = three[i]
    <3>1. three \in Seq(S) /\ d \in S
      BY <1>1, <1>5, <1>10
    <3>2. t \in Seq(S)
      BY <3>1, <1>10, OneMore
    <3>3. Len(t) = Len(three) + 1
      BY <3>1, <1>10, OneMore
    <3>4. t[Len(three) + 1] = d
      BY <3>1, <1>10, OneMore
    <3>5. \A i \in 1..Len(three) : t[i] = three[i]
      BY <3>1, <1>10, OneMore
    <3> QED BY <3>2, <3>3, <3>4, <3>5
  <2> QED BY <1>5, <2>1
<1>12. t = p
  <2>1. \A i \in 1..4 : t[i] = p[i]
    BY <1>3, <1>5, <1>11
  <2> QED BY <1>3, <1>11, <2>1, SeqEqual
<1> QED BY <1>2, <1>6, <1>7, <1>9, <1>10, <1>12

(* The exchange hash grows in the order of Prefix.                         *)
LEMMA PrefixGrows ==
  /\ SubSeq(Prefix, 1, 2) = <<<<"client id">>, <<"server id">>>>
  /\ Append(SubSeq(Prefix, 1, 2), <<"client hello", hello>>) = SubSeq(Prefix, 1, 3)
  /\ Append(SubSeq(Prefix, 1, 3), <<"server hello">>) = Prefix
<1>1. PICK a, b, c, d : /\ a = <<"client id">> /\ b = <<"server id">>
                        /\ c = <<"client hello", hello>> /\ d = <<"server hello">>
  OBVIOUS
<1>2. Prefix = <<a, b, c, d>>
  BY <1>1 DEF Prefix
<1> HIDE DEF Prefix
<1> QED BY <1>1, <1>2, FourGrow, Zenon

(* The server's hello opens the exchange.                                  *)
LEMMA ServerBeginKeeps ==
  ASSUME TransportIndInv, ServerBegin
  PROVE  TransportIndInv'
<1>1. PICK hash, s, msgs, group :
        /\ hash = <<<<"client id">>, <<"server id">>>>
        /\ group = initDHcontextSSH(0)
        /\ s = [sv EXCEPT !.at = "hello", !.group = group, !.hash = hash]
        /\ msgs = <<<<KEXINIT, Offer>>>>
  OBVIOUS
<1>2. sv.at = "start" /\ Send(s, msgs) /\ UNCHANGED <<ini, lists, hello, cl, toServer>>
  BY <1>1 DEF ServerBegin
<1>3. ServerInv /\ OutInv /\ ClientInv /\ InInv
  BY DEF TransportIndInv
<1>4. /\ DOMAIN sv = ServerFields /\ sv.writeSeq = 0 /\ ~Accepted /\ sv.writeKey = Plain
      /\ sv.readSeq \in Nat /\ ~sv.requested
  BY <1>2, <1>3 DEF ServerInv, AfterReply
<1>5. DOMAIN s = ServerFields
  BY <1>1, <1>4
<1>6. s.at = "hello" /\ s.group = group /\ s.hash = hash
  BY <1>1, <1>4 DEF ServerFields
<1>7. \A f \in ServerFields \ {"at", "group", "hash"} : s[f] = sv[f]
  BY <1>1, <1>4 DEF ServerFields
<1>8. PICK q : q = Packets(s, msgs)
  OBVIOUS
<1>9. s.writeSeq = 0 /\ s.writeKey = Plain
  BY <1>4, <1>7 DEF ServerFields
<1>10. IsList(q) /\ Len(q) = 1 /\ Len(msgs) = 1 /\ IsPacket(q[1], KEXINIT, Offer, Plain, 0)
  <2>1. PICK offer : offer = Offer
    OBVIOUS
  <2>2. s.writeSeq \in Nat
    BY <1>9
  <2>3. /\ IsList(q) /\ Len(q) = 1 /\ Len(msgs) = 1
        /\ IsPacket(q[1], KEXINIT, offer, s.writeKey, s.writeSeq)
    BY <1>1, <1>8, <2>1, <2>2, OnePacket
  <2> QED BY <1>9, <2>1, <2>3
<1>11. /\ toClient' = toClient \o q /\ DOMAIN sv' = ServerFields /\ sv'.writeSeq = 1
       /\ \A f \in ServerFields \ {"writeSeq"} : sv'[f] = s[f]
  BY <1>2, <1>5, <1>8, <1>9, <1>10, SendIs
<1>12. sv'.at = "hello" /\ sv'.group = group /\ sv'.hash = hash
  BY <1>6, <1>11 DEF ServerFields
<1>13. /\ sv'.readKey = sv.readKey /\ sv'.readSeq = sv.readSeq /\ sv'.writeKey = sv.writeKey
       /\ sv'.noPackets = sv.noPackets /\ sv'.sent = sv.sent
       /\ sv'.requested = sv.requested /\ sv'.skip = sv.skip /\ sv'.kex = sv.kex
       /\ sv'.encr = sv.encr /\ sv'.secret = sv.secret
  BY <1>7, <1>11 DEF ServerFields
<1>14. Chosen' = Chosen /\ Switch = 2 /\ ~Replied /\ ~Replied'
  <2>1. Switch = 2 /\ Switch' = 2
    BY <1>4, <1>13 DEF Switch
  <2> QED BY <1>2, <1>4, <1>11, <2>1, ChosenKept DEF Replied
<1>15. ServerInv'
  <2>1. sv'.group = DHDefault
    BY <1>1, <1>12 DEF initDHcontextSSH
  <2>2. sv'.hash = SubSeq(Prefix', 1, 2)
    <3>1. Prefix' = Prefix
      BY <1>2 DEF Prefix
    <3> QED BY <1>1, <1>12, <3>1, PrefixGrows
  <2>3. ~Accepted' /\ sv.secret = <<>> /\ sv'.encr = None /\ ~sv'.skip
    <3>1. sv.encr = None /\ ~sv.skip /\ sv.secret = <<>>
      BY <1>3, <1>4 DEF ServerInv
    <3> QED BY <1>4, <1>13, <3>1 DEF Accepted
  <2>4. /\ sv'.noPackets \in 0..(NoOpLimit - 1) /\ sv'.sent \in 0..DataBound
        /\ sv'.readSeq \in Nat /\ sv'.writeSeq \in Nat /\ sv'.writeSeq = 1
        /\ sv'.requested \in BOOLEAN /\ sv'.skip \in BOOLEAN
        /\ ~sv'.requested /\ sv'.secret = <<>>
    BY <1>2, <1>3, <1>4, <1>11, <1>13, <2>3 DEF ServerInv
  <2>5. sv'.at \in SvPlaces /\ sv'.at \notin AfterReply
    BY <1>12 DEF SvPlaces, AfterReply
  <2>6. Switch' = 2 /\ sv'.writeKey = Plain
    BY <1>4, <1>13, <2>4 DEF Switch
  <2> HIDE DEF Replied, Prefix, Accepted, Switch, OutKey, FinalHash, Sizes
  <2> QED BY <1>11, <1>12, <1>14, <2>1, <2>2, <2>3, <2>4, <2>5, <2>6 DEF ServerInv
<1>16. OutInv'
  <2>1. \A p : \A n \in Nat : n < sv.writeSeq /\ OutPacket(p, n) => OutPacket(p, n)'
    BY <1>4
  <2>2. \A n \in Nat : \A i \in 1..Len(q) : n = sv.writeSeq + i - 1 => OutPacket(q[i], n)'
    <3>1. PICK p : p = q[1]
      OBVIOUS
    <3>2. OutPacket(p, 0)'
      BY <1>10, <3>1, Messages DEF IsPacket, OutPacket, Switch
    <3>3. \A i \in 1..Len(q) : i = 1 /\ sv.writeSeq + i - 1 = 0
      BY <1>4, <1>10
    <3> QED BY <3>1, <3>2, <3>3
  <2>3. sv.writeSeq \in Nat /\ cl.readSeq \in Nat /\ cl' = cl /\ sv'.writeSeq = sv.writeSeq + Len(q)
    <3>1. cl.readSeq \in Nat
      BY <1>3 DEF ClientInv
    <3> QED BY <1>2, <1>4, <1>10, <1>11, <3>1
  <2> QED BY <1>3, <1>10, <1>11, <2>1, <2>2, <2>3, Sends
<1>17. ClientInv'
  <2>1. ~(cl.at = "reply" /\ cl.kex # DH)
    BY <1>3, <1>4 DEF ClientInv
  <2> QED BY <1>2, <1>3, <1>14, <2>1, ClientKept
<1>18. InInv'
  BY <1>2, <1>3, <1>12, <1>13, InStays
<1> QED BY <1>2, <1>3, <1>15, <1>16, <1>17, <1>18 DEF TransportIndInv

(* s is x with what the hello settles.                                     *)
Settled(s, x, kex, encr, requested, skip, at, hash) ==
  /\ DOMAIN s = ServerFields
  /\ s.kex = kex /\ s.encr = encr /\ s.requested = requested /\ s.skip = skip
  /\ s.at = at /\ s.hash = hash
  /\ \A f \in ServerFields \ {"kex", "encr", "requested", "skip", "at", "hash"} : s[f] = x[f]

(* The fields of the server that has accepted a hello.                     *)
LEMMA HelloFields ==
  ASSUME NEW x, DOMAIN x = ServerFields, NEW kex, NEW encr, NEW requested, NEW skip,
         NEW at, NEW hash, NEW y, NEW s,
         y = [x EXCEPT !.kex = kex, !.encr = encr, !.requested = requested, !.skip = skip],
         s = [y EXCEPT !.at = at, !.hash = hash]
  PROVE  Settled(s, x, kex, encr, requested, skip, at, hash)
<1>1. DOMAIN y = ServerFields
  OBVIOUS
<1>2. y.kex = kex /\ y.encr = encr /\ y.requested = requested /\ y.skip = skip
      /\ \A f \in ServerFields \ {"kex", "encr", "requested", "skip"} : y[f] = x[f]
  BY DEF ServerFields
<1>3. DOMAIN s = ServerFields
  BY <1>1
<1>4. s.at = at /\ s.hash = hash /\ \A f \in ServerFields \ {"at", "hash"} : s[f] = y[f]
  BY <1>1 DEF ServerFields
<1>5. s.kex = y.kex /\ s.encr = y.encr /\ s.requested = y.requested /\ s.skip = y.skip
  BY <1>4 DEF ServerFields
<1> QED BY <1>2, <1>3, <1>4, <1>5 DEF Settled

(* The server accepts the hello: what it has taken is the client's choice. *)
LEMMA HelloAccepted ==
  ASSUME TransportIndInv, sv.at = "hello", toServer # <<>>, toServer' = Tail(toServer),
         UNCHANGED <<ini, lists, hello, cl>>, NEW r, HelloTaken(r), r.st \in {Ok, OkSpecial},
         NEW x, x = Read(sv), NEW s, NEW skip \in BOOLEAN, skip <=> r.st = OkSpecial,
         NEW at, at = (IF skip THEN "skip" ELSE IF r.requested THEN "request" ELSE "init"),
         NEW hash, hash = (IF skip THEN SubSeq(Prefix, 1, 3) ELSE Prefix),
         Settled(s, x, r.kex, r.encr, r.requested, skip, at, hash), Send(s, <<>>)
  PROVE  TransportIndInv'
<1>1. /\ DOMAIN s = ServerFields
      /\ s.kex = r.kex /\ s.encr = r.encr /\ s.requested = r.requested /\ s.skip = skip
      /\ s.at = at /\ s.hash = hash
      /\ \A f \in ServerFields \ {"kex", "encr", "requested", "skip", "at", "hash"} : s[f] = x[f]
  BY Zenon DEF Settled
<1>2. ServerInv /\ OutInv /\ ClientInv /\ InInv
  BY DEF TransportIndInv
<1>3. /\ DOMAIN sv = ServerFields /\ sv.writeSeq = 1 /\ ~Accepted /\ sv.writeKey = Plain
      /\ sv.readSeq \in Nat /\ ~sv.requested
      /\ sv.secret = <<>> /\ sv.group = DHDefault /\ sv.sent \in 0..DataBound
  BY <1>2 DEF ServerInv, AfterReply
<1>4. /\ AfterRead(x)
  BY <1>2, ReadIs
<1>5. /\ s.readSeq = sv.readSeq + 1 /\ s.noPackets \in 0..(NoOpLimit - 1) /\ s.sent = sv.sent
      /\ s.readKey = sv.readKey /\ s.group = sv.group
      /\ s.secret = sv.secret /\ s.writeKey = sv.writeKey /\ s.writeSeq = sv.writeSeq
  BY <1>1, <1>4 DEF AfterRead, ExchangeFields, ServerFields
<1>6. PICK q : q = Packets(s, <<>>)
  OBVIOUS
<1>7. IsList(q) /\ Len(q) = 0 /\ Len(<<>>) = 0
  BY <1>6, NoPackets
<1>8. /\ toClient' = toClient \o q /\ DOMAIN sv' = ServerFields /\ sv'.writeSeq = 1
      /\ \A f \in ServerFields \ {"writeSeq"} : sv'[f] = s[f]
  BY <1>1, <1>3, <1>5, <1>6, <1>7, SendIs
<1>9. /\ sv'.readSeq = sv.readSeq + 1 /\ sv'.noPackets \in 0..(NoOpLimit - 1)
      /\ sv'.sent = sv.sent /\ sv'.readKey = sv.readKey
      /\ sv'.group = sv.group /\ sv'.secret = sv.secret /\ sv'.writeKey = sv.writeKey
  BY <1>5, <1>8 DEF ServerFields
<1>10. /\ sv'.kex = r.kex /\ sv'.encr = r.encr /\ sv'.requested = r.requested /\ sv'.skip = skip
       /\ sv'.at = at /\ sv'.hash = hash
  BY <1>1, <1>8 DEF ServerFields
<1>11. sv'.requested \in BOOLEAN /\ Switch \in {2, 3} /\ Switch' \in {2, 3}
       /\ (~sv'.requested => Switch' = 2)
  <2>1. r.requested \in BOOLEAN
    BY DEF HelloTaken
  <2> QED BY <1>10, <2>1 DEF Switch
<1>12. ~Replied /\ ~Replied' /\ Chosen' = Chosen
  BY <1>3, <1>8, <1>11, ChosenKept DEF Replied
<1>13. sv'.at \in {"skip", "request", "init"}
       /\ (sv'.at = "skip" <=> skip) /\ (sv'.at = "request" => sv'.requested)
       /\ (sv'.at = "init" => ~sv'.requested /\ ~skip)
  <2>1. CASE skip
    BY <1>10, <2>1
  <2>2. CASE ~skip
    <3>1. r.requested \in BOOLEAN
      BY DEF HelloTaken
    <3> QED BY <1>10, <2>2, <3>1
  <2> QED BY <2>1, <2>2
<1>14. ServerInv'
  <2>1. Accepted'
    BY <1>10 DEF Accepted, HelloTaken
  <2>2. Choice'
    <3>1. /\ Chosen'.kex \in {sv'.kex, DHEAlt} /\ sv'.kex # DHEAlt /\ sv'.encr \in {None, Chosen'.in}
          /\ (sv'.requested <=> sv'.kex = DHE)
      BY <1>10, <1>12 DEF HelloTaken
    <3>2. sv'.skip <=> r.st = OkSpecial
      BY <1>10
    <3>3. hello'.guess /\ sv'.requested /\ ~sv'.skip => hello'.kex[1] = DHE
      BY <1>10, <3>1, <3>2 DEF HelloTaken
    <3>4. hello'.guess /\ ~sv'.requested => sv'.skip
      BY <1>10, <3>1, <3>2 DEF HelloTaken
    <3>5. ini'.kex[1] = DHE => (sv'.skip <=> hello'.guess /\ ~Chosen'.right)
      BY <1>12, <3>2 DEF HelloTaken
    <3>6. sv'.requested = (sv'.kex = DHE)
      BY <1>11, <3>1
    <3> QED BY <3>1, <3>3, <3>4, <3>5, <3>6, Zenon DEF Choice
  <2>3. /\ sv'.at \in SvPlaces /\ sv'.at \notin AfterReply /\ sv'.at \notin {"start", "hello", "ended"}
    BY <1>13 DEF SvPlaces, AfterReply
  <2>4. /\ sv'.readSeq \in Nat /\ sv'.writeSeq \in Nat /\ sv'.skip \in BOOLEAN
        /\ sv'.sent \in 0..DataBound
        /\ sv'.secret = <<>> /\ sv'.group = DHDefault /\ sv'.writeKey = Plain
        /\ sv'.readSeq >= 1
    BY <1>3, <1>8, <1>9, <1>10
  <2>5. /\ sv'.at \in {"hello", "skip"} => sv'.hash = SubSeq(Prefix', 1, IF sv'.at = "hello" THEN 2 ELSE 3)
        /\ sv'.at \in {"request", "init"} => sv'.hash = Prefix'
    <3>1. Prefix' = Prefix
      BY DEF Prefix
    <3> HIDE DEF Prefix
    <3> QED BY <1>10, <1>13, <3>1
  <2>6. sv'.at = "init" => sv'.writeSeq = Switch' - 1
    BY <1>8, <1>11, <1>13
  <2>7. ~(sv'.at \in {"request", "init"} /\ sv'.skip)
    BY <1>10, <1>13
  <2>8. ~(sv'.requested /\ sv'.at = "init")
    BY <1>13
  <2>9. ~(sv'.writeSeq > Switch' + 1)
    <3>1. PICK m, n : m = sv'.writeSeq /\ n = Switch'
      OBVIOUS
    <3>2. m = 1
      BY <1>8, <3>1
    <3>3. n = 2 \/ n = 3
      BY <1>11, <3>1
    <3> QED BY <3>1, <3>2, <3>3
  <2> HIDE DEF Accepted, Choice, Replied, Prefix, Switch, Sizes, FinalHash, OutKey
  <2> QED BY <1>8, <1>9, <1>11, <1>12, <1>13, <2>1, <2>2, <2>3, <2>4, <2>5, <2>6, <2>7, <2>8, <2>9
        DEF ServerInv
<1>15. OutInv'
  <2>1. \A p : \A n \in Nat : n < sv.writeSeq /\ OutPacket(p, n) => OutPacket(p, n)'
    <3>1. ASSUME NEW p, NEW n \in Nat, n < sv.writeSeq, OutPacket(p, n)
          PROVE  OutPacket(p, n)'
      <4>1. n = 0
        BY <1>3, <3>1
      <4> QED BY <3>1, <4>1, OutFirst
    <3> QED BY <3>1
  <2>2. \A n \in Nat : \A i \in 1..Len(q) : n = sv.writeSeq + i - 1 => OutPacket(q[i], n)'
    BY <1>7
  <2>3. sv.writeSeq \in Nat /\ cl.readSeq \in Nat /\ cl' = cl /\ sv'.writeSeq = sv.writeSeq + Len(q)
    <3>1. cl.readSeq \in Nat
      BY <1>2 DEF ClientInv
    <3> QED BY <1>3, <1>7, <1>8, <3>1
  <2> QED BY <1>2, <1>7, <1>8, <2>1, <2>2, <2>3, Sends
<1>16. ClientInv'
  <2>1. ~(cl.at = "reply" /\ cl.kex # DH)
    BY <1>2, <1>3 DEF ClientInv
  <2> QED BY <1>2, <1>12, <2>1, ClientKept
<1>17. InInv'
  <2>1. sv.at \in BeforeReply /\ sv'.at \in BeforeReply
    BY <1>13 DEF BeforeReply
  <2> QED BY <1>9, <2>1, ExchangeTakes
<1> QED BY <1>14, <1>15, <1>16, <1>17 DEF TransportIndInv

(* The client's hello is read.                                             *)
LEMMA ServerHelloKeeps ==
  ASSUME TransportIndInv, ServerHello
  PROVE  TransportIndInv'
<1>1. PICK H, r, x, skip, hashed, y :
        /\ H = Head(toServer) /\ r = processHelloSSH(lists, HostKey, H.body)
        /\ x = Read(sv) /\ skip = (r.st = OkSpecial)
        /\ hashed = Append(sv.hash, <<"client hello", H.body>>)
        /\ y = [x EXCEPT !.kex = r.kex, !.encr = r.encr, !.requested = r.requested, !.skip = skip]
  OBVIOUS
<1>2. ServerReceives("hello")
  BY DEF ServerHello
<1>3. /\ sv.at = "hello" /\ toServer # <<>> /\ toServer' = Tail(toServer)
      /\ UNCHANGED <<ini, lists, hello, cl>> /\ InPacket(H, sv.readSeq)
      /\ H.type = Expected \/ (Expected = GEX_REQUEST_OLD /\ H.type = GEX_REQUEST_NEW)
  BY <1>1, <1>2, ReceivesIs
<1>4. H.body = hello
  <2>1. H.type = KEXINIT
    BY <1>3 DEF Expected, KEXINIT, GEX_REQUEST_OLD
  <2> QED BY <1>3, <2>1 DEF InPacket
<1>5. ServerInv /\ AfterRead(x) /\ DOMAIN x = ServerFields
  <2>1. ServerInv
    BY DEF TransportIndInv
  <2>2. AfterRead(x)
    BY <1>1, <2>1, ReadIs
  <2> QED BY <2>1, <2>2 DEF AfterRead
<1>6. sv.hash = SubSeq(Prefix, 1, 2)
  BY <1>3, <1>5 DEF ServerInv
<1>7. hashed = SubSeq(Prefix, 1, 3) /\ Append(hashed, <<"server hello">>) = Prefix
  BY <1>1, <1>4, <1>6, PrefixGrows
<1>8. IF r.st \notin {Ok, OkSpecial} THEN End(x, r.st)
      ELSE IF r.st = OkSpecial
      THEN Send([y EXCEPT !.at = "skip", !.hash = hashed], <<>>)
      ELSE Send([y EXCEPT !.at = IF r.requested THEN "request" ELSE "init",
                          !.hash = Append(hashed, <<"server hello">>)], <<>>)
  BY <1>1, Zenon DEF ServerHello
<1>9. CASE r.st \notin {Ok, OkSpecial}
  <2>1. PICK why : why = r.st
    OBVIOUS
  <2>2. End(x, why)
    BY <1>8, <1>9, <2>1
  <2>3. sv.at \notin {"start", "ended"}
    BY <1>3
  <2> QED BY <1>3, <1>5, <2>2, <2>3, EndSettles
<1>10. CASE r.st \in {Ok, OkSpecial}
  <2>1. HelloTaken(r)
    <3>1. ini \in Inis /\ hello \in Hellos /\ lists = SetAlgoLists(ini.kex, ini.encr)
      BY DEF TransportIndInv
    <3>2. r = processHelloSSH(lists, HostKey, hello)
      BY <1>1, <1>4
    <3> QED BY <1>10, <3>1, <3>2, HelloIsTaken
  <2>2. skip \in BOOLEAN /\ (skip <=> r.st = OkSpecial)
    BY <1>1, Zenon
  <2>3. PICK at, hash, s :
          /\ at = IF skip THEN "skip" ELSE IF r.requested THEN "request" ELSE "init"
          /\ hash = IF skip THEN SubSeq(Prefix, 1, 3) ELSE Prefix
          /\ s = [y EXCEPT !.at = at, !.hash = hash]
    OBVIOUS
  <2>4. Send(s, <<>>)
    <3>1. CASE skip
      BY <1>7, <1>8, <1>10, <2>2, <2>3, <3>1, Zenon
    <3>2. CASE ~skip
      <4>1. r.st # OkSpecial
        BY <2>2, <3>2
      <4>2. at = (IF r.requested THEN "request" ELSE "init") /\ hash = Append(hashed, <<"server hello">>)
        BY <1>7, <2>3, <3>2
      <4> QED BY <1>8, <1>10, <2>3, <4>1, <4>2, Zenon
    <3> QED BY <2>2, <3>1, <3>2
  <2>5. Settled(s, x, r.kex, r.encr, r.requested, skip, at, hash)
    <3>1. PICK kex, encr, requested : kex = r.kex /\ encr = r.encr /\ requested = r.requested
      OBVIOUS
    <3>2. y = [x EXCEPT !.kex = kex, !.encr = encr, !.requested = requested, !.skip = skip]
      BY <1>1, <3>1, Zenon
    <3>3. Settled(s, x, kex, encr, requested, skip, at, hash)
      BY <1>5, <2>3, <3>2, HelloFields, Zenon
    <3> QED BY <3>1, <3>3, Zenon
  <2> QED BY <1>1, <1>3, <1>10, <2>1, <2>2, <2>3, <2>4, <2>5, HelloAccepted, Zenon
<1> QED BY <1>9, <1>10

(* The guessed packet is dropped.                                          *)
LEMMA ServerSkipKeeps ==
  ASSUME TransportIndInv, ServerSkip
  PROVE  TransportIndInv'
<1>1. PICK x, at, hash, s : /\ x = Read(sv)
                            /\ at = (IF sv.requested THEN "request" ELSE "init")
                            /\ hash = Append(sv.hash, <<"server hello">>)
                            /\ s = [x EXCEPT !.at = at, !.hash = hash]
  OBVIOUS
<1>2. ServerInv /\ OutInv /\ ClientInv /\ InInv
  BY DEF TransportIndInv
<1>3. AfterRead(x) /\ DOMAIN x = ServerFields
  BY <1>1, <1>2, ReadIs DEF AfterRead
<1>4. x.hash = sv.hash
  BY <1>3 DEF AfterRead, ExchangeFields
<1>5. ServerReceives("skip") /\ Send(s, <<>>)
  BY <1>1, <1>4 DEF ServerSkip
<1>6. /\ sv.at = "skip" /\ toServer # <<>> /\ toServer' = Tail(toServer)
      /\ UNCHANGED <<ini, lists, hello, cl>>
  BY <1>5, ReceivesIs
<1>7. /\ DOMAIN s = ServerFields /\ s.at = at /\ s.hash = hash
      /\ \A f \in ServerFields \ {"at", "hash"} : s[f] = x[f]
  BY <1>1, <1>3 DEF ServerFields
<1>8. /\ sv.writeSeq = 1 /\ Accepted /\ Choice /\ sv.writeKey = Plain /\ sv.hash = SubSeq(Prefix, 1, 3)
      /\ sv.readSeq \in Nat /\ sv.readSeq >= 1
      /\ sv.requested \in BOOLEAN /\ sv.skip \in BOOLEAN /\ sv.sent \in 0..DataBound
      /\ (~sv.requested => sv.secret = <<>> /\ sv.group = DHDefault)
  BY <1>2, <1>6 DEF ServerInv, AfterReply
<1>9. hash = Prefix
  BY <1>1, <1>8, PrefixGrows
<1>10. /\ s.readSeq = sv.readSeq + 1 /\ s.noPackets \in 0..(NoOpLimit - 1) /\ s.sent = sv.sent
       /\ s.readKey = sv.readKey /\ s.group = sv.group
       /\ s.secret = sv.secret /\ s.writeKey = sv.writeKey /\ s.writeSeq = sv.writeSeq
       /\ s.kex = sv.kex /\ s.encr = sv.encr /\ s.requested = sv.requested /\ s.skip = sv.skip
  BY <1>3, <1>7 DEF AfterRead, ExchangeFields, ServerFields
<1>11. PICK q : q = Packets(s, <<>>)
  OBVIOUS
<1>12. IsList(q) /\ Len(q) = 0 /\ Len(<<>>) = 0
  BY <1>11, NoPackets
<1>13. /\ toClient' = toClient \o q /\ DOMAIN sv' = ServerFields /\ sv'.writeSeq = 1
       /\ \A f \in ServerFields \ {"writeSeq"} : sv'[f] = s[f]
  BY <1>5, <1>7, <1>8, <1>10, <1>11, <1>12, SendIs
<1>14. /\ sv'.readSeq = sv.readSeq + 1 /\ sv'.noPackets \in 0..(NoOpLimit - 1)
       /\ sv'.sent = sv.sent /\ sv'.readKey = sv.readKey
       /\ sv'.group = sv.group /\ sv'.secret = sv.secret /\ sv'.writeKey = sv.writeKey
       /\ sv'.kex = sv.kex /\ sv'.encr = sv.encr /\ sv'.requested = sv.requested
       /\ sv'.skip = sv.skip
  BY <1>10, <1>13 DEF ServerFields
<1>15. sv'.at = at /\ sv'.hash = Prefix
  BY <1>7, <1>9, <1>13 DEF ServerFields
<1>16. Switch \in {2, 3} /\ Switch' = Switch /\ (~sv.requested => Switch = 2)
  BY <1>8, <1>14 DEF Switch
<1>17. ~Replied /\ ~Replied' /\ Chosen' = Chosen
  <2> HIDE DEF Switch
  <2> QED BY <1>6, <1>8, <1>13, <1>16, ChosenKept DEF Replied
<1>18. sv'.at \in {"request", "init"} /\ (sv'.at = "request" <=> sv.requested)
  BY <1>1, <1>8, <1>15
<1>19. ServerInv'
  <2>1. Accepted' /\ Choice'
    BY <1>6, <1>8, <1>14, <1>17 DEF Accepted, Choice
  <2>2. /\ sv'.at \in SvPlaces /\ sv'.at \notin AfterReply
        /\ sv'.at \notin {"start", "hello", "skip", "ended"}
    BY <1>18 DEF SvPlaces, AfterReply
  <2>3. /\ sv'.readSeq \in Nat /\ sv'.writeSeq \in Nat /\ sv'.skip \in BOOLEAN
        /\ sv'.requested \in BOOLEAN
        /\ sv'.sent \in 0..DataBound
        /\ sv'.writeKey = Plain /\ sv'.readSeq >= 1 /\ sv'.readSeq >= 2
        /\ (~sv'.requested => sv'.secret = <<>> /\ sv'.group = DHDefault)
    BY <1>8, <1>13, <1>14
  <2>4. sv'.hash = Prefix'
    BY <1>6, <1>15 DEF Prefix
  <2>5. sv'.at = "init" => ~sv'.requested /\ sv'.writeSeq = Switch' - 1
    BY <1>13, <1>14, <1>16, <1>18
  <2>6. sv'.at = "request" => sv'.requested
    BY <1>14, <1>18
  <2>7. ~(sv'.writeSeq > Switch' + 1)
    <3>1. PICK m, n : m = sv'.writeSeq /\ n = Switch'
      OBVIOUS
    <3>2. m = 1
      BY <1>13, <3>1
    <3>3. n = 2 \/ n = 3
      BY <1>16, <3>1
    <3> QED BY <3>1, <3>2, <3>3
  <2> HIDE DEF Accepted, Choice, Replied, Prefix, Switch, Sizes, FinalHash, OutKey
  <2> QED BY <1>13, <1>14, <1>17, <2>1, <2>2, <2>3, <2>4, <2>5, <2>6, <2>7 DEF ServerInv
<1>20. OutInv'
  <2>1. \A p : \A n \in Nat : n < sv.writeSeq /\ OutPacket(p, n) => OutPacket(p, n)'
    <3>1. ASSUME NEW p, NEW n \in Nat, n < sv.writeSeq, OutPacket(p, n)
          PROVE  OutPacket(p, n)'
      <4>1. n = 0
        BY <1>8, <3>1
      <4> QED BY <3>1, <4>1, OutFirst
    <3> QED BY <3>1
  <2>2. \A n \in Nat : \A i \in 1..Len(q) : n = sv.writeSeq + i - 1 => OutPacket(q[i], n)'
    BY <1>12
  <2>3. sv.writeSeq \in Nat /\ cl.readSeq \in Nat /\ cl' = cl /\ sv'.writeSeq = sv.writeSeq + Len(q)
    <3>1. cl.readSeq \in Nat
      BY <1>2 DEF ClientInv
    <3> QED BY <1>6, <1>8, <1>12, <1>13, <3>1
  <2> QED BY <1>2, <1>12, <1>13, <2>1, <2>2, <2>3, Sends
<1>21. ClientInv'
  BY <1>2, <1>6, <1>14, <1>17, ClientKept
<1>22. InInv'
  <2>1. sv.at \in BeforeReply /\ sv'.at \in BeforeReply
    BY <1>6, <1>18 DEF BeforeReply
  <2> QED BY <1>6, <1>14, <2>1, ExchangeTakes
<1> QED BY <1>6, <1>19, <1>20, <1>21, <1>22 DEF TransportIndInv

(* What the first packet of an exchange says of it.                        *)
LEMMA FirstSays ==
  ASSUME NEW kex, NEW request \in Requests, NEW type, NEW body,
         <<type, body>> = FirstOf(kex, request)
  PROVE  /\ kex \in {DHE, DHEAlt} => body = request
         /\ body = Long => kex = DH
<1>1. request # Long
  <2>1. DOMAIN request = {"type", "min", "n", "max"}
    BY TransportAssumption, PacketAssumption
  <2>2. DOMAIN Long = {"long"}
    BY DEF Long
  <2> QED BY <2>1, <2>2
<1>2. Short # Long
  <2>1. Short.long = FALSE /\ Long.long = TRUE
    BY Zenon DEF Short, Long
  <2> QED BY <2>1
<1>3. DH \notin {DHE, DHEAlt}
  BY DEF DH, DHE, DHEAlt
<1>4. CASE kex \in {DHE, DHEAlt}
  <2>1. FirstOf(kex, request) = <<request.type, request>>
    BY <1>3, <1>4 DEF FirstOf
  <2>2. body = request
    BY <2>1
  <2> QED BY <1>1, <2>2
<1>5. CASE kex = DH
  BY <1>3, <1>5
<1>6. CASE kex \notin {DHE, DHEAlt, DH}
  <2>1. FirstOf(kex, request) = <<KEXDH_INIT, Short>>
    BY <1>6 DEF FirstOf
  <2>2. body = Short
    BY <2>1
  <2> QED BY <1>2, <1>6, <2>2
<1> QED BY <1>4, <1>5, <1>6

(* The group the client asked for, or its value, is what the server reads. *)
LEMMA RequestRead ==
  ASSUME TransportIndInv, NEW H, InPacket(H, sv.readSeq), sv.at \in {"request", "init"},
         H.type \in {GEX_REQUEST_OLD, GEX_REQUEST_NEW}
  PROVE  /\ cl.request \in Requests
         /\ sv.at = "request" => H.body = cl.request
         /\ ~sv.requested /\ H.body = Long => Chosen.kex = DH
<1>1. ServerInv /\ ClientInv /\ sv.readSeq \in Nat
  BY DEF TransportIndInv, ServerInv
<1>2. Choice /\ (sv.skip => sv.readSeq >= 2) /\ (sv.at = "request" => sv.requested)
  BY <1>1 DEF ServerInv
<1>3. PICK kex : kex = IF sv.readSeq = 1 /\ hello.guess THEN hello.kex[1] ELSE Chosen.kex
  OBVIOUS
<1>4. sv.readSeq >= 1 /\ <<H.type, H.body>> = FirstOf(kex, cl.request)
  BY <1>3 DEF InPacket
<1>5. cl.at # "hello"
  <2>1. IsList(toServer) /\ sv.readSeq + Len(toServer) = cl.writeSeq
    BY DEF TransportIndInv, InInv
  <2>2. Len(toServer) \in Nat
    BY <2>1, ListShape
  <2>3. cl.at = "hello" => cl.writeSeq = 0
    BY <1>1 DEF ClientInv
  <2>4. cl.writeSeq >= 1
    BY <1>1, <1>4, <2>1, <2>2
  <2> QED BY <2>3, <2>4
<1>6. cl.request \in Requests
  BY <1>1, <1>5 DEF ClientInv
<1>7. PICK request, type, body : request = cl.request /\ type = H.type /\ body = H.body
  OBVIOUS
<1>8. (kex \in {DHE, DHEAlt} => body = request) /\ (body = Long => kex = DH)
  BY <1>4, <1>6, <1>7, FirstSays
<1>9. sv.at = "request" => kex \in {DHE, DHEAlt}
  <2>1. SUFFICES ASSUME sv.at = "request" PROVE kex \in {DHE, DHEAlt}
    OBVIOUS
  <2>2. sv.requested /\ sv.kex = DHE /\ Chosen.kex \in {DHE, DHEAlt}
    BY <1>2, <2>1 DEF Choice
  <2>3. CASE sv.readSeq = 1 /\ hello.guess
    <3>1. ~sv.skip
      BY <1>2, <2>3
    <3>2. hello.kex[1] = DHE
      BY <1>2, <2>2, <2>3, <3>1 DEF Choice
    <3> QED BY <1>3, <2>3, <3>2
  <2>4. CASE ~(sv.readSeq = 1 /\ hello.guess)
    BY <1>3, <2>2, <2>4
  <2> QED BY <2>3, <2>4
<1>10. ~sv.requested => kex = Chosen.kex
  <2>1. SUFFICES ASSUME ~sv.requested PROVE ~(sv.readSeq = 1 /\ hello.guess)
    BY <1>3
  <2> QED BY <1>2, <2>1 DEF Choice
<1> QED BY <1>6, <1>7, <1>8, <1>9, <1>10

(* The group the client asked for goes out.                                *)
LEMMA ServerGroupKeeps ==
  ASSUME TransportIndInv, ServerGroup
  PROVE  TransportIndInv'
<1>1. PICK H, r, g, x, secret, s, body, msgs :
        /\ H = Head(toServer) /\ r = H.body /\ g = GroupFor(r.n) /\ x = Read(sv)
        /\ secret = <<<<"sizes", r>>, <<"group", g>>>>
        /\ s = [x EXCEPT !.at = "init", !.group = g, !.secret = secret]
        /\ body = <<g>> /\ msgs = <<<<GEX_GROUP, body>>>>
  OBVIOUS
<1>2. ServerInv /\ OutInv /\ ClientInv /\ InInv
  BY DEF TransportIndInv
<1>3. AfterRead(x) /\ DOMAIN x = ServerFields
  BY <1>1, <1>2, ReadIs DEF AfterRead
<1>4. /\ ServerReceives("request")
      /\ IF r.n \notin MinPkcSize..MaxPkcSize THEN End(x, BadData) ELSE Send(s, msgs)
  BY <1>1, Zenon DEF ServerGroup
<1>5. /\ sv.at = "request" /\ toServer # <<>> /\ toServer' = Tail(toServer)
      /\ UNCHANGED <<ini, lists, hello, cl>> /\ InPacket(H, sv.readSeq)
      /\ H.type = Expected \/ (Expected = GEX_REQUEST_OLD /\ H.type = GEX_REQUEST_NEW)
  BY <1>1, <1>4, ReceivesIs
<1>6. CASE r.n \notin MinPkcSize..MaxPkcSize
  <2>1. End(x, BadData) /\ sv.at \notin {"start", "ended"}
    BY <1>4, <1>5, <1>6
  <2>2. PICK why : why = BadData
    OBVIOUS
  <2> QED BY <1>3, <1>5, <2>1, <2>2, EndSettles
<1>7. CASE r.n \in MinPkcSize..MaxPkcSize
  <2>1. Send(s, msgs)
    BY <1>4, <1>7
  <2>2. r = cl.request
    <3>1. H.type \in {GEX_REQUEST_OLD, GEX_REQUEST_NEW}
      BY <1>5 DEF Expected
    <3> QED BY <1>1, <1>5, <3>1, RequestRead
  <2>3. /\ DOMAIN s = ServerFields /\ s.at = "init" /\ s.group = g /\ s.secret = secret
        /\ \A f \in ServerFields \ {"at", "group", "secret"} : s[f] = x[f]
    BY <1>1, <1>3 DEF ServerFields
  <2>4. /\ sv.writeSeq = 1 /\ Accepted /\ Choice /\ sv.writeKey = Plain /\ sv.hash = Prefix
        /\ sv.readSeq \in Nat /\ sv.readSeq >= 1
        /\ sv.requested /\ sv.requested \in BOOLEAN /\ sv.skip \in BOOLEAN /\ sv.sent \in 0..DataBound
    BY <1>2, <1>5 DEF ServerInv, AfterReply
  <2>5. /\ s.readSeq = sv.readSeq + 1 /\ s.noPackets \in 0..(NoOpLimit - 1) /\ s.sent = sv.sent
        /\ s.readKey = sv.readKey /\ s.hash = sv.hash
        /\ s.writeKey = sv.writeKey /\ s.writeSeq = sv.writeSeq
        /\ s.kex = sv.kex /\ s.encr = sv.encr /\ s.requested = sv.requested /\ s.skip = sv.skip
    BY <1>3, <2>3 DEF AfterRead, ExchangeFields, ServerFields
  <2>6. PICK q : q = Packets(s, msgs)
    OBVIOUS
  <2>7. s.writeSeq = 1 /\ s.writeKey = Plain
    BY <2>4, <2>5
  <2>8. IsList(q) /\ Len(q) = 1 /\ Len(msgs) = 1 /\ IsPacket(q[1], GEX_GROUP, body, Plain, 1)
    <3>1. s.writeSeq \in Nat
      BY <2>7
    <3>2. /\ IsList(q) /\ Len(q) = 1 /\ Len(msgs) = 1
          /\ IsPacket(q[1], GEX_GROUP, body, s.writeKey, s.writeSeq)
      <4>1. PICK type : type = GEX_GROUP
        OBVIOUS
      <4>2. q = Packets(s, <<<<type, body>>>>) /\ msgs = <<<<type, body>>>>
        BY <1>1, <2>6, <4>1
      <4>3. /\ IsList(q) /\ Len(q) = 1 /\ Len(<<<<type, body>>>>) = 1
            /\ IsPacket(q[1], type, body, s.writeKey, s.writeSeq)
        BY <3>1, <4>2, OnePacket
      <4> QED BY <4>1, <4>2, <4>3
    <3> QED BY <2>7, <3>2
  <2>9. /\ toClient' = toClient \o q /\ DOMAIN sv' = ServerFields /\ sv'.writeSeq = 2
        /\ \A f \in ServerFields \ {"writeSeq"} : sv'[f] = s[f]
    <3>1. /\ toClient' = toClient \o Packets(s, msgs)
          /\ DOMAIN sv' = ServerFields
          /\ sv'.writeSeq = s.writeSeq + Len(msgs)
          /\ \A f \in ServerFields \ {"writeSeq"} : sv'[f] = s[f]
      BY <2>1, <2>3, SendIs
    <3> QED BY <2>6, <2>7, <2>8, <3>1
  <2>10. /\ sv'.readSeq = sv.readSeq + 1 /\ sv'.noPackets \in 0..(NoOpLimit - 1)
         /\ sv'.sent = sv.sent /\ sv'.readKey = sv.readKey
         /\ sv'.hash = sv.hash /\ sv'.writeKey = sv.writeKey
         /\ sv'.kex = sv.kex /\ sv'.encr = sv.encr /\ sv'.requested = sv.requested
         /\ sv'.skip = sv.skip
    BY <2>5, <2>9 DEF ServerFields
  <2>11. sv'.at = "init" /\ sv'.group = g /\ sv'.secret = secret
    BY <2>3, <2>9 DEF ServerFields
  <2>12. Switch = 3 /\ Switch' = 3
    BY <2>4, <2>10 DEF Switch
  <2>13. ~Replied /\ ~Replied' /\ Chosen' = Chosen
    <3> HIDE DEF Switch
    <3> QED BY <1>5, <2>4, <2>9, <2>12, ChosenKept DEF Replied
  <2>14. secret = Sizes(sv.group)'
    BY <1>1, <1>5, <2>2, <2>11 DEF Sizes
  <2>15. ServerInv'
    <3>1. Accepted' /\ Choice'
      BY <1>5, <2>4, <2>10, <2>13 DEF Accepted, Choice
    <3>2. /\ sv'.at \in SvPlaces /\ sv'.at \notin AfterReply
          /\ sv'.at \notin {"start", "hello", "skip", "request", "ended"}
      BY <2>11 DEF SvPlaces, AfterReply
    <3>3. /\ sv'.readSeq \in Nat /\ sv'.writeSeq \in Nat /\ sv'.skip \in BOOLEAN
          /\ sv'.requested \in BOOLEAN /\ sv'.requested
          /\ sv'.sent \in 0..DataBound
          /\ sv'.writeKey = Plain /\ sv'.readSeq >= 1 /\ sv'.readSeq >= 2
      BY <2>4, <2>9, <2>10
    <3>4. sv'.hash = Prefix'
      BY <1>5, <2>4, <2>10 DEF Prefix
    <3>5. sv'.writeSeq = Switch' - 1 /\ ~(sv'.writeSeq > Switch' + 1)
      <4> HIDE DEF Switch
      <4> QED BY <2>9, <2>12
    <3>6. sv'.secret = Sizes(sv.group)'
      BY <2>11, <2>14
    <3> HIDE DEF Accepted, Choice, Replied, Prefix, Switch, Sizes, FinalHash, OutKey
    <3> QED BY <2>9, <2>10, <2>11, <2>13, <3>1, <3>2, <3>3, <3>4, <3>5, <3>6 DEF ServerInv
  <2>16. OutInv'
    <3>1. \A p : \A n \in Nat : n < sv.writeSeq /\ OutPacket(p, n) => OutPacket(p, n)'
      <4>1. ASSUME NEW p, NEW n \in Nat, n < sv.writeSeq, OutPacket(p, n)
            PROVE  OutPacket(p, n)'
        <5>1. n = 0
          BY <2>4, <4>1
        <5> QED BY <4>1, <5>1, OutFirst
      <4> QED BY <4>1
    <3>2. \A n \in Nat : \A i \in 1..Len(q) : n = sv.writeSeq + i - 1 => OutPacket(q[i], n)'
      <4>1. PICK p : p = q[1]
        OBVIOUS
      <4>2. p.type = GEX_GROUP /\ p.body = <<sv'.group>> /\ p.key = Plain /\ p.mac = <<Plain, 1>>
        BY <1>1, <2>8, <2>11, <4>1 DEF IsPacket
      <4>3. p.type \in 1..100
        BY <4>2 DEF GEX_GROUP
      <4>4. sv'.requested /\ sv'.secret = Sizes(sv.group)' /\ 1 <= Switch'
        BY <2>4, <2>10, <2>11, <2>12, <2>14
      <4>5. OutPacket(p, 1)'
        <5> HIDE DEF Switch, Sizes, OutKey, Replied
        <5> QED BY <4>2, <4>3, <4>4 DEF OutPacket
      <4>6. \A i \in 1..Len(q) : i = 1 /\ sv.writeSeq + i - 1 = 1
        BY <2>4, <2>8
      <4> QED BY <4>1, <4>5, <4>6
    <3>3. sv.writeSeq \in Nat /\ cl.readSeq \in Nat /\ cl' = cl /\ sv'.writeSeq = sv.writeSeq + Len(q)
      <4>1. cl.readSeq \in Nat
        BY <1>2 DEF ClientInv
      <4> QED BY <1>5, <2>4, <2>8, <2>9, <4>1
    <3> QED BY <1>2, <2>8, <2>9, <3>1, <3>2, <3>3, Sends
  <2>17. ClientInv'
    <3>1. ~(cl.at = "reply" /\ cl.kex # DH)
      <4>1. SUFFICES ASSUME cl.at = "reply", cl.kex # DH PROVE FALSE
        OBVIOUS
      <4>2. cl.readSeq = 2
        BY <1>2, <4>1 DEF ClientInv
      <4>3. IsList(toClient) /\ cl.readSeq + Len(toClient) = sv.writeSeq
        BY <1>2 DEF OutInv
      <4>4. Len(toClient) \in Nat
        BY <4>3, ListShape
      <4> QED BY <2>4, <4>2, <4>3, <4>4
    <3> QED BY <1>2, <1>5, <2>13, <3>1, ClientKept
  <2>18. InInv'
    <3>1. sv.at \in BeforeReply /\ sv'.at \in BeforeReply
      BY <1>5, <2>11 DEF BeforeReply
    <3> QED BY <1>5, <2>10, <3>1, ExchangeTakes
  <2> QED BY <1>5, <2>15, <2>16, <2>17, <2>18 DEF TransportIndInv
<1> QED BY <1>6, <1>7

(* The reply, with the hash of the exchange, and the server's NEWKEYS.     *)
LEMMA ServerReplyKeeps ==
  ASSUME TransportIndInv, ServerReply
  PROVE  TransportIndInv'
<1>1. PICK H, x, hash, st, key, type, n2, y, s :
        /\ H = Head(toServer) /\ x = Read(sv) /\ hash = completeKeyex(sv)
        /\ st = initSecurityContextsSSH(sv.encr) /\ key = initSecurityInfo(sv.encr, hash).out
        /\ type = (IF sv.requested THEN GEX_REPLY ELSE KEXDH_REPLY)
        /\ n2 = x.writeSeq + 2
        /\ y = [x EXCEPT !.hash = hash, !.writeSeq = n2]
        /\ s = IF st # Ok THEN [y EXCEPT !.at = "ended", !.why = st]
               ELSE [y EXCEPT !.at = "newkeys", !.writeKey = key]
  OBVIOUS
<1>2. ServerInv /\ OutInv /\ ClientInv /\ InInv
  BY DEF TransportIndInv
<1>3. AfterRead(x) /\ DOMAIN x = ServerFields
  BY <1>1, <1>2, ReadIs DEF AfterRead
<1>4. PICK q : q = Packets(sv, <<<<type, hash>>, <<NEWKEYS, Short>>>>)
  OBVIOUS
<1>5. ServerReceives("init") /\ toClient' = toClient \o q /\ sv' = s
  <2>1. /\ ServerReceives("init")
        /\ \E h \in {completeKeyex(sv)} :
             LET replied == [Read(sv) EXCEPT !.hash = h, !.writeSeq = @ + 2]
                 t == initSecurityContextsSSH(sv.encr)
             IN  /\ toClient' = toClient \o
                      Packets(sv, <<<<IF sv.requested THEN GEX_REPLY ELSE KEXDH_REPLY, h>>,
                                    <<NEWKEYS, Short>>>>)
                 /\ sv' = IF t # Ok THEN [replied EXCEPT !.at = "ended", !.why = t]
                          ELSE [replied EXCEPT !.at = "newkeys",
                                               !.writeKey = initSecurityInfo(sv.encr, h).out]
    BY DEF ServerReply
  <2> QED BY <1>1, <1>4, <2>1
<1>6. /\ sv.at = "init" /\ toServer # <<>> /\ toServer' = Tail(toServer)
      /\ UNCHANGED <<ini, lists, hello, cl>> /\ InPacket(H, sv.readSeq) /\ H.body = Long
      /\ H.type = Expected \/ (Expected = GEX_REQUEST_OLD /\ H.type = GEX_REQUEST_NEW)
  BY <1>1, <1>5, ReceivesIs
<1>7. /\ sv.writeSeq = Switch - 1 /\ Accepted /\ Choice /\ sv.writeKey = Plain /\ sv.hash = Prefix
      /\ sv.readSeq \in Nat /\ sv.readSeq >= 1
      /\ sv.requested \in BOOLEAN /\ sv.skip \in BOOLEAN /\ sv.sent \in 0..DataBound
      /\ (~sv.requested => sv.secret = <<>> /\ sv.group = DHDefault)
      /\ (sv.requested => sv.secret = Sizes(sv.group)) /\ sv.writeSeq \in Nat
  <2> HIDE DEF Switch, Sizes, Prefix, FinalHash
  <2> QED BY <1>2, <1>6 DEF ServerInv, AfterReply
<1>8. Switch \in {2, 3} /\ Switch \in Nat
  BY DEF Switch
<1>9. hash = FinalHash
  BY <1>1, <1>7 DEF completeKeyex, FinalHash
<1>10. key = <<sv.encr, hash, "D">> /\ (st = Ok <=> sv.encr # None)
  BY <1>1 DEF initSecurityInfo, loadCryptovariable, initSecurityContextsSSH, Ok, NotAvail
<1>11. /\ DOMAIN y = ServerFields /\ y.hash = hash /\ y.writeSeq = n2
       /\ \A f \in ServerFields \ {"hash", "writeSeq"} : y[f] = x[f]
  BY <1>1, <1>3 DEF ServerFields
<1>12. DOMAIN s = ServerFields
  BY <1>1, <1>11
<1>13. \A f \in ServerFields \ {"at", "why", "writeKey"} : s[f] = y[f]
  BY <1>1, <1>11 DEF ServerFields
<1>14. IF sv.encr = None THEN s.at = "ended" ELSE s.at = "newkeys" /\ s.writeKey = key
  BY <1>1, <1>10, <1>11 DEF ServerFields
<1>15. /\ x.readSeq = sv.readSeq + 1 /\ x.noPackets \in 0..(NoOpLimit - 1) /\ x.sent = sv.sent
       /\ x.readKey = sv.readKey /\ x.group = sv.group /\ x.secret = sv.secret
       /\ x.writeSeq = sv.writeSeq /\ x.kex = sv.kex /\ x.encr = sv.encr
       /\ x.requested = sv.requested /\ x.skip = sv.skip
  BY <1>3 DEF AfterRead, ExchangeFields
<1>16. /\ sv'.readSeq = sv.readSeq + 1 /\ sv'.noPackets \in 0..(NoOpLimit - 1)
       /\ sv'.sent = sv.sent /\ sv'.readKey = sv.readKey
       /\ sv'.group = sv.group /\ sv'.secret = sv.secret
       /\ sv'.kex = sv.kex /\ sv'.encr = sv.encr /\ sv'.requested = sv.requested
       /\ sv'.skip = sv.skip
  BY <1>3, <1>5, <1>11, <1>13, <1>15 DEF ServerFields
<1>17. sv'.hash = hash /\ sv'.writeSeq = sv.writeSeq + 2
  <2>1. s.hash = hash /\ s.writeSeq = n2
    BY <1>11, <1>13 DEF ServerFields
  <2> QED BY <1>1, <1>5, <1>15, <2>1
<1>18. DOMAIN sv' = ServerFields /\ (IF sv.encr = None THEN sv'.at = "ended"
                                     ELSE sv'.at = "newkeys" /\ sv'.writeKey = key)
  BY <1>5, <1>12, <1>14
<1>19. /\ Switch' = Switch /\ Chosen' = Chosen /\ Prefix' = Prefix
       /\ Sizes(sv.group)' = Sizes(sv.group)
  <2>1. Chosen' = Chosen
    BY <1>6, ChosenKept
  <2> QED BY <1>6, <1>16, <2>1 DEF Switch, Prefix, Sizes
<1>20. FinalHash' = FinalHash /\ OutKey' = key
  BY <1>10, <1>16, <1>17, <1>19 DEF FinalHash, OutKey
<1> HIDE DEF Switch, Sizes, Prefix, FinalHash, OutKey
<1>21. ~Replied /\ Replied' /\ sv'.writeSeq = Switch + 1
  BY <1>7, <1>8, <1>17, <1>19 DEF Replied
<1>22. ~sv.requested => Chosen.kex = DH
  <2>1. SUFFICES ASSUME ~sv.requested PROVE Chosen.kex = DH
    OBVIOUS
  <2>2. H.type \in {GEX_REQUEST_OLD, GEX_REQUEST_NEW}
    BY <1>6, <2>1 DEF Expected, ExchangeInit, KEXDH_INIT, GEX_REQUEST_OLD
  <2> QED BY <1>6, <2>1, <2>2, RequestRead
<1>23. IsList(q) /\ Len(q) = 2 /\ IsPacket(q[1], type, hash, Plain, Switch - 1)
       /\ IsPacket(q[2], NEWKEYS, Short, Plain, Switch)
  <2>1. PICK short : short = Short
    OBVIOUS
  <2>2. /\ IsList(q) /\ Len(q) = 2
        /\ IsPacket(q[1], type, hash, sv.writeKey, sv.writeSeq)
        /\ IsPacket(q[2], NEWKEYS, short, sv.writeKey, sv.writeSeq + 1)
    BY <1>4, <1>7, <2>1, TwoPackets
  <2>3. sv.writeSeq = Switch - 1 /\ sv.writeSeq + 1 = Switch
    BY <1>7, <1>8
  <2> QED BY <1>7, <2>1, <2>2, <2>3
<1>24. ServerInv'
  <2>1. Accepted' /\ Choice'
    BY <1>6, <1>7, <1>16, <1>19 DEF Accepted, Choice
  <2>2. /\ sv'.at \in SvPlaces
        /\ sv'.at \notin {"start", "hello", "skip", "request", "init"}
    BY <1>18 DEF SvPlaces
  <2>3. /\ sv'.readSeq \in Nat /\ sv'.writeSeq \in Nat /\ sv'.skip \in BOOLEAN
        /\ sv'.requested \in BOOLEAN
        /\ sv'.sent \in 0..DataBound
        /\ sv'.readSeq >= 1
        /\ (~sv'.requested => sv'.secret = <<>> /\ sv'.group = DHDefault)
    BY <1>7, <1>16, <1>17
  <2>4. sv'.hash = FinalHash'
    BY <1>9, <1>17, <1>20
  <2>5. /\ sv'.at \in AfterReply => sv'.encr # None
        /\ sv'.at # "ended" => sv'.at \in AfterReply /\ sv'.writeKey = OutKey'
    BY <1>16, <1>18, <1>20 DEF AfterReply
  <2>6. ~(sv'.writeSeq > Switch' + 1)
    <3>1. PICK m, n : m = sv'.writeSeq /\ n = Switch
      OBVIOUS
    <3>2. m = n + 1 /\ n \in Nat /\ Switch' = n
      BY <1>8, <1>19, <1>21, <3>1
    <3> QED BY <3>1, <3>2
  <2>7. sv'.requested => sv'.secret = Sizes(sv.group)'
    BY <1>7, <1>16, <1>19
  <2>8. ~sv'.requested => Chosen'.kex = DH
    BY <1>16, <1>19, <1>22
  <2> HIDE DEF Accepted, Choice, Replied
  <2> QED BY <1>16, <1>18, <1>21, <2>1, <2>2, <2>3, <2>4, <2>5, <2>6, <2>7, <2>8 DEF ServerInv
<1>25. OutInv'
  <2>1. \A p : \A n \in Nat : n < sv.writeSeq /\ OutPacket(p, n) => OutPacket(p, n)'
    <3>1. ASSUME NEW p, NEW n \in Nat, n < sv.writeSeq, OutPacket(p, n)
          PROVE  OutPacket(p, n)'
      <4>1. n <= Switch /\ n <= Switch' /\ n # Switch - 1
        BY <1>7, <1>8, <1>19, <3>1
      <4> HIDE DEF Replied
      <4> QED BY <1>16, <1>19, <3>1, <4>1 DEF OutPacket
    <3> QED BY <3>1
  <2>2. \A n \in Nat : \A i \in 1..Len(q) : n = sv.writeSeq + i - 1 => OutPacket(q[i], n)'
    <3>1. PICK p, r, m : p = q[1] /\ r = q[2] /\ m = Switch
      OBVIOUS
    <3>2. m \in Nat /\ m - 1 <= m /\ m <= m /\ Switch' = m
      BY <1>8, <1>19, <3>1
    <3>3. OutPacket(p, m - 1)'
      <4>1. p.type = type /\ p.body = hash /\ p.key = Plain /\ p.mac = <<Plain, m - 1>>
        BY <1>23, <3>1 DEF IsPacket
      <4>2. p.type \in 1..100 /\ p.type = IF sv'.requested THEN GEX_REPLY ELSE KEXDH_REPLY
        BY <1>1, <1>16, <4>1 DEF GEX_REPLY, KEXDH_REPLY
      <4> HIDE DEF Replied
      <4> QED BY <1>17, <1>21, <3>2, <4>1, <4>2 DEF OutPacket
    <3>4. OutPacket(r, m)'
      <4>1. r.type = NEWKEYS /\ r.key = Plain /\ r.mac = <<Plain, m>>
        BY <1>23, <3>1 DEF IsPacket
      <4>2. r.type \in 1..100 /\ r.type \notin {GEX_GROUP, GEX_REPLY}
        BY <4>1, Messages
      <4> QED BY <3>2, <4>1, <4>2 DEF OutPacket
    <3>5. \A i \in 1..Len(q) : \/ i = 1 /\ sv.writeSeq + i - 1 = m - 1
                               \/ i = 2 /\ sv.writeSeq + i - 1 = m
      BY <1>7, <1>8, <1>23, <3>1
    <3>6. PICK a : a = m - 1
      OBVIOUS
    <3>7. OutPacket(p, a)'
      BY <3>3, <3>6
    <3> QED BY <3>1, <3>4, <3>5, <3>6, <3>7
  <2>3. cl.readSeq \in Nat /\ cl' = cl /\ sv'.writeSeq = sv.writeSeq + Len(q)
    <3>1. cl.readSeq \in Nat
      BY <1>2 DEF ClientInv
    <3> QED BY <1>6, <1>17, <1>23, <3>1
  <2> QED BY <1>2, <1>5, <1>7, <1>23, <2>1, <2>2, <2>3, Sends
<1>26. ClientInv'
  BY <1>2, <1>6, <1>16, <1>21, ClientKept
<1>27. InInv'
  <2>1. sv.at \in BeforeReply /\ sv'.at \in BeforeReply \cup {"newkeys", "ended"}
    BY <1>6, <1>18 DEF BeforeReply
  <2> QED BY <1>6, <1>16, <2>1, ExchangeTakes
<1> QED BY <1>6, <1>24, <1>25, <1>26, <1>27 DEF TransportIndInv

-----------------------------------------------------------------------------
(* The client's steps.                                                     *)

(* The server does not move, and what it took of the client's request, if  *)
(* anything, stays.                                                        *)
ServerWaits == UNCHANGED <<ini, lists, hello, sv>> /\ (cl'.request = cl.request \/ ~sv.requested)

(* What a client's step leaves alone.                                      *)
LEMMA Waiting ==
  ASSUME ServerWaits
  PROVE  /\ Chosen' = Chosen /\ Switch' = Switch /\ OutKey' = OutKey /\ InKey' = InKey
         /\ FinalHash' = FinalHash /\ Prefix' = Prefix
         /\ (sv.requested => Sizes(sv.group)' = Sizes(sv.group))
<1>1. Chosen' = Chosen
  BY ChosenKept DEF ServerWaits
<1>2. sv.requested => Sizes(sv.group)' = Sizes(sv.group)
  BY DEF ServerWaits, Sizes
<1> QED BY <1>1, <1>2 DEF ServerWaits, Switch, OutKey, InKey, FinalHash, Prefix

(* The server stands where it stood.                                       *)
LEMMA ServerStands ==
  ASSUME ServerInv, ServerWaits
  PROVE  ServerInv'
<1>1. /\ Chosen' = Chosen /\ Switch' = Switch /\ OutKey' = OutKey
      /\ FinalHash' = FinalHash /\ Prefix' = Prefix
      /\ (sv.requested => Sizes(sv.group)' = Sizes(sv.group))
  BY Waiting
<1>2. sv' = sv /\ ini' = ini /\ hello' = hello /\ lists' = lists
  BY DEF ServerWaits
<1>3. Accepted' = Accepted /\ (Choice <=> Choice')
  BY <1>1, <1>2 DEF Accepted, Choice
<1> HIDE DEF Chosen, Switch, OutKey, FinalHash, Prefix, Sizes, Choice
<1>4. Replied' <=> Replied
  BY <1>1, <1>2 DEF Replied
<1> HIDE DEF Replied, Accepted
<1>5. sv'.requested /\ (sv'.at \in {"init"} \/ Replied') => sv'.secret = Sizes(sv.group)'
  BY <1>1, <1>2, <1>4 DEF ServerInv
<1> QED BY <1>1, <1>2, <1>3, <1>4, <1>5 DEF ServerInv

(* The packets in flight to the client, when it reads one or none.         *)
LEMMA OutTaken ==
  ASSUME OutInv, ServerWaits, cl.readSeq \in Nat,
         \/ toClient' = toClient /\ cl'.readSeq = cl.readSeq
         \/ toClient # <<>> /\ toClient' = Tail(toClient) /\ cl'.readSeq = cl.readSeq + 1
  PROVE  OutInv'
<1>1. /\ Switch' = Switch /\ OutKey' = OutKey
      /\ (sv.requested => Sizes(sv.group)' = Sizes(sv.group))
  BY Waiting
<1>2. sv' = sv
  BY DEF ServerWaits
<1> HIDE DEF Switch, OutKey, Sizes
<1>3. ASSUME NEW p, NEW n, OutPacket(p, n)
      PROVE  OutPacket(p, n)'
  <2>1. Replied' <=> Replied
    BY <1>1, <1>2 DEF Replied
  <2> HIDE DEF Replied
  <2> QED BY <1>1, <1>2, <1>3, <2>1 DEF OutPacket
<1>4. PICK q, r, m : q = toClient /\ r = toClient' /\ m = Len(q)
  OBVIOUS
<1>5. IsList(q) /\ cl.readSeq + m = sv.writeSeq
      /\ \A i \in DOMAIN q : OutPacket(q[i], cl.readSeq + i - 1)
  BY <1>4 DEF OutInv
<1>6. CASE r = q /\ cl'.readSeq = cl.readSeq
  <2>1. \A i \in DOMAIN r : OutPacket(r[i], cl.readSeq + i - 1)'
    <3>1. TAKE i \in DOMAIN r
    <3>2. PICK p, n : p = q[i] /\ n = cl.readSeq + i - 1
      OBVIOUS
    <3>3. OutPacket(p, n)'
      BY <1>3, <1>5, <1>6, <3>2
    <3> QED BY <1>6, <3>2, <3>3
  <2> QED BY <1>2, <1>4, <1>5, <1>6, <2>1 DEF OutInv
<1>7. CASE q # <<>> /\ r = Tail(q) /\ cl'.readSeq = cl.readSeq + 1
  <2>1. /\ m \in Nat /\ m >= 1 /\ DOMAIN q = 1..m
        /\ IsList(r) /\ Len(r) = m - 1 /\ DOMAIN r = 1..(m - 1)
    BY <1>4, <1>5, <1>7, ListShape, ListTail
  <2>2. \A i \in 1..(m - 1) : r[i] = q[i + 1]
    BY <1>4, <1>5, <1>7, ListTail
  <2>3. \A i \in DOMAIN r : OutPacket(r[i], cl.readSeq + i - 1)'
    <3>1. TAKE i \in DOMAIN r
    <3>2. PICK p, n : p = r[i] /\ n = cl.readSeq + 1 + i - 1
      OBVIOUS
    <3>3. i \in Nat /\ i + 1 \in DOMAIN q /\ p = q[i + 1]
      BY <2>1, <2>2, <3>2
    <3>4. n = cl.readSeq + (i + 1) - 1
      BY <3>2, <3>3
    <3>5. OutPacket(p, n)'
      BY <1>3, <1>5, <3>3, <3>4
    <3>6. cl'.readSeq + i - 1 = n
      BY <1>7, <3>2
    <3> QED BY <3>2, <3>5, <3>6
  <2>4. cl'.readSeq + Len(r) = sv'.writeSeq
    <3>1. m \in Nat /\ Len(r) = m - 1 /\ cl.readSeq + m = sv.writeSeq
      BY <1>5, <2>1
    <3>2. cl'.readSeq = cl.readSeq + 1 /\ sv'.writeSeq = sv.writeSeq
      BY <1>2, <1>7
    <3> QED BY <3>1, <3>2
  <2> QED BY <1>4, <2>1, <2>3, <2>4 DEF OutInv
<1> QED BY <1>4, <1>6, <1>7

(* The head of the client's queue.                                         *)
LEMMA HeadOut ==
  ASSUME TransportIndInv, toClient # <<>>
  PROVE  OutPacket(Head(toClient), cl.readSeq)
<1>1. IsList(toClient) /\ \A i \in DOMAIN toClient : OutPacket(toClient[i], cl.readSeq + i - 1)
  BY DEF TransportIndInv, OutInv
<1>2. Head(toClient) = toClient[1] /\ 1 \in DOMAIN toClient
  BY <1>1, ListTail, ListShape
<1>3. cl.readSeq + 1 - 1 = cl.readSeq
  <2>1. cl.readSeq \in Nat
    BY DEF TransportIndInv, ClientInv
  <2> QED BY <2>1
<1>4. PICK n, p : n = cl.readSeq + 1 - 1 /\ p = Head(toClient)
  OBVIOUS
<1>5. OutPacket(p, n)
  BY <1>1, <1>2, <1>4
<1> QED BY <1>3, <1>4, <1>5

(* A client that stays, goes on behind the exchange, or departs.           *)
LEMMA ClientOn ==
  ASSUME ClientInv, ServerWaits, DOMAIN cl' = ClientFields,
         cl'.at \in {cl.at} \cup SecureClient \cup Departed,
         cl'.at \in Departed => cl.at # "hello",
         cl'.at = cl.at => cl'.readSeq = cl.readSeq \/ cl.at \in SecureClient,
         cl'.at \in SecureClient => cl.at \in SecureClient,
         cl'.request = cl.request, cl'.kex = cl.kex, cl'.encr = cl.encr, cl'.group = cl.group,
         cl'.hash = cl.hash, cl'.readKey = cl.readKey,
         cl'.readSeq \in Nat, cl'.readSeq >= cl.readSeq, cl'.bad \in BOOLEAN,
         cl'.writeSeq \in Nat, cl'.writeSeq >= cl.writeSeq, cl.at = "hello" => cl'.writeSeq = 0,
         cl'.noOps \in 0..NoOpBound, cl'.sent \in 0..DataBound
  PROVE  ClientInv'
<1>1. Chosen' = Chosen /\ Switch' = Switch /\ (sv.requested => Sizes(sv.group)' = Sizes(sv.group))
  BY Waiting
<1>2. sv' = sv /\ hello' = hello
  BY DEF ServerWaits
<1>3. Switch \in Nat
  BY DEF Switch
<1> HIDE DEF Chosen, Switch, Sizes
<1>4. Replied' <=> Replied
  BY <1>1, <1>2 DEF Replied
<1> HIDE DEF Replied
<1>5. cl'.at \in ClPlaces
  BY DEF ClientInv, ClPlaces, SecureClient, Departed
<1>6. cl'.at \in Departed => /\ cl'.at \notin Early \cup SecureClient \cup {"newkeys"}
                             /\ cl'.at \notin {"hello", "server hello", "group", "reply"}
  BY DEF Departed, Early, SecureClient
<1>7. cl'.at # "hello" => cl'.request \in Requests /\ cl'.writeSeq >= (IF hello'.guess THEN 2 ELSE 1)
  <2>1. cl'.at # "hello" => cl.at # "hello"
    BY DEF SecureClient, Departed
  <2>2. PICK n : n = IF hello.guess THEN 2 ELSE 1
    OBVIOUS
  <2>3. n \in Nat
    BY <2>2
  <2>4. cl.at # "hello" => cl.request \in Requests /\ cl.writeSeq >= n
    BY <2>2 DEF ClientInv
  <2>5. cl.writeSeq \in Nat
    BY DEF ClientInv
  <2> QED BY <1>2, <2>1, <2>2, <2>3, <2>4, <2>5
<1>8. CASE cl'.at \in Departed
  <2> HIDE DEF Departed, Early, SecureClient
  <2> QED BY <1>2, <1>5, <1>6, <1>7, <1>8 DEF ClientInv
<1>9. CASE cl'.at \in SecureClient
  <2>1. cl.at \in SecureClient
    BY <1>9
  <2>2. cl'.at \notin {"hello", "server hello", "group", "reply", "newkeys"} \cup Early
        /\ cl.at \notin {"hello", "server hello"} \cup Departed
    BY <1>9, <2>1 DEF SecureClient, Early, Departed
  <2>3. /\ cl.kex = Chosen.kex /\ cl.encr = <<Chosen.in, Chosen.out>>
        /\ None \notin {Chosen.kex, Chosen.in, Chosen.out}
    BY <2>2 DEF ClientInv
  <2>4. /\ Replied /\ cl.readSeq > Switch /\ cl.hash = sv.hash
        /\ cl.readKey = <<cl.encr[2], sv.hash, "D">> /\ cl.readSeq \in Nat
    BY <2>1 DEF ClientInv
  <2>5. cl'.readSeq > Switch'
    <3>1. PICK n, m : n = Switch /\ m = cl'.readSeq
      OBVIOUS
    <3> QED BY <1>1, <1>3, <2>4, <3>1
  <2> HIDE DEF Departed, Early, SecureClient
  <2> QED BY <1>1, <1>2, <1>4, <1>5, <1>7, <2>2, <2>3, <2>4, <2>5 DEF ClientInv
<1>10. CASE cl'.at = cl.at /\ cl'.at \notin SecureClient \cup Departed
  <2>1. cl'.readSeq = cl.readSeq
    BY <1>10
  <2>2. /\ cl.at \in Early \cup {"newkeys"} => cl.readKey = Plain
        /\ cl.at \in {"hello", "server hello"} => cl.readSeq = 0
        /\ cl.at = "group" => cl.readSeq = 1 /\ cl.kex # DH
        /\ cl.at = "reply" => cl.readSeq = IF cl.kex = DH THEN 1 ELSE 2
        /\ cl.at = "reply" /\ cl.kex = DH => cl.group = DHDefault
    BY DEF ClientInv
  <2>3. cl.at \notin {"hello", "server hello"} \cup Departed =>
          /\ cl.kex = Chosen.kex /\ cl.encr = <<Chosen.in, Chosen.out>>
          /\ None \notin {Chosen.kex, Chosen.in, Chosen.out}
    BY DEF ClientInv
  <2>4. cl.at = "reply" /\ cl.kex # DH =>
          sv.requested /\ cl.group = sv.group /\ sv.secret = Sizes(sv.group)'
    BY <1>1 DEF ClientInv
  <2>5. cl.at = "newkeys" => Replied /\ cl.readSeq = Switch /\ cl.hash = sv.hash
    BY DEF ClientInv
  <2> HIDE DEF Departed, Early, SecureClient
  <2> QED BY <1>1, <1>2, <1>4, <1>5, <1>7, <1>10, <2>1, <2>2, <2>3, <2>4, <2>5 DEF ClientInv
<1> QED BY <1>8, <1>9, <1>10

(* A message that the client may send with number n as it becomes cl'.     *)
Neutral == {DISCONNECT, IGNORE, SERVICE_REQUEST, USERAUTH_REQUEST, GEX_INIT, CHANNEL_DATA}
Fits(type, body, n) ==
  \/ type \in Neutral
  \/ type = KEXINIT /\ body = hello
  \/ type = CHANNEL_OPEN /\ cl'.at = "open"
  \/ /\ n >= 1 /\ cl'.request \in Requests
     /\ <<type, body>> = FirstOf(IF n = 1 /\ hello.guess THEN hello.kex[1] ELSE Chosen.kex, cl'.request)

(* The first packet of an exchange has one of two types.                   *)
LEMMA FirstType ==
  ASSUME NEW kex, NEW request \in Requests, NEW type, NEW body,
         <<type, body>> = FirstOf(kex, request)
  PROVE  type \in {GEX_REQUEST_OLD, GEX_REQUEST_NEW}
<1>1. request.type \in {GEX_REQUEST_OLD, GEX_REQUEST_NEW}
  BY TransportAssumption, PacketAssumption
<1>2. CASE kex \in {DHE, DHEAlt}
  <2>1. DH \notin {DHE, DHEAlt}
    BY DEF DH, DHE, DHEAlt
  <2>2. FirstOf(kex, request) = <<request.type, request>>
    BY <1>2, <2>1 DEF FirstOf
  <2> QED BY <1>1, <2>2
<1>3. CASE kex \notin {DHE, DHEAlt}
  <2>1. FirstOf(kex, request) \in {<<KEXDH_INIT, Long>>, <<KEXDH_INIT, Short>>}
    BY <1>3 DEF FirstOf
  <2> QED BY <2>1 DEF KEXDH_INIT, GEX_REQUEST_OLD
<1> QED BY <1>2, <1>3

(* Such a message, as a packet.                                            *)
LEMMA FitsIs ==
  ASSUME NEW type, NEW body, NEW n, Fits(type, body, n), NEW p, NEW key,
         IsPacket(p, type, body, key, n), hello' = hello, lists' = lists
  PROVE  /\ InPacket(p, n)' /\ p.type # NEWKEYS
         /\ p.type = CHANNEL_OPEN => type = CHANNEL_OPEN
<1>1. p.type = type /\ p.body = body /\ p.key = key /\ p.mac = <<key, n>>
  BY DEF IsPacket
<1>2. Chosen' = Chosen
  BY ChosenKept
<1> HIDE DEF Chosen
<1>3. CASE type \in Neutral
  <2>1. type \in (1..100) \ {KEXINIT, GEX_REQUEST_OLD, GEX_REQUEST_NEW, NEWKEYS, CHANNEL_OPEN}
    BY <1>3 DEF Neutral, DISCONNECT, IGNORE, SERVICE_REQUEST, KEXINIT, NEWKEYS, GEX_REQUEST_OLD,
                GEX_INIT, GEX_REQUEST_NEW, USERAUTH_REQUEST, CHANNEL_OPEN, CHANNEL_DATA
  <2> QED BY <1>1, <2>1 DEF InPacket
<1>4. CASE type = KEXINIT /\ body = hello
  <2>1. type \in (1..100) \ {GEX_REQUEST_OLD, GEX_REQUEST_NEW, NEWKEYS, CHANNEL_OPEN}
    BY <1>4 DEF KEXINIT, NEWKEYS, GEX_REQUEST_OLD, GEX_REQUEST_NEW, CHANNEL_OPEN
  <2> QED BY <1>1, <1>4, <2>1 DEF InPacket
<1>5. CASE type = CHANNEL_OPEN /\ cl'.at = "open"
  <2>1. type \in (1..100) \ {KEXINIT, GEX_REQUEST_OLD, GEX_REQUEST_NEW, NEWKEYS}
    BY <1>5 DEF KEXINIT, NEWKEYS, GEX_REQUEST_OLD, GEX_REQUEST_NEW, CHANNEL_OPEN
  <2> QED BY <1>1, <1>5, <2>1 DEF InPacket
<1>6. CASE /\ n >= 1 /\ cl'.request \in Requests
           /\ <<type, body>> = FirstOf(IF n = 1 /\ hello.guess THEN hello.kex[1] ELSE Chosen.kex, cl'.request)
  <2>1. PICK kex, request : /\ kex = IF n = 1 /\ hello.guess THEN hello.kex[1] ELSE Chosen.kex
                            /\ request = cl'.request
    OBVIOUS
  <2>2. <<type, body>> = FirstOf(kex, request) /\ request \in Requests
    BY <1>6, <2>1
  <2>3. type \in {GEX_REQUEST_OLD, GEX_REQUEST_NEW}
    BY <2>2, FirstType
  <2>4. type \in (1..100) \ {KEXINIT, NEWKEYS, CHANNEL_OPEN}
    BY <2>3 DEF KEXINIT, NEWKEYS, GEX_REQUEST_OLD, GEX_REQUEST_NEW, CHANNEL_OPEN
  <2>5. <<p.type, p.body>> = FirstOf(IF n = 1 /\ hello'.guess THEN hello'.kex[1] ELSE Chosen'.kex, cl'.request)
    BY <1>1, <1>2, <2>1, <2>2
  <2>6. \A k, r : FirstOf(k, r)' = FirstOf(k, r)
    BY DEF FirstOf
  <2> QED BY <1>1, <1>6, <2>4, <2>5 DEF InPacket
<1> QED BY <1>3, <1>4, <1>5, <1>6 DEF Fits

(* The client sends the packets q, its NEWKEYS not among them.             *)
LEMMA Speaks ==
  ASSUME InInv, ServerWaits, sv.readSeq \in Nat, cl.writeSeq \in Nat,
         NEW q, IsList(q), toServer' = toServer \o q, cl'.writeSeq = cl.writeSeq + Len(q),
         cl'.writeKey = cl.writeKey, cl'.at \in Early => cl.at \in Early,
         cl.at \in {"open", "data"} \cup Departed => cl'.at \in {"open", "data"} \cup Departed,
         cl'.request = cl.request \/ cl.writeSeq = 0,
         cl.at \in {"open", "data"} \cup Departed => \A i \in 1..Len(q) : q[i].type \in AfterOpen,
         \A i \in 1..Len(q) : /\ q[i].key = cl.writeKey /\ q[i].type # NEWKEYS
                              /\ q[i].type = CHANNEL_OPEN => i = Len(q),
         \A n : \A i \in 1..Len(q) : n = cl.writeSeq + i - 1 => InPacket(q[i], n)'
  PROVE  InInv'
<1>1. PICK s, t, m, k : s = toServer /\ t = toServer' /\ m = Len(s) /\ k = Len(q)
  OBVIOUS
<1>2. /\ IsList(s) /\ sv.readSeq + m = cl.writeSeq
      /\ \A i \in DOMAIN s : InPacket(s[i], sv.readSeq + i - 1)
  BY <1>1 DEF InInv
<1>3. /\ m \in Nat /\ k \in Nat /\ DOMAIN s = 1..m /\ IsList(t) /\ Len(t) = m + k
      /\ DOMAIN t = 1..(m + k)
  BY <1>1, <1>2, ListShape, ListConcat
<1>4. \A i \in 1..m : t[i] = s[i]
  BY <1>1, <1>2, ListConcat
<1>5. \A i \in 1..k : t[m + i] = q[i]
  BY <1>1, <1>2, ListConcat
<1>6. \A i \in 1..(m + k) : \/ i \in 1..m /\ t[i] = s[i]
                            \/ i > m /\ \E j \in 1..k : i = m + j /\ t[i] = q[j]
  <2>1. TAKE i \in 1..(m + k)
  <2>2. CASE i <= m
    BY <1>3, <1>4, <2>2
  <2>3. CASE i > m
    <3>1. PICK j : j = i - m
      OBVIOUS
    <3>2. j \in 1..k /\ i = m + j
      BY <1>3, <2>3, <3>1
    <3> QED BY <1>5, <2>3, <3>2
  <2> QED BY <1>3, <2>2, <2>3
<1>7. Chosen' = Chosen /\ sv' = sv /\ hello' = hello /\ InKey' = InKey
  BY Waiting DEF ServerWaits
<1>8. ASSUME NEW p, NEW n, InPacket(p, n), cl'.request = cl.request
      PROVE  InPacket(p, n)'
  <2>1. Switch' = Switch
    BY Waiting
  <2>2. Replied' <=> Replied
    BY <1>7, <2>1 DEF Replied
  <2>3. \A x, y : FirstOf(x, y)' = FirstOf(x, y)
    BY DEF FirstOf
  <2> HIDE DEF Chosen, Replied, FirstOf, Early, Departed
  <2>4. p.type \in {GEX_REQUEST_OLD, GEX_REQUEST_NEW} =>
          /\ n >= 1
          /\ <<p.type, p.body>> =
               FirstOf(IF n = 1 /\ hello.guess THEN hello.kex[1] ELSE Chosen.kex, cl.request)
    BY <1>8 DEF InPacket
  <2>5. p.type \in {GEX_REQUEST_OLD, GEX_REQUEST_NEW} =>
          /\ n >= 1
          /\ <<p.type, p.body>> =
               FirstOf(IF n = 1 /\ hello'.guess THEN hello'.kex[1] ELSE Chosen'.kex, cl'.request)
    BY <1>7, <1>8, <2>4
  <2>6. p.type = NEWKEYS =>
          /\ sv'.at \in {"newkeys", "ended"} /\ Replied' /\ cl'.at \notin Early
          /\ cl'.writeKey = <<Chosen'.in, sv'.hash, "C">>
    BY <1>7, <1>8, <2>2 DEF InPacket
  <2>7. p.type = CHANNEL_OPEN => cl'.at \in {"open", "data"} \cup Departed
    BY <1>8 DEF InPacket
  <2>8. p.type \in 1..100 /\ p.mac = <<p.key, n>> /\ (p.type = KEXINIT => p.body = hello')
    BY <1>7, <1>8 DEF InPacket
  <2> QED BY <2>5, <2>6, <2>7, <2>8 DEF InPacket
<1>9. \A i \in 1..(m + k) : InPacket(t[i], sv.readSeq + i - 1)'
  <2>1. TAKE i \in 1..(m + k)
  <2>2. PICK p, n : p = t[i] /\ n = sv.readSeq + i - 1
    OBVIOUS
  <2>3. CASE i \in 1..m /\ t[i] = s[i]
    <3>1. InPacket(p, n)
      BY <1>2, <1>3, <2>2, <2>3
    <3>2. cl.writeSeq # 0
      BY <1>2, <1>3, <2>3
    <3>3. InPacket(p, n)'
      BY <1>8, <3>1, <3>2
    <3> QED BY <1>7, <2>2, <3>3
  <2>4. CASE i > m /\ \E j \in 1..k : i = m + j /\ t[i] = q[j]
    <3>1. PICK j \in 1..k : i = m + j /\ t[i] = q[j]
      BY <2>4
    <3>2. j \in Nat
      BY <1>3, <3>1
    <3>3. n = cl.writeSeq + j - 1
      BY <1>2, <1>3, <2>2, <3>1, <3>2
    <3>4. p = q[j]
      BY <2>2, <3>1
    <3>5. InPacket(p, n)'
      BY <1>1, <3>1, <3>3, <3>4
    <3> QED BY <1>7, <2>2, <3>5
  <2> QED BY <1>6, <2>3, <2>4
<1>10. \A i \in 1..m : s[i].type = NEWKEYS => cl.at \notin Early
  BY <1>2, <1>3 DEF InPacket
<1>11. \A i \in 1..m : s[i].type = CHANNEL_OPEN => cl.at \in {"open", "data"} \cup Departed
  BY <1>2, <1>3 DEF InPacket
<1>12. KeysInOrder(s)
  BY <1>1 DEF InInv
<1>13. KeysInOrder(t)'
  <2>1. SUFFICES ASSUME NEW i \in 1..(m + k), NEW j \in 1..(m + k)
                 PROVE  /\ t[i].type = NEWKEYS => t[j].key = (IF j <= i THEN Plain ELSE cl.writeKey)
                        /\ t[i].type = NEWKEYS /\ t[j].type = NEWKEYS => i = j
                        /\ t[i].type = CHANNEL_OPEN /\ i < j => t[j].type \in AfterOpen
    BY <1>3 DEF KeysInOrder
  <2>2. CASE i \in 1..m /\ t[i] = s[i] /\ j \in 1..m /\ t[j] = s[j]
    BY <1>3, <1>12, <2>2 DEF KeysInOrder
  <2>3. CASE i \in 1..m /\ t[i] = s[i] /\ j > m /\ \E b \in 1..k : j = m + b /\ t[j] = q[b]
    <3>1. PICK b \in 1..k : j = m + b /\ t[j] = q[b]
      BY <2>3
    <3>2. ~(j <= i)
      BY <1>3, <2>3, <3>1
    <3>3. t[j].key = cl.writeKey /\ t[j].type # NEWKEYS
      BY <1>1, <3>1
    <3>4. t[i].type = CHANNEL_OPEN => t[j].type \in AfterOpen
      BY <1>1, <1>11, <2>3, <3>1
    <3> QED BY <3>2, <3>3, <3>4
  <2>4. CASE i > m /\ \E b \in 1..k : i = m + b /\ t[i] = q[b]
    <3>1. PICK b \in 1..k : i = m + b /\ t[i] = q[b]
      BY <2>4
    <3>2. t[i].type # NEWKEYS
      BY <1>1, <3>1
    <3>3. t[i].type = CHANNEL_OPEN => i = m + k
      BY <1>1, <3>1
    <3>4. ~(m + k < j)
      BY <1>3
    <3> QED BY <3>2, <3>3, <3>4
  <2> QED BY <1>6, <2>2, <2>3, <2>4
<1>14. sv'.readSeq + Len(t) = cl'.writeSeq
  BY <1>1, <1>2, <1>3, <1>7
<1>15. cl'.at \in Early => /\ cl'.writeKey = Plain
                           /\ \A i \in 1..(m + k) : t[i].key = Plain
  <2>1. SUFFICES ASSUME cl'.at \in Early
                 PROVE  cl'.writeKey = Plain /\ \A i \in 1..(m + k) : t[i].key = Plain
    OBVIOUS
  <2>2. cl.at \in Early
    BY <2>1
  <2>3. cl.writeKey = Plain /\ \A i \in 1..m : s[i].key = Plain
    BY <1>1, <1>3, <2>2 DEF InInv
  <2> QED BY <1>1, <1>6, <2>3
<1>16. sv'.at \in BeforeReply \cup {"newkeys"} => sv'.readKey = Plain
  BY <1>7 DEF InInv
<1>17. sv'.at \in Secure => sv'.readKey = InKey' /\ cl'.at \notin Early
  BY <1>7 DEF InInv
<1>18. sv'.at # "ended" /\ (\A i \in 1..(m + k) : t[i].type # NEWKEYS) =>
         cl'.writeKey = sv'.readKey /\ \A i \in 1..(m + k) : t[i].key = sv'.readKey
  <2>1. SUFFICES ASSUME sv.at # "ended", \A i \in 1..(m + k) : t[i].type # NEWKEYS
                 PROVE  cl'.writeKey = sv.readKey /\ \A i \in 1..(m + k) : t[i].key = sv.readKey
    BY <1>7
  <2>2. \A i \in 1..m : s[i].type # NEWKEYS
    <3>1. TAKE i \in 1..m
    <3>2. i \in 1..(m + k)
      BY <1>3
    <3> QED BY <1>4, <2>1, <3>2
  <2>3. cl.writeKey = sv.readKey /\ \A i \in 1..m : s[i].key = sv.readKey
    BY <1>1, <1>3, <2>1, <2>2 DEF InInv, NoNewKeys
  <2> QED BY <1>1, <1>6, <2>3
<1>19. sv'.at = "data" =>
         /\ cl'.at \in {"open", "data"} \cup Departed
         /\ \A i \in 1..(m + k) : t[i].type \in AfterOpen
  <2>1. SUFFICES ASSUME sv.at = "data"
                 PROVE  /\ cl'.at \in {"open", "data"} \cup Departed
                        /\ \A i \in 1..(m + k) : t[i].type \in AfterOpen
    BY <1>7
  <2>2. cl.at \in {"open", "data"} \cup Departed /\ \A i \in 1..m : s[i].type \in AfterOpen
    BY <1>1, <1>3, <2>1 DEF InInv
  <2> QED BY <1>1, <1>6, <2>2
<1>20. \A i \in DOMAIN t : InPacket(t[i], sv.readSeq + i - 1)'
  BY <1>3, <1>9
<1> HIDE DEF InKey, Early, Departed, BeforeReply, Secure, AfterOpen
<1> QED BY <1>1, <1>3, <1>13, <1>14, <1>15, <1>16, <1>17, <1>18, <1>19, <1>20 DEF InInv, NoNewKeys

(* The client becomes c and neither its keys nor its request change.       *)
Continues(c) ==
  /\ DOMAIN c = ClientFields
  /\ c.writeKey = cl.writeKey /\ c.writeSeq = cl.writeSeq /\ c.request = cl.request
  /\ c.at \in Early => cl.at \in Early
  /\ cl.at \in {"open", "data"} \cup Departed => c.at \in {"open", "data"} \cup Departed

(* Then the client is c, with n packets more sent.                         *)
Said(c, n) ==
  /\ ServerWaits /\ DOMAIN cl' = ClientFields /\ cl'.writeSeq = cl.writeSeq + n
  /\ \A f \in ClientFields \ {"writeSeq"} : cl'[f] = c[f]

(* The client says one thing.                                              *)
LEMMA SaidOne ==
  ASSUME cl.writeSeq \in Nat, NEW c, Continues(c), NEW type, NEW body,
         NEW msgs, msgs = <<<<type, body>>>>, Say(c, msgs)
  PROVE  Said(c, 1)
<1>1. c.writeSeq = cl.writeSeq /\ DOMAIN c = ClientFields /\ c.request = cl.request
  BY DEF Continues
<1>2. PICK q : q = Packets(c, <<<<type, body>>>>)
  OBVIOUS
<1>3. Len(<<<<type, body>>>>) = 1
  OBVIOUS
<1>4. /\ DOMAIN cl' = ClientFields
      /\ cl'.writeSeq = c.writeSeq + Len(msgs)
      /\ \A f \in ClientFields \ {"writeSeq"} : cl'[f] = c[f]
      /\ UNCHANGED <<ini, lists, hello, sv>>
  BY <1>1, SayIs
<1>5. cl'.request = cl.request
  BY <1>1, <1>4 DEF ClientFields
<1> QED BY <1>1, <1>3, <1>4, <1>5 DEF Said, ServerWaits

(* It may say it.                                                          *)
LEMMA OneFits ==
  ASSUME InInv, sv.readSeq \in Nat, cl.writeSeq \in Nat, NEW c, Continues(c), NEW type, NEW body,
         NEW msgs, msgs = <<<<type, body>>>>, Say(c, msgs), Fits(type, body, cl.writeSeq),
         cl.at \in {"open", "data"} \cup Departed => type \in AfterOpen
  PROVE  InInv'
<1>1. Said(c, 1)
  BY SaidOne
<1>2. c.writeSeq = cl.writeSeq /\ c.writeKey = cl.writeKey /\ DOMAIN c = ClientFields /\ c.request = cl.request
  BY DEF Continues
<1>3. PICK q : q = Packets(c, msgs)
  OBVIOUS
<1>4. c.writeSeq \in Nat /\ q = Packets(c, <<<<type, body>>>>)
  BY <1>2, <1>3
<1>5. IsList(q) /\ Len(q) = 1 /\ IsPacket(q[1], type, body, c.writeKey, c.writeSeq)
  BY <1>4, OnePacket
<1>6. toServer' = toServer \o q
  BY <1>2, <1>3, SayIs
<1>7. ServerWaits /\ cl'.writeSeq = cl.writeSeq + Len(q)
      /\ \A f \in ClientFields \ {"writeSeq"} : cl'[f] = c[f]
  BY <1>1, <1>5 DEF Said
<1>8. cl'.writeKey = cl.writeKey /\ cl'.at = c.at /\ cl'.request = cl.request
  BY <1>2, <1>7 DEF ClientFields
<1>9. PICK p, n, key : p = q[1] /\ n = cl.writeSeq /\ key = cl.writeKey
  OBVIOUS
<1>10. IsPacket(p, type, body, key, n)
  BY <1>2, <1>5, <1>9
<1>11. hello' = hello /\ lists' = lists
  BY <1>7 DEF ServerWaits
<1>12. InPacket(p, n)' /\ p.type # NEWKEYS /\ (p.type = CHANNEL_OPEN => type = CHANNEL_OPEN)
  BY <1>9, <1>10, <1>11, FitsIs
<1>13. p.key = key /\ p.type = type
  BY <1>10 DEF IsPacket
<1>14. \A i \in 1..Len(q) : q[i] = p /\ i = 1 /\ i = Len(q) /\ cl.writeSeq + i - 1 = n
  BY <1>5, <1>9
<1>15. \A i \in 1..Len(q) : /\ q[i].key = cl.writeKey /\ q[i].type # NEWKEYS
                            /\ q[i].type = CHANNEL_OPEN => i = Len(q)
  BY <1>9, <1>12, <1>13, <1>14
<1>16. \A k : \A i \in 1..Len(q) : k = cl.writeSeq + i - 1 => InPacket(q[i], k)'
  BY <1>12, <1>14
<1>17. cl.at \in {"open", "data"} \cup Departed => \A i \in 1..Len(q) : q[i].type \in AfterOpen
  BY <1>13, <1>14
<1>18. /\ cl'.at \in Early => cl.at \in Early
       /\ cl.at \in {"open", "data"} \cup Departed => cl'.at \in {"open", "data"} \cup Departed
  BY <1>8 DEF Continues
<1> QED BY <1>5, <1>6, <1>7, <1>8, <1>15, <1>16, <1>17, <1>18, Speaks

(* The client says nothing.                                                *)
LEMMA SaysNothing ==
  ASSUME InInv, sv.readSeq \in Nat, cl.writeSeq \in Nat, NEW c, Continues(c), Say(c, <<>>)
  PROVE  InInv' /\ Said(c, 0)
<1>1. c.writeSeq = cl.writeSeq /\ c.writeKey = cl.writeKey /\ DOMAIN c = ClientFields /\ c.request = cl.request
  BY DEF Continues
<1>2. PICK q : q = Packets(c, <<>>)
  OBVIOUS
<1>3. IsList(q) /\ Len(q) = 0 /\ Len(<<>>) = 0
  BY <1>2, NoPackets
<1>4. /\ toServer' = toServer \o q
      /\ DOMAIN cl' = ClientFields
      /\ cl'.writeSeq = c.writeSeq + 0
      /\ \A f \in ClientFields \ {"writeSeq"} : cl'[f] = c[f]
      /\ UNCHANGED <<ini, lists, hello, sv>>
  BY <1>1, <1>2, <1>3, SayIs
<1>5. cl'.writeKey = cl.writeKey /\ cl'.at = c.at /\ cl'.request = cl.request
  BY <1>1, <1>4 DEF ClientFields
<1>6. ServerWaits /\ cl'.writeSeq = cl.writeSeq + 0
  BY <1>1, <1>4, <1>5 DEF ServerWaits
<1>7. Said(c, 0)
  BY <1>4, <1>6 DEF Said
<1>8. \A i \in 1..Len(q) : FALSE
  BY <1>3
<1>9. /\ cl'.at \in Early => cl.at \in Early
      /\ cl.at \in {"open", "data"} \cup Departed => cl'.at \in {"open", "data"} \cup Departed
  BY <1>5 DEF Continues
<1>10. /\ \A i \in 1..Len(q) : q[i].type \in AfterOpen
       /\ \A i \in 1..Len(q) : /\ q[i].key = cl.writeKey /\ q[i].type # NEWKEYS
                               /\ q[i].type = CHANNEL_OPEN => i = Len(q)
       /\ \A n : \A i \in 1..Len(q) : n = cl.writeSeq + i - 1 => InPacket(q[i], n)'
  BY <1>8
<1>11. cl'.writeSeq = cl.writeSeq + Len(q)
  BY <1>3, <1>6
<1> QED BY <1>3, <1>4, <1>5, <1>6, <1>7, <1>9, <1>10, <1>11, Speaks

(* The fields of a client that has read a packet.                          *)
LEMMA ClientReadIs ==
  ASSUME ClientInv, NEW c, c = ClientRead(cl)
  PROVE  /\ DOMAIN c = ClientFields /\ c.readSeq = cl.readSeq + 1
         /\ \A f \in ClientFields \ {"readSeq"} : c[f] = cl[f]
<1>1. DOMAIN cl = ClientFields
  BY DEF ClientInv
<1>2. c = [cl EXCEPT !.readSeq = cl.readSeq + 1]
  BY DEF ClientRead
<1> QED BY <1>1, <1>2 DEF ClientFields

(* A step of a client that stays, goes on behind the exchange, or departs, *)
(* as it becomes c with n packets sent.                                    *)
GoesOn(c) ==
  /\ Continues(c)
  /\ c.at \in {cl.at} \cup SecureClient \cup Departed
  /\ c.at \in Departed => cl.at # "hello"
  /\ c.at = cl.at => (c.readSeq = cl.readSeq \/ cl.at \in SecureClient) /\ cl.at # "hello"
  /\ c.at \in SecureClient => cl.at \in SecureClient
  /\ c.kex = cl.kex /\ c.encr = cl.encr /\ c.group = cl.group /\ c.hash = cl.hash
  /\ c.readKey = cl.readKey
  /\ c.readSeq \in {cl.readSeq, cl.readSeq + 1} /\ c.bad \in BOOLEAN
  /\ c.noOps \in 0..NoOpBound /\ c.sent \in 0..DataBound

(* The client's part of the invariant after such a step.                   *)
LEMMA ClientGoesOn ==
  ASSUME ClientInv, NEW c, GoesOn(c), NEW n \in Nat, Said(c, n)
  PROVE  ClientInv'
<1>1. /\ cl'.at = c.at /\ cl'.readSeq = c.readSeq /\ cl'.request = c.request /\ cl'.kex = c.kex
      /\ cl'.encr = c.encr /\ cl'.group = c.group /\ cl'.hash = c.hash /\ cl'.readKey = c.readKey
      /\ cl'.bad = c.bad /\ cl'.noOps = c.noOps /\ cl'.sent = c.sent
  BY DEF Said, ClientFields
<1>2. ServerWaits /\ DOMAIN cl' = ClientFields /\ cl'.writeSeq = cl.writeSeq + n
  BY DEF Said
<1>3. cl.readSeq \in Nat /\ cl.writeSeq \in Nat
  BY DEF ClientInv
<1>4. cl.at # "hello"
  BY DEF GoesOn, SecureClient
<1>5. c.request = cl.request
  BY DEF GoesOn, Continues
<1>6. cl'.readSeq \in Nat /\ cl'.readSeq >= cl.readSeq
  BY <1>1, <1>3 DEF GoesOn
<1>7. cl'.writeSeq \in Nat /\ cl'.writeSeq >= cl.writeSeq
  BY <1>2, <1>3
<1>8. /\ cl'.at \in {cl.at} \cup SecureClient \cup Departed
      /\ cl'.at = cl.at => cl'.readSeq = cl.readSeq \/ cl.at \in SecureClient
      /\ cl'.at \in SecureClient => cl.at \in SecureClient
      /\ cl'.kex = cl.kex /\ cl'.encr = cl.encr /\ cl'.group = cl.group
      /\ cl'.hash = cl.hash /\ cl'.readKey = cl.readKey /\ cl'.bad \in BOOLEAN
      /\ cl'.noOps \in 0..NoOpBound /\ cl'.sent \in 0..DataBound
  BY <1>1 DEF GoesOn
<1> QED BY <1>1, <1>2, <1>4, <1>5, <1>6, <1>7, <1>8, ClientOn

(* The whole invariant after such a step with one message.                 *)
LEMMA OneMessage ==
  ASSUME TransportIndInv, NEW c, GoesOn(c), NEW type, NEW body, NEW msgs, msgs = <<<<type, body>>>>,
         Say(c, msgs), Fits(type, body, cl.writeSeq),
         cl.at \in {"open", "data"} \cup Departed => type \in AfterOpen,
         \/ toClient' = toClient /\ c.readSeq = cl.readSeq
         \/ toClient # <<>> /\ toClient' = Tail(toClient) /\ c.readSeq = cl.readSeq + 1
  PROVE  TransportIndInv'
<1>1. ServerInv /\ OutInv /\ ClientInv /\ InInv /\ Continues(c)
  BY DEF TransportIndInv, GoesOn
<1>2. cl.writeSeq \in Nat /\ cl.readSeq \in Nat /\ sv.readSeq \in Nat
  BY <1>1 DEF ClientInv, ServerInv
<1>3. Said(c, 1)
  BY <1>1, <1>2, SaidOne
<1>4. InInv'
  BY <1>1, <1>2, OneFits
<1>5. ClientInv'
  BY <1>1, <1>3, ClientGoesOn
<1>6. ServerWaits /\ cl'.readSeq = c.readSeq
  BY <1>3 DEF Said, ClientFields
<1>7. ServerInv'
  BY <1>1, <1>6, ServerStands
<1>8. OutInv'
  BY <1>1, <1>2, <1>6, OutTaken
<1> QED BY <1>4, <1>5, <1>6, <1>7, <1>8 DEF TransportIndInv, ServerWaits

(* And with none.                                                          *)
LEMMA NoMessage ==
  ASSUME TransportIndInv, NEW c, GoesOn(c), Say(c, <<>>),
         \/ toClient' = toClient /\ c.readSeq = cl.readSeq
         \/ toClient # <<>> /\ toClient' = Tail(toClient) /\ c.readSeq = cl.readSeq + 1
  PROVE  TransportIndInv'
<1>1. ServerInv /\ OutInv /\ ClientInv /\ InInv /\ Continues(c)
  BY DEF TransportIndInv, GoesOn
<1>2. cl.writeSeq \in Nat /\ cl.readSeq \in Nat /\ sv.readSeq \in Nat
  BY <1>1 DEF ClientInv, ServerInv
<1>3. InInv' /\ Said(c, 0)
  BY <1>1, <1>2, SaysNothing
<1>4. ClientInv'
  BY <1>1, <1>3, ClientGoesOn
<1>5. ServerWaits /\ cl'.readSeq = c.readSeq
  BY <1>3 DEF Said, ClientFields
<1>6. ServerInv'
  BY <1>1, <1>5, ServerStands
<1>7. OutInv'
  BY <1>1, <1>2, <1>5, OutTaken
<1> QED BY <1>3, <1>4, <1>5, <1>6, <1>7 DEF TransportIndInv, ServerWaits

(* The client departs as c, which has read a packet or none.               *)
LEMMA Departing ==
  ASSUME TransportIndInv, NEW c, DOMAIN c = ClientFields, \A f \in ClientFields \ {"readSeq"} : c[f] = cl[f],
         cl.at \notin Departed \cup {"hello"}, NEW place \in Departed,
         NEW d, d = [c EXCEPT !.at = place], Say(d, <<<<DISCONNECT, Long>>>>),
         \/ toClient' = toClient /\ c.readSeq = cl.readSeq
         \/ toClient # <<>> /\ toClient' = Tail(toClient) /\ c.readSeq = cl.readSeq + 1
  PROVE  TransportIndInv'
<1>1. ClientInv
  BY DEF TransportIndInv
<1>2. /\ DOMAIN d = ClientFields /\ d.at = place
      /\ \A f \in ClientFields \ {"at"} : d[f] = c[f]
  BY DEF ClientFields
<1>3. d.readSeq = c.readSeq
  BY <1>2 DEF ClientFields
<1>4. \A f \in ClientFields \ {"at", "readSeq"} : d[f] = cl[f]
  BY <1>2
<1>5. place \notin Early \cup SecureClient
  BY DEF Departed, Early, SecureClient
<1>6. Continues(d)
  <2>1. d.writeKey = cl.writeKey /\ d.writeSeq = cl.writeSeq /\ d.request = cl.request
    BY <1>4 DEF ClientFields
  <2> QED BY <1>2, <1>5, <2>1 DEF Continues
<1>7. GoesOn(d)
  <2>1. /\ d.kex = cl.kex /\ d.encr = cl.encr /\ d.group = cl.group /\ d.hash = cl.hash
        /\ d.readKey = cl.readKey /\ d.bad = cl.bad /\ d.noOps = cl.noOps /\ d.sent = cl.sent
    BY <1>4 DEF ClientFields
  <2>2. cl.bad \in BOOLEAN /\ cl.noOps \in 0..NoOpBound /\ cl.sent \in 0..DataBound
    BY <1>1 DEF ClientInv
  <2>3. d.readSeq \in {cl.readSeq, cl.readSeq + 1}
    BY <1>3
  <2> QED BY <1>2, <1>5, <1>6, <2>1, <2>2, <2>3 DEF GoesOn
<1>8. PICK body, msgs, type : body = Long /\ msgs = <<<<DISCONNECT, Long>>>> /\ type = DISCONNECT
  OBVIOUS
<1>9. Fits(type, body, cl.writeSeq) /\ type \in AfterOpen
  BY <1>8 DEF Fits, Neutral, AfterOpen
<1>10. msgs = <<<<type, body>>>> /\ Say(d, msgs)
  BY <1>8
<1> QED BY <1>3, <1>7, <1>9, <1>10, OneMessage

(* The client gives up at a packet it does not take.                       *)
LEMMA GivesUp ==
  ASSUME TransportIndInv, ClientTakes, cl.at \notin Departed \cup {"hello"}, GiveUp(ClientRead(cl))
  PROVE  TransportIndInv'
<1>1. PICK c, d, place : c = ClientRead(cl) /\ place = "gave up" /\ d = [c EXCEPT !.at = place]
  OBVIOUS
<1>2. /\ DOMAIN c = ClientFields /\ c.readSeq = cl.readSeq + 1
      /\ \A f \in ClientFields \ {"readSeq"} : c[f] = cl[f]
  BY <1>1, ClientReadIs DEF TransportIndInv
<1>3. Say(d, <<<<DISCONNECT, Long>>>>)
  BY <1>1 DEF GiveUp
<1>4. place \in Departed
  BY <1>1 DEF Departed
<1>5. toClient # <<>> /\ toClient' = Tail(toClient)
  BY DEF ClientTakes
<1> QED BY <1>1, <1>2, <1>3, <1>4, <1>5, Departing

(* The client leaves.                                                      *)
LEMMA ClientLeavesKeeps ==
  ASSUME TransportIndInv, ClientLeaves
  PROVE  TransportIndInv'
<1>1. PICK d, place : place = "left" /\ d = [cl EXCEPT !.at = place]
  OBVIOUS
<1>2. Say(d, <<<<DISCONNECT, Long>>>>) /\ toClient' = toClient
  BY <1>1 DEF ClientLeaves, Leave
<1>3. cl.at \notin Departed \cup {"hello"} /\ place \in Departed
  BY <1>1 DEF ClientLeaves, Departed
<1>4. DOMAIN cl = ClientFields
  BY DEF TransportIndInv, ClientInv
<1> QED BY <1>1, <1>2, <1>3, <1>4, Departing

(* A no-op.                                                                *)
LEMMA ClientSendsNoOpKeeps ==
  ASSUME TransportIndInv, ClientSendsNoOp
  PROVE  TransportIndInv'
<1>1. PICK c, body, type, msgs : /\ c = [cl EXCEPT !.noOps = @ + 1]
                                 /\ body = Long /\ type = IGNORE /\ msgs = <<<<IGNORE, Long>>>>
  OBVIOUS
<1>2. /\ cl.at \in {"reply", "accept"} /\ cl.noOps < NoOpBound
      /\ Say(c, msgs) /\ toClient' = toClient
  BY <1>1 DEF ClientSendsNoOp
<1>3. /\ DOMAIN cl = ClientFields /\ cl.bad \in BOOLEAN /\ cl.noOps \in 0..NoOpBound
      /\ cl.sent \in 0..DataBound
  BY DEF TransportIndInv, ClientInv
<1>4. /\ DOMAIN c = ClientFields /\ c.noOps = cl.noOps + 1
      /\ \A f \in ClientFields \ {"noOps"} : c[f] = cl[f]
  BY <1>1, <1>3 DEF ClientFields
<1>5. /\ c.at = cl.at /\ c.readSeq = cl.readSeq /\ c.writeKey = cl.writeKey
      /\ c.writeSeq = cl.writeSeq /\ c.request = cl.request
      /\ c.kex = cl.kex /\ c.encr = cl.encr /\ c.group = cl.group /\ c.hash = cl.hash
      /\ c.readKey = cl.readKey /\ c.bad = cl.bad /\ c.sent = cl.sent
  BY <1>4 DEF ClientFields
<1>6. c.noOps \in 0..NoOpBound
  BY <1>2, <1>3, <1>4, TransportAssumption, PacketAssumption
<1>7. Continues(c)
  BY <1>4, <1>5 DEF Continues
<1>8. GoesOn(c)
  BY <1>2, <1>3, <1>5, <1>6, <1>7 DEF GoesOn, Departed
<1>9. Fits(type, body, cl.writeSeq) /\ msgs = <<<<type, body>>>>
  BY <1>1 DEF Fits, Neutral
<1>10. cl.at \notin {"open", "data"} \cup Departed
  BY <1>2 DEF Departed
<1> QED BY <1>2, <1>5, <1>8, <1>9, <1>10, OneMessage

(* Data of the open session.                                               *)
LEMMA ClientSendsDataKeeps ==
  ASSUME TransportIndInv, ClientSendsData
  PROVE  TransportIndInv'
<1>1. PICK c, body, type, msgs : /\ c = [cl EXCEPT !.sent = @ + 1]
                                 /\ body = Long /\ type = CHANNEL_DATA
                                 /\ msgs = <<<<CHANNEL_DATA, Long>>>>
  OBVIOUS
<1>4. /\ cl.at = "data" /\ cl.sent < DataBound
      /\ Say(c, msgs) /\ toClient' = toClient
  BY <1>1 DEF ClientSendsData
<1>5. /\ DOMAIN cl = ClientFields /\ cl.bad \in BOOLEAN /\ cl.noOps \in 0..NoOpBound
      /\ cl.sent \in 0..DataBound
  BY DEF TransportIndInv, ClientInv
<1>6. /\ DOMAIN c = ClientFields /\ c.sent = cl.sent + 1
      /\ \A f \in ClientFields \ {"sent"} : c[f] = cl[f]
  BY <1>1, <1>5 DEF ClientFields
<1>7. /\ c.at = cl.at /\ c.readSeq = cl.readSeq /\ c.writeKey = cl.writeKey
      /\ c.writeSeq = cl.writeSeq /\ c.request = cl.request
      /\ c.kex = cl.kex /\ c.encr = cl.encr /\ c.group = cl.group /\ c.hash = cl.hash
      /\ c.readKey = cl.readKey /\ c.bad = cl.bad /\ c.noOps = cl.noOps
  BY <1>6 DEF ClientFields
<1>8. c.sent \in 0..DataBound
  BY <1>4, <1>5, <1>6, TransportAssumption, PacketAssumption
<1>9. Continues(c)
  BY <1>6, <1>7 DEF Continues
<1>10. GoesOn(c)
  BY <1>4, <1>5, <1>7, <1>8, <1>9 DEF GoesOn, Departed
<1>11. Fits(type, body, cl.writeSeq) /\ type \in AfterOpen /\ msgs = <<<<type, body>>>>
  BY <1>1 DEF Fits, Neutral, AfterOpen
<1> QED BY <1>4, <1>7, <1>10, <1>11, OneMessage

(* A packet that the client reads in an open session, or behind the        *)
(* exchange, and that it answers with nothing.                             *)
LEMMA ReadsOn ==
  ASSUME TransportIndInv, ClientTakes, cl.at \in SecureClient, NEW at \in SecureClient \cup Departed,
         NEW bad \in BOOLEAN, NEW c, NEW r, r = ClientRead(cl),
         DOMAIN c = ClientFields, c.at = at, c.bad = bad,
         \A f \in ClientFields \ {"at", "bad"} : c[f] = r[f],
         cl.at \in {"open", "data"} => at \in {"open", "data"} \cup Departed
  PROVE  GoesOn(c) /\ c.readSeq = cl.readSeq + 1
<1>1. /\ DOMAIN r = ClientFields /\ r.readSeq = cl.readSeq + 1
      /\ \A f \in ClientFields \ {"readSeq"} : r[f] = cl[f]
  BY ClientReadIs DEF TransportIndInv
<1>2. /\ c.readSeq = cl.readSeq + 1 /\ c.writeKey = cl.writeKey
      /\ c.writeSeq = cl.writeSeq /\ c.request = cl.request
      /\ c.kex = cl.kex /\ c.encr = cl.encr /\ c.group = cl.group /\ c.hash = cl.hash
      /\ c.readKey = cl.readKey /\ c.noOps = cl.noOps /\ c.sent = cl.sent
  BY <1>1 DEF ClientFields
<1>3. cl.noOps \in 0..NoOpBound /\ cl.sent \in 0..DataBound
  BY DEF TransportIndInv, ClientInv
<1>4. at \notin Early /\ cl.at \notin Departed \cup {"hello"}
  BY DEF SecureClient, Departed, Early
<1>5. Continues(c)
  BY <1>2, <1>4 DEF Continues
<1> QED BY <1>2, <1>3, <1>4, <1>5 DEF GoesOn

(* The answers of the server behind the exchange.                          *)
LEMMA ClientProceedsKeeps ==
  ASSUME TransportIndInv, ClientProceeds
  PROVE  TransportIndInv'
<1>1. PICK r, p, d : r = ClientRead(cl) /\ p = Head(toClient) /\ d = Dialogue[cl.at]
  OBVIOUS
<1>2. /\ cl.at \in DOMAIN Dialogue /\ ClientTakes
      /\ IF ~Authentic(cl, p) THEN Say([r EXCEPT !.bad = TRUE, !.at = "gave up"], <<>>)
         ELSE IF p.type # d.answer THEN GiveUp(r) ELSE Say([r EXCEPT !.at = d.next], d.says)
  BY <1>1, Zenon DEF ClientProceeds
<1>3. cl.at \in {"accept", "auth", "open"}
  BY <1>2 DEF Dialogue
<1>4. /\ DOMAIN r = ClientFields /\ r.readSeq = cl.readSeq + 1
      /\ \A f \in ClientFields \ {"readSeq"} : r[f] = cl[f]
  BY <1>1, ClientReadIs DEF TransportIndInv
<1>5. toClient # <<>> /\ toClient' = Tail(toClient)
  BY <1>2 DEF ClientTakes
<1>6. cl.at \in SecureClient /\ cl.at \notin Departed \cup {"hello"}
  BY <1>3 DEF SecureClient, Departed
<1>7. cl.bad \in BOOLEAN
  BY DEF TransportIndInv, ClientInv
<1>8. CASE ~Authentic(cl, p)
  <2>1. PICK c, at, bad : at = "gave up" /\ bad = TRUE /\ c = [r EXCEPT !.bad = TRUE, !.at = at]
    OBVIOUS
  <2>2. Say(c, <<>>)
    BY <1>2, <1>8, <2>1
  <2>3. /\ DOMAIN c = ClientFields /\ c.at = at /\ c.bad = bad
        /\ \A f \in ClientFields \ {"at", "bad"} : c[f] = r[f]
    BY <1>4, <2>1 DEF ClientFields
  <2>4. at \in SecureClient \cup Departed /\ at \in {"open", "data"} \cup Departed
    BY <2>1 DEF Departed
  <2>5. bad \in BOOLEAN
    BY <2>1
  <2>6. GoesOn(c) /\ c.readSeq = cl.readSeq + 1
    BY <1>1, <1>2, <1>6, <2>3, <2>4, <2>5, ReadsOn
  <2> QED BY <1>5, <2>2, <2>6, NoMessage
<1>9. CASE Authentic(cl, p) /\ p.type # d.answer
  BY <1>1, <1>2, <1>6, <1>9, GivesUp
<1>10. CASE Authentic(cl, p) /\ p.type = d.answer
  <2>1. PICK c, at, msgs : at = d.next /\ c = [r EXCEPT !.at = at] /\ msgs = d.says
    OBVIOUS
  <2>2. Say(c, msgs)
    BY <1>2, <1>10, <2>1
  <2>3. /\ DOMAIN c = ClientFields /\ c.at = at
        /\ \A f \in ClientFields \ {"at"} : c[f] = r[f]
    BY <1>4, <2>1 DEF ClientFields
  <2>4. c.bad = cl.bad
    BY <1>4, <2>3 DEF ClientFields
  <2>5. PICK body : body = Long
    OBVIOUS
  <2>6. \/ cl.at = "accept" /\ at = "auth" /\ msgs = <<<<USERAUTH_REQUEST, body>>>>
        \/ cl.at = "auth" /\ at = "open" /\ msgs = <<<<CHANNEL_OPEN, body>>>>
        \/ cl.at = "open" /\ at = "data" /\ msgs = <<>>
    BY <1>1, <1>3, <2>1, <2>5 DEF Dialogue
  <2>7. at \in SecureClient \cup Departed
        /\ (cl.at \in {"open", "data"} => at \in {"open", "data"} \cup Departed)
    BY <2>6 DEF SecureClient
  <2>8. GoesOn(c) /\ c.readSeq = cl.readSeq + 1
    BY <1>1, <1>2, <1>6, <1>7, <2>3, <2>4, <2>7, ReadsOn
  <2>9. CASE msgs = <<>>
    BY <1>5, <2>2, <2>8, <2>9, NoMessage
  <2>10. CASE cl.at # "open"
    <3>1. PICK type : type = IF cl.at = "accept" THEN USERAUTH_REQUEST ELSE CHANNEL_OPEN
      OBVIOUS
    <3>2. msgs = <<<<type, body>>>> /\ cl.at \notin {"open", "data"} \cup Departed
      BY <1>3, <1>6, <2>6, <2>10, <3>1
    <3>3. Said(c, 1)
      <4>1. cl.writeSeq \in Nat /\ Continues(c)
        BY <2>8 DEF TransportIndInv, ClientInv, GoesOn
      <4> QED BY <2>2, <3>2, <4>1, SaidOne
    <3>4. cl'.at = at
      BY <2>3, <3>3 DEF Said, ClientFields
    <3>5. Fits(type, body, cl.writeSeq)
      BY <2>6, <2>10, <3>1, <3>4 DEF Fits, Neutral
    <3> QED BY <1>5, <2>2, <2>8, <3>2, <3>5, OneMessage
  <2> QED BY <2>6, <2>9, <2>10
<1> QED BY <1>8, <1>9, <1>10

(* What the client reads in an open session.                               *)
LEMMA ClientReadsDataKeeps ==
  ASSUME TransportIndInv, ClientReadsData
  PROVE  TransportIndInv'
<1>1. PICK r, p : r = ClientRead(cl) /\ p = Head(toClient)
  OBVIOUS
<1>2. /\ cl.at = "data" /\ ClientTakes
      /\ IF ~Authentic(cl, p) THEN Say([r EXCEPT !.bad = TRUE, !.at = "gave up"], <<>>)
         ELSE Say([r EXCEPT !.at = IF p.type = DISCONNECT THEN "left" ELSE @], <<>>)
  BY <1>1 DEF ClientReadsData
<1>3. /\ DOMAIN r = ClientFields /\ r.readSeq = cl.readSeq + 1
      /\ \A f \in ClientFields \ {"readSeq"} : r[f] = cl[f]
  BY <1>1, ClientReadIs DEF TransportIndInv
<1>4. toClient # <<>> /\ toClient' = Tail(toClient)
  BY <1>2 DEF ClientTakes
<1>5. cl.at \in SecureClient
  BY <1>2 DEF SecureClient
<1>6. cl.bad \in BOOLEAN /\ r.at = "data" /\ r.bad = cl.bad
  <2>1. cl.bad \in BOOLEAN
    BY DEF TransportIndInv, ClientInv
  <2> QED BY <1>2, <1>3, <2>1 DEF ClientFields
<1>7. CASE ~Authentic(cl, p)
  <2>1. PICK c, at, bad : at = "gave up" /\ bad = TRUE /\ c = [r EXCEPT !.bad = TRUE, !.at = at]
    OBVIOUS
  <2>2. Say(c, <<>>)
    BY <1>2, <1>7, <2>1
  <2>3. /\ DOMAIN c = ClientFields /\ c.at = at /\ c.bad = bad
        /\ \A f \in ClientFields \ {"at", "bad"} : c[f] = r[f]
    BY <1>3, <2>1 DEF ClientFields
  <2>4. at \in SecureClient \cup Departed /\ at \in {"open", "data"} \cup Departed
    BY <2>1 DEF Departed
  <2>5. bad \in BOOLEAN
    BY <2>1
  <2>6. GoesOn(c) /\ c.readSeq = cl.readSeq + 1
    BY <1>1, <1>2, <1>5, <2>3, <2>4, <2>5, ReadsOn
  <2> QED BY <1>4, <2>2, <2>6, NoMessage
<1>8. CASE Authentic(cl, p)
  <2>1. PICK c, at : /\ at = (IF p.type = DISCONNECT THEN "left" ELSE "data")
                     /\ c = [r EXCEPT !.at = at]
    OBVIOUS
  <2>2. Say(c, <<>>)
    BY <1>2, <1>6, <1>8, <2>1
  <2>3. /\ DOMAIN c = ClientFields /\ c.at = at /\ c.bad = cl.bad
        /\ \A f \in ClientFields \ {"at", "bad"} : c[f] = r[f]
    BY <1>3, <1>6, <2>1 DEF ClientFields
  <2>4. at \in SecureClient \cup Departed /\ at \in {"open", "data"} \cup Departed
    BY <2>1 DEF Departed, SecureClient
  <2>5. GoesOn(c) /\ c.readSeq = cl.readSeq + 1
    BY <1>1, <1>2, <1>5, <1>6, <2>3, <2>4, ReadsOn
  <2> QED BY <1>4, <2>2, <2>5, NoMessage
<1> QED BY <1>7, <1>8

(* The first packet of an exchange is a message.                           *)
LEMMA FirstIs ==
  ASSUME NEW kex, NEW request
  PROVE  \E type, body : FirstOf(kex, request) = <<type, body>>
<1>1. CASE kex \in {DHE, DHEAlt}
  <2>1. DH \notin {DHE, DHEAlt}
    BY DEF DH, DHE, DHEAlt
  <2>2. FirstOf(kex, request) = <<request.type, request>>
    BY <1>1, <2>1 DEF FirstOf
  <2> QED BY <2>2
<1>2. CASE kex \notin {DHE, DHEAlt}
  <2>1. FirstOf(kex, request) \in {<<KEXDH_INIT, Long>>, <<KEXDH_INIT, Short>>}
    BY <1>2 DEF FirstOf
  <2> QED BY <2>1
<1> QED BY <1>1, <1>2

(* A message and another one.                                              *)
LEMMA OneAndOne ==
  ASSUME NEW x, NEW y
  PROVE  <<x>> \o <<y>> = <<x, y>> /\ <<x>> \o <<>> = <<x>>
<1>1. PICK S, a, b, c, e : S = {x, y} /\ a = <<x>> /\ b = <<y>> /\ c = <<x, y>> /\ e = <<>>
  OBVIOUS
<1>2. a \in Seq(S) /\ b \in Seq(S) /\ c \in Seq(S) /\ e \in Seq(S)
  BY <1>1
<1>3. /\ Len(a) = 1 /\ Len(b) = 1 /\ Len(c) = 2 /\ Len(e) = 0
      /\ a[1] = x /\ b[1] = y /\ c[1] = x /\ c[2] = y
  BY <1>1
<1>4. a \o e = a
  BY <1>1, <1>2, ConcatEmptySeq
<1>5. PICK d : d = a \o b
  OBVIOUS
<1>6. d \in Seq(S) /\ Len(d) = 2
  <2>1. d \in Seq(S)
    BY <1>2, <1>5, ConcatProperties
  <2>2. Len(d) = Len(a) + Len(b)
    BY <1>2, <1>5, ConcatProperties
  <2> QED BY <1>3, <2>1, <2>2
<1>7. \A i \in 1..(Len(a) + Len(b)) : d[i] = IF i <= Len(a) THEN a[i] ELSE b[i - Len(a)]
  BY <1>2, <1>5, ConcatProperties
<1>8. d[1] = x /\ d[2] = y
  BY <1>3, <1>7
<1>9. \A i \in 1..2 : d[i] = c[i]
  BY <1>3, <1>8
<1>10. d = c
  BY <1>2, <1>3, <1>6, <1>9, SeqEqual
<1> QED BY <1>1, <1>4, <1>5, <1>10

(* What opens the dialogue: the hello, and perhaps a guess behind it.      *)
Opens(q, msgs, kex, request, guess, body, key) ==
  /\ IsList(q) /\ Len(msgs) = Len(q) /\ Len(q) \in {1, 2} /\ (Len(q) = 2 <=> guess)
  /\ IsPacket(q[1], KEXINIT, body, key, 0)
  /\ guess => \E t, b : <<t, b>> = FirstOf(kex, request) /\ IsPacket(q[2], t, b, key, 1)

(* The client's hello, and its guess behind it.                            *)
LEMMA Opening ==
  ASSUME NEW side, side.writeSeq = 0, NEW kex, NEW request, NEW guess \in BOOLEAN, NEW body,
         NEW msgs, msgs = <<<<KEXINIT, body>>>> \o (IF guess THEN <<FirstOf(kex, request)>> ELSE <<>>),
         NEW q, q = Packets(side, msgs)
  PROVE  Opens(q, msgs, kex, request, guess, body, side.writeKey)
<1>1. side.writeSeq \in Nat
  OBVIOUS
<1>2. PICK first : first = KEXINIT
  OBVIOUS
<1>3. CASE guess
  <2>1. PICK t, b : FirstOf(kex, request) = <<t, b>>
    BY FirstIs
  <2>2. <<<<first, body>>>> \o <<<<t, b>>>> = <<<<first, body>>, <<t, b>>>>
    BY OneAndOne
  <2>3. msgs = <<<<first, body>>, <<t, b>>>>
    BY <1>2, <1>3, <2>1, <2>2
  <2>4. q = Packets(side, <<<<first, body>>, <<t, b>>>>)
    BY <2>3
  <2>5. /\ IsList(q) /\ Len(q) = 2 /\ Len(<<<<first, body>>, <<t, b>>>>) = 2
        /\ IsPacket(q[1], first, body, side.writeKey, side.writeSeq)
        /\ IsPacket(q[2], t, b, side.writeKey, side.writeSeq + 1)
    BY <1>1, <2>4, TwoPackets
  <2>6. IsPacket(q[1], first, body, side.writeKey, 0) /\ IsPacket(q[2], t, b, side.writeKey, 1)
    <3>1. side.writeSeq = 0 /\ side.writeSeq + 1 = 1
      OBVIOUS
    <3> QED BY <2>5, <3>1
  <2> QED BY <1>2, <1>3, <2>1, <2>3, <2>5, <2>6 DEF Opens
<1>4. CASE ~guess
  <2>1. <<<<first, body>>>> \o <<>> = <<<<first, body>>>>
    BY OneAndOne
  <2>2. msgs = <<<<first, body>>>>
    BY <1>2, <1>4, <2>1
  <2>3. q = Packets(side, <<<<first, body>>>>)
    BY <2>2
  <2>4. /\ IsList(q) /\ Len(q) = 1 /\ Len(<<<<first, body>>>>) = 1
        /\ IsPacket(q[1], first, body, side.writeKey, side.writeSeq)
    BY <1>1, <2>3, OnePacket
  <2>5. IsPacket(q[1], first, body, side.writeKey, 0)
    BY <2>4
  <2> QED BY <1>2, <1>4, <2>2, <2>4, <2>5 DEF Opens
<1> QED BY <1>3, <1>4

(* The client opens the dialogue; the server has read nothing yet.         *)
LEMMA ClientHelloKeeps ==
  ASSUME TransportIndInv, ClientHello
  PROVE  TransportIndInv'
<1>1. PICK request \in Requests :
        Say([cl EXCEPT !.at = "server hello", !.request = request],
            <<<<KEXINIT, hello>>>> \o
              (IF hello.guess THEN <<FirstOf(hello.kex[1], request)>> ELSE <<>>))
  BY DEF ClientHello
<1>2. PICK c, guess, guessed, msgs :
        /\ c = [cl EXCEPT !.at = "server hello", !.request = request]
        /\ guess = hello.guess /\ guessed = hello.kex[1]
        /\ msgs = <<<<KEXINIT, hello>>>> \o
                    (IF guess THEN <<FirstOf(guessed, request)>> ELSE <<>>)
  OBVIOUS
<1>3. PICK q : q = Packets(c, msgs)
  OBVIOUS
<1>4. Say(c, msgs) /\ cl.at = "hello" /\ toClient' = toClient
  BY <1>1, <1>2 DEF ClientHello
<1>5. ServerInv /\ OutInv /\ ClientInv /\ InInv /\ hello \in Hellos
  BY DEF TransportIndInv
<1>6. DOMAIN cl = ClientFields /\ cl.readSeq = 0 /\ cl.writeSeq = 0 /\ cl.readKey = Plain
  BY <1>4, <1>5 DEF ClientInv, Early
<1>7. cl.noOps \in 0..NoOpBound /\ cl.sent \in 0..DataBound /\ cl.bad \in BOOLEAN
  BY <1>5 DEF ClientInv
<1>8. guess \in BOOLEAN
  BY <1>2, <1>5, TransportAssumption, PacketAssumption
<1>9. /\ DOMAIN c = ClientFields /\ c.at = "server hello" /\ c.request = request
      /\ \A f \in ClientFields \ {"at", "request"} : c[f] = cl[f]
  BY <1>2, <1>6 DEF ClientFields
<1>10. c.writeSeq = 0 /\ c.writeKey = cl.writeKey
  BY <1>6, <1>9 DEF ClientFields
<1>11. Opens(q, msgs, guessed, request, guess, hello, c.writeKey)
  <2>1. PICK h : h = hello
    OBVIOUS
  <2>2. msgs = <<<<KEXINIT, h>>>> \o (IF guess THEN <<FirstOf(guessed, request)>> ELSE <<>>)
    BY <1>2, <2>1
  <2>3. Opens(q, msgs, guessed, request, guess, h, c.writeKey)
    BY <1>8, <1>10, <1>3, <2>2, Opening
  <2> QED BY <2>1, <2>3
<1>12. /\ IsList(q) /\ Len(msgs) = Len(q) /\ Len(q) \in {1, 2} /\ (Len(q) = 2 <=> guess)
       /\ IsPacket(q[1], KEXINIT, hello, c.writeKey, 0)
       /\ guess => \E t, b : /\ <<t, b>> = FirstOf(guessed, request)
                             /\ IsPacket(q[2], t, b, c.writeKey, 1)
  BY <1>11 DEF Opens
<1>13. /\ toServer' = toServer \o q
       /\ DOMAIN cl' = ClientFields /\ cl'.writeSeq = c.writeSeq + Len(msgs)
       /\ \A f \in ClientFields \ {"writeSeq"} : cl'[f] = c[f]
       /\ UNCHANGED <<ini, lists, hello, sv>>
  BY <1>4, <1>9, <1>3, SayIs
<1>14. /\ cl'.at = "server hello" /\ cl'.request = request /\ cl'.readSeq = 0
       /\ cl'.readKey = Plain /\ cl'.writeKey = cl.writeKey /\ cl'.noOps = cl.noOps
       /\ cl'.sent = cl.sent /\ cl'.bad = cl.bad
  BY <1>6, <1>9, <1>13 DEF ClientFields
<1>15. cl'.writeSeq = cl.writeSeq + Len(q) /\ cl'.writeSeq = Len(q)
  BY <1>6, <1>10, <1>12, <1>13
<1>16. ~sv.requested
  <2>1. sv.readSeq + Len(toServer) = 0 /\ sv.readSeq \in Nat
    BY <1>5, <1>6 DEF InInv, ServerInv
  <2>2. Len(toServer) \in Nat
    BY <1>5, ListShape DEF InInv
  <2>3. ~(sv.readSeq >= 1)
    BY <2>1, <2>2
  <2>4. ~Accepted
    BY <1>5, <2>3 DEF ServerInv
  <2> HIDE DEF Accepted
  <2> QED BY <1>5, <2>4 DEF ServerInv
<1>17. ServerWaits
  BY <1>13, <1>16 DEF ServerWaits
<1>18. ServerInv'
  BY <1>5, <1>17, ServerStands
<1>19. OutInv'
  <2>1. cl.readSeq \in Nat /\ cl'.readSeq = cl.readSeq
    <3>1. cl'.readSeq = 0 /\ cl.readSeq = 0
      BY <1>6, <1>14
    <3> QED BY <3>1
  <2> QED BY <1>4, <1>5, <1>17, <2>1, OutTaken
<1>20. ClientInv'
  <2>1. /\ cl'.at \in ClPlaces /\ cl'.at \notin {"hello", "group", "reply", "newkeys"} \cup SecureClient
    BY <1>14 DEF ClPlaces, SecureClient
  <2>2. cl'.writeSeq \in {1, 2} /\ cl'.readSeq = 0
    BY <1>12, <1>14, <1>15
  <2>3. cl'.writeSeq \in Nat /\ cl'.readSeq \in Nat
    BY <2>2
  <2>4. cl'.writeSeq >= (IF hello'.guess THEN 2 ELSE 1)
    <3>1. hello'.guess = guess
      BY <1>2, <1>13
    <3>2. CASE guess
      <4>1. cl'.writeSeq = 2
        BY <1>12, <1>15, <3>2
      <4> QED BY <3>1, <3>2, <4>1
    <3>3. CASE ~guess
      <4>1. cl'.writeSeq >= 1
        BY <2>2
      <4> QED BY <3>1, <3>3, <4>1
    <3> QED BY <3>2, <3>3
  <2> HIDE DEF SecureClient, Early, Departed
  <2> QED BY <1>13, <1>14, <1>7, <2>1, <2>2, <2>4, <2>3 DEF ClientInv
<1>21. InInv'
  <2>1. cl.at \notin {"open", "data"} \cup Departed /\ cl.at \in Early
    BY <1>4 DEF Departed, Early
  <2>2. sv.readSeq \in Nat /\ cl.writeSeq \in Nat
    BY <1>5 DEF ServerInv, ClientInv
  <2>3. PICK p, n, key, kex : p = q[1] /\ n = 0 /\ key = cl.writeKey /\ kex = KEXINIT
    OBVIOUS
  <2>4. hello' = hello /\ lists' = lists
    BY <1>13
  <2>5. Fits(kex, hello, n) /\ kex # CHANNEL_OPEN
    BY <2>3 DEF Fits, KEXINIT, CHANNEL_OPEN
  <2>6. IsPacket(p, kex, hello, key, n)
    BY <1>10, <1>12, <2>3
  <2>7. InPacket(p, n)' /\ p.type # NEWKEYS /\ p.type # CHANNEL_OPEN /\ p.key = key
    <3>1. InPacket(p, n)' /\ p.type # NEWKEYS
      BY <2>4, <2>5, <2>6, FitsIs
    <3>2. p.type = kex /\ p.key = key
      BY <2>6 DEF IsPacket
    <3> QED BY <2>5, <3>1, <3>2
  <2>8. ASSUME guess
        PROVE  /\ \A m : m = 1 => InPacket(q[2], m)'
               /\ q[2].type # NEWKEYS /\ q[2].key = key
    <3>1. PICK t, b : /\ <<t, b>> = FirstOf(guessed, request)
                      /\ IsPacket(q[2], t, b, c.writeKey, 1)
      BY <1>12, <2>8
    <3>2. PICK r, m : r = q[2] /\ m = 1
      OBVIOUS
    <3>3. IsPacket(r, t, b, key, m)
      BY <1>10, <2>3, <3>1, <3>2
    <3>4. Fits(t, b, m)
      <4>1. m >= 1 /\ cl'.request \in Requests /\ cl'.request = request
        <5>1. m = 1
          BY <3>2
        <5>2. m >= 1
          BY <5>1
        <5> QED BY <1>14, <5>2
      <4>2. (IF m = 1 /\ hello.guess THEN hello.kex[1] ELSE Chosen.kex) = guessed
        BY <1>2, <2>8, <3>2
      <4> HIDE DEF Chosen, FirstOf
      <4>3. <<t, b>> = FirstOf(IF m = 1 /\ hello.guess THEN hello.kex[1] ELSE Chosen.kex, cl'.request)
        BY <3>1, <4>1, <4>2
      <4> QED BY <4>1, <4>3 DEF Fits
    <3>5. InPacket(r, m)' /\ r.type # NEWKEYS
      BY <2>4, <3>3, <3>4, FitsIs
    <3>6. r.key = key
      BY <3>3 DEF IsPacket
    <3> QED BY <3>2, <3>5, <3>6
  <2>9. \A i \in 1..Len(q) : i = 1 \/ (guess /\ i = 2 /\ i = Len(q))
    BY <1>8, <1>12
  <2>10. \A i \in 1..Len(q) : /\ q[i].key = cl.writeKey /\ q[i].type # NEWKEYS
                              /\ q[i].type = CHANNEL_OPEN => i = Len(q)
    BY <2>3, <2>7, <2>8, <2>9
  <2>11. \A m : \A i \in 1..Len(q) : m = cl.writeSeq + i - 1 => InPacket(q[i], m)'
    <3>1. TAKE m
    <3>2. TAKE i \in 1..Len(q)
    <3>3. SUFFICES ASSUME m = cl.writeSeq + i - 1
                   PROVE  InPacket(q[i], m)'
      OBVIOUS
    <3>4. CASE i = 1
      <4>1. m = n /\ q[i] = p
        BY <1>6, <2>3, <3>3, <3>4
      <4> QED BY <2>7, <4>1
    <3>5. CASE guess /\ i = 2
      <4>1. m = 1
        BY <1>6, <3>3, <3>5
      <4> QED BY <2>8, <3>5, <4>1
    <3> QED BY <2>9, <3>4, <3>5
  <2>12. cl'.at \in Early
    BY <1>14 DEF Early
  <2> QED BY <1>5, <1>6, <1>12, <1>13, <1>14, <1>15, <1>17, <2>1, <2>2, <2>10, <2>11, <2>12, Speaks
<1> QED BY <1>5, <1>13, <1>18, <1>19, <1>20, <1>21 DEF TransportIndInv

(* A packet that the client reads as it moves on and says n things.        *)
LEMMA MovesOn ==
  ASSUME TransportIndInv, ClientTakes, NEW n, NEW c, Said(c, n), c.readSeq = cl.readSeq + 1,
         InInv', ClientInv'
  PROVE  TransportIndInv'
<1>1. ServerInv /\ OutInv /\ ClientInv
  BY DEF TransportIndInv
<1>2. ServerWaits /\ cl'.readSeq = cl.readSeq + 1
  BY DEF Said, ClientFields
<1>3. cl.readSeq \in Nat
  BY <1>1 DEF ClientInv
<1>4. toClient # <<>> /\ toClient' = Tail(toClient)
  BY DEF ClientTakes
<1>5. ServerInv'
  BY <1>1, <1>2, ServerStands
<1>6. OutInv'
  BY <1>1, <1>2, <1>3, <1>4, OutTaken
<1> QED BY <1>2, <1>5, <1>6 DEF TransportIndInv, ServerWaits

(* The client reads the server's hello and begins the exchange they agree  *)
(* on, unless its guess already has.                                       *)
LEMMA ClientReadsHelloKeeps ==
  ASSUME TransportIndInv, ClientReadsHello
  PROVE  TransportIndInv'
<1>1. PICK r, p, kex, encr, group, at, right :
        /\ r = ClientRead(cl) /\ p = Head(toClient)
        /\ kex = Chosen.kex /\ encr = <<Chosen.in, Chosen.out>> /\ right = Chosen.right
        /\ group = (IF kex = DH THEN DHDefault ELSE 0)
        /\ at = (IF kex = DH THEN "reply" ELSE "group")
  OBVIOUS
<1> HIDE DEF Chosen
<1>2. /\ cl.at = "server hello" /\ ClientTakes
      /\ IF \/ p.type # KEXINIT \/ None \in {Chosen.kex, Chosen.in, Chosen.out}
            \/ HostKey \notin ToSet(hello.host)
         THEN GiveUp(r)
         ELSE Say([r EXCEPT !.kex = kex, !.encr = encr, !.group = group, !.at = at],
                  IF right THEN <<>> ELSE <<FirstOf(kex, cl.request)>>)
  BY <1>1, Zenon DEF ClientReadsHello
<1>3. ServerInv /\ OutInv /\ ClientInv /\ InInv /\ hello \in Hellos
  BY DEF TransportIndInv
<1>4. /\ DOMAIN r = ClientFields /\ r.readSeq = cl.readSeq + 1
      /\ \A f \in ClientFields \ {"readSeq"} : r[f] = cl[f]
  BY <1>1, <1>3, ClientReadIs
<1>5. cl.at \notin Departed \cup {"hello", "open", "data"} /\ cl.at \in Early
  BY <1>2 DEF Departed, Early
<1>6. CASE GiveUp(r)
  BY <1>1, <1>2, <1>5, <1>6, GivesUp
<1>7. CASE /\ None \notin {Chosen.kex, Chosen.in, Chosen.out}
           /\ Say([r EXCEPT !.kex = kex, !.encr = encr, !.group = group, !.at = at],
                  IF right THEN <<>> ELSE <<FirstOf(kex, cl.request)>>)
  <2>1. PICK c, msgs : /\ c = [r EXCEPT !.kex = kex, !.encr = encr, !.group = group, !.at = at]
                       /\ msgs = (IF right THEN <<>> ELSE <<FirstOf(kex, cl.request)>>)
    OBVIOUS
  <2>2. Say(c, msgs)
    BY <1>7, <2>1
  <2>3. /\ DOMAIN c = ClientFields
        /\ c.kex = kex /\ c.encr = encr /\ c.group = group /\ c.at = at
        /\ \A f \in ClientFields \ {"kex", "encr", "group", "at"} : c[f] = r[f]
    BY <1>4, <2>1 DEF ClientFields
  <2>4. /\ c.readSeq = cl.readSeq + 1 /\ c.writeKey = cl.writeKey /\ c.writeSeq = cl.writeSeq
        /\ c.request = cl.request /\ c.readKey = cl.readKey /\ c.bad = cl.bad
        /\ c.noOps = cl.noOps /\ c.sent = cl.sent
    BY <1>4, <2>3 DEF ClientFields
  <2>5. cl.readSeq = 0 /\ cl.readKey = Plain
    BY <1>2, <1>3 DEF ClientInv, Early
  <2>6. cl.writeSeq \in Nat /\ cl.readSeq \in Nat /\ sv.readSeq \in Nat
    BY <1>3 DEF ClientInv, ServerInv
  <2>7. cl.bad \in BOOLEAN /\ cl.noOps \in 0..NoOpBound /\ cl.sent \in 0..DataBound
    BY <1>3 DEF ClientInv
  <2>8. cl.request \in Requests /\ cl.writeSeq >= (IF hello.guess THEN 2 ELSE 1)
    BY <1>2, <1>3 DEF ClientInv
  <2>9. Continues(c)
    <3>1. at \in Early
      BY <1>1 DEF Early
    <3> QED BY <1>5, <2>3, <2>4, <3>1 DEF Continues
  <2>10. InInv' /\ \E n \in Nat : Said(c, n)
    <3>1. CASE msgs = <<>>
      <4>1. InInv' /\ Said(c, 0)
        BY <1>3, <2>2, <2>6, <2>9, <3>1, SaysNothing
      <4> QED BY <4>1
    <3>2. CASE msgs = <<FirstOf(kex, cl.request)>>
      <4>1. PICK type, body : FirstOf(kex, cl.request) = <<type, body>>
        BY FirstIs
      <4>2. msgs = <<<<type, body>>>>
        BY <3>2, <4>1
      <4>3. Said(c, 1)
        BY <2>2, <2>6, <2>9, <4>2, SaidOne
      <4>4. cl'.request = cl.request
        BY <2>4, <4>3 DEF Said, ClientFields
      <4>5. PICK n : n = cl.writeSeq
        OBVIOUS
      <4>6. n >= 1 /\ (n = 1 => ~hello.guess)
        <5>1. CASE hello.guess
          <6>1. n >= 2 /\ n \in Nat
            BY <2>6, <2>8, <4>5, <5>1
          <6>2. n >= 1 /\ n # 1
            BY <6>1
          <6> QED BY <6>2
        <5>2. CASE ~hello.guess
          <6>1. n >= 1
            BY <2>8, <4>5, <5>2
          <6> QED BY <5>2, <6>1
        <5> QED BY <5>1, <5>2
      <4>7. Fits(type, body, n)
        <5> HIDE DEF FirstOf
        <5>1. (IF n = 1 /\ hello.guess THEN hello.kex[1] ELSE Chosen.kex) = kex
          BY <1>1, <4>6
        <5>2. <<type, body>> =
                FirstOf(IF n = 1 /\ hello.guess THEN hello.kex[1] ELSE Chosen.kex, cl'.request)
          BY <4>1, <4>4, <5>1
        <5> QED BY <2>8, <4>4, <4>6, <5>2 DEF Fits
      <4>8. InInv'
        BY <1>3, <1>5, <2>2, <2>6, <2>9, <4>2, <4>5, <4>7, OneFits
      <4> QED BY <4>3, <4>8
    <3> QED BY <2>1, <3>1, <3>2
  <2>11. PICK n \in Nat : Said(c, n)
    BY <2>10
  <2>12. /\ ServerWaits /\ DOMAIN cl' = ClientFields /\ cl'.writeSeq = cl.writeSeq + n
         /\ \A f \in ClientFields \ {"writeSeq"} : cl'[f] = c[f]
    BY <2>11 DEF Said
  <2>13. /\ cl'.at = at /\ cl'.kex = kex /\ cl'.encr = encr /\ cl'.group = group
         /\ cl'.readSeq = cl.readSeq + 1 /\ cl'.request = cl.request /\ cl'.readKey = Plain
         /\ cl'.bad = cl.bad /\ cl'.noOps = cl.noOps /\ cl'.sent = cl.sent
    BY <2>3, <2>4, <2>5, <2>12 DEF ClientFields
  <2>14. Chosen' = Chosen /\ hello' = hello
    BY <2>12, Waiting DEF ServerWaits
  <2>15. ClientInv'
    <3>1. cl'.at \in ClPlaces
      BY <1>1, <2>13 DEF ClPlaces
    <3>2. cl'.at \notin {"hello", "server hello", "newkeys"} \cup SecureClient \cup Departed
      BY <1>1, <2>13 DEF SecureClient, Departed
    <3>3. cl'.readSeq = 1 /\ cl'.readSeq \in Nat
      BY <2>5, <2>6, <2>13
    <3>4. cl'.writeSeq \in Nat /\ cl'.writeSeq >= (IF hello'.guess THEN 2 ELSE 1)
      <4>1. PICK k : k = IF hello.guess THEN 2 ELSE 1
        OBVIOUS
      <4>2. k \in Nat
        BY <4>1
      <4>3. cl.writeSeq >= k
        BY <2>8, <4>1
      <4>4. cl'.writeSeq \in Nat /\ cl'.writeSeq >= k
        BY <2>6, <2>12, <4>2, <4>3
      <4> QED BY <2>14, <4>1, <4>4
    <3>5. /\ cl'.kex = Chosen'.kex /\ cl'.encr = <<Chosen'.in, Chosen'.out>>
          /\ None \notin {Chosen'.kex, Chosen'.in, Chosen'.out}
      BY <1>1, <1>7, <2>13, <2>14
    <3>6. (cl'.at = "reply" <=> cl'.kex = DH) /\ (cl'.kex = DH => cl'.group = DHDefault)
      BY <1>1, <2>13
    <3>7. cl'.bad \in BOOLEAN /\ cl'.noOps \in 0..NoOpBound /\ cl'.sent \in 0..DataBound
      BY <2>7, <2>13
    <3> HIDE DEF SecureClient, Departed, Early
    <3> QED BY <2>8, <2>12, <2>13, <3>1, <3>2, <3>3, <3>4, <3>5, <3>6, <3>7 DEF ClientInv
  <2> QED BY <1>2, <2>4, <2>10, <2>11, <2>15, MovesOn
<1> QED BY <1>2, <1>6, <1>7

(* A group exchange is one the server has taken as such.                   *)
LEMMA GroupExchange ==
  ASSUME ServerInv
  PROVE  /\ sv.requested => Chosen.kex # DH
         /\ ~sv.requested /\ Replied => Chosen.kex = DH
<1> HIDE DEF Chosen
<1>1. ~sv.requested /\ Replied => Chosen.kex = DH
  BY DEF ServerInv
<1>2. ASSUME sv.requested
      PROVE  Chosen.kex # DH
  <2>1. Accepted
    <3> HIDE DEF Accepted
    <3> QED BY <1>2 DEF ServerInv
  <2>2. Choice
    BY <2>1 DEF ServerInv
  <2>3. Chosen.kex \in {DHE, DHEAlt}
    BY <1>2, <2>2 DEF Choice
  <2> QED BY <2>3 DEF DH, DHE, DHEAlt
<1> QED BY <1>1, <1>2

(* The client takes the group the server has chosen.                       *)
LEMMA ClientReadsGroupKeeps ==
  ASSUME TransportIndInv, ClientReadsGroup
  PROVE  TransportIndInv'
<1>1. PICK r, p, n, group : /\ r = ClientRead(cl) /\ p = Head(toClient) /\ n = cl.readSeq
                            /\ group = p.body[1]
  OBVIOUS
<1>2. /\ cl.at = "group" /\ ClientTakes
      /\ \/ GiveUp(r)
         \/ /\ p.type = GEX_GROUP
            /\ Say([r EXCEPT !.group = group, !.at = "reply"], <<<<GEX_INIT, Long>>>>)
  BY <1>1, Zenon DEF ClientReadsGroup
<1>3. ServerInv /\ OutInv /\ ClientInv /\ InInv
  BY DEF TransportIndInv
<1>4. /\ DOMAIN r = ClientFields /\ r.readSeq = cl.readSeq + 1
      /\ \A f \in ClientFields \ {"readSeq"} : r[f] = cl[f]
  BY <1>1, <1>3, ClientReadIs
<1>5. cl.at \notin Departed \cup {"hello", "server hello", "open", "data"} /\ cl.at \in Early
  BY <1>2 DEF Departed, Early
<1>6. CASE GiveUp(r)
  BY <1>1, <1>2, <1>5, <1>6, GivesUp
<1>7. CASE /\ p.type = GEX_GROUP
           /\ Say([r EXCEPT !.group = group, !.at = "reply"], <<<<GEX_INIT, Long>>>>)
  <2>1. PICK c, at, type, body, msgs :
          /\ c = [r EXCEPT !.group = group, !.at = "reply"] /\ at = "reply"
          /\ type = GEX_INIT /\ body = Long /\ msgs = <<<<GEX_INIT, Long>>>>
    OBVIOUS
  <2>2. Say(c, msgs) /\ msgs = <<<<type, body>>>>
    BY <1>7, <2>1
  <2>3. /\ DOMAIN c = ClientFields /\ c.group = group /\ c.at = at
        /\ \A f \in ClientFields \ {"group", "at"} : c[f] = r[f]
    BY <1>4, <2>1 DEF ClientFields
  <2>4. /\ c.readSeq = cl.readSeq + 1 /\ c.writeKey = cl.writeKey /\ c.writeSeq = cl.writeSeq
        /\ c.request = cl.request /\ c.readKey = cl.readKey /\ c.bad = cl.bad
        /\ c.kex = cl.kex /\ c.encr = cl.encr /\ c.noOps = cl.noOps /\ c.sent = cl.sent
    BY <1>4, <2>3 DEF ClientFields
  <2>5. n = 1 /\ cl.readKey = Plain /\ cl.kex # DH
    BY <1>1, <1>2, <1>3 DEF ClientInv, Early
  <2>6. cl.writeSeq \in Nat /\ cl.readSeq \in Nat /\ sv.readSeq \in Nat
    BY <1>3 DEF ClientInv, ServerInv
  <2>7. cl.bad \in BOOLEAN /\ cl.noOps \in 0..NoOpBound /\ cl.sent \in 0..DataBound
    BY <1>3 DEF ClientInv
  <2>8. cl.request \in Requests /\ cl.writeSeq >= (IF hello.guess THEN 2 ELSE 1)
    BY <1>2, <1>3 DEF ClientInv
  <2>9. /\ cl.kex = Chosen.kex /\ cl.encr = <<Chosen.in, Chosen.out>>
        /\ None \notin {Chosen.kex, Chosen.in, Chosen.out}
    <3> HIDE DEF Chosen
    <3> QED BY <1>3, <1>5 DEF ClientInv
  <2> HIDE DEF Chosen
  <2>10. sv.requested /\ group = sv.group /\ sv.secret = Sizes(sv.group)
    <3>1. OutPacket(p, n)
      BY <1>1, <1>2, HeadOut DEF ClientTakes
    <3>2. \/ sv.requested /\ p.body = <<sv.group>> /\ sv.secret = Sizes(sv.group)
          \/ n = Switch - 1 /\ Replied
      <4> HIDE DEF Switch, Replied, Sizes
      <4> QED BY <1>7, <3>1 DEF OutPacket
    <3>3. n = Switch - 1 /\ Replied => FALSE
      <4>1. SUFFICES ASSUME n = Switch - 1, Replied
                     PROVE  FALSE
        OBVIOUS
      <4>2. ~sv.requested
        BY <2>5, <4>1 DEF Switch
      <4>3. Chosen.kex = DH
        BY <1>3, <4>1, <4>2, GroupExchange
      <4> QED BY <2>5, <2>9, <4>3
    <3> HIDE DEF Switch, Replied, Sizes
    <3>4. sv.requested /\ p.body = <<sv.group>> /\ sv.secret = Sizes(sv.group)
      BY <3>2, <3>3
    <3> QED BY <1>1, <3>4
  <2>11. Continues(c)
    BY <1>5, <2>3, <2>4 DEF Continues
  <2>12. Said(c, 1)
    BY <2>2, <2>6, <2>11, SaidOne
  <2>13. InInv'
    <3>1. Fits(type, body, cl.writeSeq)
      BY <2>1 DEF Fits, Neutral
    <3> QED BY <1>3, <1>5, <2>2, <2>6, <2>11, <3>1, OneFits
  <2>14. /\ ServerWaits /\ DOMAIN cl' = ClientFields /\ cl'.writeSeq = cl.writeSeq + 1
         /\ \A f \in ClientFields \ {"writeSeq"} : cl'[f] = c[f]
    BY <2>12 DEF Said
  <2>15. /\ cl'.at = at /\ cl'.kex = cl.kex /\ cl'.encr = cl.encr /\ cl'.group = group
         /\ cl'.readSeq = cl.readSeq + 1 /\ cl'.request = cl.request /\ cl'.readKey = cl.readKey
         /\ cl'.bad = cl.bad /\ cl'.noOps = cl.noOps /\ cl'.sent = cl.sent
    BY <2>3, <2>4, <2>14 DEF ClientFields
  <2>16. /\ Chosen' = Chosen /\ hello' = hello /\ sv' = sv
         /\ (sv.requested => Sizes(sv.group)' = Sizes(sv.group))
    BY <2>14, Waiting DEF ServerWaits
  <2>17. ClientInv'
    <3>1. cl'.at \in ClPlaces
      BY <2>1, <2>15 DEF ClPlaces
    <3>2. cl'.at = "reply" /\ cl'.at \notin SecureClient
      BY <2>1, <2>15 DEF SecureClient
    <3>3. cl'.readSeq = 2 /\ cl'.readSeq \in Nat
      <4>1. cl.readSeq = 1 /\ cl'.readSeq = cl.readSeq + 1
        BY <1>1, <2>5, <2>15
      <4> QED BY <4>1
    <3>4. cl'.writeSeq \in Nat /\ cl'.writeSeq >= (IF hello'.guess THEN 2 ELSE 1)
      <4>1. PICK k : k = IF hello.guess THEN 2 ELSE 1
        OBVIOUS
      <4>2. k \in Nat
        BY <4>1
      <4>3. cl.writeSeq >= k
        BY <2>8, <4>1
      <4>4. cl'.writeSeq \in Nat /\ cl'.writeSeq >= k
        BY <2>6, <2>14, <4>2, <4>3
      <4> QED BY <2>16, <4>1, <4>4
    <3>5. /\ cl'.kex = Chosen'.kex /\ cl'.encr = <<Chosen'.in, Chosen'.out>>
          /\ None \notin {Chosen'.kex, Chosen'.in, Chosen'.out} /\ cl'.kex # DH
      BY <2>5, <2>9, <2>15, <2>16
    <3>6. sv'.requested /\ cl'.group = sv'.group /\ sv'.secret = Sizes(sv.group)'
      BY <2>10, <2>15, <2>16
    <3>7. cl'.bad \in BOOLEAN /\ cl'.noOps \in 0..NoOpBound /\ cl'.sent \in 0..DataBound
      BY <2>7, <2>15
    <3> HIDE DEF SecureClient, Departed, Early, Sizes
    <3> QED BY <2>5, <2>8, <2>14, <2>15, <3>1, <3>2, <3>3, <3>4, <3>5, <3>6, <3>7 DEF ClientInv
  <2> QED BY <1>2, <2>4, <2>12, <2>13, <2>17, MovesOn
<1> QED BY <1>2, <1>6, <1>7

(* The client changes the key it reads with at the server's NEWKEYS.       *)
LEMMA ClientReadsNewKeysKeeps ==
  ASSUME TransportIndInv, ClientReadsNewKeys
  PROVE  TransportIndInv'
<1>1. PICK r, key, at, c, type, body, msgs :
        /\ r = ClientRead(cl) /\ key = <<cl.encr[2], cl.hash, "D">> /\ at = "accept"
        /\ c = [r EXCEPT !.at = at, !.readKey = key]
        /\ type = SERVICE_REQUEST /\ body = Long /\ msgs = <<<<SERVICE_REQUEST, Long>>>>
  OBVIOUS
<1>2. cl.at = "newkeys" /\ ClientTakes /\ Say(c, msgs) /\ msgs = <<<<type, body>>>>
  BY <1>1 DEF ClientReadsNewKeys, loadCryptovariable
<1>3. ServerInv /\ OutInv /\ ClientInv /\ InInv
  BY DEF TransportIndInv
<1>4. /\ DOMAIN r = ClientFields /\ r.readSeq = cl.readSeq + 1
      /\ \A f \in ClientFields \ {"readSeq"} : r[f] = cl[f]
  BY <1>1, <1>3, ClientReadIs
<1>5. cl.at \notin Departed \cup {"hello", "server hello", "open", "data"}
  BY <1>2 DEF Departed
<1>6. /\ DOMAIN c = ClientFields /\ c.readKey = key /\ c.at = at
      /\ \A f \in ClientFields \ {"readKey", "at"} : c[f] = r[f]
  BY <1>1, <1>4 DEF ClientFields
<1>7. /\ c.readSeq = cl.readSeq + 1 /\ c.writeKey = cl.writeKey /\ c.writeSeq = cl.writeSeq
      /\ c.request = cl.request /\ c.hash = cl.hash /\ c.bad = cl.bad
      /\ c.kex = cl.kex /\ c.encr = cl.encr /\ c.noOps = cl.noOps /\ c.sent = cl.sent
  BY <1>4, <1>6 DEF ClientFields
<1>8. cl.writeSeq \in Nat /\ cl.readSeq \in Nat /\ sv.readSeq \in Nat
  BY <1>3 DEF ClientInv, ServerInv
<1>9. cl.bad \in BOOLEAN /\ cl.noOps \in 0..NoOpBound /\ cl.sent \in 0..DataBound
  BY <1>3 DEF ClientInv
<1>10. cl.request \in Requests /\ cl.writeSeq >= (IF hello.guess THEN 2 ELSE 1)
  BY <1>2, <1>3 DEF ClientInv
<1>11. /\ cl.kex = Chosen.kex /\ cl.encr = <<Chosen.in, Chosen.out>>
       /\ None \notin {Chosen.kex, Chosen.in, Chosen.out}
  <2> HIDE DEF Chosen
  <2> QED BY <1>3, <1>5 DEF ClientInv
<1> HIDE DEF Chosen
<1>12. Replied /\ cl.readSeq = Switch /\ cl.hash = sv.hash
  <2> HIDE DEF Replied, Switch
  <2> QED BY <1>2, <1>3 DEF ClientInv
<1>13. at \in SecureClient /\ at \notin Early \cup Departed
       /\ at \notin {"hello", "server hello", "group", "reply", "newkeys"}
  BY <1>1 DEF SecureClient, Early, Departed
<1>14. Continues(c)
  BY <1>5, <1>6, <1>7, <1>13 DEF Continues
<1>15. Said(c, 1)
  BY <1>2, <1>8, <1>14, SaidOne
<1>16. InInv'
  <2>1. Fits(type, body, cl.writeSeq)
    BY <1>1 DEF Fits, Neutral
  <2> QED BY <1>2, <1>3, <1>5, <1>8, <1>14, <2>1, OneFits
<1>17. /\ ServerWaits /\ DOMAIN cl' = ClientFields /\ cl'.writeSeq = cl.writeSeq + 1
       /\ \A f \in ClientFields \ {"writeSeq"} : cl'[f] = c[f]
  BY <1>15 DEF Said
<1>18. /\ cl'.at = at /\ cl'.kex = cl.kex /\ cl'.encr = cl.encr /\ cl'.hash = cl.hash
       /\ cl'.readSeq = cl.readSeq + 1 /\ cl'.request = cl.request /\ cl'.readKey = key
       /\ cl'.bad = cl.bad /\ cl'.noOps = cl.noOps /\ cl'.sent = cl.sent
  BY <1>6, <1>7, <1>17 DEF ClientFields
<1>19. Chosen' = Chosen /\ hello' = hello /\ sv' = sv /\ Switch' = Switch
  BY <1>17, Waiting DEF ServerWaits
<1>20. Replied' <=> Replied
  BY <1>19 DEF Replied
<1>21. ClientInv'
  <2>1. cl'.at \in ClPlaces
    BY <1>1, <1>18 DEF ClPlaces
  <2>2. cl'.readSeq > Switch' /\ cl'.readSeq \in Nat
    <3>1. PICK k : k = Switch
      OBVIOUS
    <3>2. cl'.readSeq = k + 1 /\ Switch' = k /\ k \in Nat
      BY <1>8, <1>12, <1>18, <1>19, <3>1
    <3> QED BY <3>2
  <2>3. cl'.writeSeq \in Nat /\ cl'.writeSeq >= (IF hello'.guess THEN 2 ELSE 1)
    <3>1. PICK k : k = IF hello.guess THEN 2 ELSE 1
      OBVIOUS
    <3>2. k \in Nat
      BY <3>1
    <3>3. cl.writeSeq >= k
      BY <1>10, <3>1
    <3>4. cl'.writeSeq \in Nat /\ cl'.writeSeq >= k
      BY <1>8, <1>17, <3>2, <3>3
    <3> QED BY <1>19, <3>1, <3>4
  <2>4. /\ cl'.kex = Chosen'.kex /\ cl'.encr = <<Chosen'.in, Chosen'.out>>
        /\ None \notin {Chosen'.kex, Chosen'.in, Chosen'.out}
    BY <1>11, <1>18, <1>19
  <2>5. Replied' /\ cl'.hash = sv'.hash /\ cl'.readKey = <<cl'.encr[2], sv'.hash, "D">>
    <3> HIDE DEF Replied
    <3> QED BY <1>1, <1>12, <1>18, <1>19, <1>20
  <2>6. cl'.bad \in BOOLEAN /\ cl'.noOps \in 0..NoOpBound /\ cl'.sent \in 0..DataBound
    BY <1>9, <1>18
  <2>7. cl'.request \in Requests
    BY <1>10, <1>18
  <2> HIDE DEF SecureClient, Departed, Early, Replied, Switch
  <2> QED BY <1>13, <1>17, <1>18, <2>1, <2>2, <2>3, <2>4, <2>5, <2>6, <2>7 DEF ClientInv
<1> QED BY <1>2, <1>7, <1>15, <1>16, <1>21, MovesOn

(* The reply the client takes is the server's, with the hash both have     *)
(* computed; the server is then behind its reply and not beyond.           *)
LEMMA ReplyIsRead ==
  ASSUME TransportIndInv, cl.at = "reply", toClient # <<>>, NEW p, p = Head(toClient),
         p.type = (IF cl.kex = DH THEN KEXDH_REPLY ELSE GEX_REPLY)
  PROVE  /\ Replied /\ cl.readSeq = Switch - 1 /\ p.body = sv.hash
         /\ sv.at \in {"newkeys", "ended"}
<1>1. ServerInv /\ ClientInv /\ InInv
  BY DEF TransportIndInv
<1>2. cl.kex = Chosen.kex
  <2>1. cl.at \notin {"hello", "server hello"} \cup Departed
    BY DEF Departed
  <2> HIDE DEF Chosen, Departed
  <2> QED BY <1>1, <2>1 DEF ClientInv
<1>3. PICK n : n = cl.readSeq
  OBVIOUS
<1>4. OutPacket(p, n)
  BY <1>3, HeadOut
<1>5. p.type \in {GEX_GROUP, GEX_REPLY}
  BY DEF GEX_GROUP, KEXDH_REPLY, GEX_REPLY
<1>6. \/ sv.requested /\ p.type = GEX_GROUP
      \/ n = Switch - 1 /\ Replied /\ p.body = sv.hash
  <2> HIDE DEF Switch, Replied, Sizes
  <2> QED BY <1>4, <1>5 DEF OutPacket
<1>7. ~(sv.requested /\ p.type = GEX_GROUP)
  <2>1. SUFFICES ASSUME sv.requested, p.type = GEX_GROUP
                 PROVE  FALSE
    OBVIOUS
  <2>2. Chosen.kex # DH
    BY <1>1, <2>1, GroupExchange
  <2> HIDE DEF Chosen
  <2>3. p.type = GEX_REPLY
    BY <1>2, <2>2
  <2> QED BY <2>1, <2>3 DEF GEX_GROUP, GEX_REPLY
<1> HIDE DEF Replied, Switch, Chosen
<1>8. n = Switch - 1 /\ Replied /\ p.body = sv.hash
  BY <1>6, <1>7
<1>9. sv.at \in {"newkeys", "ended"}
  <2>1. SUFFICES ASSUME sv.at # "ended"
                 PROVE  sv.at = "newkeys"
    OBVIOUS
  <2>2. sv.at \in AfterReply
    <3>1. sv.writeSeq \in Nat /\ Switch \in Nat
      BY <1>1 DEF ServerInv, Switch
    <3>2. ~(sv.writeSeq <= Switch - 1)
      BY <1>8, <3>1 DEF Replied
    <3> QED BY <1>1, <2>1, <3>2, ServerPlace
  <2>3. sv.at \notin Secure
    <3>1. cl.at \in Early
      BY DEF Early
    <3> QED BY <1>1, <3>1 DEF InInv
  <2> QED BY <2>2, <2>3 DEF AfterReply, Secure
<1> QED BY <1>3, <1>8, <1>9

(* One element behind a list.                                              *)
LEMMA LastOfTwo ==
  ASSUME NEW s, NEW q, IsList(s), IsList(q), Len(q) = 1
  PROVE  (s \o q)[Len(s) + 1] = q[1]
<1>1. PICK k : k = Len(q)
  OBVIOUS
<1>2. \A i \in 1..Len(q) : (s \o q)[Len(s) + i] = q[i]
  BY ListConcat
<1>3. 1 \in 1..Len(q)
  OBVIOUS
<1> QED BY <1>2, <1>3

(* The client's NEWKEYS goes out behind all it has sent in the clear.      *)
LEMMA NewKeysSaid ==
  ASSUME TransportIndInv, cl.at = "reply", ServerWaits, Replied, sv.at \in {"newkeys", "ended"},
         NEW q, IsList(q), Len(q) = 1, IsPacket(q[1], NEWKEYS, Long, Plain, cl.writeSeq),
         toServer' = toServer \o q, cl'.writeSeq = cl.writeSeq + 1, cl'.request = cl.request,
         cl'.at = "newkeys", cl'.writeKey = <<Chosen.in, sv.hash, "C">>
  PROVE  InInv'
<1>1. PICK s, t, m, k, e, number : /\ s = toServer /\ t = toServer' /\ m = Len(s) /\ e = q[1]
                                   /\ k = Len(q) /\ number = cl.writeSeq
  OBVIOUS
<1>2. /\ IsList(s) /\ sv.readSeq + m = number
      /\ \A i \in DOMAIN s : InPacket(s[i], sv.readSeq + i - 1)
  BY <1>1 DEF TransportIndInv, InInv
<1>3. cl.at \in Early /\ cl.at \notin {"open", "data"} \cup Departed /\ cl'.at \notin Early
  BY DEF Early, Departed
<1>4. /\ m \in Nat /\ DOMAIN s = 1..m /\ IsList(t) /\ Len(t) = m + k
      /\ DOMAIN t = 1..(m + k)
  BY <1>1, <1>2, ListShape, ListConcat
<1>5. k = 1
  BY <1>1
<1>6. /\ m \in Nat /\ DOMAIN s = 1..m /\ IsList(t) /\ Len(t) = m + 1 /\ DOMAIN t = 1..(m + 1)
  BY <1>4, <1>5
<1>7. \A i \in 1..m : t[i] = s[i]
  BY <1>1, <1>2, ListConcat
<1>8. t[m + 1] = e
  <2>1. t = s \o q /\ m = Len(s) /\ e = q[1]
    BY <1>1
  <2> QED BY <1>2, <2>1, LastOfTwo
<1>9. e.type = NEWKEYS /\ e.body = Long /\ e.key = Plain /\ e.mac = <<Plain, number>>
  BY <1>1 DEF IsPacket
<1>10. \A i \in 1..(m + 1) : (i \in 1..m /\ t[i] = s[i]) \/ (i = m + 1 /\ t[i] = e)
  BY <1>6, <1>7, <1>8
<1>11. \A i \in 1..m : s[i].key = Plain
  BY <1>1, <1>3, <1>6 DEF TransportIndInv, InInv
<1>12. \A i \in 1..m : s[i].type # NEWKEYS
  BY <1>2, <1>3, <1>6 DEF InPacket
<1>13. \A i \in 1..m : s[i].type # CHANNEL_OPEN
  BY <1>2, <1>3, <1>6 DEF InPacket
<1>14. Chosen' = Chosen /\ sv' = sv /\ hello' = hello /\ InKey' = InKey /\ Switch' = Switch
  BY Waiting DEF ServerWaits
<1>15. Replied'
  BY <1>14 DEF Replied
<1>16. ASSUME NEW p, NEW n, InPacket(p, n), p.type # NEWKEYS, p.type # CHANNEL_OPEN
       PROVE  InPacket(p, n)'
  <2>1. \A x, y : FirstOf(x, y)' = FirstOf(x, y)
    BY DEF FirstOf
  <2> HIDE DEF Chosen, FirstOf, Early, Departed
  <2>2. p.type \in {GEX_REQUEST_OLD, GEX_REQUEST_NEW} =>
          /\ n >= 1
          /\ <<p.type, p.body>> =
               FirstOf(IF n = 1 /\ hello.guess THEN hello.kex[1] ELSE Chosen.kex, cl.request)
    BY <1>16 DEF InPacket
  <2>3. p.type \in {GEX_REQUEST_OLD, GEX_REQUEST_NEW} =>
          /\ n >= 1
          /\ <<p.type, p.body>> =
               FirstOf(IF n = 1 /\ hello'.guess THEN hello'.kex[1] ELSE Chosen'.kex, cl'.request)
    BY <1>14, <2>2
  <2>4. p.type \in 1..100 /\ p.mac = <<p.key, n>> /\ (p.type = KEXINIT => p.body = hello')
    BY <1>14, <1>16 DEF InPacket
  <2> QED BY <1>16, <2>3, <2>4 DEF InPacket
<1> HIDE DEF Replied, Chosen, Early, Departed, Switch, InKey
<1>17. InPacket(e, number)'
  <2>1. e.type \in (1..100) \ {KEXINIT, GEX_REQUEST_OLD, GEX_REQUEST_NEW, CHANNEL_OPEN}
    BY <1>9 DEF KEXINIT, NEWKEYS, GEX_REQUEST_OLD, GEX_REQUEST_NEW, CHANNEL_OPEN
  <2>2. cl'.writeKey = <<Chosen'.in, sv'.hash, "C">> /\ sv'.at \in {"newkeys", "ended"}
    BY <1>14
  <2>3. e.mac = <<e.key, number>>
    BY <1>9
  <2> QED BY <1>3, <1>15, <2>1, <2>2, <2>3 DEF InPacket
<1>18. \A i \in DOMAIN t : InPacket(t[i], sv.readSeq + i - 1)'
  <2>1. TAKE i \in DOMAIN t
  <2>2. PICK p, n : p = t[i] /\ n = sv.readSeq + i - 1
    OBVIOUS
  <2>3. CASE i \in 1..m /\ t[i] = s[i]
    <3>1. InPacket(p, n) /\ p.type # NEWKEYS /\ p.type # CHANNEL_OPEN
      BY <1>2, <1>6, <1>12, <1>13, <2>2, <2>3
    <3>2. InPacket(p, n)'
      BY <1>16, <3>1
    <3> QED BY <1>14, <2>2, <3>2
  <2>4. CASE i = m + 1 /\ t[i] = e
    <3>1. n = number
      <4>1. sv.readSeq \in Nat
        BY DEF TransportIndInv, ServerInv
      <4> QED BY <1>2, <1>6, <2>2, <2>4, <4>1
    <3> QED BY <1>14, <1>17, <2>2, <2>4, <3>1
  <2> QED BY <1>6, <1>10, <2>3, <2>4
<1>19. KeysInOrder(t)'
  <2>1. SUFFICES ASSUME NEW i \in 1..(m + 1), NEW j \in 1..(m + 1)
                 PROVE  /\ t[i].type = NEWKEYS =>
                             t[j].key = (IF j <= i THEN Plain ELSE cl'.writeKey)
                        /\ t[i].type = NEWKEYS /\ t[j].type = NEWKEYS => i = j
                        /\ t[i].type = CHANNEL_OPEN /\ i < j => t[j].type \in AfterOpen
    BY <1>6 DEF KeysInOrder
  <2>2. t[j].key = Plain
    BY <1>9, <1>10, <1>11
  <2>3. t[i].type # CHANNEL_OPEN
    BY <1>9, <1>10, <1>13 DEF NEWKEYS, CHANNEL_OPEN
  <2>4. t[i].type = NEWKEYS => i = m + 1
    BY <1>10, <1>12
  <2>5. t[j].type = NEWKEYS => j = m + 1
    BY <1>10, <1>12
  <2>6. j <= m + 1
    BY <1>6
  <2> QED BY <2>2, <2>3, <2>4, <2>5, <2>6
<1>20. sv'.readSeq + Len(t) = cl'.writeSeq
  <2>1. sv.readSeq \in Nat
    BY DEF TransportIndInv, ServerInv
  <2>2. sv.readSeq + m = cl.writeSeq
    BY <1>1, <1>2
  <2>3. Len(t) = m + 1 /\ m \in Nat
    BY <1>6
  <2>4. sv'.readSeq = sv.readSeq
    BY <1>14
  <2>5. sv.readSeq + (m + 1) = sv.readSeq + m + 1
    BY <2>1, <2>3
  <2> QED BY <2>2, <2>3, <2>4, <2>5
<1>21. sv'.at \in BeforeReply \cup {"newkeys"} => sv'.readKey = Plain
  BY <1>14 DEF TransportIndInv, InInv
<1>22. sv'.at \notin Secure /\ sv'.at # "data"
  BY <1>14 DEF Secure
<1>23. ~(\A i \in DOMAIN t : t[i].type # NEWKEYS)
  <2>1. m + 1 \in DOMAIN t
    BY <1>6
  <2> QED BY <1>8, <1>9, <2>1
<1> HIDE DEF BeforeReply, Secure, AfterOpen
<1> QED BY <1>1, <1>3, <1>6, <1>18, <1>19, <1>20, <1>21, <1>22, <1>23 DEF InInv, NoNewKeys

(* The client takes the server's reply and changes the key it writes with. *)
LEMMA ClientReadsReplyKeeps ==
  ASSUME TransportIndInv, ClientReadsReply
  PROVE  TransportIndInv'
<1>1. PICK r, p, hash, key, at, kind :
        /\ r = ClientRead(cl) /\ p = Head(toClient) /\ hash = ClientHash
        /\ key = <<cl.encr[1], hash, "C">> /\ at = "newkeys"
        /\ kind = (IF cl.kex = DH THEN KEXDH_REPLY ELSE GEX_REPLY)
  OBVIOUS
<1>2. PICK c, msgs : c = [r EXCEPT !.hash = hash, !.at = at] /\ msgs = <<<<NEWKEYS, Long>>>>
  OBVIOUS
<1> HIDE DEF ClientHash
<1>3. /\ cl.at = "reply" /\ ClientTakes
      /\ \/ GiveUp(r)
         \/ /\ p.type = kind /\ p.body = hash
            /\ toServer' = toServer \o Packets(c, msgs)
            /\ cl' = [c EXCEPT !.writeSeq = @ + 1, !.writeKey = key]
            /\ UNCHANGED <<ini, lists, hello, sv>>
  BY <1>1, <1>2, Zenon DEF ClientReadsReply, loadCryptovariable
<1>4. ServerInv /\ OutInv /\ ClientInv /\ InInv
  BY DEF TransportIndInv
<1>5. /\ DOMAIN r = ClientFields /\ r.readSeq = cl.readSeq + 1
      /\ \A f \in ClientFields \ {"readSeq"} : r[f] = cl[f]
  BY <1>1, <1>4, ClientReadIs
<1>6. cl.at \notin Departed \cup {"hello", "server hello", "open", "data"} /\ cl.at \in Early
  BY <1>3 DEF Departed, Early
<1>7. CASE GiveUp(r)
  BY <1>1, <1>3, <1>6, <1>7, GivesUp
<1>8. CASE /\ p.type = kind /\ p.body = hash
           /\ toServer' = toServer \o Packets(c, msgs)
           /\ cl' = [c EXCEPT !.writeSeq = @ + 1, !.writeKey = key]
           /\ UNCHANGED <<ini, lists, hello, sv>>
  <2>1. /\ DOMAIN c = ClientFields /\ c.hash = hash /\ c.at = at
        /\ \A f \in ClientFields \ {"hash", "at"} : c[f] = r[f]
    BY <1>2, <1>5 DEF ClientFields
  <2>2. c.writeSeq = cl.writeSeq /\ c.writeKey = cl.writeKey
    BY <1>5, <2>1 DEF ClientFields
  <2>3. /\ DOMAIN cl' = ClientFields /\ cl'.writeSeq = cl.writeSeq + 1 /\ cl'.writeKey = key
        /\ \A f \in ClientFields \ {"writeSeq", "writeKey"} : cl'[f] = c[f]
    BY <1>8, <2>1, <2>2 DEF ClientFields
  <2>4. /\ cl'.at = at /\ cl'.hash = hash /\ cl'.readSeq = cl.readSeq + 1
        /\ cl'.request = cl.request /\ cl'.readKey = cl.readKey /\ cl'.bad = cl.bad
        /\ cl'.kex = cl.kex /\ cl'.encr = cl.encr /\ cl'.noOps = cl.noOps /\ cl'.sent = cl.sent
    BY <1>5, <2>1, <2>3 DEF ClientFields
  <2>5. ServerWaits
    BY <1>8, <2>4 DEF ServerWaits
  <2>6. cl.readKey = Plain /\ cl.writeKey = Plain
    BY <1>4, <1>6 DEF ClientInv, InInv
  <2>7. cl.writeSeq \in Nat /\ cl.readSeq \in Nat /\ sv.readSeq \in Nat
    BY <1>4 DEF ClientInv, ServerInv
  <2>8. cl.bad \in BOOLEAN /\ cl.noOps \in 0..NoOpBound /\ cl.sent \in 0..DataBound
    BY <1>4 DEF ClientInv
  <2>9. cl.request \in Requests /\ cl.writeSeq >= (IF hello.guess THEN 2 ELSE 1)
    BY <1>3, <1>4 DEF ClientInv
  <2>10. /\ cl.kex = Chosen.kex /\ cl.encr = <<Chosen.in, Chosen.out>>
         /\ None \notin {Chosen.kex, Chosen.in, Chosen.out}
    <3> HIDE DEF Chosen
    <3> QED BY <1>4, <1>6 DEF ClientInv
  <2> HIDE DEF Chosen
  <2>11. /\ Replied /\ cl.readSeq = Switch - 1 /\ hash = sv.hash
         /\ sv.at \in {"newkeys", "ended"}
    <3>1. toClient # <<>>
      BY <1>3 DEF ClientTakes
    <3>2. p.type = (IF cl.kex = DH THEN KEXDH_REPLY ELSE GEX_REPLY) /\ p.body = hash
      BY <1>1, <1>8
    <3>3. /\ Replied /\ cl.readSeq = Switch - 1 /\ p.body = sv.hash
          /\ sv.at \in {"newkeys", "ended"}
      BY <1>1, <1>3, <3>1, <3>2, ReplyIsRead
    <3> HIDE DEF Replied, Switch
    <3> QED BY <3>2, <3>3
  <2>12. InInv'
    <3>1. PICK q, type, body : q = Packets(c, msgs) /\ type = NEWKEYS /\ body = Long
      OBVIOUS
    <3>2. q = Packets(c, <<<<type, body>>>>) /\ c.writeSeq \in Nat
      BY <1>2, <2>2, <2>7, <3>1
    <3>3. IsList(q) /\ Len(q) = 1 /\ IsPacket(q[1], type, body, c.writeKey, c.writeSeq)
      BY <3>2, OnePacket
    <3>4. IsPacket(q[1], NEWKEYS, Long, Plain, cl.writeSeq)
      BY <2>2, <2>6, <3>1, <3>3
    <3>5. cl'.writeKey = <<Chosen.in, sv.hash, "C">>
      BY <1>1, <2>3, <2>10, <2>11
    <3>6. cl'.at = "newkeys" /\ toServer' = toServer \o q
      BY <1>1, <1>8, <2>4, <3>1
    <3> HIDE DEF Replied
    <3> QED BY <1>3, <2>3, <2>4, <2>5, <2>11, <3>3, <3>4, <3>5, <3>6, NewKeysSaid
  <2>13. /\ Chosen' = Chosen /\ hello' = hello /\ sv' = sv /\ Switch' = Switch
    BY <2>5, Waiting DEF ServerWaits
  <2>14. Replied' <=> Replied
    BY <2>13 DEF Replied
  <2>15. ClientInv'
    <3>1. cl'.at \in ClPlaces /\ cl'.at = "newkeys" /\ cl'.at \notin SecureClient
      BY <1>1, <2>4 DEF ClPlaces, SecureClient
    <3>2. cl'.readSeq = Switch' /\ cl'.readSeq \in Nat
      <4>1. PICK k : k = Switch
        OBVIOUS
      <4>2. k \in Nat
        BY <4>1 DEF Switch
      <4>3. cl'.readSeq = cl.readSeq + 1 /\ cl.readSeq = k - 1 /\ Switch' = k
        BY <2>4, <2>11, <2>13, <4>1
      <4> QED BY <4>2, <4>3
    <3>3. cl'.writeSeq \in Nat /\ cl'.writeSeq >= (IF hello'.guess THEN 2 ELSE 1)
      <4>1. PICK k : k = IF hello.guess THEN 2 ELSE 1
        OBVIOUS
      <4>2. k \in Nat
        BY <4>1
      <4>3. cl.writeSeq >= k
        BY <2>9, <4>1
      <4>4. cl'.writeSeq \in Nat /\ cl'.writeSeq >= k
        BY <2>3, <2>7, <4>2, <4>3
      <4> QED BY <2>13, <4>1, <4>4
    <3>4. /\ cl'.kex = Chosen'.kex /\ cl'.encr = <<Chosen'.in, Chosen'.out>>
          /\ None \notin {Chosen'.kex, Chosen'.in, Chosen'.out}
      BY <2>4, <2>10, <2>13
    <3>5. Replied' /\ cl'.hash = sv'.hash
      <4> HIDE DEF Replied
      <4> QED BY <2>4, <2>11, <2>13, <2>14
    <3>6. cl'.bad \in BOOLEAN /\ cl'.noOps \in 0..NoOpBound /\ cl'.sent \in 0..DataBound
      BY <2>4, <2>8
    <3>7. cl'.request \in Requests /\ cl'.readKey = Plain
      BY <2>4, <2>6, <2>9
    <3> HIDE DEF SecureClient, Departed, Early, Replied, Switch
    <3> QED BY <2>3, <3>1, <3>2, <3>3, <3>4, <3>5, <3>6, <3>7 DEF ClientInv
  <2>16. OutInv'
    <3>1. toClient # <<>> /\ toClient' = Tail(toClient)
      BY <1>3 DEF ClientTakes
    <3> QED BY <1>4, <2>4, <2>5, <2>7, <3>1, OutTaken
  <2>17. ServerInv'
    BY <1>4, <2>5, ServerStands
  <2> QED BY <1>8, <2>12, <2>15, <2>16, <2>17 DEF TransportIndInv
<1> QED BY <1>3, <1>7, <1>8

-----------------------------------------------------------------------------
(* The whole.                                                              *)

(* What the invariant says at the start.                                   *)
LEMMA IndInit == Init => TransportIndInv
<1> SUFFICES ASSUME Init
             PROVE  TransportIndInv
  OBVIOUS
<1>1. ini \in Inis /\ hello \in Hellos /\ lists = SetAlgoLists(ini.kex, ini.encr)
  BY DEF Init
<1>2. toServer = <<>> /\ toClient = <<>>
  BY DEF Init
<1>3. PICK e : e = <<>>
  OBVIOUS
<1>4. IsList(e) /\ Len(e) = 0 /\ DOMAIN e = {}
  <2>1. e \in [1..0 -> {}]
    BY <1>3
  <2>2. IsList(e) /\ Len(e) = 0 /\ DOMAIN e = 1..0
    BY <2>1, FunctionIsList
  <2> QED BY <2>2
<1>5. /\ DOMAIN sv = ServerFields
      /\ sv.at = "start" /\ sv.noPackets = 0 /\ sv.readKey = Plain /\ sv.writeKey = Plain
      /\ sv.readSeq = 0 /\ sv.writeSeq = 0 /\ sv.kex = None /\ sv.encr = None
      /\ sv.requested = FALSE /\ sv.skip = FALSE /\ sv.secret = <<>>
      /\ sv.sent = 0
  BY DEF Init, ServerFields
<1>6. /\ DOMAIN cl = ClientFields
      /\ cl.at = "hello" /\ cl.readKey = Plain /\ cl.writeKey = Plain /\ cl.readSeq = 0
      /\ cl.writeSeq = 0 /\ cl.bad = FALSE /\ cl.noOps = 0 /\ cl.sent = 0
  BY DEF Init, ClientFields
<1>7. Switch = 2 /\ ~Replied /\ ~Accepted
  BY <1>5 DEF Switch, Replied, Accepted
<1>8. ServerInv
  <2>1. /\ sv.at \in SvPlaces /\ sv.at \notin AfterReply
        /\ sv.at \notin {"hello", "skip", "request", "init", "ended"}
    BY <1>5 DEF SvPlaces, AfterReply
  <2>2. sv.noPackets \in 0..(NoOpLimit - 1) /\ sv.sent \in 0..DataBound
    BY <1>5, TransportAssumption, PacketAssumption DEF NoOpLimit
  <2>3. sv.readSeq \in Nat /\ sv.writeSeq \in Nat /\ ~(sv.writeSeq > Switch + 1)
    BY <1>5, <1>7
  <2>4. sv.requested \in BOOLEAN /\ sv.skip \in BOOLEAN
    BY <1>5
  <2> HIDE DEF Switch, Replied, Accepted, AfterReply, SvPlaces
  <2> QED BY <1>5, <1>7, <2>1, <2>2, <2>3, <2>4 DEF ServerInv
<1>9. OutInv
  <2>1. cl.readSeq + Len(toClient) = sv.writeSeq
    BY <1>2, <1>3, <1>4, <1>5, <1>6
  <2> QED BY <1>2, <1>3, <1>4, <2>1 DEF OutInv
<1>10. ClientInv
  <2>1. /\ cl.at \in ClPlaces
        /\ cl.at \notin {"server hello", "group", "reply", "newkeys"} \cup SecureClient
    BY <1>6 DEF ClPlaces, SecureClient
  <2>2. cl.noOps \in 0..NoOpBound /\ cl.sent \in 0..DataBound
    BY <1>6, TransportAssumption, PacketAssumption
  <2>3. cl.readSeq \in Nat /\ cl.writeSeq \in Nat /\ cl.bad \in BOOLEAN
    <3>1. cl.readSeq = 0 /\ cl.writeSeq = 0
      BY <1>6
    <3>2. cl.bad \in BOOLEAN
      BY <1>6
    <3> QED BY <3>1, <3>2
  <2> HIDE DEF SecureClient, ClPlaces
  <2> QED BY <1>6, <2>1, <2>2, <2>3 DEF ClientInv
<1>11. InInv
  <2>1. sv.readSeq + Len(toServer) = cl.writeSeq
    BY <1>2, <1>3, <1>4, <1>5, <1>6
  <2>2. sv.at \notin Secure /\ sv.at # "data"
    BY <1>5 DEF Secure
  <2>3. KeysInOrder(toServer)
    BY <1>2, <1>3, <1>4 DEF KeysInOrder
  <2> QED BY <1>2, <1>3, <1>4, <1>5, <1>6, <2>1, <2>2, <2>3 DEF InInv
<1> QED BY <1>1, <1>8, <1>9, <1>10, <1>11 DEF TransportIndInv

(* Nothing happens.                                                        *)
LEMMA IndStutters ==
  ASSUME TransportIndInv, UNCHANGED vars
  PROVE  TransportIndInv'
<1>1. ServerWaits /\ toClient' = toClient /\ toServer' = toServer /\ cl' = cl
  BY DEF vars, ServerWaits
<1>2. ServerInv /\ OutInv /\ ClientInv /\ InInv
  BY DEF TransportIndInv
<1>3. ServerInv'
  BY <1>1, <1>2, ServerStands
<1>4. OutInv'
  <2>1. cl.readSeq \in Nat
    BY <1>2 DEF ClientInv
  <2> QED BY <1>1, <1>2, <2>1, OutTaken
<1>5. sv' = sv /\ hello' = hello /\ lists' = lists /\ ini' = ini
  BY <1>1 DEF ServerWaits
<1>6. ClientInv'
  BY <1>1, <1>2, <1>5, ClientKept, Waiting DEF Replied
<1>7. InInv'
  <2>1. Chosen' = Chosen /\ InKey' = InKey /\ Switch' = Switch
    BY <1>1, Waiting
  <2>2. Replied' <=> Replied
    BY <1>5, <2>1 DEF Replied
  <2>3. ASSUME NEW p, NEW n, InPacket(p, n)
        PROVE  InPacket(p, n)'
    <3>1. p.type = NEWKEYS =>
            /\ sv'.at \in {"newkeys", "ended"} /\ Replied' /\ sv'.hash = sv.hash
      <4> HIDE DEF Replied
      <4> QED BY <1>5, <2>2, <2>3 DEF InPacket
    <3> QED BY <1>1, <1>5, <2>3, <3>1, InKept
  <2>4. \A i \in DOMAIN toServer' : InPacket(toServer[i], sv.readSeq + i - 1)'
    <3>1. TAKE i \in DOMAIN toServer'
    <3>2. PICK p, n : p = toServer[i] /\ n = sv.readSeq + i - 1
      OBVIOUS
    <3>3. InPacket(p, n)
      BY <1>1, <1>2, <3>2 DEF InInv
    <3>4. InPacket(p, n)'
      BY <2>3, <3>3
    <3> QED BY <1>1, <1>5, <3>2, <3>4
  <2>5. KeysInOrder(toServer)'
    BY <1>1, <1>2 DEF InInv, KeysInOrder
  <2>6. NoNewKeys' <=> NoNewKeys
    BY <1>1 DEF NoNewKeys
  <2> HIDE DEF NoNewKeys, InKey, KeysInOrder
  <2> QED BY <1>1, <1>2, <1>5, <2>1, <2>4, <2>5, <2>6 DEF InInv
<1> QED BY <1>2, <1>3, <1>4, <1>5, <1>6, <1>7 DEF TransportIndInv

(* Every step keeps the invariant.                                         *)
LEMMA IndStep == TransportIndInv /\ [Next]_vars => TransportIndInv'
<1> SUFFICES ASSUME TransportIndInv, [Next]_vars
             PROVE  TransportIndInv'
  OBVIOUS
<1>1. CASE UNCHANGED vars
  BY <1>1, IndStutters
<1>2. CASE ServerBegin \/ ServerPushes
  BY <1>2, ServerBeginKeeps, ServerPushesKeeps
<1>3. CASE ServerReads
  BY <1>3, ServerHelloKeeps, ServerSkipKeeps, ServerGroupKeeps, ServerReplyKeeps,
     ServerNewKeysKeeps, ServerServiceKeeps, ServerAuthenticatesKeeps, ServerRejectsKeeps,
     ServerOpensKeeps, ServerIgnoresKeeps, ServerFailsKeeps, ServerDataKeeps DEF ServerReads
<1>4. CASE ClientReads
  BY <1>4, ClientHelloKeeps, ClientReadsHelloKeeps, ClientReadsGroupKeeps,
     ClientReadsReplyKeeps, ClientReadsNewKeysKeeps, ClientProceedsKeeps,
     ClientReadsDataKeeps DEF ClientReads
<1>5. CASE ClientSendsData \/ ClientSendsNoOp \/ ClientLeaves
  BY <1>5, ClientSendsDataKeeps, ClientSendsNoOpKeeps, ClientLeavesKeeps
<1> QED BY <1>1, <1>2, <1>3, <1>4, <1>5 DEF Next

(* The inductive invariant of the transport.                               *)
THEOREM Transport == Spec => []TransportIndInv
<1>1. Init => TransportIndInv
  BY IndInit
<1>2. TransportIndInv /\ [Next]_vars => TransportIndInv'
  BY IndStep
<1> QED BY <1>1, <1>2, PTL DEF Spec

(* The head of the server's queue.                                         *)
LEMMA HeadIn ==
  ASSUME TransportIndInv, toServer # <<>>
  PROVE  InPacket(Head(toServer), sv.readSeq)
<1>1. IsList(toServer) /\ \A i \in DOMAIN toServer : InPacket(toServer[i], sv.readSeq + i - 1)
  BY DEF TransportIndInv, InInv
<1>2. Head(toServer) = toServer[1] /\ 1 \in DOMAIN toServer
  BY <1>1, ListTail, ListShape
<1>3. sv.readSeq + 1 - 1 = sv.readSeq
  <2>1. sv.readSeq \in Nat
    BY DEF TransportIndInv, ServerInv
  <2> QED BY <2>1
<1>4. PICK n, p : n = sv.readSeq + 1 - 1 /\ p = Head(toServer)
  OBVIOUS
<1>5. InPacket(p, n)
  BY <1>1, <1>2, <1>4
<1> QED BY <1>3, <1>4, <1>5

(* What the server reads next was written with the key it reads with.      *)
LEMMA ServerKeys ==
  ASSUME TransportIndInv, toServer # <<>>, sv.at # "ended"
  PROVE  Authentic(sv, Head(toServer))
<1>1. PICK s, p, n : s = toServer /\ p = Head(toServer) /\ n = sv.readSeq
  OBVIOUS
<1>2. InPacket(p, n)
  BY <1>1, HeadIn
<1>3. p.mac = <<p.key, n>>
  BY <1>2 DEF InPacket
<1>4. IsList(s) /\ p = s[1] /\ 1 \in DOMAIN s /\ DOMAIN s = 1..Len(s) /\ Len(s) \in Nat
  BY <1>1, ListTail, ListShape DEF TransportIndInv, InInv
<1>5. p.key = sv.readKey
  <2>1. CASE NoNewKeys
    BY <1>1, <1>4, <2>1 DEF TransportIndInv, InInv
  <2>2. CASE ~NoNewKeys
    <3>1. PICK i \in DOMAIN s : s[i].type = NEWKEYS
      BY <1>1, <2>2 DEF NoNewKeys
    <3>2. s[1].key = Plain
      <4>1. 1 <= i
        BY <1>4, <3>1
      <4>2. s[i].type = NEWKEYS => s[1].key = (IF 1 <= i THEN Plain ELSE cl.writeKey)
        BY <1>1, <1>4 DEF TransportIndInv, InInv, KeysInOrder
      <4> QED BY <3>1, <4>1, <4>2
    <3>3. sv.at \in {"newkeys", "ended"}
      <4>1. PICK x, m : x = s[i] /\ m = sv.readSeq + i - 1
        OBVIOUS
      <4>2. InPacket(x, m)
        BY <1>1, <3>1, <4>1 DEF TransportIndInv, InInv
      <4> QED BY <3>1, <4>1, <4>2 DEF InPacket
    <3>4. sv.readKey = Plain
      BY <3>3 DEF TransportIndInv, InInv
    <3> QED BY <1>4, <3>2, <3>4
  <2> QED BY <2>1, <2>2
<1> QED BY <1>1, <1>3, <1>5 DEF Authentic, checkMacSSH, macDataSSH

(* What the client reads next was written with the key it reads with, when *)
(* it has named its ciphers in the same order for both directions.         *)
LEMMA ClientKeys ==
  ASSUME TransportIndInv, toClient # <<>>, cl.at \notin Departed, hello.encrIn = hello.encrOut
  PROVE  Authentic(cl, Head(toClient))
<1>1. PICK p, n : p = Head(toClient) /\ n = cl.readSeq
  OBVIOUS
<1>2. ServerInv /\ ClientInv
  BY DEF TransportIndInv
<1>3. OutPacket(p, n)
  BY <1>1, HeadOut
<1>4. p.key = (IF n <= Switch THEN Plain ELSE OutKey) /\ p.mac = <<p.key, n>>
  <2> HIDE DEF Switch, OutKey
  <2> QED BY <1>3 DEF OutPacket
<1>5. Chosen.in = Chosen.out
  BY DEF Chosen, ClientChoice
<1>6. Switch \in {2, 3} /\ n \in Nat
  BY <1>1, <1>2 DEF Switch, ClientInv
<1>7. p.key = cl.readKey
  <2>1. CASE cl.at \in SecureClient
    <3>1. n > Switch /\ cl.readKey = <<cl.encr[2], sv.hash, "D">>
      <4> HIDE DEF Switch
      <4> QED BY <1>1, <1>2, <2>1 DEF ClientInv
    <3>2. cl.encr[2] = Chosen.out /\ None \notin {Chosen.in, Chosen.out}
      <4> HIDE DEF Chosen
      <4>1. cl.at \notin {"hello", "server hello"} \cup Departed
        BY <2>1 DEF SecureClient, Departed
      <4>2. cl.encr = <<Chosen.in, Chosen.out>> /\ None \notin {Chosen.kex, Chosen.in, Chosen.out}
        BY <1>2, <4>1 DEF ClientInv
      <4> QED BY <4>2
    <3>3. p.key = OutKey
      <4>1. ~(n <= Switch)
        BY <1>6, <3>1
      <4> HIDE DEF Switch, OutKey
      <4> QED BY <1>4, <4>1
    <3>4. sv.encr = Chosen.in
      <4>1. OutInv
        BY DEF TransportIndInv
      <4>2. sv.writeSeq > Switch + 1
        <5>1. PICK k, m, w : k = Switch /\ m = Len(toClient) /\ w = sv.writeSeq
          OBVIOUS
        <5>2. IsList(toClient) /\ n + m = w
          BY <1>1, <4>1, <5>1 DEF OutInv
        <5>3. m >= 1 /\ m \in Nat
          BY <5>1, <5>2, ListTail, ListShape
        <5>4. n > k /\ k \in Nat
          BY <1>6, <3>1, <5>1
        <5>5. w > k + 1
          BY <1>6, <5>2, <5>3, <5>4
        <5> QED BY <5>1, <5>5
      <4>3. sv.encr # None
        <5> HIDE DEF Switch
        <5> QED BY <1>2, <4>2 DEF ServerInv
      <4>4. Accepted
        <5> HIDE DEF Accepted
        <5> QED BY <1>2, <4>3 DEF ServerInv
      <4>5. Choice
        BY <1>2, <4>4 DEF ServerInv
      <4> HIDE DEF Chosen
      <4> QED BY <4>3, <4>5 DEF Choice
    <3> HIDE DEF Chosen
    <3> QED BY <1>5, <3>1, <3>2, <3>3, <3>4 DEF OutKey
  <2>2. CASE cl.at \in Early \cup {"newkeys"}
    <3>1. cl.readKey = Plain
      BY <1>2, <2>2 DEF ClientInv
    <3>2. n <= Switch
      <4>1. CASE cl.at = "newkeys"
        <5>1. n = Switch
          <6> HIDE DEF Switch
          <6> QED BY <1>1, <1>2, <4>1 DEF ClientInv
        <5> QED BY <1>6, <5>1
      <4>2. CASE cl.at \in Early
        <5>1. n \in {0, 1, 2}
          BY <1>1, <1>2, <4>2 DEF ClientInv, Early
        <5> QED BY <1>6, <5>1
      <4> QED BY <2>2, <4>1, <4>2
    <3> HIDE DEF Switch, OutKey
    <3> QED BY <1>4, <3>1, <3>2
  <2> QED BY <1>2, <2>1, <2>2 DEF ClientInv, ClPlaces, Early, SecureClient, Departed
<1> QED BY <1>1, <1>4, <1>7 DEF Authentic, checkMacSSH, macDataSSH

(* A list of four and one more.                                            *)
LEMMA FourAndOne ==
  ASSUME NEW a, NEW b, NEW c, NEW d, NEW e
  PROVE  <<a, b, c, d>> \o <<e>> = <<a, b, c, d, e>>
<1>1. PICK S, q, r, t : /\ S = {a, b, c, d, e} /\ q = <<a, b, c, d>> /\ r = <<e>>
                        /\ t = <<a, b, c, d, e>>
  OBVIOUS
<1>2. q \in Seq(S) /\ r \in Seq(S) /\ t \in Seq(S)
  BY <1>1
<1>3. /\ Len(q) = 4 /\ Len(r) = 1 /\ Len(t) = 5 /\ r[1] = e
      /\ q[1] = a /\ q[2] = b /\ q[3] = c /\ q[4] = d
      /\ t[1] = a /\ t[2] = b /\ t[3] = c /\ t[4] = d /\ t[5] = e
  BY <1>1
<1>4. PICK u : u = q \o r
  OBVIOUS
<1>5. u \in Seq(S)
  BY <1>2, <1>4, ConcatProperties
<1>6. Len(u) = Len(q) + Len(r)
  BY <1>2, <1>4, ConcatProperties
<1>7. \A i \in 1..5 : u[i] = IF i <= 4 THEN q[i] ELSE r[i - 4]
  <2>1. \A i \in 1..(Len(q) + Len(r)) : u[i] = IF i <= Len(q) THEN q[i] ELSE r[i - Len(q)]
    BY <1>2, <1>4, ConcatProperties
  <2>2. PICK m, n : m = Len(q) /\ n = Len(r)
    OBVIOUS
  <2>3. \A i \in 1..(m + n) : u[i] = IF i <= m THEN q[i] ELSE r[i - m]
    BY <2>1, <2>2
  <2>4. m = 4 /\ n = 1 /\ m + n = 5
    BY <1>3, <2>2
  <2> QED BY <2>3, <2>4
<1>8. u[1] = a /\ u[2] = b /\ u[3] = c /\ u[4] = d /\ u[5] = e
  BY <1>3, <1>7
<1>9. \A i \in 1..5 : u[i] = t[i]
  BY <1>3, <1>8
<1>10. Len(u) = 5
  BY <1>3, <1>6
<1>11. u = t
  BY <1>2, <1>3, <1>5, <1>9, <1>10, SeqEqual
<1> QED BY <1>1, <1>4, <1>11

(* The hash of the exchange, from either side.                             *)
LEMMA HashParts ==
  ASSUME cl.group = sv.group,
         sv.secret = IF cl.kex = DH THEN <<>> ELSE <<<<"sizes", cl.request>>, <<"group", cl.group>>>>
  PROVE  FinalHash = ClientHash
<1>1. PICK a, b, c, d, e, f, g, h :
        /\ a = <<"client id">> /\ b = <<"server id">> /\ c = <<"client hello", hello>>
        /\ d = <<"server hello">> /\ e = <<"host key">> /\ f = sv.secret
        /\ g = <<<<"client value">>, <<"server value">>, <<"secret", cl.group>>>>
        /\ h = <<a, b, c, d>>
  OBVIOUS
<1>2. h \o <<e>> = <<a, b, c, d, e>>
  BY FourAndOne, <1>1
<1>3. FinalHash = (h \o <<e>>) \o f \o g
  BY <1>1 DEF FinalHash, Prefix
<1>4. ClientHash = <<a, b, c, d, e>> \o f \o g
  BY <1>1 DEF ClientHash
<1> QED BY <1>2, <1>3, <1>4

(* The hash the server has signed is the one the client computes.          *)
LEMMA HashIsSame ==
  ASSUME TransportIndInv, sv.at = "newkeys", cl.at = "reply"
  PROVE  sv.hash = ClientHash
<1>1. ServerInv /\ ClientInv
  BY DEF TransportIndInv
<1>2. cl.kex = Chosen.kex
  <2>1. cl.at \notin {"hello", "server hello"} \cup Departed
    BY DEF Departed
  <2> HIDE DEF Chosen, Departed
  <2> QED BY <1>1, <2>1 DEF ClientInv
<1>3. Replied
  <2>1. sv.at \in AfterReply
    BY DEF AfterReply
  <2> HIDE DEF Replied
  <2> QED BY <1>1, <2>1 DEF ServerInv
<1>4. sv.hash = FinalHash
  <2> HIDE DEF FinalHash, Replied
  <2> QED BY <1>1, <1>3 DEF ServerInv
<1>5. (sv.requested => Chosen.kex # DH) /\ (~sv.requested => Chosen.kex = DH)
  BY <1>1, <1>3, GroupExchange
<1> HIDE DEF Chosen, Replied
<1>6. CASE sv.requested
  <2>1. cl.kex # DH
    BY <1>2, <1>5, <1>6
  <2>2. cl.group = sv.group /\ sv.secret = Sizes(sv.group)
    <3> HIDE DEF Sizes
    <3> QED BY <1>1, <2>1 DEF ClientInv
  <2>3. PICK a, g : a = sv.secret /\ g = sv.group
    OBVIOUS
  <2>4. a = <<<<"sizes", cl.request>>, <<"group", g>>>> /\ cl.group = g
    BY <2>2, <2>3 DEF Sizes
  <2>5. cl.group = sv.group /\ FinalHash = ClientHash
    BY <2>1, <2>3, <2>4, HashParts
  <2> HIDE DEF FinalHash, ClientHash
  <2> QED BY <1>4, <2>5
<1>7. CASE ~sv.requested
  <2>1. cl.kex = DH
    BY <1>2, <1>5, <1>7
  <2>2. cl.group = DHDefault /\ sv.secret = <<>>
    BY <1>1, <1>7, <2>1 DEF ClientInv, ServerInv
  <2>3. sv.group = DHDefault
    BY <1>1, <1>7 DEF ServerInv
  <2>4. FinalHash = ClientHash
    BY <2>1, <2>2, <2>3, HashParts
  <2> HIDE DEF FinalHash, ClientHash
  <2> QED BY <1>4, <2>4
<1> QED BY <1>6, <1>7

(* What the invariant says of types.                                       *)
LEMMA TransportTypes == TransportIndInv => TypeOK
<1> SUFFICES ASSUME TransportIndInv
             PROVE  TypeOK
  OBVIOUS
<1>1. ini \in Inis /\ hello \in Hellos /\ ServerInv /\ ClientInv
  BY DEF TransportIndInv
<1>2. /\ sv.at \in SvPlaces /\ sv.noPackets \in 0..(NoOpLimit - 1) /\ sv.sent \in 0..DataBound
      /\ sv.readSeq \in Nat /\ sv.writeSeq \in Nat
  BY <1>1 DEF ServerInv
<1>3. {sv.requested, sv.skip, cl.bad} \subseteq BOOLEAN
  <2>1. sv.requested \in BOOLEAN /\ sv.skip \in BOOLEAN
    BY <1>1 DEF ServerInv
  <2>2. cl.bad \in BOOLEAN
    BY <1>1 DEF ClientInv
  <2> QED BY <2>1, <2>2, Zenon
<1>4. cl.at \in ClPlaces /\ cl.noOps \in 0..NoOpBound /\ cl.sent \in 0..DataBound
  BY <1>1 DEF ClientInv
<1>5. \A i \in DOMAIN toServer : toServer[i].type \in 1..100
  <2>1. TAKE i \in DOMAIN toServer
  <2>2. PICK p, n : p = toServer[i] /\ n = sv.readSeq + i - 1
    OBVIOUS
  <2>3. InPacket(p, n)
    BY <2>2 DEF TransportIndInv, InInv
  <2> QED BY <2>2, <2>3 DEF InPacket
<1>6. \A i \in DOMAIN toClient : toClient[i].type \in 1..100
  <2>1. TAKE i \in DOMAIN toClient
  <2>2. PICK p, n : p = toClient[i] /\ n = cl.readSeq + i - 1
    OBVIOUS
  <2>3. OutPacket(p, n)
    BY <2>2 DEF TransportIndInv, OutInv
  <2> QED BY <2>2, <2>3 DEF OutPacket
<1> HIDE DEF SvPlaces, ClPlaces
<1> QED BY <1>1, <1>2, <1>3, <1>4, <1>5, <1>6 DEF TypeOK

(* The invariant implies each of the properties of the transport.          *)
LEMMA IndImplies == TransportIndInv => TransportInv
<1> SUFFICES ASSUME TransportIndInv
             PROVE  TransportInv
  OBVIOUS
<1>1. TypeOK
  BY TransportTypes
<1>2. SameKeys
  <2>1. toServer # <<>> /\ sv.at # "ended" => Authentic(sv, Head(toServer))
    BY ServerKeys
  <2>2. hello.encrIn = hello.encrOut /\ toClient # <<>> /\ cl.at \notin Departed =>
          Authentic(cl, Head(toClient))
    BY ClientKeys
  <2> QED BY <2>1, <2>2 DEF SameKeys, Departed
<1>3. SameHash
  BY HashIsSame DEF SameHash
<1>4. SkipsWrongGuesses
  <2>1. SUFFICES ASSUME sv.kex # None, ini.kex[1] = DHE
                 PROVE  sv.skip <=> hello.guess /\ ~Chosen.right
    BY DEF SkipsWrongGuesses
  <2>2. Choice
    BY <2>1 DEF TransportIndInv, ServerInv, Accepted
  <2> HIDE DEF Chosen
  <2> QED BY <2>1, <2>2, Zenon DEF Choice
<1> QED BY <1>1, <1>2, <1>3, <1>4 DEF TransportInv

(* Whatever is skipped, guessed or in flight, both sides are at the same   *)
(* keys, packet numbers and hash.                                          *)
THEOREM TransportHolds == Spec => []TransportInv
BY Transport, IndImplies, PTL

(* A packet of the open session that is not the end of it.                 *)
LEMMA OpenSessionReads ==
  ASSUME TransportIndInv, ServerData, sv'.at = "ended"
  PROVE  sv'.why = "READ"
<1>1. PICK p, s : p = Head(toServer) /\ s = [sv EXCEPT !.readSeq = @ + 1]
  OBVIOUS
<1>2. sv.at = "data" /\ toServer # <<>>
  BY DEF ServerData
<1>3. ServerInv
  BY DEF TransportIndInv
<1>4. Authentic(sv, p)
  BY <1>1, <1>2, ServerKeys
<1>5. p.type \in AfterOpen
  <2>1. IsList(toServer) /\ \A i \in DOMAIN toServer : toServer[i].type \in AfterOpen
    BY <1>2 DEF TransportIndInv, InInv
  <2>2. Head(toServer) = toServer[1] /\ 1 \in DOMAIN toServer
    BY <1>2, <2>1, ListTail, ListShape
  <2> QED BY <1>1, <2>1, <2>2
<1>6. ~(readPacketHeaderSSH2(sv, p, ValidDataPackets) # Ok \/ ~checkMacSSH(sv, p))
  <2>1. p.type \in ValidDataPackets
    BY <1>5 DEF AfterOpen, ValidDataPackets
  <2>2. p.key = sv.readKey /\ checkMacSSH(sv, p)
    BY <1>4 DEF Authentic
  <2> QED BY <2>1, <2>2 DEF readPacketHeaderSSH2
<1>7. IF readPacketHeaderSSH2(sv, p, ValidDataPackets) # Ok \/ ~checkMacSSH(sv, p)
      THEN End(s, BadData)
      ELSE IF p.type = DISCONNECT THEN End(s, getDisconnectInfo) ELSE Send(s, <<>>)
  BY <1>1 DEF ServerData
<1>8. IF p.type = DISCONNECT THEN End(s, getDisconnectInfo) ELSE Send(s, <<>>)
  BY <1>6, <1>7
<1>9. DOMAIN sv = ServerFields
  BY <1>3 DEF ServerInv
<1>11. CASE p.type = DISCONNECT
  <2>1. End(s, getDisconnectInfo)
    BY <1>8, <1>11
  <2>2. PICK t, why : why = "READ" /\ t = [s EXCEPT !.at = "ended", !.why = why]
    OBVIOUS
  <2>3. Send(t, <<<<DISCONNECT, Short>>>>)
    BY <2>1, <2>2 DEF End, getDisconnectInfo
  <2>4. DOMAIN t = ServerFields /\ t.why = why
    BY <1>1, <1>9, <2>2 DEF ServerFields
  <2>5. \A f \in ServerFields \ {"writeSeq"} : sv'[f] = t[f]
    BY <2>3, <2>4, SendIs
  <2> QED BY <2>2, <2>4, <2>5 DEF ServerFields
<1>12. CASE p.type # DISCONNECT
  <2>1. Send(s, <<>>)
    BY <1>8, <1>12
  <2>2. DOMAIN s = ServerFields /\ s.at = "data"
    BY <1>1, <1>2, <1>9 DEF ServerFields
  <2>3. \A f \in ServerFields \ {"writeSeq"} : sv'[f] = s[f]
    BY <2>1, <2>2, SendIs
  <2>4. sv'.at = "data"
    BY <2>2, <2>3 DEF ServerFields
  <2> QED BY <2>4
<1> QED BY <1>11, <1>12

(* No other step ends an open session.                                     *)
LEMMA OpenSessionsStep ==
  TransportIndInv /\ [Next]_vars =>
    [sv.at = "data" /\ sv'.at = "ended" => sv'.why = "READ"]_vars
<1> SUFFICES ASSUME TransportIndInv, Next, sv.at = "data", sv'.at = "ended"
             PROVE  sv'.why = "READ"
  BY DEF vars
<1>1. sv' # sv
  OBVIOUS
<1>2. CASE ServerData
  BY <1>2, OpenSessionReads
<1>3. CASE ServerPushes
  <2>1. PICK s : s = [sv EXCEPT !.sent = @ + 1]
    OBVIOUS
  <2>2. Send(s, <<<<CHANNEL_DATA, Short>>>>)
    BY <1>3, <2>1 DEF ServerPushes
  <2>3. DOMAIN sv = ServerFields
    BY DEF TransportIndInv, ServerInv
  <2>4. DOMAIN s = ServerFields /\ s.at = "data"
    BY <2>1, <2>3 DEF ServerFields
  <2>5. \A f \in ServerFields \ {"writeSeq"} : sv'[f] = s[f]
    BY <2>2, <2>4, SendIs
  <2>6. sv'.at = "data"
    BY <2>4, <2>5 DEF ServerFields
  <2> QED BY <2>6
<1>4. CASE ServerBegin
  BY <1>4 DEF ServerBegin
<1>5. CASE ServerReads /\ ~ServerData
  <2>1. InHandshake \/ \E at \in {"hello", "skip", "request", "init", "newkeys", "service", "auth", "open"} :
          ServerReceives(at)
    BY <1>5 DEF ServerReads, ServerHello, ServerSkip, ServerGroup, ServerReply, ServerNewKeys,
       ServerService, ServerAuthenticates, ServerRejects, ServerOpens, ServerIgnores, ServerFails
  <2> QED BY <2>1 DEF InHandshake, ServerReceives
<1>6. CASE ClientReads \/ ClientSendsData \/ ClientSendsNoOp \/ ClientLeaves
  <2>1. sv' = sv
    BY <1>6 DEF ClientReads, ClientHello, ClientReadsHello, ClientReadsGroup, ClientReadsReply,
       ClientReadsNewKeys, ClientProceeds, ClientReadsData, ClientSendsData, ClientSendsNoOp,
       ClientLeaves, Leave, GiveUp, Say
  <2> QED BY <1>1, <2>1
<1> QED BY <1>2, <1>3, <1>4, <1>5, <1>6 DEF Next

(* An open session ends for the client's departure alone.                  *)
THEOREM OpenSessionsStay == Spec => OpenSessionsLast
<1>1. TransportIndInv /\ [Next]_vars =>
        [sv.at = "data" /\ sv'.at = "ended" => sv'.why = "READ"]_vars
  BY OpenSessionsStep
<1> QED BY <1>1, Transport, PTL DEF Spec, OpenSessionsLast
====
