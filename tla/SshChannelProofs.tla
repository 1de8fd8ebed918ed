-------------------------- MODULE SshChannelProofs --------------------------
(***************************************************************************)
(* Proofs about SshChannel, for any channel numbers, window, packet and    *)
(* list sizes: the channel list, the loops of the session thread and the   *)
(* packets in flight keep IInv, whatever the peer and the link do.  First  *)
(* come sums and queues, then what each C function makes of the session,   *)
(* then what a call does to one channel number as both sides see it, and   *)
(* at the end one lemma for each step and the theorems.                    *)
(***************************************************************************)
EXTENDS SshChannel, TLAPS, SequenceTheorems, FiniteSetTheorems, WellFoundedInduction

-----------------------------------------------------------------------------
(* Sums. *)

\* The order of the naturals, for induction.
NatLess == {ss \in Nat \X Nat : ss[1] < ss[2]}

(* The order of the naturals, as a relation, has no descent without end.   *)
LEMMA NatLessIsWellFounded == IsWellFoundedOn(NatLess, Nat)
BY NatLessThanWellFounded DEF OpToRel, NatLess

(* A set of naturals that is not empty has a least element.                *)
LEMMA LeastNat ==
  ASSUME NEW S \in SUBSET Nat, S # {}
  PROVE  \E x \in S : \A y \in S : x <= y
<1>1. \E x \in S : \A y \in S : ~(<<y, x>> \in NatLess)
  BY NatLessIsWellFounded, WFMin
<1>2. \A x, y \in S : (<<y, x>> \in NatLess) <=> y < x
  BY DEF NatLess
<1>3. \A x, y \in S : ~(y < x) => x <= y
  OBVIOUS
<1> QED BY <1>1, <1>2, <1>3

(* The partial sums of a sequence of numbers.                              *)
Sums(sum, counts) ==
  /\ sum \in [0..Len(counts) -> Int] /\ sum[0] = 0
  /\ \A n \in 1..Len(counts) : sum[n] = sum[n - 1] + counts[n]

(* There are partial sums, up to any place.                                *)
LEMMA SumsExist ==
  ASSUME NEW counts \in Seq(Int)
  PROVE  \E sum : Sums(sum, counts)
<1> DEFINE UpTo(k) == \E g \in [0..k -> Int] : g[0] = 0 /\ \A n \in 1..k : g[n] = g[n - 1] + counts[n]
           Fails == {k \in 0..Len(counts) : ~UpTo(k)}
<1>0. Len(counts) \in Nat /\ \A n \in 1..Len(counts) : counts[n] \in Int
  BY LenProperties
<1>1. SUFFICES ASSUME Fails # {} PROVE FALSE
  <2>1. Len(counts) \notin Fails => UpTo(Len(counts))
    BY <1>0
  <2> QED BY <2>1 DEF Sums
<1>2. PICK k \in Fails : \A y \in Fails : k <= y
  <2>1. Fails \in SUBSET Nat
    BY <1>0
  <2> QED BY <1>1, <2>1, LeastNat
<1>3. k # 0
  <2>1. PICK z : z = [i \in 0..0 |-> 0]
    OBVIOUS
  <2>2. z \in [0..0 -> Int] /\ z[0] = 0 /\ \A n \in 1..0 : z[n] = z[n - 1] + counts[n]
    BY <2>1
  <2>3. UpTo(0)
    BY <2>2
  <2> QED BY <1>2, <2>3
<1>4. k \in 1..Len(counts) /\ UpTo(k - 1)
  <2>1. k \in Nat /\ k \in 1..Len(counts) /\ k - 1 \in 0..Len(counts) /\ k - 1 < k
    BY <1>0, <1>2, <1>3
  <2>2. k - 1 \notin Fails
    <3>1. \A y \in Fails : k <= y
      BY <1>2
    <3>2. ~(k <= k - 1)
      BY <2>1
    <3> HIDE DEF Fails
    <3> QED BY <3>1, <3>2
  <2> QED BY <2>1, <2>2
<1>5. PICK g \in [0..(k - 1) -> Int] : g[0] = 0 /\ \A n \in 1..(k - 1) : g[n] = g[n - 1] + counts[n]
  BY <1>4
<1>6. PICK h : h = [n \in 0..k |-> IF n = k THEN g[k - 1] + counts[k] ELSE g[n]]
  OBVIOUS
<1>7. h \in [0..k -> Int] /\ h[0] = 0
  BY <1>0, <1>4, <1>5, <1>6
<1>8. \A n \in 1..k : h[n] = h[n - 1] + counts[n]
  BY <1>0, <1>4, <1>5, <1>6
<1>9. UpTo(k)
  BY <1>7, <1>8
<1> QED BY <1>2, <1>9

(* Total is the last of them.                                              *)
LEMMA TotalIs ==
  ASSUME NEW counts \in Seq(Int), NEW g, Sums(g, counts)
  PROVE  Total(counts) = g[Len(counts)] /\ Total(counts) \in Int
<1>0. Len(counts) \in Nat /\ \A n \in 1..Len(counts) : counts[n] \in Int
  BY LenProperties
<1> DEFINE IsSum(sum) == sum = [n \in 0..Len(counts) |-> IF n = 0 THEN 0 ELSE sum[n - 1] + counts[n]]
<1>1. IsSum(g)
  BY <1>0 DEF Sums
<1>2. PICK h : IsSum(h) /\ Total(counts) = h[Len(counts)]
  BY <1>1 DEF Total
<1> DEFINE Fails == {n \in 0..Len(counts) : h[n] # g[n]}
<1>3. Fails = {}
  <2>1. SUFFICES ASSUME Fails # {} PROVE FALSE
    OBVIOUS
  <2>2. PICK k \in Fails : \A y \in Fails : k <= y
    <3>1. Fails \in SUBSET Nat
      BY <1>0
    <3> QED BY <2>1, <3>1, LeastNat
  <2>3. k # 0 => h[k - 1] = g[k - 1]
    BY <1>0, <2>2
  <2>4. h[k] = IF k = 0 THEN 0 ELSE h[k - 1] + counts[k]
    BY <1>2
  <2>5. g[k] = IF k = 0 THEN 0 ELSE g[k - 1] + counts[k]
    BY <1>1
  <2> QED BY <2>2, <2>3, <2>4, <2>5
<1>4. Len(counts) \in 0..Len(counts)
  BY <1>0
<1>5. h[Len(counts)] = g[Len(counts)]
  BY <1>3, <1>4
<1> QED BY <1>2, <1>4, <1>5 DEF Sums

(* The sum of no numbers.                                                  *)
LEMMA TotalEmpty == ASSUME NEW counts \in Seq(Int), Len(counts) = 0 PROVE Total(counts) = 0
BY SumsExist, TotalIs DEF Sums

(* One more number at the end.                                             *)
LEMMA TotalLonger ==
  ASSUME NEW counts \in Seq(Int), NEW more \in Seq(Int), Len(more) = Len(counts) + 1,
         \A i \in 1..Len(counts) : more[i] = counts[i]
  PROVE  Total(more) = Total(counts) + more[Len(more)]
<1>1. PICK g : Sums(g, more)
  BY SumsExist
<1>2. PICK h : h = [n \in 0..Len(counts) |-> g[n]]
  OBVIOUS
<1>3. Len(counts) \in Nat
  BY LenProperties
<1>4. Sums(h, counts)
  BY <1>1, <1>2, <1>3 DEF Sums
<1>5. Total(more) = g[Len(more)] /\ Total(counts) = h[Len(counts)]
  BY <1>1, <1>4, TotalIs
<1> QED BY <1>1, <1>2, <1>3, <1>5 DEF Sums

(* The first number is taken away.                                         *)
LEMMA TotalShorter ==
  ASSUME NEW counts \in Seq(Int), NEW less \in Seq(Int), Len(counts) = Len(less) + 1,
         \A i \in 1..Len(less) : less[i] = counts[i + 1]
  PROVE  Total(less) = Total(counts) - counts[1]
<1>1. PICK g : Sums(g, counts)
  BY SumsExist
<1>2. PICK h : h = [n \in 0..Len(less) |-> g[n + 1] - g[1]]
  OBVIOUS
<1>3. Len(less) \in Nat
  BY LenProperties
<1>4. Sums(h, less)
  <2>1. h \in [0..Len(less) -> Int] /\ h[0] = 0
    BY <1>1, <1>2, <1>3 DEF Sums
  <2>2. ASSUME NEW n \in 1..Len(less) PROVE h[n] = h[n - 1] + less[n]
    <3>1. h[n] = g[n + 1] - g[1] /\ h[n - 1] = g[n] - g[1]
      BY <1>2, <1>3, SMTT(30)
    <3>a. n + 1 \in 1..Len(counts) /\ (n + 1) - 1 = n /\ n \in 1..Len(less)
          /\ n + 1 \in 0..Len(counts) /\ n \in 0..Len(counts) /\ 1 \in 0..Len(counts)
      BY <1>3
    <3>2. g[n + 1] = g[n] + counts[n + 1] /\ counts[n + 1] = less[n]
      <4>1. g[n + 1] = g[(n + 1) - 1] + counts[n + 1]
        BY <1>1, <3>a DEF Sums
      <4> QED BY <3>a, <4>1
    <3>3. g[n + 1] \in Int /\ g[n] \in Int /\ g[1] \in Int /\ counts[n + 1] \in Int
      <4>1. \A i \in 1..Len(counts) : counts[i] \in Int
        BY LenProperties
      <4> QED BY <1>1, <3>a, <4>1 DEF Sums
    <3>4. PICK x, y, z : x = g[n] /\ y = g[1] /\ z = counts[n + 1]
      OBVIOUS
    <3>5. h[n] = (x + z) - y /\ h[n - 1] = x - y /\ less[n] = z /\ x \in Int /\ y \in Int /\ z \in Int
      BY <3>1, <3>2, <3>3, <3>4
    <3> QED BY <3>5
  <2> QED BY <2>1, <2>2 DEF Sums
<1>5. Total(counts) = g[Len(counts)] /\ Total(less) = h[Len(less)]
  BY <1>1, <1>4, TotalIs
<1> QED BY <1>1, <1>2, <1>3, <1>5 DEF Sums

(* One number changes.                                                     *)
LEMMA TotalChanged ==
  ASSUME NEW a \in Seq(Int), NEW b \in Seq(Int), Len(a) = Len(b), NEW k \in 1..Len(a),
         \A i \in 1..Len(a) : i # k => b[i] = a[i]
  PROVE  Total(b) = Total(a) + b[k] - a[k]
<1>1. PICK g : Sums(g, a)
  BY SumsExist
<1>2. PICK h : h = [n \in 0..Len(b) |-> IF n < k THEN g[n] ELSE g[n] + (b[k] - a[k])]
  OBVIOUS
<1>3. Len(a) \in Nat /\ k \in Nat /\ \A i \in 1..Len(a) : a[i] \in Int /\ b[i] \in Int
  BY LenProperties
<1>4. Sums(h, b)
  <2>1. h \in [0..Len(b) -> Int] /\ h[0] = 0
    BY <1>1, <1>2, <1>3 DEF Sums
  <2>2. ASSUME NEW n \in 1..Len(b) PROVE h[n] = h[n - 1] + b[n]
    <3>1. g[n] = g[n - 1] + a[n] /\ g[n - 1] \in Int /\ g[n] \in Int
      <4>1. n \in 1..Len(a) /\ n - 1 \in 0..Len(a) /\ n \in 0..Len(a)
        BY <1>3, <2>2
      <4> QED BY <1>1, <4>1 DEF Sums
    <3>2. h[n] = IF n < k THEN g[n] ELSE g[n] + (b[k] - a[k])
      BY <1>2, <1>3
    <3>3. h[n - 1] = IF n - 1 < k THEN g[n - 1] ELSE g[n - 1] + (b[k] - a[k])
      BY <1>2, <1>3
    <3>4. CASE n < k
      BY <1>3, <3>1, <3>2, <3>3, <3>4
    <3>5. CASE n = k
      BY <1>3, <3>1, <3>2, <3>3, <3>5
    <3>6. CASE n > k
      <4>1. ~(n < k) /\ ~(n - 1 < k) /\ b[n] = a[n]
        BY <1>3, <3>6
      <4>2. h[n] = g[n] + (b[k] - a[k]) /\ h[n - 1] = g[n - 1] + (b[k] - a[k])
        BY <3>2, <3>3, <4>1
      <4>3. b[k] - a[k] \in Int /\ a[n] \in Int
        BY <1>3
      <4>4. PICK x, y, z : x = g[n - 1] /\ y = a[n] /\ z = b[k] - a[k]
        OBVIOUS
      <4>5. h[n] = (x + y) + z /\ h[n - 1] = x + z /\ b[n] = y /\ x \in Int /\ y \in Int /\ z \in Int
        BY <3>1, <4>1, <4>2, <4>3, <4>4
      <4> QED BY <4>5
    <3> QED BY <1>3, <3>4, <3>5, <3>6
  <2> QED BY <2>1, <2>2 DEF Sums
<1>5. Total(a) = g[Len(a)] /\ Total(b) = h[Len(b)]
  BY <1>1, <1>4, TotalIs
<1> QED BY <1>1, <1>2, <1>3, <1>5 DEF Sums

(* The sum of naturals is one, and none of them is more than it.           *)
LEMMA TotalNat ==
  ASSUME NEW counts \in Seq(Nat)
  PROVE  Total(counts) \in Nat /\ \A i \in 1..Len(counts) : counts[i] <= Total(counts)
<1>0. Len(counts) \in Nat /\ \A n \in 1..Len(counts) : counts[n] \in Nat
  BY LenProperties
<1>a. counts \in Seq(Int)
  BY SeqMonotonic
<1>1. PICK g : Sums(g, counts)
  BY <1>a, SumsExist
<1> DEFINE Good(n) == g[n] \in Nat /\ \A i \in 1..n : counts[i] <= g[n]
           Fails == {n \in 0..Len(counts) : ~Good(n)}
<1>2. Fails = {}
  <2>1. SUFFICES ASSUME Fails # {} PROVE FALSE
    OBVIOUS
  <2>2. PICK k \in Fails : \A y \in Fails : k <= y
    <3>1. Fails \in SUBSET Nat
      BY <1>0
    <3> QED BY <2>1, <3>1, LeastNat
  <2>3. Good(0)
    BY <1>1 DEF Sums
  <2>4. k \in 1..Len(counts) /\ Good(k - 1)
    BY <1>0, <2>2, <2>3
  <2>5. g[k] = g[k - 1] + counts[k] /\ counts[k] \in Nat
    BY <1>0, <1>1, <2>4 DEF Sums
  <2>6. Good(k)
    BY <1>0, <2>4, <2>5
  <2> QED BY <2>2, <2>6
<1>3. Good(Len(counts))
  BY <1>0, <1>2
<1>4. Total(counts) = g[Len(counts)]
  BY <1>a, <1>1, TotalIs
<1> QED BY <1>3, <1>4

(* There is a greatest channel number.                                     *)
LEMMA GreatestChannel == Max(ChannelNos) \in Nat /\ \A no \in ChannelNos : no <= Max(ChannelNos)
<1>1. PICK list \in Seq(ChannelNos) : \A no \in ChannelNos : \E i \in 1..Len(list) : list[i] = no
  BY SshChannelAssumption, FS_NatSurjection, IsASeq DEF IsFiniteSet
<1> DEFINE Bounds == {m \in Nat : \A no \in ChannelNos : no <= m}
<1>2. Bounds # {}
  <2>1. list \in Seq(Nat)
    BY <1>1, SshChannelAssumption, SeqMonotonic
  <2>2. Total(list) \in Nat /\ \A i \in 1..Len(list) : list[i] <= Total(list)
    BY <2>1, TotalNat
  <2> QED BY <1>1, <2>2
<1>3. PICK m \in Bounds : \A y \in Bounds : m <= y
  <2>1. Bounds \in SUBSET Nat
    OBVIOUS
  <2> QED BY <1>2, <2>1, LeastNat
<1>4. m \in ChannelNos
  <2>1. SUFFICES ASSUME m \notin ChannelNos PROVE FALSE
    OBVIOUS
  <2>2. m # 0 /\ m - 1 \in Nat /\ ~(m <= m - 1)
    BY <1>3, <2>1, SshChannelAssumption
  <2>3. \A no \in ChannelNos : no <= m - 1
    BY <1>3, <2>1, <2>2, SshChannelAssumption
  <2>4. m - 1 \in Bounds
    BY <2>2, <2>3
  <2>5. m <= m - 1
    BY <1>3, <2>4
  <2> QED BY <2>2, <2>5
<1>5. \A no \in ChannelNos : m >= no
  BY <1>3, SshChannelAssumption
<1>6. PICK x : x = Max(ChannelNos)
  OBVIOUS
<1>7. x \in ChannelNos /\ \A no \in ChannelNos : x >= no
  BY <1>4, <1>5, <1>6 DEF Max
<1> QED BY <1>6, <1>7, SshChannelAssumption

-----------------------------------------------------------------------------
(* Packets in flight. *)

\* A packet for the channel that is not the one that opens it.
HasAny(q, no) == \E i \in DOMAIN q : q[i].no = no /\ q[i].type # "OPEN"

(* A queue with one packet more.                                           *)
LEMMA AppendFacts ==
  ASSUME NEW S, NEW q \in Seq(S), NEW p \in S
  PROVE  /\ Append(q, p) \in Seq(S) /\ Len(q) \in Nat /\ Len(Append(q, p)) = Len(q) + 1
         /\ DOMAIN q = 1..Len(q) /\ DOMAIN Append(q, p) = 1..(Len(q) + 1)
         /\ \A i \in 1..Len(q) : Append(q, p)[i] = q[i] /\ q[i] \in S
         /\ Append(q, p)[Len(q) + 1] = p
BY AppendProperties, LenProperties

(* A queue without its first packet.                                       *)
LEMMA TailFacts ==
  ASSUME NEW S, NEW q \in Seq(S), q # <<>>
  PROVE  /\ Tail(q) \in Seq(S) /\ Len(Tail(q)) \in Nat /\ Len(q) = Len(Tail(q)) + 1
         /\ DOMAIN q = 1..Len(q) /\ DOMAIN Tail(q) = 1..Len(Tail(q))
         /\ \A i \in 1..Len(Tail(q)) : Tail(q)[i] = q[i + 1]
         /\ Head(q) = q[1] /\ Head(q) \in S /\ 1 \in DOMAIN q
<1>1. Len(q) \in Nat \ {0} /\ DOMAIN q = 1..Len(q) /\ q[1] \in S
  BY LenProperties, EmptySeq
<1>2. Tail(q) \in Seq(S) /\ Len(Tail(q)) = Len(q) - 1 /\ \A i \in 1..Len(Tail(q)) : Tail(q)[i] = q[i + 1]
  BY HeadTailProperties
<1>3. Head(q) = q[1]
  OBVIOUS
<1>4. DOMAIN Tail(q) = 1..Len(Tail(q))
  BY <1>2, LenProperties
<1> QED BY <1>1, <1>2, <1>3, <1>4

(* What is in flight after one more packet is sent.                        *)
LEMMA HasAppend ==
  ASSUME NEW S, NEW q \in Seq(S), NEW p \in S
  PROVE  /\ \A type, no : Has(Append(q, p), type, no) <=> Has(q, type, no) \/ (p.type = type /\ p.no = no)
         /\ \A no : HasAny(Append(q, p), no) <=> HasAny(q, no) \/ (p.type # "OPEN" /\ p.no = no)
<1>1. PICK r : r = Append(q, p)
  OBVIOUS
<1>2. /\ Len(q) \in Nat /\ DOMAIN q = 1..Len(q) /\ DOMAIN r = 1..(Len(q) + 1)
      /\ (\A i \in 1..Len(q) : r[i] = q[i]) /\ r[Len(q) + 1] = p
  BY <1>1, AppendFacts
<1>3. \A i \in DOMAIN r : i \in DOMAIN q \/ i = Len(q) + 1
  BY <1>2
<1>4. DOMAIN q \subseteq DOMAIN r /\ Len(q) + 1 \in DOMAIN r
  BY <1>2
<1>5. ASSUME NEW type, NEW no PROVE Has(r, type, no) <=> Has(q, type, no) \/ (p.type = type /\ p.no = no)
  BY <1>2, <1>3, <1>4 DEF Has
<1>6. ASSUME NEW no PROVE HasAny(r, no) <=> HasAny(q, no) \/ (p.type # "OPEN" /\ p.no = no)
  BY <1>2, <1>3, <1>4 DEF HasAny
<1> QED BY <1>1, <1>5, <1>6

(* What is in flight, of the first packet and the rest.                    *)
LEMMA HasTail ==
  ASSUME NEW S, NEW q \in Seq(S), q # <<>>
  PROVE  /\ \A type, no : Has(q, type, no) <=> Has(Tail(q), type, no) \/ (Head(q).type = type /\ Head(q).no = no)
         /\ \A no : HasAny(q, no) <=> HasAny(Tail(q), no) \/ (Head(q).type # "OPEN" /\ Head(q).no = no)
<1>1. PICK r, h : r = Tail(q) /\ h = Head(q)
  OBVIOUS
<1>2. /\ Len(r) \in Nat /\ DOMAIN q = 1..(Len(r) + 1) /\ DOMAIN r = 1..Len(r)
      /\ (\A i \in 1..Len(r) : r[i] = q[i + 1]) /\ q[1] = h
  BY <1>1, TailFacts
<1>3. \A i \in DOMAIN q : i = 1 \/ (i - 1 \in DOMAIN r /\ r[i - 1] = q[i])
  <2>1. ASSUME NEW i \in DOMAIN q, i # 1 PROVE i - 1 \in DOMAIN r /\ r[i - 1] = q[i]
    <3>1. i - 1 \in 1..Len(r) /\ (i - 1) + 1 = i
      BY <1>2, <2>1
    <3> QED BY <1>2, <3>1
  <2> QED BY <2>1
<1>4. 1 \in DOMAIN q /\ \A i \in DOMAIN r : i + 1 \in DOMAIN q /\ q[i + 1] = r[i]
  BY <1>2
<1>5. ASSUME NEW type, NEW no PROVE Has(q, type, no) <=> Has(r, type, no) \/ (h.type = type /\ h.no = no)
  BY <1>2, <1>3, <1>4 DEF Has
<1>6. ASSUME NEW no PROVE HasAny(q, no) <=> HasAny(r, no) \/ (h.type # "OPEN" /\ h.no = no)
  BY <1>2, <1>3, <1>4 DEF HasAny
<1> QED BY <1>1, <1>5, <1>6

(* A sequence of numbers over the places of q, when q grows.               *)
LEMMA CountAppend ==
  ASSUME NEW S, NEW q \in Seq(S), NEW p \in S, NEW a, NEW b, NEW n \in Nat,
         a \in [DOMAIN q -> Nat], b = [i \in DOMAIN Append(q, p) |-> IF i = Len(q) + 1 THEN n ELSE a[i]]
  PROVE  Total(a) \in Nat /\ Total(b) = Total(a) + n
<1>1. PICK r : r = Append(q, p)
  OBVIOUS
<1>2. PICK k : k = Len(q)
  OBVIOUS
<1>3. k \in Nat /\ DOMAIN q = 1..k /\ DOMAIN r = 1..(k + 1)
  BY <1>1, <1>2, AppendFacts
<1>4. a \in [1..k -> Nat] /\ b \in [1..(k + 1) -> Nat] /\ b[k + 1] = n /\ \A i \in 1..k : b[i] = a[i]
  <2>1. a \in [1..k -> Nat]
    BY <1>1, <1>2, <1>3
  <2>2. b = [i \in 1..(k + 1) |-> IF i = k + 1 THEN n ELSE a[i]]
    BY <1>1, <1>2, <1>3
  <2>3. \A i \in 1..(k + 1) : i # k + 1 => i \in 1..k
    BY <1>3
  <2>4. \A i \in 1..k : i # k + 1 /\ i \in 1..(k + 1)
    BY <1>3
  <2>5. k + 1 \in 1..(k + 1)
    BY <1>3
  <2> QED BY <2>1, <2>2, <2>3, <2>4, <2>5
<1>5. a \in Seq(Nat) /\ Len(a) = k /\ b \in Seq(Nat) /\ Len(b) = k + 1
  BY <1>3, <1>4, SeqDef
<1>6. a \in Seq(Int) /\ b \in Seq(Int)
  BY <1>5, SeqMonotonic
<1>7. Total(b) = Total(a) + b[Len(b)]
  BY <1>4, <1>5, <1>6, TotalLonger
<1> QED BY <1>4, <1>5, <1>7, TotalNat

(* The same when the first packet is taken.                                *)
LEMMA CountTail ==
  ASSUME NEW S, NEW q \in Seq(S), q # <<>>, NEW a, NEW b,
         a \in [DOMAIN q -> Nat], b = [i \in DOMAIN Tail(q) |-> a[i + 1]]
  PROVE  Total(a) \in Nat /\ Total(b) \in Nat /\ a[1] \in Nat /\ Total(a) = Total(b) + a[1]
<1>1. PICK r, k : r = Tail(q) /\ k = Len(r)
  OBVIOUS
<1>2. k \in Nat /\ DOMAIN q = 1..(k + 1) /\ DOMAIN r = 1..k
  BY <1>1, TailFacts
<1>3. a \in [1..(k + 1) -> Nat] /\ b \in [1..k -> Nat] /\ \A i \in 1..k : b[i] = a[i + 1]
  BY <1>1, <1>2
<1>4. a \in Seq(Nat) /\ Len(a) = k + 1 /\ b \in Seq(Nat) /\ Len(b) = k /\ a[1] \in Nat
  BY <1>2, <1>3, SeqDef
<1>5. a \in Seq(Int) /\ b \in Seq(Int)
  BY <1>4, SeqMonotonic
<1>6. Total(b) = Total(a) - a[1]
  BY <1>3, <1>4, <1>5, TotalShorter
<1> QED BY <1>4, <1>6, TotalNat, SMTT(30)

\* The packets of a type have a number of bytes.
HasBytes(q, type) == \A i \in DOMAIN q : q[i].type = type => q[i].arg \in Nat

(* The bytes in flight, with one more packet.                              *)
LEMMA BytesAppend ==
  ASSUME NEW S, NEW q \in Seq(S), NEW p \in S, NEW type, NEW no, HasBytes(Append(q, p), type)
  PROVE  /\ Bytes(q, type, no) \in Nat
         /\ Bytes(Append(q, p), type, no)
              = Bytes(q, type, no) + IF p.type = type /\ p.no = no THEN p.arg ELSE 0
<1>1. PICK r : r = Append(q, p)
  OBVIOUS
<1>2. /\ Len(q) \in Nat /\ DOMAIN q = 1..Len(q) /\ DOMAIN r = 1..(Len(q) + 1)
      /\ (\A i \in 1..Len(q) : r[i] = q[i]) /\ r[Len(q) + 1] = p
  BY <1>1, AppendFacts
<1>3. PICK a : a = [i \in DOMAIN q |-> IF q[i].type = type /\ q[i].no = no THEN q[i].arg ELSE 0]
  OBVIOUS
<1>4. PICK b : b = [i \in DOMAIN r |-> IF r[i].type = type /\ r[i].no = no THEN r[i].arg ELSE 0]
  OBVIOUS
<1>5. PICK n : n = IF p.type = type /\ p.no = no THEN p.arg ELSE 0
  OBVIOUS
<1>6. Bytes(q, type, no) = Total(a) /\ Bytes(r, type, no) = Total(b)
  BY <1>3, <1>4 DEF Bytes
<1>7. \A i \in DOMAIN r : r[i].type = type => r[i].arg \in Nat
  BY <1>1 DEF HasBytes
<1>8. n \in Nat /\ a \in [DOMAIN q -> Nat]
  BY <1>2, <1>3, <1>5, <1>7
<1>9. b = [i \in DOMAIN r |-> IF i = Len(q) + 1 THEN n ELSE a[i]]
  <2>1. ASSUME NEW i \in DOMAIN r PROVE b[i] = IF i = Len(q) + 1 THEN n ELSE a[i]
    <3>1. CASE i = Len(q) + 1
      BY <1>2, <1>4, <1>5, <3>1
    <3>2. CASE i # Len(q) + 1
      <4>1. i \in DOMAIN q /\ r[i] = q[i]
        BY <1>2, <3>2
      <4> QED BY <1>3, <1>4, <3>2, <4>1
    <3> QED BY <3>1, <3>2
  <2>2. b = [i \in DOMAIN r |-> b[i]]
    BY <1>4
  <2> QED BY <2>1, <2>2
<1>10. Total(a) \in Nat /\ Total(b) = Total(a) + n
  BY <1>1, <1>8, <1>9, CountAppend
<1> QED BY <1>1, <1>5, <1>6, <1>10

(* The bytes in flight, of the first packet and the rest.                  *)
LEMMA BytesTail ==
  ASSUME NEW S, NEW q \in Seq(S), q # <<>>, NEW type, NEW no, HasBytes(q, type)
  PROVE  /\ Bytes(q, type, no) \in Nat /\ Bytes(Tail(q), type, no) \in Nat
         /\ Bytes(q, type, no)
              = Bytes(Tail(q), type, no) + IF Head(q).type = type /\ Head(q).no = no THEN Head(q).arg ELSE 0
<1>1. PICK r : r = Tail(q)
  OBVIOUS
<1>2. /\ Len(r) \in Nat /\ DOMAIN q = 1..(Len(r) + 1) /\ DOMAIN r = 1..Len(r)
      /\ (\A i \in 1..Len(r) : r[i] = q[i + 1]) /\ q[1] = Head(q)
  BY <1>1, TailFacts
<1>3. PICK a : a = [i \in DOMAIN q |-> IF q[i].type = type /\ q[i].no = no THEN q[i].arg ELSE 0]
  OBVIOUS
<1>4. PICK b : b = [i \in DOMAIN r |-> IF r[i].type = type /\ r[i].no = no THEN r[i].arg ELSE 0]
  OBVIOUS
<1>5. Bytes(q, type, no) = Total(a) /\ Bytes(r, type, no) = Total(b)
  BY <1>3, <1>4 DEF Bytes
<1>6. a \in [DOMAIN q -> Nat]
  BY <1>3 DEF HasBytes
<1>7. b = [i \in DOMAIN r |-> a[i + 1]]
  <2>1. \A i \in DOMAIN r : i + 1 \in DOMAIN q /\ r[i] = q[i + 1]
    BY <1>2
  <2> QED BY <1>3, <1>4, <2>1
<1>8. a[1] = IF Head(q).type = type /\ Head(q).no = no THEN Head(q).arg ELSE 0
  BY <1>2, <1>3
<1> QED BY <1>1, <1>5, <1>6, <1>7, <1>8, CountTail

(* The bytes of a type of which nothing is in flight.                      *)
LEMMA BytesNone ==
  ASSUME NEW S, NEW q \in Seq(S), NEW type, NEW no, ~Has(q, type, no)
  PROVE  Bytes(q, type, no) = 0
<1>1. PICK a : a = [i \in DOMAIN q |-> IF q[i].type = type /\ q[i].no = no THEN q[i].arg ELSE 0]
  OBVIOUS
<1>2. a = [i \in DOMAIN q |-> 0]
  BY <1>1 DEF Has
<1>3. Len(q) \in Nat /\ DOMAIN q = 1..Len(q)
  BY LenProperties
<1>4. a \in Seq(Int) /\ Len(a) = Len(q)
  BY <1>2, <1>3
<1>5. PICK g : g = [n \in 0..Len(q) |-> 0]
  OBVIOUS
<1>6. Sums(g, a)
  BY <1>2, <1>3, <1>4, <1>5 DEF Sums
<1>7. Total(a) = 0
  BY <1>3, <1>4, <1>5, <1>6, TotalIs
<1> QED BY <1>1, <1>7 DEF Bytes

(* The requests to answer, with one more packet.                                   *)
LEMMA ToAnswerAppend ==
  ASSUME NEW S, NEW q \in Seq(S), NEW p \in S
  PROVE  ToAnswer(q) \in Nat /\ ToAnswer(Append(q, p)) = ToAnswer(q) + IF p.type = "REQUEST" /\ requestInfo[p.arg].wantReply THEN 1 ELSE 0
<1>1. PICK r : r = Append(q, p)
  OBVIOUS
<1>2. /\ Len(q) \in Nat /\ DOMAIN q = 1..Len(q) /\ DOMAIN r = 1..(Len(q) + 1)
      /\ (\A i \in 1..Len(q) : r[i] = q[i]) /\ r[Len(q) + 1] = p
  BY <1>1, AppendFacts
<1>3. PICK a : a = [i \in DOMAIN q |-> IF q[i].type = "REQUEST" /\ requestInfo[q[i].arg].wantReply THEN 1 ELSE 0]
  OBVIOUS
<1>4. PICK b : b = [i \in DOMAIN r |-> IF r[i].type = "REQUEST" /\ requestInfo[r[i].arg].wantReply THEN 1 ELSE 0]
  OBVIOUS
<1>5. PICK n : n = IF p.type = "REQUEST" /\ requestInfo[p.arg].wantReply THEN 1 ELSE 0
  OBVIOUS
<1>6. ToAnswer(q) = Total(a) /\ ToAnswer(r) = Total(b)
  BY <1>3, <1>4 DEF ToAnswer
<1>7. n \in Nat /\ a \in [DOMAIN q -> Nat]
  BY <1>3, <1>5
<1>8. b = [i \in DOMAIN r |-> IF i = Len(q) + 1 THEN n ELSE a[i]]
  <2>1. ASSUME NEW i \in DOMAIN r PROVE b[i] = IF i = Len(q) + 1 THEN n ELSE a[i]
    <3>1. CASE i = Len(q) + 1
      BY <1>2, <1>4, <1>5, <3>1
    <3>2. CASE i # Len(q) + 1
      <4>1. i \in DOMAIN q /\ r[i] = q[i]
        BY <1>2, <3>2
      <4> QED BY <1>3, <1>4, <3>2, <4>1
    <3> QED BY <3>1, <3>2
  <2>2. b = [i \in DOMAIN r |-> b[i]]
    BY <1>4
  <2> QED BY <2>1, <2>2
<1>9. Total(a) \in Nat /\ Total(b) = Total(a) + n
  <2>1. b = [i \in DOMAIN Append(q, p) |-> IF i = Len(q) + 1 THEN n ELSE a[i]]
    BY <1>1, <1>8
  <2>2. n \in Nat /\ a \in [DOMAIN q -> Nat]
    BY <1>7
  <2> QED BY <2>1, <2>2, CountAppend
<1> QED BY <1>1, <1>5, <1>6, <1>9

(* The requests to answer, of the first packet and the rest.                       *)
LEMMA ToAnswerTail ==
  ASSUME NEW S, NEW q \in Seq(S), q # <<>>
  PROVE  /\ ToAnswer(q) \in Nat /\ ToAnswer(Tail(q)) \in Nat
         /\ ToAnswer(q) = ToAnswer(Tail(q)) + IF Head(q).type = "REQUEST" /\ requestInfo[Head(q).arg].wantReply THEN 1 ELSE 0
<1>1. PICK r : r = Tail(q)
  OBVIOUS
<1>2. /\ Len(r) \in Nat /\ DOMAIN q = 1..(Len(r) + 1) /\ DOMAIN r = 1..Len(r)
      /\ (\A i \in 1..Len(r) : r[i] = q[i + 1]) /\ q[1] = Head(q)
  BY <1>1, TailFacts
<1>3. PICK a : a = [i \in DOMAIN q |-> IF q[i].type = "REQUEST" /\ requestInfo[q[i].arg].wantReply THEN 1 ELSE 0]
  OBVIOUS
<1>4. PICK b : b = [i \in DOMAIN r |-> IF r[i].type = "REQUEST" /\ requestInfo[r[i].arg].wantReply THEN 1 ELSE 0]
  OBVIOUS
<1>5. ToAnswer(q) = Total(a) /\ ToAnswer(r) = Total(b)
  BY <1>3, <1>4 DEF ToAnswer
<1>6. a \in [DOMAIN q -> Nat]
  BY <1>3
<1>7. b = [i \in DOMAIN r |-> a[i + 1]]
  <2>1. \A i \in DOMAIN r : i + 1 \in DOMAIN q /\ r[i] = q[i + 1]
    BY <1>2
  <2> QED BY <1>3, <1>4, <2>1
<1>8. a[1] = IF Head(q).type = "REQUEST" /\ requestInfo[Head(q).arg].wantReply THEN 1 ELSE 0
  BY <1>2, <1>3
<1> QED BY <1>1, <1>5, <1>6, <1>7, <1>8, CountTail

(* The answers in flight, with one more packet.                                    *)
LEMMA AnswersAppend ==
  ASSUME NEW S, NEW q \in Seq(S), NEW p \in S
  PROVE  Answers(q) \in Nat /\ Answers(Append(q, p)) = Answers(q) + IF p.type \in {"SUCCESS", "FAILURE"} THEN 1 ELSE 0
<1>1. PICK r : r = Append(q, p)
  OBVIOUS
<1>2. /\ Len(q) \in Nat /\ DOMAIN q = 1..Len(q) /\ DOMAIN r = 1..(Len(q) + 1)
      /\ (\A i \in 1..Len(q) : r[i] = q[i]) /\ r[Len(q) + 1] = p
  BY <1>1, AppendFacts
<1>3. PICK a : a = [i \in DOMAIN q |-> IF q[i].type \in {"SUCCESS", "FAILURE"} THEN 1 ELSE 0]
  OBVIOUS
<1>4. PICK b : b = [i \in DOMAIN r |-> IF r[i].type \in {"SUCCESS", "FAILURE"} THEN 1 ELSE 0]
  OBVIOUS
<1>5. PICK n : n = IF p.type \in {"SUCCESS", "FAILURE"} THEN 1 ELSE 0
  OBVIOUS
<1>6. Answers(q) = Total(a) /\ Answers(r) = Total(b)
  BY <1>3, <1>4 DEF Answers
<1>7. n \in Nat /\ a \in [DOMAIN q -> Nat]
  BY <1>3, <1>5
<1>8. b = [i \in DOMAIN r |-> IF i = Len(q) + 1 THEN n ELSE a[i]]
  <2>1. ASSUME NEW i \in DOMAIN r PROVE b[i] = IF i = Len(q) + 1 THEN n ELSE a[i]
    <3>1. CASE i = Len(q) + 1
      BY <1>2, <1>4, <1>5, <3>1
    <3>2. CASE i # Len(q) + 1
      <4>1. i \in DOMAIN q /\ r[i] = q[i]
        BY <1>2, <3>2
      <4> QED BY <1>3, <1>4, <3>2, <4>1
    <3> QED BY <3>1, <3>2
  <2>2. b = [i \in DOMAIN r |-> b[i]]
    BY <1>4
  <2> QED BY <2>1, <2>2
<1>9. Total(a) \in Nat /\ Total(b) = Total(a) + n
  <2>1. b = [i \in DOMAIN Append(q, p) |-> IF i = Len(q) + 1 THEN n ELSE a[i]]
    BY <1>1, <1>8
  <2>2. n \in Nat /\ a \in [DOMAIN q -> Nat]
    BY <1>7
  <2> QED BY <2>1, <2>2, CountAppend
<1> QED BY <1>1, <1>5, <1>6, <1>9

(* The answers in flight, of the first packet and the rest.                        *)
LEMMA AnswersTail ==
  ASSUME NEW S, NEW q \in Seq(S), q # <<>>
  PROVE  /\ Answers(q) \in Nat /\ Answers(Tail(q)) \in Nat
         /\ Answers(q) = Answers(Tail(q)) + IF Head(q).type \in {"SUCCESS", "FAILURE"} THEN 1 ELSE 0
<1>1. PICK r : r = Tail(q)
  OBVIOUS
<1>2. /\ Len(r) \in Nat /\ DOMAIN q = 1..(Len(r) + 1) /\ DOMAIN r = 1..Len(r)
      /\ (\A i \in 1..Len(r) : r[i] = q[i + 1]) /\ q[1] = Head(q)
  BY <1>1, TailFacts
<1>3. PICK a : a = [i \in DOMAIN q |-> IF q[i].type \in {"SUCCESS", "FAILURE"} THEN 1 ELSE 0]
  OBVIOUS
<1>4. PICK b : b = [i \in DOMAIN r |-> IF r[i].type \in {"SUCCESS", "FAILURE"} THEN 1 ELSE 0]
  OBVIOUS
<1>5. Answers(q) = Total(a) /\ Answers(r) = Total(b)
  BY <1>3, <1>4 DEF Answers
<1>6. a \in [DOMAIN q -> Nat]
  BY <1>3
<1>7. b = [i \in DOMAIN r |-> a[i + 1]]
  <2>1. \A i \in DOMAIN r : i + 1 \in DOMAIN q /\ r[i] = q[i + 1]
    BY <1>2
  <2> QED BY <1>3, <1>4, <2>1
<1>8. a[1] = IF Head(q).type \in {"SUCCESS", "FAILURE"} THEN 1 ELSE 0
  BY <1>2, <1>3
<1> QED BY <1>1, <1>5, <1>6, <1>7, <1>8, CountTail

(* Where nothing is in flight.                                             *)
LEMMA NothingToAnswer == ToAnswer(<<>>) = 0 /\ Answers(<<>>) = 0
<1>1. PICK a : a = [i \in DOMAIN <<>> |-> IF <<>>[i].type = "REQUEST" /\ requestInfo[<<>>[i].arg].wantReply THEN 1 ELSE 0]
  OBVIOUS
<1>2. PICK b : b = [i \in DOMAIN <<>> |-> IF <<>>[i].type \in {"SUCCESS", "FAILURE"} THEN 1 ELSE 0]
  OBVIOUS
<1>3. a \in Seq(Int) /\ Len(a) = 0 /\ b \in Seq(Int) /\ Len(b) = 0
  BY <1>1, <1>2, EmptySeq
<1>4. Total(a) = 0 /\ Total(b) = 0
  BY <1>3, TotalEmpty
<1> QED BY <1>1, <1>2, <1>4 DEF ToAnswer, Answers

\* What a peer may think of a channel.
Views == [state : {"none", "opening", "open"}, sentEof : BOOLEAN, sentClose : BOOLEAN,
          gotClose : BOOLEAN, credit : Nat, awaiting : Int]

(* One view changes.                                                       *)
LEMMA AwaitedChanges ==
  ASSUME NEW v \in [ChannelNos -> Views], NEW no \in ChannelNos, NEW w \in Views
  PROVE  Awaited(v) \in Int /\ Awaited([v EXCEPT ![no] = w]) = Awaited(v) + w.awaiting - v[no].awaiting
<1>1. PICK m : m = Max(ChannelNos) + 1
  OBVIOUS
<1>2. m \in Nat /\ no + 1 \in 1..m /\ no \in Nat
  BY <1>1, GreatestChannel, SshChannelAssumption
<1>3. PICK u : u = [v EXCEPT ![no] = w]
  OBVIOUS
<1>4. PICK a : a = [i \in 1..m |-> IF i - 1 \in ChannelNos THEN v[i - 1].awaiting ELSE 0]
  OBVIOUS
<1>5. PICK b : b = [i \in 1..m |-> IF i - 1 \in ChannelNos THEN u[i - 1].awaiting ELSE 0]
  OBVIOUS
<1>6. Awaited(v) = Total(a) /\ Awaited(u) = Total(b)
  BY <1>1, <1>4, <1>5 DEF Awaited
<1>7. \A n \in ChannelNos : v[n].awaiting \in Int /\ u[n].awaiting \in Int
  BY <1>3 DEF Views
<1>8. a \in [1..m -> Int] /\ b \in [1..m -> Int]
  BY <1>4, <1>5, <1>7
<1>9. a \in Seq(Int) /\ Len(a) = m /\ b \in Seq(Int) /\ Len(b) = m
  BY <1>2, <1>8, SeqDef
<1>10. ASSUME NEW i \in 1..m, i # no + 1 PROVE b[i] = a[i]
  <2>1. i - 1 # no
    BY <1>2, <1>10
  <2>2. i - 1 \in ChannelNos => u[i - 1] = v[i - 1]
    BY <1>3, <2>1
  <2> QED BY <1>4, <1>5, <2>2
<1>11. Total(b) = Total(a) + b[no + 1] - a[no + 1]
  BY <1>2, <1>9, <1>10, TotalChanged
<1>12. (no + 1) - 1 = no
  BY <1>2
<1>13. b[no + 1] = w.awaiting /\ a[no + 1] = v[no].awaiting
  BY <1>2, <1>3, <1>4, <1>5, <1>12
<1>14. Total(a) \in Int
  BY <1>9, SumsExist, TotalIs
<1> QED BY <1>3, <1>6, <1>11, <1>13, <1>14

-----------------------------------------------------------------------------
(* The channel list. *)

\* What may be in the list.
Channels == [id : Nat \ {0}, no : ChannelNos, type : {"session", "direct-tcpip"}, active : BOOLEAN,
             writeClosed : BOOLEAN, windowCount : Nat, windowSize : {0, WindowSize}]

\* No number and no ID is there twice.
Unique(list) ==
  /\ list \in Seq(Channels)
  /\ \A i, j \in DOMAIN list : list[i].no = list[j].no \/ list[i].id = list[j].id => i = j

(* The list, as a sequence and as a set.                                   *)
LEMMA ListFacts ==
  ASSUME NEW list, Unique(list)
  PROVE  /\ Len(list) \in Nat /\ DOMAIN list = 1..Len(list)
         /\ \A i \in DOMAIN list : list[i] \in ToSet(list)
         /\ \A c \in ToSet(list) : c \in Channels /\ \E i \in DOMAIN list : list[i] = c
         /\ \A c, d \in ToSet(list) : c.no = d.no \/ c.id = d.id => c = d
<1>1. Len(list) \in Nat /\ DOMAIN list = 1..Len(list) /\ \A i \in DOMAIN list : list[i] \in Channels
  BY LenProperties DEF Unique
<1>2. \A i \in DOMAIN list : list[i] \in ToSet(list)
  BY <1>1 DEF ToSet
<1>3. \A c \in ToSet(list) : \E i \in DOMAIN list : list[i] = c
  BY <1>1 DEF ToSet
<1>4. ASSUME NEW c \in ToSet(list), NEW d \in ToSet(list), c.no = d.no \/ c.id = d.id PROVE c = d
  <2>1. PICK i \in DOMAIN list : list[i] = c
    BY <1>3
  <2>2. PICK j \in DOMAIN list : list[j] = d
    BY <1>3
  <2>3. i = j
    BY <1>4, <2>1, <2>2 DEF Unique
  <2> QED BY <2>1, <2>2, <2>3
<1> QED BY <1>1, <1>2, <1>3, <1>4

(* An entry changes, and keeps its number and ID.                          *)
LEMMA ListChanged ==
  ASSUME NEW list, Unique(list), NEW c \in ToSet(list), NEW d \in Channels, d.id = c.id, d.no = c.no,
         NEW new, new = [i \in DOMAIN list |-> IF list[i].id = c.id THEN d ELSE list[i]]
  PROVE  /\ Unique(new) /\ Len(new) = Len(list)
         /\ ToSet(new) = (ToSet(list) \ {c}) \cup {d}
<1>1. /\ Len(list) \in Nat /\ DOMAIN list = 1..Len(list)
      /\ \A i \in DOMAIN list : list[i] \in ToSet(list) /\ list[i] \in Channels
  BY ListFacts
<1>2. \A x, y \in ToSet(list) : x.no = y.no \/ x.id = y.id => x = y
  BY ListFacts
<1>3. PICK k \in DOMAIN list : list[k] = c
  BY ListFacts
<1>4. \A i \in DOMAIN list : i # k => list[i].id # c.id /\ list[i].no # c.no /\ list[i] # c
  BY <1>3 DEF Unique
<1>5. DOMAIN new = DOMAIN list /\ \A i \in DOMAIN list : new[i] = IF i = k THEN d ELSE list[i]
  BY <1>3, <1>4
<1>6. new \in Seq(Channels) /\ Len(new) = Len(list)
  BY <1>1, <1>5
<1>7. Unique(new)
  BY <1>3, <1>4, <1>5, <1>6 DEF Unique
<1>8. \A x : x \in ToSet(new) <=> \E i \in DOMAIN new : new[i] = x
  BY <1>1, <1>5, <1>6 DEF ToSet
<1>9. \A x : x \in ToSet(list) <=> \E i \in DOMAIN list : list[i] = x
  BY <1>1, ListFacts
<1>10. \A x : x \in ToSet(new) <=> x \in (ToSet(list) \ {c}) \cup {d}
  BY <1>3, <1>4, <1>5, <1>8, <1>9
<1> QED BY <1>6, <1>7, <1>10

(* An entry is removed.                                                    *)
LEMMA ListRemoved ==
  ASSUME NEW list, Unique(list), NEW c \in ToSet(list),
         NEW new, new = RemoveAt(list, CHOOSE i \in DOMAIN list : list[i].id = c.id)
  PROVE  /\ Unique(new) /\ Len(new) = Len(list) - 1
         /\ ToSet(new) = ToSet(list) \ {c}
<1>1. /\ Len(list) \in Nat /\ DOMAIN list = 1..Len(list) /\ list \in Seq(Channels)
      /\ \A i \in DOMAIN list : list[i] \in ToSet(list) /\ list[i] \in Channels
  BY ListFacts DEF Unique
<1>2. PICK k \in DOMAIN list : list[k] = c
  BY ListFacts
<1>3. \A i \in DOMAIN list : i # k => list[i].id # c.id /\ list[i] # c
  BY <1>2 DEF Unique
<1>4. new = SubSeq(list, 1, k - 1) \o SubSeq(list, k + 1, Len(list))
  <2>1. (CHOOSE i \in DOMAIN list : list[i].id = c.id) = k
    BY <1>2, <1>3
  <2> QED BY <2>1 DEF RemoveAt
<1>5. PICK a, b : a = SubSeq(list, 1, k - 1) /\ b = SubSeq(list, k + 1, Len(list))
  OBVIOUS
<1>6. /\ a \in Seq(Channels) /\ Len(a) = k - 1 /\ \A i \in 1..(k - 1) : a[i] = list[i]
  <2>1. \A i \in 1..(k - 1) : list[i] \in Channels
    BY <1>1
  <2> QED BY <1>1, <1>5, <2>1, SubSeqProperties
<1>7. /\ b \in Seq(Channels) /\ Len(b) = Len(list) - k /\ \A i \in 1..(Len(list) - k) : b[i] = list[k + i]
  <2>1. \A i \in (k + 1)..Len(list) : list[i] \in Channels
    BY <1>1
  <2>2. /\ b \in Seq(Channels) /\ Len(b) = (IF k + 1 <= Len(list) THEN Len(list) - (k + 1) + 1 ELSE 0)
        /\ \A i \in 1..(Len(list) - (k + 1) + 1) : b[i] = list[(k + 1) + i - 1]
    BY <1>1, <1>5, <2>1, SubSeqProperties
  <2>3. Len(b) = Len(list) - k
    BY <1>1, <2>2
  <2>4. ASSUME NEW i \in 1..(Len(list) - k) PROVE b[i] = list[k + i]
    <3>1. i \in 1..(Len(list) - (k + 1) + 1) /\ (k + 1) + i - 1 = k + i
      BY <1>1
    <3> QED BY <2>2, <3>1
  <2> QED BY <2>2, <2>3, <2>4
<1>8. new = a \o b
  BY <1>4, <1>5
<1>9. /\ new \in Seq(Channels) /\ Len(new) = Len(list) - 1
      /\ \A i \in 1..(Len(list) - 1) : new[i] = IF i < k THEN list[i] ELSE list[i + 1]
  <2>1. /\ new \in Seq(Channels) /\ Len(new) = Len(a) + Len(b)
        /\ \A i \in 1..(Len(a) + Len(b)) : new[i] = IF i <= Len(a) THEN a[i] ELSE b[i - Len(a)]
    <3>1. /\ a \o b \in Seq(Channels) /\ Len(a \o b) = Len(a) + Len(b)
          /\ \A i \in 1..(Len(a) + Len(b)) : (a \o b)[i] = IF i <= Len(a) THEN a[i] ELSE b[i - Len(a)]
      BY <1>6, <1>7, ConcatProperties
    <3> QED BY <1>8, <3>1
  <2>2. Len(a) + Len(b) = Len(list) - 1
    BY <1>1, <1>6, <1>7
  <2>3. ASSUME NEW i \in 1..(Len(list) - 1) PROVE new[i] = IF i < k THEN list[i] ELSE list[i + 1]
    <3>1. CASE i < k
      <4>1. i <= Len(a) /\ i \in 1..(k - 1)
        BY <1>1, <1>6, <3>1
      <4> QED BY <1>6, <2>1, <2>2, <3>1, <4>1
    <3>2. CASE ~(i < k)
      <4>1. ~(i <= Len(a)) /\ i - Len(a) \in 1..(Len(list) - k) /\ k + (i - Len(a)) = i + 1
        BY <1>1, <1>6, <3>2, SMTT(30)
      <4> QED BY <1>7, <2>1, <2>2, <3>2, <4>1
    <3> QED BY <3>1, <3>2
  <2> QED BY <2>1, <2>2, <2>3
<1>10. PICK from : from = [i \in 1..(Len(list) - 1) |-> IF i < k THEN i ELSE i + 1]
  OBVIOUS
<1>11. DOMAIN new = 1..(Len(list) - 1) /\ k \in Nat
  <2>1. DOMAIN new = 1..Len(new) /\ Len(new) = Len(list) - 1
    BY <1>9, LenProperties, Zenon
  <2>2. k \in Nat
    BY <1>1, <1>2
  <2> QED BY <2>1, <2>2, ZenonT(60)
<1>12. ASSUME NEW i \in DOMAIN new
       PROVE  from[i] \in DOMAIN list /\ from[i] # k /\ new[i] = list[from[i]]
  BY <1>1, <1>9, <1>10, <1>11
<1>13. ASSUME NEW i \in DOMAIN new, NEW j \in DOMAIN new, from[i] = from[j] PROVE i = j
  BY <1>1, <1>10, <1>11, <1>13
<1>14. ASSUME NEW j \in DOMAIN list, j # k PROVE \E i \in DOMAIN new : from[i] = j
  <2>1. CASE j < k
    <3>1. j \in DOMAIN new /\ from[j] = j
      BY <1>1, <1>10, <1>11, <2>1
    <3> QED BY <3>1
  <2>2. CASE ~(j < k)
    <3>1. j - 1 \in DOMAIN new /\ from[j - 1] = j
      BY <1>1, <1>10, <1>11, <1>14, <2>2
    <3> QED BY <3>1
  <2> QED BY <2>1, <2>2
<1>15. Unique(new)
  <2>1. ASSUME NEW i \in DOMAIN new, NEW j \in DOMAIN new, new[i].no = new[j].no \/ new[i].id = new[j].id
        PROVE  i = j
    <3>1. from[i] \in DOMAIN list /\ from[j] \in DOMAIN list /\ new[i] = list[from[i]] /\ new[j] = list[from[j]]
      BY <1>12
    <3>2. from[i] = from[j]
      BY <2>1, <3>1 DEF Unique
    <3> QED BY <1>13, <3>2
  <2> QED BY <1>9, <2>1, Zenon DEF Unique
<1>16. \A x : x \in ToSet(new) <=> \E i \in DOMAIN new : new[i] = x
  BY <1>9, <1>11, Zenon DEF ToSet
<1>17. \A x : x \in ToSet(list) <=> \E i \in DOMAIN list : list[i] = x
  BY <1>1, ListFacts
<1>18. ASSUME NEW x \in ToSet(new) PROVE x \in ToSet(list) \ {c}
  BY <1>2, <1>3, <1>12, <1>16, <1>17
<1>19. ASSUME NEW x \in ToSet(list) \ {c} PROVE x \in ToSet(new)
  <2>1. PICK j \in DOMAIN list : list[j] = x
    BY <1>17
  <2>2. j # k
    BY <1>2, <2>1
  <2>3. PICK i \in DOMAIN new : from[i] = j
    BY <1>14, <2>2
  <2>4. new[i] = x
    BY <1>12, <2>1, <2>3
  <2> QED BY <1>16, <2>4
<1> QED BY <1>9, <1>15, <1>18, <1>19, Zenon

(* An entry is added, with a number and an ID that no other has.           *)
LEMMA ListAdded ==
  ASSUME NEW list, Unique(list), NEW d \in Channels,
         \A c \in ToSet(list) : c.no # d.no /\ c.id # d.id,
         NEW new, new = Append(list, d)
  PROVE  /\ Unique(new) /\ Len(new) = Len(list) + 1
         /\ ToSet(new) = ToSet(list) \cup {d}
<1>1. /\ Len(list) \in Nat /\ DOMAIN list = 1..Len(list) /\ list \in Seq(Channels)
      /\ \A i \in DOMAIN list : list[i] \in ToSet(list) /\ list[i] \in Channels
  BY ListFacts DEF Unique
<1>2. /\ new \in Seq(Channels) /\ Len(new) = Len(list) + 1 /\ DOMAIN new = 1..(Len(list) + 1)
      /\ \A i \in 1..Len(list) : new[i] = list[i]
      /\ new[Len(list) + 1] = d
  BY <1>1, AppendFacts
<1>3. DOMAIN new = DOMAIN list \cup {Len(list) + 1} /\ Len(list) + 1 \notin DOMAIN list
  BY <1>1, <1>2
<1>4. Unique(new)
  BY <1>1, <1>2, <1>3 DEF Unique
<1>5. \A x : x \in ToSet(new) <=> \E i \in DOMAIN new : new[i] = x
  BY <1>2 DEF ToSet
<1>6. \A x : x \in ToSet(list) <=> \E i \in DOMAIN list : list[i] = x
  BY <1>1, ListFacts
<1>7. \A x : x \in ToSet(new) <=> x \in ToSet(list) \cup {d}
  BY <1>1, <1>2, <1>3, <1>5, <1>6
<1> QED BY <1>2, <1>4, <1>7

-----------------------------------------------------------------------------
(* What the calls of one step make of the session. *)

\* The packets of both directions.
Types == {"OPEN", "DATA", "REQUEST", "ADJUST", "EOF", "CLOSE"}
AnswerTypes == {"OPEN_CONFIRMATION", "OPEN_FAILURE", "DATA", "ADJUST", "CLOSE", "SUCCESS", "FAILURE"}
PacketsIn ==
  {p \in [type : Types, no : ChannelNos, arg : Nat \cup PeerRequests \cup {"direct-tcpip"}] :
     /\ p.type = "DATA" => p.arg = DataLen
     /\ p.type = "REQUEST" => p.arg \in PeerRequests
     /\ p.type = "OPEN" => p.arg = "direct-tcpip"}
PacketsOut ==
  {p \in [type : AnswerTypes, no : ChannelNos, arg : Nat] : p.type = "OPEN_CONFIRMATION" => p.arg = WindowSize}

\* A session within a step, and one between two: its channels are confirmed.
Session == [chans : Seq(Channels), nextID : Nat \ {0}, read : Nat, write : Nat, response : {<<>>},
            out : Seq(PacketsOut), sendClosed : BOOLEAN, link : BOOLEAN]
IsRaw(s) == s \in Session /\ Unique(s.chans)
IsSession(s) == IsRaw(s) /\ \A c \in Entries(s) : c.active = TRUE /\ c.windowSize = WindowSize

(* What an entry is.                                                       *)
LEMMA EntryFacts ==
  ASSUME NEW s, IsRaw(s), NEW c \in Entries(s)
  PROVE  /\ c \in Channels /\ c.id \in Nat \ {0} /\ c.no \in ChannelNos /\ c.no \in Nat
         /\ c.writeClosed \in BOOLEAN /\ c.windowCount \in Nat
         /\ IsSession(s) => c.active = TRUE /\ c.windowSize = WindowSize
         /\ \A d \in Entries(s) : c.no = d.no \/ c.id = d.id => c = d
<1>1. PICK list : list = s.chans
  OBVIOUS
<1>2. Unique(list) /\ c \in ToSet(list) /\ Entries(s) = ToSet(list)
  BY <1>1 DEF IsRaw, Entries
<1>3. c \in Channels /\ \A d \in ToSet(list) : c.no = d.no \/ c.id = d.id => c = d
  BY <1>2, ListFacts
<1>4. c.no \in Nat
  BY <1>3, SshChannelAssumption DEF Channels
<1>5. IsSession(s) => c.active = TRUE /\ c.windowSize = WindowSize
  BY DEF IsSession
<1> QED BY <1>2, <1>3, <1>4, <1>5 DEF Channels

(* The lookups find the one entry.                                         *)
LEMMA Found ==
  ASSUME NEW s, IsRaw(s), NEW c \in Entries(s)
  PROVE  findChannelAttr(s, c.no) = {c} /\ findChannelByID(s, c.id) = {c}
<1>1. \A d \in Entries(s) : d.no = c.no \/ d.id = c.id => d = c
  BY EntryFacts
<1> QED BY <1>1 DEF findChannelAttr, findChannelByID

(* Or none.                                                                *)
LEMMA NotFound ==
  ASSUME NEW s, NEW n
  PROVE  /\ (\A c \in Entries(s) : c.no # n) <=> findChannelAttr(s, n) = {}
         /\ (\A c \in Entries(s) : c.id # n) <=> findChannelByID(s, n) = {}
BY DEF findChannelAttr, findChannelByID

(* A session with another channel selected for writing.                    *)
LEMMA WriteSelected ==
  ASSUME NEW s, IsRaw(s), NEW id \in Nat, NEW t, t = [s EXCEPT !.write = id]
  PROVE  /\ IsRaw(t) /\ (IsSession(s) => IsSession(t)) /\ t.chans = s.chans /\ Entries(t) = Entries(s)
         /\ t.nextID = s.nextID /\ t.read = s.read /\ t.write = id
         /\ t.response = <<>> /\ t.out = s.out /\ t.sendClosed = s.sendClosed /\ t.link = s.link
<1>1. /\ IsRaw(t) /\ t.chans = s.chans /\ t.nextID = s.nextID /\ t.read = s.read /\ t.write = id
      /\ t.response = <<>> /\ t.out = s.out /\ t.sendClosed = s.sendClosed /\ t.link = s.link
  BY DEF IsRaw, Session
<1> QED BY <1>1 DEF IsSession, Entries

(* Or for reading.                                                         *)
LEMMA ReadSelected ==
  ASSUME NEW s, IsRaw(s), NEW id \in Nat, NEW t, t = [s EXCEPT !.read = id]
  PROVE  /\ IsRaw(t) /\ (IsSession(s) => IsSession(t)) /\ t.chans = s.chans /\ Entries(t) = Entries(s)
         /\ t.nextID = s.nextID /\ t.read = id /\ t.write = s.write
         /\ t.response = <<>> /\ t.out = s.out /\ t.sendClosed = s.sendClosed /\ t.link = s.link
<1>1. /\ IsRaw(t) /\ t.chans = s.chans /\ t.nextID = s.nextID /\ t.read = id /\ t.write = s.write
      /\ t.response = <<>> /\ t.out = s.out /\ t.sendClosed = s.sendClosed /\ t.link = s.link
  BY DEF IsRaw, Session
<1> QED BY <1>1 DEF IsSession, Entries

(* With one more packet written.                                           *)
LEMMA PacketWritten ==
  ASSUME NEW s, IsRaw(s), NEW p \in PacketsOut, NEW t, t = [s EXCEPT !.out = Append(@, p)]
  PROVE  /\ IsRaw(t) /\ (IsSession(s) => IsSession(t)) /\ t.chans = s.chans /\ Entries(t) = Entries(s)
         /\ t.nextID = s.nextID /\ t.read = s.read /\ t.write = s.write
         /\ t.response = <<>> /\ t.out = Append(s.out, p) /\ t.sendClosed = s.sendClosed /\ t.link = s.link
<1>1. Append(s.out, p) \in Seq(PacketsOut)
  BY AppendFacts DEF IsRaw, Session
<1>2. /\ IsRaw(t) /\ t.chans = s.chans /\ t.nextID = s.nextID /\ t.read = s.read /\ t.write = s.write
      /\ t.response = <<>> /\ t.out = Append(s.out, p) /\ t.sendClosed = s.sendClosed /\ t.link = s.link
  <2> HIDE DEF PacketsOut, Channels
  <2> QED BY <1>1 DEF IsRaw, Session
<1> QED BY <1>2 DEF IsSession, Entries

(* Selecting for writing by ID.                                            *)
LEMMA SetWrite ==
  ASSUME NEW s, IsSession(s), NEW c \in Entries(s)
  PROVE  setChannelAttribute(s, c.id) = Return([s EXCEPT !.write = c.id], Ok)
<1>1. findChannelAttr(s, c.no) = {c} /\ findChannelByID(s, c.id) = {c}
  BY Found DEF IsSession
<1>2. c.active
  BY EntryFacts DEF IsSession
<1>3. (CHOOSE x \in {c} : TRUE) = c
  OBVIOUS
<1>4. selectChannel(s, c.no, "write") = Return([s EXCEPT !.write = c.id], Ok)
  BY <1>1, <1>2, <1>3 DEF selectChannel
<1> QED BY <1>1, <1>3, <1>4 DEF setChannelAttribute

(* Selecting for reading by number.                                        *)
LEMMA SetRead ==
  ASSUME NEW s, IsSession(s), NEW c \in Entries(s)
  PROVE  selectChannel(s, c.no, "read") = Return([s EXCEPT !.read = c.id], Ok)
<1>1. findChannelAttr(s, c.no) = {c}
  BY Found DEF IsSession
<1>2. c.active
  BY EntryFacts DEF IsSession
<1>3. (CHOOSE x \in {c} : TRUE) = c
  OBVIOUS
<1> QED BY <1>1, <1>2, <1>3 DEF selectChannel

(* The number of the channel that is selected.                             *)
LEMMA CurrentNo ==
  ASSUME NEW s, IsRaw(s), NEW c \in Entries(s)
  PROVE  /\ s.read = c.id => getCurrentChannelNo(s, "read") = c.no
         /\ s.write = c.id => getCurrentChannelNo(s, "write") = c.no
<1>1. findChannelByID(s, c.id) = {c}
  BY Found
<1>2. (CHOOSE x \in {c} : TRUE) = c
  OBVIOUS
<1> QED BY <1>1, <1>2 DEF getCurrentChannelNo, getCurrentChannelInfo

(* None is selected.                                                       *)
LEMMA NoCurrentNo ==
  ASSUME NEW s, IsSession(s)
  PROVE  /\ (\A c \in Entries(s) : c.id # s.read) => getCurrentChannelNo(s, "read") = NoChannel
         /\ (\A c \in Entries(s) : c.id # s.write) => getCurrentChannelNo(s, "write") = NoChannel
BY DEF getCurrentChannelNo, getCurrentChannelInfo, findChannelByID

(* PushChunk, on a channel that is there and on one that is not.           *)
LEMMA PushChunkOn ==
  ASSUME NEW s, IsSession(s), NEW c \in Entries(s), NEW data \in BOOLEAN
  PROVE  LET t == [s EXCEPT !.write = c.id] IN
         PushChunk(s, c.id, data)
           = IF ~data THEN Return(t, Ok)
             ELSE IF ~s.link THEN Return(t, "WRITE")
             ELSE Return([t EXCEPT !.out = Append(@, Packet("DATA", c.no, 0))], Ok)
<1>r. IsRaw(s)
  BY DEF IsSession
<1>1. PICK t : t = [s EXCEPT !.write = c.id]
  OBVIOUS
<1>2. setChannelAttribute(s, c.id) = Return(t, Ok)
  BY <1>1, SetWrite
<1>3. c.id \in Nat
  BY <1>r, EntryFacts
<1>4. IsRaw(t) /\ Entries(t) = Entries(s) /\ t.write = c.id /\ t.link = s.link
  BY <1>r, <1>1, <1>3, WriteSelected
<1>5. getCurrentChannelNo(t, "write") = c.no
  BY <1>4, CurrentNo
<1>6. preparePacketFunction(t) = [t EXCEPT !.out = Append(@, Packet("DATA", c.no, 0))]
  BY <1>5 DEF preparePacketFunction
<1>7. Return(t, Ok).s = t /\ Return(t, Ok).st = Ok
  BY DEF Return
<1>8. PushChunk(s, c.id, data) = Pushed(Return(t, Ok), data)
  BY <1>2 DEF PushChunk
<1> HIDE DEF Return
<1> QED BY <1>1, <1>4, <1>6, <1>7, <1>8 DEF Pushed

(* Nothing is sent on a channel that is not in the list.                   *)
LEMMA PushChunkOff ==
  ASSUME NEW s, NEW id, \A c \in Entries(s) : c.id # id, NEW data \in BOOLEAN
  PROVE  PushChunk(s, id, data) = Return(s, "NOTFOUND")
<1>1. setChannelAttribute(s, id) = Return(s, "NOTFOUND")
  BY NotFound DEF setChannelAttribute
<1>2. Return(s, "NOTFOUND").st # Ok
  BY DEF Return, Ok
<1> QED BY <1>1, <1>2 DEF PushChunk, Pushed

\* A session in which the entry with the ID of d is d.
WithEntry(s, d) == [s EXCEPT !.chans = [i \in DOMAIN @ |-> IF @[i].id = d.id THEN d ELSE @[i]]]

(* What that changes.                                                      *)
LEMMA WithEntryFacts ==
  ASSUME NEW s, IsRaw(s), NEW c \in Entries(s), NEW d \in Channels, d.id = c.id, d.no = c.no,
         NEW t, t = WithEntry(s, d)
  PROVE  /\ IsRaw(t)
         /\ Entries(t) = (Entries(s) \ {c}) \cup {d} /\ Len(t.chans) = Len(s.chans)
         /\ t.nextID = s.nextID /\ t.read = s.read /\ t.write = s.write
         /\ t.response = <<>> /\ t.out = s.out /\ t.sendClosed = s.sendClosed /\ t.link = s.link
<1>1. PICK list, new : list = s.chans /\ new = [i \in DOMAIN list |-> IF list[i].id = c.id THEN d ELSE list[i]]
  OBVIOUS
<1>2. t = [s EXCEPT !.chans = new]
  BY <1>1 DEF WithEntry
<1>3. Unique(list) /\ c \in ToSet(list)
  BY <1>1 DEF IsRaw, Entries
<1>4. Unique(new) /\ Len(new) = Len(list) /\ ToSet(new) = (ToSet(list) \ {c}) \cup {d}
  BY <1>1, <1>3, ListChanged
<1>5. new \in Seq(Channels)
  BY <1>4 DEF Unique
<1>6. t.chans = new /\ t \in Session
  BY <1>2, <1>5 DEF IsRaw, Session
<1>7. /\ t.nextID = s.nextID /\ t.read = s.read /\ t.write = s.write
      /\ t.response = <<>> /\ t.out = s.out /\ t.sendClosed = s.sendClosed /\ t.link = s.link
  BY <1>2 DEF IsRaw, Session
<1>8. Entries(t) = (Entries(s) \ {c}) \cup {d} /\ IsRaw(t) /\ Len(t.chans) = Len(s.chans)
  BY <1>1, <1>4, <1>6 DEF IsRaw, Entries
<1> QED BY <1>7, <1>8

(* UpdateEntry changes the one entry.                                      *)
LEMMA UpdateEntryIs ==
  ASSUME NEW s, IsRaw(s), NEW c \in Entries(s)
  PROVE  /\ UpdateEntry(s, c.id, LAMBDA x : [x EXCEPT !.writeClosed = TRUE])
              = WithEntry(s, [c EXCEPT !.writeClosed = TRUE])
         /\ s.read = c.id =>
              \A field, value : field # "id" =>
                setChannelExtAttribute(s, field, value) = WithEntry(s, [c EXCEPT ![field] = value])
<1>1. \A i \in DOMAIN s.chans : s.chans[i].id = c.id => s.chans[i] = c
  <2>1. \A i \in DOMAIN s.chans : s.chans[i] \in Entries(s)
    BY ListFacts DEF IsRaw, Entries
  <2> QED BY <2>1, EntryFacts
<1>2. [c EXCEPT !.writeClosed = TRUE].id = c.id /\ \A field, value : field # "id" => [c EXCEPT ![field] = value].id = c.id
  BY EntryFacts DEF Channels
<1>3. UpdateEntry(s, c.id, LAMBDA x : [x EXCEPT !.writeClosed = TRUE])
        = WithEntry(s, [c EXCEPT !.writeClosed = TRUE])
  BY <1>1, <1>2 DEF UpdateEntry, WithEntry
<1>4. ASSUME s.read = c.id, NEW field, NEW value, field # "id"
      PROVE  setChannelExtAttribute(s, field, value) = WithEntry(s, [c EXCEPT ![field] = value])
  BY <1>1, <1>2, <1>4 DEF UpdateEntry, WithEntry, setChannelExtAttribute
<1> QED BY <1>3, <1>4

(* A response is written to the peer as long as the link is there.         *)
LEMMA ResponseSent ==
  ASSUME NEW s, IsRaw(s), NEW type, NEW no \in ChannelNos, NEW arg
  PROVE  LET p == Packet(type, no, arg)
             e == enqueueResponse(s, type, no, arg)
         IN  /\ e.st = Ok
             /\ encodeSendResponse(e.s)
                  = IF s.link THEN Return([s EXCEPT !.out = Append(@, p)], Ok) ELSE Return(s, "WRITE")
             /\ enqueueChannelData(s, type, no, arg) = encodeSendResponse(e.s)
<1>1. PICK p : p = Packet(type, no, arg)
  OBVIOUS
<1>2. PICK w : w = [s EXCEPT !.response = <<p>>]
  OBVIOUS
<1>3. s \in Session /\ s.response = <<>>
  BY DEF IsRaw, Session
<1>4. enqueueResponse(s, type, no, arg) = Return(w, Ok)
  <2>1. ~(no < 0)
    BY SshChannelAssumption
  <2> QED BY <1>1, <1>2, <1>3, <2>1 DEF enqueueResponse
<1>5. w.link = s.link /\ w.out = s.out /\ w.response = <<p>>
  BY <1>2, <1>3 DEF Session
<1>6. s.out \o <<p>> = Append(s.out, p)
  <2>1. s.out \in Seq(PacketsOut)
    BY <1>3 DEF Session
  <2> QED BY <2>1
<1>7. [w EXCEPT !.response = <<>>] = s
  BY <1>2, <1>3 DEF Session
<1>8. [w EXCEPT !.out = @ \o w.response, !.response = <<>>] = [s EXCEPT !.out = Append(@, p)]
  <2>1. w.out \o w.response = Append(s.out, p)
    BY <1>5, <1>6
  <2>2. PICK o : o = Append(s.out, p)
    OBVIOUS
  <2>3. [w EXCEPT !.out = o, !.response = <<>>] = [s EXCEPT !.out = o]
    BY <1>2, <1>3 DEF Session
  <2> QED BY <2>1, <2>2, <2>3
<1>9. encodeSendResponse(w) = IF s.link THEN Return([s EXCEPT !.out = Append(@, p)], Ok) ELSE Return(s, "WRITE")
  BY <1>5, <1>7, <1>8 DEF encodeSendResponse
<1>10. enqueueResponse(s, type, no, arg).st = Ok /\ enqueueResponse(s, type, no, arg).s = w
  BY <1>4 DEF Return
<1> QED BY <1>1, <1>9, <1>10 DEF enqueueChannelData, Enqueued

\* A session with one more packet written.
Written(s, p) == [s EXCEPT !.out = Append(@, p)]

(* The same, in one call.                                                  *)
LEMMA ResponseQueued ==
  ASSUME NEW s, IsRaw(s), NEW type, NEW no \in ChannelNos, NEW arg
  PROVE  enqueueChannelData(s, type, no, arg)
           = IF s.link THEN Return(Written(s, Packet(type, no, arg)), Ok) ELSE Return(s, "WRITE")
<1>1. PICK e, p : e = enqueueResponse(s, type, no, arg) /\ p = Packet(type, no, arg)
  OBVIOUS
<1>2. enqueueChannelData(s, type, no, arg) = encodeSendResponse(e.s)
  BY <1>1, ResponseSent
<1>3. encodeSendResponse(e.s)
        = IF s.link THEN Return([s EXCEPT !.out = Append(@, p)], Ok) ELSE Return(s, "WRITE")
  BY <1>1, ResponseSent
<1> QED BY <1>1, <1>2, <1>3 DEF Written

(* The two steps of it, which sendChannelClose takes itself.               *)
LEMMA ResponseEnqueued ==
  ASSUME NEW s, IsRaw(s), NEW type, NEW no \in ChannelNos, NEW arg
  PROVE  /\ enqueueResponse(s, type, no, arg).st = Ok
         /\ encodeSendResponse(enqueueResponse(s, type, no, arg).s) = enqueueChannelData(s, type, no, arg)
BY ResponseSent

(* Entries are active: whether there is another one.                       *)
LEMMA ActiveOthers ==
  ASSUME NEW s, IsSession(s), NEW id
  PROVE  isChannelActive(s, id) <=> \E d \in Entries(s) : d.id # id
BY DEF isChannelActive, IsSession

\* The session t is s with c closed for writing, which the peer is told.
ClosedFrom(s, c, t) ==
  /\ IsSession(t) /\ Entries(t) = (Entries(s) \ {c}) \cup {[c EXCEPT !.writeClosed = TRUE]}
  /\ Len(t.chans) = Len(s.chans) /\ t.nextID = s.nextID /\ t.read = s.read /\ t.write = UnusedID
  /\ t.out = (IF s.link THEN Append(s.out, Packet("CLOSE", c.no, 0)) ELSE s.out)
  /\ t.sendClosed = s.sendClosed /\ t.link = s.link

(* CloseChannel closes a channel, unless it is the last one.               *)
LEMMA CloseOn ==
  ASSUME NEW s, IsSession(s), NEW c \in Entries(s), ~c.writeClosed
  PROVE  IF \E d \in Entries(s) : d.id # c.id THEN ClosedFrom(s, c, CloseChannel(s, c.id).s)
         ELSE CloseChannel(s, c.id).s = [s EXCEPT !.write = c.id]
<1>r. IsRaw(s) /\ c.active = TRUE /\ c.windowSize = WindowSize
  BY DEF IsSession
<1>1. PICK w : w = [s EXCEPT !.write = c.id]
  OBVIOUS
<1>c. c.id \in Nat \ {0} /\ c.no \in ChannelNos /\ c \in Channels
  BY <1>r, EntryFacts
<1>2. /\ IsRaw(w) /\ IsSession(w) /\ w.chans = s.chans /\ w.nextID = s.nextID /\ w.read = s.read /\ w.write = c.id
      /\ w.out = s.out /\ w.sendClosed = s.sendClosed /\ w.link = s.link
  BY <1>r, <1>1, <1>c, WriteSelected
<1>3. Entries(w) = Entries(s)
  BY <1>2 DEF Entries
<1>4. getCurrentChannelNo(w, "write") = c.no /\ c.no # NoChannel
  BY <1>2, <1>3, <1>c, CurrentNo, SshChannelAssumption DEF NoChannel
<1>5. CloseChannel(s, c.id) = Closes(sendChannelClose(w, c.no, "write", FALSE))
  <2>1. setChannelAttribute(s, c.id).st = Ok /\ setChannelAttribute(s, c.id).s = w
    <3>1. setChannelAttribute(s, c.id) = Return(w, Ok)
      BY <1>1, SetWrite
    <3> QED BY <3>1 DEF Return
  <2>2. CloseChannel(s, c.id) = closeChannel(w)
    BY <2>1 DEF CloseChannel, ClosedFor
  <2> QED BY <1>4, <2>2 DEF closeChannel
<1>6. findChannelAttr(w, c.no) = {c} /\ (CHOOSE x \in {c} : TRUE) = c
  BY <1>2, <1>3, Found
<1>7. isChannelActive(w, c.id) <=> \E d \in Entries(s) : d.id # c.id
  BY <1>2, <1>3, ActiveOthers
<1>8. CASE ~\E d \in Entries(s) : d.id # c.id
  <2>1. deleteChannel(w, c.no, "write", FALSE) = Return(w, "PERMISSION")
    BY <1>6, <1>7, <1>8 DEF deleteChannel
  <2>2. Return(w, "PERMISSION").st = "PERMISSION" /\ Return(w, "PERMISSION").s = w
    BY DEF Return
  <2>3. sendChannelClose(w, c.no, "write", FALSE) = Return(w, "PERMISSION")
    BY <2>1, <2>2 DEF sendChannelClose, CloseMarked, Ok, OkSpecial
  <2> QED BY <1>1, <1>5, <1>8, <2>2, <2>3 DEF Closes
<1>9. CASE \E d \in Entries(s) : d.id # c.id
  <2>1. PICK e : e = [c EXCEPT !.writeClosed = TRUE]
    OBVIOUS
  <2>2. e \in Channels /\ e.id = c.id /\ e.no = c.no /\ e.active = TRUE /\ e.windowSize = WindowSize
    BY <1>r, <1>c, <2>1 DEF Channels
  <2>3. PICK u : u = WithEntry(w, e)
    OBVIOUS
  <2>4. UpdateEntry(w, c.id, LAMBDA x : [x EXCEPT !.writeClosed = TRUE]) = u
    BY <1>2, <1>3, <2>1, <2>3, UpdateEntryIs
  <2>5. /\ IsRaw(u) /\ IsSession(u) /\ Entries(u) = (Entries(s) \ {c}) \cup {e} /\ Len(u.chans) = Len(s.chans)
        /\ u.nextID = s.nextID /\ u.read = s.read /\ u.write = c.id
        /\ u.out = s.out /\ u.sendClosed = s.sendClosed /\ u.link = s.link
    <3>1. c \in Entries(w) /\ Len(w.chans) = Len(s.chans)
      BY <1>2, <1>3
    <3>2. /\ IsRaw(u) /\ Entries(u) = (Entries(w) \ {c}) \cup {e} /\ Len(u.chans) = Len(w.chans)
          /\ u.nextID = w.nextID /\ u.read = w.read /\ u.write = w.write
          /\ u.out = w.out /\ u.sendClosed = w.sendClosed /\ u.link = w.link
      BY <1>2, <2>2, <2>3, <3>1, WithEntryFacts
    <3>3. IsSession(u)
      BY <1>2, <2>2, <3>2 DEF IsSession
    <3> QED BY <1>2, <1>3, <3>1, <3>2, <3>3
  <2>6. PICK m : m = [u EXCEPT !.write = UnusedID]
    OBVIOUS
  <2>7. /\ IsRaw(m) /\ IsSession(m) /\ m.chans = u.chans /\ m.nextID = s.nextID /\ m.read = s.read /\ m.write = UnusedID
        /\ m.out = s.out /\ m.sendClosed = s.sendClosed /\ m.link = s.link
    <3>1. UnusedID \in Nat
      BY DEF UnusedID
    <3> QED BY <2>5, <2>6, <3>1, WriteSelected
  <2>8. Entries(m) = (Entries(s) \ {c}) \cup {e} /\ Len(m.chans) = Len(s.chans)
    BY <2>5, <2>7 DEF Entries
  <2>9. isChannelActive(u, c.id)
    BY <1>9, <2>5, ActiveOthers
  <2>10. deleteChannel(w, c.no, "write", FALSE) = Return(m, Ok)
    <3>1. [u EXCEPT !.write = IF @ = c.id THEN UnusedID ELSE @] = m
      BY <2>5, <2>6
    <3> HIDE DEF UpdateEntry
    <3> QED BY <1>6, <1>7, <1>9, <2>4, <2>9, <3>1 DEF deleteChannel
  <2>11. PICK p : p = Packet("CLOSE", c.no, 0)
    OBVIOUS
  <2>12. PICK f : f = enqueueResponse(m, "CLOSE", c.no, 0)
    OBVIOUS
  <2>13. f.st = Ok /\ encodeSendResponse(f.s)
                      = IF m.link THEN Return([m EXCEPT !.out = Append(@, p)], Ok) ELSE Return(m, "WRITE")
    BY <1>c, <2>7, <2>11, <2>12, ResponseSent
  <2>14. sendChannelClose(w, c.no, "write", FALSE).s = encodeSendResponse(f.s).s
    <3>1. sendChannelClose(w, c.no, "write", FALSE) = CloseMarked(Return(m, Ok), c.no)
      BY <2>10 DEF sendChannelClose
    <3>2. Return(m, Ok).st = Ok /\ Return(m, Ok).s = m
      BY DEF Return
    <3>3. CloseMarked(Return(m, Ok), c.no) = CloseQueued(f, Ok)
      BY <2>12, <3>2 DEF CloseMarked
    <3>4. CloseQueued(f, Ok) = CloseSent(encodeSendResponse(f.s), Ok)
      BY <2>13 DEF CloseQueued
    <3>5. CloseSent(encodeSendResponse(f.s), Ok).s = encodeSendResponse(f.s).s
      BY DEF CloseSent, Return
    <3> QED BY <3>1, <3>3, <3>4, <3>5
  <2>15. sendChannelClose(w, c.no, "write", FALSE).st # "PERMISSION"
    <3>1. sendChannelClose(w, c.no, "write", FALSE) = CloseMarked(Return(m, Ok), c.no)
      BY <2>10 DEF sendChannelClose
    <3>2. Return(m, Ok).st = Ok /\ Return(m, Ok).s = m
      BY DEF Return
    <3>3. CloseMarked(Return(m, Ok), c.no) = CloseSent(encodeSendResponse(f.s), Ok)
      BY <2>12, <2>13, <3>2 DEF CloseMarked, CloseQueued
    <3>4. CloseSent(encodeSendResponse(f.s), Ok).st = encodeSendResponse(f.s).st
      BY DEF CloseSent, Return, Ok, OkSpecial
    <3>5. encodeSendResponse(f.s).st # "PERMISSION"
      BY <2>13 DEF Return, Ok
    <3> QED BY <3>1, <3>3, <3>4, <3>5
  <2>16. CloseChannel(s, c.id).s = encodeSendResponse(f.s).s
    <3>1. PICK x : x = sendChannelClose(w, c.no, "write", FALSE)
      OBVIOUS
    <3>2. Closes(x) = Return(x.s, Ok)
      BY <2>15, <3>1 DEF Closes
    <3>3. Return(x.s, Ok).s = x.s
      BY DEF Return
    <3> QED BY <1>5, <2>14, <3>1, <3>2, <3>3
  <2>17. CloseChannel(s, c.id).s = IF s.link THEN [m EXCEPT !.out = Append(@, p)] ELSE m
    BY <2>7, <2>13, <2>16 DEF Return
  <2>18. PICK t : t = CloseChannel(s, c.id).s
    OBVIOUS
  <2>19. p \in PacketsOut
    BY <1>c, <2>11 DEF PacketsOut, Packet, AnswerTypes
  <2>20. /\ IsSession(t) /\ t.chans = m.chans /\ t.nextID = s.nextID /\ t.read = s.read /\ t.write = UnusedID
         /\ t.out = (IF s.link THEN Append(s.out, p) ELSE s.out)
         /\ t.sendClosed = s.sendClosed /\ t.link = s.link
    <3>1. CASE s.link
      <4>1. t = [m EXCEPT !.out = Append(@, p)]
        BY <2>17, <2>18, <3>1
      <4>2. /\ IsSession(t) /\ t.chans = m.chans /\ t.nextID = m.nextID /\ t.read = m.read /\ t.write = m.write
            /\ t.out = Append(m.out, p) /\ t.sendClosed = m.sendClosed /\ t.link = m.link
        BY <2>7, <2>19, <4>1, PacketWritten
      <4> QED BY <2>7, <3>1, <4>2
    <3>2. CASE ~s.link
      BY <2>7, <2>17, <2>18, <3>2
    <3> QED BY <3>1, <3>2
  <2>21. Entries(t) = (Entries(s) \ {c}) \cup {e} /\ Len(t.chans) = Len(s.chans)
    BY <2>8, <2>20 DEF Entries
  <2> QED BY <1>9, <2>1, <2>11, <2>18, <2>20, <2>21 DEF ClosedFrom
<1> QED BY <1>8, <1>9

(* Nothing is done for a channel that is not there.                        *)
LEMMA CloseOff ==
  ASSUME NEW s, NEW id, \A c \in Entries(s) : c.id # id
  PROVE  CloseChannel(s, id).s = s
<1>1. setChannelAttribute(s, id) = Return(s, "NOTFOUND")
  BY NotFound DEF setChannelAttribute
<1>2. Return(s, "NOTFOUND").st # Ok /\ Return(s, "NOTFOUND").s = s
  BY DEF Return, Ok
<1> QED BY <1>1, <1>2 DEF CloseChannel, ClosedFor

-----------------------------------------------------------------------------
(* What cryptPopData makes of one packet. *)

(* Data is handled with the header, every other message with the body.     *)
LEMMA PopIs ==
  ASSUME NEW s, NEW p
  PROVE  /\ cryptPopData(s, p).s = processChannelControlMessage(s, p).s
         /\ cryptPopData(s, p).st = processChannelControlMessage(s, p).st
<1>1. PICK r : r = processChannelControlMessage(s, p)
  OBVIOUS
<1>2. \A x, y : Return(x, y).s = x /\ Return(x, y).st = y
  BY DEF Return
<1>3. CASE p.type = "DATA"
  <2>1. cryptPopData(s, p) = HeaderRead(r, p)
    BY <1>1, <1>3 DEF cryptPopData, readHeaderFunction
  <2>2. processBodyFunction(r.s, p) = Return(r.s, Ok)
    BY <1>3 DEF processBodyFunction
  <2>3. HeaderRead(r, p) = IF r.st = Ok THEN Return(r.s, Ok) ELSE r
    BY <2>2 DEF HeaderRead
  <2> HIDE DEF Return
  <2> QED BY <1>1, <1>2, <2>1, <2>3
<1>4. CASE p.type # "DATA"
  <2>1. cryptPopData(s, p) = HeaderRead(Return(s, Ok), p)
    BY <1>4 DEF cryptPopData, readHeaderFunction
  <2>2. HeaderRead(Return(s, Ok), p) = processBodyFunction(s, p)
    BY <1>2 DEF HeaderRead
  <2>3. processBodyFunction(s, p) = r
    BY <1>1, <1>4 DEF processBodyFunction
  <2> QED BY <1>1, <2>1, <2>2, <2>3
<1> QED BY <1>3, <1>4

(* The channel that was current for reading has the number prevChannelNo.  *)
LEMMA Previous ==
  ASSUME NEW s, IsSession(s)
  PROVE  LET prev == getCurrentChannelNo(s, "read") IN
         \/ prev = NoChannel /\ \A c \in Entries(s) : c.id # s.read
         \/ \E d \in Entries(s) : d.id = s.read /\ prev = d.no
<1>1. CASE \A c \in Entries(s) : c.id # s.read
  BY <1>1, NoCurrentNo
<1>2. CASE \E c \in Entries(s) : c.id = s.read
  BY <1>2, CurrentNo DEF IsSession
<1> QED BY <1>1, <1>2

(* A packet for a channel that is not in the list.                         *)
LEMMA PopOff ==
  ASSUME NEW s, IsSession(s), NEW p, p.no \in ChannelNos, p.type # "OPEN",
         \A c \in Entries(s) : c.no # p.no
  PROVE  cryptPopData(s, p).s = s /\ cryptPopData(s, p).st = "BADDATA"
<1>1. PICK prev : prev = getCurrentChannelNo(s, "read")
  OBVIOUS
<1>2. p.no # prev
  BY <1>1, Previous, SshChannelAssumption DEF NoChannel
<1>3. selectChannel(s, p.no, "read") = Return(s, "NOTFOUND")
  BY NotFound DEF selectChannel
<1>4. Selected(Return(s, "NOTFOUND"), p, prev) = Return(s, "BADDATA")
  BY DEF Selected, Return, Ok
<1>5. processChannelControlMessage(s, p) = Return(s, "BADDATA")
  BY <1>1, <1>2, <1>3, <1>4 DEF processChannelControlMessage
<1> QED BY <1>5, PopIs DEF Return

(* A packet for a channel that is: it becomes current for reading.         *)
LEMMA PopSelects ==
  ASSUME NEW s, IsSession(s), NEW c \in Entries(s), NEW p, p.no = c.no, p.type # "OPEN"
  PROVE  processChannelControlMessage(s, p)
           = Selected(Return([s EXCEPT !.read = c.id], Ok), p, getCurrentChannelNo(s, "read"))
<1>1. PICK prev : prev = getCurrentChannelNo(s, "read")
  OBVIOUS
<1>2. CASE p.no = prev
  <2>1. s.read = c.id
    <3>1. c.no \in Nat /\ \A d \in Entries(s) : d.no = c.no => d = c
      BY EntryFacts DEF IsSession
    <3>2. prev # NoChannel
      BY <1>2, <3>1 DEF NoChannel
    <3> QED BY <1>1, <1>2, <3>1, <3>2, Previous
  <2>2. [s EXCEPT !.read = c.id] = s
    BY <2>1 DEF IsSession, IsRaw, Session
  <2> QED BY <1>1, <1>2, <2>2 DEF processChannelControlMessage
<1>3. CASE p.no # prev
  BY <1>1, <1>3, SetRead DEF processChannelControlMessage
<1> QED BY <1>2, <1>3

\* The session t is s with other entries, current channels and packets written.
Becomes(s, t, es, read, write, out) ==
  /\ IsSession(t) /\ Entries(t) = es /\ Len(t.chans) <= Len(s.chans) /\ t.nextID = s.nextID
  /\ t.read = read /\ t.write = write /\ t.out = out /\ t.sendClosed = s.sendClosed /\ t.link = s.link

(* Another number of bytes left in the window of the channel read from.    *)
LEMMA WindowSet ==
  ASSUME NEW s, IsSession(s), NEW c \in Entries(s), s.read = c.id, NEW n \in Nat
  PROVE  Becomes(s, setChannelExtAttribute(s, "windowCount", n),
                 (Entries(s) \ {c}) \cup {[c EXCEPT !.windowCount = n]}, s.read, s.write, s.out)
<1>r. IsRaw(s) /\ c.active = TRUE /\ c.windowSize = WindowSize
  BY DEF IsSession
<1>1. PICK d : d = [c EXCEPT !.windowCount = n]
  OBVIOUS
<1>2. c \in Channels
  BY <1>r, EntryFacts
<1>3. d \in Channels /\ d.id = c.id /\ d.no = c.no /\ d.active = TRUE /\ d.windowSize = WindowSize
  BY <1>r, <1>1, <1>2 DEF Channels
<1>4. PICK t : t = WithEntry(s, d)
  OBVIOUS
<1>5. setChannelExtAttribute(s, "windowCount", n) = t
  <2>1. \A field, value : field # "id" =>
          setChannelExtAttribute(s, field, value) = WithEntry(s, [c EXCEPT ![field] = value])
    BY <1>r, UpdateEntryIs
  <2>2. setChannelExtAttribute(s, "windowCount", n) = WithEntry(s, [c EXCEPT !["windowCount"] = n])
    BY <2>1
  <2> QED BY <1>1, <1>4, <2>2
<1>6. /\ IsRaw(t) /\ Entries(t) = (Entries(s) \ {c}) \cup {d} /\ Len(t.chans) = Len(s.chans)
      /\ t.nextID = s.nextID /\ t.read = s.read /\ t.write = s.write
      /\ t.out = s.out /\ t.sendClosed = s.sendClosed /\ t.link = s.link
  BY <1>r, <1>3, <1>4, WithEntryFacts
<1>7. IsSession(t)
  BY <1>3, <1>6 DEF IsSession
<1>8. Len(s.chans) \in Nat
  BY <1>r, ListFacts DEF IsRaw
<1> QED BY <1>1, <1>5, <1>6, <1>7, <1>8 DEF Becomes

\* What is made of data for c: t and st are the session and the status after it.
DataPopped(s, c, t, st) ==
  LET left == c.windowCount - DataLen
      with(n) == (Entries(s) \ {c}) \cup {[c EXCEPT !.windowCount = n]}
  IN  IF left >= WindowSize \div 2 THEN st = Ok /\ Becomes(s, t, with(left), c.id, s.write, s.out)
      ELSE IF ~s.link THEN st = "WRITE" /\ Becomes(s, t, Entries(s), c.id, s.write, s.out)
      ELSE /\ st = Ok
           /\ Becomes(s, t, with(WindowSize), c.id, s.write,
                      Append(s.out, Packet("ADJUST", c.no, WindowSize - left)))

(* Data that fits in the window is taken, and the window opened again when *)
(* less than half of it is left.                                           *)
LEMMA PopData ==
  ASSUME NEW s, IsSession(s), NEW c \in Entries(s), NEW p, p.no = c.no, p.type = "DATA", p.arg = DataLen,
         DataLen <= c.windowCount, c.windowCount <= WindowSize
  PROVE  DataPopped(s, c, cryptPopData(s, p).s, cryptPopData(s, p).st)
<1>r. IsRaw(s) /\ c.windowSize = WindowSize
  BY DEF IsSession
<1>c. /\ c.id \in Nat /\ c.no \in ChannelNos /\ c.windowCount \in Nat
      /\ WindowSize \in Nat \ {0} /\ DataLen \in Nat \ {0}
  BY <1>r, EntryFacts, SshChannelAssumption
<1>1. PICK u : u = [s EXCEPT !.read = c.id]
  OBVIOUS
<1>2. /\ IsRaw(u) /\ IsSession(u) /\ u.chans = s.chans /\ Entries(u) = Entries(s)
      /\ u.nextID = s.nextID /\ u.read = c.id /\ u.write = s.write
      /\ u.out = s.out /\ u.sendClosed = s.sendClosed /\ u.link = s.link
  BY <1>r, <1>c, <1>1, ReadSelected
<1>3. PICK r : r = handleWindowAdjust(u, c.no, DataLen)
  OBVIOUS
<1>4. cryptPopData(s, p).s = r.s /\ cryptPopData(s, p).st = r.st
  <2>1. Return(u, Ok).st = Ok /\ Return(u, Ok).s = u
    BY DEF Return
  <2>2. Selected(Return(u, Ok), p, getCurrentChannelNo(s, "read")) = r
    BY <1>3, <2>1 DEF Selected
  <2>3. processChannelControlMessage(s, p) = r
    BY <1>1, <2>2, PopSelects
  <2> QED BY <2>3, PopIs
<1>5. getCurrentChannelInfo(u, "read") = {c}
  <2>1. findChannelByID(u, c.id) = {c}
    BY <1>2, Found
  <2> QED BY <1>2, <2>1 DEF getCurrentChannelInfo
<1>6. /\ (CHOOSE n \in getChannelExtAttribute(u, "windowCount") : TRUE) = c.windowCount
      /\ (CHOOSE n \in getChannelExtAttribute(u, "windowSize") : TRUE) = WindowSize
  <2>1. /\ getChannelExtAttribute(u, "windowCount") = {c.windowCount}
        /\ getChannelExtAttribute(u, "windowSize") = {c.windowSize}
    BY <1>5 DEF getChannelExtAttribute
  <2> QED BY <1>r, <2>1
<1>7. PICK left : left = c.windowCount - DataLen
  OBVIOUS
<1>8. left \in Nat /\ ~(c.windowCount <= 0) /\ ~(c.windowCount > WindowSize) /\ ~(left < 0)
  BY <1>c, <1>7
<1>9. r = IF left >= WindowSize \div 2 THEN Return(setChannelExtAttribute(u, "windowCount", left), Ok)
          ELSE AdjustSent(enqueueChannelData(u, "ADJUST", c.no, WindowSize - left), WindowSize, left + (WindowSize - left))
  <2>1. r = WindowUsed(u, c.no, c.windowCount, WindowSize, left)
    BY <1>3, <1>6, <1>7 DEF handleWindowAdjust
  <2> QED BY <1>8, <2>1 DEF WindowUsed
<1>10. CASE left >= WindowSize \div 2
  <2>1. PICK t : t = setChannelExtAttribute(u, "windowCount", left)
    OBVIOUS
  <2>2. Becomes(u, t, (Entries(u) \ {c}) \cup {[c EXCEPT !.windowCount = left]}, u.read, u.write, u.out)
    BY <1>2, <1>8, <2>1, WindowSet
  <2>3. r.s = t /\ r.st = Ok
    BY <1>9, <1>10, <2>1 DEF Return
  <2> QED BY <1>2, <1>4, <1>7, <1>10, <2>2, <2>3 DEF DataPopped, Becomes
<1>11. CASE ~(left >= WindowSize \div 2)
  <2>1. PICK q : q = Packet("ADJUST", c.no, WindowSize - left)
    OBVIOUS
  <2>2. WindowSize - left \in Nat /\ left + (WindowSize - left) = WindowSize /\ WindowSize \div 2 <= WindowSize
    BY <1>c, <1>8, <1>7
  <2>3. q \in PacketsOut
    BY <1>c, <2>1, <2>2 DEF PacketsOut, Packet, AnswerTypes
  <2>7. PICK w : w = [u EXCEPT !.out = Append(@, q)]
    OBVIOUS
  <2>4. enqueueChannelData(u, "ADJUST", c.no, WindowSize - left) = IF u.link THEN Return(w, Ok) ELSE Return(u, "WRITE")
    <3>1. IsRaw(u) /\ c.no \in ChannelNos
      BY <1>2, <1>c
    <3>2. enqueueChannelData(u, "ADJUST", c.no, WindowSize - left)
            = IF u.link THEN Return(Written(u, Packet("ADJUST", c.no, WindowSize - left)), Ok) ELSE Return(u, "WRITE")
      BY <3>1, ResponseQueued
    <3> QED BY <2>1, <2>7, <3>2 DEF Written
  <2>5. CASE ~s.link
    <3>1. r = AdjustSent(Return(u, "WRITE"), WindowSize, WindowSize)
      BY <1>2, <1>9, <1>11, <2>2, <2>4, <2>5
    <3>2. r.s = u /\ r.st = "WRITE"
      BY <3>1 DEF AdjustSent, Return, Ok
    <3>3. Len(u.chans) <= Len(s.chans)
      BY <1>r, <1>2, ListFacts DEF IsRaw
    <3>4. Becomes(s, u, Entries(s), c.id, s.write, s.out)
      BY <1>2, <3>3 DEF Becomes
    <3> QED BY <1>4, <1>7, <1>11, <2>5, <3>2, <3>4 DEF DataPopped
  <2>6. CASE s.link
    <3>2. /\ IsSession(w) /\ w.chans = u.chans /\ Entries(w) = Entries(u)
          /\ w.nextID = u.nextID /\ w.read = u.read /\ w.write = u.write
          /\ w.out = Append(u.out, q) /\ w.sendClosed = u.sendClosed /\ w.link = u.link
      BY <1>2, <2>3, <2>7, PacketWritten
    <3>3. PICK t : t = setChannelExtAttribute(w, "windowCount", WindowSize)
      OBVIOUS
    <3>4. Becomes(w, t, (Entries(w) \ {c}) \cup {[c EXCEPT !.windowCount = WindowSize]}, w.read, w.write, w.out)
      BY <1>2, <1>c, <3>2, <3>3, WindowSet
    <3>5. r = AdjustSent(Return(w, Ok), WindowSize, WindowSize)
      BY <1>2, <1>9, <1>11, <2>2, <2>4, <2>6
    <3>6. ~(WindowSize < WindowSize \div 2)
      BY <1>c, <2>2
    <3>7. r.s = t /\ r.st = Ok
      BY <3>3, <3>5, <3>6 DEF AdjustSent, Return
    <3>8. Becomes(s, t, (Entries(s) \ {c}) \cup {[c EXCEPT !.windowCount = WindowSize]}, c.id, s.write, Append(s.out, q))
      BY <1>2, <3>2, <3>4 DEF Becomes
    <3> QED BY <1>4, <1>7, <1>11, <2>1, <2>6, <3>7, <3>8 DEF DataPopped
  <2> QED BY <2>5, <2>6
<1> QED BY <1>10, <1>11

(* A session in which the channel the packet is for was selected.          *)
LEMMA ReadBecomes ==
  ASSUME NEW s, IsSession(s), NEW c \in Entries(s), NEW u, u = [s EXCEPT !.read = c.id]
  PROVE  Becomes(s, u, Entries(s), c.id, s.write, s.out)
<1>1. IsRaw(s) /\ c.id \in Nat /\ Len(s.chans) \in Nat
  BY EntryFacts, ListFacts DEF IsSession, IsRaw
<1>2. /\ IsSession(u) /\ u.chans = s.chans /\ Entries(u) = Entries(s)
      /\ u.nextID = s.nextID /\ u.read = c.id /\ u.write = s.write
      /\ u.out = s.out /\ u.sendClosed = s.sendClosed /\ u.link = s.link
  BY <1>1, ReadSelected
<1> QED BY <1>1, <1>2 DEF Becomes

(* Room for the server to send is not kept account of.                     *)
LEMMA PopAdjust ==
  ASSUME NEW s, IsSession(s), NEW c \in Entries(s), NEW p, p.no = c.no, p.type = "ADJUST"
  PROVE  /\ Becomes(s, cryptPopData(s, p).s, Entries(s), c.id, s.write, s.out)
         /\ cryptPopData(s, p).st = OkSpecial
<1>1. PICK u : u = [s EXCEPT !.read = c.id]
  OBVIOUS
<1>2. Return(u, Ok).st = Ok /\ Return(u, Ok).s = u
  BY DEF Return
<1>3. Selected(Return(u, Ok), p, getCurrentChannelNo(s, "read")) = Return(u, OkSpecial)
  BY <1>2 DEF Selected
<1>4. processChannelControlMessage(s, p) = Return(u, OkSpecial)
  BY <1>1, <1>3, PopSelects
<1>5. cryptPopData(s, p).s = u /\ cryptPopData(s, p).st = OkSpecial
  BY <1>4, PopIs DEF Return
<1> QED BY <1>1, <1>5, ReadBecomes

\* What is made of a request for c.
RequestPopped(s, c, p, t, st) ==
  \/ /\ st = "INTERNAL" /\ \A d \in Entries(s) : d.id # s.read
     /\ Becomes(s, t, Entries(s), c.id, s.write, s.out)
  \/ /\ s.link /\ requestInfo[p.arg].wantReply /\ st = OkSpecial
     /\ \E answer \in {"SUCCESS", "FAILURE"}, d \in Entries(s), read \in {c.id, s.read} :
          Becomes(s, t, Entries(s), read, s.write, Append(s.out, Packet(answer, d.no, 0)))
  \/ /\ s.link => ~requestInfo[p.arg].wantReply
     /\ st = OkSpecial \/ (st = "WRITE" /\ ~s.link)
     /\ \E read \in {c.id, s.read} : Becomes(s, t, Entries(s), read, s.write, s.out)

(* A request is answered when a channel was current before it.             *)
LEMMA PopRequest ==
  ASSUME NEW s, IsSession(s), NEW c \in Entries(s), NEW p, p.no = c.no, p.type = "REQUEST",
         NEW info, info = requestInfo[p.arg], info.known \in BOOLEAN, info.wantReply \in BOOLEAN
  PROVE  RequestPopped(s, c, p, cryptPopData(s, p).s, cryptPopData(s, p).st)
<1>r. IsRaw(s) /\ c.id \in Nat /\ c.no \in ChannelNos
  BY EntryFacts DEF IsSession
<1>1. PICK u : u = [s EXCEPT !.read = c.id]
  OBVIOUS
<1>2. /\ IsRaw(u) /\ IsSession(u) /\ u.chans = s.chans /\ Entries(u) = Entries(s)
      /\ u.nextID = s.nextID /\ u.read = c.id /\ u.write = s.write
      /\ u.out = s.out /\ u.sendClosed = s.sendClosed /\ u.link = s.link
  BY <1>r, <1>1, ReadSelected
<1>b. Becomes(s, u, Entries(s), c.id, s.write, s.out)
  BY <1>1, ReadBecomes
<1>3. \A x, y : Return(x, y).s = x /\ Return(x, y).st = y
  BY DEF Return
<1>4. PICK prev : prev = getCurrentChannelNo(s, "read")
  OBVIOUS
<1>5. PICK r : r = processChannelRequest(u, p.arg, prev)
  OBVIOUS
<1>6. cryptPopData(s, p).s = r.s /\ cryptPopData(s, p).st = IF r.st = Ok THEN OkSpecial ELSE r.st
  <2>1. Selected(Return(u, Ok), p, prev) = Requested(r)
    BY <1>3, <1>5 DEF Selected
  <2>2. processChannelControlMessage(s, p) = Requested(r)
    BY <1>1, <1>4, <2>1, PopSelects
  <2> QED BY <1>3, <2>2, PopIs DEF Requested
<1>7. CASE prev = NoChannel /\ \A d \in Entries(s) : d.id # s.read
  <2>1. r = Return(u, "INTERNAL")
    BY <1>5, <1>7 DEF processChannelRequest, NoChannel
  <2>2. cryptPopData(s, p).s = u /\ cryptPopData(s, p).st = "INTERNAL"
    BY <1>3, <1>6, <2>1 DEF Ok
  <2> QED BY <1>7, <1>b, <2>2 DEF RequestPopped
<1>8. CASE \E d \in Entries(s) : d.id = s.read /\ prev = d.no
  <2>1. PICK d \in Entries(s) : d.id = s.read /\ prev = d.no
    BY <1>8
  <2>2. d.no \in Nat /\ d.no \in ChannelNos /\ d.id \in Nat
    BY <1>r, <2>1, EntryFacts
  <2>3. r = IF ~info.wantReply THEN Return(u, Ok)
            ELSE Answered(sendChannelResponse(u, prev, info.known), info, prev)
    BY <1>5, <2>1, <2>2 DEF processChannelRequest
  <2>4. CASE ~info.wantReply
    <3>1. cryptPopData(s, p).s = u /\ cryptPopData(s, p).st = OkSpecial
      BY <1>3, <1>6, <2>3, <2>4
    <3> QED BY <1>b, <2>4, <3>1 DEF RequestPopped
  <2>5. CASE info.wantReply
    <3>1. PICK answer \in {"SUCCESS", "FAILURE"} : answer = IF info.known THEN "SUCCESS" ELSE "FAILURE"
      OBVIOUS
    <3>2. PICK q : q = Packet(answer, d.no, 0)
      OBVIOUS
    <3>3. q \in PacketsOut
      BY <2>2, <3>1, <3>2 DEF PacketsOut, Packet, AnswerTypes
    <3>4. PICK w : w = Written(u, q)
      OBVIOUS
    <3>5. /\ IsRaw(w) /\ IsSession(w) /\ w.chans = u.chans /\ Entries(w) = Entries(u)
          /\ w.nextID = u.nextID /\ w.read = u.read /\ w.write = u.write
          /\ w.out = Append(u.out, q) /\ w.sendClosed = u.sendClosed /\ w.link = u.link
      <4>1. w = [u EXCEPT !.out = Append(@, q)]
        BY <3>4 DEF Written
      <4> QED BY <1>2, <3>3, <4>1, PacketWritten
    <3>6. sendChannelResponse(u, prev, info.known) = IF s.link THEN Return(w, Ok) ELSE Return(u, "WRITE")
      <4>1. sendChannelResponse(u, prev, info.known) = enqueueChannelData(u, answer, d.no, 0)
        BY <2>1, <3>1 DEF sendChannelResponse
      <4>2. enqueueChannelData(u, answer, d.no, 0) = IF u.link THEN Return(w, Ok) ELSE Return(u, "WRITE")
        BY <1>2, <2>2, <3>2, <3>4, ResponseQueued
      <4> QED BY <1>2, <4>1, <4>2
    <3>7. CASE s.link
      <4>1. PICK b : b = [w EXCEPT !.read = d.id]
        OBVIOUS
      <4>2. selectChannel(w, prev, "read") = Return(b, Ok)
        BY <1>2, <2>1, <3>5, <4>1, SetRead
      <4>3. Answered(Return(w, Ok), info, prev) = IF ~info.known THEN Return(b, Ok) ELSE Return(w, Ok)
        BY <1>3, <4>2 DEF Answered
      <4>4. r = IF ~info.known THEN Return(b, Ok) ELSE Return(w, Ok)
        BY <2>3, <2>5, <3>6, <3>7, <4>3
      <4>5. cryptPopData(s, p).s \in {b, w} /\ cryptPopData(s, p).st = OkSpecial
        BY <1>3, <1>6, <4>4
      <4>6. Becomes(w, b, Entries(w), d.id, w.write, w.out)
        BY <1>2, <2>1, <3>5, <4>1, ReadBecomes
      <4>7. Len(w.chans) = Len(s.chans) /\ Len(s.chans) \in Nat
        BY <1>r, <1>2, <3>5, ListFacts DEF IsRaw
      <4>8. /\ Becomes(s, b, Entries(s), s.read, s.write, Append(s.out, q))
            /\ Becomes(s, w, Entries(s), c.id, s.write, Append(s.out, q))
        BY <1>2, <2>1, <3>5, <4>6, <4>7 DEF Becomes
      <4> QED BY <2>1, <2>5, <3>2, <3>7, <4>5, <4>8 DEF RequestPopped
    <3>8. CASE ~s.link
      <4>1. PICK b : b = [u EXCEPT !.read = d.id]
        OBVIOUS
      <4>2. selectChannel(u, prev, "read") = Return(b, Ok)
        BY <1>2, <2>1, <4>1, SetRead
      <4>3. Answered(Return(u, "WRITE"), info, prev) = IF ~info.known THEN Return(b, "WRITE") ELSE Return(b, Ok)
        BY <1>3, <4>2 DEF Answered, Ok
      <4>4. r = IF ~info.known THEN Return(b, "WRITE") ELSE Return(b, Ok)
        BY <2>3, <2>5, <3>6, <3>8, <4>3
      <4>5. cryptPopData(s, p).s = b /\ cryptPopData(s, p).st \in {"WRITE", OkSpecial}
        BY <1>3, <1>6, <4>4 DEF Ok
      <4>6. Becomes(u, b, Entries(u), d.id, u.write, u.out)
        BY <1>2, <2>1, <4>1, ReadBecomes
      <4>8. Becomes(s, b, Entries(s), s.read, s.write, s.out)
        BY <1>2, <2>1, <4>6 DEF Becomes
      <4> QED BY <3>8, <4>5, <4>8 DEF RequestPopped
    <3> QED BY <3>7, <3>8
  <2> QED BY <2>4, <2>5
<1> QED BY <1>4, <1>7, <1>8, Previous

(* A list without an entry; a current channel that it was is one no more.  *)
LEMMA EntryRemoved ==
  ASSUME NEW s, IsRaw(s), NEW c \in Entries(s), NEW t, t = RemoveEntry(s, c.id)
  PROVE  /\ IsRaw(t) /\ Entries(t) = Entries(s) \ {c} /\ Len(t.chans) = Len(s.chans) - 1
         /\ t.nextID = s.nextID
         /\ t.read = (IF s.read = c.id THEN UnusedID ELSE s.read)
         /\ t.write = (IF s.write = c.id THEN UnusedID ELSE s.write)
         /\ t.response = <<>> /\ t.out = s.out /\ t.sendClosed = s.sendClosed /\ t.link = s.link
<1>1. PICK list, new : list = s.chans /\ new = RemoveAt(list, CHOOSE i \in DOMAIN list : list[i].id = c.id)
  OBVIOUS
<1>2. Unique(list) /\ c \in ToSet(list) /\ Entries(s) = ToSet(list)
  BY <1>1 DEF IsRaw, Entries
<1>3. Unique(new) /\ Len(new) = Len(list) - 1 /\ ToSet(new) = ToSet(list) \ {c}
  BY <1>1, <1>2, ListRemoved
<1>4. PICK read, write : /\ read = IF s.read = c.id THEN UnusedID ELSE s.read
                         /\ write = IF s.write = c.id THEN UnusedID ELSE s.write
  OBVIOUS
<1>5. t = [s EXCEPT !.chans = new, !.read = read, !.write = write]
  BY <1>1, <1>4 DEF RemoveEntry
<1>6. new \in Seq(Channels) /\ read \in Nat /\ write \in Nat /\ s \in Session
  BY <1>3, <1>4 DEF Unique, IsRaw, Session, UnusedID
<1>7. t \in Session /\ t.chans = new /\ t.read = read /\ t.write = write
  BY <1>5, <1>6 DEF Session
<1>8. t.nextID = s.nextID /\ t.response = <<>> /\ t.out = s.out /\ t.sendClosed = s.sendClosed /\ t.link = s.link
  BY <1>5, <1>6 DEF Session
<1>9. Entries(t) = Entries(s) \ {c} /\ Len(t.chans) = Len(s.chans) - 1
  BY <1>1, <1>2, <1>3, <1>7 DEF Entries
<1> QED BY <1>3, <1>4, <1>7, <1>8, <1>9 DEF IsRaw

\* A session after its last channel.
Completed(s) == [s EXCEPT !.sendClosed = TRUE]

(* The status tells whether a channel is left.                             *)
LEMMA DeletedIs ==
  ASSUME NEW d
  PROVE  /\ Deleted(d).s = IF d.st # OkSpecial THEN d.s ELSE Completed(d.s)
         /\ Deleted(d).st = IF d.st # OkSpecial THEN OkSpecial ELSE "COMPLETE"
<1>1. \A x, y : Return(x, y).s = x /\ Return(x, y).st = y
  BY DEF Return
<1>2. Deleted(d) = IF d.st # OkSpecial THEN Return(d.s, OkSpecial) ELSE Return(Completed(d.s), "COMPLETE")
  BY DEF Deleted, Completed
<1> QED BY <1>1, <1>2

(* It is the same in all that matters.                                     *)
LEMMA CompletedFacts ==
  ASSUME NEW s, IsSession(s), NEW t, t = Completed(s)
  PROVE  /\ IsSession(t) /\ t.chans = s.chans /\ Entries(t) = Entries(s) /\ t.nextID = s.nextID
         /\ t.read = s.read /\ t.write = s.write /\ t.out = s.out /\ t.link = s.link
<1>1. /\ IsRaw(t) /\ t.chans = s.chans /\ t.nextID = s.nextID /\ t.read = s.read /\ t.write = s.write
      /\ t.out = s.out /\ t.link = s.link
  BY DEF IsSession, IsRaw, Session, Completed
<1> QED BY <1>1 DEF IsSession, Entries

\* The session t is s without c, whose closing the peer is told of.
RemovedFrom(s, c, t) ==
  /\ IsSession(t) /\ Entries(t) = Entries(s) \ {c} /\ Len(t.chans) <= Len(s.chans) /\ t.nextID = s.nextID
  /\ t.read = UnusedID /\ t.write = (IF s.write = c.id THEN UnusedID ELSE s.write)
  /\ t.out = (IF s.link /\ ~c.writeClosed THEN Append(s.out, Packet("CLOSE", c.no, 0)) ELSE s.out)
  /\ t.link = s.link

(* The end of a channel, by CLOSE or by EOF, is the end of the session when *)
(* it is the last one.                                                     *)
LEMMA PopClose ==
  ASSUME NEW s, IsSession(s), NEW c \in Entries(s), NEW p, p.no = c.no, p.type \in {"EOF", "CLOSE"}
  PROVE  /\ RemovedFrom(s, c, cryptPopData(s, p).s)
         /\ IF Entries(s) = {c} THEN cryptPopData(s, p).st = "COMPLETE"
            ELSE /\ cryptPopData(s, p).st = OkSpecial
                 /\ cryptPopData(s, p).s.sendClosed = s.sendClosed
<1>r. IsRaw(s) /\ c.id \in Nat /\ c.id # UnusedID /\ c.no \in ChannelNos /\ c.writeClosed \in BOOLEAN
  BY EntryFacts DEF IsSession, UnusedID
<1>1. PICK u : u = [s EXCEPT !.read = c.id]
  OBVIOUS
<1>2. /\ IsRaw(u) /\ IsSession(u) /\ u.chans = s.chans /\ Entries(u) = Entries(s)
      /\ u.nextID = s.nextID /\ u.read = c.id /\ u.write = s.write
      /\ u.out = s.out /\ u.sendClosed = s.sendClosed /\ u.link = s.link
  BY <1>r, <1>1, ReadSelected
<1>3. \A x, y : Return(x, y).s = x /\ Return(x, y).st = y
  BY DEF Return
<1>4. PICK r : r = PeerClosed(u, c.no)
  OBVIOUS
<1>5. cryptPopData(s, p).s = r.s /\ cryptPopData(s, p).st = r.st
  <2>1. Selected(Return(u, Ok), p, getCurrentChannelNo(s, "read")) = PeerClosed(u, p.no)
    <3>1. p.type \notin {"DATA", "REQUEST", "ADJUST"}
      OBVIOUS
    <3> QED BY <1>3, <3>1 DEF Selected
  <2>2. processChannelControlMessage(s, p) = r
    BY <1>1, <1>4, <2>1, PopSelects
  <2> QED BY <2>2, PopIs
<1>6. PICK v : v = RemoveEntry(u, c.id)
  OBVIOUS
<1>7. /\ IsRaw(v) /\ Entries(v) = Entries(s) \ {c} /\ Len(v.chans) = Len(s.chans) - 1
      /\ v.nextID = s.nextID /\ v.read = UnusedID
      /\ v.write = (IF s.write = c.id THEN UnusedID ELSE s.write)
      /\ v.out = s.out /\ v.sendClosed = s.sendClosed /\ v.link = s.link
  BY <1>2, <1>6, EntryRemoved
<1>8. IsSession(v)
  BY <1>2, <1>7 DEF IsSession
<1>9. Len(s.chans) \in Nat
  BY <1>r, ListFacts DEF IsRaw
<1>10. PICK st : st = IF Entries(s) = {c} THEN OkSpecial ELSE Ok
  OBVIOUS
<1>11. ASSUME NEW x, IsSession(x), Entries(x) = Entries(s) \ {c}
       PROVE  (IF isChannelActive(x, UnusedID) THEN Ok ELSE OkSpecial) = st
  <2>1. isChannelActive(x, UnusedID) <=> Entries(x) # {}
    <3>1. \A d \in Entries(x) : d.id # UnusedID
      BY <1>11, EntryFacts DEF IsSession, UnusedID
    <3> QED BY <1>11, <3>1, ActiveOthers
  <2> QED BY <1>10, <1>11, <2>1
<1>12. findChannelAttr(u, c.no) = {c} /\ (CHOOSE x \in {c} : TRUE) = c
  BY <1>2, Found
<1>13. deleteChannel(u, c.no, "BOTH", TRUE) = Return(v, st)
  <2>1. (IF isChannelActive(v, UnusedID) THEN Ok ELSE OkSpecial) = st
    BY <1>7, <1>8, <1>11
  <2> HIDE DEF Return, RemoveEntry
  <2> QED BY <1>6, <1>12, <2>1 DEF deleteChannel
<1>14. st \in {Ok, OkSpecial}
  BY <1>10
<1>15. PICK w : w = IF s.link THEN Written(v, Packet("CLOSE", c.no, 0)) ELSE v
  OBVIOUS
<1>16. /\ IsSession(w) /\ w.chans = v.chans /\ Entries(w) = Entries(v)
       /\ w.nextID = v.nextID /\ w.read = v.read /\ w.write = v.write
       /\ w.out = (IF s.link THEN Append(v.out, Packet("CLOSE", c.no, 0)) ELSE v.out)
       /\ w.sendClosed = v.sendClosed /\ w.link = v.link
  <2>1. PICK q : q = Packet("CLOSE", c.no, 0)
    OBVIOUS
  <2>2. q \in PacketsOut
    BY <1>r, <2>1 DEF PacketsOut, Packet, AnswerTypes
  <2>3. CASE s.link
    <3>1. w = [v EXCEPT !.out = Append(@, q)]
      BY <1>15, <2>1, <2>3 DEF Written
    <3>2. IsRaw(v)
      BY <1>7
    <3>3. /\ (IsSession(v) => IsSession(w)) /\ w.chans = v.chans /\ Entries(w) = Entries(v)
          /\ w.nextID = v.nextID /\ w.read = v.read /\ w.write = v.write
          /\ w.out = Append(v.out, q) /\ w.sendClosed = v.sendClosed /\ w.link = v.link
      BY <2>2, <3>1, <3>2, PacketWritten
    <3> QED BY <1>8, <2>1, <2>3, <3>3
  <2>4. CASE ~s.link
    BY <1>8, <1>15, <2>4
  <2> QED BY <2>3, <2>4
<1>17. PICK d : /\ d = deleteChannel(IF c.writeClosed THEN u ELSE w, c.no, "BOTH", TRUE)
                /\ r = Deleted(d)
  <2>2. getChannelStatusByChannelNo(u, c.no) = IF c.writeClosed THEN "READ" ELSE "BOTH"
    BY <1>12 DEF getChannelStatusByChannelNo
  <2>3. sendChannelClose(u, c.no, "BOTH", TRUE).s = w
    <3>1. PICK e : e = enqueueResponse(v, "CLOSE", c.no, 0)
      OBVIOUS
    <3>2. e.st = Ok /\ encodeSendResponse(e.s) = enqueueChannelData(v, "CLOSE", c.no, 0)
      BY <1>7, <1>r, <3>1, ResponseEnqueued
    <3>3. enqueueChannelData(v, "CLOSE", c.no, 0)
            = IF v.link THEN Return(Written(v, Packet("CLOSE", c.no, 0)), Ok) ELSE Return(v, "WRITE")
      BY <1>7, <1>r, ResponseQueued
    <3>4. sendChannelClose(u, c.no, "BOTH", TRUE) = CloseMarked(Return(v, st), c.no)
      BY <1>13 DEF sendChannelClose
    <3>5. CloseMarked(Return(v, st), c.no) = CloseQueued(e, st)
      BY <1>3, <1>14, <3>1 DEF CloseMarked
    <3>6. CloseQueued(e, st) = CloseSent(encodeSendResponse(e.s), st)
      BY <3>2 DEF CloseQueued
    <3>7. CloseSent(encodeSendResponse(e.s), st).s = encodeSendResponse(e.s).s
      BY <1>3 DEF CloseSent
    <3>8. encodeSendResponse(e.s).s = w
      BY <1>3, <1>7, <1>15, <3>2, <3>3
    <3> QED BY <3>4, <3>5, <3>6, <3>7, <3>8
  <2> QED BY <1>4, <2>2, <2>3 DEF PeerClosed
<1>e. r.s = (IF d.st # OkSpecial THEN d.s ELSE Completed(d.s)) /\ r.st = (IF d.st # OkSpecial THEN OkSpecial ELSE "COMPLETE")
  BY <1>17, DeletedIs
<1>18. CASE c.writeClosed
  <2>1. d = Return(v, st)
    BY <1>13, <1>17, <1>18
  <2>2. d.s = v /\ d.st = st
    BY <1>3, <2>1
  <2>3. CASE Entries(s) # {c}
    <3>1. r.s = v /\ r.st = OkSpecial
      BY <1>e, <1>10, <2>2, <2>3 DEF Ok, OkSpecial
    <3> QED BY <1>5, <1>7, <1>8, <1>9, <1>18, <2>3, <3>1 DEF RemovedFrom
  <2>4. CASE Entries(s) = {c}
    <3>1. PICK z : z = Completed(v)
      OBVIOUS
    <3>2. r.s = z /\ r.st = "COMPLETE"
      BY <1>e, <1>10, <2>2, <2>4, <3>1
    <3>3. /\ IsSession(z) /\ z.chans = v.chans /\ Entries(z) = Entries(v) /\ z.nextID = v.nextID
          /\ z.read = v.read /\ z.write = v.write /\ z.out = v.out /\ z.link = v.link
      BY <1>8, <3>1, CompletedFacts
    <3> QED BY <1>5, <1>7, <1>9, <1>18, <2>4, <3>2, <3>3 DEF RemovedFrom
  <2> QED BY <2>3, <2>4
<1>19. CASE ~c.writeClosed
  <2>1. findChannelAttr(w, c.no) = {}
    <3>1. \A x \in Entries(s) : x.no = c.no => x = c
      BY <1>r, EntryFacts
    <3>2. \A x \in Entries(w) : x.no # c.no
      BY <1>7, <1>16, <3>1
    <3> QED BY <3>2, NotFound
  <2>2. (IF isChannelActive(w, UnusedID) THEN Ok ELSE OkSpecial) = st
    BY <1>7, <1>11, <1>16
  <2>3. d = Return(w, IF isChannelActive(w, UnusedID) THEN "NOTFOUND" ELSE OkSpecial)
    <3> HIDE DEF Return
    <3> QED BY <1>17, <1>19, <2>1 DEF deleteChannel
  <2>4. CASE Entries(s) # {c}
    <3>1. r.s = w /\ r.st = OkSpecial
      <4>1. isChannelActive(w, UnusedID)
        BY <1>10, <2>2, <2>4 DEF Ok, OkSpecial
      <4>2. d.s = w /\ d.st # OkSpecial
        BY <1>3, <2>3, <4>1 DEF OkSpecial
      <4> QED BY <1>e, <4>2
    <3>2. w.sendClosed = s.sendClosed /\ RemovedFrom(s, c, w)
      BY <1>7, <1>9, <1>16, <1>19 DEF RemovedFrom
    <3> QED BY <1>5, <2>4, <3>1, <3>2
  <2>5. CASE Entries(s) = {c}
    <3>1. PICK z : z = Completed(w)
      OBVIOUS
    <3>2. r.s = z /\ r.st = "COMPLETE"
      <4>1. ~isChannelActive(w, UnusedID)
        BY <1>10, <2>2, <2>5 DEF Ok, OkSpecial
      <4>2. d.s = w /\ d.st = OkSpecial
        BY <1>3, <2>3, <4>1
      <4> QED BY <1>e, <3>1, <4>2
    <3>3. /\ IsSession(z) /\ z.chans = w.chans /\ Entries(z) = Entries(w) /\ z.nextID = w.nextID
          /\ z.read = w.read /\ z.write = w.write /\ z.out = w.out /\ z.link = w.link
      BY <1>16, <3>1, CompletedFacts
    <3>5. RemovedFrom(s, c, z)
      BY <1>7, <1>9, <1>16, <1>19, <3>3 DEF RemovedFrom
    <3> QED BY <1>5, <2>5, <3>2, <3>5
  <2> QED BY <2>4, <2>5
<1> QED BY <1>r, <1>18, <1>19

\* An entry with another value in one of its fields.
WithField(c, field, value) == [c EXCEPT ![field] = value]

(* Another value in the entry of the channel read from.                    *)
LEMMA FieldSet ==
  ASSUME NEW s, IsRaw(s), NEW c \in Entries(s), s.read = c.id, NEW value,
         NEW field \in {"active", "windowSize", "windowCount"}
  PROVE  setChannelExtAttribute(s, field, value) = WithEntry(s, WithField(c, field, value))
<1>1. \A f, v : f # "id" => setChannelExtAttribute(s, f, v) = WithEntry(s, [c EXCEPT ![f] = v])
  BY UpdateEntryIs
<1> QED BY <1>1 DEF WithField

\* The entry of a channel the peer opened.
NewChannel(s, p) == [Channel(s.nextID, p.no, p.arg) EXCEPT
                       !.active = TRUE, !.windowCount = WindowSize, !.windowSize = WindowSize]

\* What is made of a request to open a channel.
OpenPopped(s, p, t, st) ==
  IF Len(s.chans) > MaxChannels
  THEN /\ st = "OVERFLOW" /\ IsSession(t) /\ Entries(t) = Entries(s) /\ t.nextID = s.nextID
       /\ t.read = s.read /\ t.write = s.write /\ t.sendClosed = s.sendClosed
  ELSE IF s.link
  THEN /\ st = EnvelopeResource /\ IsSession(t)
       /\ Entries(t) = Entries(s) \cup {NewChannel(s, p)} /\ Len(t.chans) = Len(s.chans) + 1
       /\ t.nextID = s.nextID + 1 /\ t.read = s.nextID /\ t.write = s.nextID
       /\ t.out = Append(s.out, Packet("OPEN_CONFIRMATION", p.no, WindowSize))
       /\ t.sendClosed = s.sendClosed /\ t.link = s.link
  ELSE /\ st = "WRITE" /\ IsSession(t) /\ Entries(t) = Entries(s) /\ t.nextID = s.nextID + 1
       /\ t.read = UnusedID /\ t.write = UnusedID /\ t.sendClosed = s.sendClosed

(* The channel is added unless there are too many, and is confirmed before *)
(* it is marked active.                                                    *)
LEMMA PopOpen ==
  ASSUME NEW s, IsSession(s), NEW p, p.type = "OPEN", p.no \in ChannelNos, p.arg = "direct-tcpip",
         \A c \in Entries(s) : c.no # p.no /\ c.id < s.nextID
  PROVE  OpenPopped(s, p, cryptPopData(s, p).s, cryptPopData(s, p).st)
<1>r. IsRaw(s) /\ s.nextID \in Nat \ {0} /\ Len(s.chans) \in Nat
  BY ListFacts DEF IsSession, IsRaw, Session
<1>3. \A x, y : Return(x, y).s = x /\ Return(x, y).st = y
  BY DEF Return
<1>4. PICK no : no = p.no /\ no \in ChannelNos
  OBVIOUS
<1>5. PICK added, r : added = addChannel(s, no, p.arg) /\ r = Added(added, no)
  OBVIOUS
<1>6. cryptPopData(s, p).s = r.s /\ cryptPopData(s, p).st = IF r.st = Ok THEN EnvelopeResource ELSE r.st
  <2>1. processChannelControlMessage(s, p) = Opened(r)
    BY <1>4, <1>5 DEF processChannelControlMessage, processChannelOpen
  <2> QED BY <1>3, <2>1, PopIs DEF Opened
<1>7. findChannelAttr(s, no) = {}
  BY <1>4, NotFound
<1>8. CASE Len(s.chans) > MaxChannels
  <2>1. added = Return(s, "OVERFLOW")
    BY <1>5, <1>7, <1>8 DEF addChannel
  <2>2. added.s = s /\ added.st = "OVERFLOW"
    BY <1>3, <2>1
  <2>3. PICK f : f = sendOpenResponseFailed(s, no).s
    OBVIOUS
  <2>4. r.s = f /\ r.st = "OVERFLOW"
    BY <1>3, <1>5, <2>2, <2>3 DEF Added, Ok
  <2>5. PICK q : q = Packet("OPEN_FAILURE", no, 0)
    OBVIOUS
  <2>6. f = IF s.link THEN Written(s, q) ELSE s
    <3>1. sendOpenResponseFailed(s, no) = IF s.link THEN Return(Written(s, q), Ok) ELSE Return(s, "WRITE")
      BY <1>r, <1>4, <2>5, ResponseQueued DEF sendOpenResponseFailed
    <3> QED BY <1>3, <2>3, <3>1
  <2>7. q \in PacketsOut
    BY <1>4, <2>5 DEF PacketsOut, Packet, AnswerTypes
  <2>8. /\ IsSession(f) /\ Entries(f) = Entries(s) /\ f.nextID = s.nextID /\ f.read = s.read /\ f.write = s.write
        /\ f.sendClosed = s.sendClosed
    <3>1. CASE s.link
      <4>1. f = [s EXCEPT !.out = Append(@, q)]
        BY <2>6, <3>1 DEF Written
      <4> QED BY <1>r, <2>7, <4>1, PacketWritten
    <3>2. CASE ~s.link
      BY <2>6, <3>2
    <3> QED BY <3>1, <3>2
  <2> QED BY <1>6, <1>8, <2>4, <2>8 DEF OpenPopped, Ok
<1>9. CASE ~(Len(s.chans) > MaxChannels)
  <2>1. PICK new : new = Channel(s.nextID, no, p.arg)
    OBVIOUS
  <2>2. /\ new \in Channels /\ new.id = s.nextID /\ new.no = no /\ new.active = FALSE
        /\ new = [id |-> s.nextID, no |-> no, type |-> "direct-tcpip", active |-> FALSE, writeClosed |-> FALSE,
                  windowCount |-> 0, windowSize |-> 0]
    BY <1>r, <1>4, <2>1 DEF Channel, Channels
  <2>3. PICK list : list = Append(s.chans, new)
    OBVIOUS
  <2>4. Unique(list) /\ Len(list) = Len(s.chans) + 1 /\ ToSet(list) = Entries(s) \cup {new}
    <3>1. Unique(s.chans) /\ Entries(s) = ToSet(s.chans)
      BY <1>r DEF IsRaw, Entries
    <3>2. \A c \in ToSet(s.chans) : c.no # new.no /\ c.id # new.id
      <4>1. ASSUME NEW c \in Entries(s) PROVE c.no # new.no /\ c.id # new.id
        <5>1. c.id < s.nextID /\ c.id \in Nat /\ c.no # p.no
          BY <1>r, EntryFacts
        <5> QED BY <1>r, <1>4, <2>2, <5>1
      <4> QED BY <3>1, <4>1
    <3>3. new \in Channels
      BY <2>2
    <3>4. Unique(list) /\ Len(list) = Len(s.chans) + 1 /\ ToSet(list) = ToSet(s.chans) \cup {new}
      BY <2>3, <3>1, <3>2, <3>3, ListAdded
    <3> QED BY <3>1, <3>4
  <2>5. PICK a : a = [s EXCEPT !.chans = list, !.nextID = @ + 1]
    OBVIOUS
  <2>6. /\ IsRaw(a) /\ a.chans = list /\ Entries(a) = Entries(s) \cup {new} /\ a.nextID = s.nextID + 1
        /\ a.read = s.read /\ a.write = s.write /\ a.out = s.out /\ a.sendClosed = s.sendClosed /\ a.link = s.link
    <3>1. list \in Seq(Channels) /\ s.nextID + 1 \in Nat \ {0}
      BY <1>r, <2>4 DEF Unique
    <3>2. /\ a \in Session /\ a.chans = list /\ a.nextID = s.nextID + 1
          /\ a.read = s.read /\ a.write = s.write /\ a.out = s.out /\ a.sendClosed = s.sendClosed /\ a.link = s.link
      <4> HIDE DEF Channels, PacketsOut
      <4> QED BY <1>r, <2>5, <3>1 DEF IsRaw, Session
    <3> QED BY <2>4, <3>2 DEF IsRaw, Entries
  <2>7. PICK b : b = [a EXCEPT !.read = new.id, !.write = new.id]
    OBVIOUS
  <2>8. /\ IsRaw(b) /\ b.chans = list /\ Entries(b) = Entries(s) \cup {new} /\ b.nextID = s.nextID + 1
        /\ b.read = s.nextID /\ b.write = s.nextID /\ b.out = s.out /\ b.sendClosed = s.sendClosed /\ b.link = s.link
    <3>1. new.id \in Nat
      BY <1>r, <2>2
    <3>2. /\ b \in Session /\ b.chans = list /\ b.nextID = a.nextID /\ b.read = new.id /\ b.write = new.id
          /\ b.out = a.out /\ b.sendClosed = a.sendClosed /\ b.link = a.link
      <4> HIDE DEF Channels, PacketsOut
      <4> QED BY <2>6, <2>7, <3>1 DEF IsRaw, Session
    <3> QED BY <2>2, <2>4, <2>6, <3>2 DEF IsRaw, Entries
  <2>9. added = Return(b, Ok)
    <3>1. findChannelAttr(a, no) = {new} /\ (CHOOSE x \in {new} : TRUE) = new
      BY <2>2, <2>6, Found
    <3>2. selectChannel(a, no, "NONE") = Return(b, Ok)
      BY <2>7, <3>1 DEF selectChannel
    <3>3. added = selectChannel(a, no, "NONE")
      <4>1. added = selectChannel([s EXCEPT !.chans = Append(@, Channel(s.nextID, no, p.arg)), !.nextID = @ + 1], no, "NONE")
        <5> HIDE DEF selectChannel, Channel
        <5> QED BY <1>5, <1>7, <1>9, Zenon DEF addChannel
      <4> QED BY <2>1, <2>3, <2>5, <4>1, Zenon
    <3> QED BY <3>2, <3>3
  <2>10. PICK q : q = Packet("OPEN_CONFIRMATION", no, WindowSize)
    OBVIOUS
  <2>11. q \in PacketsOut
    BY <1>4, <2>10, SshChannelAssumption DEF PacketsOut, Packet, AnswerTypes
  <2>12. PICK sent : sent = enqueueChannelData(b, "OPEN_CONFIRMATION", no, WindowSize)
    OBVIOUS
  <2>13. sent = IF s.link THEN Return(Written(b, q), Ok) ELSE Return(b, "WRITE")
    BY <1>4, <2>8, <2>10, <2>12, ResponseQueued
  <2>14. r = Confirmed(sent, no)
    BY <1>3, <1>5, <2>9, <2>12 DEF Added
  <2>15. CASE ~s.link
    <3>1. sent.s = b /\ sent.st = "WRITE"
      BY <1>3, <2>13, <2>15
    <3>2. r = Return(deleteChannel(b, no, "BOTH", TRUE).s, "WRITE")
      BY <2>14, <3>1 DEF Confirmed, Ok
    <3>3. PICK v : v = RemoveEntry(b, new.id)
      OBVIOUS
    <3>4. deleteChannel(b, no, "BOTH", TRUE).s = v
      <4>1. findChannelAttr(b, no) = {new} /\ (CHOOSE x \in {new} : TRUE) = new
        BY <2>2, <2>8, Found
      <4>2. deleteChannel(b, no, "BOTH", TRUE) = Return(v, IF isChannelActive(v, UnusedID) THEN Ok ELSE OkSpecial)
        <5> HIDE DEF Return, RemoveEntry
        <5> QED BY <3>3, <4>1 DEF deleteChannel
      <4> QED BY <1>3, <4>2
    <3>5. /\ IsRaw(v) /\ Entries(v) = Entries(b) \ {new} /\ v.nextID = b.nextID
          /\ v.read = UnusedID /\ v.write = UnusedID /\ v.sendClosed = b.sendClosed
      <4>1. new \in Entries(b)
        BY <2>8
      <4> QED BY <2>2, <2>8, <3>3, <4>1, EntryRemoved
    <3>6. new \notin Entries(s)
      BY <1>4, <2>2
    <3>7. Entries(v) = Entries(s)
      BY <2>8, <3>5, <3>6
    <3>8. IsSession(v)
      BY <3>5, <3>7 DEF IsSession
    <3>9. cryptPopData(s, p).s = v /\ cryptPopData(s, p).st = "WRITE"
      BY <1>3, <1>6, <3>2, <3>4 DEF Ok
    <3> QED BY <1>9, <2>8, <2>15, <3>5, <3>7, <3>8, <3>9 DEF OpenPopped
  <2>16. CASE s.link
    <3>1. PICK w : w = Written(b, q)
      OBVIOUS
    <3>2. sent.s = w /\ sent.st = Ok
      BY <1>3, <2>13, <2>16, <3>1
    <3>3. /\ IsRaw(w) /\ w.chans = b.chans /\ Entries(w) = Entries(b) /\ w.nextID = b.nextID
          /\ w.read = b.read /\ w.write = b.write
          /\ w.out = Append(b.out, q) /\ w.sendClosed = b.sendClosed /\ w.link = b.link
      <4>1. w = [b EXCEPT !.out = Append(@, q)]
        BY <3>1 DEF Written
      <4> QED BY <2>8, <2>11, <4>1, PacketWritten
    <3>4. PICK d1, d2, d3 : /\ d1 = [new EXCEPT !.active = TRUE] /\ d2 = [d1 EXCEPT !.windowSize = WindowSize]
                            /\ d3 = [d2 EXCEPT !.windowCount = WindowSize]
      OBVIOUS
    <3>5. WindowSize \in Nat \ {0}
      BY SshChannelAssumption
    <3>6. d1 \in Channels /\ d1.id = new.id /\ d1.no = no
      BY <2>2, <3>4 DEF Channels
    <3>7. d2 \in Channels /\ d2.id = new.id /\ d2.no = no /\ d2.active = TRUE
      BY <2>2, <3>4, <3>5 DEF Channels
    <3>8. d3 \in Channels /\ d3.id = new.id /\ d3.no = no /\ d3.active = TRUE /\ d3.windowSize = WindowSize
      BY <2>2, <3>4, <3>5 DEF Channels
    <3>9. d3 = NewChannel(s, p)
      BY <1>4, <2>1, <2>2, <3>4 DEF NewChannel, Channel
    <3>10. PICK t1, t2, t3 : /\ t1 = setChannelExtAttribute(w, "active", TRUE)
                             /\ t2 = setChannelExtAttribute(t1, "windowSize", WindowSize)
                             /\ t3 = setChannelExtAttribute(t2, "windowCount", WindowSize)
      OBVIOUS
    <3>11. /\ IsRaw(t1) /\ Entries(t1) = (Entries(w) \ {new}) \cup {d1} /\ Len(t1.chans) = Len(w.chans)
           /\ t1.nextID = w.nextID /\ t1.read = w.read /\ t1.write = w.write
           /\ t1.out = w.out /\ t1.sendClosed = w.sendClosed /\ t1.link = w.link
      <4>1. new \in Entries(w) /\ w.read = new.id
        BY <2>2, <2>8, <3>3
      <4>2. t1 = WithEntry(w, d1)
        <5>1. setChannelExtAttribute(w, "active", TRUE) = WithEntry(w, WithField(new, "active", TRUE))
          BY <3>3, <4>1, FieldSet
        <5>2. WithField(new, "active", TRUE) = d1
          BY <3>4 DEF WithField
        <5> QED BY <3>10, <5>1, <5>2
      <4> QED BY <2>2, <3>3, <3>6, <4>1, <4>2, WithEntryFacts
    <3>12. /\ IsRaw(t2) /\ Entries(t2) = (Entries(t1) \ {d1}) \cup {d2} /\ Len(t2.chans) = Len(t1.chans)
           /\ t2.nextID = t1.nextID /\ t2.read = t1.read /\ t2.write = t1.write
           /\ t2.out = t1.out /\ t2.sendClosed = t1.sendClosed /\ t2.link = t1.link
      <4>1. d1 \in Entries(t1) /\ t1.read = d1.id
        BY <2>2, <2>8, <3>3, <3>6, <3>11
      <4>2. t2 = WithEntry(t1, d2)
        <5>1. setChannelExtAttribute(t1, "windowSize", WindowSize) = WithEntry(t1, WithField(d1, "windowSize", WindowSize))
          BY <3>3, <3>11, <4>1, FieldSet
        <5>2. WithField(d1, "windowSize", WindowSize) = d2
          BY <3>4 DEF WithField
        <5> QED BY <3>10, <5>1, <5>2
      <4> QED BY <3>6, <3>7, <3>11, <4>1, <4>2, WithEntryFacts
    <3>13. /\ IsRaw(t3) /\ Entries(t3) = (Entries(t2) \ {d2}) \cup {d3} /\ Len(t3.chans) = Len(t2.chans)
           /\ t3.nextID = t2.nextID /\ t3.read = t2.read /\ t3.write = t2.write
           /\ t3.out = t2.out /\ t3.sendClosed = t2.sendClosed /\ t3.link = t2.link
      <4>1. d2 \in Entries(t2) /\ t2.read = d2.id
        BY <2>2, <2>8, <3>3, <3>7, <3>11, <3>12
      <4>2. t3 = WithEntry(t2, d3)
        <5>1. setChannelExtAttribute(t2, "windowCount", WindowSize) = WithEntry(t2, WithField(d2, "windowCount", WindowSize))
          BY <3>3, <3>12, <4>1, FieldSet
        <5>2. WithField(d2, "windowCount", WindowSize) = d3
          BY <3>4 DEF WithField
        <5> QED BY <3>10, <5>1, <5>2
      <4> QED BY <3>7, <3>8, <3>12, <4>1, <4>2, WithEntryFacts
    <3>14. new \notin Entries(s) /\ d1 \notin Entries(s) /\ d2 \notin Entries(s)
      BY <1>4, <2>2, <3>6, <3>7
    <3>15. Entries(t3) = Entries(s) \cup {d3}
      BY <2>8, <3>3, <3>11, <3>12, <3>13, <3>14
    <3>16. IsSession(t3)
      BY <3>8, <3>13, <3>15 DEF IsSession
    <3>17. t3.read = d3.id /\ t3.write = d3.id /\ d3 \in Entries(t3)
      BY <2>2, <2>8, <3>3, <3>8, <3>11, <3>12, <3>13, <3>15
    <3>18. r = Return(t3, Ok)
      <4>1. r = selectChannel(t3, no, "BOTH")
        BY <2>14, <3>2, <3>10 DEF Confirmed
      <4>2. findChannelAttr(t3, no) = {d3} /\ (CHOOSE x \in {d3} : TRUE) = d3
        BY <3>8, <3>13, <3>17, Found
      <4>3. [t3 EXCEPT !.read = d3.id, !.write = d3.id] = t3
        BY <3>13, <3>17 DEF IsRaw, Session
      <4> QED BY <3>8, <4>1, <4>2, <4>3 DEF selectChannel
    <3>19. cryptPopData(s, p).s = t3 /\ cryptPopData(s, p).st = EnvelopeResource
      BY <1>3, <1>6, <3>18
    <3>20. Len(t3.chans) = Len(s.chans) + 1
      BY <2>4, <2>8, <3>3, <3>11, <3>12, <3>13
    <3>21. /\ t3.nextID = s.nextID + 1 /\ t3.read = s.nextID /\ t3.write = s.nextID
           /\ t3.out = Append(s.out, q) /\ t3.sendClosed = s.sendClosed /\ t3.link = s.link
      BY <2>8, <3>3, <3>11, <3>12, <3>13
    <3> QED BY <1>4, <1>9, <2>10, <2>16, <3>9, <3>15, <3>16, <3>19, <3>20, <3>21 DEF OpenPopped
  <2> QED BY <2>15, <2>16
<1> QED BY <1>8, <1>9

-----------------------------------------------------------------------------
(* The end of the session. *)

\* The channels selected for reading and writing are there.
Selects(s) ==
  /\ s.read # UnusedID => \E c \in Entries(s) : c.id = s.read
  /\ s.write # UnusedID => \E c \in Entries(s) : c.id = s.write /\ ~c.writeClosed
Valid(s) == IsSession(s) /\ Selects(s)

\* What is left to say of a session that has ended.
Sound(s) ==
  /\ Unique(s.chans) /\ s.read \in Nat /\ s.write \in Nat /\ s.nextID \in Nat
  /\ Selects(s)

(* A channel that is closed already is only selected.                      *)
LEMMA CloseAgain ==
  ASSUME NEW s, IsSession(s), NEW c \in Entries(s), c.writeClosed
  PROVE  CloseChannel(s, c.id).s = [s EXCEPT !.write = c.id]
<1>r. IsRaw(s) /\ c.id \in Nat /\ c.no \in ChannelNos /\ c.no \in Nat
  BY EntryFacts DEF IsSession
<1>1. PICK w : w = [s EXCEPT !.write = c.id]
  OBVIOUS
<1>2. IsRaw(w) /\ IsSession(w) /\ w.write = c.id /\ Entries(w) = Entries(s)
  BY <1>r, <1>1, WriteSelected
<1>3. \A x, y : Return(x, y).s = x /\ Return(x, y).st = y
  BY DEF Return
<1>4. getCurrentChannelNo(w, "write") = c.no /\ c.no # NoChannel
  BY <1>2, <1>r, CurrentNo DEF NoChannel
<1>5. CloseChannel(s, c.id) = Closes(sendChannelClose(w, c.no, "write", FALSE))
  <2>1. setChannelAttribute(s, c.id) = Return(w, Ok)
    BY <1>1, SetWrite
  <2>2. CloseChannel(s, c.id) = closeChannel(w)
    BY <1>3, <2>1 DEF CloseChannel, ClosedFor
  <2> QED BY <1>4, <2>2 DEF closeChannel
<1>6. findChannelAttr(w, c.no) = {c} /\ (CHOOSE x \in {c} : TRUE) = c
  BY <1>2, Found
<1>7. PICK st : st \in {"PERMISSION", "INTERNAL"} /\ deleteChannel(w, c.no, "write", FALSE) = Return(w, st)
  <2>1. CASE isChannelActive(w, c.id)
    <3>1. deleteChannel(w, c.no, "write", FALSE) = Return(w, "INTERNAL")
      BY <1>6, <2>1 DEF deleteChannel
    <3> QED BY <3>1
  <2>2. CASE ~isChannelActive(w, c.id)
    <3>1. deleteChannel(w, c.no, "write", FALSE) = Return(w, "PERMISSION")
      BY <1>6, <2>2 DEF deleteChannel
    <3> QED BY <3>1
  <2> QED BY <2>1, <2>2
<1>8. sendChannelClose(w, c.no, "write", FALSE) = Return(w, st)
  <2>1. st \notin {Ok, OkSpecial}
    BY <1>7 DEF Ok, OkSpecial
  <2>2. sendChannelClose(w, c.no, "write", FALSE) = CloseMarked(Return(w, st), c.no)
    BY <1>7 DEF sendChannelClose
  <2>3. Return(w, st).st \notin {Ok, OkSpecial}
    BY <1>3, <2>1
  <2>4. CloseMarked(Return(w, st), c.no) = Return(w, st)
    <3> HIDE DEF Return
    <3> QED BY <2>3 DEF CloseMarked
  <2> QED BY <2>2, <2>4
<1>9. Closes(Return(w, st)).s = w
  BY <1>3 DEF Closes
<1> QED BY <1>1, <1>5, <1>8, <1>9

\* The session y is s after the close of the channel last read from.
ShutDownFrom(s, y) ==
  /\ IsSession(y) /\ y.read = s.read /\ y.sendClosed = s.sendClosed
  /\ \A c \in Entries(s) : \E d \in Entries(y) : d.id = c.id
  /\ y.write # UnusedID => \E c \in Entries(y) : c.id = y.write
  /\ Entries(s) = {} => y = s

(* The first half of ShutDown.                                             *)
LEMMA LastClosed ==
  ASSUME NEW s, Valid(s), NEW id
  PROVE  ShutDownFrom(s, CloseChannel(s, id).s)
<1>r. IsSession(s) /\ IsRaw(s) /\ Selects(s)
  BY DEF Valid, IsSession
<1>1. CASE \A c \in Entries(s) : c.id # id
  BY <1>r, <1>1, CloseOff DEF ShutDownFrom, Selects
<1>2. ASSUME NEW c \in Entries(s), c.id = id PROVE ShutDownFrom(s, CloseChannel(s, id).s)
  <2>1. c.id \in Nat
    BY <1>r, EntryFacts
  <2>2. ASSUME CloseChannel(s, c.id).s = [s EXCEPT !.write = c.id] PROVE ShutDownFrom(s, CloseChannel(s, id).s)
    <3>1. PICK y : y = [s EXCEPT !.write = c.id]
      OBVIOUS
    <3>2. IsSession(y) /\ Entries(y) = Entries(s) /\ y.read = s.read /\ y.write = c.id /\ y.sendClosed = s.sendClosed
      BY <1>r, <2>1, <3>1, WriteSelected
    <3>3. Entries(s) # {}
      OBVIOUS
    <3>4. ShutDownFrom(s, y)
      BY <3>2, <3>3 DEF ShutDownFrom
    <3> QED BY <1>2, <2>2, <3>1, <3>4
  <2>3. CASE c.writeClosed
    BY <1>r, <2>2, <2>3, CloseAgain
  <2>4. CASE ~c.writeClosed /\ ~\E d \in Entries(s) : d.id # c.id
    BY <1>r, <2>2, <2>4, CloseOn
  <2>5. CASE ~c.writeClosed /\ \E d \in Entries(s) : d.id # c.id
    <3>1. PICK y, e : y = CloseChannel(s, c.id).s /\ e = [c EXCEPT !.writeClosed = TRUE]
      OBVIOUS
    <3>2. ClosedFrom(s, c, y)
      BY <1>r, <2>5, <3>1, CloseOn
    <3>3. e.id = c.id
      BY <1>r, <3>1, EntryFacts DEF Channels
    <3>4. IsSession(y) /\ Entries(y) = (Entries(s) \ {c}) \cup {e} /\ y.read = s.read /\ y.write = UnusedID
          /\ y.sendClosed = s.sendClosed
      BY <3>1, <3>2 DEF ClosedFrom
    <3>5. ASSUME NEW x \in Entries(s) PROVE \E d \in Entries(y) : d.id = x.id
      BY <3>3, <3>4
    <3> QED BY <1>2, <3>1, <3>4, <3>5 DEF ShutDownFrom
  <2> QED BY <2>3, <2>4, <2>5
<1> QED BY <1>1, <1>2

(* What a session is after ShutDown.                                       *)
LEMMA ShutDownSound ==
  ASSUME NEW s, Valid(s), s.sendClosed = TRUE => Entries(s) = {}
  PROVE  Sound(ShutDown(s)) /\ (Entries(s) = {} => ToSet(ShutDown(s).chans) = {})
<1>r. IsSession(s) /\ IsRaw(s) /\ Selects(s)
  BY DEF Valid, IsSession
<1>1. PICK y : ShutDownFrom(s, y) /\ ShutDown(s) = closeAllChannels(y)
  BY LastClosed DEF ShutDown, shutdownFunction
<1>2. /\ IsSession(y) /\ IsRaw(y) /\ Unique(y.chans) /\ y.read \in Nat /\ y.write \in Nat /\ y.nextID \in Nat
      /\ y.read # UnusedID => \E c \in Entries(y) : c.id = y.read
      /\ y.write # UnusedID => \E c \in Entries(y) : c.id = y.write
      /\ Entries(s) = {} => y = s
      /\ y.sendClosed \in BOOLEAN /\ y.sendClosed = s.sendClosed
  <2>1. IsSession(y) /\ IsRaw(y)
    BY <1>1 DEF ShutDownFrom, IsSession
  <2>2. Unique(y.chans) /\ y.read \in Nat /\ y.write \in Nat /\ y.nextID \in Nat /\ y.sendClosed \in BOOLEAN
    BY <2>1 DEF IsRaw, Session
  <2>3. y.read # UnusedID => \E c \in Entries(y) : c.id = y.read
    BY <1>1, <1>r DEF ShutDownFrom, Selects
  <2> QED BY <1>1, <2>1, <2>2, <2>3 DEF ShutDownFrom
<1>3. CASE y.sendClosed
  <2>1. y = s /\ closeAllChannels(y) = y
    BY <1>2, <1>3 DEF closeAllChannels
  <2>2. Sound(s)
    BY <1>r, <1>2, <2>1 DEF Sound
  <2> QED BY <1>1, <2>1, <2>2 DEF Entries
<1>4. CASE ~y.sendClosed /\ getCurrentChannelNo(y, "write") = NoChannel
  <2>1. PICK o, z : /\ o = y.out \o (IF y.link THEN <<Packet("DISCONNECT", 0, 0)>> ELSE <<>>)
                    /\ z = [y EXCEPT !.sendClosed = TRUE, !.out = o]
    BY Zenon
  <2>2. closeAllChannels(y) = z
    BY <1>4, <2>1 DEF closeAllChannels
  <2>3. z.chans = y.chans /\ z.read = y.read /\ z.write = y.write /\ z.nextID = y.nextID
    BY <1>2, <2>1 DEF IsRaw, Session
  <2>4. y.write = UnusedID
    <3>1. ASSUME NEW c \in Entries(y), c.id = y.write PROVE FALSE
      <4>1. getCurrentChannelNo(y, "write") = c.no /\ c.no \in Nat
        BY <1>2, <3>1, CurrentNo, EntryFacts
      <4> QED BY <1>4, <4>1 DEF NoChannel
    <3> QED BY <1>2, <3>1
  <2>5. Sound(z)
    BY <1>2, <2>3, <2>4 DEF Sound, Selects, Entries
  <2> QED BY <1>1, <1>2, <2>2, <2>3, <2>5 DEF Entries
<1>5. CASE ~y.sendClosed /\ getCurrentChannelNo(y, "write") # NoChannel
  <2>1. PICK list, new : list = y.chans /\ new = [i \in DOMAIN list |-> [list[i] EXCEPT !.writeClosed = TRUE]]
    BY Zenon
  <2>2. PICK o, z : /\ z = [y EXCEPT !.chans = new, !.write = UnusedID, !.out = o]
                    /\ closeAllChannels(y) = z
    BY <1>5, <2>1, Zenon DEF closeAllChannels
  <2>3. z.chans = new /\ z.read = y.read /\ z.write = UnusedID /\ z.nextID = y.nextID
    BY <1>2, <2>2 DEF IsRaw, Session
  <2>4. /\ Len(list) \in Nat /\ DOMAIN list = 1..Len(list)
        /\ \A i \in DOMAIN list : list[i] \in ToSet(list) /\ list[i] \in Channels
    BY <1>2, <2>1, ListFacts
  <2>5. \A i \in DOMAIN list : new[i] \in Channels /\ new[i].id = list[i].id /\ new[i].no = list[i].no
    <3>1. ASSUME NEW i \in DOMAIN list PROVE new[i] \in Channels /\ new[i].id = list[i].id /\ new[i].no = list[i].no
      <4>1. PICK c \in Channels : c = list[i]
        BY <2>4
      <4>2. new[i] = [c EXCEPT !.writeClosed = TRUE]
        BY <2>1, <4>1
      <4> QED BY <4>1, <4>2 DEF Channels
    <3> QED BY <3>1
  <2>6. new \in Seq(Channels) /\ DOMAIN new = DOMAIN list
    <3>1. DOMAIN new = 1..Len(list) /\ \A i \in 1..Len(list) : new[i] \in Channels
      BY <2>1, <2>4, <2>5
    <3>2. new = [i \in 1..Len(list) |-> new[i]]
      BY <2>1, <2>4
    <3>3. new \in [1..Len(list) -> Channels]
      BY <3>1, <3>2
    <3> QED BY <2>4, <3>1, <3>3, SeqDef
  <2>7. Unique(new)
    BY <1>2, <2>1, <2>5, <2>6 DEF Unique
  <2>8. \A x : x \in ToSet(new) <=> \E i \in DOMAIN new : new[i] = x
    BY <2>7, ListFacts
  <2>9. \A x \in ToSet(list) : \E i \in DOMAIN list : list[i] = x
    BY <1>2, <2>1, ListFacts
  <2>10. y.read # UnusedID => \E c \in ToSet(new) : c.id = y.read
    <3>1. ASSUME y.read # UnusedID PROVE \E c \in ToSet(new) : c.id = y.read
      <4>1. PICK x \in ToSet(list) : x.id = y.read
        BY <1>2, <2>1, <3>1 DEF Entries
      <4>2. PICK i \in DOMAIN list : list[i] = x
        BY <2>9
      <4>3. new[i] \in ToSet(new) /\ new[i].id = y.read
        BY <2>5, <2>6, <2>8, <4>1, <4>2
      <4> QED BY <4>3
    <3> QED BY <3>1
  <2>11. Sound(z)
    <3>1. UnusedID \in Nat
      BY DEF UnusedID
    <3> QED BY <1>2, <2>3, <2>7, <2>10, <3>1 DEF Sound, Selects, Entries
  <2>12. Entries(s) = {} => ToSet(new) = {}
    <3>1. ASSUME Entries(s) = {} PROVE DOMAIN list = {}
      <4>1. y = s
        BY <1>2, <3>1
      <4> QED BY <2>1, <2>4, <3>1, <4>1 DEF Entries
    <3> QED BY <2>6, <2>8, <3>1
  <2> QED BY <1>1, <2>2, <2>3, <2>11, <2>12
<1> QED BY <1>2, <1>3, <1>4, <1>5

-----------------------------------------------------------------------------
(* What is in flight for one channel number, and what the two sides take    *)
(* the number for.                                                         *)

\* Nothing follows CLOSE but OPEN, and no data follows EOF.
QueueOrder(q) ==
  \A i, j \in DOMAIN q : i < j /\ q[i].no = q[j].no =>
    /\ q[i].type # "OPEN"
    /\ q[i].type = "CLOSE" => q[j].type = "OPEN"
    /\ q[i].type = "EOF" => q[j].type \notin {"DATA", "EOF"}

\* A channel is confirmed first and closed last, and confirmed only after the
\* peer has received what was sent on its number before.
OutOrder(o) ==
  \A i, j \in DOMAIN o : i < j /\ o[i].no = o[j].no =>
    /\ o[i].type = "CLOSE" => o[j].type \notin {"DATA", "CLOSE", "OPEN_CONFIRMATION"}
    /\ o[j].type = "OPEN_CONFIRMATION" => o[i].type \notin {"DATA", "CLOSE", "OPEN_CONFIRMATION"}
    /\ o[i].type = "OPEN_CONFIRMATION" => o[j].type # "ADJUST"

\* The server may send on the channel.
Open(es) == \E c \in es : ~c.writeClosed

\* For the number no: es is what the channel list holds of it, q and o what is
\* in flight to the server and from it, w the peer's view.  This holds whether
\* the link is there or not.
AlwaysInv(no, es, q, w) ==
  /\ Has(q, "EOF", no) => w.sentEof
  /\ es = {} /\ HasAny(q, no) => w.sentEof
  /\ Has(q, "OPEN", no) => w.state = "opening"
  /\ Has(q, "OPEN", no) /\ (es # {} \/ w.sentEof) => Has(q, "CLOSE", no)
  /\ w.sentEof /\ ~Has(q, "EOF", no) => es = {}
  /\ Has(q, "CLOSE", no) => w.sentClose \/ w.state # "open"
  /\ \A c \in es : /\ Bytes(q, "DATA", no) <= c.windowCount /\ c.windowCount <= WindowSize
                   /\ c.windowCount >= WindowSize \div 2

\* And this as long as the link is there.
LinkInv(no, es, o, q, w) ==
  /\ w.state = "open" /\ ~w.sentClose => es # {} \/ w.sentEof
  /\ w.state = "none" /\ (es # {} \/ w.sentEof) => Has(q, "CLOSE", no)
  /\ w.sentClose /\ (es # {} \/ w.sentEof) => Has(q, "CLOSE", no)
  /\ w.gotClose => ~Open(es)
  /\ w.sentClose \/ w.gotClose => w.state = "open"
  /\ Has(o, "OPEN_CONFIRMATION", no) =>
       /\ es # {} /\ w.state = "opening" /\ ~HasAny(q, no) /\ ~Has(q, "OPEN", no)
       /\ \A c \in es : c.windowCount = WindowSize
       /\ ~Has(o, "CLOSE", no) => Open(es)
  /\ Has(o, "CLOSE", no) => ~Open(es)
  /\ Has(o, "CLOSE", no) \/ Has(o, "DATA", no) =>
       Has(o, "OPEN_CONFIRMATION", no) \/ (w.state = "open" /\ ~w.gotClose)
  /\ w.state = "open" /\ ~w.sentClose /\ ~w.gotClose /\ ~Has(o, "CLOSE", no) => Open(es)
  /\ Open(es) => w.state = "open" \/ Has(o, "OPEN_CONFIRMATION", no)
  /\ w.state = "open" => \A c \in es : c.windowCount = w.credit + Bytes(q, "DATA", no) + Bytes(o, "ADJUST", no)

\* Both for one number.
NumberInv(no, es, o, q, w, link) == AlwaysInv(no, es, q, w) /\ (link => LinkInv(no, es, o, q, w))

\* The replies the peer waits for are on their way, or their requests are.
Owed(s, q, v) == Awaited(v) = ToAnswer(q) + Answers(s.out)

\* The packets in flight fit the two views.
LinkOK(s, q, v) ==
  /\ q \in Seq(PacketsIn) /\ v \in [ChannelNos -> Views]
  /\ QueueOrder(q) /\ OutOrder(s.out) /\ \A no \in ChannelNos : ~Has(s.out, "OPEN_FAILURE", no)
  /\ \A no \in ChannelNos : NumberInv(no, findChannelAttr(s, no), s.out, q, v[no], s.link)
  /\ s.link => Owed(s, q, v)

\* What is in flight says the same of the number.
SameIn(q, q2, no) ==
  /\ \A type \in {"EOF", "OPEN", "CLOSE"} : Has(q, type, no) <=> Has(q2, type, no)
  /\ HasAny(q, no) <=> HasAny(q2, no)
  /\ Bytes(q, "DATA", no) = Bytes(q2, "DATA", no)
SameOut(o, o2, no) ==
  /\ \A type \in {"OPEN_CONFIRMATION", "DATA", "CLOSE"} : Has(o, type, no) <=> Has(o2, type, no)
  /\ Bytes(o, "ADJUST", no) = Bytes(o2, "ADJUST", no)

(* Nothing else of the queues matters.                                     *)
LEMMA NumberFrame ==
  ASSUME NEW no, NEW es, NEW o, NEW q, NEW w, NEW link \in BOOLEAN, NumberInv(no, es, o, q, w, link),
         NEW o2, NEW q2, NEW link2 \in BOOLEAN, link2 => link, SameIn(q, q2, no), link2 => SameOut(o, o2, no)
  PROVE  NumberInv(no, es, o2, q2, w, link2)
<1>1. AlwaysInv(no, es, q2, w)
  BY DEF NumberInv, AlwaysInv, SameIn
<1>2. link2 => LinkInv(no, es, o2, q2, w)
  BY DEF NumberInv, LinkInv, SameIn, SameOut
<1> QED BY <1>1, <1>2 DEF NumberInv

(* Packets that carry data have a number of bytes.                         *)
LEMMA PacketFacts ==
  /\ \A q \in Seq(PacketsIn) : HasBytes(q, "DATA")
  /\ \A o \in Seq(PacketsOut) : HasBytes(o, "ADJUST")
<1>1. ASSUME NEW q \in Seq(PacketsIn) PROVE HasBytes(q, "DATA")
  <2>1. \A i \in DOMAIN q : q[i] \in PacketsIn
    BY LenProperties
  <2>2. \A p \in PacketsIn : p.type = "DATA" => p.arg \in Nat
    BY SshChannelAssumption DEF PacketsIn
  <2> QED BY <2>1, <2>2 DEF HasBytes
<1>2. ASSUME NEW o \in Seq(PacketsOut) PROVE HasBytes(o, "ADJUST")
  <2>1. \A i \in DOMAIN o : o[i] \in PacketsOut
    BY LenProperties
  <2>2. \A p \in PacketsOut : p.arg \in Nat
    BY DEF PacketsOut
  <2> QED BY <2>1, <2>2 DEF HasBytes
<1> QED BY <1>1, <1>2

(* What is in flight after one more packet.                                *)
LEMMA InAppend ==
  ASSUME NEW q \in Seq(PacketsIn), NEW p \in PacketsIn, NEW q2, q2 = Append(q, p)
  PROVE  /\ q2 \in Seq(PacketsIn)
         /\ \A type, no : Has(q2, type, no) <=> Has(q, type, no) \/ (p.type = type /\ p.no = no)
         /\ \A no : HasAny(q2, no) <=> HasAny(q, no) \/ (p.type # "OPEN" /\ p.no = no)
         /\ \A no : /\ Bytes(q, "DATA", no) \in Nat
                    /\ Bytes(q2, "DATA", no) = Bytes(q, "DATA", no) + IF p.type = "DATA" /\ p.no = no THEN DataLen ELSE 0
         /\ \A no : p.no # no => SameIn(q, q2, no)
<1>1. q2 \in Seq(PacketsIn)
  BY AppendFacts
<1>2. \A type, no : Has(q2, type, no) <=> Has(q, type, no) \/ (p.type = type /\ p.no = no)
  BY HasAppend
<1>3. \A no : HasAny(q2, no) <=> HasAny(q, no) \/ (p.type # "OPEN" /\ p.no = no)
  BY HasAppend
<1>4. p.type = "DATA" => p.arg = DataLen
  BY DEF PacketsIn
<1>5. ASSUME NEW no PROVE /\ Bytes(q, "DATA", no) \in Nat
                          /\ Bytes(q2, "DATA", no) = Bytes(q, "DATA", no) + IF p.type = "DATA" /\ p.no = no THEN DataLen ELSE 0
  <2>1. HasBytes(Append(q, p), "DATA")
    BY <1>1, PacketFacts
  <2>2. /\ Bytes(q, "DATA", no) \in Nat
        /\ Bytes(Append(q, p), "DATA", no) = Bytes(q, "DATA", no) + IF p.type = "DATA" /\ p.no = no THEN p.arg ELSE 0
    BY <2>1, BytesAppend
  <2> QED BY <1>4, <2>2
<1>6. ASSUME NEW no, p.no # no PROVE SameIn(q, q2, no)
  BY <1>2, <1>3, <1>5, <1>6 DEF SameIn
<1> QED BY <1>1, <1>2, <1>3, <1>5, <1>6

(* The same in the other direction.                                        *)
LEMMA OutAppend ==
  ASSUME NEW o \in Seq(PacketsOut), NEW p \in PacketsOut, NEW o2, o2 = Append(o, p)
  PROVE  /\ o2 \in Seq(PacketsOut)
         /\ \A type, no : Has(o2, type, no) <=> Has(o, type, no) \/ (p.type = type /\ p.no = no)
         /\ \A no : /\ Bytes(o, "ADJUST", no) \in Nat
                    /\ Bytes(o2, "ADJUST", no) = Bytes(o, "ADJUST", no) + IF p.type = "ADJUST" /\ p.no = no THEN p.arg ELSE 0
         /\ \A no : p.no # no \/ p.type \in {"SUCCESS", "FAILURE"} => SameOut(o, o2, no)
<1>1. o2 \in Seq(PacketsOut)
  BY AppendFacts
<1>2. \A type, no : Has(o2, type, no) <=> Has(o, type, no) \/ (p.type = type /\ p.no = no)
  BY HasAppend
<1>5. ASSUME NEW no PROVE /\ Bytes(o, "ADJUST", no) \in Nat
                          /\ Bytes(o2, "ADJUST", no) = Bytes(o, "ADJUST", no) + IF p.type = "ADJUST" /\ p.no = no THEN p.arg ELSE 0
  <2>1. HasBytes(Append(o, p), "ADJUST")
    BY <1>1, PacketFacts
  <2> QED BY <2>1, BytesAppend
<1>6. ASSUME NEW no, p.no # no \/ p.type \in {"SUCCESS", "FAILURE"} PROVE SameOut(o, o2, no)
  BY <1>2, <1>5, <1>6 DEF SameOut
<1> QED BY <1>1, <1>2, <1>5, <1>6

(* Only ADJUST counts.                                                     *)
LEMMA OutAppendOther ==
  ASSUME NEW o \in Seq(PacketsOut), NEW p \in PacketsOut, NEW o2, o2 = Append(o, p), p.type # "ADJUST"
  PROVE  \A no : Bytes(o2, "ADJUST", no) = Bytes(o, "ADJUST", no)
<1>1. ASSUME NEW no PROVE Bytes(o2, "ADJUST", no) = Bytes(o, "ADJUST", no)
  <2>1. /\ Bytes(o, "ADJUST", no) \in Nat
        /\ Bytes(o2, "ADJUST", no) = Bytes(o, "ADJUST", no) + IF p.type = "ADJUST" /\ p.no = no THEN p.arg ELSE 0
    <3>1. HasBytes(Append(o, p), "ADJUST")
      BY AppendFacts, PacketFacts
    <3> QED BY <3>1, BytesAppend
  <2> QED BY <2>1
<1> QED BY <1>1

(* What was in flight before the first packet was taken.                   *)
LEMMA InTail ==
  ASSUME NEW q \in Seq(PacketsIn), q # <<>>, NEW p, p = Head(q), NEW q2, q2 = Tail(q)
  PROVE  /\ q2 \in Seq(PacketsIn) /\ p \in PacketsIn
         /\ \A type, no : Has(q, type, no) <=> Has(q2, type, no) \/ (p.type = type /\ p.no = no)
         /\ \A no : HasAny(q, no) <=> HasAny(q2, no) \/ (p.type # "OPEN" /\ p.no = no)
         /\ \A no : /\ Bytes(q2, "DATA", no) \in Nat
                    /\ Bytes(q, "DATA", no) = Bytes(q2, "DATA", no) + IF p.type = "DATA" /\ p.no = no THEN DataLen ELSE 0
         /\ \A no : p.no # no => SameIn(q, q2, no)
<1>1. q2 \in Seq(PacketsIn) /\ p \in PacketsIn
  BY TailFacts
<1>2. \A type, no : Has(q, type, no) <=> Has(q2, type, no) \/ (p.type = type /\ p.no = no)
  BY HasTail
<1>3. \A no : HasAny(q, no) <=> HasAny(q2, no) \/ (p.type # "OPEN" /\ p.no = no)
  BY HasTail
<1>4. p.type = "DATA" => p.arg = DataLen
  BY <1>1 DEF PacketsIn
<1>5. ASSUME NEW no PROVE /\ Bytes(q2, "DATA", no) \in Nat
                          /\ Bytes(q, "DATA", no) = Bytes(q2, "DATA", no) + IF p.type = "DATA" /\ p.no = no THEN DataLen ELSE 0
  <2>1. HasBytes(q, "DATA")
    BY PacketFacts
  <2>2. /\ Bytes(Tail(q), "DATA", no) \in Nat
        /\ Bytes(q, "DATA", no) = Bytes(Tail(q), "DATA", no) + IF Head(q).type = "DATA" /\ Head(q).no = no THEN Head(q).arg ELSE 0
    BY <2>1, BytesTail
  <2> QED BY <1>4, <2>2
<1>6. ASSUME NEW no, p.no # no PROVE SameIn(q, q2, no)
  BY <1>2, <1>3, <1>5, <1>6 DEF SameIn
<1> QED BY <1>1, <1>2, <1>3, <1>5, <1>6

(* The same in the other direction.                                        *)
LEMMA OutTail ==
  ASSUME NEW o \in Seq(PacketsOut), o # <<>>, NEW p, p = Head(o), NEW o2, o2 = Tail(o)
  PROVE  /\ o2 \in Seq(PacketsOut) /\ p \in PacketsOut
         /\ \A type, no : Has(o, type, no) <=> Has(o2, type, no) \/ (p.type = type /\ p.no = no)
         /\ \A no : /\ Bytes(o2, "ADJUST", no) \in Nat
                    /\ Bytes(o, "ADJUST", no) = Bytes(o2, "ADJUST", no) + IF p.type = "ADJUST" /\ p.no = no THEN p.arg ELSE 0
         /\ \A no : p.no # no \/ p.type \in {"SUCCESS", "FAILURE"} => SameOut(o, o2, no)
<1>1. o2 \in Seq(PacketsOut) /\ p \in PacketsOut
  BY TailFacts
<1>2. \A type, no : Has(o, type, no) <=> Has(o2, type, no) \/ (p.type = type /\ p.no = no)
  BY HasTail
<1>5. ASSUME NEW no PROVE /\ Bytes(o2, "ADJUST", no) \in Nat
                          /\ Bytes(o, "ADJUST", no) = Bytes(o2, "ADJUST", no) + IF p.type = "ADJUST" /\ p.no = no THEN p.arg ELSE 0
  <2>1. HasBytes(o, "ADJUST")
    BY PacketFacts
  <2> QED BY <2>1, BytesTail
<1>6. ASSUME NEW no, p.no # no \/ p.type \in {"SUCCESS", "FAILURE"} PROVE SameOut(o, o2, no)
  BY <1>2, <1>5, <1>6 DEF SameOut
<1> QED BY <1>1, <1>2, <1>5, <1>6

(* The order in the queue of the server, when a packet is added.           *)
LEMMA QueueOrderAppend ==
  ASSUME NEW q \in Seq(PacketsIn), QueueOrder(q), NEW p \in PacketsIn, NEW q2, q2 = Append(q, p),
         ~Has(q, "OPEN", p.no), Has(q, "CLOSE", p.no) => p.type = "OPEN",
         Has(q, "EOF", p.no) => p.type \notin {"DATA", "EOF"}
  PROVE  QueueOrder(q2)
<1>1. /\ Len(q) \in Nat /\ DOMAIN q = 1..Len(q) /\ DOMAIN q2 = 1..(Len(q) + 1)
      /\ (\A i \in 1..Len(q) : q2[i] = q[i]) /\ q2[Len(q) + 1] = p
  BY AppendFacts
<1>2. SUFFICES ASSUME NEW i \in DOMAIN q2, NEW j \in DOMAIN q2, i < j, q2[i].no = q2[j].no
               PROVE  /\ q2[i].type # "OPEN"
                      /\ q2[i].type = "CLOSE" => q2[j].type = "OPEN"
                      /\ q2[i].type = "EOF" => q2[j].type \notin {"DATA", "EOF"}
  BY DEF QueueOrder
<1>3. i \in DOMAIN q /\ q2[i] = q[i]
  BY <1>1, <1>2
<1>4. CASE j = Len(q) + 1
  BY <1>1, <1>2, <1>3, <1>4 DEF Has
<1>5. CASE j # Len(q) + 1
  <2>1. j \in DOMAIN q /\ q2[j] = q[j]
    BY <1>1, <1>5
  <2> QED BY <1>2, <1>3, <2>1 DEF QueueOrder
<1> QED BY <1>4, <1>5

(* When the first is taken.                                                *)
LEMMA QueueOrderTail ==
  ASSUME NEW q \in Seq(PacketsIn), q # <<>>, QueueOrder(q), NEW p, p = Head(q), NEW q2, q2 = Tail(q)
  PROVE  /\ QueueOrder(q2)
         /\ p.type = "OPEN" => ~HasAny(q2, p.no) /\ \A type : ~Has(q2, type, p.no)
         /\ p.type = "CLOSE" => ~HasAny(q2, p.no) /\ \A type : type # "OPEN" => ~Has(q2, type, p.no)
         /\ p.type = "EOF" => ~Has(q2, "DATA", p.no) /\ ~Has(q2, "EOF", p.no)
<1>1. /\ Len(q2) \in Nat /\ DOMAIN q = 1..(Len(q2) + 1) /\ DOMAIN q2 = 1..Len(q2)
      /\ (\A i \in 1..Len(q2) : q2[i] = q[i + 1]) /\ q[1] = p
  BY TailFacts
<1>2. QueueOrder(q2)
  <2>1. \A i, j \in DOMAIN q2 : i < j => i + 1 < j + 1 /\ i + 1 \in DOMAIN q /\ j + 1 \in DOMAIN q
    BY <1>1
  <2> QED BY <1>1, <2>1 DEF QueueOrder
<1>3. ASSUME NEW i \in DOMAIN q2, q2[i].no = p.no
      PROVE  /\ p.type # "OPEN"
             /\ p.type = "CLOSE" => q2[i].type = "OPEN"
             /\ p.type = "EOF" => q2[i].type \notin {"DATA", "EOF"}
  <2>1. 1 \in DOMAIN q /\ i + 1 \in DOMAIN q /\ 1 < i + 1 /\ q2[i] = q[i + 1]
    BY <1>1
  <2> QED BY <1>1, <1>3, <2>1 DEF QueueOrder
<1> QED BY <1>2, <1>3 DEF Has, HasAny

(* The order in the queue of the peer, when a packet is added.             *)
LEMMA OutOrderAppend ==
  ASSUME NEW q \in Seq(PacketsOut), OutOrder(q), NEW p \in PacketsOut, NEW q2, q2 = Append(q, p),
         Has(q, "CLOSE", p.no) => p.type \notin {"DATA", "CLOSE", "OPEN_CONFIRMATION"},
         p.type = "OPEN_CONFIRMATION" =>
           ~Has(q, "DATA", p.no) /\ ~Has(q, "CLOSE", p.no) /\ ~Has(q, "OPEN_CONFIRMATION", p.no),
         Has(q, "OPEN_CONFIRMATION", p.no) => p.type # "ADJUST"
  PROVE  OutOrder(q2)
<1>1. /\ Len(q) \in Nat /\ DOMAIN q = 1..Len(q) /\ DOMAIN q2 = 1..(Len(q) + 1)
      /\ (\A i \in 1..Len(q) : q2[i] = q[i]) /\ q2[Len(q) + 1] = p
  BY AppendFacts
<1>2. SUFFICES ASSUME NEW i \in DOMAIN q2, NEW j \in DOMAIN q2, i < j, q2[i].no = q2[j].no
               PROVE  /\ q2[i].type = "CLOSE" => q2[j].type \notin {"DATA", "CLOSE", "OPEN_CONFIRMATION"}
                      /\ q2[j].type = "OPEN_CONFIRMATION" => q2[i].type \notin {"DATA", "CLOSE", "OPEN_CONFIRMATION"}
                      /\ q2[i].type = "OPEN_CONFIRMATION" => q2[j].type # "ADJUST"
  BY DEF OutOrder
<1>3. i \in DOMAIN q /\ q2[i] = q[i]
  BY <1>1, <1>2
<1>4. CASE j = Len(q) + 1
  <2>1. q2[j] = p /\ q[i].no = p.no
    BY <1>1, <1>2, <1>3, <1>4
  <2>2. \A type : q[i].type = type => Has(q, type, p.no)
    BY <1>3, <2>1 DEF Has
  <2> QED BY <1>3, <2>1, <2>2
<1>5. CASE j # Len(q) + 1
  <2>1. j \in DOMAIN q /\ q2[j] = q[j]
    BY <1>1, <1>5
  <2> QED BY <1>2, <1>3, <2>1 DEF OutOrder
<1> QED BY <1>4, <1>5

(* When the first is received.                                             *)
LEMMA OutOrderTail ==
  ASSUME NEW q \in Seq(PacketsOut), q # <<>>, OutOrder(q), NEW p, p = Head(q), NEW q2, q2 = Tail(q)
  PROVE  /\ OutOrder(q2)
         /\ p.type = "CLOSE" => ~Has(q2, "DATA", p.no) /\ ~Has(q2, "CLOSE", p.no) /\ ~Has(q2, "OPEN_CONFIRMATION", p.no)
         /\ p.type \in {"DATA", "OPEN_CONFIRMATION"} => ~Has(q2, "OPEN_CONFIRMATION", p.no)
         /\ p.type = "OPEN_CONFIRMATION" => ~Has(q2, "ADJUST", p.no)
<1>1. /\ Len(q2) \in Nat /\ DOMAIN q = 1..(Len(q2) + 1) /\ DOMAIN q2 = 1..Len(q2)
      /\ (\A i \in 1..Len(q2) : q2[i] = q[i + 1]) /\ q[1] = p
  BY TailFacts
<1>2. OutOrder(q2)
  <2>1. \A i, j \in DOMAIN q2 : i < j => i + 1 < j + 1 /\ i + 1 \in DOMAIN q /\ j + 1 \in DOMAIN q
    BY <1>1
  <2> QED BY <1>1, <2>1 DEF OutOrder
<1>3. ASSUME NEW i \in DOMAIN q2, q2[i].no = p.no
      PROVE  /\ p.type = "CLOSE" => q2[i].type \notin {"DATA", "CLOSE", "OPEN_CONFIRMATION"}
             /\ q2[i].type = "OPEN_CONFIRMATION" => p.type \notin {"DATA", "CLOSE", "OPEN_CONFIRMATION"}
             /\ p.type = "OPEN_CONFIRMATION" => q2[i].type # "ADJUST"
  <2>1. 1 \in DOMAIN q /\ i + 1 \in DOMAIN q /\ 1 < i + 1 /\ q2[i] = q[i + 1]
    BY <1>1
  <2> QED BY <1>1, <1>3, <2>1 DEF OutOrder
<1> QED BY <1>2, <1>3 DEF Has

(* The entries of a number: when one is changed, removed or added.         *)
LEMMA SliceFacts ==
  ASSUME NEW s, IsRaw(s), NEW c \in Entries(s)
  PROVE  /\ findChannelAttr(s, c.no) = {c}
         /\ \A t, d : d.no = c.no /\ Entries(t) = (Entries(s) \ {c}) \cup {d} =>
              /\ findChannelAttr(t, c.no) = {d}
              /\ \A no : no # c.no => findChannelAttr(t, no) = findChannelAttr(s, no)
         /\ \A t : Entries(t) = Entries(s) \ {c} =>
              /\ findChannelAttr(t, c.no) = {}
              /\ \A no : no # c.no => findChannelAttr(t, no) = findChannelAttr(s, no)
<1>1. \A d \in Entries(s) : d.no = c.no => d = c
  BY EntryFacts
<1>2. ASSUME NEW t, NEW d, d.no = c.no, Entries(t) = (Entries(s) \ {c}) \cup {d}
      PROVE  /\ findChannelAttr(t, c.no) = {d}
             /\ \A no : no # c.no => findChannelAttr(t, no) = findChannelAttr(s, no)
  BY <1>1, <1>2 DEF findChannelAttr
<1>3. ASSUME NEW t, Entries(t) = Entries(s) \ {c}
      PROVE  /\ findChannelAttr(t, c.no) = {}
             /\ \A no : no # c.no => findChannelAttr(t, no) = findChannelAttr(s, no)
  BY <1>1, <1>3 DEF findChannelAttr
<1> QED BY <1>1, <1>2, <1>3, Found

-----------------------------------------------------------------------------
(* What the server does to the views. *)

(* The entries, the packets and the link are all that matters of a session. *)
LEMMA LinkFrame ==
  ASSUME NEW s, NEW q, NEW v, LinkOK(s, q, v), NEW t, Entries(t) = Entries(s), t.out = s.out, t.link = s.link
  PROVE  LinkOK(t, q, v)
<1>1. \A no : findChannelAttr(t, no) = findChannelAttr(s, no)
  BY DEF findChannelAttr
<1>2. \A no \in ChannelNos : NumberInv(no, findChannelAttr(t, no), t.out, q, v[no], t.link)
  BY <1>1 DEF LinkOK
<1> QED BY <1>2 DEF LinkOK, Owed

(* Packets of the server have its types.                                   *)
LEMMA AnswerPacket ==
  ASSUME NEW type \in AnswerTypes, type # "OPEN_CONFIRMATION", NEW no \in ChannelNos, NEW arg \in Nat,
         NEW p, p = Packet(type, no, arg)
  PROVE  p \in PacketsOut /\ p.type = type /\ p.no = no /\ p.arg = arg
BY DEF PacketsOut, Packet

(* Data is sent on a channel that is not closed.                           *)
LEMMA LinkPushed ==
  ASSUME NEW s, IsSession(s), NEW q, NEW v, LinkOK(s, q, v), s.link, NEW c \in Entries(s), ~c.writeClosed,
         NEW t, Entries(t) = Entries(s), t.link = s.link, t.out = Append(s.out, Packet("DATA", c.no, 0))
  PROVE  LinkOK(t, q, v)
<1>r. IsRaw(s) /\ s.link \in BOOLEAN /\ s.out \in Seq(PacketsOut) /\ c.no \in ChannelNos
  BY EntryFacts DEF IsSession, IsRaw, Session
<1>1. PICK p : p = Packet("DATA", c.no, 0)
  OBVIOUS
<1>2. p \in PacketsOut /\ p.type = "DATA" /\ p.no = c.no
  BY <1>r, <1>1, AnswerPacket DEF AnswerTypes
<1>3. PICK o, o2 : o = s.out /\ o2 = t.out
  OBVIOUS
<1>4. o2 = Append(o, p) /\ o \in Seq(PacketsOut)
  BY <1>r, <1>1, <1>3
<1>5. /\ \A type, no : Has(o2, type, no) <=> Has(o, type, no) \/ (p.type = type /\ p.no = no)
      /\ \A no : Bytes(o2, "ADJUST", no) = Bytes(o, "ADJUST", no)
      /\ \A no : p.no # no \/ p.type \in {"SUCCESS", "FAILURE"} => SameOut(o, o2, no)
  <2>1. \A type, no : Has(o2, type, no) <=> Has(o, type, no) \/ (p.type = type /\ p.no = no)
    BY <1>2, <1>4, OutAppend, ZenonT(60)
  <2>2. \A no : Bytes(o2, "ADJUST", no) = Bytes(o, "ADJUST", no)
    BY <1>2, <1>4, OutAppendOther
  <2>3. \A no : p.no # no \/ p.type \in {"SUCCESS", "FAILURE"} => SameOut(o, o2, no)
    BY <1>2, <1>4, OutAppend
  <2> QED BY <2>1, <2>2, <2>3
<1>6. \A no : findChannelAttr(t, no) = findChannelAttr(s, no)
  BY DEF findChannelAttr
<1>7. PICK es : es = {c} /\ es = findChannelAttr(s, c.no)
  BY <1>r, SliceFacts
<1>8. PICK w : w = v[c.no]
  OBVIOUS
<1>9. \A no \in ChannelNos : NumberInv(no, findChannelAttr(s, no), o, q, v[no], TRUE)
  BY <1>3 DEF LinkOK
<1>10. LinkInv(c.no, es, o, q, w) /\ AlwaysInv(c.no, es, q, w)
  BY <1>r, <1>7, <1>8, <1>9 DEF NumberInv
<1>11. w \in Views
  BY <1>r, <1>8 DEF LinkOK
<1>12. LinkInv(c.no, es, o2, q, w)
  <2>1. Open(es)
    BY <1>7 DEF Open
  <2>2. Bytes(o2, "ADJUST", c.no) = Bytes(o, "ADJUST", c.no)
    BY <1>2, <1>5
  <2>3. /\ \A type \in {"OPEN_CONFIRMATION", "CLOSE"} : Has(o2, type, c.no) <=> Has(o, type, c.no)
    BY <1>2, <1>5
  <2> QED BY <1>10, <1>11, <2>1, <2>2, <2>3 DEF LinkInv, Views
<1>13. ASSUME NEW no \in ChannelNos PROVE NumberInv(no, findChannelAttr(t, no), t.out, q, v[no], t.link)
  <2>1. CASE no = c.no
    BY <1>3, <1>6, <1>7, <1>8, <1>10, <1>12, <2>1 DEF NumberInv
  <2>2. CASE no # c.no
    <3>1. SameOut(o, o2, no) /\ SameIn(q, q, no)
      BY <1>2, <1>5, <2>2 DEF SameIn
    <3>2. NumberInv(no, findChannelAttr(s, no), o2, q, v[no], TRUE)
      BY <1>9, <3>1, NumberFrame
    <3> QED BY <1>3, <1>6, <3>2
  <2> QED BY <2>1, <2>2
<1>14. OutOrder(o2)
  <2>1. ~Has(o, "CLOSE", c.no)
    BY <1>7, <1>10 DEF LinkInv, Open
  <2>2. OutOrder(o)
    BY <1>3 DEF LinkOK
  <2> QED BY <1>2, <1>4, <2>1, <2>2, OutOrderAppend
<1>15. Answers(o2) = Answers(o)
  <2>1. Answers(o) \in Nat /\ Answers(o2) = Answers(o) + 0
    BY <1>2, <1>4, AnswersAppend
  <2> QED BY <2>1
<1>16. \A no \in ChannelNos : ~Has(o2, "OPEN_FAILURE", no)
  BY <1>2, <1>3, <1>5 DEF LinkOK
<1> QED BY <1>3, <1>13, <1>14, <1>15, <1>16 DEF LinkOK, Owed

(* A channel is closed for writing.                                        *)
LEMMA LinkClosed ==
  ASSUME NEW s, IsSession(s), NEW q, NEW v, LinkOK(s, q, v), NEW c \in Entries(s), ~c.writeClosed,
         NEW t, ClosedFrom(s, c, t)
  PROVE  LinkOK(t, q, v)
<1>r. /\ IsRaw(s) /\ s.link \in BOOLEAN /\ s.out \in Seq(PacketsOut) /\ c.no \in ChannelNos
      /\ c \in Channels
  BY EntryFacts DEF IsSession, IsRaw, Session
<1>a. PICK d : d = [c EXCEPT !.writeClosed = TRUE]
  OBVIOUS
<1>b. d.no = c.no /\ d.writeClosed = TRUE /\ d.windowCount = c.windowCount
  BY <1>r, <1>a DEF Channels
<1>t. t.link = s.link /\ Entries(t) = (Entries(s) \ {c}) \cup {d}
      /\ t.out = IF s.link THEN Append(s.out, Packet("CLOSE", c.no, 0)) ELSE s.out
  BY <1>a DEF ClosedFrom
<1>1. PICK p : p = Packet("CLOSE", c.no, 0)
  OBVIOUS
<1>2. p \in PacketsOut /\ p.type = "CLOSE" /\ p.no = c.no
  BY <1>r, <1>1, AnswerPacket DEF AnswerTypes
<1>3. PICK o, o2 : o = s.out /\ o2 = t.out
  OBVIOUS
<1>4. o \in Seq(PacketsOut) /\ (s.link => o2 = Append(o, p)) /\ (~s.link => o2 = o)
  BY <1>r, <1>t, <1>1, <1>3
<1>5. s.link =>
      /\ \A type, no : Has(o2, type, no) <=> Has(o, type, no) \/ (p.type = type /\ p.no = no)
      /\ \A no : Bytes(o2, "ADJUST", no) = Bytes(o, "ADJUST", no) + IF p.type = "ADJUST" /\ p.no = no THEN p.arg ELSE 0
      /\ \A no : Bytes(o, "ADJUST", no) \in Nat
      /\ \A no : p.no # no \/ p.type \in {"SUCCESS", "FAILURE"} => SameOut(o, o2, no)
  BY <1>2, <1>4, OutAppend
<1>6. /\ findChannelAttr(t, c.no) = {d}
      /\ \A no : no # c.no => findChannelAttr(t, no) = findChannelAttr(s, no)
      /\ findChannelAttr(s, c.no) = {c}
  <2>1. IsRaw(s) /\ d.no = c.no /\ Entries(t) = (Entries(s) \ {c}) \cup {d}
    BY <1>r, <1>b, <1>t
  <2> QED BY <2>1, SliceFacts
<1>7. PICK es, es2 : es = {c} /\ es = findChannelAttr(s, c.no) /\ es2 = {d}
  BY <1>6
<1>8. PICK w : w = v[c.no]
  OBVIOUS
<1>9. \A no \in ChannelNos : NumberInv(no, findChannelAttr(s, no), o, q, v[no], s.link)
  BY <1>3 DEF LinkOK
<1>10. AlwaysInv(c.no, es, q, w) /\ (s.link => LinkInv(c.no, es, o, q, w))
  BY <1>r, <1>7, <1>8, <1>9 DEF NumberInv
<1>11. w \in Views
  BY <1>r, <1>8 DEF LinkOK
<1>12. AlwaysInv(c.no, es2, q, w)
  BY <1>b, <1>7, <1>10, <1>11 DEF AlwaysInv
<1>c. s.link => LinkInv(c.no, es2, o2, q, w)
  <2>1. SUFFICES ASSUME s.link PROVE LinkInv(c.no, es2, o2, q, w)
    OBVIOUS
  <2>2. Open(es) /\ ~Open(es2) /\ es # {} /\ es2 # {}
    BY <1>b, <1>7 DEF Open
  <2>3. Bytes(o2, "ADJUST", c.no) = Bytes(o, "ADJUST", c.no)
    BY <1>2, <1>5, <2>1
  <2>4. /\ \A type \in {"OPEN_CONFIRMATION", "DATA"} : Has(o2, type, c.no) <=> Has(o, type, c.no)
        /\ Has(o2, "CLOSE", c.no)
    BY <1>2, <1>5, <2>1
  <2>5. LinkInv(c.no, es, o, q, w)
    BY <1>10, <2>1
  <2>6. \A x \in es2 : x.windowCount = c.windowCount
    BY <1>b, <1>7
  <2> QED BY <1>7, <1>11, <2>2, <2>3, <2>4, <2>5, <2>6 DEF LinkInv, Views
<1>13. ASSUME NEW no \in ChannelNos PROVE NumberInv(no, findChannelAttr(t, no), t.out, q, v[no], t.link)
  <2>1. CASE no = c.no
    BY <1>3, <1>t, <1>6, <1>7, <1>8, <1>12, <1>c, <2>1 DEF NumberInv
  <2>2. CASE no # c.no
    <3>1. (s.link => SameOut(o, o2, no)) /\ SameIn(q, q, no)
      BY <1>2, <1>5, <2>2 DEF SameIn
    <3>2. NumberInv(no, findChannelAttr(s, no), o2, q, v[no], s.link)
      BY <1>r, <1>9, <3>1, NumberFrame
    <3> QED BY <1>3, <1>t, <1>6, <2>2, <3>2
  <2> QED BY <2>1, <2>2
<1>14. OutOrder(o2) /\ \A no \in ChannelNos : ~Has(o2, "OPEN_FAILURE", no)
  <2>1. OutOrder(o) /\ \A no \in ChannelNos : ~Has(o, "OPEN_FAILURE", no)
    BY <1>3 DEF LinkOK
  <2>2. CASE s.link
    <3>1. ~Has(o, "CLOSE", c.no)
      BY <1>7, <1>10, <2>2 DEF LinkInv, Open
    <3>2. OutOrder(o2)
      BY <1>2, <1>4, <2>1, <2>2, <3>1, OutOrderAppend
    <3> QED BY <1>2, <1>5, <2>1, <2>2, <3>2
  <2>3. CASE ~s.link
    BY <1>4, <2>1, <2>3
  <2> QED BY <1>r, <2>2, <2>3
<1>15. s.link => Answers(o2) = Answers(o)
  <2>1. s.link => Answers(o) \in Nat /\ Answers(o2) = Answers(o) + 0
    BY <1>2, <1>4, AnswersAppend
  <2> QED BY <2>1
<1> QED BY <1>3, <1>t, <1>13, <1>14, <1>15 DEF LinkOK, Owed

(* What there is to know of the number of an entry.                        *)
LEMMA Setting ==
  ASSUME NEW s, IsSession(s), NEW q, NEW v, LinkOK(s, q, v), NEW c \in Entries(s),
         NEW es, es = {c}, NEW o, o = s.out, NEW w, w = v[c.no]
  PROVE  /\ IsRaw(s) /\ s.link \in BOOLEAN /\ o \in Seq(PacketsOut) /\ q \in Seq(PacketsIn)
         /\ c.no \in ChannelNos /\ c \in Channels /\ c.windowCount \in Nat /\ w \in Views
         /\ findChannelAttr(s, c.no) = es
         /\ AlwaysInv(c.no, es, q, w) /\ (s.link => LinkInv(c.no, es, o, q, w))
         /\ QueueOrder(q) /\ OutOrder(o) /\ (\A no \in ChannelNos : ~Has(o, "OPEN_FAILURE", no))
         /\ v \in [ChannelNos -> Views] /\ (s.link => Owed(s, q, v))
<1>1. /\ IsRaw(s) /\ s.link \in BOOLEAN /\ s.out \in Seq(PacketsOut) /\ c.no \in ChannelNos
      /\ c \in Channels /\ c.windowCount \in Nat
  BY EntryFacts DEF IsSession, IsRaw, Session
<1>2. findChannelAttr(s, c.no) = es
  BY <1>1, Found
<1>3. NumberInv(c.no, es, o, q, w, s.link)
  BY <1>1, <1>2 DEF LinkOK
<1>4. w \in Views
  BY <1>1 DEF LinkOK
<1> QED BY <1>1, <1>2, <1>3, <1>4 DEF LinkOK, NumberInv

\* Of the numbers other than n, nothing changes.
Elsewhere(n, s, q, v, t, q2, v2) ==
  /\ t.link => s.link
  /\ \A no \in ChannelNos : no # n =>
       /\ findChannelAttr(t, no) = findChannelAttr(s, no) /\ v2[no] = v[no]
       /\ SameIn(q, q2, no) /\ (t.link => SameOut(s.out, t.out, no))

\* The queues are in order.
InOrder(t, q, v) ==
  /\ q \in Seq(PacketsIn) /\ v \in [ChannelNos -> Views] /\ t.link \in BOOLEAN
  /\ QueueOrder(q) /\ OutOrder(t.out) /\ \A no \in ChannelNos : ~Has(t.out, "OPEN_FAILURE", no)

(* A step that concerns one number and leaves the others as they are.      *)
LEMMA LinkStep ==
  ASSUME NEW s, NEW q, NEW v, LinkOK(s, q, v), s.link \in BOOLEAN,
         NEW t, NEW q2, NEW v2, InOrder(t, q2, v2), NEW n, Elsewhere(n, s, q, v, t, q2, v2),
         NumberInv(n, findChannelAttr(t, n), t.out, q2, v2[n], t.link),
         t.link => Owed(t, q2, v2)
  PROVE  LinkOK(t, q2, v2)
<1>1. ASSUME NEW no \in ChannelNos, no # n
      PROVE  NumberInv(no, findChannelAttr(t, no), t.out, q2, v2[no], t.link)
  <2>1. NumberInv(no, findChannelAttr(s, no), s.out, q, v[no], s.link)
    BY DEF LinkOK
  <2>2. /\ findChannelAttr(t, no) = findChannelAttr(s, no) /\ v2[no] = v[no]
        /\ SameIn(q, q2, no) /\ (t.link => SameOut(s.out, t.out, no))
        /\ (t.link => s.link)
    BY <1>1 DEF Elsewhere
  <2>3. t.link \in BOOLEAN
    BY DEF InOrder
  <2>4. NumberInv(no, findChannelAttr(s, no), t.out, q2, v[no], t.link)
    BY <2>1, <2>2, <2>3, NumberFrame
  <2> QED BY <2>2, <2>4
<1>2. \A no \in ChannelNos : NumberInv(no, findChannelAttr(t, no), t.out, q2, v2[no], t.link)
  BY <1>1
<1> QED BY <1>2 DEF LinkOK, InOrder

(* A session that has written p if the link is there.                      *)
LEMMA OutStep ==
  ASSUME NEW o \in Seq(PacketsOut), NEW p \in PacketsOut, NEW o2, o2 = Append(o, p), OutOrder(o),
         p.type # "OPEN_FAILURE", \A no \in ChannelNos : ~Has(o, "OPEN_FAILURE", no),
         Has(o, "CLOSE", p.no) => p.type \notin {"DATA", "CLOSE", "OPEN_CONFIRMATION"},
         p.type = "OPEN_CONFIRMATION" =>
           ~Has(o, "DATA", p.no) /\ ~Has(o, "CLOSE", p.no) /\ ~Has(o, "OPEN_CONFIRMATION", p.no),
         Has(o, "OPEN_CONFIRMATION", p.no) => p.type # "ADJUST"
  PROVE  /\ o2 \in Seq(PacketsOut) /\ OutOrder(o2) /\ \A no \in ChannelNos : ~Has(o2, "OPEN_FAILURE", no)
         /\ \A type : Has(o2, type, p.no) <=> Has(o, type, p.no) \/ p.type = type
         /\ \A no : no # p.no => SameOut(o, o2, no)
<1>1. OutOrder(o2)
  BY OutOrderAppend
<1>2. /\ \A type, no : Has(o2, type, no) <=> Has(o, type, no) \/ (p.type = type /\ p.no = no)
      /\ \A no : no # p.no => SameOut(o, o2, no)
      /\ o2 \in Seq(PacketsOut)
  BY OutAppend
<1> QED BY <1>1, <1>2

(* Nothing but OPEN_FAILURE refuses a channel.                             *)
LEMMA NoFailure ==
  ASSUME NEW o \in Seq(PacketsOut), NEW p \in PacketsOut, p.type # "OPEN_FAILURE",
         \A no \in ChannelNos : ~Has(o, "OPEN_FAILURE", no)
  PROVE  \A no \in ChannelNos : ~Has(Append(o, p), "OPEN_FAILURE", no)
BY HasAppend

(* Replies are owed as before when neither a request is taken nor a reply sent. *)
LEMMA OwedStill ==
  ASSUME NEW s, NEW q, NEW v, Owed(s, q, v), NEW t, NEW q2, NEW v2,
         Awaited(v2) = Awaited(v), ToAnswer(q2) = ToAnswer(q), Answers(t.out) = Answers(s.out)
  PROVE  Owed(t, q2, v2)
BY DEF Owed

(* Only requests are answered, and only SUCCESS and FAILURE answer.         *)
LEMMA OthersCount ==
  /\ \A q \in Seq(PacketsIn), p \in PacketsIn : p.type # "REQUEST" => ToAnswer(Append(q, p)) = ToAnswer(q)
  /\ \A q \in Seq(PacketsIn) : q # <<>> /\ Head(q).type # "REQUEST" => ToAnswer(Tail(q)) = ToAnswer(q)
  /\ \A o \in Seq(PacketsOut), p \in PacketsOut :
       p.type \notin {"SUCCESS", "FAILURE"} => Answers(Append(o, p)) = Answers(o)
  /\ \A o \in Seq(PacketsOut) :
       o # <<>> /\ Head(o).type \notin {"SUCCESS", "FAILURE"} => Answers(Tail(o)) = Answers(o)
<1>1. ASSUME NEW q \in Seq(PacketsIn), NEW p \in PacketsIn, p.type # "REQUEST"
      PROVE  ToAnswer(Append(q, p)) = ToAnswer(q)
  <2>1. ToAnswer(q) \in Nat /\ ToAnswer(Append(q, p)) = ToAnswer(q) + 0
    BY <1>1, ToAnswerAppend
  <2> QED BY <2>1
<1>2. ASSUME NEW q \in Seq(PacketsIn), q # <<>>, Head(q).type # "REQUEST"
      PROVE  ToAnswer(Tail(q)) = ToAnswer(q)
  <2>1. ToAnswer(Tail(q)) \in Nat /\ ToAnswer(q) = ToAnswer(Tail(q)) + 0
    BY <1>2, ToAnswerTail
  <2> QED BY <2>1
<1>3. ASSUME NEW o \in Seq(PacketsOut), NEW p \in PacketsOut, p.type \notin {"SUCCESS", "FAILURE"}
      PROVE  Answers(Append(o, p)) = Answers(o)
  <2>1. Answers(o) \in Nat /\ Answers(Append(o, p)) = Answers(o) + 0
    BY <1>3, AnswersAppend
  <2> QED BY <2>1
<1>4. ASSUME NEW o \in Seq(PacketsOut), o # <<>>, Head(o).type \notin {"SUCCESS", "FAILURE"}
      PROVE  Answers(Tail(o)) = Answers(o)
  <2>1. Answers(Tail(o)) \in Nat /\ Answers(o) = Answers(Tail(o)) + 0
    BY <1>4, AnswersTail
  <2> QED BY <2>1
<1> QED BY <1>1, <1>2, <1>3, <1>4

(* ADJUST counts.                                                          *)
LEMMA OutAppendAdjust ==
  ASSUME NEW o \in Seq(PacketsOut), NEW p \in PacketsOut, NEW o2, o2 = Append(o, p), p.type = "ADJUST"
  PROVE  /\ Bytes(o, "ADJUST", p.no) \in Nat
         /\ Bytes(o2, "ADJUST", p.no) = Bytes(o, "ADJUST", p.no) + p.arg
<1>1. HasBytes(Append(o, p), "ADJUST")
  BY AppendFacts, PacketFacts
<1> QED BY <1>1, BytesAppend

(* The first packet is data.                                               *)
LEMMA InTailData ==
  ASSUME NEW q \in Seq(PacketsIn), q # <<>>, NEW p, p = Head(q), NEW q2, q2 = Tail(q), p.type = "DATA"
  PROVE  /\ Bytes(q2, "DATA", p.no) \in Nat
         /\ Bytes(q, "DATA", p.no) = Bytes(q2, "DATA", p.no) + DataLen
<1>1. HasBytes(q, "DATA")
  BY PacketFacts
<1>2. p.arg = DataLen
  BY InTail DEF PacketsIn
<1> QED BY <1>1, <1>2, BytesTail

(* Sums of bytes are numbers.                                              *)
LEMMA BytesNat ==
  /\ \A q \in Seq(PacketsIn) : \A no : Bytes(q, "DATA", no) \in Nat
  /\ \A o \in Seq(PacketsOut) : \A no : Bytes(o, "ADJUST", no) \in Nat
<1>1. PICK p : p = Packet("CLOSE", 0, 0)
  OBVIOUS
<1>2. p \in PacketsIn /\ p \in PacketsOut
  BY <1>1, SshChannelAssumption DEF PacketsIn, PacketsOut, Types, AnswerTypes, Packet
<1>3. ASSUME NEW q \in Seq(PacketsIn), NEW no PROVE Bytes(q, "DATA", no) \in Nat
  BY <1>2, InAppend
<1>4. ASSUME NEW o \in Seq(PacketsOut), NEW no PROVE Bytes(o, "ADJUST", no) \in Nat
  BY <1>2, OutAppend
<1> QED BY <1>3, <1>4

(* Bytes that were sent leave the window, and those given back enter it.   *)
LEMMA WindowSum ==
  ASSUME NEW m \in Nat, NEW k \in Nat, NEW b \in Nat, NEW a \in Nat, NEW b2 \in Nat, NEW n \in Nat,
         NEW x \in Nat, NEW left \in Nat, NEW a2,
         m = k + b + a, b = b2 + x, left = m - x, a2 = a + n - left
  PROVE  n = k + b2 + a2
OBVIOUS

(* And so for those the peer sends.                                        *)
LEMMA WindowSpent ==
  ASSUME NEW m \in Nat, NEW k \in Nat, NEW k2 \in Nat, NEW b \in Nat, NEW a \in Nat, NEW x \in Nat,
         NEW b2, m = k + b + a, k = k2 + x, b2 = b + x
  PROVE  m = k2 + b2 + a /\ b2 <= m
OBVIOUS

(* Data is taken from the queue.                                           *)
LEMMA LinkData ==
  ASSUME NEW s, IsSession(s), NEW q, NEW v, LinkOK(s, q, v), q # <<>>, NEW p, p = Head(q), p.type = "DATA",
         NEW c \in Entries(s), c.no = p.no, NEW q2, q2 = Tail(q), NEW t, DataPopped(s, c, t, Ok)
  PROVE  LinkOK(t, q2, v)
<1>1. PICK es, o, w : es = {c} /\ o = s.out /\ w = v[c.no]
  OBVIOUS
<1>2. /\ IsRaw(s) /\ s.link \in BOOLEAN /\ o \in Seq(PacketsOut) /\ q \in Seq(PacketsIn)
      /\ c.no \in ChannelNos /\ c \in Channels /\ c.windowCount \in Nat /\ w \in Views
      /\ findChannelAttr(s, c.no) = es
      /\ AlwaysInv(c.no, es, q, w) /\ (s.link => LinkInv(c.no, es, o, q, w))
      /\ QueueOrder(q) /\ OutOrder(o) /\ (\A no \in ChannelNos : ~Has(o, "OPEN_FAILURE", no))
      /\ v \in [ChannelNos -> Views] /\ (s.link => Owed(s, q, v))
  BY <1>1, Setting
<1>w. WindowSize \in Nat /\ DataLen \in Nat
  BY SshChannelAssumption
<1>3. q2 \in Seq(PacketsIn) /\ QueueOrder(q2) /\ ToAnswer(q2) = ToAnswer(q)
  BY <1>2, InTail, QueueOrderTail, OthersCount
<1>4. /\ \A type : type # "DATA" => (Has(q, type, c.no) <=> Has(q2, type, c.no))
      /\ HasAny(q, c.no) /\ (HasAny(q2, c.no) => HasAny(q, c.no))
      /\ \A no : no # c.no => SameIn(q, q2, no)
  <2>1. q \in Seq(PacketsIn)
    BY <1>2
  <2>2. /\ \A type, no : Has(q, type, no) <=> Has(q2, type, no) \/ (p.type = type /\ p.no = no)
        /\ \A no : HasAny(q, no) <=> HasAny(q2, no) \/ (p.type # "OPEN" /\ p.no = no)
    BY <2>1, InTail
  <2>3. \A no : p.no # no => SameIn(q, q2, no)
    BY <2>1, InTail
  <2> QED BY <2>2, <2>3
<1>5. Bytes(q2, "DATA", c.no) \in Nat /\ Bytes(q, "DATA", c.no) = Bytes(q2, "DATA", c.no) + DataLen
  BY <1>2, InTailData
<1>6. PICK b, b2 : b = Bytes(q, "DATA", c.no) /\ b2 = Bytes(q2, "DATA", c.no)
  OBVIOUS
<1>7. b2 \in Nat /\ b = b2 + DataLen
  BY <1>5, <1>6
<1>8. b <= c.windowCount /\ c.windowCount <= WindowSize
  BY <1>1, <1>2, <1>6 DEF AlwaysInv
<1>9. PICK left : left = c.windowCount - DataLen
  OBVIOUS
<1>10. left \in Nat /\ b2 <= left /\ left <= WindowSize
  BY <1>2, <1>w, <1>7, <1>8, <1>9
<1>11. s.link => ~Has(o, "OPEN_CONFIRMATION", c.no)
  BY <1>2, <1>4 DEF LinkInv
<1>12. ASSUME NEW n \in Nat, b2 <= n, n <= WindowSize, n >= WindowSize \div 2, NEW o2 \in Seq(PacketsOut),
              NEW d, d = [c EXCEPT !.windowCount = n], OutOrder(o2),
              \A no \in ChannelNos : ~Has(o2, "OPEN_FAILURE", no),
              s.link => /\ \A type \in {"OPEN_CONFIRMATION", "DATA", "CLOSE"} : Has(o2, type, c.no) <=> Has(o, type, c.no)
                        /\ \A no : no # c.no => SameOut(o, o2, no)
                        /\ Answers(o2) = Answers(o)
                        /\ Bytes(o, "ADJUST", c.no) \in Nat /\ Bytes(o2, "ADJUST", c.no) = Bytes(o, "ADJUST", c.no) + n - left,
              Entries(t) = (Entries(s) \ {c}) \cup {d}, t.link = s.link, t.out = o2
       PROVE  LinkOK(t, q2, v)
  <2>1. d.windowCount = n /\ d.writeClosed = c.writeClosed /\ d.no = c.no
    BY <1>2, <1>12 DEF Channels
  <2>2. PICK es2 : es2 = {d}
    OBVIOUS
  <2>3. findChannelAttr(t, c.no) = es2 /\ \A no : no # c.no => findChannelAttr(t, no) = findChannelAttr(s, no)
    <3>1. IsRaw(s)
      BY <1>2
    <3>2. d.no = c.no /\ Entries(t) = (Entries(s) \ {c}) \cup {d}
      BY <1>12, <2>1
    <3>3. /\ findChannelAttr(t, c.no) = {d}
          /\ \A no : no # c.no => findChannelAttr(t, no) = findChannelAttr(s, no)
      BY <3>1, <3>2, SliceFacts
    <3> QED BY <2>2, <3>3
  <2>4. AlwaysInv(c.no, es2, q2, w)
    BY <1>1, <1>2, <1>4, <1>6, <1>12, <2>1, <2>2 DEF AlwaysInv
  <2>5. s.link => LinkInv(c.no, es2, o2, q2, w)
    <3>1. SUFFICES ASSUME s.link PROVE LinkInv(c.no, es2, o2, q2, w)
      OBVIOUS
    <3>2. (Open(es) <=> Open(es2)) /\ es # {} /\ es2 # {}
      BY <1>1, <2>1, <2>2 DEF Open
    <3>3. ASSUME w.state = "open" PROVE n = w.credit + b2 + Bytes(o2, "ADJUST", c.no)
      <4>1. c.windowCount = w.credit + b + Bytes(o, "ADJUST", c.no)
        BY <1>1, <1>2, <1>6, <3>1, <3>3 DEF LinkInv
      <4>2. PICK k : k \in Nat /\ k = w.credit
        BY <1>2 DEF Views
      <4>3. PICK a, a2 : a = Bytes(o, "ADJUST", c.no) /\ a2 = Bytes(o2, "ADJUST", c.no)
        OBVIOUS
      <4>4. a \in Nat /\ a2 = a + n - left /\ n \in Nat
        BY <1>12, <3>1, <4>3
      <4>5. PICK m : m = c.windowCount /\ m \in Nat
        BY <1>2
      <4>6. m = k + b + a /\ left = m - DataLen
        BY <1>9, <4>1, <4>2, <4>3, <4>5
      <4>7. k \in Nat /\ b \in Nat /\ b2 \in Nat /\ a \in Nat /\ n \in Nat /\ left \in Nat /\ m \in Nat /\ DataLen \in Nat
        BY <1>w, <1>7, <1>10, <4>2, <4>4, <4>5
      <4>8. m = k + b + a /\ b = b2 + DataLen /\ left = m - DataLen /\ a2 = a + n - left
        BY <1>7, <4>4, <4>6
      <4>9. n = k + b2 + a2
        BY <4>7, <4>8, WindowSum
      <4> QED BY <1>6, <4>2, <4>3, <4>9
    <3>4. \A x \in es2 : x.windowCount = n
      BY <2>1, <2>2
    <3>5. /\ LinkInv(c.no, es, o, q, w) /\ ~Has(o2, "OPEN_CONFIRMATION", c.no)
          /\ \A type \in {"OPEN_CONFIRMATION", "DATA", "CLOSE"} : Has(o2, type, c.no) <=> Has(o, type, c.no)
      BY <1>2, <1>11, <1>12, <3>1
    <3>6. \A type \in {"OPEN", "EOF", "CLOSE"} : Has(q, type, c.no) <=> Has(q2, type, c.no)
      BY <1>4
    <3> QED BY <1>6, <3>2, <3>3, <3>4, <3>5, <3>6 DEF LinkInv
  <2>6. NumberInv(c.no, findChannelAttr(t, c.no), t.out, q2, v[c.no], t.link)
    BY <1>1, <1>12, <2>3, <2>4, <2>5 DEF NumberInv
  <2>7. t.link => Owed(t, q2, v)
    BY <1>1, <1>2, <1>3, <1>12, OwedStill
  <2>8. Elsewhere(c.no, s, q, v, t, q2, v)
    BY <1>1, <1>4, <1>12, <2>3 DEF Elsewhere
  <2>9. InOrder(t, q2, v)
    BY <1>2, <1>3, <1>12 DEF InOrder
  <2> QED BY <1>2, <2>6, <2>7, <2>8, <2>9, LinkStep
<1>13. CASE left >= WindowSize \div 2
  <2>1. PICK d : d = [c EXCEPT !.windowCount = left]
    OBVIOUS
  <2>2. Entries(t) = (Entries(s) \ {c}) \cup {d} /\ t.link = s.link /\ t.out = o
    BY <1>1, <1>9, <1>13, <2>1 DEF DataPopped, Becomes
  <2>3. Bytes(o, "ADJUST", c.no) \in Nat
    BY <1>2, BytesNat
  <2>4. \A no : SameOut(o, o, no)
    BY DEF SameOut
  <2>5. Bytes(o, "ADJUST", c.no) = Bytes(o, "ADJUST", c.no) + left - left
    BY <1>10, <2>3
  <2> QED BY <1>2, <1>10, <1>12, <1>13, <2>1, <2>2, <2>3, <2>4, <2>5
<1>14. CASE ~(left >= WindowSize \div 2)
  <2>1. PICK d : d = [c EXCEPT !.windowCount = WindowSize]
    OBVIOUS
  <2>2. PICK a : a = Packet("ADJUST", c.no, WindowSize - left)
    OBVIOUS
  <2>3. s.link /\ Entries(t) = (Entries(s) \ {c}) \cup {d} /\ t.link = s.link /\ t.out = Append(o, a)
    BY <1>1, <1>2, <1>9, <1>14, <2>1, <2>2 DEF DataPopped, Becomes, Ok
  <2>4. WindowSize - left \in Nat
    BY <1>w, <1>10
  <2>5. a \in PacketsOut /\ a.type = "ADJUST" /\ a.no = c.no /\ a.arg = WindowSize - left
    BY <1>2, <2>2, <2>4, AnswerPacket DEF AnswerTypes
  <2>6. PICK o2 : o2 = Append(o, a)
    OBVIOUS
  <2>7. /\ o2 \in Seq(PacketsOut) /\ OutOrder(o2) /\ \A no \in ChannelNos : ~Has(o2, "OPEN_FAILURE", no)
        /\ \A type : Has(o2, type, c.no) <=> Has(o, type, c.no) \/ a.type = type
        /\ \A no : no # c.no => SameOut(o, o2, no)
    BY <1>2, <1>11, <2>3, <2>5, <2>6, OutStep, ZenonT(60)
  <2>8. Answers(o2) = Answers(o)
    BY <1>2, <2>5, <2>6, OthersCount
  <2>9. Bytes(o, "ADJUST", c.no) \in Nat /\ Bytes(o2, "ADJUST", c.no) = Bytes(o, "ADJUST", c.no) + (WindowSize - left)
    BY <1>2, <2>5, <2>6, OutAppendAdjust
  <2>10. Bytes(o2, "ADJUST", c.no) = Bytes(o, "ADJUST", c.no) + WindowSize - left
    BY <1>w, <1>10, <2>9
  <2>11. WindowSize \in Nat /\ b2 <= WindowSize /\ WindowSize <= WindowSize /\ WindowSize >= WindowSize \div 2
    BY <1>w, <1>7, <1>10
  <2>12. \A type \in {"OPEN_CONFIRMATION", "DATA", "CLOSE"} : Has(o2, type, c.no) <=> Has(o, type, c.no)
    BY <2>5, <2>7
  <2> QED BY <1>12, <2>1, <2>3, <2>6, <2>7, <2>8, <2>9, <2>10, <2>11, <2>12
<1> QED BY <1>13, <1>14

(* What the first packet tells of its number, when it is neither data nor the last. *)
LEMMA PlainTail ==
  ASSUME NEW q \in Seq(PacketsIn), q # <<>>, NEW p, p = Head(q), NEW q2, q2 = Tail(q), p.type \in {"REQUEST", "ADJUST"}
  PROVE  /\ Has(q, "EOF", p.no) <=> Has(q2, "EOF", p.no)
         /\ Has(q, "OPEN", p.no) <=> Has(q2, "OPEN", p.no)
         /\ Has(q, "CLOSE", p.no) <=> Has(q2, "CLOSE", p.no)
         /\ HasAny(q, p.no) /\ (HasAny(q2, p.no) => HasAny(q, p.no))
         /\ Bytes(q2, "DATA", p.no) = Bytes(q, "DATA", p.no)
         /\ \A no : no # p.no => SameIn(q, q2, no)
<1>1. \A type, no : Has(q, type, no) <=> Has(q2, type, no) \/ (p.type = type /\ p.no = no)
  BY InTail
<1>2. \A no : HasAny(q, no) <=> HasAny(q2, no) \/ (p.type # "OPEN" /\ p.no = no)
  BY InTail
<1>3. \A no : p.no # no => SameIn(q, q2, no)
  BY InTail
<1>4. Bytes(q2, "DATA", p.no) = Bytes(q, "DATA", p.no)
  <2>1. HasBytes(q, "DATA")
    BY PacketFacts
  <2>2. Bytes(q2, "DATA", p.no) \in Nat /\ Bytes(q, "DATA", p.no) = Bytes(q2, "DATA", p.no) + 0
    BY <2>1, BytesTail
  <2> QED BY <2>2
<1> QED BY <1>1, <1>2, <1>3, <1>4

(* A request or an adjustment is taken from the queue; o2 is what is written then. *)
LEMMA LinkPlain ==
  ASSUME NEW s, IsSession(s), NEW q, NEW v, LinkOK(s, q, v), q # <<>>, NEW p, p = Head(q),
         p.type \in {"REQUEST", "ADJUST"}, NEW c \in Entries(s), c.no = p.no, NEW q2, q2 = Tail(q),
         NEW t, Entries(t) = Entries(s), t.link = s.link,
         OutOrder(t.out), \A no \in ChannelNos : ~Has(t.out, "OPEN_FAILURE", no),
         \A no : SameOut(s.out, t.out, no), s.link => Owed(t, q2, v)
  PROVE  LinkOK(t, q2, v)
<1>1. PICK es, o, w : es = {c} /\ o = s.out /\ w = v[c.no]
  OBVIOUS
<1>2. /\ IsRaw(s) /\ s.link \in BOOLEAN /\ o \in Seq(PacketsOut) /\ q \in Seq(PacketsIn)
      /\ c.no \in ChannelNos /\ c \in Channels /\ c.windowCount \in Nat /\ w \in Views
      /\ findChannelAttr(s, c.no) = es
      /\ AlwaysInv(c.no, es, q, w) /\ (s.link => LinkInv(c.no, es, o, q, w))
      /\ QueueOrder(q) /\ OutOrder(o) /\ (\A no \in ChannelNos : ~Has(o, "OPEN_FAILURE", no))
      /\ v \in [ChannelNos -> Views] /\ (s.link => Owed(s, q, v))
  BY <1>1, Setting
<1>3. q2 \in Seq(PacketsIn) /\ QueueOrder(q2)
  BY <1>2, InTail, QueueOrderTail
<1>4. /\ Has(q, "EOF", c.no) <=> Has(q2, "EOF", c.no)
      /\ Has(q, "OPEN", c.no) <=> Has(q2, "OPEN", c.no)
      /\ Has(q, "CLOSE", c.no) <=> Has(q2, "CLOSE", c.no)
      /\ HasAny(q, c.no) /\ (HasAny(q2, c.no) => HasAny(q, c.no))
      /\ Bytes(q2, "DATA", c.no) = Bytes(q, "DATA", c.no)
      /\ \A no : no # c.no => SameIn(q, q2, no)
  <2>1. q \in Seq(PacketsIn)
    BY <1>2
  <2>2. /\ Has(q, "EOF", p.no) <=> Has(q2, "EOF", p.no)
        /\ Has(q, "OPEN", p.no) <=> Has(q2, "OPEN", p.no)
        /\ Has(q, "CLOSE", p.no) <=> Has(q2, "CLOSE", p.no)
    BY <2>1, PlainTail
  <2>4. HasAny(q, p.no)
    BY <2>1, PlainTail
  <2>5. Bytes(q2, "DATA", p.no) = Bytes(q, "DATA", p.no)
    BY <2>1, PlainTail
  <2>3. \A no : no # p.no => SameIn(q, q2, no)
    BY <2>1, PlainTail
  <2> QED BY <2>2, <2>3, <2>4, <2>5
<1>5. \A no : findChannelAttr(t, no) = findChannelAttr(s, no)
  BY DEF findChannelAttr
<1>6. PICK o2 : o2 = t.out
  OBVIOUS
<1>7. AlwaysInv(c.no, es, q2, w)
  BY <1>1, <1>2, <1>4 DEF AlwaysInv
<1>8. s.link => LinkInv(c.no, es, o2, q2, w)
  <2>1. SUFFICES ASSUME s.link PROVE LinkInv(c.no, es, o2, q2, w)
    OBVIOUS
  <2>2. LinkInv(c.no, es, o, q, w) /\ SameOut(o, o2, c.no)
    BY <1>1, <1>2, <1>6, <2>1
  <2>3. ~Has(o, "OPEN_CONFIRMATION", c.no)
    BY <1>4, <2>2 DEF LinkInv
  <2>4. /\ \A type \in {"OPEN_CONFIRMATION", "DATA", "CLOSE"} : Has(o2, type, c.no) <=> Has(o, type, c.no)
        /\ Bytes(o2, "ADJUST", c.no) = Bytes(o, "ADJUST", c.no)
    BY <2>2 DEF SameOut
  <2>5. LinkInv(c.no, es, o, q, w)
    BY <2>2
  <2> QED BY <1>4, <2>3, <2>4, <2>5 DEF LinkInv
<1>9. NumberInv(c.no, findChannelAttr(t, c.no), t.out, q2, v[c.no], t.link)
  BY <1>1, <1>2, <1>5, <1>6, <1>7, <1>8 DEF NumberInv
<1>10. Elsewhere(c.no, s, q, v, t, q2, v)
  BY <1>4, <1>5 DEF Elsewhere
<1>11. InOrder(t, q2, v)
  BY <1>2, <1>3 DEF InOrder
<1>12. t.link => Owed(t, q2, v)
  OBVIOUS
<1> QED BY <1>2, <1>9, <1>10, <1>11, <1>12, LinkStep

(* Nothing is written for an adjustment.                                   *)
LEMMA LinkAdjust ==
  ASSUME NEW s, IsSession(s), NEW q, NEW v, LinkOK(s, q, v), q # <<>>, NEW p, p = Head(q),
         p.type = "ADJUST", NEW c \in Entries(s), c.no = p.no, NEW q2, q2 = Tail(q),
         NEW t, Entries(t) = Entries(s), t.link = s.link, t.out = s.out
  PROVE  LinkOK(t, q2, v)
<1>1. q \in Seq(PacketsIn) /\ OutOrder(t.out) /\ (\A no \in ChannelNos : ~Has(t.out, "OPEN_FAILURE", no))
      /\ (s.link => Owed(s, q, v))
  BY DEF LinkOK
<1>2. \A no : SameOut(s.out, t.out, no)
  BY DEF SameOut
<1>3. ToAnswer(q2) = ToAnswer(q)
  BY <1>1, OthersCount
<1>4. s.link => Owed(t, q2, v)
  BY <1>1, <1>3, OwedStill
<1> QED BY <1>1, <1>2, <1>4, LinkPlain

(* A request is answered if it wants to be.                                *)
LEMMA LinkRequest ==
  ASSUME NEW s, IsSession(s), NEW q, NEW v, LinkOK(s, q, v), q # <<>>, NEW p, p = Head(q),
         p.type = "REQUEST", NEW c \in Entries(s), c.no = p.no, NEW q2, q2 = Tail(q),
         NEW t, NEW st, RequestPopped(s, c, p, t, st), st = OkSpecial
  PROVE  LinkOK(t, q2, v)
<1>1. q \in Seq(PacketsIn) /\ OutOrder(s.out) /\ (\A no \in ChannelNos : ~Has(s.out, "OPEN_FAILURE", no))
      /\ (s.link => Owed(s, q, v))
  BY DEF LinkOK
<1>a. s.out \in Seq(PacketsOut)
  BY DEF IsSession, IsRaw, Session
<1>2. CASE /\ s.link /\ requestInfo[p.arg].wantReply
           /\ \E answer \in {"SUCCESS", "FAILURE"}, d \in Entries(s), read \in {c.id, s.read} :
                Becomes(s, t, Entries(s), read, s.write, Append(s.out, Packet(answer, d.no, 0)))
  <2>1. PICK answer \in {"SUCCESS", "FAILURE"}, d \in Entries(s), read \in {c.id, s.read} :
               Becomes(s, t, Entries(s), read, s.write, Append(s.out, Packet(answer, d.no, 0)))
    BY <1>2
  <2>2. PICK a : a = Packet(answer, d.no, 0)
    OBVIOUS
  <2>3. d.no \in ChannelNos
    BY EntryFacts DEF IsSession
  <2>4. a \in PacketsOut /\ a.type = answer /\ a.no = d.no
    BY <2>2, <2>3, AnswerPacket DEF AnswerTypes
  <2>5. PICK o, o2 : o = s.out /\ o2 = t.out
    OBVIOUS
  <2>6. o2 = Append(o, a) /\ o \in Seq(PacketsOut) /\ Entries(t) = Entries(s) /\ t.link = s.link
    BY <1>a, <2>1, <2>2, <2>5 DEF Becomes
  <2>7. a.type \in {"SUCCESS", "FAILURE"}
    BY <2>4
  <2>8. OutOrder(o2)
    BY <1>1, <2>4, <2>5, <2>6, <2>7, OutOrderAppend
  <2>9. \A no : SameOut(o, o2, no)
    BY <2>4, <2>6, <2>7, OutAppend
  <2>10. \A no \in ChannelNos : ~Has(o2, "OPEN_FAILURE", no)
    <3>1. \A no \in ChannelNos : ~Has(o, "OPEN_FAILURE", no)
      BY <1>1, <2>5
    <3> QED BY <2>4, <2>6, <2>7, <3>1, NoFailure
  <2>11. Answers(o) \in Nat /\ Answers(o2) = Answers(o) + 1
    BY <2>4, <2>6, <2>7, AnswersAppend
  <2>12. ToAnswer(q2) \in Nat /\ ToAnswer(q) = ToAnswer(q2) + 1
    BY <1>1, <1>2, ToAnswerTail
  <2>13. Owed(t, q2, v)
    <3>1. Awaited(v) = ToAnswer(q) + Answers(o)
      BY <1>1, <1>2, <2>5 DEF Owed
    <3>2. PICK x, y : x = ToAnswer(q2) /\ y = Answers(o)
      OBVIOUS
    <3>3. x \in Nat /\ y \in Nat /\ Awaited(v) = (x + 1) + y
      BY <2>11, <2>12, <3>1, <3>2
    <3>4. Awaited(v) = x + (y + 1)
      BY <3>3
    <3> QED BY <2>5, <2>11, <3>2, <3>4 DEF Owed
  <2>14. /\ Entries(t) = Entries(s) /\ t.link = s.link /\ OutOrder(t.out)
         /\ \A no \in ChannelNos : ~Has(t.out, "OPEN_FAILURE", no)
    BY <2>5, <2>6, <2>8, <2>10
  <2>15. \A no : SameOut(s.out, t.out, no)
    BY <2>5, <2>9
  <2>16. (s.link => Owed(t, q2, v)) /\ p.type \in {"REQUEST", "ADJUST"}
    BY <2>13
  <2> QED BY <2>14, <2>15, <2>16, LinkPlain
<1>3. CASE /\ s.link => ~requestInfo[p.arg].wantReply
           /\ \E read \in {c.id, s.read} : Becomes(s, t, Entries(s), read, s.write, s.out)
  <2>1. Entries(t) = Entries(s) /\ t.link = s.link /\ t.out = s.out
    BY <1>3 DEF Becomes
  <2>2. s.link => ToAnswer(q2) = ToAnswer(q)
    <3>1. s.link => ToAnswer(q2) \in Nat /\ ToAnswer(q) = ToAnswer(q2) + 0
      BY <1>1, <1>3, ToAnswerTail
    <3> QED BY <3>1
  <2>3. s.link => Owed(t, q2, v)
    BY <1>1, <2>1, <2>2, OwedStill
  <2>4. \A no : SameOut(s.out, t.out, no)
    BY <2>1 DEF SameOut
  <2>5. OutOrder(t.out) /\ (\A no \in ChannelNos : ~Has(t.out, "OPEN_FAILURE", no)) /\ p.type \in {"REQUEST", "ADJUST"}
    BY <1>1, <2>1
  <2> QED BY <2>1, <2>3, <2>4, <2>5, LinkPlain
<1> QED BY <1>2, <1>3 DEF RequestPopped, OkSpecial

(* What the first packet tells of its number, when it is the last of a kind. *)
LEMMA EndTail ==
  ASSUME NEW q \in Seq(PacketsIn), q # <<>>, QueueOrder(q), NEW p, p = Head(q), NEW q2, q2 = Tail(q),
         p.type \in {"EOF", "CLOSE"}
  PROVE  /\ Has(q, "OPEN", p.no) <=> Has(q2, "OPEN", p.no)
         /\ Has(q, "EOF", p.no) <=> Has(q2, "EOF", p.no) \/ p.type = "EOF"
         /\ Has(q, "CLOSE", p.no) <=> Has(q2, "CLOSE", p.no) \/ p.type = "CLOSE"
         /\ HasAny(q, p.no)
         /\ ~Has(q2, "EOF", p.no)
         /\ p.type = "CLOSE" => ~HasAny(q2, p.no) /\ ~Has(q2, "CLOSE", p.no)
<1>1. \A type, no : Has(q, type, no) <=> Has(q2, type, no) \/ (p.type = type /\ p.no = no)
  BY InTail
<1>2. \A no : HasAny(q, no) <=> HasAny(q2, no) \/ (p.type # "OPEN" /\ p.no = no)
  BY InTail
<1>3. /\ p.type = "CLOSE" => ~HasAny(q2, p.no) /\ \A type : type # "OPEN" => ~Has(q2, type, p.no)
      /\ p.type = "EOF" => ~Has(q2, "DATA", p.no) /\ ~Has(q2, "EOF", p.no)
  BY QueueOrderTail
<1> QED BY <1>1, <1>2, <1>3

(* What is in flight for other numbers is not touched.                     *)
LEMMA OthersTail ==
  ASSUME NEW q \in Seq(PacketsIn), q # <<>>, QueueOrder(q), NEW p, p = Head(q), NEW q2, q2 = Tail(q)
  PROVE  q2 \in Seq(PacketsIn) /\ QueueOrder(q2) /\ \A no : no # p.no => SameIn(q, q2, no)
<1>1. \A no : p.no # no => SameIn(q, q2, no)
  BY InTail
<1> QED BY <1>1, InTail, QueueOrderTail

(* The entries of a number, when one is removed.                           *)
LEMMA SliceRemoved ==
  ASSUME NEW s, IsRaw(s), NEW c \in Entries(s), NEW t, Entries(t) = Entries(s) \ {c}
  PROVE  findChannelAttr(t, c.no) = {} /\ \A no : no # c.no => findChannelAttr(t, no) = findChannelAttr(s, no)
BY SliceFacts

(* The end of a channel is taken from the queue.                           *)
LEMMA LinkEnd ==
  ASSUME NEW s, IsSession(s), NEW q, NEW v, LinkOK(s, q, v), q # <<>>, NEW p, p = Head(q),
         p.type \in {"EOF", "CLOSE"}, NEW c \in Entries(s), c.no = p.no, NEW q2, q2 = Tail(q),
         NEW t, RemovedFrom(s, c, t)
  PROVE  LinkOK(t, q2, v)
<1>1. PICK es, o, w : es = {c} /\ o = s.out /\ w = v[c.no]
  OBVIOUS
<1>2. /\ IsRaw(s) /\ s.link \in BOOLEAN /\ o \in Seq(PacketsOut) /\ q \in Seq(PacketsIn)
      /\ c.no \in ChannelNos /\ c \in Channels /\ c.windowCount \in Nat /\ w \in Views
      /\ findChannelAttr(s, c.no) = es
      /\ AlwaysInv(c.no, es, q, w) /\ (s.link => LinkInv(c.no, es, o, q, w))
      /\ QueueOrder(q) /\ OutOrder(o) /\ (\A no \in ChannelNos : ~Has(o, "OPEN_FAILURE", no))
      /\ v \in [ChannelNos -> Views] /\ (s.link => Owed(s, q, v))
  BY <1>1, Setting
<1>q. q \in Seq(PacketsIn) /\ QueueOrder(q)
  BY <1>2
<1>3. q2 \in Seq(PacketsIn) /\ QueueOrder(q2) /\ \A no : no # c.no => SameIn(q, q2, no)
  BY <1>q, OthersTail
<1>4. ToAnswer(q2) = ToAnswer(q)
  BY <1>q, OthersCount
<1>5. /\ Has(q, "OPEN", c.no) <=> Has(q2, "OPEN", c.no)
      /\ Has(q, "EOF", c.no) <=> Has(q2, "EOF", c.no) \/ p.type = "EOF"
      /\ Has(q, "CLOSE", c.no) <=> Has(q2, "CLOSE", c.no) \/ p.type = "CLOSE"
      /\ HasAny(q, c.no)
      /\ ~Has(q2, "EOF", c.no)
      /\ p.type = "CLOSE" => ~HasAny(q2, c.no) /\ ~Has(q2, "CLOSE", c.no)
  BY <1>q, EndTail
<1>6. t.link = s.link /\ Entries(t) = Entries(s) \ {c}
      /\ t.out = IF s.link /\ ~c.writeClosed THEN Append(o, Packet("CLOSE", c.no, 0)) ELSE o
  BY <1>1 DEF RemovedFrom
<1>7. PICK es2, o2 : es2 = {} /\ o2 = t.out
  OBVIOUS
<1>8. findChannelAttr(t, c.no) = es2 /\ \A no : no # c.no => findChannelAttr(t, no) = findChannelAttr(s, no)
  <2>1. IsRaw(s) /\ Entries(t) = Entries(s) \ {c}
    BY <1>2, <1>6
  <2>2. findChannelAttr(t, c.no) = {}
    BY <2>1, SliceRemoved
  <2>3. \A no : no # c.no => findChannelAttr(t, no) = findChannelAttr(s, no)
    BY <2>1, SliceRemoved
  <2> QED BY <1>7, <2>2, <2>3
<1>9. PICK a : a = Packet("CLOSE", c.no, 0)
  OBVIOUS
<1>10. a \in PacketsOut /\ a.type = "CLOSE" /\ a.no = c.no
  BY <1>2, <1>9, AnswerPacket DEF AnswerTypes
<1>11. AlwaysInv(c.no, es, q, w) /\ es # {} /\ c \in es
  BY <1>1, <1>2
<1>12. AlwaysInv(c.no, es2, q2, w)
  BY <1>5, <1>7, <1>11 DEF AlwaysInv
<1>13. s.link => ~Has(o, "OPEN_CONFIRMATION", c.no)
  BY <1>2, <1>5 DEF LinkInv
<1>14. ASSUME s.link, ~c.writeClosed
       PROVE  /\ o2 \in Seq(PacketsOut) /\ OutOrder(o2) /\ \A no \in ChannelNos : ~Has(o2, "OPEN_FAILURE", no)
              /\ \A type : Has(o2, type, c.no) <=> Has(o, type, c.no) \/ "CLOSE" = type
              /\ \A no : no # c.no => SameOut(o, o2, no)
              /\ Answers(o2) = Answers(o)
  <2>1. o2 = Append(o, a)
    BY <1>6, <1>7, <1>9, <1>14
  <2>2. ~Has(o, "CLOSE", c.no)
    BY <1>1, <1>2, <1>14 DEF LinkInv, Open
  <2>3. OutOrder(o) /\ (\A no \in ChannelNos : ~Has(o, "OPEN_FAILURE", no)) /\ o \in Seq(PacketsOut)
    BY <1>2
  <2>4. Answers(o2) = Answers(o)
    BY <1>10, <2>1, <2>3, OthersCount
  <2> QED BY <1>10, <2>1, <2>2, <2>3, <2>4, OutStep
<1>15. ASSUME ~(s.link /\ ~c.writeClosed) PROVE o2 = o
  BY <1>6, <1>7, <1>15
<1>16. s.link => LinkInv(c.no, es2, o2, q2, w)
  <2>1. SUFFICES ASSUME s.link PROVE LinkInv(c.no, es2, o2, q2, w)
    OBVIOUS
  <2>2. Has(o2, "DATA", c.no) => Has(o, "DATA", c.no)
    BY <1>14, <1>15, <2>1
  <2>3. ~Has(o2, "OPEN_CONFIRMATION", c.no)
    BY <1>13, <1>14, <1>15, <2>1
  <2>4. Has(o2, "CLOSE", c.no) <=> Has(o, "CLOSE", c.no) \/ ~c.writeClosed
    BY <1>14, <1>15, <2>1
  <2>5. (Open(es) <=> ~c.writeClosed) /\ ~Open(es2)
    BY <1>1, <1>7 DEF Open
  <2>6. LinkInv(c.no, es, o, q, w)
    BY <1>2, <2>1
  <2>7. w.sentEof \in BOOLEAN /\ w.sentClose \in BOOLEAN /\ w.gotClose \in BOOLEAN /\ c.writeClosed \in BOOLEAN
    BY <1>2 DEF Views, Channels
  <2>8. \A type : type = "DATA" \/ type = "CLOSE" => type \in {"DATA", "CLOSE"}
    OBVIOUS
  <2> QED BY <1>5, <1>7, <1>11, <1>13, <2>1, <2>2, <2>3, <2>4, <2>5, <2>6, <2>7 DEF LinkInv, AlwaysInv
<1>17. NumberInv(c.no, findChannelAttr(t, c.no), t.out, q2, v[c.no], t.link)
  BY <1>1, <1>6, <1>7, <1>8, <1>12, <1>16 DEF NumberInv
<1>18. s.link => \A no : no # c.no => SameOut(o, o2, no)
  <2>1. \A no : SameOut(o, o, no)
    BY DEF SameOut
  <2> QED BY <1>14, <1>15, <2>1
<1>19. Elsewhere(c.no, s, q, v, t, q2, v)
  BY <1>1, <1>3, <1>6, <1>7, <1>8, <1>18 DEF Elsewhere
<1>20. InOrder(t, q2, v)
  BY <1>2, <1>3, <1>6, <1>7, <1>14, <1>15 DEF InOrder
<1>21. t.link => Owed(t, q2, v)
  <2>1. s.link => Answers(t.out) = Answers(s.out)
    BY <1>1, <1>7, <1>14, <1>15
  <2> QED BY <1>2, <1>4, <1>6, <2>1, OwedStill
<1> QED BY <1>2, <1>17, <1>19, <1>20, <1>21, LinkStep

(* What there is to know of any number.                                    *)
LEMMA SettingAt ==
  ASSUME NEW s, IsSession(s), NEW q, NEW v, LinkOK(s, q, v), NEW no \in ChannelNos,
         NEW es, es = findChannelAttr(s, no), NEW o, o = s.out, NEW w, w = v[no]
  PROVE  /\ IsRaw(s) /\ s.link \in BOOLEAN /\ o \in Seq(PacketsOut) /\ q \in Seq(PacketsIn)
         /\ w \in Views /\ v \in [ChannelNos -> Views]
         /\ AlwaysInv(no, es, q, w) /\ (s.link => LinkInv(no, es, o, q, w))
         /\ QueueOrder(q) /\ OutOrder(o) /\ (\A m \in ChannelNos : ~Has(o, "OPEN_FAILURE", m))
         /\ (s.link => Owed(s, q, v))
<1>1. IsRaw(s) /\ s.link \in BOOLEAN /\ s.out \in Seq(PacketsOut)
  BY DEF IsSession, IsRaw, Session
<1>2. NumberInv(no, es, o, q, w, s.link)
  BY DEF LinkOK
<1>3. w \in Views
  BY DEF LinkOK
<1> QED BY <1>1, <1>2, <1>3 DEF LinkOK, NumberInv

(* The first packet asks for a channel: there is nothing else of its number. *)
LEMMA OpenTail ==
  ASSUME NEW q \in Seq(PacketsIn), q # <<>>, QueueOrder(q), NEW p, p = Head(q), NEW q2, q2 = Tail(q),
         p.type = "OPEN"
  PROVE  /\ p \in PacketsIn /\ p.no \in ChannelNos /\ p.arg = "direct-tcpip"
         /\ Has(q, "OPEN", p.no) /\ ~Has(q, "CLOSE", p.no)
         /\ ~Has(q2, "OPEN", p.no) /\ ~Has(q2, "EOF", p.no) /\ ~Has(q2, "CLOSE", p.no) /\ ~HasAny(q2, p.no)
         /\ Bytes(q2, "DATA", p.no) = 0
<1>1. \A type, no : Has(q, type, no) <=> Has(q2, type, no) \/ (p.type = type /\ p.no = no)
  BY InTail
<1>2. ~HasAny(q2, p.no) /\ \A type : ~Has(q2, type, p.no)
  BY QueueOrderTail
<1>3. p \in PacketsIn /\ q2 \in Seq(PacketsIn)
  BY InTail
<1>4. p.no \in ChannelNos /\ p.arg = "direct-tcpip"
  BY <1>3 DEF PacketsIn
<1>5. Bytes(q2, "DATA", p.no) = 0
  BY <1>2, <1>3, BytesNone
<1> QED BY <1>1, <1>2, <1>3, <1>4, <1>5

(* The number of a channel the peer opens is free.                         *)
LEMMA OpenFree ==
  ASSUME NEW s, IsSession(s), NEW q, NEW v, LinkOK(s, q, v), q # <<>>, NEW p, p = Head(q), p.type = "OPEN",
         NEW w, w = v[p.no]
  PROVE  /\ findChannelAttr(s, p.no) = {} /\ p.no \in ChannelNos /\ p.arg = "direct-tcpip"
         /\ w.state = "opening" /\ ~w.sentEof
<1>1. q \in Seq(PacketsIn) /\ QueueOrder(q)
  BY DEF LinkOK
<1>2. p.no \in ChannelNos /\ p.arg = "direct-tcpip" /\ Has(q, "OPEN", p.no) /\ ~Has(q, "CLOSE", p.no)
  BY <1>1, OpenTail
<1>3. PICK es : es = findChannelAttr(s, p.no)
  OBVIOUS
<1>4. AlwaysInv(p.no, es, q, w)
  BY <1>2, <1>3, SettingAt
<1>5. es = {} /\ w.state = "opening" /\ ~w.sentEof
  BY <1>2, <1>4 DEF AlwaysInv
<1> QED BY <1>2, <1>3, <1>5

(* A request to open a channel is taken from the queue.                    *)
LEMMA LinkOpened ==
  ASSUME NEW s, IsSession(s), NEW q, NEW v, LinkOK(s, q, v), q # <<>>, NEW p, p = Head(q), p.type = "OPEN",
         NEW q2, q2 = Tail(q), s.link,
         NEW d, d.no = p.no, d.windowCount = WindowSize, d.writeClosed = FALSE,
         NEW t, Entries(t) = Entries(s) \cup {d}, t.link = s.link,
         t.out = Append(s.out, Packet("OPEN_CONFIRMATION", p.no, WindowSize))
  PROVE  LinkOK(t, q2, v)
<1>1. PICK n, es, o, w : n = p.no /\ es = {} /\ o = s.out /\ w = v[p.no]
  OBVIOUS
<1>2. findChannelAttr(s, n) = {} /\ n \in ChannelNos /\ w.state = "opening" /\ ~w.sentEof
  <2>1. findChannelAttr(s, p.no) = {} /\ p.no \in ChannelNos
    BY OpenFree
  <2>2. w = v[p.no]
    BY <1>1
  <2>3. w.state = "opening" /\ ~w.sentEof
    BY <2>2, OpenFree
  <2> QED BY <1>1, <2>1, <2>3
<1>3. /\ IsRaw(s) /\ s.link \in BOOLEAN /\ o \in Seq(PacketsOut) /\ q \in Seq(PacketsIn)
      /\ w \in Views /\ v \in [ChannelNos -> Views]
      /\ AlwaysInv(n, es, q, w) /\ (s.link => LinkInv(n, es, o, q, w))
      /\ QueueOrder(q) /\ OutOrder(o) /\ (\A m \in ChannelNos : ~Has(o, "OPEN_FAILURE", m))
      /\ (s.link => Owed(s, q, v))
  BY <1>1, <1>2, SettingAt
<1>q. q \in Seq(PacketsIn) /\ QueueOrder(q)
  BY <1>3
<1>4. /\ Has(q, "OPEN", n) /\ ~Has(q, "CLOSE", n)
      /\ ~Has(q2, "OPEN", n) /\ ~Has(q2, "EOF", n) /\ ~Has(q2, "CLOSE", n) /\ ~HasAny(q2, n)
      /\ Bytes(q2, "DATA", n) = 0
  BY <1>1, <1>q, OpenTail
<1>5. q2 \in Seq(PacketsIn) /\ QueueOrder(q2) /\ \A no : no # n => SameIn(q, q2, no)
  BY <1>1, <1>q, OthersTail
<1>6. ToAnswer(q2) = ToAnswer(q)
  BY <1>q, OthersCount
<1>7. PICK es2, o2 : es2 = {d} /\ o2 = t.out
  OBVIOUS
<1>8. findChannelAttr(t, n) = es2
  BY <1>1, <1>2, <1>7 DEF findChannelAttr
<1>9. \A no : no # n => findChannelAttr(t, no) = findChannelAttr(s, no)
  BY <1>1 DEF findChannelAttr
<1>10. PICK a : a = Packet("OPEN_CONFIRMATION", n, WindowSize)
  OBVIOUS
<1>11. a \in PacketsOut /\ a.type = "OPEN_CONFIRMATION" /\ a.no = n
  BY <1>2, <1>10, SshChannelAssumption DEF PacketsOut, AnswerTypes, Packet
<1>12. o2 = Append(o, a)
  BY <1>1, <1>7, <1>10
<1>13. ~Has(o, "OPEN_CONFIRMATION", n) /\ ~Has(o, "CLOSE", n) /\ ~Has(o, "DATA", n)
  BY <1>1, <1>2, <1>3 DEF LinkInv
<1>14. /\ o2 \in Seq(PacketsOut) /\ OutOrder(o2) /\ \A no \in ChannelNos : ~Has(o2, "OPEN_FAILURE", no)
       /\ \A type : Has(o2, type, n) <=> Has(o, type, n) \/ a.type = type
       /\ \A no : no # n => SameOut(o, o2, no)
  BY <1>3, <1>11, <1>12, <1>13, OutStep
<1>15. Answers(o2) = Answers(o)
  BY <1>3, <1>11, <1>12, OthersCount
<1>16. AlwaysInv(n, es2, q2, w)
  BY <1>2, <1>4, <1>7, SshChannelAssumption DEF AlwaysInv
<1>17. LinkInv(n, es2, o2, q2, w)
  <2>1. Has(o2, "OPEN_CONFIRMATION", n) /\ ~Has(o2, "CLOSE", n)
    BY <1>11, <1>13, <1>14
  <2>2. Open(es2) /\ es2 # {} /\ \A x \in es2 : x.windowCount = WindowSize
    BY <1>7 DEF Open
  <2>3. ~w.sentClose /\ ~w.gotClose
    BY <1>2, <1>3 DEF LinkInv
  <2> QED BY <1>2, <1>4, <2>1, <2>2, <2>3 DEF LinkInv
<1>18. NumberInv(n, findChannelAttr(t, n), t.out, q2, v[n], t.link)
  BY <1>1, <1>7, <1>8, <1>16, <1>17 DEF NumberInv
<1>19. Elsewhere(n, s, q, v, t, q2, v)
  BY <1>1, <1>5, <1>7, <1>9, <1>14 DEF Elsewhere
<1>20. InOrder(t, q2, v)
  BY <1>3, <1>5, <1>7, <1>14 DEF InOrder
<1>21. t.link => Owed(t, q2, v)
  BY <1>1, <1>3, <1>6, <1>7, <1>15, OwedStill
<1> QED BY <1>3, <1>18, <1>19, <1>20, <1>21, LinkStep

-----------------------------------------------------------------------------
(* What the peer does to the views. *)

(* What one more packet in flight tells of its number.                     *)
LEMMA InSent ==
  ASSUME NEW q \in Seq(PacketsIn), NEW p \in PacketsIn, NEW q2, q2 = Append(q, p)
  PROVE  /\ q2 \in Seq(PacketsIn)
         /\ Has(q2, "OPEN", p.no) <=> Has(q, "OPEN", p.no) \/ p.type = "OPEN"
         /\ Has(q2, "EOF", p.no) <=> Has(q, "EOF", p.no) \/ p.type = "EOF"
         /\ Has(q2, "CLOSE", p.no) <=> Has(q, "CLOSE", p.no) \/ p.type = "CLOSE"
         /\ HasAny(q2, p.no) <=> HasAny(q, p.no) \/ p.type # "OPEN"
         /\ \A no : no # p.no => SameIn(q, q2, no)
<1>1. /\ \A type, no : Has(q2, type, no) <=> Has(q, type, no) \/ (p.type = type /\ p.no = no)
      /\ \A no : HasAny(q2, no) <=> HasAny(q, no) \/ (p.type # "OPEN" /\ p.no = no)
  BY InAppend
<1>2. q2 \in Seq(PacketsIn) /\ \A no : p.no # no => SameIn(q, q2, no)
  BY InAppend
<1> QED BY <1>1, <1>2

(* What it adds to the bytes in flight.                                    *)
LEMMA InSentBytes ==
  ASSUME NEW q \in Seq(PacketsIn), NEW p \in PacketsIn, NEW q2, q2 = Append(q, p)
  PROVE  /\ p.type # "DATA" => Bytes(q2, "DATA", p.no) = Bytes(q, "DATA", p.no)
         /\ p.type = "DATA" => Bytes(q2, "DATA", p.no) = Bytes(q, "DATA", p.no) + DataLen
         /\ Bytes(q, "DATA", p.no) \in Nat
<1>1. HasBytes(Append(q, p), "DATA")
  BY InSent, PacketFacts
<1>2. p.type = "DATA" => p.arg = DataLen
  BY DEF PacketsIn
<1>3. CASE p.type = "DATA"
  BY <1>1, <1>2, <1>3, BytesAppend
<1>4. CASE p.type # "DATA"
  <2>1. Bytes(q, "DATA", p.no) \in Nat /\ Bytes(q2, "DATA", p.no) = Bytes(q, "DATA", p.no) + 0
    BY <1>1, <1>4, BytesAppend
  <2> QED BY <1>4, <2>1
<1> QED BY <1>3, <1>4

\* The replies awaited are those of the requests.
Awaits(q, q2, w, w2) ==
  \E more \in {0, 1} : w2.awaiting = w.awaiting + more /\ ToAnswer(q2) = ToAnswer(q) + more

\* In the views v2 the number no is seen as w; they are those of v otherwise.
SeenAs(v, no, w, v2) == v2 = [v EXCEPT ![no] = w]

(* The peer sends p and takes another view of its number.                  *)
LEMMA LinkSent ==
  ASSUME NEW s, IsSession(s), NEW q, NEW v, LinkOK(s, q, v), s.link, NEW p \in PacketsIn,
         NEW q2, q2 = Append(q, p), NEW w, w = v[p.no], NEW w2 \in Views,
         NEW v2, v2 = [v EXCEPT ![p.no] = w2],
         ~Has(q, "OPEN", p.no), Has(q, "CLOSE", p.no) => p.type = "OPEN",
         Has(q, "EOF", p.no) => p.type \notin {"DATA", "EOF"},
         NEW es, es = findChannelAttr(s, p.no), NEW o, o = s.out,
         AlwaysInv(p.no, es, q2, w2), LinkInv(p.no, es, o, q2, w2),
         Awaits(q, q2, w, w2)
  PROVE  LinkOK(s, q2, v2)
<1>1. p.no \in ChannelNos
  BY DEF PacketsIn
<1>2. /\ s.link \in BOOLEAN /\ o \in Seq(PacketsOut) /\ q \in Seq(PacketsIn)
      /\ w \in Views /\ v \in [ChannelNos -> Views]
      /\ QueueOrder(q) /\ OutOrder(o) /\ (\A m \in ChannelNos : ~Has(o, "OPEN_FAILURE", m))
      /\ Owed(s, q, v)
  BY <1>1, SettingAt
<1>3. QueueOrder(q2)
  BY <1>2, QueueOrderAppend
<1>4. q2 \in Seq(PacketsIn) /\ \A no : no # p.no => SameIn(q, q2, no)
  BY <1>2, InSent
<1>5. v2 \in [ChannelNos -> Views] /\ v2[p.no] = w2 /\ \A no \in ChannelNos : no # p.no => v2[no] = v[no]
  BY <1>1, <1>2
<1>6. NumberInv(p.no, findChannelAttr(s, p.no), s.out, q2, v2[p.no], s.link)
  BY <1>5 DEF NumberInv
<1>7. Elsewhere(p.no, s, q, v, s, q2, v2)
  <2>1. \A no : SameOut(s.out, s.out, no)
    BY DEF SameOut
  <2> QED BY <1>4, <1>5, <2>1 DEF Elsewhere
<1>8. InOrder(s, q2, v2)
  BY <1>2, <1>3, <1>4, <1>5 DEF InOrder
<1>9. Owed(s, q2, v2)
  <2>1. Awaited(v) \in Int /\ Awaited(v2) = Awaited(v) + w2.awaiting - w.awaiting
    BY <1>1, <1>2, AwaitedChanges
  <2>a. PICK more \in {0, 1} : w2.awaiting = w.awaiting + more /\ ToAnswer(q2) = ToAnswer(q) + more
    BY DEF Awaits
  <2>2. w.awaiting \in Int /\ w2.awaiting = w.awaiting + more
    BY <1>2, <2>a DEF Views
  <2>3. Awaited(v2) = Awaited(v) + more
    BY <2>1, <2>2
  <2>4. ToAnswer(q) \in Nat /\ Answers(o) \in Nat
    <3>1. PICK x : x = Packet("CLOSE", 0, 0)
      OBVIOUS
    <3>2. x \in PacketsIn /\ x \in PacketsOut
      BY <3>1, SshChannelAssumption DEF PacketsIn, PacketsOut, Types, AnswerTypes, Packet
    <3> QED BY <1>2, <3>2, ToAnswerAppend, AnswersAppend
  <2>5. Awaited(v) = ToAnswer(q) + Answers(o)
    BY <1>2 DEF Owed
  <2>6. Awaited(v2) = ToAnswer(q2) + Answers(o)
    BY <2>a, <2>3, <2>4, <2>5
  <2> QED BY <2>6 DEF Owed
<1> QED BY <1>2, <1>6, <1>7, <1>8, <1>9, LinkStep

(* A packet of the peer has its types.                                     *)
LEMMA PeerPacket ==
  ASSUME NEW no \in ChannelNos
  PROVE  /\ Packet("OPEN", no, "direct-tcpip") \in PacketsIn
         /\ Packet("DATA", no, DataLen) \in PacketsIn
         /\ \A r \in PeerRequests : Packet("REQUEST", no, r) \in PacketsIn
         /\ Packet("ADJUST", no, DataLen) \in PacketsIn
         /\ Packet("EOF", no, 0) \in PacketsIn
         /\ Packet("CLOSE", no, 0) \in PacketsIn
<1>1. DataLen \in Nat
  BY SshChannelAssumption
<1>2. Packet("OPEN", no, "direct-tcpip") \in PacketsIn
  BY DEF Packet, PacketsIn, Types
<1>3. Packet("DATA", no, DataLen) \in PacketsIn
  BY <1>1 DEF Packet, PacketsIn, Types
<1>4. \A r \in PeerRequests : Packet("REQUEST", no, r) \in PacketsIn
  BY DEF Packet, PacketsIn, Types
<1>5. Packet("ADJUST", no, DataLen) \in PacketsIn
  BY <1>1 DEF Packet, PacketsIn, Types
<1>6. Packet("EOF", no, 0) \in PacketsIn
  BY DEF Packet, PacketsIn, Types
<1>7. Packet("CLOSE", no, 0) \in PacketsIn
  BY DEF Packet, PacketsIn, Types
<1> QED BY <1>2, <1>3, <1>4, <1>5, <1>6, <1>7

(* On a channel the peer may write to, nothing opens or closes it.         *)
LEMMA MayWrite ==
  ASSUME NEW no, NEW es, NEW o, NEW q, NEW w, AlwaysInv(no, es, q, w), LinkInv(no, es, o, q, w),
         w.state = "open", ~w.sentClose
  PROVE  ~Has(q, "OPEN", no) /\ ~Has(q, "CLOSE", no) /\ ~Has(o, "OPEN_CONFIRMATION", no) /\ (es = {} => w.sentEof)
BY DEF AlwaysInv, LinkInv

\* The peer's view w of the number becomes w2 when it sends p.
ViewSent(w, p, w2) ==
  /\ w2.sentEof <=> w.sentEof \/ p.type = "EOF"
  /\ \/ /\ w2.state = "open" /\ (w2.gotClose <=> w.gotClose) /\ (w2.sentClose <=> p.type = "CLOSE")
        /\ p.type = "DATA" => w.credit = w2.credit + DataLen
        /\ p.type # "DATA" => w.credit = w2.credit
     \/ w2.state = "none" /\ ~w2.gotClose /\ ~w2.sentClose /\ w.gotClose /\ p.type = "CLOSE"

(* The number keeps its promises when the peer sends on an open channel.   *)
LEMMA NumberWritten ==
  ASSUME NEW s, IsSession(s), NEW no \in ChannelNos, NEW es, es = findChannelAttr(s, no),
         NEW o \in Seq(PacketsOut), NEW q \in Seq(PacketsIn), NEW w \in Views, NEW w2 \in Views,
         AlwaysInv(no, es, q, w), LinkInv(no, es, o, q, w), w.state = "open", ~w.sentClose,
         NEW p \in PacketsIn, p.no = no, p.type # "OPEN", p.type \in {"DATA", "EOF"} => ~w.sentEof,
         NEW q2, q2 = Append(q, p), ViewSent(w, p, w2)
  PROVE  AlwaysInv(no, es, q2, w2) /\ LinkInv(no, es, o, q2, w2)
<1>1. ~Has(q, "OPEN", no) /\ ~Has(q, "CLOSE", no) /\ ~Has(o, "OPEN_CONFIRMATION", no) /\ (es = {} => w.sentEof)
  BY MayWrite
<1>2. /\ ~Has(q2, "OPEN", no)
      /\ Has(q2, "EOF", no) <=> Has(q, "EOF", no) \/ p.type = "EOF"
      /\ Has(q2, "CLOSE", no) <=> p.type = "CLOSE"
      /\ HasAny(q2, no)
  BY <1>1, InSent
<1>3. PICK b, b2, a : b = Bytes(q, "DATA", no) /\ b2 = Bytes(q2, "DATA", no) /\ a = Bytes(o, "ADJUST", no)
  OBVIOUS
<1>4. b \in Nat /\ (p.type # "DATA" => b2 = b) /\ (p.type = "DATA" => b2 = b + DataLen)
  BY <1>3, InSentBytes
<1>5. a \in Nat
  BY <1>3, BytesNat
<1>6. DataLen \in Nat /\ w.credit \in Nat /\ w2.credit \in Nat
  BY SshChannelAssumption DEF Views
<1>7. ASSUME NEW c \in es PROVE c.windowCount \in Nat
  BY <1>7, EntryFacts DEF findChannelAttr, IsSession
<1>8. ASSUME NEW c \in es
      PROVE  /\ b2 <= c.windowCount
             /\ w2.state = "open" => c.windowCount = w2.credit + b2 + a
  <2>1. PICK m : m = c.windowCount /\ m \in Nat
    BY <1>7
  <2>2. m = w.credit + b + a /\ b <= m
    BY <1>3, <1>8, <2>1 DEF LinkInv, AlwaysInv
  <2>3. PICK k, k2 : k = w.credit /\ k2 = w2.credit /\ k \in Nat /\ k2 \in Nat
    BY <1>6
  <2>4. m = k + b + a
    BY <2>2, <2>3
  <2>5. CASE w2.state = "open" /\ p.type = "DATA"
    <3>1. k = k2 + DataLen /\ b2 = b + DataLen
      BY <1>4, <2>3, <2>5 DEF ViewSent
    <3>2. m = k2 + b2 + a /\ b2 <= m
      <4>1. m \in Nat /\ k \in Nat /\ k2 \in Nat /\ b \in Nat /\ a \in Nat /\ DataLen \in Nat
        BY <1>4, <1>5, <1>6, <2>1, <2>3
      <4> QED BY <2>4, <3>1, <4>1, WindowSpent
    <3> QED BY <2>1, <2>3, <3>2
  <2>6. CASE w2.state = "open" /\ p.type # "DATA"
    <3>1. k = k2 /\ b2 = b
      BY <1>4, <2>3, <2>6 DEF ViewSent
    <3> QED BY <2>1, <2>2, <2>3, <2>4, <3>1
  <2>7. CASE w2.state # "open"
    <3>1. b2 = b
      BY <1>4, <2>7 DEF ViewSent
    <3> QED BY <2>1, <2>2, <2>7, <3>1
  <2> QED BY <2>5, <2>6, <2>7
<1>9. AlwaysInv(no, es, q2, w2)
  <2>1. w2.sentEof <=> w.sentEof \/ p.type = "EOF"
    BY DEF ViewSent
  <2>2. \A c \in es : b2 <= c.windowCount
    BY <1>8
  <2>3. Has(q2, "CLOSE", no) => w2.sentClose \/ w2.state # "open"
    BY <1>2 DEF ViewSent
  <2>4. p.type = "EOF" => es # {}
    BY <1>1
  <2> QED BY <1>1, <1>2, <1>3, <2>1, <2>2, <2>3, <2>4 DEF AlwaysInv
<1>10. LinkInv(no, es, o, q2, w2)
  <2>1. w2.sentEof <=> w.sentEof \/ p.type = "EOF"
    BY DEF ViewSent
  <2>2. w2.state = "open" => \A c \in es : c.windowCount = w2.credit + b2 + a
    BY <1>8
  <2>3. CASE w2.state = "open" /\ (w2.gotClose <=> w.gotClose) /\ (w2.sentClose <=> p.type = "CLOSE")
    BY <1>1, <1>2, <1>3, <2>1, <2>2, <2>3 DEF LinkInv
  <2>4. CASE w2.state = "none" /\ ~w2.gotClose /\ ~w2.sentClose /\ w.gotClose /\ p.type = "CLOSE"
    BY <1>1, <1>2, <2>4 DEF LinkInv
  <2> QED BY <2>3, <2>4 DEF ViewSent
<1> QED BY <1>9, <1>10

(* The peer sends on a channel that is open.                               *)
LEMMA LinkWritten ==
  ASSUME NEW s, IsSession(s), NEW q, NEW v, LinkOK(s, q, v), s.link, NEW no \in ChannelNos,
         NEW w, w = v[no], w.state = "open", ~w.sentClose,
         NEW p \in PacketsIn, p.no = no, p.type # "OPEN", p.type \in {"DATA", "EOF"} => ~w.sentEof,
         NEW q2, q2 = Append(q, p), NEW w2 \in Views, NEW v2, SeenAs(v, no, w2, v2),
         ViewSent(w, p, w2), Awaits(q, q2, w, w2)
  PROVE  LinkOK(s, q2, v2)
<1>1. PICK es, o : es = findChannelAttr(s, no) /\ o = s.out
  OBVIOUS
<1>2. /\ o \in Seq(PacketsOut) /\ q \in Seq(PacketsIn) /\ w \in Views
      /\ AlwaysInv(no, es, q, w) /\ LinkInv(no, es, o, q, w)
  BY <1>1, SettingAt
<1>3. AlwaysInv(no, es, q2, w2) /\ LinkInv(no, es, o, q2, w2)
  BY <1>1, <1>2, NumberWritten
<1>4. ~Has(q, "OPEN", no) /\ ~Has(q, "CLOSE", no)
  BY <1>2, MayWrite
<1>5. Has(q, "EOF", no) => p.type \notin {"DATA", "EOF"}
  BY <1>2 DEF AlwaysInv
<1>6. /\ ~Has(q, "OPEN", p.no) /\ (Has(q, "CLOSE", p.no) => p.type = "OPEN")
      /\ (Has(q, "EOF", p.no) => p.type \notin {"DATA", "EOF"})
      /\ AlwaysInv(p.no, es, q2, w2) /\ LinkInv(p.no, es, o, q2, w2)
  BY <1>3, <1>4, <1>5
<1>7. w = v[p.no] /\ v2 = [v EXCEPT ![p.no] = w2] /\ es = findChannelAttr(s, p.no) /\ o = s.out
  BY <1>1 DEF SeenAs
<1> QED BY <1>6, <1>7, LinkSent

\* The number is free in the view w and asked for in w2.
Asked(w, w2) ==
  /\ w.state = "none" /\ w2.state = "opening" /\ w2.awaiting = w.awaiting
  /\ (w2.sentEof <=> w.sentEof) /\ (w2.sentClose <=> w.sentClose) /\ (w2.gotClose <=> w.gotClose)

(* The peer asks for a channel.                                            *)
LEMMA LinkAsked ==
  ASSUME NEW s, IsSession(s), NEW q, NEW v, LinkOK(s, q, v), s.link, NEW no \in ChannelNos,
         NEW w, w = v[no], NEW p \in PacketsIn, p.no = no, p.type = "OPEN",
         NEW q2, q2 = Append(q, p), NEW w2 \in Views, NEW v2, SeenAs(v, no, w2, v2), Asked(w, w2)
  PROVE  LinkOK(s, q2, v2)
<1>1. PICK es, o : es = findChannelAttr(s, no) /\ o = s.out
  OBVIOUS
<1>2. /\ o \in Seq(PacketsOut) /\ q \in Seq(PacketsIn) /\ w \in Views
      /\ AlwaysInv(no, es, q, w) /\ LinkInv(no, es, o, q, w)
  BY <1>1, SettingAt
<1>3. ~Has(q, "OPEN", no)
  BY <1>2 DEF AlwaysInv, Asked
<1>4. /\ Has(q2, "OPEN", no)
      /\ Has(q2, "EOF", no) <=> Has(q, "EOF", no)
      /\ Has(q2, "CLOSE", no) <=> Has(q, "CLOSE", no)
      /\ HasAny(q2, no) <=> HasAny(q, no)
  BY <1>2, InSent
<1>5. Bytes(q2, "DATA", no) = Bytes(q, "DATA", no)
  BY <1>2, InSentBytes
<1>6. AlwaysInv(no, es, q2, w2)
  BY <1>2, <1>4, <1>5 DEF AlwaysInv, LinkInv, Asked
<1>7. LinkInv(no, es, o, q2, w2)
  <2>1. ~Has(o, "OPEN_CONFIRMATION", no) /\ ~Has(o, "CLOSE", no) /\ ~Has(o, "DATA", no) /\ ~Open(es)
    BY <1>2 DEF LinkInv, Asked
  <2> QED BY <1>2, <1>4, <2>1 DEF LinkInv, Asked
<1>8. Awaits(q, q2, w, w2)
  <2>1. ToAnswer(q) \in Nat
    BY <1>2, ToAnswerAppend
  <2>2. ToAnswer(q2) = ToAnswer(q)
    BY <1>2, OthersCount
  <2>3. w.awaiting \in Int
    BY <1>2 DEF Views
  <2>4. w2.awaiting = w.awaiting + 0 /\ ToAnswer(q2) = ToAnswer(q) + 0
    BY <2>1, <2>2, <2>3 DEF Asked
  <2> QED BY <2>4 DEF Awaits
<1>9. v2 = [v EXCEPT ![p.no] = w2]
  BY DEF SeenAs
<1> QED BY <1>1, <1>3, <1>6, <1>7, <1>8, <1>9, LinkSent

(* What the first packet to the peer tells of its number.                  *)
LEMMA OutReceived ==
  ASSUME NEW o \in Seq(PacketsOut), o # <<>>, OutOrder(o), NEW p, p = Head(o), NEW o2, o2 = Tail(o)
  PROVE  /\ o2 \in Seq(PacketsOut) /\ OutOrder(o2) /\ p \in PacketsOut
         /\ Has(o, "OPEN_CONFIRMATION", p.no) <=> Has(o2, "OPEN_CONFIRMATION", p.no) \/ p.type = "OPEN_CONFIRMATION"
         /\ Has(o, "DATA", p.no) <=> Has(o2, "DATA", p.no) \/ p.type = "DATA"
         /\ Has(o, "CLOSE", p.no) <=> Has(o2, "CLOSE", p.no) \/ p.type = "CLOSE"
         /\ p.type = "CLOSE" =>
              ~Has(o2, "DATA", p.no) /\ ~Has(o2, "CLOSE", p.no) /\ ~Has(o2, "OPEN_CONFIRMATION", p.no)
         /\ p.type = "OPEN_CONFIRMATION" => ~Has(o2, "OPEN_CONFIRMATION", p.no) /\ ~Has(o2, "ADJUST", p.no)
         /\ \A no : no # p.no => SameOut(o, o2, no)
<1>1. \A type, no : Has(o, type, no) <=> Has(o2, type, no) \/ (p.type = type /\ p.no = no)
  BY OutTail
<1>2. o2 \in Seq(PacketsOut) /\ p \in PacketsOut
  BY OutTail
<1>3. \A no : p.no # no => SameOut(o, o2, no)
  BY OutTail
<1>4. /\ OutOrder(o2)
      /\ p.type = "CLOSE" => ~Has(o2, "DATA", p.no) /\ ~Has(o2, "CLOSE", p.no) /\ ~Has(o2, "OPEN_CONFIRMATION", p.no)
      /\ p.type \in {"DATA", "OPEN_CONFIRMATION"} => ~Has(o2, "OPEN_CONFIRMATION", p.no)
      /\ p.type = "OPEN_CONFIRMATION" => ~Has(o2, "ADJUST", p.no)
  BY OutOrderTail
<1> QED BY <1>1, <1>2, <1>3, <1>4

(* And of the bytes it gives leave to send.                                *)
LEMMA OutReceivedBytes ==
  ASSUME NEW o \in Seq(PacketsOut), o # <<>>, NEW p, p = Head(o), NEW o2, o2 = Tail(o)
  PROVE  /\ p.type # "ADJUST" => Bytes(o, "ADJUST", p.no) = Bytes(o2, "ADJUST", p.no)
         /\ p.type = "ADJUST" => Bytes(o, "ADJUST", p.no) = Bytes(o2, "ADJUST", p.no) + p.arg
         /\ Bytes(o2, "ADJUST", p.no) \in Nat /\ p.arg \in Nat
<1>1. HasBytes(o, "ADJUST")
  BY PacketFacts
<1>2. p.arg \in Nat
  BY OutTail DEF PacketsOut
<1>3. CASE p.type = "ADJUST"
  BY <1>1, <1>2, <1>3, BytesTail
<1>4. CASE p.type # "ADJUST"
  <2>1. Bytes(o2, "ADJUST", p.no) \in Nat /\ Bytes(o, "ADJUST", p.no) = Bytes(o2, "ADJUST", p.no) + 0
    BY <1>1, <1>4, BytesTail
  <2> QED BY <1>2, <1>4, <2>1
<1> QED BY <1>3, <1>4

\* The replies awaited are as many fewer as were received.
Receives(o, o2, w, w2) ==
  \E less \in {0, 1} : w2.awaiting = w.awaiting - less /\ Answers(o) = Answers(o2) + less

(* The peer receives p and takes another view of its number.               *)
LEMMA LinkReceived ==
  ASSUME NEW s, IsSession(s), NEW q, NEW v, LinkOK(s, q, v), s.link, NEW o, o = s.out, o # <<>>,
         NEW p, p = Head(o), NEW o2, o2 = Tail(o),
         NEW t, Entries(t) = Entries(s), t.link = s.link, t.out = o2,
         NEW w, w = v[p.no], NEW w2 \in Views, NEW v2, SeenAs(v, p.no, w2, v2),
         NEW es, es = findChannelAttr(s, p.no),
         AlwaysInv(p.no, es, q, w2), LinkInv(p.no, es, o2, q, w2), Receives(o, o2, w, w2)
  PROVE  LinkOK(t, q, v2)
<1>0. o \in Seq(PacketsOut)
  BY DEF IsSession, IsRaw, Session
<1>1. p.no \in ChannelNos
  BY <1>0, OutTail DEF PacketsOut
<1>2. /\ s.link \in BOOLEAN /\ q \in Seq(PacketsIn)
      /\ w \in Views /\ v \in [ChannelNos -> Views]
      /\ QueueOrder(q) /\ OutOrder(o) /\ (\A m \in ChannelNos : ~Has(o, "OPEN_FAILURE", m))
      /\ Owed(s, q, v)
  BY <1>1, SettingAt
<1>3. OutOrder(o2) /\ o2 \in Seq(PacketsOut) /\ \A no : no # p.no => SameOut(o, o2, no)
  BY <1>0, <1>2, OutReceived
<1>4. \A m \in ChannelNos : ~Has(o2, "OPEN_FAILURE", m)
  BY <1>0, <1>2, OutTail
<1>5. v2 \in [ChannelNos -> Views] /\ v2[p.no] = w2 /\ \A no \in ChannelNos : no # p.no => v2[no] = v[no]
  BY <1>1, <1>2 DEF SeenAs
<1>6. \A no : findChannelAttr(t, no) = findChannelAttr(s, no)
  BY DEF findChannelAttr
<1>7. NumberInv(p.no, findChannelAttr(t, p.no), t.out, q, v2[p.no], t.link)
  BY <1>5, <1>6 DEF NumberInv
<1>8. Elsewhere(p.no, s, q, v, t, q, v2)
  <2>1. \A no : SameIn(q, q, no)
    BY DEF SameIn
  <2> QED BY <1>3, <1>5, <1>6, <2>1 DEF Elsewhere
<1>9. InOrder(t, q, v2)
  BY <1>2, <1>3, <1>4, <1>5 DEF InOrder
<1>10. Owed(t, q, v2)
  <2>1. Awaited(v) \in Int /\ Awaited(v2) = Awaited(v) + w2.awaiting - w.awaiting
    BY <1>1, <1>2, AwaitedChanges DEF SeenAs
  <2>a. PICK less \in {0, 1} : w2.awaiting = w.awaiting - less /\ Answers(o) = Answers(o2) + less
    BY DEF Receives
  <2>2. w.awaiting \in Int /\ w2.awaiting = w.awaiting - less
    BY <1>2, <2>a DEF Views
  <2>3. Awaited(v2) = Awaited(v) - less
    BY <2>1, <2>2
  <2>4. ToAnswer(q) \in Nat /\ Answers(o2) \in Nat
    <3>1. PICK x : x = Packet("CLOSE", 0, 0)
      OBVIOUS
    <3>2. x \in PacketsIn /\ x \in PacketsOut
      BY <3>1, SshChannelAssumption DEF PacketsIn, PacketsOut, Types, AnswerTypes, Packet
    <3> QED BY <1>2, <1>3, <3>2, ToAnswerAppend, AnswersAppend
  <2>5. Awaited(v) = ToAnswer(q) + Answers(o)
    BY <1>2 DEF Owed
  <2>6. Awaited(v2) = ToAnswer(q) + Answers(o2)
    BY <2>a, <2>3, <2>4, <2>5
  <2> QED BY <2>6 DEF Owed
<1> QED BY <1>2, <1>7, <1>8, <1>9, <1>10, LinkStep

\* The peer's view w of the number becomes w2 when it receives p (PeerReceive).
ViewReceived(w, p, w2) ==
  /\ w2.sentEof <=> w.sentEof
  /\ p.type = "OPEN_CONFIRMATION" =>
       w2.state = "open" /\ w2.credit = p.arg /\ (w2.sentClose <=> w.sentClose) /\ (w2.gotClose <=> w.gotClose)
  /\ p.type = "ADJUST" =>
       /\ w2.state = w.state /\ w2.credit = w.credit + p.arg
       /\ (w2.sentClose <=> w.sentClose) /\ (w2.gotClose <=> w.gotClose)
  /\ p.type \in {"SUCCESS", "FAILURE", "DATA"} =>
       /\ w2.state = w.state /\ w2.credit = w.credit
       /\ (w2.sentClose <=> w.sentClose) /\ (w2.gotClose <=> w.gotClose)
  /\ p.type = "CLOSE" /\ w.sentClose => w2.state = "none" /\ ~w2.sentClose /\ ~w2.gotClose
  /\ p.type = "CLOSE" /\ ~w.sentClose => w2.state = w.state /\ w2.credit = w.credit /\ ~w2.sentClose /\ w2.gotClose

(* A number of which nothing is in flight to the server.                   *)
LEMMA NothingIn ==
  ASSUME NEW q \in Seq(PacketsIn), NEW no, ~HasAny(q, no), ~Has(q, "OPEN", no)
  PROVE  ~Has(q, "CLOSE", no) /\ ~Has(q, "EOF", no) /\ Bytes(q, "DATA", no) = 0
<1>1. \A type : type # "OPEN" => ~Has(q, type, no)
  BY DEF Has, HasAny
<1>2. ~Has(q, "DATA", no)
  BY <1>1
<1> QED BY <1>1, <1>2, BytesNone

(* Leave to send that was received is no more in flight.                   *)
LEMMA WindowShift ==
  ASSUME NEW k \in Nat, NEW k2 \in Nat, NEW a \in Nat, NEW a2 \in Nat, NEW b \in Nat, k2 + a2 = k + a
  PROVE  k2 + b + a2 = k + b + a
OBVIOUS

(* The number keeps its promises when the peer receives a packet.          *)
LEMMA NumberReceived ==
  ASSUME NEW s, IsSession(s), NEW no \in ChannelNos, NEW es, es = findChannelAttr(s, no),
         NEW o \in Seq(PacketsOut), NEW q \in Seq(PacketsIn), NEW w \in Views, NEW w2 \in Views,
         AlwaysInv(no, es, q, w), LinkInv(no, es, o, q, w), OutOrder(o), o # <<>>,
         NEW p, p = Head(o), p.no = no, p.type # "OPEN_FAILURE", NEW o2, o2 = Tail(o), ViewReceived(w, p, w2)
  PROVE  AlwaysInv(no, es, q, w2) /\ LinkInv(no, es, o2, q, w2)
<1>1. /\ p \in PacketsOut
      /\ Has(o, "OPEN_CONFIRMATION", no) <=> Has(o2, "OPEN_CONFIRMATION", no) \/ p.type = "OPEN_CONFIRMATION"
      /\ Has(o, "DATA", no) <=> Has(o2, "DATA", no) \/ p.type = "DATA"
      /\ Has(o, "CLOSE", no) <=> Has(o2, "CLOSE", no) \/ p.type = "CLOSE"
      /\ p.type = "CLOSE" =>
           ~Has(o2, "DATA", no) /\ ~Has(o2, "CLOSE", no) /\ ~Has(o2, "OPEN_CONFIRMATION", no)
      /\ p.type = "OPEN_CONFIRMATION" => ~Has(o2, "OPEN_CONFIRMATION", no) /\ ~Has(o2, "ADJUST", no)
  BY OutReceived
<1>2. PICK a, a2, b : a = Bytes(o, "ADJUST", no) /\ a2 = Bytes(o2, "ADJUST", no) /\ b = Bytes(q, "DATA", no)
  OBVIOUS
<1>3. (p.type # "ADJUST" => a = a2) /\ (p.type = "ADJUST" => a = a2 + p.arg) /\ a2 \in Nat /\ p.arg \in Nat
  BY <1>2, OutReceivedBytes
<1>4. b \in Nat
  BY <1>2, BytesNat
<1>5. CASE p.type = "OPEN_CONFIRMATION"
  <2>1. /\ es # {} /\ w.state = "opening" /\ ~HasAny(q, no) /\ ~Has(q, "OPEN", no)
        /\ \A c \in es : c.windowCount = WindowSize
        /\ ~Has(o, "CLOSE", no) => Open(es)
        /\ ~w.sentClose /\ ~w.gotClose
    BY <1>1, <1>5 DEF LinkInv
  <2>2. ~Has(q, "CLOSE", no) /\ ~Has(q, "EOF", no) /\ b = 0
    BY <1>2, <2>1, NothingIn
  <2>3. w2.state = "open" /\ w2.credit = p.arg /\ ~w2.sentClose /\ ~w2.gotClose /\ (w2.sentEof <=> w.sentEof)
    BY <1>5, <2>1 DEF ViewReceived
  <2>4. w2.credit = WindowSize
    BY <1>1, <1>5, <2>3 DEF PacketsOut
  <2>5. o2 \in Seq(PacketsOut)
    BY OutReceived
  <2>6. a2 = 0
    BY <1>1, <1>2, <1>5, <2>5, BytesNone
  <2>7. \A c \in es : c.windowCount = w2.credit + b + a2
    BY <2>1, <2>2, <2>4, <2>6, SshChannelAssumption
  <2>8. AlwaysInv(no, es, q, w2)
    BY <2>1, <2>2, <2>3 DEF AlwaysInv
  <2>9. LinkInv(no, es, o2, q, w2)
    BY <1>1, <1>2, <1>5, <2>1, <2>2, <2>3, <2>7 DEF LinkInv
  <2> QED BY <2>8, <2>9
<1>6. CASE p.type \in {"ADJUST", "SUCCESS", "FAILURE", "DATA"}
  <2>1. w2.state = w.state /\ (w2.sentClose <=> w.sentClose) /\ (w2.gotClose <=> w.gotClose) /\ (w2.sentEof <=> w.sentEof)
    BY <1>6 DEF ViewReceived
  <2>2. w2.credit + a2 = w.credit + a
    <3>1. w.credit \in Nat
      BY DEF Views
    <3>2. CASE p.type = "ADJUST"
      <4>1. w2.credit = w.credit + p.arg /\ a = a2 + p.arg
        BY <1>3, <3>2 DEF ViewReceived
      <4> QED BY <1>3, <3>1, <4>1
    <3>3. CASE p.type # "ADJUST"
      BY <1>3, <1>6, <3>3 DEF ViewReceived
    <3> QED BY <3>2, <3>3
  <2>3. \A c \in es : w2.state = "open" => c.windowCount = w2.credit + b + a2
    <3>1. w.credit \in Nat /\ w2.credit \in Nat
      BY DEF Views
    <3>2. w2.credit + b + a2 = w.credit + b + a
      <4>1. a \in Nat /\ a2 \in Nat
        BY <1>2, BytesNat, OutReceived
      <4>2. PICK k, k2 : k = w.credit /\ k2 = w2.credit
        OBVIOUS
      <4>3. k \in Nat /\ k2 \in Nat /\ a \in Nat /\ a2 \in Nat /\ b \in Nat /\ k2 + a2 = k + a
        BY <1>4, <2>2, <3>1, <4>1, <4>2
      <4>4. k2 + b + a2 = k + b + a
        BY ONLY <4>3, WindowShift
      <4> QED BY <4>2, <4>4
    <3> QED BY <1>2, <2>1, <3>2 DEF LinkInv
  <2>4. AlwaysInv(no, es, q, w2)
    BY <2>1 DEF AlwaysInv
  <2>5. (Has(o2, "DATA", no) => Has(o, "DATA", no)) /\ (Has(o2, "CLOSE", no) <=> Has(o, "CLOSE", no))
        /\ (Has(o2, "OPEN_CONFIRMATION", no) <=> Has(o, "OPEN_CONFIRMATION", no))
    BY <1>1, <1>6
  <2>6. LinkInv(no, es, o2, q, w2)
    BY <1>2, <2>1, <2>3, <2>5 DEF LinkInv
  <2> QED BY <2>4, <2>6
<1>7. CASE p.type = "CLOSE"
  <2>1. Has(o, "CLOSE", no) /\ ~Has(o2, "DATA", no) /\ ~Has(o2, "CLOSE", no) /\ ~Has(o2, "OPEN_CONFIRMATION", no)
        /\ ~Has(o, "OPEN_CONFIRMATION", no)
    BY <1>1, <1>7
  <2>2. w.state = "open" /\ ~w.gotClose /\ ~Open(es) /\ (w2.sentEof <=> w.sentEof)
    BY <2>1 DEF LinkInv, ViewReceived
  <2>3. CASE w.sentClose
    <3>1. w2.state = "none" /\ ~w2.sentClose /\ ~w2.gotClose
      BY <1>7, <2>3 DEF ViewReceived
    <3>2. AlwaysInv(no, es, q, w2)
      BY <2>2, <3>1 DEF AlwaysInv
    <3>3. LinkInv(no, es, o2, q, w2)
      BY <2>1, <2>2, <2>3, <3>1 DEF LinkInv
    <3> QED BY <3>2, <3>3
  <2>4. CASE ~w.sentClose
    <3>1. w2.state = w.state /\ w2.credit = w.credit /\ ~w2.sentClose /\ w2.gotClose
      BY <1>7, <2>4 DEF ViewReceived
    <3>2. AlwaysInv(no, es, q, w2)
      BY <2>2, <2>4, <3>1 DEF AlwaysInv
    <3>3. LinkInv(no, es, o2, q, w2)
      BY <1>2, <1>3, <1>7, <2>1, <2>2, <2>4, <3>1 DEF LinkInv
    <3> QED BY <3>2, <3>3
  <2> QED BY <2>3, <2>4
<1> QED BY <1>1, <1>5, <1>6, <1>7 DEF PacketsOut, AnswerTypes

(* The link fails: what was in flight to the peer is lost.                 *)
LEMMA LinkLost ==
  ASSUME NEW s, NEW q, NEW v, LinkOK(s, q, v), s.link \in BOOLEAN,
         NEW t, Entries(t) = Entries(s), t.link = FALSE, t.out = <<>>
  PROVE  LinkOK(t, q, v)
<1>1. \A no : findChannelAttr(t, no) = findChannelAttr(s, no)
  BY DEF findChannelAttr
<1>2. OutOrder(t.out) /\ \A no \in ChannelNos : ~Has(t.out, "OPEN_FAILURE", no)
  BY DEF OutOrder, Has
<1>3. \A no \in ChannelNos : AlwaysInv(no, findChannelAttr(t, no), q, v[no])
  BY <1>1 DEF LinkOK, NumberInv
<1> QED BY <1>2, <1>3 DEF LinkOK, NumberInv

-----------------------------------------------------------------------------
(* The inductive invariant. *)

\* The session as long as it runs: its channels have IDs that were given out,
\* the shell's is the only one that is not forwarded and is not closed before
\* the peer closes it.
ServerOK(s) ==
  /\ IsSession(s) /\ Selects(s) /\ s.sendClosed = FALSE /\ s.nextID >= 2
  /\ ~s.link => s.out = <<>>
  /\ Len(s.chans) <= MaxChannels + 1
  /\ \A c \in Entries(s) : /\ c.id < s.nextID
                           /\ c.type = IF c.id = 1 THEN "session" ELSE "direct-tcpip"
                           /\ c.id = 1 => ~c.writeClosed

\* Entries of forwards that are taken; whether there is one for a channel; whether
\* the shell is there; whether no entry may be lost (ForwardsServed).
Occupied(fs) == {i \in DOMAIN fs : fs[i] # NoForward}
ForwardOf(id, fs) == \E i \in DOMAIN fs : fs[i].channel = id
ShellOpen(s) == \E c \in Entries(s) : c.id = 1
Fits(fs) == MaxChannels <= MaxForwards \/ Len(fs) <= MaxForwards

\* Every open channel but the shell's, and the one named, is forwarded.
Served(s, fs, but) ==
  ShellOpen(s) /\ Fits(fs) =>
    \A c \in Entries(s) : c.id # 1 /\ c.id # but /\ ~c.writeClosed => ForwardOf(c.id, fs)

\* There is an entry that is free by the time the next channel comes.
RoomLeft(s, fs) ==
  ShellOpen(s) /\ MaxChannels <= MaxForwards /\ Len(fs) = MaxForwards + 1 =>
    \E i \in DOMAIN fs : fs[i] = NoForward

\* The entries that are taken name different channels, which are not closed.
ForwardsOK(s, fs) ==
  /\ fs \in Seq([channel : Nat \cup {-1}, sock : {"open", "invalid"}])
  /\ Len(fs) <= MaxForwards + 1
  /\ \A i \in Occupied(fs) : /\ fs[i].channel \in 2..(s.nextID - 1)
                             /\ \A j \in Occupied(fs) : fs[i].channel = fs[j].channel => i = j
                             /\ \A c \in Entries(s) : c.id = fs[i].channel => ~c.writeClosed

\* The loops: in the first there is only the shell; then a channel waits for its
\* entry; then each is served, and those the loop has passed are in the list.
AtShell(s, fs, ch) == s.read = 1 /\ ch = 1 /\ s.nextID = 2 /\ ShellOpen(s) /\ fs = <<>>

AtResource(s, fs) ==
  /\ \E c \in Entries(s) : c.id = s.read /\ c.id # 1 /\ ~c.writeClosed
  /\ ~ForwardOf(s.read, fs) /\ Served(s, fs, s.read) /\ RoomLeft(s, fs)

AtTransfer(s, fs, i) ==
  /\ fs # <<>> /\ Served(s, fs, 1)
  /\ i <= Len(fs) => \A j \in Occupied(fs) : j < i => \E c \in Entries(s) : c.id = fs[j].channel
  /\ i > Len(fs) => RoomLeft(s, fs)

LoopOK ==
  /\ phase \in {"shell send", "shell receive"} => AtShell(ssh, forwards, channel)
  /\ phase = "resource" => AtResource(ssh, forwards)
  /\ phase = "transfer" => AtTransfer(ssh, forwards, index)

\* The types of the variables beside the session.
ThreadOK ==
  /\ phase \in {"shell send", "shell receive", "resource", "transfer", "ended"}
  /\ index \in Nat \ {0} /\ channel \in Nat
  /\ \A i \in DOMAIN forwards : forwards[i].sock \in {"open", "invalid"}
  /\ \A no \in ChannelNos : peer[no].state \in {"none", "opening", "open"}

\* What holds until the session ends.
Running == ServerOK(ssh) /\ LinkOK(ssh, toServer, peer) /\ ForwardsOK(ssh, forwards) /\ LoopOK

\* The inductive invariant.
IInv == Sound(ssh) /\ ThreadOK /\ (phase # "ended" => Running)

(* A session whose channels are those of s, or some of them.               *)
LEMMA ServerKept ==
  ASSUME NEW s, ServerOK(s), NEW t, IsSession(t), Selects(t), t.sendClosed = FALSE, ~t.link => t.out = <<>>,
         Len(t.chans) <= MaxChannels + 1, t.nextID = s.nextID,
         \A d \in Entries(t) : \E c \in Entries(s) : d.id = c.id /\ d.type = c.type /\ (c.id = 1 => ~d.writeClosed)
  PROVE  ServerOK(t)
<1>1. ASSUME NEW d \in Entries(t)
      PROVE  /\ d.id < t.nextID
             /\ d.type = IF d.id = 1 THEN "session" ELSE "direct-tcpip"
             /\ d.id = 1 => ~d.writeClosed
  <2>1. PICK c \in Entries(s) : d.id = c.id /\ d.type = c.type /\ (c.id = 1 => ~d.writeClosed)
    OBVIOUS
  <2>2. c.id < s.nextID /\ c.type = IF c.id = 1 THEN "session" ELSE "direct-tcpip"
    BY DEF ServerOK
  <2> QED BY <2>1, <2>2
<1> QED BY <1>1 DEF ServerOK

\* The session t has the channels of s, the same ones are current for reading.
Same(s, t) ==
  /\ Entries(t) = Entries(s) /\ Len(t.chans) = Len(s.chans) /\ t.nextID = s.nextID
  /\ t.read = s.read /\ t.link = s.link

(* What PushChunk makes of a session.                                      *)
LEMMA PushFacts ==
  ASSUME NEW s, IsSession(s), NEW c \in Entries(s), NEW data \in BOOLEAN, NEW r, r = PushChunk(s, c.id, data)
  PROVE  /\ IsSession(r.s) /\ Same(s, r.s) /\ r.s.write = c.id /\ r.s.sendClosed = s.sendClosed
         /\ r.s.out = (IF data /\ s.link THEN Append(s.out, Packet("DATA", c.no, 0)) ELSE s.out)
         /\ r.st = (IF data /\ ~s.link THEN "WRITE" ELSE Ok)
<1>r. IsRaw(s) /\ c.id \in Nat /\ c.no \in ChannelNos
  BY EntryFacts DEF IsSession
<1>1. PICK t : t = [s EXCEPT !.write = c.id]
  OBVIOUS
<1>2. /\ IsSession(t) /\ t.chans = s.chans /\ Entries(t) = Entries(s)
      /\ t.nextID = s.nextID /\ t.read = s.read /\ t.write = c.id
      /\ t.out = s.out /\ t.sendClosed = s.sendClosed /\ t.link = s.link
  BY <1>r, <1>1, WriteSelected
<1>3. PICK p : p = Packet("DATA", c.no, 0)
  OBVIOUS
<1>4. p \in PacketsOut
  BY <1>r, <1>3, AnswerPacket DEF AnswerTypes
<1>5. PICK u : u = [t EXCEPT !.out = Append(@, p)]
  OBVIOUS
<1>6. /\ IsSession(u) /\ u.chans = t.chans /\ Entries(u) = Entries(t)
      /\ u.nextID = t.nextID /\ u.read = t.read /\ u.write = t.write
      /\ u.out = Append(t.out, p) /\ u.sendClosed = t.sendClosed /\ u.link = t.link
  <2>1. IsRaw(t)
    BY <1>2 DEF IsSession
  <2> QED BY <1>2, <1>4, <1>5, <2>1, PacketWritten
<1>7. r = IF ~data THEN Return(t, Ok) ELSE IF ~s.link THEN Return(t, "WRITE") ELSE Return(u, Ok)
  BY <1>1, <1>3, <1>5, PushChunkOn, Zenon
<1>8. CASE data /\ s.link
  <2>1. r.s = u /\ r.st = Ok
    BY <1>7, <1>8 DEF Return
  <2> QED BY <1>2, <1>3, <1>6, <1>8, <2>1 DEF Same
<1>9. CASE ~(data /\ s.link)
  <2>1. r.s = t /\ r.st = IF data /\ ~s.link THEN "WRITE" ELSE Ok
    BY <1>7, <1>9 DEF Return
  <2> QED BY <1>2, <1>9, <2>1 DEF Same
<1> QED BY <1>8, <1>9

(* The invariant after it.                                                 *)
LEMMA PushOK ==
  ASSUME NEW s, ServerOK(s), NEW q, NEW v, LinkOK(s, q, v), NEW c \in Entries(s), ~c.writeClosed,
         NEW data \in BOOLEAN, NEW r, r = PushChunk(s, c.id, data)
  PROVE  ServerOK(r.s) /\ LinkOK(r.s, q, v) /\ Same(s, r.s) /\ (r.st = IF data /\ ~s.link THEN "WRITE" ELSE Ok)
<1>s. IsSession(s) /\ s.sendClosed = FALSE /\ (~s.link => s.out = <<>>) /\ Selects(s) /\ Len(s.chans) <= MaxChannels + 1
  BY DEF ServerOK
<1>1. /\ IsSession(r.s) /\ Same(s, r.s) /\ r.s.write = c.id /\ r.s.sendClosed = s.sendClosed
      /\ r.s.out = (IF data /\ s.link THEN Append(s.out, Packet("DATA", c.no, 0)) ELSE s.out)
      /\ r.st = (IF data /\ ~s.link THEN "WRITE" ELSE Ok)
  BY <1>s, PushFacts
<1>2. PICK t : t = r.s
  OBVIOUS
<1>3. /\ IsSession(t) /\ Entries(t) = Entries(s) /\ Len(t.chans) = Len(s.chans) /\ t.nextID = s.nextID
      /\ t.read = s.read /\ t.link = s.link /\ t.write = c.id /\ t.sendClosed = FALSE
      /\ t.out = (IF data /\ s.link THEN Append(s.out, Packet("DATA", c.no, 0)) ELSE s.out)
  BY <1>s, <1>1, <1>2 DEF Same
<1>4. ServerOK(t)
  <2>1. Selects(t)
    BY <1>s, <1>3 DEF Selects
  <2>2. \A d \in Entries(t) : d.id = d.id /\ d.type = d.type /\ (d.id = 1 => ~d.writeClosed)
    BY <1>3 DEF ServerOK
  <2>3. \A d \in Entries(t) : \E e \in Entries(s) : d.id = e.id /\ d.type = e.type /\ (e.id = 1 => ~d.writeClosed)
    BY <1>3, <2>2
  <2>4. ~t.link => t.out = <<>>
    BY <1>s, <1>3
  <2>5. IsSession(t) /\ t.sendClosed = FALSE /\ Len(t.chans) <= MaxChannels + 1 /\ t.nextID = s.nextID
    BY <1>s, <1>3
  <2> QED BY <2>1, <2>3, <2>4, <2>5, ServerKept
<1>5. LinkOK(t, q, v)
  <2>1. CASE data /\ s.link
    <3>1. Entries(t) = Entries(s) /\ t.link = s.link /\ t.out = Append(s.out, Packet("DATA", c.no, 0)) /\ s.link
      BY <1>3, <2>1
    <3> QED BY <1>s, <3>1, LinkPushed
  <2>2. CASE ~(data /\ s.link)
    <3>1. Entries(t) = Entries(s) /\ t.link = s.link /\ t.out = s.out
      BY <1>3, <2>2
    <3> QED BY <3>1, LinkFrame
  <2> QED BY <2>1, <2>2
<1> QED BY <1>1, <1>2, <1>4, <1>5

(* A notice to the shell's channel, which may be gone.                     *)
LEMMA NoticeOK ==
  ASSUME NEW s, ServerOK(s), NEW q, NEW v, LinkOK(s, q, v), NEW t, t = PushChunk(s, 1, TRUE).s
  PROVE  ServerOK(t) /\ LinkOK(t, q, v) /\ Same(s, t)
<1>1. CASE ShellOpen(s)
  <2>1. PICK c \in Entries(s) : c.id = 1
    BY <1>1 DEF ShellOpen
  <2>2. ~c.writeClosed
    BY <2>1 DEF ServerOK
  <2>3. PICK r : r = PushChunk(s, c.id, TRUE)
    OBVIOUS
  <2>4. ServerOK(r.s) /\ LinkOK(r.s, q, v) /\ Same(s, r.s)
    BY <2>2, <2>3, PushOK
  <2> QED BY <2>1, <2>3, <2>4
<1>2. CASE ~ShellOpen(s)
  <2>1. \A c \in Entries(s) : c.id # 1
    BY <1>2 DEF ShellOpen
  <2>a. TRUE \in BOOLEAN
    OBVIOUS
  <2>b. PushChunk(s, 1, TRUE) = Return(s, "NOTFOUND")
    BY <2>1, <2>a, PushChunkOff
  <2>c. Return(s, "NOTFOUND").s = s
    BY DEF Return
  <2>2. t = s
    BY <2>b, <2>c, Zenon
  <2> QED BY <2>2 DEF Same
<1> QED BY <1>1, <1>2

\* The session t is s after the close of the channel with the ID, if it is there.
ShutIn(s, id, t) ==
  /\ t.nextID = s.nextID /\ t.read = s.read /\ t.link = s.link /\ Len(t.chans) = Len(s.chans)
  /\ \A d \in Entries(t) : \E e \in Entries(s) :
       /\ d.id = e.id /\ d.type = e.type /\ (e.writeClosed => d.writeClosed)
       /\ d.id # id => d.writeClosed = e.writeClosed
  /\ \A e \in Entries(s) : \E d \in Entries(t) : d.id = e.id
  /\ ShellOpen(s) => \A d \in Entries(t) : d.id = id => d.writeClosed

(* A forwarded channel that is open is closed.                             *)
LEMMA CloseOK ==
  ASSUME NEW s, ServerOK(s), NEW q, NEW v, LinkOK(s, q, v), NEW id, id # 1,
         \A c \in Entries(s) : c.id = id => ~c.writeClosed, NEW t, t = CloseChannel(s, id).s
  PROVE  ServerOK(t) /\ LinkOK(t, q, v) /\ ShutIn(s, id, t)
<1>s. IsSession(s) /\ s.sendClosed = FALSE /\ (~s.link => s.out = <<>>) /\ Selects(s) /\ Len(s.chans) <= MaxChannels + 1
  BY DEF ServerOK
<1>1. CASE \A c \in Entries(s) : c.id # id
  <2>1. t = s
    BY <1>1, CloseOff
  <2> QED BY <1>1, <2>1 DEF ShutIn
<1>2. ASSUME NEW c \in Entries(s), c.id = id PROVE ServerOK(t) /\ LinkOK(t, q, v) /\ ShutIn(s, id, t)
  <2>1. ~c.writeClosed /\ IsRaw(s) /\ c.id \in Nat /\ c \in Channels
    BY <1>2, <1>s, EntryFacts DEF IsSession
  <2>2. CASE \E d \in Entries(s) : d.id # c.id
    <3>1. ClosedFrom(s, c, t)
      BY <1>s, <1>2, <2>1, <2>2, CloseOn
    <3>2. LinkOK(t, q, v)
      BY <1>s, <2>1, <3>1, LinkClosed
    <3>3. PICK d : d = [c EXCEPT !.writeClosed = TRUE]
      OBVIOUS
    <3>4. d.id = c.id /\ d.type = c.type /\ d.writeClosed = TRUE /\ d.no = c.no
      BY <2>1, <3>3 DEF Channels
    <3>5. /\ IsSession(t) /\ Entries(t) = (Entries(s) \ {c}) \cup {d}
          /\ Len(t.chans) = Len(s.chans) /\ t.nextID = s.nextID /\ t.read = s.read /\ t.write = UnusedID
          /\ t.sendClosed = s.sendClosed /\ t.link = s.link
          /\ t.out = (IF s.link THEN Append(s.out, Packet("CLOSE", c.no, 0)) ELSE s.out)
      BY <3>1, <3>3 DEF ClosedFrom
    <3>6. \A e \in Entries(s) : e.id = c.id => e = c
      BY <2>1, EntryFacts
    <3>7. ShutIn(s, id, t)
      <4>1. ASSUME NEW x \in Entries(t)
            PROVE  \E e \in Entries(s) : /\ x.id = e.id /\ x.type = e.type /\ (e.writeClosed => x.writeClosed)
                                         /\ x.id # id => x.writeClosed = e.writeClosed
        BY <1>2, <2>1, <3>4, <3>5
      <4>2. ASSUME NEW e \in Entries(s) PROVE \E x \in Entries(t) : x.id = e.id
        BY <3>4, <3>5
      <4>3. \A x \in Entries(t) : x.id = id => x.writeClosed
        BY <1>2, <3>4, <3>5, <3>6
      <4> QED BY <3>5, <4>1, <4>2, <4>3 DEF ShutIn
    <3>8. ServerOK(t)
      <4>1. Selects(t)
        BY <1>s, <3>4, <3>5 DEF Selects
      <4>2. \A x \in Entries(t) : \E e \in Entries(s) : x.id = e.id /\ x.type = e.type /\ (e.id = 1 => ~x.writeClosed)
        BY <1>2, <3>4, <3>5 DEF ServerOK
      <4>3. IsSession(t) /\ t.sendClosed = FALSE /\ Len(t.chans) <= MaxChannels + 1 /\ t.nextID = s.nextID
        BY <1>s, <3>5
      <4>4. ~t.link => t.out = <<>>
        BY <1>s, <3>5
      <4> QED BY <4>1, <4>2, <4>3, <4>4, ServerKept
    <3> QED BY <3>2, <3>7, <3>8
  <2>3. CASE ~\E d \in Entries(s) : d.id # c.id
    <3>1. t = [s EXCEPT !.write = c.id]
      BY <1>s, <1>2, <2>1, <2>3, CloseOn
    <3>2. /\ IsSession(t) /\ t.chans = s.chans /\ Entries(t) = Entries(s)
          /\ t.nextID = s.nextID /\ t.read = s.read /\ t.write = c.id
          /\ t.out = s.out /\ t.sendClosed = s.sendClosed /\ t.link = s.link
      BY <1>s, <2>1, <3>1, WriteSelected
    <3>3. LinkOK(t, q, v)
      BY <3>2, LinkFrame
    <3>4. ShutIn(s, id, t)
      <4>1. ~ShellOpen(s)
        BY <1>2, <2>3 DEF ShellOpen
      <4> QED BY <3>2, <4>1 DEF ShutIn
    <3>5. ServerOK(t)
      <4>1. Selects(t)
        BY <1>s, <2>1, <3>2 DEF Selects
      <4>2. \A x \in Entries(t) : x.id = x.id /\ x.type = x.type /\ (x.id = 1 => ~x.writeClosed)
        BY <3>2 DEF ServerOK
      <4>3. \A x \in Entries(t) : \E e \in Entries(s) : x.id = e.id /\ x.type = e.type /\ (e.id = 1 => ~x.writeClosed)
        BY <3>2, <4>2
      <4>4. IsSession(t) /\ t.sendClosed = FALSE /\ Len(t.chans) <= MaxChannels + 1 /\ t.nextID = s.nextID
        BY <1>s, <3>2
      <4>5. ~t.link => t.out = <<>>
        BY <1>s, <3>2
      <4> QED BY <4>1, <4>3, <4>4, <4>5, ServerKept
    <3> QED BY <3>3, <3>4, <3>5
  <2> QED BY <2>2, <2>3
<1> QED BY <1>1, <1>2

\* The channel of the entry i is closed, the shell's is told, and the entry is free.
GivenUp(s, fs, i, t, fs2) ==
  t = PushChunk(CloseChannel(s, fs[i].channel).s, 1, TRUE).s /\ fs2 = [fs EXCEPT ![i] = NoForward]

(* A channel and the entry that forwards it are given up.                  *)
LEMMA ForwardClosed ==
  ASSUME NEW s, ServerOK(s), NEW q, NEW v, LinkOK(s, q, v), NEW fs, ForwardsOK(s, fs), Served(s, fs, 1),
         NEW i \in Occupied(fs), NEW t, NEW fs2, GivenUp(s, fs, i, t, fs2)
  PROVE  /\ ServerOK(t) /\ LinkOK(t, q, v) /\ ForwardsOK(t, fs2) /\ Served(t, fs2, 1) /\ RoomLeft(t, fs2)
         /\ Len(fs2) = Len(fs) /\ Occupied(fs2) \subseteq Occupied(fs) \ {i}
         /\ \A j \in DOMAIN fs : j # i => fs2[j] = fs[j]
         /\ \A c \in Entries(s) : \E d \in Entries(t) : d.id = c.id
<1>1. PICK u, id : u = CloseChannel(s, id).s /\ id = fs[i].channel
  OBVIOUS
<1>2. id \in 2..(s.nextID - 1) /\ \A c \in Entries(s) : c.id = id => ~c.writeClosed
  BY <1>1 DEF ForwardsOK
<1>n. s.nextID \in Nat
  BY DEF ServerOK, IsSession, IsRaw, Session
<1>3. id # 1 /\ id \in Nat
  BY <1>2, <1>n
<1>4. ServerOK(u) /\ LinkOK(u, q, v) /\ ShutIn(s, id, u)
  BY <1>1, <1>2, <1>3, CloseOK
<1>5. t = PushChunk(u, 1, TRUE).s
  BY <1>1 DEF GivenUp
<1>6. ServerOK(t) /\ LinkOK(t, q, v) /\ Same(u, t)
  BY <1>4, <1>5, NoticeOK
<1>7. /\ t.nextID = s.nextID
      /\ \A d \in Entries(t) : \E e \in Entries(s) :
           /\ d.id = e.id /\ (e.writeClosed => d.writeClosed)
           /\ d.id # id => d.writeClosed = e.writeClosed
      /\ \A e \in Entries(s) : \E d \in Entries(t) : d.id = e.id
      /\ ShellOpen(s) => \A d \in Entries(t) : d.id = id => d.writeClosed
  BY <1>4, <1>6 DEF ShutIn, Same
<1>8. fs \in Seq([channel : Nat \cup {-1}, sock : {"open", "invalid"}]) /\ Len(fs) <= MaxForwards + 1
  BY DEF ForwardsOK
<1>9. /\ fs2 \in Seq([channel : Nat \cup {-1}, sock : {"open", "invalid"}]) /\ Len(fs2) = Len(fs)
      /\ DOMAIN fs2 = DOMAIN fs /\ fs2[i] = NoForward /\ \A j \in DOMAIN fs : j # i => fs2[j] = fs[j]
  <2>1. i \in DOMAIN fs
    BY DEF Occupied
  <2>2. NoForward \in [channel : Nat \cup {-1}, sock : {"open", "invalid"}]
    BY DEF NoForward
  <2>3. fs2 = [fs EXCEPT ![i] = NoForward]
    BY DEF GivenUp
  <2> QED BY <1>8, <2>1, <2>2, <2>3
<1>10. Occupied(fs2) \subseteq Occupied(fs) \ {i}
  BY <1>9 DEF Occupied
<1>11. \A j, k \in Occupied(fs) : fs[j].channel = fs[k].channel => j = k
  BY DEF ForwardsOK
<1>12. ForwardsOK(t, fs2)
  <2>1. ASSUME NEW j \in Occupied(fs2)
        PROVE  /\ fs2[j].channel \in 2..(t.nextID - 1)
               /\ \A k \in Occupied(fs2) : fs2[j].channel = fs2[k].channel => j = k
               /\ \A d \in Entries(t) : d.id = fs2[j].channel => ~d.writeClosed
    <3>1. j \in Occupied(fs) /\ j # i /\ fs2[j] = fs[j]
      BY <1>9, <1>10 DEF Occupied
    <3>2. fs2[j].channel \in 2..(t.nextID - 1)
      BY <1>7, <3>1 DEF ForwardsOK
    <3>3. \A k \in Occupied(fs2) : k \in Occupied(fs) /\ fs2[k] = fs[k]
      BY <1>9, <1>10 DEF Occupied
    <3>4. \A k \in Occupied(fs2) : fs2[j].channel = fs2[k].channel => j = k
      BY <1>11, <3>1, <3>3
    <3>5. fs2[j].channel # id
      BY <1>1, <1>11, <3>1
    <3>6. ASSUME NEW d \in Entries(t), d.id = fs2[j].channel PROVE ~d.writeClosed
      <4>1. PICK e \in Entries(s) : d.id = e.id /\ (d.id # id => d.writeClosed = e.writeClosed)
        BY <1>7
      <4>2. ~e.writeClosed
        BY <3>1, <3>6, <4>1 DEF ForwardsOK
      <4> QED BY <3>5, <3>6, <4>1, <4>2
    <3> QED BY <3>2, <3>4, <3>6
  <2> QED BY <1>8, <1>9, <2>1 DEF ForwardsOK
<1>13. Served(t, fs2, 1)
  <2>1. SUFFICES ASSUME ShellOpen(t), Fits(fs2), NEW d \in Entries(t), d.id # 1, ~d.writeClosed
                 PROVE  ForwardOf(d.id, fs2)
    BY DEF Served
  <2>2. ShellOpen(s) /\ Fits(fs)
    <3>1. ShellOpen(s)
      <4>1. PICK x \in Entries(t) : x.id = 1
        BY <2>1 DEF ShellOpen
      <4>2. PICK e \in Entries(s) : x.id = e.id
        BY <1>7
      <4> QED BY <4>1, <4>2 DEF ShellOpen
    <3>2. Fits(fs)
      BY <1>9, <2>1 DEF Fits
    <3> QED BY <3>1, <3>2
  <2>3. d.id # id
    BY <1>7, <2>1, <2>2
  <2>4. PICK e \in Entries(s) : d.id = e.id /\ (d.id # id => d.writeClosed = e.writeClosed)
    BY <1>7
  <2>5. ForwardOf(d.id, fs)
    BY <2>1, <2>2, <2>3, <2>4 DEF Served
  <2> QED BY <1>1, <1>9, <2>3, <2>5 DEF ForwardOf
<1>14. RoomLeft(t, fs2)
  <2>1. i \in DOMAIN fs2
    BY <1>9 DEF Occupied
  <2> QED BY <1>9, <2>1 DEF RoomLeft
<1> QED BY <1>6, <1>7, <1>9, <1>10, <1>12, <1>13, <1>14

-----------------------------------------------------------------------------
(* The steps. *)

(* A session that runs is sound.                                           *)
LEMMA ServerSound ==
  ASSUME NEW s, ServerOK(s)
  PROVE  Sound(s) /\ Valid(s) /\ IsSession(s) /\ s.sendClosed = FALSE
BY DEF ServerOK, Sound, Valid, IsSession, IsRaw, Session

(* The session goes on.                                                    *)
LEMMA GoesOn ==
  ASSUME ThreadOK', ServerOK(ssh'), LinkOK(ssh', toServer', peer'), ForwardsOK(ssh', forwards'), LoopOK'
  PROVE  IInv'
<1>1. Sound(ssh')
  BY ServerSound
<1>2. Running'
  BY DEF Running
<1> QED BY <1>1, <1>2 DEF IInv

(* The session ends.                                                       *)
LEMMA Ends ==
  ASSUME IInv, NEW s, Valid(s), s.sendClosed = TRUE => Entries(s) = {}, NEW status, End(s, status)
  PROVE  IInv'
<1>1. Sound(ShutDown(s))
  BY ShutDownSound
<1>2. Sound(ssh') /\ phase' = "ended"
  BY <1>1 DEF End
<1>3. ThreadOK'
  BY Zenon DEF End, IInv, ThreadOK
<1> QED BY <1>2, <1>3 DEF IInv

(* What the invariant says of the views and the queues.                    *)
LEMMA ViewTypes ==
  ASSUME NEW s, NEW q, NEW v, LinkOK(s, q, v), NEW no \in ChannelNos
  PROVE  v \in [ChannelNos -> Views] /\ v[no] \in Views /\ v[no].state \in {"none", "opening", "open"}
<1>1. v \in [ChannelNos -> Views]
  BY DEF LinkOK
<1> QED BY <1>1 DEF Views

(* Only what the peer sees of the session has changed.                     *)
LEMMA PeerKeeps ==
  ASSUME IInv, phase # "ended", UNCHANGED <<ssh, phase, index, channel, forwards>>,
         LinkOK(ssh', toServer', peer')
  PROVE  IInv'
<1>1. ServerOK(ssh') /\ ForwardsOK(ssh', forwards') /\ LoopOK'
  BY Zenon DEF IInv, Running, LoopOK
<1>2. ThreadOK'
  <2>1. \A no \in ChannelNos : peer'[no].state \in {"none", "opening", "open"}
    BY ViewTypes
  <2> QED BY <2>1, Zenon DEF IInv, ThreadOK
<1> QED BY <1>1, <1>2, GoesOn

(* The requests of the peer are in the table.                              *)
LEMMA RequestInfo ==
  ASSUME NEW r \in PeerRequests, NEW info, info = requestInfo[r]
  PROVE  info.known \in BOOLEAN /\ info.wantReply \in BOOLEAN
<1>1. r = "window_change" \/ r = "env" \/ r = "keepalive"
  BY SshChannelAssumption
<1>2. CASE r = "window_change"
  BY <1>2 DEF requestInfo
<1>3. CASE r = "env"
  BY <1>3 DEF requestInfo
<1>4. CASE r = "keepalive"
  BY <1>4 DEF requestInfo
<1> QED BY <1>1, <1>2, <1>3, <1>4

(* What a step of the peer starts from.                                    *)
LEMMA PeerSetting ==
  ASSUME IInv, NEW no \in ChannelNos, NEW p, NEW view, PeerSend(p, view)
  PROVE  /\ ServerOK(ssh) /\ IsSession(ssh) /\ LinkOK(ssh, toServer, peer) /\ ssh.link /\ phase # "ended"
         /\ peer[no] \in Views /\ toServer \in Seq(PacketsIn)
         /\ UNCHANGED <<ssh, phase, index, channel, forwards>>
         /\ toServer' = Append(toServer, p) /\ peer' = [peer EXCEPT ![p.no] = view]
<1>1. phase # "ended"
  BY DEF PeerSend
<1>2. ServerOK(ssh) /\ LinkOK(ssh, toServer, peer)
  BY <1>1 DEF IInv, Running
<1>3. IsSession(ssh)
  BY <1>2, ServerSound
<1>4. toServer \in Seq(PacketsIn)
  BY <1>2 DEF LinkOK
<1> QED BY <1>1, <1>2, <1>3, <1>4, ViewTypes DEF PeerSend

(* The peer asks for a channel.                                            *)
LEMMA PeerOpenOK ==
  ASSUME IInv, NEW no \in ChannelNos, PeerOpen(no)
  PROVE  IInv'
<1>1. PICK p, w, w2 : p = Packet("OPEN", no, "direct-tcpip") /\ w = peer[no] /\ w2 = [w EXCEPT !.state = "opening"]
  OBVIOUS
<1>2. PeerSend(p, w2) /\ w.state = "none"
  BY <1>1 DEF PeerOpen
<1>3. /\ IsSession(ssh) /\ LinkOK(ssh, toServer, peer) /\ ssh.link /\ phase # "ended" /\ w \in Views
      /\ UNCHANGED <<ssh, phase, index, channel, forwards>>
      /\ toServer' = Append(toServer, p) /\ peer' = [peer EXCEPT ![p.no] = w2]
  BY <1>1, <1>2, PeerSetting
<1>4. p \in PacketsIn /\ p.no = no /\ p.type = "OPEN"
  <2>1. p \in PacketsIn
    BY <1>1, PeerPacket
  <2> QED BY <1>1, <2>1 DEF Packet
<1>5. w2 \in Views /\ Asked(w, w2)
  BY <1>1, <1>2, <1>3 DEF Views, Asked
<1>6. PICK q2, v2 : q2 = Append(toServer, p) /\ v2 = [peer EXCEPT ![no] = w2]
  OBVIOUS
<1>7. LinkOK(ssh, q2, v2)
  <2>1. SeenAs(peer, no, w2, v2)
    BY <1>6 DEF SeenAs
  <2> QED BY <1>1, <1>3, <1>4, <1>5, <1>6, <2>1, LinkAsked
<1>8. ssh' = ssh /\ toServer' = q2 /\ peer' = v2
  BY <1>3, <1>4, <1>6
<1> QED BY <1>3, <1>7, <1>8, PeerKeeps

(* The peer sends on a channel that is open.                               *)
LEMMA PeerWrites ==
  ASSUME IInv, NEW no \in ChannelNos, NEW p \in PacketsIn, p.no = no, p.type # "OPEN",
         NEW w, w = peer[no], w.state = "open", ~w.sentClose, p.type \in {"DATA", "EOF"} => ~w.sentEof,
         NEW w2 \in Views, PeerSend(p, w2), ViewSent(w, p, w2), Awaits(toServer, Append(toServer, p), w, w2)
  PROVE  IInv'
<1>1. /\ IsSession(ssh) /\ LinkOK(ssh, toServer, peer) /\ ssh.link /\ phase # "ended" /\ w \in Views
      /\ UNCHANGED <<ssh, phase, index, channel, forwards>>
      /\ toServer' = Append(toServer, p) /\ peer' = [peer EXCEPT ![p.no] = w2]
  BY PeerSetting
<1>2. PICK q2, v2 : q2 = Append(toServer, p) /\ v2 = [peer EXCEPT ![no] = w2]
  OBVIOUS
<1>3. LinkOK(ssh, q2, v2)
  <2>1. SeenAs(peer, no, w2, v2)
    BY <1>2 DEF SeenAs
  <2>2. Awaits(toServer, q2, w, w2)
    BY <1>2
  <2> QED BY <1>1, <1>2, <2>1, <2>2, LinkWritten
<1>4. ssh' = ssh /\ toServer' = q2 /\ peer' = v2
  BY <1>1, <1>2
<1> QED BY <1>1, <1>3, <1>4, PeerKeeps

(* A packet other than a request changes nothing of what is awaited.       *)
LEMMA NothingAwaited ==
  ASSUME NEW q \in Seq(PacketsIn), NEW p \in PacketsIn, p.type # "REQUEST",
         NEW w \in Views, NEW w2 \in Views, w2.awaiting = w.awaiting
  PROVE  Awaits(q, Append(q, p), w, w2)
<1>1. ToAnswer(q) \in Nat /\ ToAnswer(Append(q, p)) = ToAnswer(q) + IF p.type = "REQUEST" /\ requestInfo[p.arg].wantReply THEN 1 ELSE 0
  BY ToAnswerAppend
<1>2. w.awaiting \in Int
  BY DEF Views
<1>3. w2.awaiting = w.awaiting + 0 /\ ToAnswer(Append(q, p)) = ToAnswer(q) + 0
  BY <1>1, <1>2
<1> QED BY <1>3 DEF Awaits

(* The peer sends data.                                                    *)
LEMMA PeerDataOK ==
  ASSUME IInv, NEW no \in ChannelNos, PeerData(no)
  PROVE  IInv'
<1>1. PICK p, w, w2 : p = Packet("DATA", no, DataLen) /\ w = peer[no] /\ w2 = [w EXCEPT !.credit = @ - DataLen]
  OBVIOUS
<1>2. PeerSend(p, w2) /\ w.state = "open" /\ ~w.sentClose /\ ~w.sentEof /\ w.credit >= DataLen
  BY <1>1 DEF PeerData, Writable
<1>3. w \in Views /\ toServer \in Seq(PacketsIn)
  BY <1>1, <1>2, PeerSetting
<1>4. p \in PacketsIn /\ p.no = no /\ p.type = "DATA"
  <2>1. p \in PacketsIn
    BY <1>1, PeerPacket
  <2> QED BY <1>1, <2>1 DEF Packet
<1>5. w.credit \in Nat /\ DataLen \in Nat /\ w.credit - DataLen \in Nat
  BY <1>2, <1>3, SshChannelAssumption DEF Views
<1>6. /\ w2 \in Views /\ w2.state = "open" /\ (w2.sentEof <=> w.sentEof) /\ (w2.gotClose <=> w.gotClose)
      /\ ~w2.sentClose /\ w2.awaiting = w.awaiting /\ w2.credit = w.credit - DataLen
  BY <1>1, <1>2, <1>3, <1>5 DEF Views
<1>7. ViewSent(w, p, w2)
  <2>1. w.credit = w2.credit + DataLen
    BY <1>5, <1>6
  <2> QED BY <1>2, <1>4, <1>6, <2>1 DEF ViewSent
<1>8. Awaits(toServer, Append(toServer, p), w, w2)
  BY <1>3, <1>4, <1>6, NothingAwaited
<1> QED BY <1>1, <1>2, <1>4, <1>6, <1>7, <1>8, PeerWrites

(* The peer makes a request.                                               *)
LEMMA PeerRequestOK ==
  ASSUME IInv, NEW no \in ChannelNos, NEW r \in PeerRequests, PeerRequest(no, r)
  PROVE  IInv'
<1>1. PICK p, w, info : p = Packet("REQUEST", no, r) /\ w = peer[no] /\ info = requestInfo[r]
  OBVIOUS
<1>2. PICK w2 : w2 = [w EXCEPT !.awaiting = IF info.wantReply THEN @ + 1 ELSE @]
  OBVIOUS
<1>3. PeerSend(p, w2) /\ w.state = "open" /\ ~w.sentClose
  BY <1>1, <1>2 DEF PeerRequest, Writable
<1>4. w \in Views /\ toServer \in Seq(PacketsIn)
  BY <1>1, <1>3, PeerSetting
<1>5. p \in PacketsIn /\ p.no = no /\ p.type = "REQUEST" /\ p.arg = r
  <2>1. p \in PacketsIn
    BY <1>1, PeerPacket
  <2> QED BY <1>1, <2>1 DEF Packet
<1>6. info.wantReply \in BOOLEAN /\ w.awaiting \in Int
  BY <1>1, <1>4, RequestInfo DEF Views
<1>7. PICK more \in {0, 1} : more = IF info.wantReply THEN 1 ELSE 0
  BY <1>6
<1>8. w2 = [w EXCEPT !.awaiting = w.awaiting + more]
  BY <1>2, <1>4, <1>6, <1>7 DEF Views
<1>9. /\ w2 \in Views /\ w2.state = "open" /\ (w2.sentEof <=> w.sentEof) /\ (w2.gotClose <=> w.gotClose)
      /\ ~w2.sentClose /\ w2.awaiting = w.awaiting + more /\ w2.credit = w.credit
  BY <1>3, <1>4, <1>6, <1>7, <1>8 DEF Views
<1>10. ViewSent(w, p, w2)
  BY <1>3, <1>5, <1>9 DEF ViewSent
<1>11. Awaits(toServer, Append(toServer, p), w, w2)
  <2>1. ToAnswer(toServer) \in Nat /\ ToAnswer(Append(toServer, p)) = ToAnswer(toServer) + IF p.type = "REQUEST" /\ requestInfo[p.arg].wantReply THEN 1 ELSE 0
    BY <1>4, <1>5, ToAnswerAppend
  <2>2. ToAnswer(Append(toServer, p)) = ToAnswer(toServer) + more
    BY <1>1, <1>5, <1>7, <2>1
  <2> QED BY <1>9, <2>2 DEF Awaits
<1> QED BY <1>1, <1>3, <1>5, <1>9, <1>10, <1>11, PeerWrites

(* The peer leaves the server room to send.                                *)
LEMMA PeerAdjustOK ==
  ASSUME IInv, NEW no \in ChannelNos, PeerAdjust(no)
  PROVE  IInv'
<1>1. PICK p, w : p = Packet("ADJUST", no, DataLen) /\ w = peer[no]
  OBVIOUS
<1>2. PeerSend(p, w) /\ w.state = "open" /\ ~w.sentClose
  BY <1>1 DEF PeerAdjust, Writable
<1>3. w \in Views /\ toServer \in Seq(PacketsIn)
  BY <1>1, <1>2, PeerSetting
<1>4. p \in PacketsIn /\ p.no = no /\ p.type = "ADJUST"
  <2>1. p \in PacketsIn
    BY <1>1, PeerPacket
  <2> QED BY <1>1, <2>1 DEF Packet
<1>5. ViewSent(w, p, w)
  BY <1>2, <1>4 DEF ViewSent
<1>6. Awaits(toServer, Append(toServer, p), w, w)
  BY <1>3, <1>4, NothingAwaited
<1> QED BY <1>1, <1>2, <1>3, <1>4, <1>5, <1>6, PeerWrites

(* The peer has sent its last data.                                        *)
LEMMA PeerEofOK ==
  ASSUME IInv, NEW no \in ChannelNos, PeerEof(no)
  PROVE  IInv'
<1>1. PICK p, w, w2 : p = Packet("EOF", no, 0) /\ w = peer[no] /\ w2 = [w EXCEPT !.sentEof = TRUE]
  OBVIOUS
<1>2. PeerSend(p, w2) /\ w.state = "open" /\ ~w.sentClose /\ ~w.sentEof
  BY <1>1 DEF PeerEof, Writable
<1>3. w \in Views /\ toServer \in Seq(PacketsIn)
  BY <1>1, <1>2, PeerSetting
<1>4. p \in PacketsIn /\ p.no = no /\ p.type = "EOF"
  <2>1. p \in PacketsIn
    BY <1>1, PeerPacket
  <2> QED BY <1>1, <2>1 DEF Packet
<1>5. /\ w2 \in Views /\ w2.state = "open" /\ w2.sentEof /\ (w2.gotClose <=> w.gotClose)
      /\ ~w2.sentClose /\ w2.awaiting = w.awaiting /\ w2.credit = w.credit
  BY <1>1, <1>2, <1>3 DEF Views
<1>6. ViewSent(w, p, w2)
  BY <1>2, <1>4, <1>5 DEF ViewSent
<1>7. Awaits(toServer, Append(toServer, p), w, w2)
  BY <1>3, <1>4, <1>5, NothingAwaited
<1> QED BY <1>1, <1>2, <1>4, <1>5, <1>6, <1>7, PeerWrites

(* The peer closes a channel.                                              *)
LEMMA PeerCloseOK ==
  ASSUME IInv, NEW no \in ChannelNos, PeerClose(no)
  PROVE  IInv'
<1>1. PICK p, w : p = Packet("CLOSE", no, 0) /\ w = peer[no]
  OBVIOUS
<1>2. PICK w2 : w2 = IF w.gotClose THEN Reset(no) ELSE [w EXCEPT !.sentClose = TRUE]
  OBVIOUS
<1>3. PeerSend(p, w2) /\ w.state = "open" /\ ~w.sentClose
  BY <1>1, <1>2 DEF PeerClose, Writable
<1>4. w \in Views /\ toServer \in Seq(PacketsIn)
  BY <1>1, <1>3, PeerSetting
<1>5. p \in PacketsIn /\ p.no = no /\ p.type = "CLOSE"
  <2>1. p \in PacketsIn
    BY <1>1, PeerPacket
  <2> QED BY <1>1, <2>1 DEF Packet
<1>6. w2 \in Views /\ (w2.sentEof <=> w.sentEof) /\ w2.awaiting = w.awaiting /\ ViewSent(w, p, w2)
  <2>1. CASE w.gotClose
    <3>1. w2 = [Closed EXCEPT !.awaiting = w.awaiting, !.sentEof = w.sentEof]
      BY <1>1, <1>2, <2>1 DEF Reset
    <3>2. /\ w2 \in Views /\ w2.state = "none" /\ ~w2.gotClose /\ ~w2.sentClose
          /\ (w2.sentEof <=> w.sentEof) /\ w2.awaiting = w.awaiting
      BY <1>4, <3>1 DEF Closed, Views
    <3> QED BY <1>5, <2>1, <3>2 DEF ViewSent
  <2>2. CASE ~w.gotClose
    <3>1. /\ w2 \in Views /\ w2.state = "open" /\ w2.sentClose /\ (w2.gotClose <=> w.gotClose)
          /\ (w2.sentEof <=> w.sentEof) /\ w2.awaiting = w.awaiting /\ w2.credit = w.credit
      BY <1>2, <1>3, <1>4, <2>2 DEF Views
    <3> QED BY <1>5, <3>1 DEF ViewSent
  <2> QED BY <2>1, <2>2
<1>7. Awaits(toServer, Append(toServer, p), w, w2)
  BY <1>4, <1>5, <1>6, NothingAwaited
<1> QED BY <1>1, <1>3, <1>5, <1>6, <1>7, PeerWrites

(* The loops look at the channels, the current one and the next ID.        *)
LEMMA LoopFrame ==
  ASSUME NEW s, NEW t, Entries(t) = Entries(s), t.nextID = s.nextID, t.read = s.read
  PROVE  /\ \A fs : /\ ForwardsOK(s, fs) => ForwardsOK(t, fs)
                    /\ AtResource(s, fs) => AtResource(t, fs)
                    /\ \A i : AtTransfer(s, fs, i) => AtTransfer(t, fs, i)
                    /\ \A ch : AtShell(s, fs, ch) => AtShell(t, fs, ch)
         /\ \A fs, id : Served(s, fs, id) => Served(t, fs, id)
         /\ \A fs : RoomLeft(s, fs) => RoomLeft(t, fs)
<1>1. ShellOpen(t) <=> ShellOpen(s)
  BY DEF ShellOpen
<1>2. \A fs, id : Served(s, fs, id) => Served(t, fs, id)
  BY <1>1 DEF Served
<1>3. \A fs : RoomLeft(s, fs) => RoomLeft(t, fs)
  BY <1>1 DEF RoomLeft
<1>4. \A fs : ForwardsOK(s, fs) => ForwardsOK(t, fs)
  BY DEF ForwardsOK
<1>5. \A fs : AtResource(s, fs) => AtResource(t, fs)
  BY <1>2, <1>3 DEF AtResource
<1>6. \A fs, i : AtTransfer(s, fs, i) => AtTransfer(t, fs, i)
  BY <1>2, <1>3 DEF AtTransfer
<1>7. \A fs, ch : AtShell(s, fs, ch) => AtShell(t, fs, ch)
  BY <1>1 DEF AtShell
<1> QED BY <1>2, <1>3, <1>4, <1>5, <1>6, <1>7

(* A session with the same channels and another queue to the peer.         *)
LEMMA OutKept ==
  ASSUME NEW s, ServerOK(s), NEW t, IsSession(t), Entries(t) = Entries(s), Len(t.chans) = Len(s.chans),
         t.nextID = s.nextID, t.read = s.read, t.write = s.write, t.sendClosed = s.sendClosed,
         ~t.link => t.out = <<>>
  PROVE  ServerOK(t)
<1>1. Selects(t) /\ t.sendClosed = FALSE /\ Len(t.chans) <= MaxChannels + 1
  BY DEF ServerOK, Selects
<1>2. \A d \in Entries(t) : d.id = d.id /\ d.type = d.type /\ (d.id = 1 => ~d.writeClosed)
  BY DEF ServerOK
<1>3. \A d \in Entries(t) : \E c \in Entries(s) : d.id = c.id /\ d.type = c.type /\ (c.id = 1 => ~d.writeClosed)
  BY <1>2
<1> QED BY <1>1, <1>3, ServerKept

(* A step of the network or the peer, which the thread does not see.       *)
LEMMA NetworkKeeps ==
  ASSUME IInv, phase # "ended", UNCHANGED <<phase, index, channel, forwards>>,
         IsSession(ssh'), Entries(ssh') = Entries(ssh), Len(ssh'.chans) = Len(ssh.chans),
         ssh'.nextID = ssh.nextID, ssh'.read = ssh.read, ssh'.write = ssh.write, ssh'.sendClosed = ssh.sendClosed,
         ~ssh'.link => ssh'.out = <<>>, LinkOK(ssh', toServer', peer')
  PROVE  IInv'
<1>1. Running
  BY DEF IInv
<1>2. ServerOK(ssh')
  BY <1>1, OutKept DEF Running
<1>3. ForwardsOK(ssh', forwards')
  BY <1>1, LoopFrame DEF Running
<1>4. LoopOK'
  <2>1. ASSUME phase' \in {"shell send", "shell receive"} PROVE AtShell(ssh', forwards', channel')
    BY <1>1, <2>1, LoopFrame, Zenon DEF Running, LoopOK
  <2>2. ASSUME phase' = "resource" PROVE AtResource(ssh', forwards')
    BY <1>1, <2>2, LoopFrame DEF Running, LoopOK
  <2>3. ASSUME phase' = "transfer" PROVE AtTransfer(ssh', forwards', index')
    BY <1>1, <2>3, LoopFrame DEF Running, LoopOK
  <2> QED BY <2>1, <2>2, <2>3, Zenon DEF LoopOK
<1>5. ThreadOK'
  <2>1. \A no \in ChannelNos : peer'[no].state \in {"none", "opening", "open"}
    BY ViewTypes
  <2> QED BY <2>1, Zenon DEF IInv, ThreadOK
<1> QED BY <1>2, <1>3, <1>4, <1>5, GoesOn

(* The channels are all there is to a sound session.                       *)
LEMMA SessionLike ==
  ASSUME NEW s, IsSession(s), NEW t, t \in Session, t.chans = s.chans
  PROVE  IsSession(t) /\ Entries(t) = Entries(s)
BY DEF IsSession, IsRaw, Entries

(* The link fails.                                                         *)
LEMMA LinkFailsOK ==
  ASSUME IInv, LinkFails
  PROVE  IInv'
<1>1. /\ ssh.link /\ phase # "ended" /\ ssh' = [ssh EXCEPT !.link = FALSE, !.out = <<>>]
      /\ UNCHANGED <<phase, index, channel, forwards, toServer, peer>>
  BY DEF LinkFails
<1>2. ServerOK(ssh) /\ LinkOK(ssh, toServer, peer)
  BY <1>1 DEF IInv, Running
<1>3. PICK s, t : s = ssh /\ t = [s EXCEPT !.link = FALSE, !.out = <<>>]
  BY Zenon
<1>4. IsSession(s) /\ s.link \in BOOLEAN /\ LinkOK(s, toServer, peer)
  BY <1>2, <1>3 DEF ServerOK, IsSession, IsRaw, Session
<1>5. /\ IsSession(t) /\ t.chans = s.chans /\ Entries(t) = Entries(s) /\ t.nextID = s.nextID
      /\ t.read = s.read /\ t.write = s.write /\ t.sendClosed = s.sendClosed /\ t.link = FALSE /\ t.out = <<>>
  <2>1. s \in Session
    BY <1>4 DEF IsSession, IsRaw
  <2>2. /\ t \in Session /\ t.chans = s.chans /\ t.nextID = s.nextID
        /\ t.read = s.read /\ t.write = s.write /\ t.sendClosed = s.sendClosed /\ t.link = FALSE /\ t.out = <<>>
    <3>1. <<>> \in Seq(PacketsOut)
      OBVIOUS
    <3> QED BY <1>3, <2>1, <3>1 DEF Session
  <2> QED BY <1>4, <2>2, SessionLike
<1>6. LinkOK(t, toServer, peer)
  BY <1>4, <1>5, LinkLost
<1>7. ssh' = t /\ ssh = s
  BY <1>1, <1>3
<1>8. /\ IsSession(ssh') /\ Entries(ssh') = Entries(ssh) /\ Len(ssh'.chans) = Len(ssh.chans)
      /\ ssh'.nextID = ssh.nextID /\ ssh'.read = ssh.read /\ ssh'.write = ssh.write
      /\ ssh'.sendClosed = ssh.sendClosed /\ (~ssh'.link => ssh'.out = <<>>)
  BY <1>5, <1>7
<1>9. LinkOK(ssh', toServer', peer')
  BY <1>1, <1>6, <1>7
<1> QED BY <1>1, <1>8, <1>9, NetworkKeeps

\* The peer's view v of the number of p once it has received p.
Viewed(p, v) ==
  CASE p.type = "OPEN_CONFIRMATION" -> [v EXCEPT !.state = "open", !.credit = p.arg]
    [] p.type = "OPEN_FAILURE" -> Reset(p.no)
    [] p.type = "ADJUST" -> [v EXCEPT !.credit = @ + p.arg]
    [] p.type \in {"SUCCESS", "FAILURE"} -> [v EXCEPT !.awaiting = @ - 1]
    [] p.type = "CLOSE" -> IF v.sentClose THEN Reset(p.no) ELSE [v EXCEPT !.gotClose = TRUE]
    [] OTHER -> v

(* What the peer makes of a packet.                                        *)
LEMMA ViewOf ==
  ASSUME NEW p \in PacketsOut, NEW w \in Views, w = peer[p.no], p.type # "OPEN_FAILURE", NEW w2, w2 = Viewed(p, w)
  PROVE  /\ w2 \in Views /\ ViewReceived(w, p, w2)
         /\ w2.awaiting = IF p.type \in {"SUCCESS", "FAILURE"} THEN w.awaiting - 1 ELSE w.awaiting
<1>1. p.type \in AnswerTypes /\ p.arg \in Nat
  BY DEF PacketsOut
<1>2. w.credit \in Nat /\ w.awaiting \in Int /\ w.credit + p.arg \in Nat /\ w.awaiting - 1 \in Int
  BY <1>1 DEF Views
<1>3. CASE p.type = "OPEN_CONFIRMATION"
  <2>1. w2 = [w EXCEPT !.state = "open", !.credit = p.arg]
    BY <1>3 DEF Viewed
  <2>2. /\ w2 \in Views /\ w2.state = "open" /\ w2.credit = p.arg /\ (w2.sentEof <=> w.sentEof)
        /\ (w2.sentClose <=> w.sentClose) /\ (w2.gotClose <=> w.gotClose) /\ w2.awaiting = w.awaiting
    BY <1>1, <2>1 DEF Views
  <2> QED BY <1>3, <2>2 DEF ViewReceived
<1>4. CASE p.type = "ADJUST"
  <2>1. w2 = [w EXCEPT !.credit = w.credit + p.arg]
    BY <1>4 DEF Viewed
  <2>2. /\ w2 \in Views /\ w2.state = w.state /\ w2.credit = w.credit + p.arg /\ (w2.sentEof <=> w.sentEof)
        /\ (w2.sentClose <=> w.sentClose) /\ (w2.gotClose <=> w.gotClose) /\ w2.awaiting = w.awaiting
    BY <1>1, <1>2, <2>1 DEF Views
  <2> QED BY <1>4, <2>2 DEF ViewReceived
<1>5. CASE p.type \in {"SUCCESS", "FAILURE"}
  <2>1. w2 = [w EXCEPT !.awaiting = w.awaiting - 1]
    BY <1>5 DEF Viewed
  <2>2. /\ w2 \in Views /\ w2.state = w.state /\ w2.credit = w.credit /\ (w2.sentEof <=> w.sentEof)
        /\ (w2.sentClose <=> w.sentClose) /\ (w2.gotClose <=> w.gotClose) /\ w2.awaiting = w.awaiting - 1
    BY <1>1, <1>2, <2>1 DEF Views
  <2> QED BY <1>5, <2>2 DEF ViewReceived
<1>6. CASE p.type = "CLOSE" /\ w.sentClose
  <2>1. w2 = [Closed EXCEPT !.awaiting = w.awaiting, !.sentEof = w.sentEof]
    BY <1>6 DEF Viewed, Reset
  <2>2. /\ w2 \in Views /\ w2.state = "none" /\ ~w2.gotClose /\ ~w2.sentClose
        /\ (w2.sentEof <=> w.sentEof) /\ w2.awaiting = w.awaiting
    <3>1. w2 = [state |-> "none", sentEof |-> w.sentEof, sentClose |-> FALSE, gotClose |-> FALSE,
                credit |-> 0, awaiting |-> w.awaiting]
      BY <2>1 DEF Closed
    <3>2. w.sentEof \in BOOLEAN
      BY DEF Views
    <3> QED BY <1>2, <3>1, <3>2 DEF Views
  <2> QED BY <1>6, <2>2 DEF ViewReceived
<1>7. CASE p.type = "CLOSE" /\ ~w.sentClose
  <2>1. w2 = [w EXCEPT !.gotClose = TRUE]
    BY <1>7 DEF Viewed
  <2>2. /\ w2 \in Views /\ w2.state = w.state /\ w2.credit = w.credit /\ (w2.sentEof <=> w.sentEof)
        /\ ~w2.sentClose /\ w2.gotClose /\ w2.awaiting = w.awaiting
    BY <1>1, <1>7, <2>1 DEF Views
  <2> QED BY <1>7, <2>2 DEF ViewReceived
<1>8. CASE p.type = "DATA"
  <2>1. w2 = w
    BY <1>8 DEF Viewed
  <2> QED BY <1>8, <2>1 DEF ViewReceived
<1> QED BY <1>1, <1>3, <1>4, <1>5, <1>6, <1>7, <1>8 DEF AnswerTypes

(* The peer receives a packet.                                             *)
LEMMA PeerReceiveOK ==
  ASSUME IInv, PeerReceive
  PROVE  IInv'
<1>1. PICK s, o, p, w : s = ssh /\ o = s.out /\ p = Head(o) /\ w = peer[p.no]
  OBVIOUS
<1>2. PICK o2, w2 : o2 = Tail(o) /\ w2 = Viewed(p, w)
  OBVIOUS
<1>3. PICK t, v2 : t = [s EXCEPT !.out = o2] /\ v2 = [peer EXCEPT ![p.no] = w2]
  BY Zenon
<1>4. /\ o # <<>> /\ phase # "ended" /\ ssh' = [ssh EXCEPT !.out = Tail(@)] /\ peer' = v2
      /\ UNCHANGED <<phase, index, channel, forwards, toServer>>
  BY <1>1, <1>2, <1>3, Zenon DEF PeerReceive, Viewed
<1>5. ServerOK(s) /\ LinkOK(s, toServer, peer)
  BY <1>1, <1>4 DEF IInv, Running
<1>6. IsSession(s) /\ s.link /\ o \in Seq(PacketsOut) /\ s.sendClosed = FALSE
  <2>1. IsSession(s) /\ s.sendClosed = FALSE /\ (~s.link => s.out = <<>>)
    BY <1>5 DEF ServerOK
  <2> QED BY <1>1, <1>4, <2>1 DEF IsSession, IsRaw, Session
<1>7. p \in PacketsOut /\ o2 \in Seq(PacketsOut)
  BY <1>1, <1>2, <1>4, <1>6, TailFacts
<1>8. p.no \in ChannelNos
  BY <1>7 DEF PacketsOut
<1>9. PICK es : es = findChannelAttr(s, p.no)
  OBVIOUS
<1>10. /\ toServer \in Seq(PacketsIn) /\ w \in Views /\ AlwaysInv(p.no, es, toServer, w)
       /\ LinkInv(p.no, es, o, toServer, w) /\ OutOrder(o) /\ ~Has(o, "OPEN_FAILURE", p.no)
  BY <1>1, <1>5, <1>6, <1>8, <1>9, SettingAt
<1>11. p.type # "OPEN_FAILURE"
  <2>1. 1 \in DOMAIN o /\ p = o[1]
    BY <1>1, <1>4, <1>6, TailFacts
  <2> QED BY <1>10, <2>1 DEF Has
<1>12. /\ w2 \in Views /\ ViewReceived(w, p, w2)
       /\ w2.awaiting = IF p.type \in {"SUCCESS", "FAILURE"} THEN w.awaiting - 1 ELSE w.awaiting
  BY <1>1, <1>2, <1>7, <1>10, <1>11, ViewOf
<1>13. AlwaysInv(p.no, es, toServer, w2) /\ LinkInv(p.no, es, o2, toServer, w2)
  BY <1>1, <1>2, <1>4, <1>6, <1>8, <1>9, <1>10, <1>11, <1>12, NumberReceived
<1>14. Receives(o, o2, w, w2)
  <2>1. Answers(o2) \in Nat /\ Answers(o) = Answers(o2) + IF p.type \in {"SUCCESS", "FAILURE"} THEN 1 ELSE 0
    BY <1>1, <1>2, <1>4, <1>6, AnswersTail
  <2>2. w.awaiting \in Int
    BY <1>10 DEF Views
  <2>3. CASE p.type \in {"SUCCESS", "FAILURE"}
    <3>1. w2.awaiting = w.awaiting - 1 /\ Answers(o) = Answers(o2) + 1
      BY <1>12, <2>1, <2>3
    <3> QED BY <3>1 DEF Receives
  <2>4. CASE p.type \notin {"SUCCESS", "FAILURE"}
    <3>1. w2.awaiting = w.awaiting - 0 /\ Answers(o) = Answers(o2) + 0
      BY <1>12, <2>1, <2>2, <2>4
    <3> QED BY <3>1 DEF Receives
  <2> QED BY <2>3, <2>4
<1>15. /\ IsSession(t) /\ t.chans = s.chans /\ Entries(t) = Entries(s) /\ t.nextID = s.nextID
       /\ t.read = s.read /\ t.write = s.write /\ t.sendClosed = s.sendClosed /\ t.link = s.link /\ t.out = o2
  <2>1. s \in Session
    BY <1>6 DEF IsSession, IsRaw
  <2>2. /\ t \in Session /\ t.chans = s.chans /\ t.nextID = s.nextID
        /\ t.read = s.read /\ t.write = s.write /\ t.sendClosed = s.sendClosed /\ t.link = s.link /\ t.out = o2
    BY <1>3, <1>7, <2>1 DEF Session
  <2> QED BY <1>6, <2>2, SessionLike
<1>16. LinkOK(t, toServer, v2)
  <2>1. SeenAs(peer, p.no, w2, v2)
    BY <1>3 DEF SeenAs
  <2>2. Entries(t) = Entries(s) /\ t.link = s.link /\ t.out = o2
    BY <1>15
  <2> QED BY <1>1, <1>2, <1>4, <1>5, <1>6, <1>9, <1>12, <1>13, <1>14, <2>1, <2>2, LinkReceived
<1>17. ssh' = t /\ ssh = s
  BY <1>1, <1>2, <1>3, <1>4
<1>18. /\ IsSession(ssh') /\ Entries(ssh') = Entries(ssh) /\ Len(ssh'.chans) = Len(ssh.chans)
       /\ ssh'.nextID = ssh.nextID /\ ssh'.read = ssh.read /\ ssh'.write = ssh.write
       /\ ssh'.sendClosed = ssh.sendClosed /\ (~ssh'.link => ssh'.out = <<>>)
  BY <1>6, <1>15, <1>17
<1>19. LinkOK(ssh', toServer', peer')
  BY <1>4, <1>16, <1>17
<1> QED BY <1>4, <1>18, <1>19, NetworkKeeps

-----------------------------------------------------------------------------
(* What the server makes of the first packet. *)

\* The channels of t are channels of s.
Kept(s, t) ==
  /\ t.nextID = s.nextID /\ t.link = s.link
  /\ \A d \in Entries(t) : \E c \in Entries(s) :
       d.id = c.id /\ d.type = c.type /\ (d.writeClosed <=> c.writeClosed)

\* The current channel for reading is one of those of s, or a channel was
\* removed that was not the only one.
Reading(s, t) ==
  \/ /\ t.read = s.read \/ \E c \in Entries(s) : t.read = c.id
     /\ \A c \in Entries(s) : \E d \in Entries(t) : d.id = c.id
  \/ \E c, d \in Entries(s) : c.id # d.id

\* The packet is dealt with and the session goes on.
Continues(s, q2, v, t) == ServerOK(t) /\ LinkOK(t, q2, v) /\ Kept(s, t) /\ Reading(s, t)

\* The packet has opened a channel, the current one.
Opens(s, q2, v, t) ==
  /\ ServerOK(t) /\ LinkOK(t, q2, v) /\ t.nextID = s.nextID + 1 /\ t.read = s.nextID
  /\ \E d : Entries(t) = Entries(s) \cup {d} /\ d.id = s.nextID /\ ~d.writeClosed

\* The packet ends the session with the status st.
Finishes(s, p, v, t, st) ==
  /\ Valid(t) /\ (t.sendClosed = TRUE => Entries(t) = {})
  /\ \/ st = "COMPLETE" /\ Entries(t) = {}
     \/ st = "WRITE" /\ ~s.link
     \/ st = "OVERFLOW" /\ Len(s.chans) = MaxChannels + 1
     \/ st = "BADDATA" /\ v[p.no].sentEof
     \/ st = "INTERNAL" /\ p.type = "REQUEST" /\ getCurrentChannelNo(s, "read") = NoChannel

\* One of the three.
Outcome(s, p, q2, v, t, st) ==
  \/ st \in {Ok, OkSpecial} /\ Continues(s, q2, v, t)
  \/ st = EnvelopeResource /\ Opens(s, q2, v, t)
  \/ st \notin {Ok, OkSpecial, EnvelopeResource} /\ Finishes(s, p, v, t, st)

(* A session that runs, with other windows and another current channel.    *)
LEMMA StillRuns ==
  ASSUME NEW s, ServerOK(s), NEW c \in Entries(s), NEW d, d.id = c.id, d.type = c.type, d.writeClosed <=> c.writeClosed,
         NEW t, NEW es, es = (Entries(s) \ {c}) \cup {d}, NEW read, read = c.id \/ read = s.read, NEW out,
         s.link \/ out = <<>>, Becomes(s, t, es, read, s.write, out)
  PROVE  ServerOK(t) /\ Kept(s, t) /\ Reading(s, t)
<1>1. /\ IsSession(t) /\ Entries(t) = es /\ Len(t.chans) <= Len(s.chans) /\ t.nextID = s.nextID
      /\ t.read = read /\ t.write = s.write /\ t.out = out /\ t.sendClosed = s.sendClosed /\ t.link = s.link
  BY DEF Becomes
<1>2. /\ IsSession(s) /\ Selects(s) /\ s.sendClosed = FALSE /\ Len(s.chans) <= MaxChannels + 1
  BY DEF ServerOK
<1>3. \A x \in Entries(t) : \E e \in Entries(s) : x.id = e.id /\ x.type = e.type /\ (x.writeClosed <=> e.writeClosed)
  BY <1>1
<1>4. \A e \in Entries(s) : \E x \in Entries(t) : x.id = e.id /\ (x.writeClosed <=> e.writeClosed)
  BY <1>1
<1>5. Selects(t)
  BY <1>1, <1>2, <1>4 DEF Selects
<1>6. Len(t.chans) <= MaxChannels + 1
  <2>1. Len(t.chans) \in Int /\ Len(s.chans) \in Int /\ MaxChannels \in Int
    BY <1>1, <1>2, SshChannelAssumption DEF IsSession, IsRaw, Session
  <2> QED BY <1>1, <1>2, <2>1
<1>7. ServerOK(t)
  <2>1. \A x \in Entries(t) : \E e \in Entries(s) : x.id = e.id /\ x.type = e.type /\ (e.id = 1 => ~x.writeClosed)
    BY <1>3 DEF ServerOK
  <2>2. IsSession(t) /\ t.sendClosed = FALSE /\ t.nextID = s.nextID /\ (~t.link => t.out = <<>>)
    BY <1>1, <1>2
  <2> QED BY <1>5, <1>6, <2>1, <2>2, ServerKept
<1>8. Kept(s, t)
  BY <1>1, <1>3 DEF Kept
<1>9. Reading(s, t)
  BY <1>1, <1>4 DEF Reading
<1> QED BY <1>7, <1>8, <1>9

(* A session that is to be shut down with its channels.                    *)
LEMMA StopsWith ==
  ASSUME NEW s, ServerOK(s), NEW c \in Entries(s), NEW t, Becomes(s, t, Entries(s), c.id, s.write, s.out)
  PROVE  Valid(t) /\ (t.sendClosed = TRUE => Entries(t) = {})
<1>1. /\ IsSession(t) /\ Entries(t) = Entries(s) /\ t.read = c.id /\ t.write = s.write /\ t.sendClosed = s.sendClosed
  BY DEF Becomes
<1>2. Selects(s) /\ s.sendClosed = FALSE
  BY DEF ServerOK
<1> QED BY <1>1, <1>2 DEF Valid, Selects

(* The channel is not there: it was closed by its EOF.                     *)
LEMMA PopNoneOK ==
  ASSUME NEW s, ServerOK(s), NEW q, NEW v, LinkOK(s, q, v), q # <<>>, NEW p, p = Head(q), p.type # "OPEN",
         \A c \in Entries(s) : c.no # p.no, NEW q2, NEW r, r = cryptPopData(s, p)
  PROVE  Outcome(s, p, q2, v, r.s, r.st)
<1>1. IsSession(s) /\ Valid(s) /\ s.sendClosed = FALSE /\ q \in Seq(PacketsIn)
  BY ServerSound DEF LinkOK
<1>2. p \in PacketsIn /\ 1 \in DOMAIN q /\ p = q[1]
  BY <1>1, TailFacts
<1>3. p.no \in ChannelNos
  BY <1>2 DEF PacketsIn
<1>4. r.s = s /\ r.st = "BADDATA"
  BY <1>1, <1>3, PopOff
<1>5. PICK es, w : es = findChannelAttr(s, p.no) /\ w = v[p.no]
  OBVIOUS
<1>6. AlwaysInv(p.no, es, q, w)
  BY <1>1, <1>3, <1>5, SettingAt
<1>7. es = {} /\ HasAny(q, p.no)
  BY <1>2, <1>5, NotFound DEF HasAny
<1>8. w.sentEof
  BY <1>6, <1>7 DEF AlwaysInv
<1>9. Finishes(s, p, v, r.s, r.st)
  BY <1>1, <1>4, <1>5, <1>8 DEF Finishes
<1> QED BY <1>4, <1>9 DEF Outcome, Ok, OkSpecial, EnvelopeResource

(* Data comes.                                                             *)
LEMMA PopDataOK ==
  ASSUME NEW s, ServerOK(s), NEW q, NEW v, LinkOK(s, q, v), q # <<>>, NEW p, p = Head(q), p.type = "DATA",
         NEW c \in Entries(s), c.no = p.no, NEW q2, q2 = Tail(q), NEW r, r = cryptPopData(s, p)
  PROVE  Outcome(s, p, q2, v, r.s, r.st)
<1>1. IsSession(s) /\ (~s.link => s.out = <<>>) /\ q \in Seq(PacketsIn) /\ IsRaw(s)
  BY ServerSound DEF LinkOK, ServerOK, IsSession
<1>2. p \in PacketsIn /\ 1 \in DOMAIN q /\ p = q[1]
  BY <1>1, TailFacts
<1>3. p.no \in ChannelNos /\ p.arg = DataLen
  BY <1>2 DEF PacketsIn
<1>4. PICK es, w : es = findChannelAttr(s, p.no) /\ w = v[p.no]
  OBVIOUS
<1>5. AlwaysInv(p.no, es, q, w)
  BY <1>1, <1>3, <1>4, SettingAt
<1>6. c \in es
  BY <1>4 DEF findChannelAttr
<1>7. c.windowCount <= WindowSize /\ Bytes(q, "DATA", p.no) <= c.windowCount
  BY <1>5, <1>6 DEF AlwaysInv
<1>8. DataLen <= c.windowCount
  <2>1. HasBytes(q, "DATA")
    BY <1>1, PacketFacts
  <2>2. Bytes(q, "DATA", p.no) \in Nat /\ Bytes(q2, "DATA", p.no) \in Nat
        /\ Bytes(q, "DATA", p.no) = Bytes(q2, "DATA", p.no) + DataLen
    BY <1>1, <1>3, <2>1, BytesTail
  <2>3. c.windowCount \in Nat /\ DataLen \in Nat
    BY <1>1, EntryFacts, SshChannelAssumption
  <2> QED BY <1>7, <2>2, <2>3
<1>9. DataPopped(s, c, r.s, r.st)
  BY <1>1, <1>3, <1>7, <1>8, PopData
<1>10. CASE r.st = Ok
  <2>1. DataPopped(s, c, r.s, Ok)
    BY <1>9, <1>10
  <2>2. LinkOK(r.s, q2, v)
    BY <1>1, <2>1, LinkData
  <2>3. PICK n, out : /\ s.link \/ out = <<>>
                      /\ Becomes(s, r.s, (Entries(s) \ {c}) \cup {[c EXCEPT !.windowCount = n]}, c.id, s.write, out)
    BY <1>1, <2>1 DEF DataPopped, Ok
  <2>4. PICK d : d = [c EXCEPT !.windowCount = n]
    OBVIOUS
  <2>5. d.id = c.id /\ d.type = c.type /\ (d.writeClosed <=> c.writeClosed)
    BY <1>1, <2>4, EntryFacts DEF Channels
  <2>6. PICK es2 : es2 = (Entries(s) \ {c}) \cup {d}
    OBVIOUS
  <2>7. Becomes(s, r.s, es2, c.id, s.write, out)
    BY <2>3, <2>4, <2>6
  <2>8. ServerOK(r.s) /\ Kept(s, r.s) /\ Reading(s, r.s)
    BY <2>3, <2>5, <2>6, <2>7, StillRuns
  <2> QED BY <1>10, <2>2, <2>8 DEF Outcome, Continues
<1>11. CASE r.st # Ok
  <2>1. r.st = "WRITE" /\ ~s.link /\ Becomes(s, r.s, Entries(s), c.id, s.write, s.out)
    BY <1>9, <1>11 DEF DataPopped
  <2>2. Finishes(s, p, v, r.s, r.st)
    BY <2>1, StopsWith DEF Finishes
  <2> QED BY <2>1, <2>2 DEF Outcome, Ok, OkSpecial, EnvelopeResource
<1> QED BY <1>10, <1>11

(* The same with the channels unchanged.                                   *)
LEMMA StaysWith ==
  ASSUME NEW s, ServerOK(s), NEW c \in Entries(s), NEW t, NEW read, read = c.id \/ read = s.read, NEW out,
         s.link \/ out = <<>>, Becomes(s, t, Entries(s), read, s.write, out)
  PROVE  ServerOK(t) /\ Kept(s, t) /\ Reading(s, t)
<1>1. PICK es : es = (Entries(s) \ {c}) \cup {c}
  OBVIOUS
<1>2. es = Entries(s)
  BY <1>1
<1>3. Becomes(s, t, es, read, s.write, out)
  BY <1>2
<1>4. c.id = c.id /\ c.type = c.type /\ (c.writeClosed <=> c.writeClosed)
  OBVIOUS
<1> QED BY <1>1, <1>3, <1>4, StillRuns

(* Room to send comes.                                                     *)
LEMMA PopAdjustOK ==
  ASSUME NEW s, ServerOK(s), NEW q, NEW v, LinkOK(s, q, v), q # <<>>, NEW p, p = Head(q), p.type = "ADJUST",
         NEW c \in Entries(s), c.no = p.no, NEW q2, q2 = Tail(q), NEW r, r = cryptPopData(s, p)
  PROVE  Outcome(s, p, q2, v, r.s, r.st)
<1>1. IsSession(s) /\ (~s.link => s.out = <<>>)
  BY DEF ServerOK
<1>2. PICK t : t = r.s
  OBVIOUS
<1>3. Becomes(s, t, Entries(s), c.id, s.write, s.out) /\ r.st = OkSpecial
  BY <1>1, <1>2, PopAdjust
<1>4. ServerOK(t) /\ Kept(s, t) /\ Reading(s, t)
  BY <1>1, <1>3, StaysWith
<1>5. LinkOK(t, q2, v)
  <2>1. Entries(t) = Entries(s) /\ t.link = s.link /\ t.out = s.out
    BY <1>3 DEF Becomes
  <2> QED BY <1>1, <2>1, LinkAdjust
<1> QED BY <1>2, <1>3, <1>4, <1>5 DEF Outcome, Continues

(* A request comes.                                                        *)
LEMMA PopRequestOK ==
  ASSUME NEW s, ServerOK(s), NEW q, NEW v, LinkOK(s, q, v), q # <<>>, NEW p, p = Head(q), p.type = "REQUEST",
         NEW c \in Entries(s), c.no = p.no, NEW q2, q2 = Tail(q), NEW r, r = cryptPopData(s, p)
  PROVE  Outcome(s, p, q2, v, r.s, r.st)
<1>1. IsSession(s) /\ (~s.link => s.out = <<>>) /\ q \in Seq(PacketsIn)
  BY DEF ServerOK, LinkOK
<1>2. p \in PacketsIn
  BY <1>1, TailFacts
<1>3. p.arg \in PeerRequests
  BY <1>2 DEF PacketsIn
<1>4. PICK info : info = requestInfo[p.arg]
  OBVIOUS
<1>5. info.known \in BOOLEAN /\ info.wantReply \in BOOLEAN
  BY <1>3, <1>4, RequestInfo
<1>6. PICK t, st : t = r.s /\ st = r.st
  OBVIOUS
<1>7. RequestPopped(s, c, p, t, st)
  BY <1>1, <1>4, <1>5, <1>6, PopRequest
<1>8. CASE st = OkSpecial
  <2>1. LinkOK(t, q2, v)
    BY <1>1, <1>7, <1>8, LinkRequest
  <2>2. PICK read, out : /\ read = c.id \/ read = s.read
                         /\ s.link \/ out = <<>>
                         /\ Becomes(s, t, Entries(s), read, s.write, out)
    BY <1>1, <1>7, <1>8 DEF RequestPopped, OkSpecial
  <2>3. ServerOK(t) /\ Kept(s, t) /\ Reading(s, t)
    BY <2>2, StaysWith
  <2> QED BY <1>6, <1>8, <2>1, <2>3 DEF Outcome, Continues
<1>9. CASE st = "INTERNAL" /\ (\A d \in Entries(s) : d.id # s.read) /\ Becomes(s, t, Entries(s), c.id, s.write, s.out)
  <2>1. getCurrentChannelNo(s, "read") = NoChannel
    BY <1>1, <1>9, NoCurrentNo
  <2>2. Finishes(s, p, v, t, st)
    BY <1>9, <2>1, StopsWith DEF Finishes
  <2> QED BY <1>6, <1>9, <2>2 DEF Outcome, Ok, OkSpecial, EnvelopeResource
<1>10. CASE st = "WRITE" /\ ~s.link /\ \E read \in {c.id, s.read} : Becomes(s, t, Entries(s), read, s.write, s.out)
  <2>1. PICK read \in {c.id, s.read} : Becomes(s, t, Entries(s), read, s.write, s.out)
    BY <1>10
  <2>2. ServerOK(t)
    BY <1>1, <1>10, <2>1, StaysWith
  <2>3. Finishes(s, p, v, t, st)
    BY <1>10, <2>2, ServerSound DEF Finishes
  <2> QED BY <1>6, <1>10, <2>3 DEF Outcome, Ok, OkSpecial, EnvelopeResource
<1> QED BY <1>7, <1>8, <1>9, <1>10 DEF RequestPopped

(* A channel is closed, the last one with the session.                     *)
LEMMA PopCloseOK ==
  ASSUME NEW s, ServerOK(s), NEW q, NEW v, LinkOK(s, q, v), q # <<>>, NEW p, p = Head(q), p.type \in {"EOF", "CLOSE"},
         NEW c \in Entries(s), c.no = p.no, NEW q2, q2 = Tail(q), NEW r, r = cryptPopData(s, p)
  PROVE  Outcome(s, p, q2, v, r.s, r.st)
<1>1. IsSession(s) /\ (~s.link => s.out = <<>>) /\ Selects(s) /\ s.sendClosed = FALSE /\ Len(s.chans) <= MaxChannels + 1
  BY DEF ServerOK
<1>2. PICK t, st : t = r.s /\ st = r.st
  OBVIOUS
<1>3. /\ RemovedFrom(s, c, t)
      /\ IF Entries(s) = {c} THEN st = "COMPLETE" ELSE st = OkSpecial /\ t.sendClosed = s.sendClosed
  BY <1>1, <1>2, PopClose
<1>4. /\ IsSession(t) /\ Entries(t) = Entries(s) \ {c} /\ Len(t.chans) <= Len(s.chans) /\ t.nextID = s.nextID
      /\ t.read = UnusedID /\ t.write = (IF s.write = c.id THEN UnusedID ELSE s.write)
      /\ t.out = (IF s.link /\ ~c.writeClosed THEN Append(s.out, Packet("CLOSE", c.no, 0)) ELSE s.out)
      /\ t.link = s.link
  BY <1>3 DEF RemovedFrom
<1>5. \A d \in Entries(s) : d.id = c.id => d = c
  BY <1>1, EntryFacts DEF IsSession
<1>6. Selects(t)
  BY <1>1, <1>4, <1>5 DEF Selects
<1>7. CASE Entries(s) = {c}
  <2>1. st = "COMPLETE" /\ Entries(t) = {}
    BY <1>3, <1>4, <1>7
  <2>2. Finishes(s, p, v, t, st)
    BY <1>4, <1>6, <2>1 DEF Finishes, Valid
  <2> QED BY <1>2, <2>1, <2>2 DEF Outcome, Ok, OkSpecial, EnvelopeResource
<1>8. CASE Entries(s) # {c}
  <2>1. st = OkSpecial /\ t.sendClosed = FALSE
    BY <1>1, <1>3, <1>8
  <2>2. LinkOK(t, q2, v)
    BY <1>1, <1>3, LinkEnd
  <2>3. Len(t.chans) <= MaxChannels + 1
    <3>1. Len(t.chans) \in Int /\ Len(s.chans) \in Int /\ MaxChannels \in Int
      BY <1>1, <1>4, SshChannelAssumption DEF IsSession, IsRaw, Session
    <3> QED BY <1>1, <1>4, <3>1
  <2>4. ServerOK(t)
    <3>1. \A d \in Entries(t) : \E e \in Entries(s) : d.id = e.id /\ d.type = e.type /\ (e.id = 1 => ~d.writeClosed)
      <4>1. \A d \in Entries(t) : d \in Entries(s) /\ d.id = d.id /\ d.type = d.type /\ (d.id = 1 => ~d.writeClosed)
        BY <1>4 DEF ServerOK
      <4> QED BY <4>1
    <3>2. ~t.link => t.out = <<>>
      BY <1>1, <1>4
    <3> QED BY <1>4, <1>6, <2>1, <2>3, <3>1, <3>2, ServerKept
  <2>5. Kept(s, t)
    <3>1. \A d \in Entries(t) : d \in Entries(s) /\ d.id = d.id /\ d.type = d.type /\ (d.writeClosed <=> d.writeClosed)
      BY <1>4
    <3> QED BY <1>4, <3>1 DEF Kept
  <2>6. Reading(s, t)
    <3>1. PICK d \in Entries(s) : d # c
      BY <1>8
    <3>2. d.id # c.id
      BY <1>5, <3>1
    <3> QED BY <3>2 DEF Reading
  <2> QED BY <1>2, <2>1, <2>2, <2>4, <2>5, <2>6 DEF Outcome, Continues
<1> QED BY <1>7, <1>8

(* A channel is asked for.                                                 *)
LEMMA PopOpenOK ==
  ASSUME NEW s, ServerOK(s), NEW q, NEW v, LinkOK(s, q, v), q # <<>>, NEW p, p = Head(q), p.type = "OPEN",
         NEW q2, q2 = Tail(q), NEW r, r = cryptPopData(s, p)
  PROVE  Outcome(s, p, q2, v, r.s, r.st)
<1>1. /\ IsSession(s) /\ IsRaw(s) /\ (~s.link => s.out = <<>>) /\ Selects(s) /\ s.sendClosed = FALSE
      /\ Len(s.chans) <= MaxChannels + 1 /\ s.nextID >= 2
      /\ \A c \in Entries(s) : c.id < s.nextID
  BY DEF ServerOK, IsSession
<1>2. PICK w : w = v[p.no]
  OBVIOUS
<1>3. findChannelAttr(s, p.no) = {} /\ p.no \in ChannelNos /\ p.arg = "direct-tcpip"
  BY <1>1, <1>2, OpenFree
<1>4. PICK t, st : t = r.s /\ st = r.st
  OBVIOUS
<1>5. OpenPopped(s, p, t, st)
  <2>1. \A c \in Entries(s) : c.no # p.no /\ c.id < s.nextID
    BY <1>1, <1>3, NotFound
  <2> QED BY <1>1, <1>3, <1>4, <2>1, PopOpen
<1>6. Len(s.chans) \in Nat /\ MaxChannels \in Nat /\ s.nextID \in Nat /\ \A c \in Entries(s) : c.id \in Nat
  <2>1. Len(s.chans) \in Nat /\ MaxChannels \in Nat /\ s.nextID \in Nat
    BY <1>1, SshChannelAssumption DEF IsRaw, Session
  <2>2. \A c \in Entries(s) : c.id \in Nat
    BY <1>1, EntryFacts
  <2> QED BY <2>1, <2>2
<1>7. CASE Len(s.chans) > MaxChannels
  <2>1. /\ st = "OVERFLOW" /\ IsSession(t) /\ Entries(t) = Entries(s) /\ t.read = s.read /\ t.write = s.write
        /\ t.sendClosed = s.sendClosed
    BY <1>5, <1>7 DEF OpenPopped
  <2>2. Len(s.chans) = MaxChannels + 1
    BY <1>1, <1>6, <1>7
  <2>3. Valid(t)
    BY <1>1, <2>1 DEF Valid, Selects
  <2>4. ~(t.sendClosed = TRUE)
    BY <1>1, <2>1
  <2>5. Finishes(s, p, v, t, st)
    BY <2>1, <2>2, <2>3, <2>4 DEF Finishes
  <2> QED BY <1>4, <2>1, <2>5 DEF Outcome, Ok, OkSpecial, EnvelopeResource
<1>8. CASE Len(s.chans) <= MaxChannels /\ s.link
  <2>1. PICK d : d = NewChannel(s, p)
    OBVIOUS
  <2>2. d.no = p.no /\ d.windowCount = WindowSize /\ d.writeClosed = FALSE /\ d.id = s.nextID /\ d.type = "direct-tcpip"
    BY <1>3, <2>1 DEF NewChannel, Channel
  <2>3. /\ st = EnvelopeResource /\ IsSession(t)
        /\ Entries(t) = Entries(s) \cup {d} /\ Len(t.chans) = Len(s.chans) + 1
        /\ t.nextID = s.nextID + 1 /\ t.read = s.nextID /\ t.write = s.nextID
        /\ t.out = Append(s.out, Packet("OPEN_CONFIRMATION", p.no, WindowSize))
        /\ t.sendClosed = s.sendClosed /\ t.link = s.link
    <3>1. ~(Len(s.chans) > MaxChannels)
      BY <1>6, <1>8
    <3>2. /\ st = EnvelopeResource /\ IsSession(t)
          /\ Entries(t) = Entries(s) \cup {NewChannel(s, p)} /\ Len(t.chans) = Len(s.chans) + 1
          /\ t.nextID = s.nextID + 1 /\ t.read = s.nextID /\ t.write = s.nextID
          /\ t.out = Append(s.out, Packet("OPEN_CONFIRMATION", p.no, WindowSize))
          /\ t.sendClosed = s.sendClosed /\ t.link = s.link
      BY <1>5, <1>8, <3>1, Zenon DEF OpenPopped
    <3> QED BY <2>1, <3>2
  <2>4. LinkOK(t, q2, v)
    BY <1>1, <1>8, <2>2, <2>3, LinkOpened
  <2>5. ServerOK(t)
    <3>1. Selects(t)
      BY <2>2, <2>3 DEF Selects
    <3>2. t.nextID >= 2 /\ Len(t.chans) <= MaxChannels + 1
      BY <1>1, <1>6, <1>8, <2>3
    <3>3. ASSUME NEW c \in Entries(t)
          PROVE  c.id < t.nextID /\ (c.type = IF c.id = 1 THEN "session" ELSE "direct-tcpip") /\ (c.id = 1 => ~c.writeClosed)
      <4>1. CASE c = d
        BY <1>1, <1>6, <2>2, <2>3, <4>1
      <4>2. CASE c \in Entries(s)
        <5>1. c.id < s.nextID /\ (c.type = IF c.id = 1 THEN "session" ELSE "direct-tcpip") /\ (c.id = 1 => ~c.writeClosed)
          BY <4>2 DEF ServerOK
        <5>2. c.id < t.nextID
          BY <1>6, <2>3, <4>2, <5>1
        <5> QED BY <5>1, <5>2
      <4> QED BY <2>3, <4>1, <4>2
    <3>4. t.sendClosed = FALSE /\ t.link
      BY <1>1, <1>8, <2>3
    <3> QED BY <2>3, <3>1, <3>2, <3>3, <3>4 DEF ServerOK
  <2>6. Opens(s, q2, v, t)
    BY <2>2, <2>3, <2>4, <2>5 DEF Opens
  <2> QED BY <1>4, <2>3, <2>6 DEF Outcome
<1>9. CASE Len(s.chans) <= MaxChannels /\ ~s.link
  <2>1. st = "WRITE" /\ IsSession(t) /\ t.read = UnusedID /\ t.write = UnusedID /\ t.sendClosed = s.sendClosed
    BY <1>5, <1>6, <1>9 DEF OpenPopped
  <2>2. Valid(t)
    BY <2>1 DEF Valid, Selects
  <2>3. ~(t.sendClosed = TRUE)
    BY <1>1, <2>1
  <2>4. Finishes(s, p, v, t, st)
    BY <1>9, <2>1, <2>2, <2>3 DEF Finishes
  <2> QED BY <1>4, <2>1, <2>4 DEF Outcome, Ok, OkSpecial, EnvelopeResource
<1> QED BY <1>6, <1>7, <1>8, <1>9

(* Every packet has one of the outcomes.                                   *)
LEMMA PopOutcome ==
  ASSUME NEW s, ServerOK(s), NEW q, NEW v, LinkOK(s, q, v), q # <<>>, NEW p, p = Head(q),
         NEW q2, q2 = Tail(q), NEW r, r = cryptPopData(s, p)
  PROVE  Outcome(s, p, q2, v, r.s, r.st)
<1>1. q \in Seq(PacketsIn)
  BY DEF LinkOK
<1>2. p \in PacketsIn
  BY <1>1, TailFacts
<1>3. p.type \in {"OPEN", "DATA", "REQUEST", "ADJUST", "EOF", "CLOSE"}
  BY <1>2 DEF PacketsIn, Types
<1>4. CASE p.type = "OPEN"
  BY <1>4, PopOpenOK
<1>5. CASE p.type # "OPEN" /\ \A c \in Entries(s) : c.no # p.no
  BY <1>5, PopNoneOK
<1>6. ASSUME p.type # "OPEN", NEW c \in Entries(s), c.no = p.no
      PROVE  Outcome(s, p, q2, v, r.s, r.st)
  <2>1. CASE p.type = "DATA"
    BY <1>6, <2>1, PopDataOK
  <2>2. CASE p.type = "REQUEST"
    BY <1>6, <2>2, PopRequestOK
  <2>3. CASE p.type = "ADJUST"
    BY <1>6, <2>3, PopAdjustOK
  <2>4. CASE p.type \in {"EOF", "CLOSE"}
    BY <1>6, <2>4, PopCloseOK
  <2> QED BY <1>3, <1>6, <2>1, <2>2, <2>3, <2>4
<1> QED BY <1>4, <1>5, <1>6

(* What the thread gets, from a packet or from none.                       *)
LEMMA PopsOK ==
  ASSUME ServerOK(ssh), LinkOK(ssh, toServer, peer), NEW popped, popped = Pop
  PROVE  \/ popped.st \in {Ok, OkSpecial} /\ Continues(ssh, popped.rest, peer, popped.s)
         \/ popped.st = EnvelopeResource /\ Opens(ssh, popped.rest, peer, popped.s)
         \/ /\ popped.st \notin {Ok, OkSpecial, EnvelopeResource}
            /\ \/ toServer = <<>> /\ popped.st = "READ" /\ ~ssh.link /\ popped.s = ssh
               \/ toServer # <<>> /\ Finishes(ssh, Head(toServer), peer, popped.s, popped.st)
<1>1. CASE toServer = <<>>
  <2>1. popped = [s |-> ssh, st |-> IF ssh.link THEN Ok ELSE "READ", rest |-> toServer]
    BY <1>1 DEF Pop
  <2>2. popped.s = ssh /\ popped.rest = toServer /\ popped.st = IF ssh.link THEN Ok ELSE "READ"
    BY <2>1
  <2>3. Continues(ssh, toServer, peer, ssh)
    BY DEF Continues, Kept, Reading
  <2>4. CASE ssh.link
    BY <2>2, <2>3, <2>4
  <2>5. CASE ~ssh.link
    BY <1>1, <2>2, <2>5 DEF Ok, OkSpecial, EnvelopeResource
  <2> QED BY <2>4, <2>5
<1>2. CASE toServer # <<>>
  <2>1. PICK p, q2, r : p = Head(toServer) /\ q2 = Tail(toServer) /\ r = cryptPopData(ssh, p)
    OBVIOUS
  <2>2. popped = [s |-> r.s, st |-> r.st, rest |-> q2]
    BY <1>2, <2>1 DEF Pop
  <2>3. popped.s = r.s /\ popped.rest = q2 /\ popped.st = r.st
    BY <2>2
  <2>4. Outcome(ssh, p, q2, peer, r.s, r.st)
    BY <1>2, <2>1, PopOutcome
  <2> QED BY <1>2, <2>1, <2>3, <2>4 DEF Outcome
<1> QED BY <1>1, <1>2

-----------------------------------------------------------------------------
(* The loops. *)

(* The entries of forwards after a step that opens no channel.             *)
LEMMA KeptFrame ==
  ASSUME NEW s, NEW t, Kept(s, t)
  PROVE  /\ \A fs : ForwardsOK(s, fs) => ForwardsOK(t, fs)
         /\ \A fs, id : Served(s, fs, id) => Served(t, fs, id)
         /\ \A fs : RoomLeft(s, fs) => RoomLeft(t, fs)
<1>1. /\ t.nextID = s.nextID
      /\ \A d \in Entries(t) : \E c \in Entries(s) : d.id = c.id /\ (d.writeClosed <=> c.writeClosed)
  BY DEF Kept
<1>2. ShellOpen(t) => ShellOpen(s)
  BY <1>1 DEF ShellOpen
<1>3. \A fs : ForwardsOK(s, fs) => ForwardsOK(t, fs)
  BY <1>1 DEF ForwardsOK
<1>4. \A fs, id : Served(s, fs, id) => Served(t, fs, id)
  BY <1>1, <1>2 DEF Served
<1>5. \A fs : RoomLeft(s, fs) => RoomLeft(t, fs)
  BY <1>2 DEF RoomLeft
<1> QED BY <1>3, <1>4, <1>5

(* In the loop of the shell no other channel is open.                      *)
LEMMA ShellAlone ==
  ASSUME NEW s, ServerOK(s), NEW fs, NEW ch, AtShell(s, fs, ch)
  PROVE  (\A c \in Entries(s) : c.id = 1) /\ Served(s, fs, 1) /\ RoomLeft(s, fs)
<1>1. s.nextID = 2 /\ fs = <<>>
  BY DEF AtShell
<1>2. ASSUME NEW c \in Entries(s) PROVE c.id = 1
  <2>1. c.id < 2 /\ c.id \in Nat \ {0}
    BY <1>1, EntryFacts DEF ServerOK, IsSession
  <2> QED BY <2>1
<1>3. Served(s, fs, 1)
  BY <1>2 DEF Served
<1>4. Len(fs) = 0 /\ 0 # MaxForwards + 1
  BY <1>1, SshChannelAssumption
<1> QED BY <1>2, <1>3, <1>4 DEF RoomLeft

(* The shell's loop goes on.                                               *)
LEMMA ShellStays ==
  ASSUME NEW s, ServerOK(s), NEW fs, NEW ch, AtShell(s, fs, ch), NEW q2, NEW v, NEW t, Continues(s, q2, v, t)
  PROVE  AtShell(t, fs, ch)
<1>1. \A c \in Entries(s) : c.id = 1
  BY ShellAlone
<1>2. Reading(s, t) /\ t.nextID = s.nextID
  BY DEF Continues, Kept
<1>3. t.read = 1 /\ \A c \in Entries(s) : \E d \in Entries(t) : d.id = c.id
  BY <1>1, <1>2 DEF Reading, AtShell
<1> QED BY <1>2, <1>3 DEF AtShell, ShellOpen

(* A channel was opened that nobody serves yet.                            *)
LEMMA ResourceAsked ==
  ASSUME NEW s, ServerOK(s), NEW fs, ForwardsOK(s, fs), Served(s, fs, 1), RoomLeft(s, fs),
         NEW q2, NEW v, NEW t, Opens(s, q2, v, t)
  PROVE  ForwardsOK(t, fs) /\ AtResource(t, fs)
<1>1. PICK d : Entries(t) = Entries(s) \cup {d} /\ d.id = s.nextID /\ ~d.writeClosed
  BY DEF Opens
<1>2. t.nextID = s.nextID + 1 /\ t.read = s.nextID
  BY DEF Opens
<1>3. s.nextID \in Nat /\ s.nextID >= 2
  BY DEF ServerOK, IsSession, IsRaw, Session
<1>4. d.id # 1 /\ d.id \in Nat
  BY <1>1, <1>3
<1>5. /\ fs \in Seq([channel : Nat \cup {-1}, sock : {"open", "invalid"}]) /\ Len(fs) <= MaxForwards + 1
      /\ \A i \in Occupied(fs) : /\ fs[i].channel \in 2..(s.nextID - 1)
                                 /\ \A j \in Occupied(fs) : fs[i].channel = fs[j].channel => i = j
                                 /\ \A c \in Entries(s) : c.id = fs[i].channel => ~c.writeClosed
  BY DEF ForwardsOK
<1>6. \A i \in DOMAIN fs : fs[i].channel # s.nextID
  <2>1. SUFFICES ASSUME NEW i \in DOMAIN fs PROVE fs[i].channel # s.nextID
    OBVIOUS
  <2>2. CASE i \in Occupied(fs)
    BY <1>3, <1>5, <2>2
  <2>3. CASE i \notin Occupied(fs)
    <3>1. fs[i].channel = -1
      BY <2>3 DEF Occupied, NoForward
    <3> QED BY <1>3, <3>1
  <2> QED BY <2>2, <2>3
<1>7. ForwardsOK(t, fs)
  <2>1. ASSUME NEW i \in Occupied(fs) PROVE fs[i].channel \in 2..(t.nextID - 1)
    BY <1>2, <1>3, <1>5, <2>1
  <2>2. ASSUME NEW i \in Occupied(fs), NEW c \in Entries(t), c.id = fs[i].channel PROVE ~c.writeClosed
    BY <1>1, <1>5, <2>2
  <2> QED BY <1>5, <2>1, <2>2 DEF ForwardsOK
<1>8. ShellOpen(t) => ShellOpen(s)
  BY <1>1, <1>4 DEF ShellOpen
<1>9. Served(t, fs, t.read)
  BY <1>1, <1>2, <1>8 DEF Served
<1>10. RoomLeft(t, fs)
  BY <1>8 DEF RoomLeft
<1>11. ~ForwardOf(t.read, fs)
  BY <1>2, <1>6 DEF ForwardOf
<1>12. \E c \in Entries(t) : c.id = t.read /\ c.id # 1 /\ ~c.writeClosed
  BY <1>1, <1>2, <1>4
<1> QED BY <1>7, <1>9, <1>10, <1>11, <1>12 DEF AtResource

(* The session ends on what was popped, or on the link.                    *)
LEMMA PopEnds ==
  ASSUME IInv, Running, NEW popped, popped = Pop,
         popped.st \notin {Ok, OkSpecial, EnvelopeResource}, End(popped.s, popped.st)
  PROVE  IInv'
<1>1. ServerOK(ssh) /\ LinkOK(ssh, toServer, peer)
  BY DEF Running
<1>2. \/ popped.s = ssh
      \/ Finishes(ssh, Head(toServer), peer, popped.s, popped.st)
  BY <1>1, PopsOK
<1>3. Valid(popped.s) /\ (popped.s.sendClosed = TRUE => Entries(popped.s) = {})
  <2>1. CASE popped.s = ssh
    <3>1. Valid(ssh) /\ ssh.sendClosed = FALSE
      BY <1>1, ServerSound
    <3>2. ~(ssh.sendClosed = TRUE)
      BY <3>1
    <3> QED BY <2>1, <3>1, <3>2
  <2>2. CASE Finishes(ssh, Head(toServer), peer, popped.s, popped.st)
    BY <2>2 DEF Finishes
  <2> QED BY <1>2, <2>1, <2>2
<1>4. PICK t, st : t = popped.s /\ st = popped.st
  OBVIOUS
<1>5. Valid(t) /\ (t.sendClosed = TRUE => Entries(t) = {}) /\ End(t, st)
  BY <1>3, <1>4
<1> QED BY <1>5, Ends

(* What the thread keeps of itself.                                        *)
LEMMA ThreadKept ==
  ASSUME IInv, phase' \in {"shell send", "shell receive", "resource", "transfer"},
         index' \in Nat \ {0}, channel' \in Nat, peer' = peer,
         \A i \in DOMAIN forwards' : forwards'[i].sock \in {"open", "invalid"}
  PROVE  ThreadOK'
BY Zenon DEF IInv, ThreadOK

(* A forwarded channel is opened: the loop asks what it is for.            *)
LEMMA PopOpens ==
  ASSUME IInv, Running, NEW popped, popped = Pop, popped.st = EnvelopeResource,
         Served(ssh, forwards, 1), RoomLeft(ssh, forwards), Reads(popped, "resource")
  PROVE  IInv'
<1>1. ServerOK(ssh) /\ LinkOK(ssh, toServer, peer) /\ ForwardsOK(ssh, forwards)
  BY DEF Running
<1>2. Opens(ssh, popped.rest, peer, popped.s)
  BY <1>1, PopsOK DEF Ok, OkSpecial, EnvelopeResource
<1>3. PICK t, q2 : t = popped.s /\ q2 = popped.rest
  OBVIOUS
<1>4. ServerOK(t) /\ LinkOK(t, q2, peer) /\ Opens(ssh, q2, peer, t)
  BY <1>2, <1>3 DEF Opens
<1>5. ForwardsOK(t, forwards) /\ AtResource(t, forwards)
  BY <1>1, <1>4, ResourceAsked
<1>6. ssh' = t /\ toServer' = q2 /\ phase' = "resource" /\ UNCHANGED <<index, channel, forwards, peer>>
  BY <1>3 DEF Reads
<1>7. ThreadOK'
  BY <1>6, ThreadKept, Zenon DEF IInv, ThreadOK
<1>8. LoopOK'
  BY <1>5, <1>6 DEF LoopOK
<1> QED BY <1>4, <1>5, <1>6, <1>7, <1>8, GoesOn

(* The shell's loop sends.                                                 *)
LEMMA ShellSendOK ==
  ASSUME IInv, ShellSend
  PROVE  IInv'
<1>1. PICK output \in BOOLEAN :
        LET sent == PushChunk(ssh, channel, output) IN
        IF sent.st # Ok THEN End(sent.s, sent.st)
        ELSE /\ ssh' = sent.s
             /\ phase' = "shell receive"
             /\ UNCHANGED <<index, channel, forwards, why, toServer, peer, opens>>
  BY Zenon DEF ShellSend
<1>2. phase = "shell send"
  BY Zenon DEF ShellSend
<1>3. /\ ServerOK(ssh) /\ LinkOK(ssh, toServer, peer) /\ ForwardsOK(ssh, forwards)
      /\ AtShell(ssh, forwards, channel)
  BY <1>2, Zenon DEF IInv, Running, LoopOK
<1>4. PICK c \in Entries(ssh) : c.id = channel /\ ~c.writeClosed
  BY <1>3 DEF AtShell, ShellOpen, ServerOK
<1>5. PICK r : r = PushChunk(ssh, c.id, output)
  OBVIOUS
<1>6. ServerOK(r.s) /\ LinkOK(r.s, toServer, peer) /\ Same(ssh, r.s) /\ (r.st = IF output /\ ~ssh.link THEN "WRITE" ELSE Ok)
  BY <1>3, <1>4, <1>5, PushOK
<1>7. IF r.st # Ok THEN End(r.s, r.st)
      ELSE ssh' = r.s /\ phase' = "shell receive" /\ UNCHANGED <<index, channel, forwards, why, toServer, peer, opens>>
  BY <1>1, <1>4, <1>5, Zenon
<1>8. PICK t, st : t = r.s /\ st = r.st
  OBVIOUS
<1>9. CASE st # Ok
  <2>1. End(t, st)
    BY <1>7, <1>8, <1>9
  <2>2. Valid(t) /\ ~(t.sendClosed = TRUE)
    BY <1>6, <1>8, ServerSound
  <2> QED BY <2>1, <2>2, Ends
<1>10. CASE st = Ok
  <2>1. ssh' = t /\ phase' = "shell receive" /\ UNCHANGED <<index, channel, forwards, toServer, peer>>
    BY <1>7, <1>8, <1>10, Zenon
  <2>2. Entries(t) = Entries(ssh) /\ t.nextID = ssh.nextID /\ t.read = ssh.read
    BY <1>6, <1>8 DEF Same
  <2>3. ForwardsOK(t, forwards) /\ AtShell(t, forwards, channel)
    BY <1>3, <2>2, LoopFrame
  <2>4. ThreadOK'
    BY <2>1, ThreadKept, Zenon DEF IInv, ThreadOK
  <2>5. LoopOK'
    BY <2>1, <2>3, Zenon DEF LoopOK
  <2> QED BY <1>6, <1>8, <2>1, <2>3, <2>4, <2>5, GoesOn, Zenon
<1> QED BY <1>9, <1>10

(* The channel the application hears from.                                 *)
LEMMA CurrentIs ==
  ASSUME NEW s
  PROVE  /\ (\E c \in Entries(s) : c.id = s.read) => CurrentChannel(s) = s.read
         /\ (\A c \in Entries(s) : c.id # s.read) => CurrentChannel(s) = channel
<1>1. findChannelByID(s, s.read) = {} <=> \A c \in Entries(s) : c.id # s.read
  BY NotFound
<1>2. getCurrentChannelInfo(s, "read") = findChannelByID(s, s.read)
  BY DEF getCurrentChannelInfo
<1>3. CASE \E c \in Entries(s) : c.id = s.read
  <2>1. getChannelAttribute(s) = [st |-> Ok, id |-> s.read]
    BY <1>1, <1>2, <1>3 DEF getChannelAttribute
  <2> QED BY <1>3, <2>1 DEF CurrentChannel
<1>4. CASE \A c \in Entries(s) : c.id # s.read
  <2>1. getChannelAttribute(s) = [st |-> "NOTFOUND", id |-> 0]
    BY <1>1, <1>2, <1>4 DEF getChannelAttribute
  <2> QED BY <1>4, <2>1 DEF CurrentChannel, Ok
<1> QED BY <1>3, <1>4

(* The shell's loop receives.                                              *)
LEMMA ShellReceiveOK ==
  ASSUME IInv, ShellReceive
  PROVE  IInv'
<1>1. PICK popped : /\ popped = Pop
                    /\ \/ PopsNothing(popped, "shell receive")
                       \/ popped.st = Ok /\ ShellPopped(popped.s, popped.rest)
  BY Zenon DEF ShellReceive
<1>2. phase = "shell receive"
  BY Zenon DEF ShellReceive
<1>3. Running
  BY <1>2, Zenon DEF IInv
<1>4. /\ ServerOK(ssh) /\ LinkOK(ssh, toServer, peer) /\ ForwardsOK(ssh, forwards)
      /\ AtShell(ssh, forwards, channel)
  BY <1>2, <1>3, Zenon DEF Running, LoopOK
<1>5. CASE popped.st \notin {Ok, OkSpecial, EnvelopeResource} /\ End(popped.s, popped.st)
  BY <1>1, <1>3, <1>5, PopEnds, Zenon
<1>6. CASE popped.st = EnvelopeResource /\ Reads(popped, "resource")
  <2>1. Served(ssh, forwards, 1) /\ RoomLeft(ssh, forwards)
    BY <1>4, ShellAlone
  <2> QED BY <1>1, <1>3, <1>6, <2>1, PopOpens, Zenon
<1>7. ASSUME popped.st \in {Ok, OkSpecial}
      PROVE  /\ ServerOK(popped.s) /\ LinkOK(popped.s, popped.rest, peer) /\ ForwardsOK(popped.s, forwards)
             /\ AtShell(popped.s, forwards, channel)
  <2>1. Continues(ssh, popped.rest, peer, popped.s)
    BY <1>1, <1>4, <1>7, PopsOK, Zenon DEF Ok, OkSpecial, EnvelopeResource
  <2>2. PICK t, q2 : t = popped.s /\ q2 = popped.rest
    OBVIOUS
  <2>3. Continues(ssh, q2, peer, t)
    BY <2>1, <2>2
  <2>4. AtShell(t, forwards, channel)
    BY <1>4, <2>3, ShellStays
  <2>5. ForwardsOK(t, forwards)
    BY <1>4, <2>3, KeptFrame DEF Continues
  <2> QED BY <2>2, <2>3, <2>4, <2>5 DEF Continues
<1>8. CASE popped.st = OkSpecial /\ Reads(popped, "shell receive")
  <2>1. /\ ssh' = popped.s /\ toServer' = popped.rest /\ phase' = "shell receive"
        /\ UNCHANGED <<index, channel, forwards, peer>>
    BY <1>8, Zenon DEF Reads
  <2>2. ThreadOK'
    BY <2>1, ThreadKept, Zenon DEF IInv, ThreadOK
  <2>3. LoopOK'
    BY <1>7, <1>8, <2>1, Zenon DEF LoopOK
  <2> QED BY <1>7, <1>8, <2>1, <2>2, <2>3, GoesOn, Zenon
<1>9. CASE popped.st = Ok /\ ShellPopped(popped.s, popped.rest)
  <2>1. /\ ssh' = popped.s /\ toServer' = popped.rest /\ phase' = "shell send"
        /\ channel' = CurrentChannel(popped.s) /\ UNCHANGED <<index, forwards, peer>>
    BY <1>9, Zenon DEF ShellPopped
  <2>2. PICK t : t = popped.s
    OBVIOUS
  <2>3. AtShell(t, forwards, channel)
    BY <1>7, <1>9, <2>2
  <2>4. CurrentChannel(t) = 1 /\ channel = 1
    <3>1. \E c \in Entries(t) : c.id = t.read
      BY <2>3 DEF AtShell, ShellOpen
    <3> QED BY <2>3, <3>1, CurrentIs DEF AtShell
  <2>5. channel' = channel
    BY <2>1, <2>2, <2>4, Zenon
  <2>6. ThreadOK'
    BY <2>1, <2>5, ThreadKept, Zenon DEF IInv, ThreadOK
  <2>7. LoopOK'
    BY <1>7, <1>9, <2>1, <2>5, Zenon DEF LoopOK
  <2> QED BY <1>7, <1>9, <2>1, <2>6, <2>7, GoesOn, Zenon
<1> QED BY <1>1, <1>5, <1>6, <1>8, <1>9, Zenon DEF PopsNothing

\* The channel with the ID is put at k; what was there served nobody who counts.
PutAt(s, fs, k, id, fs2) ==
  /\ fs2 \in Seq([channel : Nat \cup {-1}, sock : {"open", "invalid"}])
  /\ Len(fs2) <= MaxForwards + 1 /\ Len(fs) <= Len(fs2)
  /\ k \in DOMAIN fs2 /\ fs2[k].channel = id
  /\ \A j \in DOMAIN fs2 : j # k => j \in DOMAIN fs /\ fs2[j] = fs[j]
  /\ \A j \in DOMAIN fs : j # k => j \in DOMAIN fs2
  /\ k \in DOMAIN fs /\ ShellOpen(s) /\ Fits(fs2) => fs[k] = NoForward

(* Then each channel is served.                                            *)
LEMMA ForwardPut ==
  ASSUME NEW s, ServerOK(s), NEW fs, ForwardsOK(s, fs), AtResource(s, fs), NEW k, NEW id, id = s.read,
         NEW fs2, PutAt(s, fs, k, id, fs2), NEW i, i = 1
  PROVE  ForwardsOK(s, fs2) /\ AtTransfer(s, fs2, i)
<1>1. PICK c \in Entries(s) : c.id = id /\ id # 1 /\ ~c.writeClosed
  BY DEF AtResource
<1>2. id \in 2..(s.nextID - 1) /\ id \in Nat
  <2>1. c.id \in Nat \ {0} /\ s.nextID \in Nat /\ c.id < s.nextID
    BY EntryFacts DEF ServerOK, IsSession, IsRaw, Session
  <2> QED BY <1>1, <2>1
<1>3. \A e \in Entries(s) : e.id = id => ~e.writeClosed
  BY <1>1, EntryFacts DEF ServerOK, IsSession
<1>4. \A j \in DOMAIN fs : fs[j].channel # id
  BY DEF AtResource, ForwardOf
<1>5. /\ fs2 \in Seq([channel : Nat \cup {-1}, sock : {"open", "invalid"}])
      /\ Len(fs2) <= MaxForwards + 1 /\ Len(fs) <= Len(fs2)
      /\ k \in DOMAIN fs2 /\ fs2[k].channel = id
      /\ \A j \in DOMAIN fs2 : j # k => j \in DOMAIN fs /\ fs2[j] = fs[j]
      /\ \A j \in DOMAIN fs : j # k => j \in DOMAIN fs2
  BY DEF PutAt
<1>6. \A j \in Occupied(fs2) : j # k => j \in Occupied(fs) /\ fs2[j] = fs[j] /\ fs2[j].channel # id
  BY <1>4, <1>5 DEF Occupied
<1>7. ForwardsOK(s, fs2)
  <2>1. ASSUME NEW j \in Occupied(fs2)
        PROVE  /\ fs2[j].channel \in 2..(s.nextID - 1)
               /\ \A m \in Occupied(fs2) : fs2[j].channel = fs2[m].channel => j = m
               /\ \A e \in Entries(s) : e.id = fs2[j].channel => ~e.writeClosed
    <3>1. CASE j = k
      BY <1>2, <1>3, <1>5, <1>6, <3>1
    <3>2. CASE j # k
      <4>1. j \in Occupied(fs) /\ fs2[j] = fs[j] /\ fs2[j].channel # id
        BY <1>6, <3>2
      <4>2. /\ fs[j].channel \in 2..(s.nextID - 1)
            /\ \A m \in Occupied(fs) : fs[j].channel = fs[m].channel => j = m
            /\ \A e \in Entries(s) : e.id = fs[j].channel => ~e.writeClosed
        BY <4>1 DEF ForwardsOK
      <4>3. \A m \in Occupied(fs2) : fs2[j].channel = fs2[m].channel => j = m
        BY <1>5, <1>6, <4>1, <4>2
      <4> QED BY <4>1, <4>2, <4>3
    <3> QED BY <3>1, <3>2
  <2> QED BY <1>5, <2>1 DEF ForwardsOK
<1>8. Served(s, fs2, 1)
  <2>1. SUFFICES ASSUME ShellOpen(s), Fits(fs2), NEW e \in Entries(s), e.id # 1, ~e.writeClosed
                 PROVE  ForwardOf(e.id, fs2)
    BY DEF Served
  <2>2. CASE e.id = id
    BY <1>5, <2>2 DEF ForwardOf
  <2>3. CASE e.id # id
    <3>1. Fits(fs)
      <4>1. Len(fs) \in Nat /\ Len(fs2) \in Nat /\ MaxForwards \in Nat
        BY <1>5, SshChannelAssumption DEF ForwardsOK
      <4> QED BY <1>5, <2>1, <4>1 DEF Fits
    <3>2. ForwardOf(e.id, fs)
      BY <2>1, <2>3, <3>1 DEF AtResource, Served
    <3>3. PICK j \in DOMAIN fs : fs[j].channel = e.id
      BY <3>2 DEF ForwardOf
    <3>4. j # k
      <4>1. j = k => fs[j] = NoForward
        BY <2>1 DEF PutAt
      <4>2. fs[j] # NoForward
        <5>1. e.id \in Nat
          BY EntryFacts DEF ServerOK, IsSession
        <5> QED BY <3>3, <5>1 DEF NoForward
      <4> QED BY <4>1, <4>2
    <3> QED BY <1>5, <3>3, <3>4 DEF ForwardOf
  <2> QED BY <2>2, <2>3
<1>9. fs2 # <<>> /\ i <= Len(fs2)
  BY <1>5
<1>10. \A j \in Occupied(fs2) : ~(j < i)
  BY <1>5 DEF Occupied
<1>11. ~(i > Len(fs2))
  BY <1>5, <1>9
<1> QED BY <1>7, <1>8, <1>9, <1>10, <1>11 DEF AtTransfer

(* The least of a set of positions.                                        *)
LEMMA First ==
  ASSUME NEW S, NEW n \in Nat, S \subseteq 1..n, S # {}, NEW first, first = CHOOSE i \in S : \A j \in S : i <= j
  PROVE  first \in S
<1>1. S \in SUBSET Nat
  OBVIOUS
<1>2. \E x \in S : \A y \in S : x <= y
  BY <1>1, LeastNat
<1> QED BY <1>2

(* A channel that is asked about was opened for forwarding.                *)
LEMMA AskedForForwarding ==
  ASSUME NEW s, ServerOK(s), NEW fs, AtResource(s, fs)
  PROVE  GetPortForwardRequest(s)
<1>1. PICK c \in Entries(s) : c.id = s.read /\ c.id # 1
  BY DEF AtResource
<1>2. IsRaw(s) /\ c.type = "direct-tcpip"
  BY <1>1 DEF ServerOK, IsSession
<1>3. findChannelByID(s, s.read) = {c}
  BY <1>1, <1>2, Found
<1>4. getChannelAttributeS(s) = {"direct-tcpip"}
  BY <1>2, <1>3 DEF getChannelAttributeS, getCurrentChannelInfo
<1> QED BY <1>4 DEF GetPortForwardRequest

(* A channel of the peer is asked about.                                   *)
LEMMA CreatePortForwardChannelOK ==
  ASSUME IInv, CreatePortForwardChannel
  PROVE  IInv'
<1>1. phase = "resource"
  BY DEF CreatePortForwardChannel
<1>2. /\ ServerOK(ssh) /\ LinkOK(ssh, toServer, peer) /\ ForwardsOK(ssh, forwards) /\ AtResource(ssh, forwards)
  BY <1>1 DEF IInv, Running, LoopOK
<1>3. PICK c \in Entries(ssh) : c.id = ssh.read /\ c.id # 1
  BY <1>2 DEF AtResource
<1>4. GetPortForwardRequest(ssh)
  BY <1>2, AskedForForwarding
<1>5. PICK id : id = CurrentChannel(ssh)
  OBVIOUS
<1>6. id = ssh.read /\ id \in Nat
  <2>1. id = ssh.read
    BY <1>3, <1>5, CurrentIs
  <2> QED BY <1>2, <2>1 DEF ServerOK, IsSession, IsRaw, Session
<1>7. PICK t : t = PushChunk(ssh, 1, TRUE).s
  OBVIOUS
<1>8. PICK sock \in {"open", "invalid"} :
        LET free  == {i \in DOMAIN forwards : forwards[i] = NoForward}
            first == CHOOSE i \in free : \A j \in free : i <= j
            full  == Len(forwards) >= MaxForwards
            fi    == [channel |-> id, sock |-> sock]
            none  == [channel |-> id, sock |-> "invalid"]
        IN  /\ channel' = id
            /\ ssh' = t
            /\ forwards' = IF free # {} THEN [forwards EXCEPT ![first] = fi]
                           ELSE IF ~full THEN Append(forwards, fi)
                           ELSE IF Len(forwards) = MaxForwards THEN Append(forwards, none)
                           ELSE [forwards EXCEPT ![MaxForwards + 1] = none]
            /\ phase' = "transfer"
            /\ index' = 1
            /\ UNCHANGED <<why, toServer, peer, opens>>
  BY <1>4, <1>5, <1>7 DEF CreatePortForwardChannel, CreateForwardSocket
<1>9. PICK free, fi, none, fs, fs2 : /\ free = {i \in DOMAIN forwards : forwards[i] = NoForward}
                                     /\ fi = [channel |-> id, sock |-> sock]
                                     /\ none = [channel |-> id, sock |-> "invalid"]
                                     /\ fs = forwards /\ fs2 = forwards'
  OBVIOUS
<1>10. PICK first : first = CHOOSE i \in free : \A j \in free : i <= j
  OBVIOUS
<1>11. /\ channel' = id /\ ssh' = t /\ phase' = "transfer" /\ index' = 1 /\ UNCHANGED <<toServer, peer>>
       /\ fs2 = IF free # {} THEN [fs EXCEPT ![first] = fi]
                ELSE IF ~(Len(fs) >= MaxForwards) THEN Append(fs, fi)
                ELSE IF Len(fs) = MaxForwards THEN Append(fs, none)
                ELSE [fs EXCEPT ![MaxForwards + 1] = none]
  BY <1>8, <1>9, <1>10
<1>12. /\ fs \in Seq([channel : Nat \cup {-1}, sock : {"open", "invalid"}]) /\ Len(fs) <= MaxForwards + 1
       /\ Len(fs) \in Nat /\ MaxForwards \in Nat /\ DOMAIN fs = 1..Len(fs)
  BY <1>2, <1>9, SshChannelAssumption DEF ForwardsOK
<1>13. /\ fi \in [channel : Nat \cup {-1}, sock : {"open", "invalid"}] /\ fi.channel = id
       /\ none \in [channel : Nat \cup {-1}, sock : {"open", "invalid"}] /\ none.channel = id
  BY <1>6, <1>9
<1>14. \E k : PutAt(ssh, fs, k, id, fs2)
  <2>1. CASE free # {}
    <3>1. first \in free
      <4>1. free \subseteq 1..Len(fs)
        BY <1>9, <1>12
      <4> QED BY <1>10, <1>12, <2>1, <4>1, First
    <3>2. first \in DOMAIN fs /\ fs[first] = NoForward /\ fs2 = [fs EXCEPT ![first] = fi]
      BY <1>9, <1>11, <2>1, <3>1
    <3>3. PutAt(ssh, fs, first, id, fs2)
      BY <1>12, <1>13, <3>2 DEF PutAt
    <3> QED BY <3>3
  <2>2. ASSUME NEW x \in {fi, none}, fs2 = Append(fs, x), Len(fs) <= MaxForwards PROVE \E k : PutAt(ssh, fs, k, id, fs2)
    <3>1. PICK S : S = [channel : Nat \cup {-1}, sock : {"open", "invalid"}]
      OBVIOUS
    <3>2. x \in S /\ x.channel = id /\ fs \in Seq(S)
      BY <1>12, <1>13, <2>2, <3>1
    <3>3. /\ fs2 \in Seq(S) /\ Len(fs2) = Len(fs) + 1
          /\ DOMAIN fs = 1..Len(fs) /\ DOMAIN fs2 = 1..(Len(fs) + 1)
          /\ \A i \in 1..Len(fs) : fs2[i] = fs[i]
          /\ fs2[Len(fs) + 1] = x
      BY <2>2, <3>2, AppendFacts
    <3>4. PICK k : k = Len(fs) + 1
      OBVIOUS
    <3>5. k \notin DOMAIN fs /\ k \in DOMAIN fs2 /\ \A j \in DOMAIN fs2 : j # k => j \in DOMAIN fs
      BY <1>12, <3>3, <3>4
    <3>6. Len(fs2) <= MaxForwards + 1 /\ Len(fs) <= Len(fs2)
      BY <1>12, <2>2, <3>3
    <3>7. PutAt(ssh, fs, k, id, fs2)
      BY <3>1, <3>2, <3>3, <3>4, <3>5, <3>6 DEF PutAt
    <3> QED BY <3>7
  <2>3. CASE free = {} /\ Len(fs) <= MaxForwards
    <3>1. Len(fs) \in Nat /\ MaxForwards \in Nat /\ Len(fs) <= MaxForwards /\ ~(free # {})
      BY <1>12, <2>3
    <3>2. CASE Len(fs) >= MaxForwards
      <4>1. Len(fs) = MaxForwards
        BY <3>1, <3>2
      <4>2. fs2 = Append(fs, none)
        BY <1>11, <3>1, <3>2, <4>1, Zenon
      <4> QED BY <2>2, <3>1, <4>2
    <3>3. CASE ~(Len(fs) >= MaxForwards)
      <4>1. fs2 = Append(fs, fi)
        BY <1>11, <3>1, <3>3, Zenon
      <4> QED BY <2>2, <3>1, <4>1
    <3> QED BY <3>2, <3>3
  <2>4. CASE free = {} /\ ~(Len(fs) <= MaxForwards)
    <3>1. Len(fs) = MaxForwards + 1
      <4>1. Len(fs) \in Nat /\ MaxForwards \in Nat /\ Len(fs) <= MaxForwards + 1
        BY <1>12
      <4>2. ~(Len(fs) <= MaxForwards)
        BY <2>4
      <4> QED BY <4>1, <4>2
    <3>2. fs2 = [fs EXCEPT ![MaxForwards + 1] = none]
      BY <1>11, <1>12, <2>4, <3>1
    <3>3. PICK k : k = MaxForwards + 1
      OBVIOUS
    <3>4. k \in DOMAIN fs
      BY <1>12, <3>1, <3>3
    <3>5. /\ fs2 \in Seq([channel : Nat \cup {-1}, sock : {"open", "invalid"}]) /\ Len(fs2) = Len(fs)
          /\ DOMAIN fs2 = DOMAIN fs /\ fs2[k] = none /\ \A j \in DOMAIN fs : j # k => fs2[j] = fs[j]
      BY <1>12, <1>13, <3>2, <3>3, <3>4
    <3>6. ~(ShellOpen(ssh) /\ Fits(fs2))
      <4>1. Fits(fs2) => MaxChannels <= MaxForwards
        BY <1>12, <3>1, <3>5 DEF Fits
      <4>2. ~\E i \in DOMAIN fs : fs[i] = NoForward
        BY <1>9, <2>4
      <4>3. RoomLeft(ssh, fs)
        BY <1>2, <1>9 DEF AtResource
      <4> QED BY <3>1, <4>1, <4>2, <4>3 DEF RoomLeft
    <3>7. PutAt(ssh, fs, k, id, fs2)
      BY <1>12, <1>13, <3>4, <3>5, <3>6 DEF PutAt
    <3> QED BY <3>7
  <2> QED BY <2>1, <2>3, <2>4
<1>15. PICK i, k : i = 1 /\ PutAt(ssh, fs, k, id, fs2)
  BY <1>14
<1>16. ForwardsOK(ssh, fs2) /\ AtTransfer(ssh, fs2, i)
  BY <1>2, <1>6, <1>9, <1>15, ForwardPut
<1>17. ServerOK(t) /\ LinkOK(t, toServer, peer) /\ Same(ssh, t)
  BY <1>2, <1>7, NoticeOK
<1>18. ForwardsOK(t, fs2) /\ AtTransfer(t, fs2, i)
  <2>1. Entries(t) = Entries(ssh) /\ t.nextID = ssh.nextID /\ t.read = ssh.read
    BY <1>17 DEF Same
  <2> QED BY <1>16, <2>1, LoopFrame
<1>19. ThreadOK'
  <2>1. \A j \in DOMAIN fs2 : fs2[j].sock \in {"open", "invalid"}
    <3>1. fs2 \in Seq([channel : Nat \cup {-1}, sock : {"open", "invalid"}])
      BY <1>16 DEF ForwardsOK
    <3>2. PICK S : S = [channel : Nat \cup {-1}, sock : {"open", "invalid"}]
      OBVIOUS
    <3>3. fs2 \in Seq(S)
      BY <3>1, <3>2
    <3>4. \A j \in DOMAIN fs2 : fs2[j] \in S
      BY <3>3
    <3> QED BY <3>2, <3>4
  <2> QED BY <1>6, <1>9, <1>11, <2>1, ThreadKept
<1>20. LoopOK'
  BY <1>9, <1>11, <1>15, <1>18 DEF LoopOK
<1> QED BY <1>9, <1>11, <1>17, <1>18, <1>19, <1>20, GoesOn

(* The sockets of forwards are open or invalid.                            *)
LEMMA SocksOK ==
  ASSUME NEW s, NEW fs, ForwardsOK(s, fs)
  PROVE  (\A j \in DOMAIN fs : fs[j].sock \in {"open", "invalid"}) /\ Len(fs) \in Nat /\ DOMAIN fs = 1..Len(fs)
<1>1. PICK S : S = [channel : Nat \cup {-1}, sock : {"open", "invalid"}]
  OBVIOUS
<1>2. fs \in Seq(S)
  BY <1>1 DEF ForwardsOK
<1>3. (\A j \in DOMAIN fs : fs[j] \in S) /\ Len(fs) \in Nat /\ DOMAIN fs = 1..Len(fs)
  BY <1>2
<1> QED BY <1>1, <1>3

(* There is always a free entry where as many channels may be forwarded as *)
(* there are: each occupied one has its channel, and so has the shell.     *)
LEMMA RoomByCount ==
  ASSUME NEW s, ServerOK(s), NEW fs, ForwardsOK(s, fs),
         \A j \in Occupied(fs) : \E c \in Entries(s) : c.id = fs[j].channel
  PROVE  RoomLeft(s, fs)
<1>1. SUFFICES ASSUME ShellOpen(s), MaxChannels <= MaxForwards, Len(fs) = MaxForwards + 1,
                      \A i \in DOMAIN fs : fs[i] # NoForward
               PROVE  FALSE
  BY DEF RoomLeft
<1>2. PICK n, m : n = Len(fs) /\ m = Len(s.chans)
  OBVIOUS
<1>3. n \in Nat /\ m \in Nat /\ m <= n /\ DOMAIN fs = 1..n /\ DOMAIN s.chans = 1..m
  <2>1. Len(s.chans) <= MaxChannels + 1 /\ Unique(s.chans) /\ MaxChannels \in Nat /\ MaxForwards \in Nat
    BY SshChannelAssumption DEF ServerOK, IsSession, IsRaw
  <2>2. m \in Nat /\ DOMAIN s.chans = 1..m
    BY <1>2, <2>1, ListFacts
  <2>3. n \in Nat /\ DOMAIN fs = 1..n
    BY <1>2, SocksOK
  <2>4. m <= n
    BY <1>1, <1>2, <2>1, <2>2, <2>3
  <2> QED BY <2>2, <2>3, <2>4
<1>4. PICK ids : ids = [j \in 1..(n + 1) |-> IF j = n + 1 THEN 1 ELSE fs[j].channel]
  OBVIOUS
<1>5. \A j \in 1..(n + 1) : \E k \in 1..m : s.chans[k].id = ids[j]
  <2>1. SUFFICES ASSUME NEW j \in 1..(n + 1) PROVE \E k \in 1..m : s.chans[k].id = ids[j]
    OBVIOUS
  <2>2. \E c \in Entries(s) : c.id = ids[j]
    <3>1. CASE j = n + 1
      BY <1>1, <1>4, <3>1 DEF ShellOpen
    <3>2. CASE j # n + 1
      <4>1. j \in 1..n
        BY <1>3, <3>2
      <4>2. j \in Occupied(fs) /\ ids[j] = fs[j].channel
        BY <1>1, <1>3, <1>4, <3>2, <4>1 DEF Occupied
      <4> QED BY <4>2
    <3> QED BY <3>1, <3>2
  <2>3. \A c \in Entries(s) : \E i \in DOMAIN s.chans : s.chans[i] = c
    <3>1. Unique(s.chans) /\ Entries(s) = ToSet(s.chans)
      BY DEF ServerOK, IsSession, IsRaw, Entries
    <3> QED BY <3>1, ListFacts
  <2> QED BY <1>3, <2>2, <2>3
<1>6. PICK f : f = [j \in 1..(n + 1) |-> CHOOSE k \in 1..m : s.chans[k].id = ids[j]]
  OBVIOUS
<1>7. \A j \in 1..(n + 1) : f[j] \in 1..m /\ s.chans[f[j]].id = ids[j]
  BY <1>5, <1>6
<1>8. f \in [1..(n + 1) -> 1..m]
  BY <1>6, <1>7
<1>9. PICK S, T : S = 1..(n + 1) /\ T = 1..m
  OBVIOUS
<1>10. IsFiniteSet(S) /\ IsFiniteSet(T) /\ Cardinality(T) < Cardinality(S)
  <2>1. IsFiniteSet(S) /\ Cardinality(S) = n + 1
    <3>1. 1 \in Int /\ n + 1 \in Int /\ ~(1 > n + 1) /\ (n + 1) - 1 + 1 = n + 1
      BY <1>3
    <3> QED BY <1>9, <3>1, FS_Interval
  <2>2. IsFiniteSet(T) /\ Cardinality(T) = m
    <3>1. 1 \in Int /\ m \in Int /\ m - 1 + 1 = m /\ (1 > m => m = 0)
      BY <1>3
    <3> QED BY <1>9, <3>1, FS_Interval
  <2> QED BY <1>3, <2>1, <2>2
<1>11. PICK x, y \in S : x # y /\ f[x] = f[y]
  <2>1. f \in [S -> T]
    BY <1>8, <1>9
  <2>2. \E x, y \in S : x # y /\ f[x] = f[y]
    BY <1>10, <2>1, FS_PigeonHole
  <2> QED BY <2>2
<1>12. ids[x] = ids[y]
  BY <1>7, <1>9, <1>11
<1>13. \A j \in 1..n : j \in Occupied(fs) /\ ids[j] = fs[j].channel /\ ids[j] # 1
  <2>1. SUFFICES ASSUME NEW j \in 1..n PROVE j \in Occupied(fs) /\ ids[j] = fs[j].channel /\ ids[j] # 1
    OBVIOUS
  <2>2. j \in Occupied(fs)
    BY <1>1, <1>3 DEF Occupied
  <2>3. ids[j] = fs[j].channel
    BY <1>3, <1>4
  <2>4. fs[j].channel \in 2..(s.nextID - 1) /\ s.nextID \in Nat
    BY <2>2 DEF ForwardsOK, ServerOK, IsSession, IsRaw, Session
  <2> QED BY <2>2, <2>3, <2>4
<1>14. ids[n + 1] = 1
  BY <1>3, <1>4
<1>15. CASE x = n + 1 \/ y = n + 1
  BY <1>3, <1>9, <1>11, <1>12, <1>13, <1>14, <1>15
<1>16. CASE x \in 1..n /\ y \in 1..n
  <2>1. fs[x].channel = fs[y].channel /\ x \in Occupied(fs) /\ y \in Occupied(fs)
    BY <1>12, <1>13, <1>16
  <2> QED BY <1>11, <2>1 DEF ForwardsOK
<1> QED BY <1>3, <1>9, <1>11, <1>15, <1>16

(* The loop looks at the next entry.                                       *)
LEMMA TransferStays ==
  ASSUME NEW s, ServerOK(s), NEW fs, ForwardsOK(s, fs), fs # <<>>, Served(s, fs, 1), NEW i \in Nat, i <= Len(fs),
         \A j \in Occupied(fs) : j <= i => \E c \in Entries(s) : c.id = fs[j].channel,
         NEW n, n = i + 1
  PROVE  AtTransfer(s, fs, n)
<1>1. Len(fs) \in Nat /\ DOMAIN fs = 1..Len(fs)
  BY SocksOK
<1>2. \A j \in Occupied(fs) : j < n => \E c \in Entries(s) : c.id = fs[j].channel
  <2>1. \A j \in Occupied(fs) : j \in Nat
    BY <1>1 DEF Occupied
  <2>2. \A j \in Nat : j < n => j <= i
    OBVIOUS
  <2> QED BY <2>1, <2>2
<1>3. n > Len(fs) => RoomLeft(s, fs)
  <2>1. SUFFICES ASSUME n > Len(fs) PROVE RoomLeft(s, fs)
    OBVIOUS
  <2>2. \A j \in Occupied(fs) : j < n
    BY <1>1, <2>1 DEF Occupied
  <2> QED BY <1>2, <2>2, RoomByCount
<1> QED BY <1>2, <1>3 DEF AtTransfer

(* An entry is given up while the loop looks at it.                        *)
LEMMA TransferCloses ==
  ASSUME IInv, NEW s, ServerOK(s), ForwardsOK(s, forwards), Served(s, forwards, 1),
         NEW i \in Occupied(forwards), CloseForwardChannel(s, i),
         phase' = "transfer", index' \in Nat \ {0}, channel' \in Nat, LinkOK(s, toServer', peer'), peer' = peer,
         \/ index' = 1
         \/ \A j \in Occupied(forwards) : j < index' /\ j # i => \E c \in Entries(s) : c.id = forwards[j].channel
  PROVE  IInv'
<1>0. PICK fs : fs = forwards
  OBVIOUS
<1>1. PICK t, fs2 : /\ t = PushChunk(CloseChannel(s, fs[i].channel).s, 1, TRUE).s
                    /\ fs2 = [fs EXCEPT ![i] = NoForward]
  OBVIOUS
<1>2. ssh' = t /\ forwards' = fs2
  BY <1>0, <1>1 DEF CloseForwardChannel
<1>3. PICK q : q = toServer'
  OBVIOUS
<1>4. LinkOK(s, q, peer)
  BY <1>3
<1>5. ForwardsOK(s, fs) /\ Served(s, fs, 1) /\ i \in Occupied(fs) /\ GivenUp(s, fs, i, t, fs2)
  BY <1>0, <1>1 DEF GivenUp
<1>6. /\ ServerOK(t) /\ LinkOK(t, q, peer) /\ ForwardsOK(t, fs2) /\ Served(t, fs2, 1) /\ RoomLeft(t, fs2)
      /\ Len(fs2) = Len(fs) /\ Occupied(fs2) \subseteq Occupied(fs) \ {i}
      /\ \A j \in DOMAIN fs : j # i => fs2[j] = fs[j]
      /\ \A c \in Entries(s) : \E d \in Entries(t) : d.id = c.id
  BY <1>4, <1>5, ForwardClosed
<1>7. fs2 # <<>> /\ Len(fs2) \in Nat /\ DOMAIN fs2 = 1..Len(fs2)
  <2>1. i \in DOMAIN fs /\ DOMAIN fs = 1..Len(fs) /\ Len(fs2) \in Nat /\ DOMAIN fs2 = 1..Len(fs2) /\ Len(fs) \in Nat
    BY <1>5, <1>6, SocksOK DEF Occupied
  <2> QED BY <1>6, <2>1
<1>8. PICK n : n = index'
  OBVIOUS
<1>9. \A j \in Occupied(fs2) : j < n => \E d \in Entries(t) : d.id = fs2[j].channel
  <2>1. CASE n = 1
    BY <1>7, <2>1 DEF Occupied
  <2>2. CASE \A j \in Occupied(fs) : j < n /\ j # i => \E c \in Entries(s) : c.id = fs[j].channel
    <3>1. SUFFICES ASSUME NEW j \in Occupied(fs2), j < n PROVE \E d \in Entries(t) : d.id = fs2[j].channel
      OBVIOUS
    <3>2. j \in Occupied(fs) /\ j # i /\ fs2[j] = fs[j]
      BY <1>6, <3>1 DEF Occupied
    <3>3. PICK c \in Entries(s) : c.id = fs[j].channel
      BY <2>2, <3>1, <3>2
    <3> QED BY <1>6, <3>2, <3>3
  <2> QED BY <1>0, <1>8, <2>1, <2>2
<1>10. AtTransfer(t, fs2, n)
  BY <1>6, <1>7, <1>9 DEF AtTransfer
<1>11. ThreadOK'
  <2>1. \A j \in DOMAIN fs2 : fs2[j].sock \in {"open", "invalid"}
    BY <1>6, SocksOK
  <2> QED BY <1>2, <2>1, ThreadKept
<1>12. LoopOK'
  BY <1>2, <1>8, <1>10 DEF LoopOK
<1> QED BY <1>2, <1>3, <1>6, <1>11, <1>12, GoesOn

(* One turn of the loop.                                                   *)
LEMMA TransferChannelDataOK ==
  ASSUME IInv, TransferChannelData
  PROVE  IInv'
<1>1. /\ phase = "transfer" /\ index <= Len(forwards) /\ index' = index + 1
      /\ UNCHANGED <<phase, channel, toServer, peer>>
  BY DEF TransferChannelData
<1>2. PICK received \in {"data", "nothing", "error"} :
        LET fi   == forwards[index]
            sent == PushChunk(ssh, fi.channel, received = "data")
        IN  IF fi = NoForward THEN UNCHANGED <<ssh, forwards>>
            ELSE IF received = "error" THEN CloseForwardChannel(ssh, index)
            ELSE IF sent.st # Ok THEN CloseForwardChannel(sent.s, index)
            ELSE ssh' = sent.s /\ UNCHANGED forwards
  BY DEF TransferChannelData
<1>3. PICK s, fs, id, data, r : /\ s = ssh /\ fs = forwards /\ id = fs[index].channel
                                /\ data = (received = "data") /\ r = PushChunk(s, id, data)
  OBVIOUS
<1>4. /\ ServerOK(s) /\ LinkOK(s, toServer, peer) /\ ForwardsOK(s, fs) /\ AtTransfer(s, fs, index)
      /\ index \in Nat \ {0} /\ channel \in Nat
  BY <1>1, <1>3 DEF IInv, Running, LoopOK, ThreadOK
<1>5. /\ fs # <<>> /\ Served(s, fs, 1) /\ index \in DOMAIN fs /\ data \in BOOLEAN
      /\ \A j \in Occupied(fs) : j < index => \E c \in Entries(s) : c.id = fs[j].channel
  <2>1. Len(fs) \in Nat /\ DOMAIN fs = 1..Len(fs)
    BY <1>4, SocksOK
  <2>2. index \in DOMAIN fs
    BY <1>1, <1>3, <1>4, <2>1
  <2>3. fs # <<>> /\ Served(s, fs, 1) /\ \A j \in Occupied(fs) : j < index => \E c \in Entries(s) : c.id = fs[j].channel
    BY <1>1, <1>3, <1>4 DEF AtTransfer
  <2>4. data \in BOOLEAN
    BY <1>3
  <2> QED BY <2>2, <2>3, <2>4
<1>6. IF fs[index] = NoForward THEN UNCHANGED <<ssh, forwards>>
      ELSE IF received = "error" THEN CloseForwardChannel(s, index)
      ELSE IF r.st # Ok THEN CloseForwardChannel(r.s, index)
      ELSE ssh' = r.s /\ UNCHANGED forwards
  BY <1>2, <1>3
<1>7. \A j \in Occupied(fs) : j \in Nat /\ (j < index + 1 /\ j # index => j < index)
  <2>1. \A j \in Occupied(fs) : j \in Nat
    <3>1. DOMAIN fs = 1..Len(fs) /\ Len(fs) \in Nat
      BY <1>4, SocksOK
    <3> QED BY <3>1 DEF Occupied
  <2>2. \A j \in Nat : j < index + 1 /\ j # index => j < index
    BY <1>4
  <2> QED BY <2>1, <2>2
<1>8. ASSUME NEW t, ServerOK(t), LinkOK(t, toServer, peer), Same(s, t), index \in Occupied(fs), CloseForwardChannel(t, index)
      PROVE  IInv'
  <2>1. Entries(t) = Entries(s) /\ t.nextID = s.nextID /\ t.read = s.read
    BY <1>8 DEF Same
  <2>2. ForwardsOK(t, forwards) /\ Served(t, forwards, 1)
    BY <1>3, <1>4, <1>5, <2>1, LoopFrame
  <2>3. \A j \in Occupied(forwards) : j < index' /\ j # index => \E c \in Entries(t) : c.id = forwards[j].channel
    BY <1>1, <1>3, <1>5, <1>7, <2>1
  <2>4. index' \in Nat \ {0} /\ channel' \in Nat /\ phase' = "transfer" /\ peer' = peer
    BY <1>1, <1>4
  <2>5. LinkOK(t, toServer', peer')
    BY <1>1, <1>8
  <2>6. index \in Occupied(forwards)
    BY <1>3, <1>8
  <2> QED BY <1>8, <2>2, <2>3, <2>4, <2>5, <2>6, TransferCloses
<1>9. ASSUME NEW t, ServerOK(t), LinkOK(t, toServer, peer), Same(s, t), ssh' = t, forwards' = fs,
             index \in Occupied(fs) => \E c \in Entries(s) : c.id = fs[index].channel
      PROVE  IInv'
  <2>1. Entries(t) = Entries(s) /\ t.nextID = s.nextID /\ t.read = s.read
    BY <1>9 DEF Same
  <2>2. ForwardsOK(t, fs) /\ Served(t, fs, 1)
    BY <1>4, <1>5, <2>1, LoopFrame
  <2>3. \A j \in Occupied(fs) : j <= index => \E c \in Entries(t) : c.id = fs[j].channel
    <3>1. \A j \in Nat : j <= index => j < index \/ j = index
      BY <1>4
    <3> QED BY <1>5, <1>7, <1>9, <2>1, <3>1
  <2>4. index \in Nat /\ index <= Len(fs)
    BY <1>1, <1>3, <1>4
  <2>5. PICK n : n = index + 1
    OBVIOUS
  <2>6. AtTransfer(t, fs, n)
    BY <1>5, <1>9, <2>2, <2>3, <2>4, <2>5, TransferStays
  <2>7. ThreadOK'
    <3>1. index' \in Nat \ {0}
      BY <1>1, <1>4
    <3>2. \A j \in DOMAIN fs : fs[j].sock \in {"open", "invalid"}
      BY <1>4, SocksOK
    <3> QED BY <1>1, <1>4, <1>9, <3>1, <3>2, ThreadKept
  <2>8. LoopOK'
    BY <1>1, <1>9, <2>5, <2>6 DEF LoopOK
  <2> QED BY <1>1, <1>9, <2>2, <2>7, <2>8, GoesOn
<1>10. CASE fs[index] = NoForward
  <2>1. ssh' = s /\ forwards' = fs
    BY <1>3, <1>6, <1>10
  <2>2. index \notin Occupied(fs)
    BY <1>10 DEF Occupied
  <2> QED BY <1>4, <1>9, <2>1, <2>2 DEF Same
<1>11. CASE fs[index] # NoForward /\ received = "error"
  <2>1. CloseForwardChannel(s, index) /\ index \in Occupied(fs)
    BY <1>5, <1>6, <1>11 DEF Occupied
  <2> QED BY <1>4, <1>8, <2>1 DEF Same
<1>12. CASE fs[index] # NoForward /\ received # "error"
  <2>1. index \in Occupied(fs)
    BY <1>5, <1>12 DEF Occupied
  <2>2. IF r.st # Ok THEN CloseForwardChannel(r.s, index) ELSE ssh' = r.s /\ UNCHANGED forwards
    BY <1>6, <1>12
  <2>3. CASE \A c \in Entries(s) : c.id # id
    <3>1. r = Return(s, "NOTFOUND")
      BY <1>3, <1>5, <2>3, PushChunkOff
    <3>2. r.s = s /\ r.st # Ok
      BY <3>1 DEF Return, Ok
    <3>3. CloseForwardChannel(s, index)
      BY <2>2, <3>2
    <3> QED BY <1>4, <1>8, <2>1, <3>3 DEF Same
  <2>4. ASSUME NEW c \in Entries(s), c.id = id PROVE IInv'
    <3>1. ~c.writeClosed
      BY <1>3, <1>4, <2>1, <2>4 DEF ForwardsOK
    <3>2. r = PushChunk(s, c.id, data)
      BY <1>3, <2>4
    <3>3. ServerOK(r.s) /\ LinkOK(r.s, toServer, peer) /\ Same(s, r.s)
      BY <1>4, <1>5, <3>1, <3>2, PushOK
    <3>4. PICK t : t = r.s
      OBVIOUS
    <3>5. CASE r.st # Ok
      <4>1. CloseForwardChannel(t, index)
        BY <2>2, <3>4, <3>5
      <4> QED BY <1>8, <2>1, <3>3, <3>4, <4>1
    <3>6. CASE r.st = Ok
      <4>1. ssh' = t /\ forwards' = fs
        BY <1>3, <2>2, <3>4, <3>6
      <4> QED BY <1>3, <1>9, <2>4, <3>3, <3>4, <4>1
    <3> QED BY <3>5, <3>6
  <2> QED BY <2>3, <2>4
<1> QED BY <1>10, <1>11, <1>12

(* The loop receives.                                                      *)
LEMMA ForwardReceiveOK ==
  ASSUME IInv, ForwardReceive
  PROVE  IInv'
<1>1. PICK popped : /\ popped = Pop
                    /\ \/ PopsNothing(popped, "transfer")
                       \/ popped.st = Ok /\ ForwardPopped(popped.s, popped.rest)
  BY DEF ForwardReceive
<1>2. phase = "transfer" /\ index > Len(forwards)
  BY DEF ForwardReceive
<1>3. Running
  BY <1>2 DEF IInv
<1>4. /\ ServerOK(ssh) /\ LinkOK(ssh, toServer, peer) /\ ForwardsOK(ssh, forwards)
      /\ AtTransfer(ssh, forwards, index)
  BY <1>2, <1>3 DEF Running, LoopOK
<1>5. forwards # <<>> /\ Served(ssh, forwards, 1) /\ RoomLeft(ssh, forwards) /\ index \in Nat \ {0} /\ channel \in Nat
  BY <1>2, <1>4 DEF AtTransfer, IInv, ThreadOK
<1>n. Len(forwards) \in Nat /\ DOMAIN forwards = 1..Len(forwards)
  BY <1>4, SocksOK
<1>6. CASE popped.st \notin {Ok, OkSpecial, EnvelopeResource} /\ End(popped.s, popped.st)
  BY <1>1, <1>3, <1>6, PopEnds
<1>7. CASE popped.st = EnvelopeResource /\ Reads(popped, "resource")
  BY <1>1, <1>3, <1>5, <1>7, PopOpens
<1>8. PICK t, q2 : t = popped.s /\ q2 = popped.rest
  OBVIOUS
<1>9. ASSUME popped.st \in {Ok, OkSpecial}
      PROVE  /\ ServerOK(t) /\ LinkOK(t, q2, peer) /\ ForwardsOK(t, forwards)
             /\ Served(t, forwards, 1) /\ RoomLeft(t, forwards)
  <2>1. Continues(ssh, popped.rest, peer, popped.s)
    BY <1>1, <1>4, <1>9, PopsOK DEF Ok, OkSpecial, EnvelopeResource
  <2>2. Continues(ssh, q2, peer, t)
    BY <1>8, <2>1
  <2>3. ServerOK(t) /\ LinkOK(t, q2, peer) /\ Kept(ssh, t)
    BY <2>2 DEF Continues
  <2> QED BY <1>4, <1>5, <2>3, KeptFrame
<1>10. CASE popped.st = OkSpecial /\ Reads(popped, "transfer")
  <2>1. ssh' = t /\ toServer' = q2 /\ phase' = "transfer" /\ UNCHANGED <<index, channel, forwards, peer>>
    BY <1>8, <1>10 DEF Reads
  <2>2. ThreadOK'
    BY <2>1, ThreadKept, Zenon DEF IInv, ThreadOK
  <2>3. AtTransfer(t, forwards, index)
    <3>1. ~(index <= Len(forwards))
      BY <1>2, <1>5, <1>n
    <3> QED BY <1>5, <1>9, <1>10, <3>1 DEF AtTransfer
  <2>4. LoopOK'
    BY <2>1, <2>3 DEF LoopOK
  <2> QED BY <1>9, <1>10, <2>1, <2>2, <2>4, GoesOn
<1>11. CASE popped.st = Ok /\ ForwardPopped(popped.s, popped.rest)
  <2>1. PICK id, mine : id = CurrentChannel(t) /\ mine = {i \in DOMAIN forwards : forwards[i].channel = id}
    OBVIOUS
  <2>2. PICK first : first = CHOOSE i \in mine : \A j \in mine : i <= j
    OBVIOUS
  <2>3. PICK delivered \in BOOLEAN :
          /\ toServer' = q2 /\ channel' = id /\ phase' = "transfer" /\ index' = 1
          /\ IF mine = {} \/ (delivered /\ forwards[first].sock = "open")
             THEN ssh' = t /\ UNCHANGED forwards
             ELSE CloseForwardChannel(t, first)
          /\ UNCHANGED <<why, peer, opens>>
    BY <1>8, <1>11, <2>1, <2>2 DEF ForwardPopped
  <2>4. ServerOK(t) /\ LinkOK(t, q2, peer) /\ ForwardsOK(t, forwards) /\ Served(t, forwards, 1)
    BY <1>9, <1>11
  <2>5. id \in Nat
    <3>1. id = t.read \/ id = channel
      BY <2>1, CurrentIs
    <3> QED BY <1>5, <2>4, <3>1 DEF ServerOK, IsSession, IsRaw, Session
  <2>6. CASE ssh' = t /\ UNCHANGED forwards
    <3>1. PICK n : n = 1
      OBVIOUS
    <3>2. AtTransfer(t, forwards, n)
      <4>1. forwards # <<>> => Len(forwards) # 0
        BY <2>4 DEF ForwardsOK
      <4>2. ~(n > Len(forwards))
        BY <1>5, <1>n, <3>1, <4>1
      <4>3. \A j \in Occupied(forwards) : ~(j < n)
        BY <1>n, <3>1 DEF Occupied
      <4> QED BY <1>5, <2>4, <4>2, <4>3 DEF AtTransfer
    <3>3. ThreadOK'
      <4>1. \A i \in DOMAIN forwards : forwards[i].sock \in {"open", "invalid"}
        BY <2>4, SocksOK
      <4> QED BY <2>3, <2>5, <2>6, <4>1, ThreadKept
    <3>4. LoopOK'
      BY <2>3, <2>6, <3>1, <3>2 DEF LoopOK
    <3> QED BY <2>3, <2>4, <2>6, <3>3, <3>4, GoesOn
  <2>7. CASE mine # {} /\ CloseForwardChannel(t, first)
    <3>1. mine \subseteq 1..Len(forwards)
      BY <1>n, <2>1
    <3>2. first \in mine
      BY <1>n, <2>2, <2>7, <3>1, First
    <3>3. first \in Occupied(forwards)
      <4>1. first \in DOMAIN forwards /\ forwards[first].channel = id
        BY <2>1, <3>2
      <4>2. forwards[first] # NoForward
        BY <2>5, <4>1 DEF NoForward
      <4> QED BY <4>1, <4>2 DEF Occupied
    <3>5. phase' = "transfer" /\ index' \in Nat \ {0} /\ index' = 1 /\ channel' \in Nat /\ peer' = peer
      BY <2>3, <2>5
    <3>6. LinkOK(t, toServer', peer')
      BY <2>3, <2>4
    <3> QED BY <2>4, <2>7, <3>3, <3>5, <3>6, TransferCloses
  <2> QED BY <2>3, <2>6, <2>7
<1> QED BY <1>1, <1>6, <1>7, <1>10, <1>11 DEF PopsNothing

-----------------------------------------------------------------------------
(* The invariant. *)

(* A sequence of zeros adds up to nothing.                                 *)
LEMMA TotalZero ==
  ASSUME NEW counts \in Seq(Int), \A i \in 1..Len(counts) : counts[i] = 0
  PROVE  Total(counts) = 0
<1>1. PICK g : Sums(g, counts)
  BY SumsExist
<1>2. PICK z : z = [n \in 0..Len(counts) |-> 0]
  OBVIOUS
<1>3. Len(counts) \in Nat
  OBVIOUS
<1>4. Sums(z, counts)
  <2>1. z \in [0..Len(counts) -> Int] /\ z[0] = 0
    BY <1>2, <1>3
  <2>2. ASSUME NEW n \in 1..Len(counts) PROVE z[n] = z[n - 1] + counts[n]
    <3>1. n \in 0..Len(counts) /\ n - 1 \in 0..Len(counts)
      BY <1>3
    <3>2. z[n] = 0 /\ z[n - 1] = 0 /\ counts[n] = 0
      BY <1>2, <3>1
    <3> QED BY <3>2
  <2> QED BY <2>1, <2>2 DEF Sums
<1>5. Total(counts) = z[Len(counts)]
  BY <1>4, TotalIs
<1> QED BY <1>2, <1>3, <1>5

(* Nothing is awaited in the beginning.                                    *)
LEMMA NothingAwaitedYet ==
  ASSUME Init
  PROVE  Awaited(peer) = 0
<1>1. \A no \in ChannelNos : peer[no].awaiting = 0
  BY Zenon DEF Init, Closed
<1>2. PICK m, counts : /\ m = Max(ChannelNos) + 1
                       /\ counts = [i \in 1..m |-> IF i - 1 \in ChannelNos THEN peer[i - 1].awaiting ELSE 0]
  OBVIOUS
<1>3. m \in Nat
  BY <1>2, GreatestChannel
<1>4. \A i \in 1..m : counts[i] = 0
  BY <1>1, <1>2
<1>5. counts \in Seq(Int) /\ Len(counts) = m
  <2>1. counts \in [1..m -> Int]
    BY <1>2, <1>4
  <2> QED BY <1>3, <2>1
<1>6. Total(counts) = 0
  BY <1>4, <1>5, TotalZero
<1> QED BY <1>2, <1>6 DEF Awaited

(* The queues are empty and the shell's channel is open.                   *)
LEMMA Starts ==
  ASSUME Init
  PROVE  IInv
<1>1. PICK c : c = [Channel(1, 0, "session") EXCEPT !.active = TRUE, !.windowCount = WindowSize, !.windowSize = WindowSize]
  OBVIOUS
<1>2. /\ c \in Channels /\ c.id = 1 /\ c.no = 0 /\ c.type = "session" /\ c.active = TRUE /\ c.writeClosed = FALSE
      /\ c.windowCount = WindowSize /\ c.windowSize = WindowSize
  <2>1. c = [id |-> 1, no |-> 0, type |-> "session", active |-> TRUE, writeClosed |-> FALSE,
             windowCount |-> WindowSize, windowSize |-> WindowSize]
    BY <1>1 DEF Channel
  <2>2. 1 \in Nat \ {0} /\ 0 \in ChannelNos /\ WindowSize \in Nat
    BY SshChannelAssumption
  <2>3. TRUE \in BOOLEAN /\ FALSE \in BOOLEAN /\ WindowSize \in {0, WindowSize}
    OBVIOUS
  <2>4. "session" \in {"session", "direct-tcpip"}
    OBVIOUS
  <2>5. c \in Channels
    BY <2>1, <2>2, <2>3, <2>4 DEF Channels
  <2> QED BY <2>1, <2>5
<1>3. ssh = [chans |-> <<c>>, nextID |-> 2, read |-> 1, write |-> 1, response |-> <<>>, out |-> <<>>,
             sendClosed |-> FALSE, link |-> TRUE]
  BY <1>1, Zenon DEF Init
<1>4. /\ ssh.chans = <<c>> /\ ssh.nextID = 2 /\ ssh.read = 1 /\ ssh.write = 1 /\ ssh.response = <<>>
      /\ ssh.out = <<>> /\ ssh.sendClosed = FALSE /\ ssh.link = TRUE
  BY <1>3
<1>5. Unique(ssh.chans) /\ Len(ssh.chans) = 1 /\ Entries(ssh) = {c}
  <2>1. <<c>> \in Seq(Channels) /\ Len(<<c>>) = 1 /\ DOMAIN <<c>> = {1} /\ <<c>>[1] = c
    BY <1>2
  <2>2. ToSet(<<c>>) = {c}
    BY <2>1 DEF ToSet
  <2> QED BY <1>4, <2>1, <2>2 DEF Unique, Entries
<1>6. ssh \in Session
  <2>1. <<c>> \in Seq(Channels) /\ <<>> \in Seq(PacketsOut)
    BY <1>2
  <2> HIDE DEF Channels, PacketsOut
  <2> QED BY <1>3, <2>1 DEF Session
<1>7. IsSession(ssh)
  BY <1>2, <1>5, <1>6 DEF IsSession, IsRaw
<1>8. ServerOK(ssh)
  <2>1. Selects(ssh)
    BY <1>2, <1>4, <1>5 DEF Selects, UnusedID
  <2>2. Len(ssh.chans) <= MaxChannels + 1
    BY <1>5, SshChannelAssumption
  <2>3. \A d \in Entries(ssh) : d.id < ssh.nextID /\ (d.type = IF d.id = 1 THEN "session" ELSE "direct-tcpip") /\ (d.id = 1 => ~d.writeClosed)
    BY <1>2, <1>4, <1>5
  <2>4. ssh.nextID >= 2 /\ (~ssh.link => ssh.out = <<>>)
    BY <1>4
  <2> QED BY <1>4, <1>7, <2>1, <2>2, <2>3, <2>4 DEF ServerOK
<1>9. toServer = <<>> /\ ssh.out = <<>>
  BY <1>4, Zenon DEF Init
<1>10. PICK q, o : q = toServer /\ o = ssh.out
  OBVIOUS
<1>11. /\ q \in Seq(PacketsIn) /\ o \in Seq(PacketsOut) /\ DOMAIN q = {} /\ DOMAIN o = {}
  BY <1>9, <1>10
<1>12. peer \in [ChannelNos -> Views]
  <2>1. PICK f : f = [no \in ChannelNos |-> IF no = 0 THEN [Closed EXCEPT !.state = "open", !.credit = WindowSize] ELSE Closed]
    OBVIOUS
  <2>2. ASSUME NEW no \in ChannelNos PROVE f[no] \in Views
    <3>1. 0 \in Int /\ WindowSize \in Int /\ 0 \in Nat /\ WindowSize \in Nat
      BY SshChannelAssumption
    <3>2. CASE no = 0
      <4>1. f[no] = [state |-> "open", sentEof |-> FALSE, sentClose |-> FALSE, gotClose |-> FALSE,
                     credit |-> WindowSize, awaiting |-> 0]
        BY <2>1, <3>2 DEF Closed
      <4> QED BY <3>1, <4>1 DEF Views
    <3>3. CASE no # 0
      <4>1. f[no] = [state |-> "none", sentEof |-> FALSE, sentClose |-> FALSE, gotClose |-> FALSE,
                     credit |-> 0, awaiting |-> 0]
        BY <2>1, <3>3 DEF Closed
      <4> QED BY <3>1, <4>1 DEF Views
    <3> QED BY <3>2, <3>3
  <2>3. f \in [ChannelNos -> Views]
    <3> HIDE DEF Views
    <3> QED BY <2>1, <2>2
  <2> QED BY <2>1, <2>3, Zenon DEF Init
<1>13. LinkOK(ssh, q, peer)
  <2>1. QueueOrder(q) /\ OutOrder(o)
    BY <1>11 DEF QueueOrder, OutOrder
  <2>2. \A type, no : ~Has(q, type, no) /\ ~Has(o, type, no)
    BY <1>11 DEF Has
  <2>3. \A no : ~HasAny(q, no)
    BY <1>11 DEF HasAny
  <2>4. ASSUME NEW no \in ChannelNos
        PROVE  NumberInv(no, findChannelAttr(ssh, no), o, q, peer[no], ssh.link)
    <3>1. PICK w, es : w = peer[no] /\ es = findChannelAttr(ssh, no)
      OBVIOUS
    <3>2. Bytes(q, "DATA", no) = 0 /\ Bytes(o, "ADJUST", no) = 0
      BY <1>11, <2>2, BytesNone
    <3>3. CASE no = 0
      <4>1. w.state = "open" /\ w.credit = WindowSize /\ ~w.sentEof /\ ~w.sentClose /\ ~w.gotClose
        BY <3>1, <3>3, Zenon DEF Init, Closed
      <4>2. es = {c}
        BY <1>2, <1>5, <3>1, <3>3 DEF findChannelAttr
      <4>3. WindowSize \in Nat /\ WindowSize >= WindowSize \div 2 /\ WindowSize = WindowSize + 0 + 0
        BY SshChannelAssumption
      <4>4. Open(es)
        BY <1>2, <4>2 DEF Open
      <4>5. AlwaysInv(no, es, q, w)
        BY <1>2, <2>2, <2>3, <3>2, <4>1, <4>2, <4>3 DEF AlwaysInv
      <4>6. LinkInv(no, es, o, q, w)
        BY <1>2, <2>2, <2>3, <3>2, <4>1, <4>2, <4>3, <4>4 DEF LinkInv
      <4> QED BY <3>1, <4>5, <4>6 DEF NumberInv
    <3>4. CASE no # 0
      <4>1. w.state = "none" /\ ~w.sentEof /\ ~w.sentClose /\ ~w.gotClose
        BY <3>1, <3>4, Zenon DEF Init, Closed
      <4>2. es = {}
        BY <1>2, <1>5, <3>1, <3>4 DEF findChannelAttr
      <4>4. ~Open(es)
        BY <4>2 DEF Open
      <4>5. AlwaysInv(no, es, q, w)
        BY <2>2, <2>3, <4>1, <4>2 DEF AlwaysInv
      <4>6. LinkInv(no, es, o, q, w)
        BY <2>2, <2>3, <4>1, <4>2, <4>4 DEF LinkInv
      <4> QED BY <3>1, <4>5, <4>6 DEF NumberInv
    <3> QED BY <3>3, <3>4
  <2>5. Owed(ssh, q, peer)
    <3>1. ToAnswer(q) = 0 /\ Answers(o) = 0
      BY <1>9, <1>10, NothingToAnswer
    <3>2. Awaited(peer) = 0
      BY NothingAwaitedYet
    <3> QED BY <1>10, <3>1, <3>2 DEF Owed
  <2> QED BY <1>10, <1>11, <1>12, <2>1, <2>2, <2>4, <2>5 DEF LinkOK
<1>14. ForwardsOK(ssh, forwards)
  <2>1. forwards = <<>> /\ MaxForwards \in Nat
    BY SshChannelAssumption, Zenon DEF Init
  <2>2. DOMAIN forwards = {} /\ Len(forwards) = 0 /\ forwards \in Seq([channel : Nat \cup {-1}, sock : {"open", "invalid"}])
    BY <2>1
  <2> QED BY <2>1, <2>2 DEF ForwardsOK, Occupied
<1>15. AtShell(ssh, forwards, channel)
  BY <1>2, <1>4, <1>5, Zenon DEF Init, AtShell, ShellOpen
<1>16. phase = "shell send"
  BY Zenon DEF Init
<1>17. Running
  BY <1>8, <1>10, <1>13, <1>14, <1>15, <1>16, Zenon DEF Running, LoopOK
<1>18. ThreadOK
  <2>1. \A no \in ChannelNos : peer[no].state \in {"none", "opening", "open"}
    BY <1>12 DEF Views
  <2>2. \A i \in DOMAIN forwards : forwards[i].sock \in {"open", "invalid"}
    BY <1>14, SocksOK
  <2>3. index = 1 /\ channel = 1
    BY Zenon DEF Init
  <2>4. index \in Nat \ {0} /\ channel \in Nat
    BY <2>3
  <2>5. phase \in {"shell send", "shell receive", "resource", "transfer", "ended"}
    BY <1>16, Zenon
  <2> HIDE DEF Init
  <2> QED BY <2>1, <2>2, <2>4, <2>5, Zenon DEF ThreadOK
<1> QED BY <1>8, <1>17, <1>18, ServerSound DEF IInv

(* Every step keeps the invariant.                                         *)
LEMMA IInvKept ==
  ASSUME IInv, [Next]_vars
  PROVE  IInv'
<1>1. CASE SocketCommunicationLoop
  BY <1>1, ShellSendOK, ShellReceiveOK DEF SocketCommunicationLoop
<1>2. CASE PortForwardLoop
  BY <1>2, CreatePortForwardChannelOK, TransferChannelDataOK, ForwardReceiveOK DEF PortForwardLoop
<1>3. CASE Client
  <2>1. ASSUME NEW no \in ChannelNos,
               PeerOpen(no) \/ PeerData(no) \/ PeerAdjust(no) \/ PeerEof(no) \/ PeerClose(no)
        PROVE  IInv'
    BY <2>1, PeerOpenOK, PeerDataOK, PeerAdjustOK, PeerEofOK, PeerCloseOK
  <2>2. ASSUME NEW no \in ChannelNos, NEW r \in PeerRequests, PeerRequest(no, r) PROVE IInv'
    BY <2>2, PeerRequestOK
  <2>3. CASE PeerReceive
    BY <2>3, PeerReceiveOK
  <2> QED BY <1>3, <2>1, <2>2, <2>3 DEF Client
<1>4. CASE LinkFails
  BY <1>4, LinkFailsOK
<1>5. CASE UNCHANGED vars
  BY <1>5, Zenon DEF vars, IInv, ThreadOK, Running, LoopOK
<1> QED BY <1>1, <1>2, <1>3, <1>4, <1>5 DEF Next

(* The invariant holds of every behaviour: the session thread, the peer and *)
(* the link in any order.                                                   *)
THEOREM ChannelInvariant == Spec => []IInv
<1>1. Init => IInv
  BY Starts
<1>2. IInv /\ [Next]_vars => IInv'
  BY IInvKept
<1> QED BY <1>1, <1>2, PTL DEF Spec

-----------------------------------------------------------------------------
(* What follows from it. *)

(* The type invariant of the specification.                                *)
LEMMA TypeOKHolds ==
  ASSUME IInv
  PROVE  TypeOK
<1>1. /\ Unique(ssh.chans) /\ ssh.read \in Nat /\ ssh.write \in Nat /\ ssh.nextID \in Nat
  BY DEF IInv, Sound
<1>2. PICK list : list = ssh.chans
  OBVIOUS
<1>3. list \in Seq([id : Nat \ {0}, no : ChannelNos, type : {"session", "direct-tcpip"},
                    active : BOOLEAN, writeClosed : BOOLEAN,
                    windowCount : Int, windowSize : {0, WindowSize}])
  <2>1. PICK S : S = [id : Nat \ {0}, no : ChannelNos, type : {"session", "direct-tcpip"},
                    active : BOOLEAN, writeClosed : BOOLEAN,
                    windowCount : Int, windowSize : {0, WindowSize}]
    OBVIOUS
  <2>2. \A c \in Channels : c \in S
    BY <2>1 DEF Channels
  <2>3. list \in Seq(Channels)
    BY <1>1, <1>2 DEF Unique
  <2>4. list \in Seq(S)
    <3> HIDE DEF Channels
    <3> QED BY <2>2, <2>3
  <2> QED BY <2>1, <2>4
<1>4. ThreadOK
  BY DEF IInv
<1> QED BY <1>1, <1>2, <1>3, <1>4, Zenon DEF ThreadOK, TypeOK

(* The channels selected are in the list.                                  *)
LEMMA CurrentChannelsHold ==
  ASSUME IInv
  PROVE  CurrentChannels
<1>1. Selects(ssh) /\ Unique(ssh.chans)
  BY DEF IInv, Sound
<1>2. ssh.read # UnusedID => findChannelByID(ssh, ssh.read) # {}
  BY <1>1 DEF Selects, findChannelByID
<1>3. ssh.write # UnusedID => \E c \in findChannelByID(ssh, ssh.write) : ~c.writeClosed
  BY <1>1 DEF Selects, findChannelByID
<1>4. \A i, j \in DOMAIN ssh.chans :
        ssh.chans[i].no = ssh.chans[j].no \/ ssh.chans[i].id = ssh.chans[j].id => i = j
  BY <1>1 DEF Unique
<1> QED BY <1>2, <1>3, <1>4 DEF CurrentChannels

(* Every channel that is not closed for writing has its one forward.       *)
LEMMA ForwardsServedHolds ==
  ASSUME IInv
  PROVE  ForwardsServed
<1>1. SUFFICES ASSUME phase = "transfer", findChannelByID(ssh, 1) # {},
                      MaxChannels <= MaxForwards \/ Len(forwards) <= MaxForwards,
                      NEW c \in Entries(ssh), c.type = "direct-tcpip", ~c.writeClosed
               PROVE  Cardinality({i \in DOMAIN forwards : forwards[i].channel = c.id}) = 1
  BY DEF ForwardsServed
<1>2. Running
  BY <1>1 DEF IInv
<1>3. ServerOK(ssh) /\ ForwardsOK(ssh, forwards) /\ Served(ssh, forwards, 1)
  BY <1>1, <1>2 DEF Running, LoopOK, AtTransfer
<1>4. c.id # 1
  BY <1>1, <1>3 DEF ServerOK
<1>5. PICK i \in DOMAIN forwards : forwards[i].channel = c.id
  <2>1. ShellOpen(ssh) /\ Fits(forwards)
    BY <1>1 DEF ShellOpen, Fits, findChannelByID
  <2> QED BY <1>1, <1>3, <1>4, <2>1 DEF Served, ForwardOf
<1>6. c.id \in Nat
  BY <1>1, <1>3, EntryFacts DEF ServerOK, IsSession, IsRaw
<1>7. \A j \in DOMAIN forwards : forwards[j].channel = c.id => j \in Occupied(forwards)
  BY <1>6 DEF Occupied, NoForward
<1>8. {j \in DOMAIN forwards : forwards[j].channel = c.id} = {i}
  BY <1>3, <1>5, <1>7 DEF ForwardsOK
<1> QED BY <1>8, FS_Singleton

(* The channel list is sound whatever was closed, refused or failed, and   *)
(* every forwarded channel is served.                                      *)
THEOREM ChannelsAreSound == Spec => []ChannelInv
<1>1. IInv => ChannelInv
  BY TypeOKHolds, CurrentChannelsHold, ForwardsServedHolds DEF ChannelInv
<1> QED BY <1>1, ChannelInvariant, PTL
\* What the invariant says of one number while the link is up.
LEMMA AliveNumber ==
  ASSUME IInv, Alive, NEW no \in ChannelNos
  PROVE  /\ LinkInv(no, findChannelAttr(ssh, no), ssh.out, toServer, peer[no])
         /\ AlwaysInv(no, findChannelAttr(ssh, no), toServer, peer[no])
<1>1. LinkOK(ssh, toServer, peer) /\ ssh.link
  BY DEF IInv, Running, Alive
<1>2. NumberInv(no, findChannelAttr(ssh, no), ssh.out, toServer, peer[no], ssh.link)
  BY <1>1 DEF LinkOK
<1> QED BY <1>1, <1>2 DEF NumberInv

(* The window the server counts is what the peer may still send, what it   *)
(* has sent and what is being returned to it.                              *)
THEOREM WindowsBalance == Spec => []WindowBalance
<1>1. ASSUME IInv PROVE WindowBalance
  <2>1. SUFFICES ASSUME Alive, NEW c \in Entries(ssh)
                 PROVE  /\ peer[c.no].state = "open" =>
                             c.windowCount = peer[c.no].credit + Bytes(toServer, "DATA", c.no) + Bytes(ssh.out, "ADJUST", c.no)
                        /\ c.windowCount >= c.windowSize \div 2
    BY DEF WindowBalance
  <2>2. IsSession(ssh) /\ IsRaw(ssh)
    BY <1>1, <2>1 DEF IInv, Running, ServerOK, Alive, IsSession
  <2>3. c.no \in ChannelNos /\ c.windowSize = WindowSize
    BY <2>1, <2>2, EntryFacts DEF IsSession
  <2>4. PICK no : no = c.no
    OBVIOUS
  <2>5. c \in findChannelAttr(ssh, no)
    BY <2>1, <2>4 DEF findChannelAttr
  <2>6. /\ LinkInv(no, findChannelAttr(ssh, no), ssh.out, toServer, peer[no])
        /\ AlwaysInv(no, findChannelAttr(ssh, no), toServer, peer[no])
    BY <1>1, <2>1, <2>3, <2>4, AliveNumber
  <2>7. peer[no].state = "open" =>
           c.windowCount = peer[no].credit + Bytes(toServer, "DATA", no) + Bytes(ssh.out, "ADJUST", no)
    BY <2>5, <2>6 DEF LinkInv
  <2>8. c.windowCount >= WindowSize \div 2
    BY <2>5, <2>6 DEF AlwaysInv
  <2> QED BY <2>3, <2>4, <2>7, <2>8
<1>2. IInv => WindowBalance
  BY <1>1
<1> QED BY <1>2, ChannelInvariant, PTL

(* Both sides agree on which channels are open.                            *)
LEMMA SidesAgreeHolds ==
  ASSUME IInv
  PROVE  SidesAgree
<1>1. SUFFICES ASSUME Alive
               PROVE  /\ \A no \in ChannelNos :
                           /\ peer[no].state = "open" /\ ~peer[no].sentClose /\ ~peer[no].gotClose
                           /\ ~Has(ssh.out, "CLOSE", no)
                           => \E c \in findChannelAttr(ssh, no) : c.active /\ ~c.writeClosed
                      /\ \A c \in Entries(ssh) : ~c.writeClosed => peer[c.no].state # "none"
  BY DEF SidesAgree
<1>2. IsSession(ssh) /\ IsRaw(ssh) /\ LinkOK(ssh, toServer, peer)
  BY <1>1 DEF IInv, Running, ServerOK, Alive, IsSession
<1>3. ASSUME NEW no \in ChannelNos, peer[no].state = "open", ~peer[no].sentClose, ~peer[no].gotClose,
             ~Has(ssh.out, "CLOSE", no)
      PROVE  \E c \in findChannelAttr(ssh, no) : c.active /\ ~c.writeClosed
  <2>1. Open(findChannelAttr(ssh, no))
    BY <1>1, <1>3, AliveNumber DEF LinkInv
  <2>2. PICK c \in findChannelAttr(ssh, no) : ~c.writeClosed
    BY <2>1 DEF Open
  <2>3. c \in Entries(ssh) /\ c.active
    BY <1>2 DEF findChannelAttr, IsSession
  <2> QED BY <2>2, <2>3
<1>4. ASSUME NEW c \in Entries(ssh), ~c.writeClosed
      PROVE  peer[c.no].state # "none"
  <2>1. PICK no : no = c.no
    OBVIOUS
  <2>2. no \in ChannelNos
    BY <1>2, <2>1, EntryFacts
  <2>3. c \in findChannelAttr(ssh, no)
    BY <2>1 DEF findChannelAttr
  <2>4. Open(findChannelAttr(ssh, no))
    BY <1>4, <2>3 DEF Open
  <2>5. LinkInv(no, findChannelAttr(ssh, no), ssh.out, toServer, peer[no])
    BY <1>1, <2>2, AliveNumber
  <2>6. peer[no].state = "open" \/ Has(ssh.out, "OPEN_CONFIRMATION", no)
    BY <2>4, <2>5 DEF LinkInv
  <2>7. Has(ssh.out, "OPEN_CONFIRMATION", no) => peer[no].state = "opening"
    BY <2>5 DEF LinkInv
  <2> QED BY <2>1, <2>6, <2>7
<1> QED BY <1>3, <1>4

(* The peer gets nothing on a channel that is not open to it.              *)
LEMMA NothingAfterCloseHolds ==
  ASSUME IInv
  PROVE  NothingAfterClose
<1>1. SUFFICES ASSUME Alive, NEW i \in DOMAIN ssh.out, ssh.out[i].type \in {"DATA", "CLOSE"}
               PROVE  OpenBefore(i, ssh.out[i].no)
  BY DEF NothingAfterClose
<1>2. LinkOK(ssh, toServer, peer) /\ ssh \in Session
  BY <1>1 DEF IInv, Running, ServerOK, Alive, IsSession, IsRaw
<1>3. PICK o, no : o = ssh.out /\ no = o[i].no
  OBVIOUS
<1>4. OutOrder(o) /\ i \in DOMAIN o /\ o[i].type \in {"DATA", "CLOSE"}
  BY <1>1, <1>2, <1>3 DEF LinkOK
<1>5. o \in Seq(PacketsOut)
  BY <1>2, <1>3 DEF Session
<1>6. DOMAIN o = 1..Len(o) /\ Len(o) \in Nat /\ i \in 1..Len(o)
  BY <1>4, <1>5
<1>7. no \in ChannelNos
  <2>1. o[i] \in PacketsOut
    <3> HIDE DEF PacketsOut
    <3> QED BY <1>5, <1>6
  <2> QED BY <1>3, <2>1 DEF PacketsOut
<1>8. PICK told : told = {j \in 1..i - 1 : o[j].no = no /\ o[j].type \in {"OPEN_CONFIRMATION", "CLOSE"}}
  OBVIOUS
<1>9. \A j \in told : j \in DOMAIN o /\ j < i /\ o[j].no = no /\ j \in Nat
  BY <1>6, <1>8
<1>10. \A j \in told : o[j].type = "OPEN_CONFIRMATION"
  BY <1>3, <1>4, <1>8, <1>9 DEF OutOrder
<1>11. \A j, k \in told : ~(k < j)
  BY <1>4, <1>9, <1>10 DEF OutOrder
<1>12. CASE told = {}
  <2>1. LinkInv(no, findChannelAttr(ssh, no), o, toServer, peer[no])
    BY <1>1, <1>3, <1>7, AliveNumber
  <2>2. Has(o, "CLOSE", no) \/ Has(o, "DATA", no)
    BY <1>3, <1>4 DEF Has
  <2>3. ~Has(o, "OPEN_CONFIRMATION", no)
    <3>1. SUFFICES ASSUME NEW j \in DOMAIN o, o[j].type = "OPEN_CONFIRMATION", o[j].no = no PROVE FALSE
      BY DEF Has
    <3>2. j # i
      BY <1>4, <3>1
    <3>3. CASE i < j
      BY <1>3, <1>4, <3>1, <3>3 DEF OutOrder
    <3>4. CASE j < i
      <4>1. j \in 1..i - 1
        BY <1>6, <3>1, <3>4
      <4> QED BY <1>8, <1>12, <3>1, <4>1
    <3> QED BY <1>6, <3>1, <3>2, <3>3, <3>4
  <2>4. peer[no].state = "open" /\ ~peer[no].gotClose
    BY <2>1, <2>2, <2>3 DEF LinkInv
  <2>5. OpenBefore(i, no)
    BY <1>3, <1>8, <1>12, <2>4 DEF OpenBefore
  <2> QED BY <1>3, <2>5
<1>13. CASE told # {}
  <2>1. PICK j \in told : o[j].type = "OPEN_CONFIRMATION"
    BY <1>10, <1>13
  <2>2. \A k \in told : k <= j
    BY <1>9, <1>11, <2>1
  <2>3. OpenBefore(i, no)
    BY <1>3, <1>8, <1>13, <2>1, <2>2 DEF OpenBefore
  <2> QED BY <1>3, <2>3
<1> QED BY <1>12, <1>13

(* What is in flight reconciles the views of the two sides: the channels   *)
(* that are open, those that are closed, and the replies that are due.     *)
THEOREM ViewsAreReconciled == Spec => []ViewsAgree
<1>1. IInv => RepliesOwed
  BY DEF IInv, Running, LinkOK, Alive, Owed, RepliesOwed
<1>2. IInv => ViewsAgree
  BY <1>1, SidesAgreeHolds, NothingAfterCloseHolds DEF ViewsAgree
<1> QED BY <1>2, ChannelInvariant, PTL
-----------------------------------------------------------------------------
(* Why a session ends. *)

\* What SessionEndsForCause says of a step that ends the session.
Cause ==
  \/ why' = "COMPLETE" /\ ~isChannelActive(ssh', UnusedID)
  \/ why' \in {"READ", "WRITE"} /\ ~ssh.link
  \/ why' = "OVERFLOW" /\ Len(ssh.chans) = MaxChannels + 1
  \/ why' = "BADDATA" /\ peer[Head(toServer).no].sentEof
  \/ /\ why' = "INTERNAL"
     /\ Head(toServer).type = "REQUEST"
     /\ getCurrentChannelNo(ssh, "read") = NoChannel

(* The session ended on what was popped.                                   *)
LEMMA PoppedForCause ==
  ASSUME IInv, Running, NEW popped, popped = Pop, NEW next, PopsNothing(popped, next), why' # why
  PROVE  Cause
<1>1. ServerOK(ssh) /\ LinkOK(ssh, toServer, peer)
  BY DEF Running
<1>2. popped.st \notin {Ok, OkSpecial, EnvelopeResource} /\ End(popped.s, popped.st)
  BY DEF PopsNothing, Reads
<1>3. PICK t, st, p : t = popped.s /\ st = popped.st /\ p = Head(toServer)
  OBVIOUS
<1>4. why' = st /\ ssh' = ShutDown(t)
  BY <1>2, <1>3 DEF End
<1>5. \/ st = "READ" /\ ~ssh.link
      \/ Finishes(ssh, p, peer, t, st)
  BY <1>1, <1>2, <1>3, PopsOK
<1>6. CASE st = "READ" /\ ~ssh.link
  BY <1>4, <1>6 DEF Cause
<1>7. CASE Finishes(ssh, p, peer, t, st)
  <2>1. CASE st = "COMPLETE" /\ Entries(t) = {}
    <3>1. Valid(t)
      BY <1>7 DEF Finishes
    <3>2. ToSet(ShutDown(t).chans) = {}
      BY <2>1, <3>1, ShutDownSound
    <3>3. ~isChannelActive(ssh', UnusedID)
      BY <1>4, <3>2 DEF isChannelActive, Entries
    <3> QED BY <1>4, <2>1, <3>3 DEF Cause
  <2>2. CASE st = "WRITE" /\ ~ssh.link
    BY <1>4, <2>2 DEF Cause
  <2>3. CASE st = "OVERFLOW" /\ Len(ssh.chans) = MaxChannels + 1
    BY <1>4, <2>3 DEF Cause
  <2>4. CASE st = "BADDATA" /\ peer[p.no].sentEof
    BY <1>3, <1>4, <2>4 DEF Cause
  <2>5. CASE st = "INTERNAL" /\ p.type = "REQUEST" /\ getCurrentChannelNo(ssh, "read") = NoChannel
    BY <1>3, <1>4, <2>5 DEF Cause
  <2> QED BY <1>7, <2>1, <2>2, <2>3, <2>4, <2>5 DEF Finishes
<1> QED BY <1>5, <1>6, <1>7

(* A step that ends the session has one of the causes.                     *)
LEMMA EndsForCause ==
  ASSUME IInv, Next, why' # why
  PROVE  Cause
<1>1. CASE ShellSend
  <2>1. phase = "shell send"
    BY <1>1, Zenon DEF ShellSend
  <2>2. ServerOK(ssh) /\ LinkOK(ssh, toServer, peer) /\ AtShell(ssh, forwards, channel)
    BY <2>1, Zenon DEF IInv, Running, LoopOK
  <2>3. PICK output \in BOOLEAN : End(PushChunk(ssh, channel, output).s, PushChunk(ssh, channel, output).st)
                                  /\ PushChunk(ssh, channel, output).st # Ok
    BY <1>1, Zenon DEF ShellSend
  <2>4. PICK c \in Entries(ssh) : c.id = channel /\ ~c.writeClosed
    BY <2>2 DEF AtShell, ShellOpen, ServerOK
  <2>5. PICK r : r = PushChunk(ssh, c.id, output)
    OBVIOUS
  <2>6. r.st = IF output /\ ~ssh.link THEN "WRITE" ELSE Ok
    BY <2>2, <2>4, <2>5, PushOK
  <2>7. r.st # Ok /\ why' = r.st
    BY <2>3, <2>4, <2>5 DEF End
  <2> QED BY <2>6, <2>7 DEF Cause
<1>2. CASE ShellReceive
  <2>1. phase = "shell receive"
    BY <1>2, Zenon DEF ShellReceive
  <2>2. Running
    BY <2>1, Zenon DEF IInv
  <2>3. PICK popped : popped = Pop /\ PopsNothing(popped, "shell receive")
    BY <1>2, Zenon DEF ShellReceive, ShellPopped
  <2> QED BY <2>2, <2>3, PoppedForCause, Zenon
<1>3. CASE CreatePortForwardChannel
  <2>1. phase = "resource"
    BY <1>3 DEF CreatePortForwardChannel
  <2>2. ServerOK(ssh) /\ AtResource(ssh, forwards)
    BY <2>1 DEF IInv, Running, LoopOK
  <2>3. GetPortForwardRequest(ssh)
    BY <2>2, AskedForForwarding
  <2> QED BY <1>3, <2>3 DEF CreatePortForwardChannel
<1>4. CASE TransferChannelData
  BY <1>4 DEF TransferChannelData
<1>5. CASE ForwardReceive
  <2>1. phase = "transfer"
    BY <1>5 DEF ForwardReceive
  <2>2. Running
    BY <2>1 DEF IInv
  <2>3. PICK popped : popped = Pop /\ PopsNothing(popped, "transfer")
    BY <1>5 DEF ForwardReceive, ForwardPopped
  <2> QED BY <2>2, <2>3, PoppedForCause
<1>6. CASE Client \/ LinkFails
  BY <1>6 DEF Client, PeerOpen, PeerData, PeerRequest, PeerAdjust, PeerEof, PeerClose, PeerSend, PeerReceive,
              LinkFails
<1> QED BY <1>1, <1>2, <1>3, <1>4, <1>5, <1>6 DEF Next, SocketCommunicationLoop, PortForwardLoop

(* What ends the session of a peer that keeps to the protocol: the last    *)
(* channel was closed, the link failed, one channel too many was asked     *)
(* for, a request came while no channel was current for reading, or        *)
(* something followed the EOF of a channel, which was closed by it.        *)
THEOREM SessionsEndForCause == Spec => SessionEndsForCause
<1>1. IInv /\ [Next]_vars =>
        [why' # why =>
           \/ why' = "COMPLETE" /\ ~isChannelActive(ssh', UnusedID)
           \/ why' \in {"READ", "WRITE"} /\ ~ssh.link
           \/ why' = "OVERFLOW" /\ Len(ssh.chans) = MaxChannels + 1
           \/ why' = "BADDATA" /\ peer[Head(toServer).no].sentEof
           \/ /\ why' = "INTERNAL"
              /\ Head(toServer).type = "REQUEST"
              /\ getCurrentChannelNo(ssh, "read") = NoChannel]_vars
  BY EndsForCause DEF Cause
<1> QED BY <1>1, ChannelInvariant, PTL DEF Spec, SessionEndsForCause
=============================================================================
