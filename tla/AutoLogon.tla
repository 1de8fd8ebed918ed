------------------------------ MODULE AutoLogon ------------------------------
(***************************************************************************)
(* Who is logged on by address (KAutoLogon.hxx, KSlre.hxx): the rules of   *)
(* auto_logon.ini are regular expressions, compiled to a byte code and run *)
(* by slre.c, and the first that matches the whole address of a client     *)
(* gives its user's credentials away.                                      *)
(*                                                                         *)
(* Rules are written as trees, of which RuleText makes the text that is    *)
(* compiled and Means says what it stands for; they are well formed.       *)
(***************************************************************************)
EXTENDS Naturals, Sequences, FiniteSets, SequencesExt

CONSTANTS
  RuleFiles,  \* bound: what auto_logon.ini may hold: sequences of rules, as trees
  Addresses   \* bound: the addresses clients come from: sequences of characters

VARIABLES
  rules,    \* KAutoLogon::patterns, the address of each
  caller    \* the client: its address, the rule that logged it on, or 0

autoVars == <<rules, caller>>

Digits == {"1", "2", "3"}

-----------------------------------------------------------------------------
(* Rules: what they look like and what they mean *)

Atom(kind, char) == [kind |-> kind, char |-> char]
Loop(op, body) == [kind |-> "loop", op |-> op, body |-> body]
Both(a, b) == [kind |-> "both", a |-> a, b |-> b]
Either(a, b) == [kind |-> "either", a |-> a, b |-> b]
Line(body) == [kind |-> "line", body |-> body]

IsAtom(t) == t.kind \in {"char", "any", "digit", "set", "not"}

AtomText(t) ==
  CASE t.kind = "char"  -> IF t.char = "." THEN <<"\\", ".">> ELSE <<t.char>>
    [] t.kind = "any"   -> <<".">>
    [] t.kind = "digit" -> <<"\\", "d">>
    [] t.kind = "set"   -> <<"[", t.char, "]">>
    [] t.kind = "not"   -> <<"[", "^", t.char, "]">>

RECURSIVE RuleText(_)
Bracketed(t) == <<"(">> \o RuleText(t) \o <<")">>
RuleText(t) ==
  CASE IsAtom(t)         -> AtomText(t)
    [] t.kind = "loop"   -> (IF IsAtom(t.body) THEN RuleText(t.body) ELSE Bracketed(t.body)) \o t.op
    [] t.kind = "line"   -> <<"^">> \o RuleText(t.body) \o <<"$">>
    [] t.kind = "either" -> RuleText(t.a) \o <<"|">> \o RuleText(t.b)
    [] t.kind = "both"   -> (IF t.a.kind = "either" THEN Bracketed(t.a) ELSE RuleText(t.a))
                              \o (IF t.b.kind = "either" THEN Bracketed(t.b) ELSE RuleText(t.b))

AtomMeans(t, ch) == CASE t.kind \in {"char", "set"} -> ch = t.char
                      [] t.kind = "any"   -> TRUE
                      [] t.kind = "digit" -> ch \in Digits
                      [] t.kind = "not"   -> ch # t.char

WordTo(w, k) == SubSeq(w, 1, k)
WordFrom(w, k) == SubSeq(w, k + 1, Len(w))

\* slre.h: which words a rule matches.
RECURSIVE Means(_, _)
Means(t, w) ==
  CASE IsAtom(t)         -> Len(w) = 1 /\ AtomMeans(t, w[1])
    [] t.kind = "line"   -> Means(t.body, w)
    [] t.kind = "either" -> Means(t.a, w) \/ Means(t.b, w)
    [] t.kind = "both"   -> \E k \in 0..Len(w) : Means(t.a, WordTo(w, k)) /\ Means(t.b, WordFrom(w, k))
    [] t.op = <<"?">>    -> w = <<>> \/ Means(t.body, w)
    [] OTHER             ->
         \/ t.op[1] = "*" /\ w = <<>>
         \/ Means(t.body, w)
         \/ \E k \in 1..(Len(w) - 1) : Means(t.body, WordTo(w, k)) /\ Means(t, WordFrom(w, k))

\* The empty word is one of them.
Nullable(t) == Means(t, <<>>)

-----------------------------------------------------------------------------
(* slre_compile.  The limits of 255 bytes are beyond the rules here.  The  *)
(* state of compile: the code, the data and brackets so far, the place in  *)
(* the text, where the last operand and this alternative begin, the jump   *)
(* to fix up at its end.                                                   *)

MetaChars == {"|", ".", "^", "$", "*", "+", "?", "(", ")", "[", "\\"}

Char(re, i) == IF i <= Len(re) THEN re[i] ELSE "end"
Size(c) == Len(c.code)
Emit(c, codes) == [c EXCEPT !.code = @ \o codes]

\* code[i] and its change; the code begins at 0.
Code(c, i) == c.code[i + 1]
SetCode(c, i, byte) == [c EXCEPT !.code[i + 1] = byte]
SetJumpOffset(c, pc, offset) == SetCode(c, pc, Size(c) - offset)

Store(c, chars) == [c EXCEPT !.data = @ \o chars]
EmitData(c, op, chars) == Store(Emit(c, <<op, Len(c.data), Len(chars)>>), chars)

\* Code from begin on moves and gets an END; the caller writes into the gap.
Relocate(c, begin, shift) ==
  [c EXCEPT !.code = SubSeq(@, 1, begin) \o [i \in 1..shift |-> "gap"]
                       \o Append(WordFrom(@, begin), "END")]

\* What is repeated is the operand before; of a text, its last character.
Quantifier(c, op) ==
  LET many == Code(c, c.last) = "EXACT" /\ Code(c, c.last + 2) > 1
      less == SetCode(c, c.last + 2, Code(c, c.last + 2) - 1)
      split == IF many THEN Emit(less, <<"EXACT", Code(less, c.last + 1) + Code(less, c.last + 2), 1>>)
               ELSE c
      prev == IF many THEN Size(split) - 3 ELSE c.last
      moved == SetCode(Relocate(split, prev, 2), prev, op)
  IN  SetJumpOffset(moved, prev + 1, prev)

FixupBranch(c) ==
  IF c.fixup = 0 THEN c ELSE SetJumpOffset(Emit(c, <<"END">>), c.fixup, c.fixup - 2)

Branch(c) ==
  LET moved == SetCode(Relocate(FixupBranch(c), c.start, 3), c.start, "BRANCH")
  IN  [SetJumpOffset(moved, c.start + 1, c.start) EXCEPT !.fixup = c.start + 2]

\* A text up to the next meta character.
Exact(re, c) ==
  LET ends == {j \in c.at..(Len(re) + 1) : Char(re, j) \in MetaChars \cup {"end"}}
      end == CHOOSE j \in ends : \A k \in ends : j <= k
  IN  [EmitData(c, "EXACT", SubSeq(re, c.at, end - 1)) EXCEPT !.at = end]

AnyOf(re, c) ==
  LET but == Char(re, c.at) = "^"
      from == IF but THEN c.at + 1 ELSE c.at
      end == CHOOSE j \in from..Len(re) : re[j] = "]" /\ \A k \in from..(j - 1) : re[k] # "]"
  IN  [EmitData(c, IF but THEN "ANYBUT" ELSE "ANYOF", SubSeq(re, from, end - 1)) EXCEPT !.at = end + 1]

Escape(re, c) ==
  LET char == Char(re, c.at)
      on == [c EXCEPT !.at = @ + 1]
  IN  IF char = "d" THEN Emit(on, <<"DIGIT">>) ELSE EmitData(on, "EXACT", <<char>>)

LoopOp(char, lazy) == CASE char = "*" -> IF lazy THEN "STARQ" ELSE "STAR"
                        [] char = "+" -> IF lazy THEN "PLUSQ" ELSE "PLUS"
                        [] char = "?" -> "QUEST"

\* compile: to the end of the text, or to the bracket that closes.
RECURSIVE Compile(_, _)
Compile(re, c) ==
  LET char == Char(re, c.at)
      next == [c EXCEPT !.at = @ + 1]
      operand == [next EXCEPT !.last = Size(c)]
      lazy == char \in {"*", "+"} /\ Char(re, c.at + 1) = "?"
  IN  CASE char = "end"  -> c
        [] char = ")"    -> FixupBranch(c)
        [] char = "^"    -> Compile(re, Emit(next, <<"BOL">>))
        [] char = "$"    -> Compile(re, Emit(next, <<"EOL">>))
        [] char = "."    -> Compile(re, Emit(operand, <<"ANY">>))
        [] char = "["    -> Compile(re, AnyOf(re, operand))
        [] char = "\\"   -> Compile(re, Escape(re, operand))
        [] char = "|"    -> Compile(re, Branch(next))
        [] char \in {"*", "+", "?"} ->
             Compile(re, Quantifier(IF lazy THEN [next EXCEPT !.at = @ + 1] ELSE next, LoopOp(char, lazy)))
        [] char = "("    ->
             LET open == Emit(operand, <<"OPEN", c.caps + 1>>)
                 inner == Compile(re, [open EXCEPT !.caps = @ + 1, !.last = Size(open),
                                                   !.start = Size(open), !.fixup = 0])
             IN  Compile(re, [Emit(inner, <<"CLOSE", c.caps + 1>>)
                                EXCEPT !.at = @ + 1, !.last = Size(c), !.start = c.start,
                                       !.fixup = c.fixup])
        [] OTHER         -> Compile(re, Exact(re, [c EXCEPT !.last = Size(c)]))

SlreCompile(re) ==
  LET c == Compile(re, [code |-> <<"OPEN", 0>>, data |-> <<>>, caps |-> 0, at |-> 1, last |-> 2,
                        start |-> 2, fixup |-> 0])
      fixed == IF Code(c, 2) = "BRANCH" THEN FixupBranch([c EXCEPT !.fixup = 4]) ELSE c
  IN  [code |-> Emit(fixed, <<"CLOSE", 0, "END">>).code, data |-> c.data]

-----------------------------------------------------------------------------
(* slre_match: the outcome of a match is "yes", "no", or "hangs", and the  *)
(* place it came to.                                                       *)

Yes(ofs) == [res |-> "yes", ofs |-> ofs]
No(ofs) == [res |-> "no", ofs |-> ofs]
Hangs == [res |-> "hangs", ofs |-> 0]

Data(r, pc) == SubSeq(r.data, Code(r, pc + 1) + 1, Code(r, pc + 1) + Code(r, pc + 2))

OneChar(r, pc, ch) ==
  CASE Code(r, pc) = "ANY"    -> TRUE
    [] Code(r, pc) = "DIGIT"  -> ch \in Digits
    [] Code(r, pc) = "ANYOF"  -> \E i \in DOMAIN Data(r, pc) : Data(r, pc)[i] = ch
    [] Code(r, pc) = "ANYBUT" -> \A i \in DOMAIN Data(r, pc) : Data(r, pc)[i] # ch

RECURSIVE Match(_, _, _, _), LoopGreedy(_, _, _, _, _), LoopNonGreedy(_, _, _, _, _)

\* Mutant: the place is not set back to the end of the latest repetition.
LoopGreedyOn(r, pc, s, ofs, matched) ==
  LET body == Match(r, pc + 2, s, ofs)
      rest == Match(r, pc + Code(r, pc + 1), s, body.ofs)
  IN  CASE body.res # "yes" -> IF body.res = "no" THEN Yes(matched) ELSE Hangs
        [] body.ofs = ofs \/ rest.res = "hangs" -> Hangs
        [] OTHER -> LoopGreedy(r, pc, s, rest.ofs, IF rest.res = "yes" THEN body.ofs ELSE matched)
\* Repeats while it can, and goes back to the last place from which the rest
\* matches; a repetition of nothing goes on for ever.
LoopGreedy(r, pc, s, ofs, matched) ==
  LET body == Match(r, pc + 2, s, ofs)
      rest == Match(r, pc + Code(r, pc + 1), s, body.ofs)
  IN  CASE body.res # "yes" -> IF body.res = "no" THEN Yes(matched) ELSE Hangs
        [] body.ofs = ofs \/ rest.res = "hangs" -> Hangs
        [] OTHER -> LoopGreedy(r, pc, s, body.ofs, IF rest.res = "yes" THEN body.ofs ELSE matched)

\* Stops as soon as the rest matches.  Where it does not, the next repetition
\* begins where the rest gave up.
LoopNonGreedy(r, pc, s, ofs, saved) ==
  LET body == Match(r, pc + 2, s, ofs)
      rest == Match(r, pc + Code(r, pc + 1), s, body.ofs)
  IN  CASE body.res # "yes" -> IF body.res = "no" THEN Yes(saved) ELSE Hangs
        [] rest.res = "no"  -> IF rest.ofs = ofs THEN Hangs ELSE LoopNonGreedy(r, pc, s, rest.ofs, body.ofs)
        [] OTHER            -> IF rest.res = "yes" THEN Yes(body.ofs) ELSE Hangs

\* After an operand, if it matched.
Then(r, pc, s, m) == IF m.res = "yes" THEN Match(r, pc, s, m.ofs) ELSE m

Match(r, pc, s, ofs) ==
  LET op == Code(r, pc)
      jump == Code(r, pc + 1)
  IN  CASE op = "END" -> Yes(ofs)
        [] op \in {"OPEN", "CLOSE"} -> Match(r, pc + 2, s, ofs)
        [] op = "BOL" -> IF ofs = 0 THEN Match(r, pc + 1, s, ofs) ELSE No(ofs)
        [] op = "EOL" -> IF ofs = Len(s) THEN Match(r, pc + 1, s, ofs) ELSE No(ofs)
        [] op = "EXACT" ->
             LET text == Data(r, pc)
             IN  IF ofs + Len(text) <= Len(s) /\ SubSeq(s, ofs + 1, ofs + Len(text)) = text
                 THEN Match(r, pc + 3, s, ofs + Len(text)) ELSE No(ofs)
        [] op \in {"ANY", "DIGIT", "ANYOF", "ANYBUT"} ->
             IF ofs < Len(s) /\ OneChar(r, pc, s[ofs + 1])
             THEN Match(r, pc + (IF op \in {"ANY", "DIGIT"} THEN 1 ELSE 3), s, ofs + 1) ELSE No(ofs)
        [] op = "BRANCH" ->
             LET left == Match(r, pc + 3, s, ofs)
                 side == IF left.res = "no" THEN Match(r, pc + jump, s, ofs) ELSE left
             IN  Then(r, pc + Code(r, pc + 2), s, side)
        [] op = "QUEST" ->
             LET once == Match(r, pc + 2, s, ofs)
             IN  Then(r, pc + jump, s, IF once.res = "no" THEN Yes(ofs) ELSE once)
        [] op = "STAR"  -> Then(r, pc + jump, s, LoopGreedy(r, pc, s, ofs, ofs))
        [] op = "STARQ" -> Then(r, pc + jump, s, LoopNonGreedy(r, pc, s, ofs, ofs))
        [] op \in {"PLUS", "PLUSQ"} ->
             LET once == Match(r, pc + 2, s, ofs)
                 more == IF op = "PLUS" THEN LoopGreedy(r, pc, s, once.ofs, once.ofs)
                         ELSE LoopNonGreedy(r, pc, s, once.ofs, once.ofs)
             IN  IF once.res = "yes" THEN Then(r, pc + jump, s, more) ELSE once

\* KSlre::Match: the first place from which the rule matches, which must be
\* the first, and to the end.
WholeMatch(re, s) ==
  LET r == SlreCompile(re)
      first == Match(r, 0, s, 0)
  IN  first.res = "yes" /\ first.ofs = Len(s)

\* The search itself ends: at every place until one matches.
Ends(re, s) ==
  LET r == SlreCompile(re)
  IN  \A i \in 0..(IF Head(re) = "^" THEN 0 ELSE Len(s) - 1) :
        \/ Match(r, 0, s, i).res # "hangs"
        \/ \E j \in 0..(i - 1) : Match(r, 0, s, j).res = "yes"

-----------------------------------------------------------------------------
(* KAutoLogon *)

AutoInit == rules = <<>> /\ caller = [address |-> <<>>, row |-> 0]

Load(file) ==
  /\ rules = <<>>
  /\ rules' = file
  /\ UNCHANGED caller

\* The first rule that matches the whole address.
GetAutoCredentials(address) ==
  LET rows == {i \in DOMAIN rules : WholeMatch(RuleText(rules[i]), address)}
  IN  IF rows = {} THEN 0 ELSE CHOOSE i \in rows : \A j \in rows : i <= j

ClientCalls(address) ==
  /\ caller' = [address |-> address, row |-> GetAutoCredentials(address)]
  /\ UNCHANGED rules

AutoNext ==
  /\ caller.address = <<>>
  /\ \/ \E file \in RuleFiles : Load(file)
     \/ \E address \in Addresses : ClientCalls(address)

AutoSpec == AutoInit /\ [][AutoNext]_autoVars

-----------------------------------------------------------------------------
(* Properties *)

RECURSIVE IsPlain(_), MayHang(_), IsLazy(_)
\* As the examples of auto_logon.ini: characters and repetitions of one.
IsPlain(t) == CASE IsAtom(t)       -> TRUE
                [] t.kind = "both" -> IsPlain(t.a) /\ IsPlain(t.b)
                [] t.kind = "line" -> IsPlain(t.body)
                [] t.kind = "loop" -> IsAtom(t.body) /\ t.op \in {<<"*">>, <<"+">>}
                [] OTHER           -> FALSE
MayHang(t) == CASE IsAtom(t)       -> FALSE
                [] t.kind = "line" -> MayHang(t.body)
                [] t.kind = "loop" -> MayHang(t.body) \/ (t.op # <<"?">> /\ Nullable(t.body))
                [] OTHER           -> MayHang(t.a) \/ MayHang(t.b)
IsLazy(t) == CASE IsAtom(t)        -> FALSE
               [] t.kind = "line"  -> IsLazy(t.body)
               [] t.kind = "loop"  -> Len(t.op) = 2 \/ IsLazy(t.body)
               [] OTHER            -> IsLazy(t.a) \/ IsLazy(t.b)

\* A client is logged on by a rule only from an address the rule stands for;
\* repetitions that stop early are left out, see LazyRulesMapped.
GrantsMapped ==
  caller.row # 0 /\ ~IsLazy(rules[caller.row]) => Means(rules[caller.row], caller.address)

\* Of rules like those in the comments of auto_logon.ini, the first that stands
\* for the address logs the client on, and without one nobody does.
PlainRulesExact ==
  (\A i \in DOMAIN rules : IsPlain(rules[i])) /\ caller.address # <<>> =>
    LET rows == {i \in DOMAIN rules : Means(rules[i], caller.address)}
    IN  caller.row = IF rows = {} THEN 0 ELSE CHOOSE i \in rows : \A j \in rows : i <= j

\* The matching ends, unless a rule repeats what may be nothing.
MatcherEnds ==
  \A i \in DOMAIN rules :
    caller.address # <<>> /\ ~MayHang(rules[i]) => Ends(RuleText(rules[i]), caller.address)

\* The compiled rules do what the syntax says: no client is logged on from an
\* address no rule stands for, the first that does decides, and matching ends.
RulesExact == GrantsMapped /\ PlainRulesExact /\ MatcherEnds

\* slre.h: *? and +? match zero or one, or more times, as * and + do.
LazyRulesMapped == caller.row # 0 => Means(rules[caller.row], caller.address)
=============================================================================
