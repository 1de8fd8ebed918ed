---------------------------- MODULE MCAutoLogon ----------------------------
(* Rules for AutoLogon that repeat as little as they can. *)
EXTENDS AutoLogon

Digit == Atom("digit", "")
MCLazyFiles == {<<Both(Loop(<<"*", "?">>, Atom("char", "1")), Both(Atom("char", "2"), Atom("char", ".")))>>,
                <<Both(Loop(<<"+", "?">>, Digit), Both(Atom("char", "."), Atom("char", "1")))>>}
MCLazyAddresses == UNION {[1..n -> {"1", "2", "."}] : n \in 1..5}
=============================================================================
