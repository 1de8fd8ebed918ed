--------------------------- MODULE MCAgentHandler ---------------------------
(* Model checking of AgentHandler: the requests are model values, the long *)
(* running ones are interchangeable.                                       *)
EXTENDS AgentHandler, TLC

LongSymmetry == Permutations(LongRunning \ Endless)
=============================================================================
