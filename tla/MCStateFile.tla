---------------------------- MODULE MCStateFile ----------------------------
(* Instances of StateFile for TLC: the get_state requests are alike.       *)
EXTENDS StateFile, TLC

ReaderSymmetry == Permutations(Readers)
=============================================================================
