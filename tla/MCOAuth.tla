------------------------------ MODULE MCOAuth ------------------------------
(* Instances of OAuth for TLC.                                             *)
EXTENDS OAuth, TLC

LinkSymmetry == Permutations(Threads) \cup Permutations(Spaces) \cup Permutations(Flows)
=============================================================================
