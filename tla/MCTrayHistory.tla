--------------------------- MODULE MCTrayHistory ---------------------------
(* Instances of TrayHistory for TLC.                                       *)
EXTENDS TrayHistory, TLC

(* create_discount, whatever its manifest says: gated by its verb.         *)
OneGatedTool == {[shapes |-> {"write"}, declared |-> "read"]}

RaceSymmetry == Permutations(Rows) \cup Permutations(Deciders)
=============================================================================
