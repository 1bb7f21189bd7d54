---------------------------- MODULE MCKbMigrate ----------------------------
(* Instances of KbMigrate for TLC.                                         *)
EXTENDS KbMigrate, TLC

UserSymmetry == Permutations(Users)
=============================================================================
