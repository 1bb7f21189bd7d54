------------------------------- MODULE MCWire -------------------------------
(* An instance of Wire for TLC.                                            *)
EXTENDS Wire
=============================================================================
