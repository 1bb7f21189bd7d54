------------------------------ MODULE MCCorpus ------------------------------
(* Instances of Corpus for TLC.                                            *)
EXTENDS Corpus, TLC

(* A clean text of two chunks, and a shorter one that is an attack: a tool *)
(* that delivers it is quarantined, a file that holds it is stored.          *)
Sizes  == <<2, 1>>
Attack == {<<2, 1>>}

WorkerSymmetry == Permutations(Workers)
=============================================================================
