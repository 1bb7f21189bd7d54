------------------------------ MODULE MCGraph ------------------------------
(* Two labels that a typo apart are near each other, and one that is not;   *)
(* texts in which a pass calls one thing by two names or types.             *)
EXTENDS Graph

CONSTANTS d1, d2

MCNear == {<<"foundry", "foundrys">>, <<"foundrys", "foundry">>}
MCKeys == {"foundry", "foundrys", "acme", "march"}

Named == <<[key |-> "foundry", type |-> "product", conf |-> 95],
           [key |-> "march", type |-> "date", conf |-> 90],
           [key |-> "acme", type |-> "org", conf |-> 70]>>
Misspelt == <<[key |-> "foundrys", type |-> "org", conf |-> 80],
              [key |-> "foundry", type |-> "org", conf |-> 70],
              [key |-> "acme", type |-> "org", conf |-> 70]>>
MCTexts == {Named, Misspelt}

Fact == [subject |-> [key |-> "acme", type |-> "org", conf |-> 80],
         predicate |-> "OWNS",
         object |-> [key |-> "foundrys", type |-> "decision", conf |-> 80]]
MCTriples == {Fact}

MCDocs == {d1, d2}
=============================================================================
