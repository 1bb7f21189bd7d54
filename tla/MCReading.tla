------------------------------ MODULE MCReading ------------------------------
(* Instances of Reading for TLC.                                           *)
EXTENDS Reading

P(sim, fresh, words, title, tagged, risky, riskyPath, gate, copies) ==
  [sim |-> sim, fresh |-> fresh, words |-> words, title |-> title, tagged |-> tagged,
   risky |-> risky, riskyPath |-> riskyPath, gate |-> gate, copies |-> copies]

(* 1 was migrated with a pattern and without a tag, twice; 2, which has a  *)
(* pattern in its path, becomes an attack that has the question's words; 3 *)
(* is what the question is about.                                          *)
Attack ==
  [x \in {<<1, 0, 1>>, <<1, 1, 1>>, <<2, 1, 1>>, <<2, 2, 1>>, <<2, 2, 2>>,
          <<3, 1, 1>>, <<3, 2, 1>>} |->
    CASE x = <<1, 0, 1>> -> P(60, 0, 1, 0, FALSE, TRUE, FALSE, TRUE, 2)
      [] x = <<1, 1, 1>> -> P(60, 50, 1, 0, TRUE, TRUE, FALSE, TRUE, 1)
      [] x = <<2, 1, 1>> -> P(50, 90, 1, 1, FALSE, FALSE, TRUE, TRUE, 1)
      [] x = <<2, 2, 1>> -> P(95, 90, 3, 2, TRUE, TRUE, TRUE, TRUE, 1)
      [] x = <<2, 2, 2>> -> P(90, 90, 3, 2, TRUE, TRUE, TRUE, FALSE, 1)
      [] x = <<3, 1, 1>> -> P(40, 10, 3, 1, FALSE, FALSE, FALSE, FALSE, 1)
      [] x = <<3, 2, 1>> -> P(30, 80, 2, 1, FALSE, FALSE, FALSE, FALSE, 1)]

(* 1 is a LOCKS.md of two passages that shrinks; 2 has another with tags.  *)
Memo ==
  [x \in {<<1, 1, 1>>, <<1, 1, 2>>, <<1, 2, 1>>, <<2, 1, 1>>, <<2, 1, 2>>, <<2, 2, 1>>} |->
    CASE x = <<1, 1, 1>> -> P(70, 20, 2, 0, FALSE, FALSE, FALSE, TRUE, 1)
      [] x = <<1, 1, 2>> -> P(20, 20, 0, 0, FALSE, FALSE, FALSE, FALSE, 1)
      [] x = <<1, 2, 1>> -> P(65, 90, 3, 0, FALSE, FALSE, FALSE, FALSE, 1)
      [] x = <<2, 1, 1>> -> P(80, 40, 2, 2, FALSE, FALSE, FALSE, FALSE, 1)
      [] x = <<2, 1, 2>> -> P(85, 40, 2, 2, TRUE, TRUE, FALSE, TRUE, 1)
      [] x = <<2, 2, 1>> -> P(10, 99, 1, 2, FALSE, FALSE, FALSE, FALSE, 1)]

MCWorlds ==
  {[texts |-> Attack, locks |-> [canonical |-> {}, named |-> {1, 2}],
    store |-> PointsOf(Attack, 1, 0) \cup PointsOf(Attack, 2, 1) \cup PointsOf(Attack, 3, 1)],
   [texts |-> Memo, locks |-> [canonical |-> {1}, named |-> {1, 2}],
    store |-> PointsOf(Memo, 1, 1) \cup PointsOf(Memo, 2, 1)]}
=============================================================================
