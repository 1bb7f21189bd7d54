--------------------------- MODULE FoundryProofs ----------------------------
(***************************************************************************)
(* What holds of the foundry for any number of onboardings, questions,     *)
(* syncs and faults, whatever answers somebody sends.                      *)
(***************************************************************************)
EXTENDS Foundry, SequenceTheorems, WellFoundedInduction, TLAPS

-----------------------------------------------------------------------------
(* Numbers: induction as a fact about sets, which needs no operator for a  *)
(* parameter, and the greatest element of a bounded set.                   *)
LEMMA LeastNumber ==
  ASSUME NEW S \in SUBSET Nat, S # {}
  PROVE  \E m \in S : \A k \in S : m <= k
<1> DEFINE Less == {pair \in Nat \X Nat : pair[1] < pair[2]}
<1>1. IsWellFoundedOn(Less, Nat)
  BY NatLessThanWellFounded DEF OpToRel
<1> HIDE DEF Less
<1>2. PICK m \in S : \A k \in S : ~(<<k, m>> \in Less)
  BY <1>1, WFMin
<1>3. ASSUME NEW k \in S, k < m PROVE FALSE
  <2>1. <<k, m>> \in Less
    BY <1>3 DEF Less
  <2> QED
    BY <1>2, <2>1
<1> QED
  BY <1>3

LEMMA SetInduction ==
  ASSUME NEW S \in SUBSET Nat, 0 \in S, \A n \in S : n + 1 \in S
  PROVE  S = Nat
<1> SUFFICES ASSUME Nat \ S # {} PROVE FALSE
  OBVIOUS
<1>1. PICK m \in Nat \ S : \A k \in Nat \ S : m <= k
  <2>1. Nat \ S \in SUBSET Nat
    OBVIOUS
  <2> QED
    BY <2>1, LeastNumber
<1>2. m # 0 /\ m - 1 \in Nat /\ ~(m <= m - 1)
  BY <1>1
<1>3. m - 1 \in S
  BY <1>1, <1>2
<1>4. (m - 1) + 1 \in S
  BY <1>3
<1> QED
  BY <1>1, <1>4

LEMMA Greatest ==
  ASSUME NEW n \in Nat, NEW S \in SUBSET (1 .. n), S # {}
  PROVE  Max(S) \in S /\ \A j \in S : j <= Max(S)
<1> DEFINE Bounds == {m \in Nat : \A j \in S : j <= m}
<1>1. PICK m \in Bounds : \A k \in Bounds : m <= k
  <2>1. Bounds \in SUBSET Nat /\ n \in Bounds
    OBVIOUS
  <2> HIDE DEF Bounds
  <2> QED
    BY <2>1, LeastNumber
<1>2. m \in S
  <2> SUFFICES ASSUME m \notin S PROVE FALSE
    OBVIOUS
  <2>1. m \in Nat /\ \A k \in S : k \in Nat /\ k >= 1 /\ k <= m
    BY <1>1
  <2>2. m - 1 \in Nat /\ ~(m <= m - 1)
    <3>1. PICK j \in S : TRUE
      OBVIOUS
    <3>2. j \in Nat /\ j >= 1 /\ j <= m /\ m \in Nat
      BY <2>1
    <3> QED
      BY <3>2
  <2>3. \A k \in S : k <= m - 1
    BY <2>1
  <2> QED
    BY <1>1, <2>2, <2>3
<1>3. \E x \in S : \A y \in S : x >= y
  BY <1>1, <1>2
<1>4. Max(S) \in S /\ \A y \in S : Max(S) >= y
  BY <1>3 DEF Max
<1> QED
  BY <1>4

(* Sequences put together have the elements of their parts, and are no     *)
(* shorter than the first.                                                 *)
LEMMA Flattened ==
  ASSUME NEW S, NEW seqs \in Seq(Seq(S)), seqs # <<>>
  PROVE  /\ FlattenSeq(seqs) \in Seq(S)
         /\ Len(FlattenSeq(seqs)) >= Len(seqs[1])
         /\ \A k \in DOMAIN FlattenSeq(seqs) :
              \E i \in DOMAIN seqs : \E m \in DOMAIN seqs[i] :
                FlattenSeq(seqs)[k] = seqs[i][m]
<1> DEFINE n == Len(seqs)
           Flat(g, m) == /\ g \in [1 .. m -> Seq(S)]
                         /\ \A i \in 1 .. m :
                              g[i] = IF i = 1 THEN seqs[i] ELSE g[i - 1] \o seqs[i]
           Rec(f) == f = [i \in 1 .. n |-> IF i = 1 THEN seqs[i] ELSE f[i - 1] \o seqs[i]]
           flatten == CHOOSE f : Rec(f)
<1>1. n \in Nat /\ n >= 1 /\ DOMAIN seqs = 1 .. n /\ \A i \in 1 .. n : seqs[i] \in Seq(S)
  BY LenProperties, ElementOfSeq
<1> HIDE DEF n
<1>2. \E g : Flat(g, n)
  <2> DEFINE Good == {m \in Nat : m <= n => \E g : Flat(g, m)}
  <2>1. 0 \in Good
    <3>1. Flat([i \in 1 .. 0 |-> seqs[i]], 0)
      OBVIOUS
    <3> QED
      BY <3>1
  <2>2. ASSUME NEW m \in Good, m + 1 <= n PROVE \E g : Flat(g, m + 1)
    <3>1. PICK g : Flat(g, m)
      BY <1>1, <2>2
    <3> DEFINE new == IF m = 0 THEN seqs[1] ELSE g[m] \o seqs[m + 1]
               h == [i \in 1 .. m + 1 |-> IF i <= m THEN g[i] ELSE new]
    <3>2. new \in Seq(S)
      <4>1. CASE m = 0
        BY <1>1, <4>1
      <4>2. CASE m # 0
        <5>1. g[m] \in Seq(S) /\ seqs[m + 1] \in Seq(S)
          BY <1>1, <2>2, <3>1, <4>2
        <5> QED
          BY <4>2, <5>1, ConcatProperties
      <4> QED
        BY <4>1, <4>2
    <3>3. h \in [1 .. m + 1 -> Seq(S)]
      BY <3>1, <3>2
    <3>4. \A i \in 1 .. m + 1 : h[i] = IF i = 1 THEN seqs[i] ELSE h[i - 1] \o seqs[i]
      <4> TAKE i \in 1 .. m + 1
      <4>1. CASE i <= m
        <5>1. i \in 1 .. m /\ h[i] = g[i]
          BY <4>1
        <5>2. i # 1 => i - 1 \in 1 .. m + 1 /\ i - 1 <= m /\ h[i - 1] = g[i - 1]
          BY <5>1
        <5> QED
          BY <3>1, <5>1, <5>2
      <4>2. CASE i = m + 1
        <5>1. h[i] = new
          BY <4>2
        <5>2. m # 0 => i - 1 = m /\ h[m] = g[m]
          BY <4>2
        <5> QED
          BY <4>2, <5>1, <5>2
      <4> QED
        BY <4>1, <4>2
    <3> QED
      BY <3>3, <3>4
  <2>3. Good \in SUBSET Nat /\ \A m \in Good : m + 1 \in Good
    <3> HIDE DEF Flat
    <3> QED
      BY <2>2
  <2> HIDE DEF Good
  <2>4. n \in Good
    BY <1>1, <2>1, <2>3, SetInduction
  <2> HIDE DEF Flat
  <2> QED
    BY <1>1, <2>4 DEF Good
<1>3. Rec(flatten)
  <2>1. PICK g : Flat(g, n)
    BY <1>2
  <2>2. Rec(g)
    BY <2>1
  <2> QED
    BY <2>2
<1>4. FlattenSeq(seqs) = flatten[n]
  BY <1>1 DEF FlattenSeq, n
<1> HIDE DEF flatten
<1>5. \A i \in 1 .. n : flatten[i] = IF i = 1 THEN seqs[i] ELSE flatten[i - 1] \o seqs[i]
  BY <1>3
<1> DEFINE From(s) == \A k \in DOMAIN s :
                        \E i \in 1 .. n : \E m \in DOMAIN seqs[i] : s[k] = seqs[i][m]
           Whole(s) == s \in Seq(S) /\ Len(s) >= Len(seqs[1]) /\ From(s)
           Sound == {m \in Nat : m + 1 <= n => Whole(flatten[m + 1])}
<1>6. Sound \in SUBSET Nat
  OBVIOUS
<1>7. 0 \in Sound
  <2>1. flatten[1] = seqs[1]
    BY <1>1, <1>5
  <2>2. Len(seqs[1]) \in Nat
    BY <1>1, LenProperties
  <2> QED
    BY <1>1, <2>1, <2>2
<1>8. ASSUME NEW m \in Sound, m + 2 <= n PROVE Whole(flatten[m + 2])
  <2> DEFINE s == flatten[m + 1]
             t == seqs[m + 2]
  <2>1. s \in Seq(S) /\ Len(s) >= Len(seqs[1]) /\ From(s)
    BY <1>1, <1>8
  <2>2. m \in Nat /\ m + 2 \in 1 .. n /\ m + 2 # 1 /\ (m + 2) - 1 = m + 1
    BY <1>1, <1>8
  <2>3. t \in Seq(S) /\ flatten[m + 2] = s \o t
    BY <1>1, <1>5, <2>2
  <2> HIDE DEF s
  <2>4. /\ s \o t \in Seq(S) /\ Len(s \o t) = Len(s) + Len(t)
        /\ \A k \in 1 .. Len(s) + Len(t) :
             (s \o t)[k] = IF k <= Len(s) THEN s[k] ELSE t[k - Len(s)]
    BY <2>1, <2>3, ConcatProperties
  <2>5. /\ Len(s) \in Nat /\ Len(t) \in Nat /\ Len(seqs[1]) \in Nat
        /\ DOMAIN s = 1 .. Len(s) /\ DOMAIN t = 1 .. Len(t)
        /\ DOMAIN (s \o t) = 1 .. Len(s \o t)
    BY <1>1, <2>1, <2>3, <2>4, LenProperties
  <2>6. From(s \o t)
    <3> SUFFICES ASSUME NEW k \in 1 .. Len(s) + Len(t)
                 PROVE  \E i \in 1 .. n : \E j \in DOMAIN seqs[i] : (s \o t)[k] = seqs[i][j]
      BY <2>4, <2>5
    <3>1. CASE k <= Len(s)
      <4>1. k \in DOMAIN s /\ (s \o t)[k] = s[k]
        BY <2>4, <2>5, <3>1
      <4>2. PICK i \in 1 .. n : \E j \in DOMAIN seqs[i] : s[k] = seqs[i][j]
        BY <2>1, <4>1
      <4> QED
        BY <4>1, <4>2
    <3>2. CASE ~(k <= Len(s))
      <4>1. k - Len(s) \in DOMAIN t
        BY <2>5, <3>2
      <4> QED
        BY <2>2, <2>4, <3>2, <4>1
    <3> QED
      BY <3>1, <3>2
  <2>7. Len(s \o t) >= Len(seqs[1])
    BY <2>1, <2>4, <2>5
  <2> HIDE DEF From, t
  <2>8. Whole(s \o t)
    BY <2>4, <2>6, <2>7
  <2> QED
    BY <2>3, <2>8
<1> HIDE DEF Whole
<1>9. ASSUME NEW m \in Sound PROVE m + 1 \in Sound
  <2>1. (m + 1) + 1 = m + 2 /\ m + 1 \in Nat
    OBVIOUS
  <2> QED
    BY <1>8, <2>1
<1> HIDE DEF Sound
<1>10. Sound = Nat
  BY <1>6, <1>7, <1>9, SetInduction
<1>11. n - 1 \in Sound /\ (n - 1) + 1 = n
  BY <1>1, <1>10
<1>12. Whole(flatten[n])
  BY <1>1, <1>11 DEF Sound
<1>13. flatten[n] \in Seq(S) /\ Len(flatten[n]) >= Len(seqs[1]) /\ From(flatten[n])
  BY <1>12 DEF Whole
<1> HIDE DEF From
<1>14. /\ FlattenSeq(seqs) \in Seq(S) /\ Len(FlattenSeq(seqs)) >= Len(seqs[1])
       /\ From(FlattenSeq(seqs))
  BY <1>4, <1>13
<1> QED
  BY <1>1, <1>14 DEF From
-----------------------------------------------------------------------------
(* The shelf: what a fleet can be put together from.                       *)
CoreIds   == {"d2c-analyst", "d2c-librarian", "pm-competitor-watch", "pm-user-voice",
              "pm-roadmap-risk", "agency-analyst", "agency-librarian"}
WatchIds  == {"d2c-returns-watch", "d2c-spend-watch", "agency-intake-watch"}
GoalIds   == {"d2c-overnight", "d2c-cost-watch", "agency-brief-drafter"}
Ids       == CoreIds \cup WatchIds \cup GoalIds
Templates == [id : Ids, k : Int, cited : Int, byStyle : BOOLEAN]
Agents    == [id : Ids, company : Companies, k : Int, synthesize : BOOLEAN,
              playbook : Playbooks]

LEMMA ThreePlaybooks ==
  /\ Playbooks = {"d2c-ops", "agency-brief", "pm-product"}
  /\ \A b \in BusinessTypes : PLAYBOOK[b] \in Playbooks
<1>1. /\ PLAYBOOK["d2c"] = "d2c-ops" /\ PLAYBOOK["agency"] = "agency-brief"
      /\ PLAYBOOK["product"] = "pm-product"
  BY DEF PLAYBOOK
<1> QED
  BY <1>1 DEF Playbooks, BusinessTypes

LEMMA OneTemplate ==
  ASSUME NEW s \in Templates
  PROVE  <<s>> \in Seq(Templates) /\ Len(<<s>>) = 1 /\ DOMAIN <<s>> = {1} /\ <<s>>[1] = s
OBVIOUS

LEMMA TwoTemplates ==
  ASSUME NEW s \in Templates, NEW t \in Templates
  PROVE  /\ <<s, t>> \in Seq(Templates) /\ Len(<<s, t>>) = 2
         /\ \A i \in DOMAIN <<s, t>> : <<s, t>>[i] \in {s, t}
<1>1. DOMAIN <<s, t>> = {1, 2}
  OBVIOUS
<1> QED
  BY <1>1

LEMMA ThreeTemplates ==
  ASSUME NEW s \in Templates, NEW t \in Templates, NEW u \in Templates
  PROVE  /\ <<s, t, u>> \in Seq(Templates) /\ Len(<<s, t, u>>) = 3
         /\ \A i \in DOMAIN <<s, t, u>> : <<s, t, u>>[i] \in {s, t, u}
<1>1. DOMAIN <<s, t, u>> = {1, 2, 3}
  OBVIOUS
<1> QED
  BY <1>1

LEMMA CoreTemplates ==
  ASSUME NEW p \in Playbooks
  PROVE  /\ CORE(p) \in Seq(Templates)
         /\ Len(CORE(p)) = IF p = "pm-product" THEN 3 ELSE 2
         /\ \A i \in DOMAIN CORE(p) : CORE(p)[i].id \in CoreIds
<1>1. CASE p = "d2c-ops"
  <2> DEFINE s == Template("d2c-analyst", 6, 8, TRUE)
             t == Template("d2c-librarian", 8, 8, FALSE)
  <2>1. CORE(p) = <<s, t>>
    BY <1>1 DEF CORE
  <2>2. s \in Templates /\ t \in Templates /\ s.id \in CoreIds /\ t.id \in CoreIds
    BY DEF Template, Templates, Ids, CoreIds
  <2> HIDE DEF s, t
  <2> DEFINE core == <<s, t>>
  <2>3. /\ core \in Seq(Templates) /\ Len(core) = 2
        /\ \A i \in DOMAIN core : core[i] \in {s, t}
    BY <2>2, TwoTemplates
  <2> HIDE DEF core
  <2>4. \A i \in DOMAIN core : core[i].id \in CoreIds
    BY <2>2, <2>3
  <2> QED
    BY <1>1, <2>1, <2>3, <2>4 DEF core
<1>2. CASE p = "agency-brief"
  <2> DEFINE s == Template("agency-analyst", 6, 8, TRUE)
             t == Template("agency-librarian", 8, 8, FALSE)
  <2>1. CORE(p) = <<s, t>>
    BY <1>2 DEF CORE
  <2>2. s \in Templates /\ t \in Templates /\ s.id \in CoreIds /\ t.id \in CoreIds
    BY DEF Template, Templates, Ids, CoreIds
  <2> HIDE DEF s, t
  <2> DEFINE core == <<s, t>>
  <2>3. /\ core \in Seq(Templates) /\ Len(core) = 2
        /\ \A i \in DOMAIN core : core[i] \in {s, t}
    BY <2>2, TwoTemplates
  <2> HIDE DEF core
  <2>4. \A i \in DOMAIN core : core[i].id \in CoreIds
    BY <2>2, <2>3
  <2> QED
    BY <1>2, <2>1, <2>3, <2>4 DEF core
<1>3. CASE p = "pm-product"
  <2> DEFINE s == Template("pm-competitor-watch", 6, 6, FALSE)
             t == Template("pm-user-voice", 6, 8, TRUE)
             u == Template("pm-roadmap-risk", 6, 6, FALSE)
  <2>1. CORE(p) = <<s, t, u>>
    BY <1>3 DEF CORE
  <2>2. /\ s \in Templates /\ t \in Templates /\ u \in Templates
        /\ s.id \in CoreIds /\ t.id \in CoreIds /\ u.id \in CoreIds
    BY DEF Template, Templates, Ids, CoreIds
  <2> HIDE DEF s, t, u
  <2> DEFINE core == <<s, t, u>>
  <2>3. /\ core \in Seq(Templates) /\ Len(core) = 3
        /\ \A i \in DOMAIN core : core[i] \in {s, t, u}
    BY <2>2, ThreeTemplates
  <2> HIDE DEF core
  <2>4. \A i \in DOMAIN core : core[i].id \in CoreIds
    BY <2>2, <2>3
  <2> QED
    BY <1>3, <2>1, <2>3, <2>4 DEF core
<1> QED
  BY <1>1, <1>2, <1>3, ThreePlaybooks

LEMMA GoalTemplates ==
  ASSUME NEW p \in Playbooks, NEW goal
  PROVE  /\ GOAL(p, goal) \in Seq(Templates) /\ Len(GOAL(p, goal)) \in 0 .. 1
         /\ p = "pm-product" => Len(GOAL(p, goal)) = 0
         /\ \A i \in DOMAIN GOAL(p, goal) : GOAL(p, goal)[i].id \in GoalIds
<1> DEFINE overnight == Template("d2c-overnight", 6, 6, TRUE)
           cost      == Template("d2c-cost-watch", 4, 4, FALSE)
           drafter   == Template("agency-brief-drafter", 8, 8, TRUE)
<1>1. /\ GOAL(p, goal) \in {<<overnight>>, <<cost>>, <<drafter>>, <<>>}
      /\ p = "pm-product" => GOAL(p, goal) = <<>>
  BY DEF GOAL
<1>2. /\ overnight \in Templates /\ overnight.id \in GoalIds
      /\ cost \in Templates /\ cost.id \in GoalIds
      /\ drafter \in Templates /\ drafter.id \in GoalIds
  BY DEF Template, Templates, Ids, GoalIds
<1> HIDE DEF overnight, cost, drafter
<1>3. CASE GOAL(p, goal) = <<>>
  BY <1>3
<1>4. ASSUME NEW t \in {overnight, cost, drafter}, GOAL(p, goal) = <<t>>
      PROVE  /\ GOAL(p, goal) \in Seq(Templates) /\ Len(GOAL(p, goal)) = 1
             /\ \A i \in DOMAIN GOAL(p, goal) : GOAL(p, goal)[i].id \in GoalIds
  BY <1>2, <1>4, OneTemplate
<1> QED
  BY <1>1, <1>3, <1>4

LEMMA Watchers ==
  /\ DOMAIN Watcher = {"demo-shopify", "demo-sheets", "demo-agency"}
  /\ Watcher["demo-shopify"] = "d2c-returns-watch"
  /\ Watcher["demo-sheets"] = "d2c-spend-watch"
  /\ Watcher["demo-agency"] = "agency-intake-watch"
<1>1. WATCH("demo-shopify") = <<Template("d2c-returns-watch", 4, 4, FALSE)>>
  BY DEF WATCH
<1>2. WATCH("demo-sheets") = <<Template("d2c-spend-watch", 4, 4, FALSE)>>
  BY DEF WATCH
<1>3. WATCH("demo-agency") = <<Template("agency-intake-watch", 4, 4, FALSE)>>
  BY DEF WATCH
<1> QED
  BY <1>1, <1>2, <1>3 DEF Watcher, Template

LEMMA WatchTemplates ==
  ASSUME NEW source
  PROVE  /\ WATCH(source) \in Seq(Templates)
         /\ source \in DOMAIN Watcher =>
              Len(WATCH(source)) = 1 /\ WATCH(source)[1].id = Watcher[source]
         /\ source \notin DOMAIN Watcher => WATCH(source) = <<>>
<1>1. CASE source \notin DOMAIN Watcher
  <2>1. WATCH(source) = <<>>
    BY <1>1, Watchers DEF WATCH
  <2> QED
    BY <1>1, <2>1
<1>2. CASE source \in DOMAIN Watcher
  <2> DEFINE returns == Template("d2c-returns-watch", 4, 4, FALSE)
             spend   == Template("d2c-spend-watch", 4, 4, FALSE)
             intake  == Template("agency-intake-watch", 4, 4, FALSE)
  <2>1. PICK t \in {returns, spend, intake} : WATCH(source) = <<t>> /\ t.id = Watcher[source]
    BY <1>2, Watchers DEF WATCH, Template
  <2>2. returns \in Templates /\ spend \in Templates /\ intake \in Templates
    BY DEF Template, Templates, Ids, WatchIds
  <2> QED
    BY <1>2, <2>1, <2>2, OneTemplate
<1> QED
  BY <1>1, <1>2

(* The watchers of a list of sources.                                      *)
WatchersOf(sources) == FlattenSeq([i \in DOMAIN sources |-> WATCH(sources[i])])

LEMMA WatchersOfSources ==
  ASSUME NEW S, NEW sources \in Seq(S), sources # <<>>
  PROVE  /\ WatchersOf(sources) \in Seq(Templates)
         /\ sources[1] \in DOMAIN Watcher => Len(WatchersOf(sources)) >= 1
         /\ \A k \in DOMAIN WatchersOf(sources) :
              \E i \in DOMAIN sources : /\ sources[i] \in DOMAIN Watcher
                                        /\ WatchersOf(sources)[k].id = Watcher[sources[i]]
<1> DEFINE seqs == [i \in DOMAIN sources |-> WATCH(sources[i])]
<1>1. /\ DOMAIN sources = 1 .. Len(sources) /\ Len(sources) \in Nat /\ Len(sources) >= 1
  OBVIOUS
<1>2. \A i \in DOMAIN sources : seqs[i] = WATCH(sources[i]) /\ seqs[i] \in Seq(Templates)
  BY WatchTemplates
<1>3. DOMAIN seqs = DOMAIN sources /\ seqs \in Seq(Seq(Templates)) /\ seqs # <<>>
  BY <1>1, <1>2
<1>4. WatchersOf(sources) = FlattenSeq(seqs)
  BY DEF WatchersOf
<1> HIDE DEF seqs
<1> DEFINE all == FlattenSeq(seqs)
<1>5. /\ all \in Seq(Templates) /\ Len(all) >= Len(seqs[1])
      /\ \A k \in DOMAIN all : \E i \in DOMAIN seqs : \E m \in DOMAIN seqs[i] :
           all[k] = seqs[i][m]
  BY <1>3, Flattened
<1> HIDE DEF all
<1>6. sources[1] \in DOMAIN Watcher => Len(all) >= 1
  BY <1>1, <1>2, <1>5, WatchTemplates
<1>7. ASSUME NEW k \in DOMAIN all
      PROVE  \E i \in DOMAIN sources : /\ sources[i] \in DOMAIN Watcher
                                       /\ all[k].id = Watcher[sources[i]]
  <2>1. PICK i \in DOMAIN sources : \E m \in DOMAIN WATCH(sources[i]) :
          all[k] = WATCH(sources[i])[m]
    BY <1>2, <1>3, <1>5, <1>7
  <2>2. PICK m \in DOMAIN WATCH(sources[i]) : all[k] = WATCH(sources[i])[m]
    BY <2>1
  <2>3. sources[i] \in DOMAIN Watcher
    BY <2>2, WatchTemplates
  <2>4. m = 1
    BY <2>2, <2>3, WatchTemplates
  <2> QED
    BY <2>2, <2>3, <2>4, WatchTemplates
<1> QED
  BY <1>4, <1>5, <1>6, <1>7 DEF all

Minted(p, a, templates, bump) == [i \in DOMAIN templates |-> _mint(p, templates[i], a, bump)]

LEMMA MintedList ==
  ASSUME NEW p \in Playbooks, NEW a, a.company_name \in Companies,
         NEW bump \in BOOLEAN, NEW templates \in Seq(Templates)
  PROVE  /\ Minted(p, a, templates, bump) \in Seq(Agents)
         /\ Len(Minted(p, a, templates, bump)) = Len(templates)
         /\ \A i \in DOMAIN templates : Minted(p, a, templates, bump)[i].id = templates[i].id
<1>1. \A i \in DOMAIN templates : templates[i] \in Templates
  OBVIOUS
<1>2. ASSUME NEW t \in Templates
      PROVE  _mint(p, t, a, bump) \in Agents /\ _mint(p, t, a, bump).id = t.id
  <2>1. t.id \in Ids /\ t.k \in Int /\ t.cited \in Int /\ t.byStyle \in BOOLEAN
    BY DEF Templates
  <2>2. (IF bump THEN t.cited ELSE t.k) \in Int
    BY <2>1
  <2>3. (t.byStyle /\ a.answer_style = "synthesized") \in BOOLEAN
    OBVIOUS
  <2> QED
    BY <2>1, <2>2, <2>3 DEF _mint, Agents
<1>3. DOMAIN templates = 1 .. Len(templates) /\ Len(templates) \in Nat
  OBVIOUS
<1> QED
  BY <1>1, <1>2, <1>3 DEF Minted

(* Two and three lists in a row.                                           *)
Among(x, s) == \E i \in DOMAIN s : x = s[i]

LEMMA TwoInARow ==
  ASSUME NEW S, NEW s \in Seq(S), NEW t \in Seq(S), NEW all, all = s \o t
  PROVE  /\ all \in Seq(S) /\ Len(all) = Len(s) + Len(t)
         /\ \A k \in 1 .. Len(s) + Len(t) :
              all[k] = IF k <= Len(s) THEN s[k] ELSE t[k - Len(s)]
BY ConcatProperties

LEMMA InARow ==
  ASSUME NEW S, NEW c \in Seq(S), NEW w \in Seq(S), NEW g \in Seq(S),
         NEW all, all = (c \o w) \o g
  PROVE  /\ all \in Seq(S)
         /\ Len(all) = Len(c) + Len(w) + Len(g)
         /\ \A i \in DOMAIN w : Len(c) + i \in DOMAIN all /\ all[Len(c) + i] = w[i]
<1> DEFINE cw == c \o w
<1>0. all = cw \o g
  OBVIOUS
<1>1. /\ Len(c) \in Nat /\ Len(w) \in Nat /\ Len(g) \in Nat
      /\ DOMAIN c = 1 .. Len(c) /\ DOMAIN w = 1 .. Len(w) /\ DOMAIN g = 1 .. Len(g)
  BY LenProperties
<1>2. /\ cw \in Seq(S) /\ Len(cw) = Len(c) + Len(w)
      /\ \A k \in 1 .. Len(c) + Len(w) :
           cw[k] = IF k <= Len(c) THEN c[k] ELSE w[k - Len(c)]
  BY ConcatProperties
<1> HIDE DEF cw
<1>3. /\ all \in Seq(S) /\ Len(all) = Len(cw) + Len(g)
      /\ \A k \in 1 .. Len(cw) + Len(g) :
           all[k] = IF k <= Len(cw) THEN cw[k] ELSE g[k - Len(cw)]
  <2>1. cw \in Seq(S)
    BY <1>2
  <2> QED
    BY <1>0, <2>1, TwoInARow
<1>4. DOMAIN all = 1 .. Len(c) + Len(w) + Len(g)
  BY <1>2, <1>3, LenProperties
<1>5. ASSUME NEW i \in DOMAIN w
      PROVE  Len(c) + i \in DOMAIN all /\ all[Len(c) + i] = w[i]
  <2>1. /\ Len(c) + i \in 1 .. Len(cw) /\ ~(Len(c) + i <= Len(c))
        /\ (Len(c) + i) - Len(c) = i /\ Len(c) + i \in 1 .. Len(cw) + Len(g)
    BY <1>1, <1>2
  <2>2. cw[Len(c) + i] = w[i]
    BY <1>2, <2>1
  <2> QED
    BY <1>1, <1>2, <1>3, <1>4, <2>1, <2>2
<1>6. Len(all) = Len(c) + Len(w) + Len(g)
  BY <1>2, <1>3
<1> QED
  BY <1>3, <1>5, <1>6

LEMMA OutOfARow ==
  ASSUME NEW S, NEW c \in Seq(S), NEW w \in Seq(S), NEW g \in Seq(S),
         NEW all, all = (c \o w) \o g
  PROVE  \A k \in DOMAIN all : Among(all[k], c) \/ Among(all[k], w) \/ Among(all[k], g)
<1> DEFINE cw == c \o w
<1>0. all = cw \o g
  OBVIOUS
<1>1. /\ Len(c) \in Nat /\ Len(w) \in Nat /\ Len(g) \in Nat
      /\ DOMAIN c = 1 .. Len(c) /\ DOMAIN w = 1 .. Len(w) /\ DOMAIN g = 1 .. Len(g)
  BY LenProperties
<1>2. /\ cw \in Seq(S) /\ Len(cw) = Len(c) + Len(w)
      /\ \A k \in 1 .. Len(c) + Len(w) :
           cw[k] = IF k <= Len(c) THEN c[k] ELSE w[k - Len(c)]
  BY ConcatProperties
<1> HIDE DEF cw
<1>3. /\ all \in Seq(S) /\ Len(all) = Len(cw) + Len(g)
      /\ \A k \in 1 .. Len(cw) + Len(g) :
           all[k] = IF k <= Len(cw) THEN cw[k] ELSE g[k - Len(cw)]
  <2>1. cw \in Seq(S)
    BY <1>2
  <2> QED
    BY <1>0, <2>1, TwoInARow
<1>4. DOMAIN all = 1 .. Len(c) + Len(w) + Len(g)
  BY <1>2, <1>3, LenProperties
<1>5. ASSUME NEW k \in DOMAIN all
      PROVE  Among(all[k], c) \/ Among(all[k], w) \/ Among(all[k], g)
  <2>1. CASE k <= Len(c)
    <3>1. k \in DOMAIN c /\ all[k] = c[k]
      BY <1>1, <1>2, <1>3, <1>4, <2>1
    <3> QED
      BY <3>1 DEF Among
  <2>2. CASE ~(k <= Len(c)) /\ k <= Len(c) + Len(w)
    <3>1. k - Len(c) \in DOMAIN w /\ all[k] = w[k - Len(c)]
      BY <1>1, <1>2, <1>3, <1>4, <2>2
    <3> QED
      BY <3>1 DEF Among
  <2>3. CASE ~(k <= Len(c) + Len(w))
    <3>1. k - Len(cw) \in DOMAIN g /\ all[k] = g[k - Len(cw)]
      BY <1>1, <1>2, <1>3, <1>4, <2>3
    <3> QED
      BY <3>1 DEF Among
  <2> QED
    BY <2>1, <2>2, <2>3
<1> QED
  BY <1>5

(* How many watchers a business has.                                       *)
LEMMA WatcherCount ==
  ASSUME NEW p \in Playbooks, NEW sources \in Seq(SourcesOf(p)), sources # <<>>,
         \A i, j \in DOMAIN WatchersOf(sources) :
           WatchersOf(sources)[i].id = WatchersOf(sources)[j].id => i = j
  PROVE  IF p = "pm-product" THEN Len(WatchersOf(sources)) = 0
         ELSE Len(WatchersOf(sources)) \in 1 .. 2
<1> DEFINE w == WatchersOf(sources)
<1>1. /\ w \in Seq(Templates)
      /\ sources[1] \in DOMAIN Watcher => Len(w) >= 1
      /\ \A k \in DOMAIN w : \E i \in DOMAIN sources :
           sources[i] \in DOMAIN Watcher /\ w[k].id = Watcher[sources[i]]
  BY WatchersOfSources
<1>2. Len(w) \in Nat /\ DOMAIN w = 1 .. Len(w)
  BY <1>1, LenProperties
<1>3. \A i \in DOMAIN sources : sources[i] \in SourcesOf(p)
  OBVIOUS
<1>4. 1 \in DOMAIN sources
  OBVIOUS
<1>5. \A i, j \in DOMAIN w : w[i].id = w[j].id => i = j
  OBVIOUS
<1> HIDE DEF w
<1>6. CASE p = "pm-product"
  <2>1. DOMAIN w = {}
    BY <1>1, <1>3, <1>6, Watchers DEF SourcesOf
  <2> QED
    BY <1>2, <1>6, <2>1 DEF w
<1>7. CASE p = "agency-brief"
  <2>1. \A k \in DOMAIN w : w[k].id = "agency-intake-watch"
    BY <1>1, <1>3, <1>7, Watchers DEF SourcesOf
  <2>2. ~(Len(w) >= 2)
    <3> SUFFICES ASSUME Len(w) >= 2 PROVE FALSE
      OBVIOUS
    <3>1. 1 \in DOMAIN w /\ 2 \in DOMAIN w
      BY <1>2
    <3> QED
      BY <1>5, <2>1, <3>1
  <2>3. sources[1] \in DOMAIN Watcher
    BY <1>3, <1>4, <1>7, Watchers DEF SourcesOf
  <2> QED
    BY <1>1, <1>2, <1>7, <2>2, <2>3 DEF w
<1>8. CASE p = "d2c-ops"
  <2>1. \A k \in DOMAIN w : w[k].id \in {"d2c-returns-watch", "d2c-spend-watch"}
    BY <1>1, <1>3, <1>8, Watchers DEF SourcesOf
  <2>2. ~(Len(w) >= 3)
    <3> SUFFICES ASSUME Len(w) >= 3 PROVE FALSE
      OBVIOUS
    <3>1. 1 \in DOMAIN w /\ 2 \in DOMAIN w /\ 3 \in DOMAIN w
      BY <1>2
    <3> QED
      BY <1>5, <2>1, <3>1
  <2>3. sources[1] \in DOMAIN Watcher
    BY <1>3, <1>4, <1>8, Watchers DEF SourcesOf
  <2> QED
    BY <1>1, <1>2, <1>8, <2>2, <2>3, SMTT(30) DEF w
<1> QED
  BY <1>6, <1>7, <1>8, ThreePlaybooks

(* A fleet that passed the check for repeated ids has three to six agents; *)
(* who watches a source in it was asked to.                                *)
LEMMA FleetOf ==
  ASSUME NEW a, _validate_answers(a)
  PROVE  /\ _build_fleet(a) \in Seq(Agents)
         /\ Unique(_build_fleet(a)) => Len(_build_fleet(a)) \in 3 .. 6
         /\ \A i \in DOMAIN _build_fleet(a), source \in DOMAIN Watcher :
              Watcher[source] = _build_fleet(a)[i].id => source \in ToSet(a.sources)
<1> DEFINE p     == PLAYBOOK[a.business_type]
           cited == a.primary_goal = "cited_answers"
           tc    == CORE(p)
           tw    == WatchersOf(a.sources)
           tg    == GOAL(p, a.primary_goal)
           c     == Minted(p, a, tc, cited)
           w     == Minted(p, a, tw, FALSE)
           g     == Minted(p, a, tg, FALSE)
           fleet == (c \o w) \o g
<1>1. /\ p \in Playbooks /\ a.sources # <<>> /\ a.sources \in Seq(SourcesOf(p))
      /\ a.company_name \in Companies
  BY ThreePlaybooks DEF _validate_answers
<1>2. _build_fleet(a) = fleet
  BY DEF _build_fleet, Minted, WatchersOf
<1>3. /\ tc \in Seq(Templates) /\ Len(tc) = IF p = "pm-product" THEN 3 ELSE 2
      /\ \A i \in DOMAIN tc : tc[i].id \in CoreIds
  BY <1>1, CoreTemplates
<1>4. /\ tg \in Seq(Templates) /\ Len(tg) \in 0 .. 1 /\ (p = "pm-product" => Len(tg) = 0)
      /\ \A i \in DOMAIN tg : tg[i].id \in GoalIds
  BY <1>1, GoalTemplates
<1>5. /\ tw \in Seq(Templates)
      /\ \A k \in DOMAIN tw : \E i \in DOMAIN a.sources :
           a.sources[i] \in DOMAIN Watcher /\ tw[k].id = Watcher[a.sources[i]]
  BY <1>1, WatchersOfSources
<1> HIDE DEF tc, tw, tg
<1>6. /\ c \in Seq(Agents) /\ Len(c) = Len(tc) /\ \A i \in DOMAIN tc : c[i].id = tc[i].id
      /\ w \in Seq(Agents) /\ Len(w) = Len(tw) /\ \A i \in DOMAIN tw : w[i].id = tw[i].id
      /\ g \in Seq(Agents) /\ Len(g) = Len(tg) /\ \A i \in DOMAIN tg : g[i].id = tg[i].id
  <2>1. cited \in BOOLEAN /\ FALSE \in BOOLEAN
    OBVIOUS
  <2> HIDE DEF p, cited
  <2> DEFINE Good(minted, templates) ==
        /\ minted \in Seq(Agents) /\ Len(minted) = Len(templates)
        /\ \A i \in DOMAIN templates : minted[i].id = templates[i].id
  <2>5. ASSUME NEW templates \in Seq(Templates), NEW bump \in BOOLEAN
        PROVE  Good(Minted(p, a, templates, bump), templates)
    BY <1>1, MintedList
  <2> HIDE DEF Good
  <2>6. Good(c, tc) /\ Good(w, tw) /\ Good(g, tg)
    BY <1>3, <1>4, <1>5, <2>1, <2>5
  <2>2. c \in Seq(Agents) /\ Len(c) = Len(tc) /\ \A i \in DOMAIN tc : c[i].id = tc[i].id
    BY <2>6 DEF Good
  <2>3. w \in Seq(Agents) /\ Len(w) = Len(tw) /\ \A i \in DOMAIN tw : w[i].id = tw[i].id
    BY <2>6 DEF Good
  <2>4. g \in Seq(Agents) /\ Len(g) = Len(tg) /\ \A i \in DOMAIN tg : g[i].id = tg[i].id
    BY <2>6 DEF Good
  <2> QED
    BY <2>2, <2>3, <2>4
<1>14. fleet = (c \o w) \o g
  OBVIOUS
<1> HIDE DEF c, w, g, fleet
<1>7. /\ DOMAIN c = DOMAIN tc /\ DOMAIN w = DOMAIN tw /\ DOMAIN g = DOMAIN tg
      /\ DOMAIN tw = 1 .. Len(tw) /\ Len(tw) \in Nat
  BY <1>3, <1>4, <1>5, <1>6, LenProperties
<1>8. /\ fleet \in Seq(Agents) /\ Len(fleet) = Len(c) + Len(w) + Len(g)
      /\ \A i \in DOMAIN w : Len(c) + i \in DOMAIN fleet /\ fleet[Len(c) + i] = w[i]
      /\ \A k \in DOMAIN fleet :
           Among(fleet[k], c) \/ Among(fleet[k], w) \/ Among(fleet[k], g)
  <2>1. c \in Seq(Agents) /\ w \in Seq(Agents) /\ g \in Seq(Agents)
    BY <1>6
  <2>2. fleet \in Seq(Agents) /\ Len(fleet) = Len(c) + Len(w) + Len(g)
    BY <1>14, <2>1, InARow
  <2>3. \A i \in DOMAIN w : Len(c) + i \in DOMAIN fleet /\ fleet[Len(c) + i] = w[i]
    BY <1>14, <2>1, InARow
  <2>4. \A k \in DOMAIN fleet :
          Among(fleet[k], c) \/ Among(fleet[k], w) \/ Among(fleet[k], g)
    BY <1>14, <2>1, OutOfARow
  <2> QED
    BY <2>2, <2>3, <2>4
<1>12. ASSUME Unique(fleet) PROVE Len(fleet) \in 3 .. 6
  <2>1. \A i, j \in DOMAIN tw : tw[i].id = tw[j].id => i = j
    <3> SUFFICES ASSUME NEW i \in DOMAIN tw, NEW j \in DOMAIN tw, tw[i].id = tw[j].id
                 PROVE  i = j
      OBVIOUS
    <3>1. w[i].id = w[j].id /\ i \in DOMAIN w /\ j \in DOMAIN w
      BY <1>6, <1>7
    <3>2. Len(c) + i = Len(c) + j
      BY <1>8, <1>12, <3>1 DEF Unique
    <3> QED
      BY <1>3, <1>6, <1>7, <3>2
  <2>2. IF p = "pm-product" THEN Len(tw) = 0 ELSE Len(tw) \in 1 .. 2
    BY <1>1, <2>1, WatcherCount DEF tw
  <2>3. Len(fleet) \in 3 .. 6
    <3>1. Len(fleet) = Len(tc) + Len(tw) + Len(tg)
      BY <1>6, <1>8
    <3>2. Len(tc) = (IF p = "pm-product" THEN 3 ELSE 2) /\ Len(tg) \in 0 .. 1
      BY <1>3, <1>4
    <3>3. p = "pm-product" => Len(tg) = 0
      BY <1>4
    <3>4. CASE p = "pm-product"
      BY <2>2, <3>1, <3>2, <3>3, <3>4
    <3>5. CASE p # "pm-product"
      <4>1. Len(tc) = 2 /\ Len(tw) \in 1 .. 2
        BY <2>2, <3>2, <3>5
      <4>2. \A x \in 1 .. 2, y \in 0 .. 1 : 2 + x + y \in 3 .. 6
        OBVIOUS
      <4> HIDE DEF p
      <4> QED
        BY <3>1, <3>2, <4>1, <4>2
    <3> QED
      BY <3>4, <3>5
  <2> QED
    BY <2>3
<1>13. ASSUME NEW k \in DOMAIN fleet, NEW source \in DOMAIN Watcher,
              Watcher[source] = fleet[k].id
       PROVE  source \in ToSet(a.sources)
  <2>1. fleet[k].id \in WatchIds
    BY <1>13, Watchers DEF WatchIds
  <2>2. PICK i \in DOMAIN w : fleet[k] = w[i]
    <3>1. \A i \in DOMAIN c : c[i].id \in CoreIds
      BY <1>3, <1>6, <1>7
    <3>2. \A i \in DOMAIN g : g[i].id \in GoalIds
      BY <1>4, <1>6, <1>7
    <3>3. WatchIds \cap (CoreIds \cup GoalIds) = {}
      BY DEF WatchIds, CoreIds, GoalIds
    <3> QED
      BY <1>8, <1>13, <2>1, <3>1, <3>2, <3>3 DEF Among
  <2>3. PICK j \in DOMAIN a.sources :
          a.sources[j] \in DOMAIN Watcher /\ w[i].id = Watcher[a.sources[j]]
    BY <1>5, <1>6, <1>7
  <2>4. a.sources[j] = source
    BY <1>13, <2>2, <2>3, Watchers
  <2> QED
    BY <2>3, <2>4 DEF ToSet
<1> QED
  BY <1>2, <1>8, <1>12, <1>13
-----------------------------------------------------------------------------
(* The invariant.  Job, Row and Event are the shapes of the state.         *)
Row    == [spec : Agents, version : Nat]
Tables == UNION {[D -> Row] : D \in SUBSET Ids}
Event  == [step : {"onboard_started", "corpus_scanned", "fleet_instantiated",
                   "onboard_failed", "first_answer"}, by : Nat]
Job    == [step : {"idle", "scan", "vet", "begin", "rows", "log", "fail"},
           by : Nat, answers : Offers \cup {NoAnswers}, fleet : Seq(Agents),
           rows : Nat, table : Tables]
Ask    == [step : {"idle", "answering", "answered", "first"}, agent : Agents \cup {NoAgent}]

Types ==
  /\ specs \in Tables /\ events \in Seq(Event)
  /\ clean \subseteq beenClean
  /\ job \in [Onboarders -> Job] /\ ask \in [Askers -> Ask]
  /\ onboardings \in Nat /\ last \in Seq(Agents)

(* Who watches a source was asked to when chunks of it had landed.         *)
AskedFor(s, seen) == \A source \in DOMAIN Watcher : Watcher[source] = s.id => source \in seen

Sound(fleet, seen) ==
  /\ Len(fleet) \in 3 .. 6 /\ Unique(fleet)
  /\ \A i \in DOMAIN fleet : AskedFor(fleet[i], seen)

Clean(table, seen) == \A id \in DOMAIN table : AskedFor(table[id].spec, seen)

(* The first n agents of a fleet are in a table.                           *)
Holds(table, fleet, n) ==
  \A i \in DOMAIN fleet : i <= n =>
    fleet[i].id \in DOMAIN table /\ table[fleet[i].id].spec = fleet[i]

(* What an onboarding knows at each of its steps.                          *)
KnowsJob(j, seen) ==
  /\ j.step \in {"scan", "vet"} => _validate_answers(j.answers)
  /\ j.step = "vet" => ToSet(j.answers.sources) \subseteq seen
  /\ j.step \in {"begin", "rows"} => Sound(j.fleet, seen)
  /\ j.step = "rows" => Clean(j.table, seen) /\ Holds(j.table, j.fleet, j.rows)

JobsInv == \A o \in Onboarders : KnowsJob(job[o], beenClean)

LiveInv ==
  /\ last # <<>> => Sound(last, beenClean)
  /\ Clean(specs, beenClean)
  /\ \A t \in Askers : ask[t].step # "idle" => AskedFor(ask[t].agent, beenClean)
  /\ FleetIsWhole

(* Of the events after the last start, every fleet is the one that was     *)
(* started, and so is the onboarding that is still under way.              *)
LastStart(s) ==
  /\ s \in DOMAIN events /\ events[s].step = "onboard_started"
  /\ \A j \in DOMAIN events : events[j].step = "onboard_started" => j <= s

WatchInv ==
  /\ \A o \in Onboarders : job[o].step = "log" => job[o].by \in committed
  /\ ~overlap =>
       /\ \A o, p \in Onboarders : job[o].step # "idle" /\ job[p].step # "idle" => o = p
       /\ \A o \in Onboarders, s \in DOMAIN events :
            job[o].step # "idle" /\ LastStart(s) => events[s].by = job[o].by
       /\ \A s, j \in DOMAIN events :
            LastStart(s) /\ s <= j /\ events[j].step = "fleet_instantiated" =>
              events[j].by = events[s].by /\ events[j].by \in committed

IInv == Types /\ JobsInv /\ LiveInv /\ WatchInv
-----------------------------------------------------------------------------
LEMMA NoRowsTable == NoRows \in Tables /\ DOMAIN NoRows = {}
<1>1. NoRows \in [{} -> Row]
  BY DEF NoRows
<1> QED
  BY <1>1 DEF Tables

LEMMA IdleShapes == IdleAsk \in Ask /\ IdleJob \in Job /\ IdleJob.step = "idle"
<1>1. <<>> \in Seq(Agents)
  OBVIOUS
<1> QED
  BY <1>1, NoRowsTable DEF IdleAsk, Ask, IdleJob, Job

(* An upsert of an agent gives the table that row and keeps the others.    *)
LEMMA UpsertedTable ==
  ASSUME NEW table \in Tables, NEW s \in Agents
  PROVE  /\ Upserted(table, s) \in Tables
         /\ DOMAIN Upserted(table, s) = DOMAIN table \cup {s.id}
         /\ Upserted(table, s)[s.id].spec = s
         /\ \A id \in DOMAIN table : id # s.id => Upserted(table, s)[id] = table[id]
<1> DEFINE after == Upserted(table, s)
<1>1. PICK D \in SUBSET Ids : table \in [D -> Row]
  BY DEF Tables
<1>2. s.id \in Ids
  BY DEF Agents
<1>3. DOMAIN after = D \cup {s.id} /\ DOMAIN table = D
  BY <1>1 DEF Upserted
<1>4. \A id \in D : id # s.id => after[id] = table[id] /\ after[id] \in Row
  BY <1>1 DEF Upserted
<1>5. after[s.id].spec = s /\ after[s.id] \in Row
  <2>1. CASE s.id \in D
    <3>1. table[s.id].version + 1 \in Nat
      BY <1>1, <2>1 DEF Row
    <3>2. after[s.id] = [spec |-> s, version |-> table[s.id].version + 1]
      BY <1>1, <2>1 DEF Upserted
    <3> QED
      BY <3>1, <3>2 DEF Row
  <2>2. CASE s.id \notin D
    <3>1. after[s.id] = [spec |-> s, version |-> 1]
      BY <1>1, <2>2 DEF Upserted
    <3> QED
      BY <3>1 DEF Row
  <2> QED
    BY <2>1, <2>2
<1>6. after \in [D \cup {s.id} -> Row]
  <2>1. after = [id \in DOMAIN after |-> after[id]]
    BY DEF Upserted
  <2> QED
    BY <1>3, <1>4, <1>5, <2>1
<1>7. after \in Tables
  BY <1>2, <1>6 DEF Tables
<1> QED
  BY <1>3, <1>4, <1>5, <1>7

(* What is known of sources with stored chunks stays known.                *)
LEMMA SeenGrows ==
  ASSUME NEW seen, NEW more, seen \subseteq more
  PROVE  /\ \A s : AskedFor(s, seen) => AskedFor(s, more)
         /\ \A fleet : Sound(fleet, seen) => Sound(fleet, more)
         /\ \A table : Clean(table, seen) => Clean(table, more)
         /\ \A j : KnowsJob(j, seen) => KnowsJob(j, more)
<1>1. \A s : AskedFor(s, seen) => AskedFor(s, more)
  BY DEF AskedFor
<1>2. \A fleet : Sound(fleet, seen) => Sound(fleet, more)
  BY <1>1 DEF Sound
<1>3. \A table : Clean(table, seen) => Clean(table, more)
  BY <1>1 DEF Clean
<1> QED
  BY <1>1, <1>2, <1>3 DEF KnowsJob

LEMMA FoundryInit == Init => IInv
<1> SUFFICES ASSUME Init PROVE IInv
  OBVIOUS
<1>1. Types
  BY NoRowsTable, IdleShapes DEF Init, Types
<1>2. JobsInv
  BY IdleShapes DEF Init, JobsInv, KnowsJob
<1>3. LiveInv
  BY NoRowsTable DEF Init, LiveInv, Clean, FleetIsWhole, IdleAsk
<1>4. WatchInv
  BY IdleShapes DEF Init, WatchInv
<1> QED
  BY <1>1, <1>2, <1>3, <1>4 DEF IInv

(* One step of one onboarding.                                             *)
Onboards(o) ==
  \/ \E a \in Offers : StartOnboarding(o, a)
  \/ Scan(o) \/ Vet(o) \/ BeginUpsert(o) \/ UpsertRow(o) \/ CommitUpsert(o)
  \/ LogFleet(o) \/ LogFailed(o) \/ OnboardingBreaks(o)

AskStep ==
  \E t \in Askers :
    \/ \E id \in DOMAIN specs : StartAsk(t, id)
    \/ Answered(t) \/ AskBreaks(t) \/ LookForFirst(t) \/ LogFirst(t)

LEMMA Steps == Next <=> World \/ (\E o \in Onboarders : Onboards(o)) \/ AskStep
BY DEF Next, Onboards, AskStep

(* Whatever an onboarding does, it knows what it has to.                   *)
LEMMA JobMoves ==
  ASSUME Types, JobsInv, LiveInv, NEW o \in Onboarders, Onboards(o)
  PROVE  /\ job'[o] \in Job /\ \A p \in Onboarders \ {o} : job'[p] = job[p]
         /\ job' \in [Onboarders -> Job]
         /\ KnowsJob(job'[o], beenClean)
<1> DEFINE j == job[o]
<1>0. /\ job \in [Onboarders -> Job] /\ j \in Job /\ KnowsJob(j, beenClean)
      /\ clean \subseteq beenClean /\ specs \in Tables /\ onboardings \in Nat
      /\ Clean(specs, beenClean)
  BY DEF Types, JobsInv, LiveInv
<1> SUFFICES \E k \in Job : job' = [job EXCEPT ![o] = k] /\ KnowsJob(k, beenClean)
  BY <1>0
<1>1. ASSUME NEW a \in Offers, StartOnboarding(o, a)
      PROVE  \E k \in Job : job' = [job EXCEPT ![o] = k] /\ KnowsJob(k, beenClean)
  <2> DEFINE k == [IdleJob EXCEPT !.step = IF _validate_answers(a) THEN "scan" ELSE "fail",
                                  !.by = onboardings', !.answers = a]
  <2>1. job' = [job EXCEPT ![o] = k] /\ onboardings' \in Nat
    BY <1>0, <1>1 DEF StartOnboarding
  <2>2. k \in Job
    BY <2>1, IdleShapes DEF Job
  <2>3. /\ k.step = IF _validate_answers(a) THEN "scan" ELSE "fail"
        /\ k.answers = a
    BY IdleShapes DEF Job
  <2> HIDE DEF k
  <2> QED
    BY <2>1, <2>2, <2>3 DEF KnowsJob
<1>2. ASSUME Scan(o)
      PROVE  \E k \in Job : job' = [job EXCEPT ![o] = k] /\ KnowsJob(k, beenClean)
  <2> DEFINE k == [j EXCEPT !.step =
                     IF ToSet(j.answers.sources) \subseteq clean THEN "vet" ELSE "fail"]
  <2>1. job' = [job EXCEPT ![o] = k] /\ j.step = "scan"
    BY <1>2 DEF Scan
  <2>2. /\ k \in Job /\ k.answers = j.answers
        /\ k.step = IF ToSet(j.answers.sources) \subseteq clean THEN "vet" ELSE "fail"
    BY <1>0 DEF Job
  <2> HIDE DEF k, j
  <2> QED
    BY <1>0, <2>1, <2>2 DEF KnowsJob
<1>3. ASSUME Vet(o)
      PROVE  \E k \in Job : job' = [job EXCEPT ![o] = k] /\ KnowsJob(k, beenClean)
  <2> DEFINE fleet == _build_fleet(j.answers)
             k == [j EXCEPT !.fleet = fleet,
                            !.step = IF Vetted(fleet, routable) THEN "begin" ELSE "fail"]
  <2>1. job' = [job EXCEPT ![o] = k] /\ j.step = "vet"
    BY <1>3 DEF Vet
  <2>2. _validate_answers(j.answers) /\ ToSet(j.answers.sources) \subseteq beenClean
    BY <1>0, <2>1 DEF KnowsJob
  <2>3. CASE Vetted(fleet, routable)
    <3>1. /\ fleet \in Seq(Agents) /\ Sound(fleet, beenClean)
      BY <2>2, <2>3, FleetOf DEF Vetted, Sound, AskedFor
    <3> HIDE DEF fleet, j
    <3>2. k \in Job /\ k.step = "begin" /\ k.fleet = fleet
      BY <1>0, <2>3, <3>1 DEF Job
    <3> HIDE DEF k
    <3> QED
      BY <2>1, <3>1, <3>2 DEF KnowsJob
  <2>4. CASE ~Vetted(fleet, routable)
    <3>1. fleet \in Seq(Agents)
      BY <2>2, FleetOf
    <3> HIDE DEF fleet, j
    <3>2. k \in Job /\ k.step = "fail"
      BY <1>0, <2>4, <3>1 DEF Job
    <3> HIDE DEF k
    <3> QED
      BY <2>1, <3>2 DEF KnowsJob
  <2> QED
    BY <2>3, <2>4
<1>4. ASSUME BeginUpsert(o)
      PROVE  \E k \in Job : job' = [job EXCEPT ![o] = k] /\ KnowsJob(k, beenClean)
  <2> DEFINE k == [j EXCEPT !.step = "rows", !.rows = 0, !.table = specs]
  <2>1. job' = [job EXCEPT ![o] = k] /\ j.step = "begin"
    BY <1>4 DEF BeginUpsert
  <2>2. /\ k \in Job /\ k.step = "rows" /\ k.rows = 0 /\ k.table = specs
        /\ k.fleet = j.fleet /\ j.fleet \in Seq(Agents)
    BY <1>0 DEF Job
  <2>3. Sound(k.fleet, beenClean)
    BY <1>0, <2>1, <2>2 DEF KnowsJob
  <2> HIDE DEF k, j
  <2>4. Holds(k.table, k.fleet, k.rows)
    BY <2>2 DEF Holds
  <2> QED
    BY <1>0, <2>1, <2>2, <2>3, <2>4 DEF KnowsJob
<1>5. ASSUME UpsertRow(o)
      PROVE  \E k \in Job : job' = [job EXCEPT ![o] = k] /\ KnowsJob(k, beenClean)
  <2> DEFINE n == j.rows + 1
             s == j.fleet[n]
             after == Upserted(j.table, s)
             k == [j EXCEPT !.rows = n, !.table = after]
  <2>1. job' = [job EXCEPT ![o] = k] /\ j.step = "rows" /\ j.rows < Len(j.fleet)
    BY <1>5 DEF UpsertRow
  <2>2. /\ j.table \in Tables /\ j.fleet \in Seq(Agents) /\ n \in Nat
        /\ n \in DOMAIN j.fleet /\ s \in Agents
    BY <1>0, <2>1 DEF Job
  <2>3. /\ Sound(j.fleet, beenClean) /\ Clean(j.table, beenClean)
        /\ Holds(j.table, j.fleet, j.rows)
    BY <1>0, <2>1 DEF KnowsJob
  <2>4. /\ after \in Tables /\ DOMAIN after = DOMAIN j.table \cup {s.id}
        /\ after[s.id].spec = s
        /\ \A id \in DOMAIN j.table : id # s.id => after[id] = j.table[id]
    <3>1. after = Upserted(j.table, s)
      OBVIOUS
    <3> HIDE DEF after, s, j
    <3>2. j.table \in Tables /\ s \in Agents
      BY <2>2
    <3> QED
      BY <3>1, <3>2, UpsertedTable
  <2>5. Clean(after, beenClean)
    <3>1. AskedFor(s, beenClean)
      BY <2>2, <2>3 DEF Sound
    <3> HIDE DEF after, s, j
    <3> QED
      BY <2>3, <2>4, <3>1 DEF Clean
  <2>6. Holds(after, j.fleet, n)
    <3> SUFFICES ASSUME NEW i \in DOMAIN j.fleet, i <= n
                 PROVE  /\ j.fleet[i].id \in DOMAIN after
                        /\ after[j.fleet[i].id].spec = j.fleet[i]
      BY SMTT(30) DEF Holds
    <3>1. CASE i = n
      <4> HIDE DEF after
      <4> QED
        BY <2>4, <3>1
    <3>2. CASE i # n
      <4>1. i <= j.rows
        BY <1>0, <2>2, <3>2 DEF Job
      <4>2. j.fleet[i].id # s.id
        BY <2>2, <2>3, <3>2 DEF Sound, Unique
      <4>3. j.fleet[i].id \in DOMAIN j.table /\ j.table[j.fleet[i].id].spec = j.fleet[i]
        BY <2>3, <4>1 DEF Holds
      <4> HIDE DEF after, s, j
      <4> QED
        BY <2>4, <4>2, <4>3
    <3> QED
      BY <3>1, <3>2
  <2> HIDE DEF after, s, n
  <2>7. /\ k \in Job /\ k.step = "rows" /\ k.rows = n /\ k.table = after
        /\ k.fleet = j.fleet
    BY <1>0, <2>1, <2>2, <2>4 DEF Job
  <2> HIDE DEF k, j
  <2> QED
    BY <2>1, <2>3, <2>5, <2>6, <2>7 DEF KnowsJob
<1>6. ASSUME CommitUpsert(o)
      PROVE  \E k \in Job : job' = [job EXCEPT ![o] = k] /\ KnowsJob(k, beenClean)
  <2> DEFINE k == [j EXCEPT !.step = "log"]
  <2>1. job' = [job EXCEPT ![o] = k]
    BY <1>6 DEF CommitUpsert
  <2>2. k \in Job /\ k.step = "log"
    BY <1>0 DEF Job
  <2> HIDE DEF k
  <2> QED
    BY <2>1, <2>2 DEF KnowsJob
<1>7. ASSUME LogFleet(o) \/ LogFailed(o) \/ OnboardingBreaks(o)
      PROVE  \E k \in Job : job' = [job EXCEPT ![o] = k] /\ KnowsJob(k, beenClean)
  <2>1. job' = [job EXCEPT ![o] = IdleJob]
    BY <1>7 DEF LogFleet, LogFailed, OnboardingBreaks
  <2> QED
    BY <2>1, IdleShapes DEF KnowsJob
<1> QED
  BY <1>1, <1>2, <1>3, <1>4, <1>5, <1>6, <1>7 DEF Onboards

(* What an onboarding leaves alone, and what it adds to the events.        *)
Logs(e) == events' = Append(events, e)

LEMMA CountGrows ==
  ASSUME onboardings \in Nat, onboardings' \in {onboardings, onboardings + 1}
  PROVE  onboardings' \in Nat
OBVIOUS

LEMMA OnboardEffect ==
  ASSUME Types, NEW o \in Onboarders, Onboards(o)
  PROVE  /\ UNCHANGED <<clean, beenClean, ask>> /\ onboardings' \in Nat
         /\ UNCHANGED <<specs, last, committed>> \/ CommitUpsert(o)
         /\ UNCHANGED events \/ \E e \in Event : Logs(e)
<1>1. UNCHANGED <<clean, beenClean, ask>>
  BY DEF Onboards, StartOnboarding, Scan, Vet, BeginUpsert, UpsertRow, CommitUpsert,
         LogFleet, LogFailed, OnboardingBreaks
<1>2. onboardings' \in Nat
  <2>1. onboardings' \in {onboardings, onboardings + 1}
    BY DEF Onboards, StartOnboarding, Scan, Vet, BeginUpsert, UpsertRow, CommitUpsert,
           LogFleet, LogFailed, OnboardingBreaks
  <2> QED
    BY <2>1, CountGrows, SMTT(30) DEF Types
<1>3. UNCHANGED <<specs, last, committed>> \/ CommitUpsert(o)
  BY DEF Onboards, StartOnboarding, Scan, Vet, BeginUpsert, UpsertRow,
         LogFleet, LogFailed, OnboardingBreaks
<1>4. UNCHANGED events \/ \E e \in Event : Logs(e)
  <2>1. \A step, by : _log_event(step, by) <=> Logs([step |-> step, by |-> by])
    BY DEF _log_event, Logs
  <2>2. job[o].by \in Nat
    BY DEF Types, Job
  <2>3. \/ UNCHANGED events
        \/ _log_event("onboard_started", onboardings')
        \/ _log_event("corpus_scanned", job[o].by)
        \/ _log_event("fleet_instantiated", job[o].by)
        \/ _log_event("onboard_failed", job[o].by)
    BY DEF Onboards, StartOnboarding, Scan, Vet, BeginUpsert, UpsertRow, CommitUpsert,
           LogFleet, LogFailed, OnboardingBreaks
  <2>4. \A by \in Nat : /\ [step |-> "onboard_started", by |-> by] \in Event
                        /\ [step |-> "corpus_scanned", by |-> by] \in Event
                        /\ [step |-> "fleet_instantiated", by |-> by] \in Event
                        /\ [step |-> "onboard_failed", by |-> by] \in Event
    BY DEF Event
  <2> QED
    BY <1>2, <2>1, <2>2, <2>3, <2>4
<1> QED
  BY <1>1, <1>2, <1>3, <1>4, SMTT(30)

LEMMA AskEffect ==
  ASSUME Types, AskStep
  PROVE  /\ UNCHANGED <<specs, clean, beenClean, job, onboardings, committed, last, overlap>>
         /\ UNCHANGED events \/ Logs([step |-> "first_answer", by |-> 0])
         /\ ask' \in [Askers -> Ask]
         /\ \A t \in Askers : ask'[t].step # "idle" =>
              \/ ask[t].step # "idle" /\ ask'[t].agent = ask[t].agent
              \/ \E id \in DOMAIN specs : ask'[t].agent = specs[id].spec
<1>1. UNCHANGED <<specs, clean, beenClean, job, onboardings, committed, last, overlap>>
  BY DEF AskStep, StartAsk, Answered, AskBreaks, LookForFirst, LogFirst
<1>2. UNCHANGED events \/ Logs([step |-> "first_answer", by |-> 0])
  BY DEF AskStep, StartAsk, Answered, AskBreaks, LookForFirst, LogFirst, Logs, _log_event
<1>3. PICK t \in Askers : \/ \E id \in DOMAIN specs : StartAsk(t, id)
                          \/ Answered(t) \/ AskBreaks(t) \/ LookForFirst(t) \/ LogFirst(t)
  BY DEF AskStep
<1>4. ask \in [Askers -> Ask] /\ ask[t] \in Ask
  BY DEF Types
<1> DEFINE Follows(k) ==
      k.step # "idle" => \/ ask[t].step # "idle" /\ k.agent = ask[t].agent
                         \/ \E id \in DOMAIN specs : k.agent = specs[id].spec
<1>5. \E k \in Ask : ask' = [ask EXCEPT ![t] = k] /\ Follows(k)
  <2>1. ASSUME NEW id \in DOMAIN specs, StartAsk(t, id)
        PROVE  \E k \in Ask : ask' = [ask EXCEPT ![t] = k] /\ Follows(k)
    <3> DEFINE k == [step |-> "answering", agent |-> specs[id].spec]
    <3>1. specs[id].spec \in Agents
      BY DEF Types, Tables, Row
    <3>2. ask' = [ask EXCEPT ![t] = k] /\ k \in Ask /\ k.agent = specs[id].spec
      BY <2>1, <3>1 DEF StartAsk, Ask
    <3> HIDE DEF k
    <3> QED
      BY <3>2
  <2>2. ASSUME NEW step \in {"answered", "first"},
               ask[t].step # "idle", ask' = [ask EXCEPT ![t] = [ask[t] EXCEPT !.step = step]]
        PROVE  \E k \in Ask : ask' = [ask EXCEPT ![t] = k] /\ Follows(k)
    <3> DEFINE k == [ask[t] EXCEPT !.step = step]
    <3>1. k \in Ask /\ k.agent = ask[t].agent
      BY <1>4 DEF Ask
    <3> HIDE DEF k
    <3> QED
      BY <2>2, <3>1 DEF k
  <2>3. CASE ask' = [ask EXCEPT ![t] = IdleAsk]
    BY <2>3, IdleShapes DEF IdleAsk
  <2> QED
    BY <1>3, <2>1, <2>2, <2>3 DEF Answered, AskBreaks, LookForFirst, LogFirst
<1>6. PICK k \in Ask : ask' = [ask EXCEPT ![t] = k] /\ Follows(k)
  BY <1>5
<1>7. ask' \in [Askers -> Ask] /\ ask'[t] = k /\ \A u \in Askers : u # t => ask'[u] = ask[u]
  BY <1>4, <1>6
<1> QED
  BY <1>1, <1>2, <1>6, <1>7

LEMMA TypesStep ==
  ASSUME Types, JobsInv, LiveInv, Next
  PROVE  Types'
<1>1. ASSUME NEW e \in Event, Logs(e) PROVE events' \in Seq(Event)
  BY <1>1, AppendProperties DEF Types, Logs
<1>2. CASE World
  <2>1. /\ UNCHANGED <<specs, events, job, ask, onboardings, last>>
        /\ clean' \subseteq beenClean'
    BY <1>2 DEF World, Types
  <2> QED
    BY <2>1 DEF Types
<1>3. ASSUME NEW o \in Onboarders, Onboards(o) PROVE Types'
  <2>1. events' \in Seq(Event)
    BY <1>1, <1>3, OnboardEffect DEF Types
  <2>2. job' \in [Onboarders -> Job]
    BY <1>3, JobMoves
  <2>3. specs' \in Tables /\ last' \in Seq(Agents)
    <3>1. CASE CommitUpsert(o)
      <4>1. job[o].table \in Tables /\ job[o].fleet \in Seq(Agents)
        BY DEF Types, Job
      <4> QED
        BY <3>1, <4>1 DEF CommitUpsert
    <3> QED
      BY <1>3, <3>1, OnboardEffect DEF Types
  <2> QED
    BY <1>3, <2>1, <2>2, <2>3, OnboardEffect DEF Types
<1>4. CASE AskStep
  <2>1. [step |-> "first_answer", by |-> 0] \in Event
    BY DEF Event
  <2>2. events' \in Seq(Event)
    BY <1>1, <1>4, <2>1, AskEffect DEF Types
  <2> QED
    BY <1>4, <2>2, AskEffect DEF Types
<1> QED
  BY <1>2, <1>3, <1>4, Steps

LEMMA JobsStep ==
  ASSUME Types, JobsInv, LiveInv, Next
  PROVE  JobsInv'
<1>1. CASE World
  <2>1. beenClean \subseteq beenClean' /\ UNCHANGED job
    BY <1>1 DEF World
  <2> QED
    BY <2>1, SeenGrows DEF JobsInv
<1>2. ASSUME NEW o \in Onboarders, Onboards(o) PROVE JobsInv'
  BY <1>2, JobMoves, OnboardEffect DEF JobsInv
<1>3. CASE AskStep
  BY <1>3, AskEffect DEF JobsInv
<1> QED
  BY <1>1, <1>2, <1>3, Steps

LEMMA LiveStep ==
  ASSUME Types, JobsInv, LiveInv, Next
  PROVE  LiveInv'
<1>1. CASE World
  <2>1. beenClean \subseteq beenClean' /\ UNCHANGED <<specs, ask, last>>
    BY <1>1 DEF World
  <2>2. FleetIsWhole'
    BY <2>1 DEF LiveInv, FleetIsWhole
  <2> QED
    BY <2>1, <2>2, SeenGrows DEF LiveInv
<1>2. ASSUME NEW o \in Onboarders, Onboards(o) PROVE LiveInv'
  <2>1. CASE CommitUpsert(o)
    <3>1. /\ job[o].step = "rows" /\ job[o].rows = Len(job[o].fleet)
          /\ specs' = job[o].table /\ last' = job[o].fleet
      BY <2>1 DEF CommitUpsert
    <3>2. /\ Sound(job[o].fleet, beenClean) /\ Clean(job[o].table, beenClean)
          /\ Holds(job[o].table, job[o].fleet, job[o].rows)
      BY <3>1 DEF JobsInv, KnowsJob
    <3>3. \A i \in DOMAIN job[o].fleet : i <= job[o].rows
      BY <3>1 DEF Types, Job
    <3>4. FleetIsWhole'
      BY <3>1, <3>2, <3>3 DEF FleetIsWhole, Holds
    <3> QED
      BY <1>2, <3>1, <3>2, <3>4, OnboardEffect DEF LiveInv
  <2>2. CASE UNCHANGED <<specs, last>>
    <3>1. FleetIsWhole'
      BY <2>2 DEF LiveInv, FleetIsWhole
    <3> QED
      BY <1>2, <2>2, <3>1, OnboardEffect DEF LiveInv
  <2> QED
    BY <1>2, <2>1, <2>2, OnboardEffect
<1>3. CASE AskStep
  <2>1. UNCHANGED <<specs, beenClean, last>>
    BY <1>3, AskEffect
  <2>2. FleetIsWhole'
    BY <2>1 DEF LiveInv, FleetIsWhole
  <2>3. \A t \in Askers : ask'[t].step # "idle" => AskedFor(ask'[t].agent, beenClean)
    BY <1>3, AskEffect DEF LiveInv, Clean
  <2> QED
    BY <2>1, <2>2, <2>3 DEF LiveInv
<1> QED
  BY <1>1, <1>2, <1>3, Steps

(* An event more.                                                          *)
LEMMA OneMore ==
  ASSUME Types, NEW e \in Event, Logs(e)
  PROVE  /\ Len(events) + 1 \notin DOMAIN events
         /\ DOMAIN events' = DOMAIN events \cup {Len(events) + 1}
         /\ events'[Len(events) + 1] = e
         /\ \A i \in DOMAIN events : i < Len(events) + 1 /\ events'[i] = events[i]
<1>1. events \in Seq(Event)
  BY DEF Types
<1>2. Len(events) \in Nat /\ DOMAIN events = 1 .. Len(events)
  BY <1>1, LenProperties
<1>3. /\ DOMAIN events' = 1 .. Len(events) + 1 /\ events'[Len(events) + 1] = e
      /\ \A i \in 1 .. Len(events) : events'[i] = events[i]
  BY <1>1, AppendProperties DEF Logs
<1> QED
  BY <1>2, <1>3

(* Unless it is a start, the last start stays the last.                    *)
LEMMA StartStays ==
  ASSUME Types, NEW e \in Event, Logs(e), e.step # "onboard_started",
         NEW s, LastStart(s)'
  PROVE  LastStart(s)
<1>1. s \in DOMAIN events' /\ events'[s].step = "onboard_started"
  BY DEF LastStart
<1>2. s \in DOMAIN events /\ events[s].step = "onboard_started"
  BY <1>1, OneMore
<1>3. ASSUME NEW j \in DOMAIN events, events[j].step = "onboard_started" PROVE j <= s
  <2>1. j \in DOMAIN events' /\ events'[j].step = "onboard_started"
    BY <1>3, OneMore
  <2> QED
    BY <2>1 DEF LastStart
<1> QED
  BY <1>2, <1>3 DEF LastStart

LEMMA StartIsLast ==
  ASSUME Types, NEW e \in Event, Logs(e), e.step = "onboard_started",
         NEW s, LastStart(s)'
  PROVE  s = Len(events) + 1
<1>1. Len(events) + 1 <= s /\ s \in DOMAIN events'
  BY OneMore DEF LastStart
<1>2. ASSUME s \in DOMAIN events PROVE FALSE
  <2>1. s < Len(events) + 1 /\ s \in Nat /\ Len(events) \in Nat
    BY <1>2, OneMore, LenProperties DEF Types
  <2> QED
    BY <1>1, <2>1
<1> QED
  BY <1>1, <1>2, OneMore

(* A step that starts nothing and logs only what an onboarding committed.  *)
Follows ==
  /\ overlap' = overlap /\ committed \subseteq committed'
  /\ \A o \in Onboarders : job'[o].step # "idle" =>
       job[o].step # "idle" /\ job'[o].by = job[o].by
  /\ \A o \in Onboarders : job'[o].step = "log" => job'[o].by \in committed'
  /\ \/ UNCHANGED events
     \/ \E e \in Event :
          /\ Logs(e) /\ e.step # "onboard_started"
          /\ e.step = "fleet_instantiated" =>
               \E o \in Onboarders : job[o].step = "log" /\ e.by = job[o].by

LEMMA WatchKept ==
  ASSUME Types, WatchInv, Follows
  PROVE  WatchInv'
<1>1. \A o \in Onboarders : job'[o].step = "log" => job'[o].by \in committed'
  BY DEF Follows
<1>2. ASSUME NEW s, LastStart(s)'
      PROVE  LastStart(s) /\ s \in DOMAIN events /\ events'[s] = events[s]
  <2>1. CASE UNCHANGED events
    BY <1>2, <2>1 DEF LastStart
  <2>2. ASSUME NEW e \in Event, Logs(e), e.step # "onboard_started"
        PROVE  LastStart(s) /\ s \in DOMAIN events /\ events'[s] = events[s]
    <3>1. LastStart(s)
      BY <1>2, <2>2, StartStays
    <3>2. s \in DOMAIN events
      BY <3>1 DEF LastStart
    <3> QED
      BY <2>2, <3>1, <3>2, OneMore
  <2> QED
    BY <2>1, <2>2 DEF Follows
<1>3. ASSUME ~overlap', NEW o \in Onboarders, NEW p \in Onboarders,
             job'[o].step # "idle", job'[p].step # "idle"
      PROVE  o = p
  BY <1>3 DEF Follows, WatchInv
<1>4. ASSUME ~overlap', NEW o \in Onboarders, NEW s \in DOMAIN events',
             job'[o].step # "idle", LastStart(s)'
      PROVE  events'[s].by = job'[o].by
  BY <1>2, <1>4 DEF Follows, WatchInv
<1>5. ASSUME ~overlap', NEW s \in DOMAIN events', NEW j \in DOMAIN events',
             LastStart(s)', s <= j, events'[j].step = "fleet_instantiated"
      PROVE  events'[j].by = events'[s].by /\ events'[j].by \in committed'
  <2>0. LastStart(s) /\ s \in DOMAIN events /\ events'[s] = events[s] /\ ~overlap
    BY <1>2, <1>5 DEF Follows
  <2>1. CASE j \in DOMAIN events /\ events'[j] = events[j]
    <3>1. events[j].by = events[s].by /\ events[j].by \in committed
      BY <1>5, <2>0, <2>1 DEF WatchInv
    <3> QED
      BY <2>0, <2>1, <3>1 DEF Follows
  <2>2. ASSUME NEW e \in Event, Logs(e), j = Len(events) + 1,
               e.step = "fleet_instantiated" =>
                 \E o \in Onboarders : job[o].step = "log" /\ e.by = job[o].by
        PROVE  events'[j].by = events'[s].by /\ events'[j].by \in committed'
    <3>1. events'[j] = e
      BY <2>2, OneMore
    <3>2. PICK o \in Onboarders : job[o].step = "log" /\ e.by = job[o].by
      BY <1>5, <2>2, <3>1
    <3>3. job[o].by \in committed /\ events[s].by = job[o].by
      BY <2>0, <3>2 DEF WatchInv
    <3> QED
      BY <2>0, <3>1, <3>2, <3>3 DEF Follows
  <2>3. CASE UNCHANGED events
    BY <1>5, <2>1, <2>3
  <2>4. ASSUME NEW e \in Event, Logs(e),
               e.step = "fleet_instantiated" =>
                 \E o \in Onboarders : job[o].step = "log" /\ e.by = job[o].by
        PROVE  events'[j].by = events'[s].by /\ events'[j].by \in committed'
    BY <1>5, <2>1, <2>2, <2>4, OneMore
  <2> QED
    BY <2>3, <2>4 DEF Follows
<1> QED
  BY <1>1, <1>3, <1>4, <1>5 DEF WatchInv

(* A start, which is a new onboarding's.                                   *)
LEMMA WatchStarts ==
  ASSUME Types, Types', WatchInv, NEW o \in Onboarders, NEW a \in Offers,
         StartOnboarding(o, a)
  PROVE  WatchInv'
<1> DEFINE e == [step |-> "onboard_started", by |-> onboardings']
<1>1. /\ job'[o].by = onboardings' /\ job'[o].step \in {"scan", "fail"}
      /\ \A p \in Onboarders \ {o} : job'[p] = job[p]
  BY DEF StartOnboarding, Types, IdleJob
<1>2. /\ committed' = committed
      /\ ~overlap' => \A p \in Onboarders \ {o} : job[p].step = "idle"
  BY DEF StartOnboarding
<1>3. e \in Event /\ Logs(e) /\ e.step = "onboard_started"
  BY DEF StartOnboarding, _log_event, Logs, Types, Event
<1>4. \A p \in Onboarders : job'[p].step = "log" => job'[p].by \in committed'
  BY <1>1, <1>2 DEF WatchInv
<1>5. ~overlap' => \A p \in Onboarders : job'[p].step # "idle" => p = o
  BY <1>1, <1>2
<1>6. e.by = onboardings'
  OBVIOUS
<1> HIDE DEF e
<1>7. \A s : LastStart(s)' => s = Len(events) + 1 /\ events'[s] = e
  BY <1>3, StartIsLast, OneMore
<1>8. ~overlap' => \A p \in Onboarders, s \in DOMAIN events' :
        job'[p].step # "idle" /\ LastStart(s)' => events'[s].by = job'[p].by
  BY <1>1, <1>5, <1>6, <1>7
<1>9. ASSUME NEW s \in DOMAIN events', NEW j \in DOMAIN events', LastStart(s)', s <= j
      PROVE  events'[j].step # "fleet_instantiated"
  <2>1. s = Len(events) + 1
    BY <1>7, <1>9
  <2>2. j = Len(events) + 1
    <3>1. ASSUME j \in DOMAIN events PROVE FALSE
      <4>1. j < Len(events) + 1 /\ j \in Nat /\ Len(events) \in Nat
        BY <1>3, <3>1, OneMore, LenProperties DEF Types
      <4> QED
        BY <1>9, <2>1, <4>1
    <3> QED
      BY <1>3, <1>9, <3>1, OneMore
  <2> QED
    BY <1>3, <2>2, OneMore
<1> QED
  BY <1>4, <1>5, <1>8, <1>9 DEF WatchInv

LEMMA WatchStep ==
  ASSUME Types, Types', WatchInv, Next
  PROVE  WatchInv'
<1>0. job \in [Onboarders -> Job]
  BY DEF Types
<1>1. CASE World
  <2>1. UNCHANGED <<job, events, committed, overlap>>
    BY <1>1 DEF World
  <2> QED
    BY <2>1, WatchKept DEF Follows, WatchInv
<1>2. CASE AskStep
  <2>1. UNCHANGED <<job, committed, overlap>>
    BY <1>2, AskEffect
  <2> DEFINE e == [step |-> "first_answer", by |-> 0]
  <2>2. e \in Event /\ e.step = "first_answer"
    BY DEF Event
  <2>3. UNCHANGED events \/ Logs(e)
    BY <1>2, AskEffect
  <2> HIDE DEF e
  <2>4. Follows
    BY <2>1, <2>2, <2>3 DEF Follows, WatchInv
  <2> QED
    BY <2>4, WatchKept
<1>3. ASSUME NEW o \in Onboarders, NEW a \in Offers, StartOnboarding(o, a) PROVE WatchInv'
  BY <1>3, WatchStarts
<1> DEFINE Goes(o, step, by) ==
      \A p \in Onboarders :
        \/ p # o /\ job'[p] = job[p]
        \/ p = o /\ job'[p].step = step /\ job'[p].by = by
<1>4. ASSUME NEW o \in Onboarders, Onboards(o),
             NEW step \in {"vet", "begin", "rows", "log", "fail"},
             job[o].step # "idle", Goes(o, step, job[o].by), overlap' = overlap,
             committed \subseteq committed', step = "log" => job[o].by \in committed',
             \/ UNCHANGED events
             \/ \E e \in Event : Logs(e) /\ e.step = "corpus_scanned"
      PROVE  WatchInv'
  BY <1>4, WatchKept DEF Follows, WatchInv
<1>5. ASSUME NEW o \in Onboarders, Scan(o) PROVE WatchInv'
  <2> DEFINE k == [job[o] EXCEPT !.step =
                     IF ToSet(job[o].answers.sources) \subseteq clean THEN "vet" ELSE "fail"]
             e == [step |-> "corpus_scanned", by |-> job[o].by]
  <2>1. job' = [job EXCEPT ![o] = k] /\ Logs(e)
    BY <1>5 DEF Scan, Logs, _log_event
  <2>2. k.by = job[o].by /\ k.step \in {"vet", "fail"} /\ e \in Event /\ e.step = "corpus_scanned"
    BY <1>0 DEF Job, Event
  <2> HIDE DEF k, e
  <2>3. Goes(o, k.step, job[o].by)
    BY <1>0, <2>1, <2>2
  <2> QED
    BY <1>4, <1>5, <2>1, <2>2, <2>3 DEF Scan, Onboards
<1>6. ASSUME NEW o \in Onboarders, Vet(o) PROVE WatchInv'
  <2> DEFINE fleet == _build_fleet(job[o].answers)
             k == [job[o] EXCEPT !.fleet = fleet,
                                 !.step = IF Vetted(fleet, routable) THEN "begin" ELSE "fail"]
  <2>1. /\ job' = [job EXCEPT ![o] = k] /\ job[o].step # "idle"
        /\ UNCHANGED <<events, committed, overlap>>
    BY <1>6 DEF Vet
  <2>2. k.by = job[o].by /\ k.step \in {"begin", "fail"}
    <3> HIDE DEF fleet
    <3> QED
      BY <1>0 DEF Job
  <2> HIDE DEF k, fleet
  <2>3. Goes(o, k.step, job[o].by)
    BY <1>0, <2>1, <2>2
  <2> QED
    BY <1>4, <1>6, <2>1, <2>2, <2>3 DEF Onboards
<1>7. ASSUME NEW o \in Onboarders, BeginUpsert(o) PROVE WatchInv'
  <2>1. Goes(o, "rows", job[o].by)
    BY <1>0, <1>7, SMTT(30) DEF BeginUpsert, Job
  <2> QED
    BY <1>4, <1>7, <2>1 DEF BeginUpsert, Onboards
<1>8. ASSUME NEW o \in Onboarders, UpsertRow(o) PROVE WatchInv'
  <2> DEFINE after == Upserted(job[o].table, job[o].fleet[job[o].rows + 1])
             k == [job[o] EXCEPT !.rows = job[o].rows + 1, !.table = after]
  <2>1. job' = [job EXCEPT ![o] = k]
    BY <1>8 DEF UpsertRow
  <2>2. k.by = job[o].by /\ k.step = "rows"
    <3> HIDE DEF after
    <3> QED
      BY <1>0, <1>8 DEF Job, UpsertRow
  <2> HIDE DEF k, after
  <2>3. Goes(o, "rows", job[o].by)
    BY <1>0, <2>1, <2>2
  <2> QED
    BY <1>4, <1>8, <2>3 DEF UpsertRow, Onboards
<1>9. ASSUME NEW o \in Onboarders, CommitUpsert(o) PROVE WatchInv'
  <2>1. Goes(o, "log", job[o].by)
    BY <1>0, <1>9 DEF CommitUpsert, Job
  <2> QED
    BY <1>4, <1>9, <2>1 DEF CommitUpsert, Onboards
<1>10. ASSUME NEW o \in Onboarders, LogFleet(o) \/ LogFailed(o) \/ OnboardingBreaks(o)
       PROVE  WatchInv'
  <2>1. /\ \A p \in Onboarders : job'[p] = IF p = o THEN IdleJob ELSE job[p]
        /\ UNCHANGED <<committed, overlap>> /\ job[o].by \in Nat
    BY <1>0, <1>10 DEF LogFleet, LogFailed, OnboardingBreaks, Job
  <2>2. \/ UNCHANGED events
        \/ job[o].step = "log" /\ Logs([step |-> "fleet_instantiated", by |-> job[o].by])
        \/ Logs([step |-> "onboard_failed", by |-> job[o].by])
    BY <1>10 DEF LogFleet, LogFailed, OnboardingBreaks, _log_event, Logs
  <2>3. \/ UNCHANGED events
        \/ \E e \in Event :
             /\ Logs(e) /\ e.step # "onboard_started"
             /\ e.step = "fleet_instantiated" =>
                  \E p \in Onboarders : job[p].step = "log" /\ e.by = job[p].by
    <3> DEFINE live   == [step |-> "fleet_instantiated", by |-> job[o].by]
               failed == [step |-> "onboard_failed", by |-> job[o].by]
    <3>1. /\ live \in Event /\ live.step = "fleet_instantiated" /\ live.by = job[o].by
          /\ failed \in Event /\ failed.step = "onboard_failed"
      BY <2>1 DEF Event
    <3>2. \/ UNCHANGED events
          \/ job[o].step = "log" /\ Logs(live)
          \/ Logs(failed)
      BY <2>2
    <3> HIDE DEF live, failed
    <3> QED
      BY <3>1, <3>2
  <2>4. Follows
    BY <2>1, <2>3, IdleShapes DEF Follows, WatchInv
  <2> QED
    BY <2>4, WatchKept
<1> QED
  BY <1>1, <1>2, <1>3, <1>5, <1>6, <1>7, <1>8, <1>9, <1>10, Steps DEF Onboards

LEMMA Inductive == IInv /\ [Next]_vars => IInv'
<1>1. ASSUME IInv, Next PROVE IInv'
  BY <1>1, TypesStep, JobsStep, LiveStep, WatchStep DEF IInv
<1>2. ASSUME IInv, UNCHANGED vars PROVE IInv'
  <2>1. Types' /\ JobsInv'
    BY <1>2 DEF vars, IInv, Types, JobsInv
  <2>2. LiveInv'
    BY <1>2 DEF vars, IInv, LiveInv, FleetIsWhole
  <2>3. WatchInv'
    BY <1>2 DEF vars, IInv, WatchInv, LastStart
  <2> QED
    BY <2>1, <2>2, <2>3 DEF IInv
<1> QED
  BY <1>1, <1>2
-----------------------------------------------------------------------------
(* In every state an onboarding knows of its answers, its fleet and its    *)
(* transaction what instantiate and _upsert_specs rely on at that step.    *)
THEOREM FoundryInvariant == FoundrySpec => []IInv
<1> QED
  BY FoundryInit, Inductive, PTL DEF FoundrySpec

(* "All-or-nothing": the table has the fleet committed last, each agent as *)
(* it was built from one set of answers, for any number of onboardings.    *)
THEOREM FleetsAreWhole == FoundrySpec => []FleetIsWhole
<1>1. IInv => FleetIsWhole
  BY DEF IInv, LiveInv
<1> QED
  BY <1>1, FoundryInvariant, PTL

(* The fleet has three to six agents, no two alike; and an *)
(* agent that watches a source watches one whose chunks had landed,        *)
(* whatever answers are sent and whatever is synced meanwhile.             *)
THEOREM AgentsAreVetted == FoundrySpec => []LiveAgentsAreVetted
<1>1. IInv => LiveAgentsAreVetted
  <2> SUFFICES ASSUME IInv PROVE LiveAgentsAreVetted
    OBVIOUS
  <2>1. last # <<>> => Len(last) \in 3 .. 6 /\ Unique(last)
    BY DEF IInv, LiveInv, Sound
  <2>2. \A id \in DOMAIN specs : AskedFor(specs[id].spec, beenClean)
    BY DEF IInv, LiveInv, Clean
  <2>3. \A t \in Askers : ask[t].step # "idle" => AskedFor(ask[t].agent, beenClean)
    BY DEF IInv, LiveInv
  <2> QED
    BY <2>1, <2>2, <2>3 DEF LiveAgentsAreVetted, AskedFor
<1> QED
  BY <1>1, FoundryInvariant, PTL

LEMMA LatestOf ==
  ASSUME Types, NEW step, Latest(step) # 0
  PROVE  /\ Latest(step) \in Window /\ events[Latest(step)].step = step
         /\ \A j \in Window : events[j].step = step => j <= Latest(step)
<1> DEFINE found == {i \in Window : events[i].step = step}
<1>1. events \in Seq(Event) /\ Len(events) \in Nat /\ DOMAIN events = 1 .. Len(events)
  BY LenProperties DEF Types
<1>2. Latest(step) = IF found = {} THEN 0 ELSE Max(found)
  BY DEF Latest
<1>3. found \in SUBSET (1 .. Len(events))
  BY <1>1 DEF Window
<1>4. found # {} /\ Latest(step) = Max(found)
  BY <1>2
<1> HIDE DEF found
<1>5. Max(found) \in found /\ \A j \in found : j <= Max(found)
  BY <1>1, <1>3, <1>4, Greatest
<1> QED
  BY <1>4, <1>5 DEF found

(* Unless two onboardings overlapped, the page's "fleet live in M:SS" is   *)
(* the time of one onboarding, whose fleet was committed: whatever number  *)
(* of events the page is given.                                            *)
THEOREM StopwatchIsOfOneOnboarding == FoundrySpec => []StopwatchMeasuresOneOnboarding
<1>1. IInv => StopwatchMeasuresOneOnboarding
  <2> DEFINE s == Latest("onboard_started")
             j == Latest("fleet_instantiated")
  <2> SUFFICES ASSUME IInv, ~overlap, Shown("fleet_instantiated")
               PROVE  events[j].by = events[s].by /\ events[j].by \in committed
    BY DEF StopwatchMeasuresOneOnboarding
  <2>1. Types /\ s # 0 /\ j >= s
    BY DEF IInv, Shown
  <2>2. /\ s \in Window /\ events[s].step = "onboard_started"
        /\ \A i \in Window : events[i].step = "onboard_started" => i <= s
    BY <2>1, LatestOf
  <2>3. events \in Seq(Event) /\ Len(events) \in Nat /\ DOMAIN events = 1 .. Len(events)
    BY <2>1, LenProperties DEF Types
  <2> HIDE DEF s
  <2>4. LastStart(s)
    <3>1. s \in DOMAIN events
      BY <2>2 DEF Window
    <3>2. ASSUME NEW i \in DOMAIN events, events[i].step = "onboard_started" PROVE i <= s
      <4>1. CASE i > Len(events) - EventLimit
        BY <2>2, <3>2, <4>1 DEF Window
      <4>2. CASE ~(i > Len(events) - EventLimit)
        BY <2>2, <2>3, <4>2, LimitAssumption DEF Window
      <4> QED
        BY <4>1, <4>2
    <3> QED
      BY <2>2, <3>1, <3>2 DEF LastStart
  <2>5. j # 0
    <3>1. s >= 1
      BY <2>2, <2>3 DEF Window
    <3> QED
      BY <2>1, <2>2, <2>3, <3>1 DEF Window
  <2>6. j \in DOMAIN events /\ events[j].step = "fleet_instantiated"
    BY <2>1, <2>5, LatestOf DEF Window
  <2> HIDE DEF j
  <2>7. s \in DOMAIN events /\ s <= j
    BY <2>1, <2>3, <2>4, <2>6 DEF LastStart
  <2> QED
    BY <2>4, <2>6, <2>7 DEF IInv, WatchInv
<1> QED
  BY <1>1, FoundryInvariant, PTL
=============================================================================
