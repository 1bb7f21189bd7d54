---------------------------- MODULE GraphProofs ----------------------------
(***************************************************************************)
(* What holds of the knowledge graph for any documents, texts and facts,   *)
(* any number of ingests, backfills and faults, and any relation of        *)
(* nearness between labels.                                                *)
(***************************************************************************)
EXTENDS Graph, FiniteSetTheorems, SequenceTheorems, WellFoundedInduction, TLAPS

-----------------------------------------------------------------------------
(* Numbers: induction as a fact about sets, which needs no operator for a  *)
(* parameter, and the greatest element of a bounded set.                   *)
LEMMA LeastNumber ==
  ASSUME NEW S \in SUBSET Nat, S # {}
  PROVE  \E m \in S : \A k \in S : m <= k
<1> DEFINE Less == {pair \in Nat \X Nat : pair[1] < pair[2]}
<1>1. IsWellFoundedOn(Less, Nat)
  BY NatLessThanWellFounded DEF OpToRel
<1> HIDE DEF Less
<1>2. PICK m \in S : \A k \in S : ~(<<k, m>> \in Less)
  BY <1>1, WFMin
<1>3. ASSUME NEW k \in S, k < m PROVE FALSE
  <2>1. <<k, m>> \in Less
    BY <1>3 DEF Less
  <2> QED
    BY <1>2, <2>1
<1> QED
  BY <1>3

LEMMA SetInduction ==
  ASSUME NEW S \in SUBSET Nat, 0 \in S, \A n \in S : n + 1 \in S
  PROVE  S = Nat
<1> SUFFICES ASSUME Nat \ S # {} PROVE FALSE
  OBVIOUS
<1>1. PICK m \in Nat \ S : \A k \in Nat \ S : m <= k
  <2>1. Nat \ S \in SUBSET Nat
    OBVIOUS
  <2> QED
    BY <2>1, LeastNumber
<1>2. m # 0 /\ m - 1 \in Nat /\ ~(m <= m - 1)
  BY <1>1
<1>3. m - 1 \in S
  BY <1>1, <1>2
<1>4. (m - 1) + 1 \in S
  BY <1>3
<1> QED
  BY <1>1, <1>4

LEMMA Greatest ==
  ASSUME NEW n \in Nat, NEW S \in SUBSET (1 .. n), S # {}
  PROVE  Max(S) \in S /\ \A j \in S : j <= Max(S)
<1> DEFINE Bounds == {m \in Nat : \A j \in S : j <= m}
<1>1. PICK m \in Bounds : \A k \in Bounds : m <= k
  <2>1. Bounds \in SUBSET Nat /\ n \in Bounds
    OBVIOUS
  <2> HIDE DEF Bounds
  <2> QED
    BY <2>1, LeastNumber
<1>2. m \in S
  <2> SUFFICES ASSUME m \notin S PROVE FALSE
    OBVIOUS
  <2>1. m \in Nat /\ \A k \in S : k \in Nat /\ k >= 1 /\ k <= m
    BY <1>1
  <2>2. m - 1 \in Nat /\ ~(m <= m - 1)
    <3>1. PICK j \in S : TRUE
      OBVIOUS
    <3>2. j \in Nat /\ j >= 1 /\ j <= m /\ m \in Nat
      BY <2>1
    <3> QED
      BY <3>2
  <2>3. \A k \in S : k <= m - 1
    BY <2>1
  <2> QED
    BY <1>1, <2>2, <2>3
<1>3. \E x \in S : \A y \in S : x >= y
  BY <1>1, <1>2
<1>4. Max(S) \in S /\ \A y \in S : Max(S) >= y
  BY <1>3 DEF Max
<1> QED
  BY <1>4

-----------------------------------------------------------------------------
(* The row ids.                                                            *)
LEMMA NodesAreNodes ==
  /\ NoNode \notin Node
  /\ MaxId \in Nat /\ Ids \subseteq Nat /\ NoId \notin Ids
BY GraphStoreAssumption DEF NoNode, Node, Types, Ids, NoId

LEMMA LiveNodes ==
  ASSUME NEW g \in Graph
  PROVE  /\ Live(g) \in SUBSET Ids
         /\ \A i \in Live(g) : g.node[i] \in Node
         /\ \A i \in Ids \ Live(g) : g.node[i] = NoNode
BY DEF Graph, Live

(* The next id is free, and not larger than it has to be.                  *)
LEMMA NextIdIsFree ==
  ASSUME NEW g \in Graph
  PROVE  /\ NextId(g) \in Nat \ {0} /\ NextId(g) \notin Live(g)
         /\ \A i \in Live(g) : i < NextId(g)
         /\ \A n \in Nat : (\A i \in Live(g) : i <= n) => NextId(g) <= n + 1
<1>1. CASE Live(g) = {}
  BY <1>1 DEF NextId
<1>2. CASE Live(g) # {}
  <2>1. Live(g) \in SUBSET (1 .. MaxId) /\ MaxId \in Nat
    BY LiveNodes, NodesAreNodes DEF Ids
  <2>2. Max(Live(g)) \in Live(g) /\ \A j \in Live(g) : j <= Max(Live(g))
    BY <1>2, <2>1, Greatest
  <2>3. NextId(g) = Max(Live(g)) + 1
    BY <1>2 DEF NextId
  <2> HIDE DEF Live
  <2>4. Max(Live(g)) \in Nat
    BY <2>1, <2>2
  <2>5. \A i \in Live(g) : i \in Nat
    BY <2>1
  <2> QED
    BY <2>2, <2>3, <2>4, <2>5
<1> QED
  BY <1>1, <1>2

LEMMA NextIdGrows ==
  ASSUME NEW g \in Graph, NEW h \in Graph, NEW id \in Ids, id <= NextId(g),
         Live(h) \subseteq Live(g) \cup {id}
  PROVE  NextId(h) <= NextId(g) + 1
<1>1. NextId(g) \in Nat /\ \A i \in Live(g) : i < NextId(g)
  BY NextIdIsFree
<1>2. \A i \in Live(h) : i \in Nat /\ i <= NextId(g)
  <2>1. Live(g) \in SUBSET Nat /\ id \in Nat
    BY LiveNodes, NodesAreNodes
  <2> QED
    BY <1>1, <2>1
<1> QED
  BY <1>1, <1>2, NextIdIsFree
-----------------------------------------------------------------------------
(* Candidates.                                                             *)
Candidates == [id : Ids \cup {NoId}, type : Types, conf : Confs, mentions : Nat]

LEMMA CandidateTypes ==
  ASSUME NEW g \in Graph, NEW i \in Live(g)
  PROVE  Candidate(g, i) \in Candidates /\ Candidate(g, i).id = i
BY LiveNodes, NodesAreNodes DEF Candidate, Candidates, Node

(* Of two rows one outranks the other, if only by its age.                 *)
LEMMA OneOutranks ==
  ASSUME NEW c \in Candidates, NEW d \in Candidates, c.id # d.id
  PROVE  Outranks(c, d) \/ Outranks(d, c)
<1> DEFINE R(n) == rank(c)[n]
           Q(n) == rank(d)[n]
<1>1. \A x \in Candidates :
        /\ Tier(x) \in Int /\ NAMED_ORDER[x.type] \in Int
        /\ x.mentions \in Int /\ x.conf \in Int /\ x.id \in Ids \cup {NoId}
  BY DEF Candidates, Tier, NAMED_ORDER, Types, Confs, Proven
<1>2. \A n \in 1 .. 6 : R(n) \in Int /\ Q(n) \in Int
  <2>1. ASSUME NEW x \in Candidates, NEW n \in 1 .. 6 PROVE rank(x)[n] \in Int
    <3>1. /\ (IF Proven(x) THEN 1 ELSE 0) \in Int
          /\ (IF x.id = NoId THEN -(MaxId + 1) ELSE -x.id) \in Int
      <4>1. x.id \in Nat /\ MaxId \in Nat
        <5>1. x.id \in Ids \cup {NoId}
          BY <1>1
        <5> QED
          BY <5>1, GraphStoreAssumption DEF Ids, NoId
      <4> QED
        BY <4>1 DEF Proven
    <3>2. n = 1 \/ n = 2 \/ n = 3 \/ n = 4 \/ n = 5 \/ n = 6
      OBVIOUS
    <3> QED
      BY <1>1, <3>1, <3>2 DEF rank
  <2> QED
    BY <2>1
<1>3. R(6) # Q(6)
  <2> DEFINE Age(x) == IF x.id = NoId THEN -(MaxId + 1) ELSE -x.id
  <2>1. R(6) = Age(c) /\ Q(6) = Age(d)
    BY DEF rank
  <2>2. c.id \in 0 .. MaxId /\ d.id \in 0 .. MaxId /\ MaxId \in Nat
    BY <1>1, NodesAreNodes DEF Ids, NoId
  <2> QED
    BY <2>1, <2>2 DEF NoId
<1>4. PICK n \in 1 .. 6 : R(n) # Q(n) /\ \A m \in 1 .. (n - 1) : R(m) = Q(m)
  <2> DEFINE D == {n \in 1 .. 6 : R(n) # Q(n)}
  <2> HIDE DEF R, Q
  <2>1. D \in SUBSET Nat /\ 6 \in D
    BY <1>3
  <2> QED
    BY <2>1, LeastNumber
<1>5. R(n) > Q(n) \/ Q(n) > R(n)
  BY <1>2, <1>4
<1> QED
  BY <1>4, <1>5 DEF Outranks

LEMMA WinnerOfOne ==
  ASSUME NEW c PROVE Winner({c}) = c
BY DEF Winner

LEMMA WinnerOfTwo ==
  ASSUME NEW c \in Candidates, NEW d \in Candidates, c.id # d.id
  PROVE  Winner({c, d}) \in {c, d}
<1>1. \E x \in {c, d} : \A y \in {c, d} \ {x} : Outranks(x, y)
  BY OneOutranks
<1> QED
  BY <1>1 DEF Winner
LEMMA OneAfterTheOther ==
  ASSUME NEW x, NEW y PROVE <<x>> \o <<y>> = <<x, y>>
<1> DEFINE s == <<x>>
           t == <<y>>
           u == s \o t
<1>1. /\ s \in Seq({x, y}) /\ Len(s) = 1 /\ s[1] = x
      /\ t \in Seq({x, y}) /\ Len(t) = 1 /\ t[1] = y
      /\ <<x, y>> \in Seq({x, y})
  OBVIOUS
<1> HIDE DEF s, t
<1>2. u \in Seq({x, y}) /\ Len(u) = 2 /\ u[1] = x /\ u[2] = y
  <2> DEFINE S == {x, y}
  <2>1. s \in Seq(S) /\ t \in Seq(S)
    BY <1>1
  <2> HIDE DEF S
  <2>2. /\ u \in Seq(S) /\ Len(u) = Len(s) + Len(t)
        /\ \A i \in 1 .. Len(s) + Len(t) :
              u[i] = IF i <= Len(s) THEN s[i] ELSE t[i - Len(s)]
    BY <2>1, ConcatProperties
  <2> HIDE DEF u
  <2>3. Len(u) = 2 /\ u[1] = x /\ u[2] = y
    BY <1>1, <2>2
  <2> QED
    BY <2>2, <2>3 DEF S
<1> HIDE DEF u
<1>3. u = <<x, y>>
  BY <1>1, <1>2, SeqEqual
<1> QED
  BY <1>3 DEF s, t, u

-----------------------------------------------------------------------------
(* Folds over one and over two candidates.                                 *)
LEMMA OneById ==
  ASSUME NEW c, c.id \in Nat PROVE ById({c}) = <<c>>
<1>1. Cardinality({c}) = 1 /\ Cardinality({}) = 0
  BY FS_Singleton, FS_EmptySet
<1>2. {e \in {c} : e.id < c.id} = {}
  OBVIOUS
<1>3. \A n \in 1 .. 1 :
        (CHOOSE x \in {c} : Cardinality({e \in {c} : e.id < x.id}) = n - 1) = c
  BY <1>1, <1>2
<1> QED
  BY <1>1, <1>3 DEF ById

FoldOne(g, w, c) ==
  IF c.id \in {NoId, w.id} \/ ~MayMerge(g, w, c) THEN g ELSE fold_entity(g, w.id, c.id)

LEMMA FoldAllOfTwo ==
  ASSUME NEW g, NEW w, NEW c, NEW d
  PROVE  FoldAll(g, w, <<c, d>>) = FoldOne(FoldOne(g, w, c), w, d)
<1> DEFINE losers == <<c, d>>
           folds(f) == [n \in 0 .. Len(losers) |->
                          IF n = 0 THEN g ELSE FoldOne(f[n - 1], w, losers[n])]
           result == CHOOSE f : f = folds(f)
           witness == [n \in 0 .. 2 |-> CASE n = 0 -> g
                                          [] n = 1 -> FoldOne(g, w, c)
                                          [] n = 2 -> FoldOne(FoldOne(g, w, c), w, d)]
<1>1. Len(losers) = 2 /\ losers[1] = c /\ losers[2] = d
  OBVIOUS
<1>2. FoldAll(g, w, losers) = result[Len(losers)]
  BY DEF FoldAll, FoldOne
<1> HIDE DEF losers
<1>3. witness = folds(witness)
  <2>1. ASSUME NEW n \in 0 .. 2
        PROVE  witness[n] = IF n = 0 THEN g ELSE FoldOne(witness[n - 1], w, losers[n])
    <3>1. n = 0 \/ n = 1 \/ n = 2
      OBVIOUS
    <3> QED
      BY <1>1, <3>1
  <2> HIDE DEF witness
  <2>2. witness = [n \in 0 .. 2 |-> witness[n]]
    BY DEF witness
  <2> QED
    BY <1>1, <2>1, <2>2
<1> HIDE DEF witness
<1>4. result = folds(result)
  BY <1>3
<1> HIDE DEF result
<1>5. /\ result[0] = g /\ result[1] = FoldOne(result[0], w, losers[1])
      /\ result[2] = FoldOne(result[1], w, losers[2])
  BY <1>1, <1>4
<1> QED
  BY <1>1, <1>2, <1>5 DEF losers
-----------------------------------------------------------------------------
(* A graph in order.  Of the ends of edges nothing is said.                *)
Anchored(g) ==
  /\ \A a \in g.alias : a[2] \in Live(g)
  /\ \A m \in g.mention : m[1] \in Live(g)
  /\ \A e \in g.edge : e.src # e.dst

CountIs(g, i) == g.node[i].count = Cardinality(MentionsOf(g, i)) /\ MentionsOf(g, i) # {}

Unique(g) == \A i, j \in Live(g) : g.node[i].key = g.node[j].key => i = j

Sound(g) ==
  /\ g \in Graph /\ IsFiniteSet(g.mention)
  /\ Anchored(g) /\ Unique(g)
  /\ \A i \in Live(g) : CountIs(g, i)

LEMMA CountsAreNumbers ==
  ASSUME NEW g, IsFiniteSet(g.mention), NEW i
  PROVE  /\ Cardinality(MentionsOf(g, i)) \in Nat
         /\ MentionsOf(g, i) # {} => Cardinality(MentionsOf(g, i)) > 0
<1>1. IsFiniteSet(MentionsOf(g, i))
  BY FS_Subset DEF MentionsOf
<1> QED
  BY <1>1, FS_CardinalityType, FS_EmptySet

(* What a change of a live row leaves alone.                               *)
SameTables(g, h) ==
  /\ Live(h) = Live(g)
  /\ h.alias = g.alias /\ h.mention = g.mention /\ h.edge = g.edge

LEMMA UpdateOfALiveRow ==
  ASSUME NEW g \in Graph, NEW i \in Live(g), NEW node \in Node
  PROVE  /\ Update(g, i, node) \in Graph
         /\ SameTables(g, Update(g, i, node))
         /\ Update(g, i, node).node = [g.node EXCEPT ![i] = node]
<1> DEFINE h == [g EXCEPT !.node[i] = node]
<1>1. Update(g, i, node) = h
  BY DEF Update
<1>2. /\ h.node = [g.node EXCEPT ![i] = node] /\ h \in Graph
      /\ h.alias = g.alias /\ h.mention = g.mention /\ h.edge = g.edge
  BY LiveNodes DEF Graph
<1>3. Live(h) = Live(g)
  <2>1. \A j \in Ids : h.node[j] = IF j = i THEN node ELSE g.node[j]
    BY <1>2, LiveNodes DEF Graph
  <2> QED
    BY <2>1, NodesAreNodes, LiveNodes DEF Live
<1> QED
  BY <1>1, <1>2, <1>3 DEF SameTables

(* The last statement of a folding and of a sighting puts the count right. *)
LEMMA CountingMakesSound ==
  ASSUME NEW g \in Graph, IsFiniteSet(g.mention), Anchored(g), Unique(g),
         NEW i \in Live(g), MentionsOf(g, i) # {},
         \A j \in Live(g) \ {i} : CountIs(g, j)
  PROVE  /\ Sound(Counted(g, i)) /\ SameTables(g, Counted(g, i))
         /\ \A j \in Ids : Counted(g, i).node[j].key = g.node[j].key
<1> DEFINE node == [g.node[i] EXCEPT !.count = Cardinality(MentionsOf(g, i))]
           h == Counted(g, i)
<1>1. node \in Node /\ node.key = g.node[i].key /\ node.count = Cardinality(MentionsOf(g, i))
  <2>1. g.node[i] \in Node /\ Cardinality(MentionsOf(g, i)) \in Nat
    BY LiveNodes, CountsAreNumbers
  <2> QED
    BY <2>1 DEF Node
<1>2. h = Update(g, i, node)
  BY DEF Counted
<1> HIDE DEF h, node
<1>3. h \in Graph /\ SameTables(g, h) /\ h.node = [g.node EXCEPT ![i] = node]
  BY <1>1, <1>2, UpdateOfALiveRow
<1>4. i \in Ids /\ g.node \in [Ids -> Node \cup {NoNode}]
  BY LiveNodes DEF Graph
<1>5. \A j \in Ids : h.node[j] = IF j = i THEN node ELSE g.node[j]
  BY <1>3, <1>4
<1>6. \A j : MentionsOf(h, j) = MentionsOf(g, j)
  BY <1>3 DEF MentionsOf, SameTables
<1>7. \A j \in Ids : h.node[j].key = g.node[j].key
  BY <1>1, <1>5
<1>8. Anchored(h) /\ Unique(h)
  <2>1. Live(g) \in SUBSET Ids
    BY LiveNodes
  <2> QED
    BY <1>3, <1>7, <2>1 DEF Anchored, Unique, SameTables
<1>9. \A j \in Live(h) : CountIs(h, j)
  <2>1. Live(h) = Live(g) /\ Live(g) \in SUBSET Ids
    BY <1>3, LiveNodes DEF SameTables
  <2> QED
    BY <1>1, <1>5, <1>6, <2>1 DEF CountIs
<1>10. IsFiniteSet(h.mention)
  BY <1>3 DEF SameTables
<1> QED
  BY <1>3, <1>7, <1>8, <1>9, <1>10 DEF Sound, h
-----------------------------------------------------------------------------
(* Everything the folded row owned is the other row's.                     *)
At(w, l) == [i \in Ids |-> IF i = l THEN w ELSE i]

MovedEdge(at, e) == [e EXCEPT !.src = at[e.src], !.dst = at[e.dst]]

LEMMA MovedEdgesAreEdges ==
  ASSUME NEW at \in [Ids -> Ids], NEW e \in Edge
  PROVE  /\ MovedEdge(at, e) \in Edge
         /\ MovedEdge(at, e).src = at[e.src] /\ MovedEdge(at, e).dst = at[e.dst]
         /\ MovedEdge(at, e).doc = e.doc
BY DEF MovedEdge, Edge

Moved(at, g, h) ==
  /\ h.alias = {<<a[1], at[a[2]]>> : a \in g.alias}
  /\ h.mention = {<<at[m[1]], m[2], m[3]>> : m \in g.mention}
  /\ \A e \in g.edge : at[e.src] # at[e.dst] => MovedEdge(at, e) \in h.edge

LEMMA FoldingIsSound ==
  ASSUME NEW g, Sound(g), NEW w \in Live(g), NEW l \in Live(g), w # l
  PROVE  /\ Sound(fold_entity(g, w, l)) /\ Moved(At(w, l), g, fold_entity(g, w, l))
         /\ Live(fold_entity(g, w, l)) = Live(g) \ {l}
         /\ \A i \in Live(g) \ {l} : fold_entity(g, w, l).node[i].key = g.node[i].key
<1> DEFINE at == At(w, l)
           raised == Raise(g.node[w], g.node[l].conf)
           up == Update(g, w, raised)
           h == [node    |-> [up.node EXCEPT ![l] = NoNode],
                 alias   |-> {<<a[1], at[a[2]]>> : a \in g.alias},
                 mention |-> {<<at[m[1]], m[2], m[3]>> : m \in g.mention},
                 edge    |-> {MovedEdge(at, e) : e \in {f \in g.edge : {f.src, f.dst} # {w, l}}}]
<1>1. /\ g \in Graph /\ IsFiniteSet(g.mention) /\ Anchored(g) /\ Unique(g)
      /\ \A i \in Live(g) : CountIs(g, i)
  BY DEF Sound
<1>2. /\ w \in Ids /\ l \in Ids /\ Live(g) \in SUBSET Ids
      /\ g.node[w] \in Node /\ g.node[l] \in Node
  BY <1>1, LiveNodes
<1>3. at \in [Ids -> Ids] /\ \A i \in Ids : at[i] = IF i = l THEN w ELSE i
  BY <1>2 DEF At
<1>4. /\ \A a \in g.alias : a[1] \in Keys /\ a[2] \in Ids /\ a[2] \in Live(g)
      /\ \A m \in g.mention : /\ m[1] \in Ids /\ m[2] \in Docs /\ m[3] \in Chunks
                              /\ m[1] \in Live(g)
      /\ \A e \in g.edge : e \in Edge /\ e.src \in Ids /\ e.dst \in Ids /\ e.src # e.dst
  BY <1>1 DEF Graph, Anchored, Edge
<1>5. raised \in Node /\ raised.key = g.node[w].key /\ raised.count = g.node[w].count
  BY <1>2 DEF Raise, Node
<1>6. up.node = [g.node EXCEPT ![w] = raised] /\ up \in Graph
  BY <1>1, <1>5, UpdateOfALiveRow
<1>7. fold_entity(g, w, l) = Counted(h, w)
  <2>1. \A a \in g.alias : <<a[1], at[a[2]]>> = <<a[1], IF a[2] = l THEN w ELSE a[2]>>
    BY <1>3, <1>4
  <2>2. \A m \in g.mention :
          <<at[m[1]], m[2], m[3]>> = <<IF m[1] = l THEN w ELSE m[1], m[2], m[3]>>
    BY <1>3, <1>4
  <2>3. \A e \in g.edge :
          MovedEdge(at, e) = [e EXCEPT !.src = IF e.src = l THEN w ELSE e.src,
                                       !.dst = IF e.dst = l THEN w ELSE e.dst]
    BY <1>3, <1>4 DEF MovedEdge, Edge
  <2> HIDE DEF at
  <2>4. {<<a[1], at[a[2]]>> : a \in g.alias}
          = {<<a[1], IF a[2] = l THEN w ELSE a[2]>> : a \in g.alias}
    BY <2>1
  <2>5. {<<at[m[1]], m[2], m[3]>> : m \in g.mention}
          = {<<IF m[1] = l THEN w ELSE m[1], m[2], m[3]>> : m \in g.mention}
    BY <2>2
  <2>6. {MovedEdge(at, e) : e \in {f \in g.edge : {f.src, f.dst} # {w, l}}}
          = {[e EXCEPT !.src = IF e.src = l THEN w ELSE e.src,
                       !.dst = IF e.dst = l THEN w ELSE e.dst] :
               e \in {f \in g.edge : {f.src, f.dst} # {w, l}}}
    <3> DEFINE Written(e) == [e EXCEPT !.src = IF e.src = l THEN w ELSE e.src,
                                       !.dst = IF e.dst = l THEN w ELSE e.dst]
               Kept == {f \in g.edge : {f.src, f.dst} # {w, l}}
    <3>1. \A e \in Kept : MovedEdge(at, e) = Written(e)
      BY <2>3
    <3> HIDE DEF Written, Kept
    <3>2. {MovedEdge(at, e) : e \in Kept} = {Written(e) : e \in Kept}
      BY <3>1
    <3> QED
      BY <3>2 DEF Written, Kept
  <2> QED
    BY <2>4, <2>5, <2>6 DEF fold_entity
<1>8. \A i \in Ids : h.node[i] = IF i = l THEN NoNode ELSE IF i = w THEN raised ELSE g.node[i]
  BY <1>1, <1>6 DEF Graph
<1> HIDE DEF at, raised, up
<1>9. h \in Graph
  <2>1. h.node \in [Ids -> Node \cup {NoNode}]
    BY <1>6 DEF Graph
  <2>2. h.alias \in SUBSET (Keys \X Ids)
    BY <1>3, <1>4
  <2>3. h.mention \in SUBSET (Ids \X Docs \X Chunks)
    BY <1>3, <1>4
  <2>4. h.edge \in SUBSET Edge
    BY <1>3, <1>4, MovedEdgesAreEdges
  <2> QED
    BY <2>1, <2>2, <2>3, <2>4 DEF Graph
<1>10. Live(h) = Live(g) \ {l}
  BY <1>2, <1>5, <1>8, NodesAreNodes DEF Live
<1>11. IsFiniteSet(h.mention)
  <2> DEFINE f == [m \in g.mention |-> <<at[m[1]], m[2], m[3]>>]
  <2>1. f \in Surjection(g.mention, h.mention)
    BY DEF Surjection
  <2> QED
    BY <1>1, <2>1, FS_Surjection
<1>12. Anchored(h)
  <2>1. \A a \in h.alias : a[2] \in Live(h)
    <3> SUFFICES ASSUME NEW a \in g.alias PROVE at[a[2]] \in Live(h)
      OBVIOUS
    <3> QED
      BY <1>2, <1>3, <1>4, <1>10
  <2>2. \A m \in h.mention : m[1] \in Live(h)
    <3> SUFFICES ASSUME NEW n \in h.mention PROVE n[1] \in Live(h)
      OBVIOUS
    <3>1. PICK m \in g.mention : n = <<at[m[1]], m[2], m[3]>>
      OBVIOUS
    <3>2. n[1] = at[m[1]] /\ m[1] \in Ids /\ m[1] \in Live(g)
      BY <1>4, <3>1
    <3> HIDE DEF h
    <3> QED
      BY <1>2, <1>3, <1>10, <3>2
  <2>3. \A e \in h.edge : e.src # e.dst
    <3> SUFFICES ASSUME NEW e \in g.edge, {e.src, e.dst} # {w, l}
                 PROVE  MovedEdge(at, e).src # MovedEdge(at, e).dst
      OBVIOUS
    <3> QED
      BY <1>3, <1>4, MovedEdgesAreEdges
  <2> QED
    BY <2>1, <2>2, <2>3 DEF Anchored
<1>13. \A i \in Live(h) : h.node[i].key = g.node[i].key
  BY <1>2, <1>5, <1>8, <1>10
<1>14. Unique(h)
  BY <1>1, <1>10, <1>13 DEF Unique
<1>15. MentionsOf(h, w) # {}
  <2>1. PICK m \in MentionsOf(g, w) : TRUE
    BY <1>1 DEF CountIs
  <2>2. m \in g.mention /\ m[1] = w
    BY <2>1 DEF MentionsOf
  <2>3. <<at[m[1]], m[2], m[3]>> \in MentionsOf(h, w)
    BY <1>2, <1>3, <2>2 DEF MentionsOf
  <2> QED
    BY <2>3
<1>16. \A i \in Live(h) \ {w} : CountIs(h, i)
  <2> SUFFICES ASSUME NEW i \in Live(h) \ {w} PROVE CountIs(h, i)
    OBVIOUS
  <2>1. i \in Live(g) /\ i # l /\ i # w /\ i \in Ids
    BY <1>2, <1>10
  <2>2. h.node[i] = g.node[i]
    BY <1>8, <2>1
  <2>3. \A m \in g.mention : m = <<m[1], m[2], m[3]>>
    BY <1>1 DEF Graph
  <2>4. MentionsOf(h, i) = MentionsOf(g, i)
    BY <1>3, <1>4, <2>1, <2>3 DEF MentionsOf
  <2> QED
    BY <1>1, <2>1, <2>2, <2>4 DEF CountIs
<1>17. w \in Live(h)
  BY <1>10
<1>18. Moved(at, g, h)
  <2>1. \A e \in g.edge : at[e.src] # at[e.dst] => {e.src, e.dst} # {w, l}
    BY <1>2, <1>3, <1>4
  <2> QED
    BY <2>1 DEF Moved
<1> HIDE DEF h
<1>19. /\ Sound(Counted(h, w)) /\ SameTables(h, Counted(h, w))
       /\ \A j \in Ids : Counted(h, w).node[j].key = h.node[j].key
  BY <1>9, <1>11, <1>12, <1>14, <1>15, <1>16, <1>17, CountingMakesSound
<1>20. Moved(at, g, Counted(h, w)) /\ Live(Counted(h, w)) = Live(g) \ {l}
  BY <1>10, <1>18, <1>19 DEF Moved, SameTables
<1>21. \A i \in Live(g) \ {l} : Counted(h, w).node[i].key = g.node[i].key
  BY <1>2, <1>10, <1>13, <1>19
<1> QED
  BY <1>7, <1>19, <1>20, <1>21 DEF at
-----------------------------------------------------------------------------
(* A row that keeps its key and its count.                                 *)
LEMMA ChangingARowIsSound ==
  ASSUME NEW g, Sound(g), NEW i \in Live(g), NEW node \in Node,
         node.key = g.node[i].key, node.count = g.node[i].count
  PROVE  /\ Sound(Update(g, i, node)) /\ SameTables(g, Update(g, i, node))
         /\ \A j \in Live(g) : Update(g, i, node).node[j].key = g.node[j].key
<1> DEFINE h == Update(g, i, node)
<1>1. /\ g \in Graph /\ IsFiniteSet(g.mention) /\ Anchored(g) /\ Unique(g)
      /\ \A j \in Live(g) : CountIs(g, j)
  BY DEF Sound
<1>2. h \in Graph /\ SameTables(g, h) /\ h.node = [g.node EXCEPT ![i] = node]
  BY <1>1, UpdateOfALiveRow
<1> HIDE DEF h
<1>3. i \in Ids /\ Live(g) \in SUBSET Ids /\ g.node \in [Ids -> Node \cup {NoNode}]
  BY <1>1, LiveNodes DEF Graph
<1>4. \A j \in Live(g) : h.node[j].key = g.node[j].key /\ h.node[j].count = g.node[j].count
  BY <1>2, <1>3
<1>5. \A j : MentionsOf(h, j) = MentionsOf(g, j)
  BY <1>2 DEF MentionsOf, SameTables
<1>6. \A j \in Live(h) : CountIs(h, j)
  BY <1>1, <1>2, <1>4, <1>5 DEF CountIs, SameTables
<1>7. Anchored(h) /\ Unique(h) /\ IsFiniteSet(h.mention)
  BY <1>1, <1>2, <1>4 DEF Anchored, Unique, SameTables
<1> QED
  BY <1>2, <1>4, <1>6, <1>7 DEF Sound, h

(* A sighting writes one row, new or not, one alias and one mention.       *)
Sighted(g, i, s, doc, chunk, r) ==
  /\ Sound(r.graph) /\ r.id \in Ids
  /\ r.id = IF i = NoId THEN NextId(g) ELSE i
  /\ Live(r.graph) = Live(g) \cup {r.id}
  /\ r.graph.alias = g.alias \cup {<<s.key, r.id>>}
  /\ r.graph.mention = g.mention \cup {<<r.id, doc, chunk>>}
  /\ r.graph.edge = g.edge

LEMMA SightingIsSound ==
  ASSUME NEW g, Sound(g), NEW i \in Live(g) \cup {NoId}, NEW s \in Sighting,
         NEW doc \in Docs, NEW chunk \in Chunks,
         i = NoId => /\ NextId(g) \in Ids
                     /\ \A j \in Live(g) : g.node[j].key # s.key
  PROVE  Sighted(g, i, s, doc, chunk, Sight(g, i, s, doc, chunk))
<1> DEFINE id   == IF i = NoId THEN NextId(g) ELSE i
           node == [key |-> s.key, type |-> s.type, conf |-> s.conf, count |-> 0]
           up   == IF i = NoId THEN [g EXCEPT !.node[id] = node]
                   ELSE Update(g, i, Raise(g.node[i], s.conf))
           h    == [up EXCEPT !.alias = @ \cup {<<s.key, id>>},
                              !.mention = @ \cup {<<id, doc, chunk>>}]
<1>1. Sight(g, i, s, doc, chunk) = [graph |-> Counted(h, id), id |-> id]
  BY DEF Sight
<1>2. /\ g \in Graph /\ IsFiniteSet(g.mention) /\ Anchored(g) /\ Unique(g)
      /\ \A j \in Live(g) : CountIs(g, j)
  BY DEF Sound
<1>3. /\ Live(g) \in SUBSET Ids /\ NoId \notin Ids
      /\ g.node \in [Ids -> Node \cup {NoNode}]
      /\ \A j \in Live(g) : g.node[j] \in Node
  BY <1>2, LiveNodes, NodesAreNodes DEF Graph
<1>4. id \in Ids /\ (i = NoId => id \notin Live(g)) /\ (i # NoId => id \in Live(g))
  BY <1>2, <1>3, NextIdIsFree
<1>5. /\ up \in Graph /\ Live(up) = Live(g) \cup {id}
      /\ up.alias = g.alias /\ up.mention = g.mention /\ up.edge = g.edge
      /\ \A j \in Live(g) : up.node[j].key = g.node[j].key
      /\ \A j \in Live(g) \ {id} : up.node[j].count = g.node[j].count
      /\ i = NoId => up.node[id].key = s.key
  <2>1. CASE i = NoId
    <3>1. node \in Node
      BY DEF Node, Sighting
    <3>2. up = [g EXCEPT !.node[id] = node]
      BY <2>1
    <3> HIDE DEF up, id
    <3>3. /\ up.node = [g.node EXCEPT ![id] = node] /\ up \in Graph
          /\ up.alias = g.alias /\ up.mention = g.mention /\ up.edge = g.edge
      BY <1>2, <1>4, <3>1, <3>2 DEF Graph
    <3>4. \A j \in Ids : up.node[j] = IF j = id THEN node ELSE g.node[j]
      BY <1>3, <1>4, <3>3
    <3>5. Live(up) = Live(g) \cup {id}
      BY <1>4, <3>1, <3>4, NodesAreNodes DEF Live
    <3>6. \A j \in Live(g) : j # id /\ j \in Ids
      BY <1>3, <1>4, <2>1
    <3> QED
      BY <1>3, <1>4, <3>3, <3>4, <3>5, <3>6
  <2>2. CASE i # NoId
    <3>1. i \in Live(g) /\ id = i
      BY <2>2
    <3>2. /\ Raise(g.node[i], s.conf) \in Node
          /\ Raise(g.node[i], s.conf).key = g.node[i].key
          /\ Raise(g.node[i], s.conf).count = g.node[i].count
      BY <1>3, <3>1 DEF Raise, Node, Sighting
    <3>3. up = Update(g, i, Raise(g.node[i], s.conf))
      BY <2>2
    <3> HIDE DEF up, id
    <3>4. /\ Sound(up) /\ SameTables(g, up)
          /\ \A j \in Live(g) : up.node[j].key = g.node[j].key
      BY <3>1, <3>2, <3>3, ChangingARowIsSound
    <3>5. up.node = [g.node EXCEPT ![i] = Raise(g.node[i], s.conf)]
      BY <1>2, <3>1, <3>2, <3>3, UpdateOfALiveRow
    <3> QED
      BY <1>3, <2>2, <3>1, <3>4, <3>5 DEF Sound, SameTables
  <2> QED
    BY <2>1, <2>2
<1> HIDE DEF up, id
<1>6. /\ h \in Graph /\ h.node = up.node /\ h.edge = g.edge
      /\ h.alias = g.alias \cup {<<s.key, id>>}
      /\ h.mention = g.mention \cup {<<id, doc, chunk>>}
  <2>1. <<s.key, id>> \in Keys \X Ids /\ <<id, doc, chunk>> \in Ids \X Docs \X Chunks
    BY <1>4 DEF Sighting
  <2>2. /\ up \in Graph /\ up.edge = g.edge
        /\ up.alias = g.alias /\ up.mention = g.mention
    BY <1>5
  <2> DEFINE a == up.alias \cup {<<s.key, id>>}
             m == up.mention \cup {<<id, doc, chunk>>}
  <2>3. a \in SUBSET (Keys \X Ids) /\ m \in SUBSET (Ids \X Docs \X Chunks)
    BY <2>1, <2>2 DEF Graph
  <2>4. h = [up EXCEPT !.alias = a, !.mention = m]
    BY <2>2 DEF Graph
  <2> HIDE DEF h, a, m
  <2>5. /\ h \in Graph /\ h.node = up.node /\ h.edge = up.edge
        /\ h.alias = a /\ h.mention = m
    BY <2>2, <2>3, <2>4 DEF Graph
  <2> QED
    BY <2>2, <2>5 DEF a, m
<1> HIDE DEF h
<1>7. Live(h) = Live(g) \cup {id}
  BY <1>5, <1>6 DEF Live
<1>8. IsFiniteSet(h.mention)
  <2>1. IsFiniteSet(g.mention \cup {<<id, doc, chunk>>})
    BY <1>2, FS_AddElement
  <2> QED
    BY <1>6, <2>1
<1>9. Anchored(h)
  BY <1>2, <1>6, <1>7 DEF Anchored
<1>10. Unique(h)
  <2>1. CASE i = NoId
    <3>1. \A j \in Live(g) : h.node[j].key = g.node[j].key /\ g.node[j].key # s.key
      BY <1>5, <1>6, <2>1
    <3>2. h.node[id].key = s.key
      BY <1>5, <1>6, <2>1
    <3> QED
      BY <1>2, <1>7, <3>1, <3>2 DEF Unique
  <2>2. CASE i # NoId
    BY <1>2, <1>4, <1>5, <1>6, <1>7, <2>2 DEF Unique
  <2> QED
    BY <2>1, <2>2
<1>11. MentionsOf(h, id) # {}
  <2>1. <<id, doc, chunk>> \in MentionsOf(h, id)
    BY <1>6 DEF MentionsOf
  <2> QED
    BY <2>1
<1>12. \A j \in Live(h) \ {id} : CountIs(h, j)
  <2> SUFFICES ASSUME NEW j \in Live(h) \ {id} PROVE CountIs(h, j)
    OBVIOUS
  <2>1. j \in Live(g) /\ h.node[j].count = g.node[j].count
    BY <1>5, <1>6, <1>7
  <2>2. MentionsOf(h, j) = MentionsOf(g, j)
    BY <1>6 DEF MentionsOf
  <2> QED
    BY <1>2, <2>1, <2>2 DEF CountIs
<1>13. Sound(Counted(h, id)) /\ SameTables(h, Counted(h, id))
  BY <1>6, <1>7, <1>8, <1>9, <1>10, <1>11, <1>12, CountingMakesSound
<1> QED
  BY <1>1, <1>4, <1>6, <1>7, <1>13 DEF SameTables, Sighted, id
-----------------------------------------------------------------------------
(* What _reconcile_types reads of a graph in order: a live row or none, at *)
(* most one other row of the key, and if there is none and no row either,  *)
(* the key is new.                                                         *)
LEMMA LookUpIsLive ==
  ASSUME NEW g \in Graph, NEW s \in Sighting
  PROVE  /\ LookUp(g, s) \in Live(g) \cup {NoId}
         /\ LookUp(g, s) = NoId =>
              \A i \in Live(g) : ~(g.node[i].key = s.key /\ g.node[i].type = s.type)
<1> DEFINE OfType  == {i \in Live(g) : g.node[i].type = s.type}
           exact   == {i \in OfType : g.node[i].key = s.key}
           aliased == {i \in OfType : <<s.key, i>> \in g.alias}
           fuzzy   == {i \in OfType : <<s.key, g.node[i].key>> \in Near}
<1>1. \A S \in SUBSET Live(g) : S # {} => Max(S) \in S /\ Min(S) \in S
  <2> SUFFICES ASSUME NEW S \in SUBSET Live(g), S # {} PROVE Max(S) \in S /\ Min(S) \in S
    OBVIOUS
  <2>1. S \in SUBSET (1 .. MaxId) /\ MaxId \in Nat
    BY LiveNodes, NodesAreNodes DEF Ids
  <2>2. Max(S) \in S
    BY <2>1, Greatest
  <2>3. S \in SUBSET Nat
    BY <2>1
  <2>4. PICK m \in S : \A k \in S : m <= k
    BY <2>3, LeastNumber
  <2> QED
    BY <2>2, <2>4 DEF Min
<1>2. /\ exact \in SUBSET Live(g) /\ aliased \in SUBSET Live(g) /\ fuzzy \in SUBSET Live(g)
  OBVIOUS
<1>3. LookUp(g, s) = CASE exact # {} -> Min(exact)
                       [] exact = {} /\ aliased # {} -> Min(aliased)
                       [] exact = {} /\ aliased = {} /\ fuzzy # {} -> Max(fuzzy)
                       [] OTHER -> NoId
  BY DEF LookUp
<1>4. exact = {} => \A i \in Live(g) : ~(g.node[i].key = s.key /\ g.node[i].type = s.type)
  OBVIOUS
<1> HIDE DEF exact, aliased, fuzzy
<1>5. exact # {} => LookUp(g, s) \in Live(g)
  BY <1>1, <1>2, <1>3
<1>6. exact = {} => LookUp(g, s) \in Live(g) \cup {NoId}
  BY <1>1, <1>2, <1>3
<1>7. NoId \notin Live(g)
  BY LiveNodes, NodesAreNodes
<1> QED
  BY <1>4, <1>5, <1>6, <1>7

LEMMA NoSiblingsOrOne ==
  ASSUME NEW g, Sound(g), NEW s \in Sighting, NEW same, Siblings(g, s, same) # {}
  PROVE  \E i \in Live(g) : /\ Siblings(g, s, same) = {Candidate(g, i)}
                            /\ g.node[i].key = s.key /\ i # same
<1> DEFINE rows == {j \in Live(g) : g.node[j].key = s.key /\ g.node[j].type # s.type /\ j # same}
<1>1. Siblings(g, s, same) = {Candidate(g, i) : i \in rows}
  BY DEF Siblings
<1>2. PICK i \in rows : TRUE
  BY <1>1
<1>3. rows = {i}
  BY <1>2 DEF Sound, Unique
<1> QED
  BY <1>1, <1>2, <1>3

-----------------------------------------------------------------------------
(* Rows that are gone have been redirected to id.                          *)
Redirects(at, id, g, h) ==
  /\ at \in [Ids -> Ids] /\ Moved(at, g, h)
  /\ \A i \in Ids : at[i] # i => at[i] = id /\ i \notin Live(h)

Itself == [i \in Ids |-> i]

LEMMA NothingMoves ==
  ASSUME NEW g \in Graph, NEW h, SameTables(g, h), NEW id
  PROVE  Redirects(Itself, id, g, h)
<1>1. /\ \A a \in g.alias : a[2] \in Ids /\ a = <<a[1], a[2]>>
      /\ \A m \in g.mention : m[1] \in Ids /\ m = <<m[1], m[2], m[3]>>
      /\ \A e \in g.edge : e \in Edge /\ e.src \in Ids /\ e.dst \in Ids
  BY DEF Graph, Edge
<1>2. \A i \in Ids : Itself[i] = i
  BY DEF Itself
<1>3. \A a \in g.alias : <<a[1], Itself[a[2]]>> = a
  BY <1>1, <1>2
<1>4. \A m \in g.mention : <<Itself[m[1]], m[2], m[3]>> = m
  BY <1>1, <1>2
<1>5. \A e \in g.edge : MovedEdge(Itself, e) = e
  BY <1>1, <1>2 DEF MovedEdge, Edge
<1>6. Moved(Itself, g, h)
  BY <1>3, <1>4, <1>5 DEF Moved, SameTables
<1> QED
  BY <1>2, <1>6 DEF Redirects, Itself

LEMMA FoldingRedirects ==
  ASSUME NEW g, Sound(g), NEW w \in Live(g), NEW l \in Live(g), w # l
  PROVE  Redirects(At(w, l), w, g, fold_entity(g, w, l))
<1>1. w \in Ids /\ l \in Ids
  BY LiveNodes DEF Sound
<1>2. At(w, l) \in [Ids -> Ids] /\ \A i \in Ids : At(w, l)[i] = IF i = l THEN w ELSE i
  BY <1>1 DEF At
<1> QED
  BY <1>2, FoldingIsSound DEF Redirects
-----------------------------------------------------------------------------
(* One row is left of those that were read.                                *)
Reconciled(g, s, r) ==
  /\ Sound(r.graph) /\ Live(r.graph) \subseteq Live(g)
  /\ r.id \in Live(r.graph) \cup {NoId}
  /\ r.id = NoId => \A i \in Live(r.graph) : r.graph.node[i].key # s.key
  /\ \E at : Redirects(at, r.id, g, r.graph)

LEMMA UnchangedReconciled ==
  ASSUME NEW g, Sound(g), NEW s, NEW h, Sound(h), SameTables(g, h), NEW id \in Live(g) \cup {NoId},
         id = NoId => \A i \in Live(h) : h.node[i].key # s.key
  PROVE  Reconciled(g, s, [graph |-> h, id |-> id])
<1>1. Redirects(Itself, id, g, h)
  BY NothingMoves DEF Sound
<1>2. Live(h) = Live(g)
  BY DEF SameTables
<1> QED
  BY <1>1, <1>2 DEF Reconciled

LEMMA FoldedReconciled ==
  ASSUME NEW g, Sound(g), NEW s, NEW w \in Live(g), NEW l \in Live(g), w # l
  PROVE  Reconciled(g, s, [graph |-> fold_entity(g, w, l), id |-> w])
<1> DEFINE h == fold_entity(g, w, l)
<1>1. Sound(h) /\ Live(h) = Live(g) \ {l} /\ Redirects(At(w, l), w, g, h)
  BY FoldingIsSound, FoldingRedirects
<1>2. w # NoId
  BY LiveNodes, NodesAreNodes DEF Sound
<1> HIDE DEF h
<1>3. Reconciled(g, s, [graph |-> h, id |-> w])
  BY <1>1, <1>2 DEF Reconciled
<1> QED
  BY <1>3 DEF h

LEMMA ReconcilingLeavesOne ==
  ASSUME NEW g, Sound(g), NEW s \in Sighting
  PROVE  Reconciled(g, s, Reconcile(g, s, Read(g, s)))
<1> DEFINE read == Read(g, s)
           same == LookUp(g, s)
           in   == read.incoming
<1>1. /\ read.same = same /\ read.siblings = Siblings(g, s, same)
      /\ in = IF same = NoId THEN [id |-> NoId, type |-> s.type, conf |-> s.conf, mentions |-> 0]
              ELSE Raise(Candidate(g, same), s.conf)
  BY DEF Read
<1>2. g \in Graph /\ Live(g) \in SUBSET Ids /\ NoId \notin Ids /\ NoId \notin Live(g)
  BY LiveNodes, NodesAreNodes DEF Sound
<1>3. /\ same \in Live(g) \cup {NoId}
      /\ same = NoId => \A i \in Live(g) : ~(g.node[i].key = s.key /\ g.node[i].type = s.type)
  BY <1>2, LookUpIsLive
<1>4. in \in Candidates /\ in.id = same
  <2>1. CASE same = NoId
    BY <1>1, <2>1 DEF Candidates, Sighting
  <2>2. CASE same # NoId
    <3>1. Candidate(g, same) \in Candidates /\ Candidate(g, same).id = same
      BY <1>2, <1>3, <2>2, CandidateTypes
    <3>2. in = Raise(Candidate(g, same), s.conf)
      BY <1>1, <2>2
    <3> QED
      BY <3>1, <3>2 DEF Raise, Candidates, Sighting
  <2> QED
    BY <2>1, <2>2
<1> HIDE DEF read, same, in
<1>5. CASE read.siblings = {}
  <2>1. Reconcile(g, s, read) = [graph |-> g, id |-> same]
    BY <1>1, <1>5 DEF Reconcile
  <2>2. same = NoId => \A i \in Live(g) : g.node[i].key # s.key
    <3> SUFFICES ASSUME same = NoId, NEW i \in Live(g), g.node[i].key = s.key PROVE FALSE
      OBVIOUS
    <3>1. g.node[i].type # s.type /\ i # same
      BY <1>2, <1>3
    <3>2. Candidate(g, i) \in Siblings(g, s, same)
      BY <3>1 DEF Siblings
    <3> QED
      BY <1>1, <1>5, <3>2
  <2>3. SameTables(g, g)
    BY DEF SameTables
  <2> QED
    BY <1>3, <2>1, <2>2, <2>3, UnchangedReconciled DEF read
<1>6. CASE read.siblings # {}
  <2>1. PICK i \in Live(g) : /\ read.siblings = {Candidate(g, i)}
                             /\ g.node[i].key = s.key /\ i # same
    BY <1>1, <1>6, NoSiblingsOrOne
  <2> DEFINE c == Candidate(g, i)
             all == read.siblings \cup {in}
  <2>2. c \in Candidates /\ c.id = i /\ i \in Ids /\ i # NoId /\ c.id # in.id
    BY <1>2, <1>4, <2>1, CandidateTypes
  <2> HIDE DEF c
  <2>3. all = {c, in} /\ Winner(all) \in {c, in} /\ Winner(read.siblings) = c
    BY <1>4, <2>1, <2>2, WinnerOfOne, WinnerOfTwo DEF c
  <2>4. <<in>> \o ById(read.siblings) = <<in, c>>
    <3>1. c.id \in Nat
      BY <2>2, NodesAreNodes
    <3>2. ById(read.siblings) = <<c>>
      BY <2>1, <3>1, OneById DEF c
    <3>3. <<in>> \o <<c>> = <<in, c>>
      BY OneAfterTheOther
    <3> QED
      BY <3>2, <3>3
  <2>5. CASE Retypes(read)
    <3>1. Winner(all).id = NoId /\ same = NoId
      BY <1>4, <2>2, <2>3, <2>5 DEF Retypes, in
    <3> DEFINE node == [g.node[i] EXCEPT !.type = s.type]
               h == Update(g, i, node)
               w == [c EXCEPT !.type = s.type]
    <3>2. Reconcile(g, s, read) = [graph |-> FoldAll(h, w, <<in, c>>), id |-> i]
      BY <1>6, <2>2, <2>3, <2>4, <2>5 DEF Reconcile, in
    <3>3. w.id = i
      BY <2>2 DEF Candidates
    <3> HIDE DEF h, w
    <3>4. FoldAll(h, w, <<in, c>>) = h
      <4>1. \A x : FoldOne(x, w, in) = x /\ FoldOne(x, w, c) = x
        BY <1>4, <2>2, <3>1, <3>3 DEF FoldOne
      <4> QED
        BY <4>1, FoldAllOfTwo
    <3>5. Sound(h) /\ SameTables(g, h)
      <4>1. g.node[i] \in Node
        BY <1>2, <2>1, LiveNodes
      <4>2. node \in Node /\ node.key = g.node[i].key /\ node.count = g.node[i].count
        BY <4>1 DEF Node, Sighting
      <4> HIDE DEF node
      <4> QED
        BY <2>1, <4>2, ChangingARowIsSound DEF h
    <3> QED
      BY <2>1, <2>2, <3>2, <3>4, <3>5, UnchangedReconciled DEF read
  <2>6. CASE ~Retypes(read)
    <3> DEFINE w == Winner(all)
    <3>1. w.id # NoId /\ w \in {c, in}
      BY <1>6, <2>3, <2>6 DEF Retypes, in
    <3>2. Reconcile(g, s, read) = [graph |-> FoldAll(g, w, <<in, c>>), id |-> w.id]
      BY <1>6, <2>4, <2>6 DEF Reconcile, in
    <3> HIDE DEF w
    <3>3. FoldAll(g, w, <<in, c>>) = FoldOne(FoldOne(g, w, in), w, c)
      BY FoldAllOfTwo
    <3>4. SameTables(g, g)
      BY DEF SameTables
    <3>5. CASE w = in
      <4>1. FoldOne(g, w, in) = g
        BY <3>5 DEF FoldOne
      <4>2. FoldAll(g, w, <<in, c>>) \in {g, fold_entity(g, same, i)}
        BY <1>4, <2>2, <3>3, <3>5, <4>1 DEF FoldOne
      <4>3. w.id = same /\ same \in Live(g)
        BY <1>3, <1>4, <3>1, <3>5
      <4>4. Reconciled(g, s, [graph |-> g, id |-> same])
        BY <1>2, <3>4, <4>3, UnchangedReconciled
      <4>5. Reconciled(g, s, [graph |-> fold_entity(g, same, i), id |-> same])
        BY <2>1, <4>3, FoldedReconciled
      <4> QED
        BY <3>2, <4>2, <4>3, <4>4, <4>5 DEF read
    <3>6. CASE w = c
      <4>1. \A x : FoldOne(x, w, c) = x
        BY <3>6 DEF FoldOne
      <4>2. FoldAll(g, w, <<in, c>>) = FoldOne(g, w, in)
        BY <3>3, <4>1
      <4>3. Reconciled(g, s, [graph |-> g, id |-> i])
        BY <1>2, <2>1, <2>2, <3>4, UnchangedReconciled
      <4>4. CASE same = NoId
        BY <1>4, <2>2, <3>2, <3>6, <4>2, <4>3, <4>4 DEF FoldOne, read
      <4>5. CASE same # NoId
        <5>1. same \in Live(g)
          BY <1>3, <4>5
        <5>2. Reconciled(g, s, [graph |-> fold_entity(g, i, same), id |-> i])
          BY <2>1, <5>1, FoldedReconciled
        <5> QED
          BY <1>4, <2>2, <3>2, <3>6, <4>2, <4>3, <5>2 DEF FoldOne, read
      <4> QED
        BY <4>4, <4>5
    <3> QED
      BY <3>1, <3>5, <3>6
  <2> QED
    BY <2>5, <2>6
<1> QED
  BY <1>5, <1>6 DEF read
-----------------------------------------------------------------------------
(* What resolving one label does to a graph in order.                      *)
Resolves(at, g, h, id, s, doc, chunk) ==
  /\ at \in [Ids -> Ids]
  /\ \A i \in Ids : at[i] # i => at[i] = id /\ i \notin Live(h)
  /\ h.alias = {<<a[1], at[a[2]]>> : a \in g.alias} \cup {<<s.key, id>>}
  /\ h.mention = {<<at[m[1]], m[2], m[3]>> : m \in g.mention} \cup {<<id, doc, chunk>>}
  /\ \A e \in g.edge : at[e.src] # at[e.dst] => MovedEdge(at, e) \in h.edge

Resolved(g, s, doc, chunk, r) ==
  /\ Sound(r.graph) /\ r.id \in Live(r.graph)
  /\ Live(r.graph) \subseteq Live(g) \cup {r.id}
  /\ NextId(r.graph) <= NextId(g) + 1
  /\ \E at : Resolves(at, g, r.graph, r.id, s, doc, chunk)

LEMMA ResolvingIsSound ==
  ASSUME NEW g, Sound(g), NextId(g) \in Ids, NEW s \in Sighting,
         NEW doc \in Docs, NEW chunk \in Chunks
  PROVE  Resolved(g, s, doc, chunk, resolve_entity(g, s, doc, chunk))
<1> DEFINE q  == Reconcile(g, s, Read(g, s))
           id == Sight(q.graph, q.id, s, doc, chunk).id
           h  == Sight(q.graph, q.id, s, doc, chunk).graph
<1>1. Reconciled(g, s, q)
  BY ReconcilingLeavesOne
<1>2. resolve_entity(g, s, doc, chunk) = Sight(q.graph, q.id, s, doc, chunk)
  BY DEF resolve_entity, Write
<1> HIDE DEF q
<1>3. PICK at : Redirects(at, q.id, g, q.graph)
  BY <1>1 DEF Reconciled
<1>4. /\ Sound(q.graph) /\ Live(q.graph) \subseteq Live(g) /\ q.id \in Live(q.graph) \cup {NoId}
      /\ q.id = NoId => \A i \in Live(q.graph) : q.graph.node[i].key # s.key
  BY <1>1 DEF Reconciled
<1>5. g \in Graph /\ q.graph \in Graph /\ Live(g) \in SUBSET Ids /\ NoId \notin Ids
      /\ Ids \subseteq Nat
  BY <1>4, LiveNodes, NodesAreNodes DEF Sound
<1>6. NextId(q.graph) <= NextId(g) /\ NextId(q.graph) \in Ids
  <2>1. \A i \in Live(g) : i < NextId(g) /\ i \in Nat
    BY <1>5, NextIdIsFree
  <2>2. NextId(g) \in Nat \ {0} /\ NextId(q.graph) \in Nat \ {0}
    BY <1>5, NextIdIsFree
  <2>3. NextId(g) - 1 \in Nat /\ \A i \in Live(q.graph) : i <= NextId(g) - 1
    BY <1>4, <2>1, <2>2
  <2>4. NextId(q.graph) <= (NextId(g) - 1) + 1
    BY <1>5, <2>3, NextIdIsFree
  <2> QED
    BY <2>2, <2>4, NodesAreNodes DEF Ids
<1>7. /\ Sound(h) /\ id \in Ids /\ id = (IF q.id = NoId THEN NextId(q.graph) ELSE q.id)
      /\ Live(h) = Live(q.graph) \cup {id}
      /\ h.alias = q.graph.alias \cup {<<s.key, id>>}
      /\ h.mention = q.graph.mention \cup {<<id, doc, chunk>>}
      /\ h.edge = q.graph.edge
  <2>1. Sighted(q.graph, q.id, s, doc, chunk, Sight(q.graph, q.id, s, doc, chunk))
    BY <1>4, <1>6, SightingIsSound
  <2> QED
    BY <2>1 DEF Sighted
<1> HIDE DEF h, id
<1>8. Resolves(at, g, h, id, s, doc, chunk)
  <2>1. \A i \in Ids : at[i] # i => at[i] = id /\ i \notin Live(h)
    BY <1>3, <1>5, <1>7 DEF Redirects
  <2>2. Moved(at, g, q.graph) /\ at \in [Ids -> Ids]
    BY <1>3 DEF Redirects
  <2> QED
    BY <1>7, <2>1, <2>2 DEF Resolves, Moved
<1>9. id <= NextId(g)
  <2>1. CASE q.id = NoId
    BY <1>6, <1>7, <2>1
  <2>2. CASE q.id # NoId
    <3>1. id \in Live(g)
      BY <1>4, <1>7, <2>2
    <3>2. id < NextId(g) /\ id \in Nat /\ NextId(g) \in Nat
      BY <1>5, <3>1, NextIdIsFree
    <3> QED
      BY <3>2
  <2> QED
    BY <2>1, <2>2
<1>10. Live(h) \subseteq Live(g) \cup {id}
  BY <1>4, <1>7
<1>11. NextId(h) <= NextId(g) + 1
  BY <1>5, <1>7, <1>9, <1>10, NextIdGrows DEF Sound
<1> QED
  BY <1>2, <1>7, <1>8, <1>10, <1>11 DEF Resolved, h, id
-----------------------------------------------------------------------------
(* The nodes that mention a document, its labels, and its star: one of its *)
(* nodes has an edge of the document to every other.                       *)
Mentioning(g, d) == {i \in Ids : <<i, d, "whole">> \in g.mention}

Leads(g, d, labels) ==
  /\ \A k \in labels : \E i \in Mentioning(g, d) : <<k, i>> \in g.alias
  /\ \A i \in Mentioning(g, d) : \E k \in labels : <<k, i>> \in g.alias

Tied(g, d, i, j) == \E e \in g.edge : e.doc = d /\ {e.src, e.dst} = {i, j}

Star(g, d) ==
  \/ Mentioning(g, d) = {}
  \/ \E a \in Mentioning(g, d) : \A i \in Mentioning(g, d) \ {a} : Tied(g, d, a, i)

(* Where the mentions and aliases of other documents go.                   *)
Follows(at, g, h, id, s, d, own) ==
  /\ \A i \in Mentioning(g, d) : at[i] \in Mentioning(h, d)
  /\ \A j \in Mentioning(h, d) :
       (\E i \in Mentioning(g, d) : j = at[i]) \/ (j = id /\ own)
  /\ own => id \in Mentioning(h, d)
  /\ \A k, i : <<k, i>> \in g.alias => <<k, at[i]>> \in h.alias
  /\ <<s.key, id>> \in h.alias
  /\ \A i, j \in Ids : Tied(g, d, i, j) /\ at[i] # at[j] => Tied(h, d, at[i], at[j])

LEMMA WhatResolvingMoves ==
  ASSUME NEW g, Sound(g), NEW h, Sound(h), NEW at, NEW id \in Live(h), NEW s \in Sighting,
         NEW doc \in Docs, NEW chunk \in Chunks, Resolves(at, g, h, id, s, doc, chunk),
         NEW d \in Docs
  PROVE  Follows(at, g, h, id, s, d, d = doc /\ chunk = "whole")
<1>1. g \in Graph /\ h \in Graph
  BY DEF Sound
<1>2. at \in [Ids -> Ids] /\ id \in Ids
  BY <1>1, LiveNodes DEF Resolves
<1>3. ASSUME NEW i \in Mentioning(g, d) PROVE at[i] \in Mentioning(h, d)
  <2>1. i \in Ids /\ <<i, d, "whole">> \in g.mention
    BY DEF Mentioning
  <2>2. <<at[i], d, "whole">> \in h.mention
    BY <2>1 DEF Resolves
  <2> QED
    BY <1>2, <2>1, <2>2 DEF Mentioning
<1>4. ASSUME NEW j \in Mentioning(h, d)
      PROVE  \/ \E i \in Mentioning(g, d) : j = at[i]
             \/ j = id /\ d = doc /\ chunk = "whole"
  <2>1. <<j, d, "whole">> \in h.mention
    BY DEF Mentioning
  <2>2. CASE <<j, d, "whole">> = <<id, doc, chunk>>
    BY <2>2
  <2>3. CASE \E m \in g.mention : <<j, d, "whole">> = <<at[m[1]], m[2], m[3]>>
    <3>1. PICK m \in g.mention : <<j, d, "whole">> = <<at[m[1]], m[2], m[3]>>
      BY <2>3
    <3>2. m[1] \in Ids /\ m = <<m[1], m[2], m[3]>> /\ j = at[m[1]] /\ m[2] = d /\ m[3] = "whole"
      BY <1>1, <3>1 DEF Graph
    <3>3. m[1] \in Mentioning(g, d)
      BY <3>2 DEF Mentioning
    <3> QED
      BY <3>2, <3>3
  <2> QED
    BY <2>1, <2>2, <2>3 DEF Resolves
<1>5. d = doc /\ chunk = "whole" => id \in Mentioning(h, d)
  BY <1>2 DEF Resolves, Mentioning
<1>6. \A k, i : <<k, i>> \in g.alias => <<k, at[i]>> \in h.alias
  BY DEF Resolves
<1>7. <<s.key, id>> \in h.alias
  BY DEF Resolves
<1>8. ASSUME NEW i \in Ids, NEW j \in Ids, Tied(g, d, i, j), at[i] # at[j]
      PROVE  Tied(h, d, at[i], at[j])
  <2>1. PICK e \in g.edge : e.doc = d /\ {e.src, e.dst} = {i, j}
    BY <1>8 DEF Tied
  <2>2. e \in Edge
    BY <1>1 DEF Graph
  <2>3. (e.src = i /\ e.dst = j) \/ (e.src = j /\ e.dst = i)
    BY <2>1
  <2>4. at[e.src] # at[e.dst]
    BY <1>8, <2>3
  <2>5. MovedEdge(at, e) \in h.edge
    BY <2>4 DEF Resolves
  <2>6. /\ MovedEdge(at, e).doc = d
        /\ {MovedEdge(at, e).src, MovedEdge(at, e).dst} = {at[i], at[j]}
    BY <1>2, <2>1, <2>2, <2>3, MovedEdgesAreEdges
  <2> QED
    BY <2>5, <2>6 DEF Tied
<1> QED
  BY <1>3, <1>4, <1>5, <1>6, <1>7, <1>8 DEF Follows

(* What was true of the labels of a document still is, whatever another    *)
(* document, or another pass, makes of them.                               *)
LEMMA ResolvingKeepsOthers ==
  ASSUME NEW g, Sound(g), NEW r, NEW s \in Sighting, NEW doc \in Docs, NEW chunk \in Chunks,
         Resolved(g, s, doc, chunk, r), NEW d \in Docs, d # doc \/ chunk # "whole"
  PROVE  /\ \A labels : Leads(g, d, labels) => Leads(r.graph, d, labels)
         /\ Star(g, d) => Star(r.graph, d)
<1> DEFINE h == r.graph
<1>1. PICK at : Resolves(at, g, h, r.id, s, doc, chunk)
  BY DEF Resolved
<1>2. Sound(h) /\ r.id \in Live(h)
  BY DEF Resolved
<1> HIDE DEF h
<1>3. /\ \A i \in Mentioning(g, d) : at[i] \in Mentioning(h, d)
      /\ \A j \in Mentioning(h, d) : \E i \in Mentioning(g, d) : j = at[i]
      /\ \A k, i : <<k, i>> \in g.alias => <<k, at[i]>> \in h.alias
      /\ \A i, j \in Ids : Tied(g, d, i, j) /\ at[i] # at[j] => Tied(h, d, at[i], at[j])
  <2>1. Follows(at, g, h, r.id, s, d, d = doc /\ chunk = "whole")
    BY <1>1, <1>2, WhatResolvingMoves
  <2> QED
    BY <2>1 DEF Follows
<1>4. \A labels : Leads(g, d, labels) => Leads(h, d, labels)
  BY <1>3 DEF Leads
<1>5. ASSUME Star(g, d) PROVE Star(h, d)
  <2>1. CASE Mentioning(g, d) = {}
    BY <1>3, <2>1 DEF Star
  <2>2. CASE \E a \in Mentioning(g, d) :
               \A i \in Mentioning(g, d) \ {a} : Tied(g, d, a, i)
    <3>1. PICK a \in Mentioning(g, d) : \A i \in Mentioning(g, d) \ {a} : Tied(g, d, a, i)
      BY <2>2
    <3>2. ASSUME NEW j \in Mentioning(h, d) \ {at[a]} PROVE Tied(h, d, at[a], j)
      <4>1. PICK i \in Mentioning(g, d) : j = at[i]
        BY <1>3
      <4>2. i # a /\ i \in Ids /\ a \in Ids
        BY <4>1 DEF Mentioning
      <4> QED
        BY <1>3, <3>1, <4>1, <4>2
    <3> QED
      BY <1>3, <3>1, <3>2 DEF Star
  <2> QED
    BY <1>5, <2>1, <2>2 DEF Star
<1> QED
  BY <1>4, <1>5 DEF h

(* The labels of the document that is being indexed: the ones so far, and  *)
(* the ids that were found for them.                                       *)
Found(g, doc, labels, ids) ==
  /\ Leads(g, doc, labels)
  /\ Mentioning(g, doc) \subseteq ids
  /\ \A i \in ids : i \in Mentioning(g, doc) \/ i \notin Live(g)

LEMMA ResolvingFinds ==
  ASSUME NEW g, Sound(g), NEW r, NEW s \in Sighting, NEW doc \in Docs,
         Resolved(g, s, doc, "whole", r), NEW labels, NEW ids \in SUBSET Ids,
         Found(g, doc, labels, ids)
  PROVE  Found(r.graph, doc, labels \cup {s.key}, ids \cup {r.id})
<1> DEFINE h == r.graph
           id == r.id
<1>1. PICK at : Resolves(at, g, h, id, s, doc, "whole")
  BY DEF Resolved
<1>2. Sound(h) /\ id \in Live(h) /\ Live(h) \subseteq Live(g) \cup {id}
  BY DEF Resolved
<1> HIDE DEF h, id
<1>3. "whole" \in Chunks
  BY DEF Chunks
<1>4. /\ \A i \in Mentioning(g, doc) : at[i] \in Mentioning(h, doc)
      /\ \A j \in Mentioning(h, doc) : (\E i \in Mentioning(g, doc) : j = at[i]) \/ j = id
      /\ id \in Mentioning(h, doc)
      /\ \A k, i : <<k, i>> \in g.alias => <<k, at[i]>> \in h.alias
      /\ <<s.key, id>> \in h.alias
  <2>1. Follows(at, g, h, id, s, doc, doc = doc /\ "whole" = "whole")
    BY <1>1, <1>2, <1>3, WhatResolvingMoves
  <2> QED
    BY <2>1 DEF Follows
<1>5. \A i \in Ids : at[i] # i => at[i] = id /\ i \notin Live(h)
  BY <1>1 DEF Resolves
<1>6. Mentioning(g, doc) \in SUBSET Ids
  BY DEF Mentioning
<1>7. Leads(h, doc, labels \cup {s.key})
  BY <1>4 DEF Leads, Found
<1>8. Mentioning(h, doc) \subseteq ids \cup {id}
  BY <1>4, <1>5, <1>6 DEF Found
<1>9. \A i \in ids \cup {id} : i \in Mentioning(h, doc) \/ i \notin Live(h)
  <2> SUFFICES ASSUME NEW i \in ids, i # id PROVE i \in Mentioning(h, doc) \/ i \notin Live(h)
    BY <1>4
  <2>1. CASE i \in Mentioning(g, doc)
    BY <1>4, <1>5, <1>6, <2>1
  <2>2. CASE i \notin Live(g)
    BY <1>2, <2>2
  <2> QED
    BY <2>1, <2>2 DEF Found
<1> QED
  BY <1>7, <1>8, <1>9 DEF Found, h, id
-----------------------------------------------------------------------------
(* All labels of a text.                                                   *)
ResolveNext(acc, s, doc) ==
  LET r == resolve_entity(acc.graph, s, doc, "whole")
  IN [graph |-> r.graph,
      ids   |-> IF r.id \in ToSet(acc.ids) THEN acc.ids ELSE Append(acc.ids, r.id)]

LEMMA ResolvingGoesOn ==
  ASSUME NEW g, NEW doc, NEW text \in Seq(Sighting)
  PROVE  \E found :
           /\ found[0] = [graph |-> g, ids |-> <<>>]
           /\ \A n \in 1 .. Len(text) : found[n] = ResolveNext(found[n - 1], text[n], doc)
           /\ ResolveAll(g, doc, text) = found[Len(text)]
<1> DEFINE N == Len(text)
           base == [graph |-> g, ids |-> <<>>]
           Rec(f, m) == f = [n \in 0 .. m |-> IF n = 0 THEN base
                                              ELSE ResolveNext(f[n - 1], text[n], doc)]
           found == CHOOSE f : Rec(f, N)
<1>1. N \in Nat
  BY LenProperties
<1>2. ResolveAll(g, doc, text) = found[N]
  BY DEF ResolveAll, ResolveNext
<1> HIDE DEF N, base
<1>3. \E f : Rec(f, N)
  <2> DEFINE Good == {m \in Nat : \E f : Rec(f, m)}
  <2>1. 0 \in Good
    <3>1. Rec([n \in 0 .. 0 |-> base], 0)
      OBVIOUS
    <3> QED
      BY <3>1
  <2>2. ASSUME NEW m \in Nat, NEW f, Rec(f, m) PROVE \E h : Rec(h, m + 1)
    <3> DEFINE new == ResolveNext(f[m], text[m + 1], doc)
               h == [n \in 0 .. m + 1 |-> IF n = m + 1 THEN new ELSE f[n]]
    <3>1. \A n \in 0 .. m : f[n] = IF n = 0 THEN base ELSE ResolveNext(f[n - 1], text[n], doc)
      BY <2>2
    <3>2. ASSUME NEW n \in 0 .. m + 1
          PROVE  h[n] = IF n = 0 THEN base ELSE ResolveNext(h[n - 1], text[n], doc)
      <4>1. CASE n = m + 1
        <5>1. h[n] = new /\ n # 0 /\ n - 1 = m /\ h[m] = f[m]
          BY <4>1
        <5> QED
          BY <4>1, <5>1
      <4>2. CASE n \in 0 .. m
        <5>1. h[n] = f[n] /\ (n # 0 => h[n - 1] = f[n - 1])
          BY <4>2
        <5> QED
          BY <3>1, <4>2, <5>1
      <4> QED
        BY <4>1, <4>2
    <3>3. h = [n \in 0 .. m + 1 |-> h[n]]
      OBVIOUS
    <3> HIDE DEF h
    <3>4. Rec(h, m + 1)
      BY <3>2, <3>3
    <3> QED
      BY <3>4
  <2> HIDE DEF Rec
  <2>3. Good \in SUBSET Nat /\ \A m \in Good : m + 1 \in Good
    BY <2>2
  <2> HIDE DEF Good
  <2>4. N \in Good
    BY <1>1, <2>1, <2>3, SetInduction
  <2> QED
    BY <2>4 DEF Good
<1>4. Rec(found, N)
  <2> HIDE DEF Rec
  <2> QED
    BY <1>3
<1> HIDE DEF found
<1>5. \A n \in 0 .. N : found[n] = IF n = 0 THEN base ELSE ResolveNext(found[n - 1], text[n], doc)
  BY <1>4
<1>6. found[0] = base /\ \A n \in 1 .. N : found[n] = ResolveNext(found[n - 1], text[n], doc)
  BY <1>1, <1>5
<1> QED
  BY <1>2, <1>6 DEF base, N

(* A list without repetitions.                                             *)
Lists(ids) ==
  /\ ids \in Seq(Ids)
  /\ \A x, y \in 1 .. Len(ids) : ids[x] = ids[y] => x = y

LEMMA AddingToAList ==
  ASSUME NEW ids, Lists(ids), NEW i \in Ids
  PROVE  LET new == IF i \in ToSet(ids) THEN ids ELSE Append(ids, i)
         IN Lists(new) /\ ToSet(new) = ToSet(ids) \cup {i}
<1>1. /\ Len(ids) \in Nat /\ DOMAIN ids = 1 .. Len(ids)
      /\ \A x \in 1 .. Len(ids) : ids[x] \in ToSet(ids)
      /\ \A j \in ToSet(ids) : \E x \in 1 .. Len(ids) : j = ids[x]
  BY LenProperties DEF Lists, ToSet
<1>2. CASE i \in ToSet(ids)
  BY <1>2
<1>3. CASE i \notin ToSet(ids)
  <2> DEFINE new == Append(ids, i)
  <2>1. /\ new \in Seq(Ids) /\ Len(new) = Len(ids) + 1 /\ DOMAIN new = 1 .. Len(ids) + 1
        /\ \A x \in 1 .. Len(ids) : new[x] = ids[x]
        /\ new[Len(ids) + 1] = i
    <3>1. /\ new \in Seq(Ids) /\ Len(new) = Len(ids) + 1
          /\ \A x \in 1 .. Len(ids) : new[x] = ids[x]
          /\ new[Len(ids) + 1] = i
      BY AppendProperties DEF Lists
    <3> HIDE DEF new
    <3>2. DOMAIN new = 1 .. Len(new)
      BY <3>1, LenProperties
    <3> QED
      BY <3>1, <3>2
  <2> HIDE DEF new
  <2>2. \A x \in 1 .. Len(ids) + 1 : x \in 1 .. Len(ids) \/ x = Len(ids) + 1
    BY <1>1
  <2>3. ToSet(new) = ToSet(ids) \cup {i}
    <3>1. ToSet(new) = {new[x] : x \in 1 .. Len(ids) + 1}
      BY <2>1 DEF ToSet
    <3>2. \A x \in 1 .. Len(ids) : x \in 1 .. Len(ids) + 1
      BY <1>1
    <3>3. Len(ids) + 1 \in 1 .. Len(ids) + 1
      BY <1>1
    <3> QED
      BY <1>1, <2>1, <2>2, <3>1, <3>2, <3>3
  <2>4. Lists(new)
    <3>1. \A x, y \in 1 .. Len(ids) + 1 : new[x] = new[y] => x = y
      BY <1>1, <1>3, <2>1, <2>2 DEF Lists
    <3> QED
      BY <2>1, <3>1 DEF Lists
  <2> QED
    BY <1>3, <2>3, <2>4 DEF new
<1> QED
  BY <1>2, <1>3

(* The graph and the list of a text, up to its nth label.                  *)
KeysUpTo(text, n) == {text[m].key : m \in 1 .. n}

SameForOthers(g, h, doc) ==
  \A d \in Docs \ {doc} :
    /\ \A labels : Leads(g, d, labels) => Leads(h, d, labels)
    /\ Star(g, d) => Star(h, d)

FoundSoFar(g, doc, text, n, acc) ==
  /\ Sound(acc.graph) /\ NextId(acc.graph) <= NextId(g) + n
  /\ Lists(acc.ids)
  /\ Found(acc.graph, doc, KeysUpTo(text, n), ToSet(acc.ids))
  /\ SameForOthers(g, acc.graph, doc)

LEMMA ResolvingAllFindsAll ==
  ASSUME NEW g, Sound(g), NEW doc \in Docs, Mentioning(g, doc) = {},
         NEW text \in Seq(Sighting), NextId(g) + Len(text) <= MaxId + 1
  PROVE  FoundSoFar(g, doc, text, Len(text), ResolveAll(g, doc, text))
<1> DEFINE N == Len(text)
<1>1. N \in Nat /\ NextId(g) \in Nat \ {0} /\ MaxId \in Nat
  BY LenProperties, NextIdIsFree, NodesAreNodes DEF Sound
<1>2. PICK found :
        /\ found[0] = [graph |-> g, ids |-> <<>>]
        /\ \A n \in 1 .. N : found[n] = ResolveNext(found[n - 1], text[n], doc)
        /\ ResolveAll(g, doc, text) = found[N]
  BY ResolvingGoesOn
<1> DEFINE Good == {n \in Nat : n <= N => FoundSoFar(g, doc, text, n, found[n])}
<1>3. 0 \in Good
  <2> DEFINE acc == [graph |-> g, ids |-> <<>>]
  <2>1. acc.graph = g /\ acc.ids = <<>>
    OBVIOUS
  <2>2. Lists(<<>>) /\ ToSet(<<>>) = {}
    BY DEF Lists, ToSet
  <2>3. KeysUpTo(text, 0) = {}
    BY DEF KeysUpTo
  <2>4. Found(g, doc, {}, {})
    BY DEF Found, Leads
  <2>5. SameForOthers(g, g, doc)
    BY DEF SameForOthers
  <2> HIDE DEF acc
  <2>6. FoundSoFar(g, doc, text, 0, acc)
    <3>1. NextId(g) <= NextId(g) + 0
      BY <1>1
    <3>2. Found(acc.graph, doc, KeysUpTo(text, 0), ToSet(acc.ids))
      BY <2>1, <2>2, <2>3, <2>4
    <3> QED
      BY <2>1, <2>2, <2>5, <3>1, <3>2 DEF FoundSoFar
  <2> QED
    BY <1>2, <2>6 DEF acc
<1>4. ASSUME NEW n \in Good PROVE n + 1 \in Good
  <2> SUFFICES ASSUME n + 1 <= N PROVE FoundSoFar(g, doc, text, n + 1, found[n + 1])
    OBVIOUS
  <2> DEFINE acc == found[n]
             s   == text[n + 1]
             r   == resolve_entity(acc.graph, s, doc, "whole")
             ids == IF r.id \in ToSet(acc.ids) THEN acc.ids ELSE Append(acc.ids, r.id)
  <2>1. n \in Nat /\ n <= N /\ n + 1 \in 1 .. N /\ (n + 1) - 1 = n
    BY <1>1
  <2>2. FoundSoFar(g, doc, text, n, acc)
    BY <2>1
  <2>3. found[n + 1] = [graph |-> r.graph, ids |-> ids]
    BY <1>2, <2>1 DEF ResolveNext
  <2>4. s \in Sighting
    BY <2>1, ElementOfSeq
  <2> HIDE DEF acc, s, r
  <2>5. Sound(acc.graph) /\ Lists(acc.ids) /\ NextId(acc.graph) \in Ids
        /\ NextId(acc.graph) <= NextId(g) + n /\ NextId(acc.graph) \in Nat
    <3>1. NextId(acc.graph) \in Nat \ {0}
      BY <2>2, NextIdIsFree DEF FoundSoFar, Sound
    <3>2. NextId(acc.graph) <= NextId(g) + n
      BY <2>2 DEF FoundSoFar
    <3>3. NextId(acc.graph) <= MaxId
      BY <1>1, <2>1, <3>1, <3>2
    <3> QED
      BY <2>2, <3>1, <3>2, <3>3 DEF FoundSoFar, Ids
  <2>6. "whole" \in Chunks
    BY DEF Chunks
  <2>7. Resolved(acc.graph, s, doc, "whole", r)
    BY <2>4, <2>5, <2>6, ResolvingIsSound DEF r
  <2>8. /\ Sound(r.graph) /\ r.id \in Live(r.graph)
        /\ NextId(r.graph) <= NextId(acc.graph) + 1
    BY <2>7 DEF Resolved
  <2>9. r.id \in Ids
    BY <2>8, LiveNodes DEF Sound
  <2>10. Lists(ids) /\ ToSet(ids) = ToSet(acc.ids) \cup {r.id}
    BY <2>5, <2>9, AddingToAList
  <2> HIDE DEF ids
  <2>11. ToSet(acc.ids) \in SUBSET Ids
    BY <2>5, LenProperties DEF Lists, ToSet
  <2>12. Found(r.graph, doc, KeysUpTo(text, n) \cup {s.key}, ToSet(acc.ids) \cup {r.id})
    <3>1. Found(acc.graph, doc, KeysUpTo(text, n), ToSet(acc.ids))
      BY <2>2 DEF FoundSoFar
    <3> QED
      BY <2>4, <2>5, <2>7, <2>11, <3>1, ResolvingFinds
  <2>13. KeysUpTo(text, n + 1) = KeysUpTo(text, n) \cup {s.key}
    <3>1. 1 .. (n + 1) = (1 .. n) \cup {n + 1}
      BY <2>1
    <3> QED
      BY <3>1 DEF KeysUpTo, s
  <2>14. SameForOthers(g, r.graph, doc)
    <3> SUFFICES ASSUME NEW d \in Docs \ {doc}
                 PROVE  /\ \A labels : Leads(g, d, labels) => Leads(r.graph, d, labels)
                        /\ Star(g, d) => Star(r.graph, d)
      BY DEF SameForOthers
    <3>1. /\ \A labels : Leads(acc.graph, d, labels) => Leads(r.graph, d, labels)
          /\ Star(acc.graph, d) => Star(r.graph, d)
      BY <2>4, <2>5, <2>6, <2>7, ResolvingKeepsOthers
    <3>2. /\ \A labels : Leads(g, d, labels) => Leads(acc.graph, d, labels)
          /\ Star(g, d) => Star(acc.graph, d)
      BY <2>2 DEF FoundSoFar, SameForOthers
    <3> QED
      BY <3>1, <3>2
  <2>15. NextId(r.graph) <= NextId(g) + (n + 1)
    <3>1. NextId(r.graph) \in Nat
      BY <2>8, NextIdIsFree DEF Sound
    <3> QED
      BY <1>1, <2>1, <2>5, <2>8, <3>1
  <2>16. FoundSoFar(g, doc, text, n + 1, [graph |-> r.graph, ids |-> ids])
    BY <2>8, <2>10, <2>12, <2>13, <2>14, <2>15 DEF FoundSoFar
  <2> QED
    BY <2>3, <2>16
<1>5. Good \in SUBSET Nat
  OBVIOUS
<1> HIDE DEF Good
<1>6. N \in Good
  BY <1>1, <1>3, <1>4, <1>5, SetInduction
<1> QED
  BY <1>1, <1>2, <1>6 DEF Good
-----------------------------------------------------------------------------
(* Forgetting a document, and adding edges.                                *)
LEMMA ForgettingIsSound ==
  ASSUME NEW g, Sound(g), NEW doc \in Docs
  PROVE  /\ Sound(forget_document(g, doc)) /\ Mentioning(forget_document(g, doc), doc) = {}
         /\ NextId(forget_document(g, doc)) <= NextId(g)
         /\ SameForOthers(g, forget_document(g, doc), doc)
<1> DEFINE touched == {m[1] : m \in {n \in g.mention : n[2] = doc}}
           mention == {m \in g.mention : m[2] # doc}
           CountOf(i) == Cardinality({m \in mention : m[1] = i})
           orphans == {i \in touched \cap Live(g) : CountOf(i) = 0}
           node == [i \in Ids |-> IF i \in orphans THEN NoNode
                                  ELSE IF i \in touched \cap Live(g)
                                       THEN [g.node[i] EXCEPT !.count = CountOf(i)]
                                       ELSE g.node[i]]
           h == [node |-> node, alias |-> {a \in g.alias : a[2] \notin orphans},
                 mention |-> mention,
                 edge |-> {e \in g.edge : e.doc # doc /\ {e.src, e.dst} \cap orphans = {}}]
<1>1. forget_document(g, doc) = h
  BY DEF forget_document
<1>2. /\ g \in Graph /\ IsFiniteSet(g.mention) /\ Anchored(g) /\ Unique(g)
      /\ \A i \in Live(g) : CountIs(g, i)
      /\ Live(g) \in SUBSET Ids /\ g.node \in [Ids -> Node \cup {NoNode}]
      /\ \A i \in Live(g) : g.node[i] \in Node
  BY LiveNodes DEF Sound, Graph
<1>3. IsFiniteSet(mention)
  <2>1. mention \in SUBSET g.mention
    OBVIOUS
  <2> QED
    BY <1>2, <2>1, FS_Subset
<1>4. \A i : /\ CountOf(i) = Cardinality(MentionsOf(h, i)) /\ CountOf(i) \in Nat
             /\ MentionsOf(h, i) # {} => CountOf(i) # 0
             /\ MentionsOf(h, i) = {} => CountOf(i) = 0
  <2> TAKE i
  <2>1. IsFiniteSet(h.mention) /\ MentionsOf(h, i) = {m \in mention : m[1] = i}
    BY <1>3 DEF MentionsOf
  <2>2. /\ Cardinality(MentionsOf(h, i)) \in Nat
        /\ MentionsOf(h, i) # {} => Cardinality(MentionsOf(h, i)) > 0
    BY <2>1, CountsAreNumbers
  <2>3. CountOf(i) = Cardinality(MentionsOf(h, i))
    BY <2>1
  <2> HIDE DEF CountOf, h
  <2>4. MentionsOf(h, i) = {} => Cardinality(MentionsOf(h, i)) = 0
    BY FS_EmptySet
  <2> QED
    BY <2>2, <2>3, <2>4
<1>5. \A i \in orphans : MentionsOf(h, i) = {}
  BY <1>4
<1>6. \A i \in touched \cap Live(g) : i \notin orphans => MentionsOf(h, i) # {}
  BY <1>4
<1>7. \A i : i \notin touched => MentionsOf(h, i) = MentionsOf(g, i)
  BY DEF MentionsOf
<1> HIDE DEF CountOf
<1>8. \A i \in Ids : h.node[i] = node[i]
  OBVIOUS
<1> HIDE DEF touched
<1>9. \A i \in Live(g) \ orphans :
        /\ h.node[i] \in Node /\ h.node[i].key = g.node[i].key
        /\ h.node[i].count = IF i \in touched THEN CountOf(i) ELSE g.node[i].count
  <2> SUFFICES ASSUME NEW i \in Live(g) \ orphans
               PROVE  /\ h.node[i] \in Node /\ h.node[i].key = g.node[i].key
                      /\ h.node[i].count = IF i \in touched THEN CountOf(i) ELSE g.node[i].count
    OBVIOUS
  <2>1. h.node[i] = IF i \in touched THEN [g.node[i] EXCEPT !.count = CountOf(i)] ELSE g.node[i]
    BY <1>2
  <2>2. g.node[i] \in Node /\ CountOf(i) \in Nat
    BY <1>2, <1>4
  <2> HIDE DEF h
  <2> QED
    BY <2>1, <2>2 DEF Node
<1>10. \A i \in Ids : i \in orphans \/ i \notin Live(g) => h.node[i] = NoNode
  BY <1>2, LiveNodes
<1> HIDE DEF node
<1>11. Live(h) = Live(g) \ orphans
  <2> HIDE DEF h, orphans
  <2> QED
    BY <1>2, <1>9, <1>10, NodesAreNodes DEF Live
<1>12. orphans \in SUBSET Live(g)
  OBVIOUS
<1> HIDE DEF orphans
<1>13. h \in Graph
  <2>1. h.node \in [Ids -> Node \cup {NoNode}]
    <3>1. \A i \in Ids : h.node[i] \in Node \cup {NoNode}
      BY <1>9, <1>10
    <3> QED
      BY <3>1 DEF node
  <2>2. /\ h.alias \in SUBSET g.alias /\ h.mention \in SUBSET g.mention
        /\ h.edge \in SUBSET g.edge
    OBVIOUS
  <2>3. h = [node |-> h.node, alias |-> h.alias, mention |-> h.mention, edge |-> h.edge]
    OBVIOUS
  <2> HIDE DEF h
  <2> QED
    BY <1>2, <2>1, <2>2, <2>3 DEF Graph
<1>14. \A m \in h.mention : m \in g.mention /\ m[1] \in Live(g) \ orphans
  <2> SUFFICES ASSUME NEW m \in h.mention PROVE m \in g.mention /\ m[1] \in Live(g) \ orphans
    OBVIOUS
  <2>1. m \in g.mention /\ m[1] \in Live(g) /\ m \in MentionsOf(h, m[1])
    BY <1>2 DEF Anchored, MentionsOf
  <2> QED
    BY <1>5, <2>1
<1>15. Anchored(h)
  <2>1. /\ \A a \in h.alias : a \in g.alias /\ a[2] \notin orphans
        /\ \A e \in h.edge : e \in g.edge
    OBVIOUS
  <2> HIDE DEF h
  <2> QED
    BY <1>2, <1>11, <1>14, <2>1 DEF Anchored
<1>16. Unique(h)
  BY <1>2, <1>9, <1>11 DEF Unique
<1>17. \A i \in Live(h) : CountIs(h, i)
  <2> SUFFICES ASSUME NEW i \in Live(h) PROVE CountIs(h, i)
    OBVIOUS
  <2>1. i \in Live(g) /\ i \notin orphans
    BY <1>11
  <2>2. CASE i \in touched
    BY <1>4, <1>6, <1>9, <2>1, <2>2 DEF CountIs
  <2>3. CASE i \notin touched
    BY <1>2, <1>7, <1>9, <2>1, <2>3 DEF CountIs
  <2> QED
    BY <2>2, <2>3
<1>18. Sound(h)
  <2>1. IsFiniteSet(h.mention)
    BY <1>3
  <2> HIDE DEF h
  <2> QED
    BY <1>13, <1>15, <1>16, <1>17, <2>1 DEF Sound
<1>19. Mentioning(h, doc) = {}
  BY DEF Mentioning
<1>20. NextId(h) <= NextId(g)
  <2>1. \A i \in Live(g) : i < NextId(g) /\ i \in Nat
    BY <1>2, NextIdIsFree, NodesAreNodes
  <2>2. NextId(g) \in Nat \ {0} /\ NextId(h) \in Nat \ {0}
    BY <1>2, <1>13, NextIdIsFree
  <2>3. NextId(g) - 1 \in Nat /\ \A i \in Live(h) : i <= NextId(g) - 1
    BY <1>11, <2>1, <2>2
  <2> HIDE DEF h
  <2>4. NextId(h) <= (NextId(g) - 1) + 1
    BY <1>13, <2>3, NextIdIsFree
  <2> QED
    BY <2>2, <2>4
<1>21. ASSUME NEW d \in Docs \ {doc}
       PROVE  /\ \A labels : Leads(g, d, labels) => Leads(h, d, labels)
              /\ Star(g, d) => Star(h, d)
  <2>1. Mentioning(h, d) = Mentioning(g, d)
    BY DEF Mentioning
  <2>2. \A i \in Mentioning(g, d) : i \notin orphans
    <3>1. \A i \in Mentioning(h, d) : <<i, d, "whole">> \in MentionsOf(h, i)
      BY DEF Mentioning, MentionsOf
    <3> QED
      BY <1>5, <2>1, <3>1
  <2>3. \A i \in Mentioning(g, d) : \A k : <<k, i>> \in g.alias <=> <<k, i>> \in h.alias
    BY <2>2
  <2>4. \A i, j \in Mentioning(g, d) : Tied(g, d, i, j) => Tied(h, d, i, j)
    BY <2>2 DEF Tied
  <2> HIDE DEF h
  <2>5. \A labels : Leads(g, d, labels) => Leads(h, d, labels)
    BY <2>1, <2>3 DEF Leads
  <2>6. Star(g, d) => Star(h, d)
    BY <2>1, <2>4 DEF Star
  <2> QED
    BY <2>5, <2>6
<1> HIDE DEF h
<1>22. SameForOthers(g, h, doc)
  BY <1>21 DEF SameForOthers
<1> QED
  BY <1>1, <1>18, <1>19, <1>20, <1>22

Extended(g, h, E) ==
  /\ Sound(h) /\ Live(h) = Live(g) /\ h.edge = g.edge \cup E
  /\ \A d : /\ Mentioning(h, d) = Mentioning(g, d)
            /\ \A labels : Leads(g, d, labels) => Leads(h, d, labels)
            /\ Star(g, d) => Star(h, d)

LEMMA MoreEdges ==
  ASSUME NEW g, Sound(g), NEW E \in SUBSET Edge, \A e \in E : e.src # e.dst
  PROVE  Extended(g, [g EXCEPT !.edge = @ \cup E], E)
<1> DEFINE h == [g EXCEPT !.edge = @ \cup E]
<1>1. /\ g \in Graph /\ IsFiniteSet(g.mention) /\ Anchored(g) /\ Unique(g)
      /\ \A i \in Live(g) : CountIs(g, i)
  BY DEF Sound
<1>2. /\ h \in Graph /\ h.node = g.node /\ h.alias = g.alias /\ h.mention = g.mention
      /\ h.edge = g.edge \cup E
  BY <1>1 DEF Graph
<1> HIDE DEF h
<1>3. Live(h) = Live(g) /\ \A i : MentionsOf(h, i) = MentionsOf(g, i)
  BY <1>2 DEF Live, MentionsOf
<1>4. Sound(h)
  BY <1>1, <1>2, <1>3 DEF Sound, Anchored, Unique, CountIs
<1>5. \A d : Mentioning(h, d) = Mentioning(g, d)
  BY <1>2 DEF Mentioning
<1>6. \A d, labels : Leads(g, d, labels) => Leads(h, d, labels)
  BY <1>2, <1>5 DEF Leads
<1>7. \A d, i, j : Tied(g, d, i, j) => Tied(h, d, i, j)
  BY <1>2 DEF Tied
<1>8. \A d : Star(g, d) => Star(h, d)
  BY <1>5, <1>7 DEF Star
<1> QED
  BY <1>2, <1>3, <1>4, <1>5, <1>6, <1>8 DEF h, Extended

LEMMA CoMentionsAreEdges ==
  ASSUME NEW i \in Ids, NEW j \in Ids, i # j, NEW doc \in Docs
  PROVE  /\ CoMention(i, j, doc) \in SUBSET Edge
         /\ \A e \in CoMention(i, j, doc) : e.src # e.dst
         /\ \E e \in CoMention(i, j, doc) : e.doc = doc /\ {e.src, e.dst} = {i, j}
<1>1. "CO_ACTIVITY" \in Predicates
  BY DEF Predicates
<1> DEFINE e(x, y) == [src |-> x, dst |-> y, predicate |-> "CO_ACTIVITY", doc |-> doc]
<1>2. CASE i < j
  <2>1. CoMention(i, j, doc) = {e(i, j)}
    BY <1>2 DEF CoMention, Assertion
  <2>2. e(i, j) \in Edge /\ e(i, j).src = i /\ e(i, j).dst = j /\ e(i, j).doc = doc
    BY <1>1 DEF Edge
  <2> HIDE DEF e
  <2> QED
    BY <2>1, <2>2
<1>3. CASE ~(i < j)
  <2>1. CoMention(i, j, doc) = {e(j, i)}
    BY <1>3 DEF CoMention, Assertion
  <2>2. e(j, i) \in Edge /\ e(j, i).src = j /\ e(j, i).dst = i /\ e(j, i).doc = doc
    BY <1>1 DEF Edge
  <2> HIDE DEF e
  <2> QED
    BY <2>1, <2>2
<1> QED
  BY <1>2, <1>3

(* What a document left of the graph once it has been indexed.             *)
Indexed(g, h, doc, text) ==
  /\ Sound(h)
  /\ SameForOthers(g, h, doc)
  /\ Leads(h, doc, KeysUpTo(text, Len(text)))
  /\ (\A e \in h.edge : {e.src, e.dst} \subseteq Live(h)) => Star(h, doc)

LEMMA IndexingIsSound ==
  ASSUME NEW g, Sound(g), NEW doc \in Docs, NEW text \in Seq(Sighting),
         NextId(g) + Len(text) <= MaxId + 1
  PROVE  Indexed(g, IndexDocument(g, doc, text), doc, text)
<1> DEFINE base  == forget_document(g, doc)
           found == ResolveAll(base, doc, text)
           ids   == found.ids
           E     == UNION {CoMention(p[1], p[2], doc) : p \in CoMentioned(ids)}
           h     == [found.graph EXCEPT !.edge = @ \cup E]
<1>1. IndexDocument(g, doc, text) = h
  BY DEF IndexDocument
<1>2. /\ Sound(base) /\ Mentioning(base, doc) = {}
      /\ NextId(base) <= NextId(g) /\ SameForOthers(g, base, doc)
  BY ForgettingIsSound
<1> HIDE DEF base
<1>3. NextId(base) + Len(text) <= MaxId + 1
  <2>1. /\ NextId(base) \in Nat /\ NextId(g) \in Nat /\ Len(text) \in Nat /\ MaxId \in Nat
        /\ NextId(base) <= NextId(g) /\ NextId(g) + Len(text) <= MaxId + 1
    BY <1>2, NextIdIsFree, LenProperties, NodesAreNodes DEF Sound
  <2> QED
    BY <2>1
<1>4. FoundSoFar(base, doc, text, Len(text), found)
  BY <1>2, <1>3, ResolvingAllFindsAll
<1> HIDE DEF found
<1>5. /\ Sound(found.graph) /\ Lists(ids)
      /\ Found(found.graph, doc, KeysUpTo(text, Len(text)), ToSet(ids))
      /\ SameForOthers(base, found.graph, doc)
  BY <1>4 DEF FoundSoFar
<1> HIDE DEF ids
<1>6. /\ Len(ids) \in Nat /\ DOMAIN ids = 1 .. Len(ids)
      /\ \A x \in 1 .. Len(ids) : ids[x] \in Ids /\ ids[x] \in ToSet(ids)
      /\ \A i \in ToSet(ids) : \E x \in 1 .. Len(ids) : i = ids[x]
      /\ \A x, y \in 1 .. Len(ids) : ids[x] = ids[y] => x = y
  BY <1>5, LenProperties, ElementOfSeq DEF Lists, ToSet
<1>7. \A p \in CoMentioned(ids) : p[1] \in Ids /\ p[2] \in Ids /\ p[1] # p[2]
  <2> SUFFICES ASSUME NEW p \in CoMentioned(ids)
               PROVE  p[1] \in Ids /\ p[2] \in Ids /\ p[1] # p[2]
    OBVIOUS
  <2>1. PICK q \in (1 .. Len(ids)) \X (1 .. Len(ids)) :
          q[1] < q[2] /\ p = <<ids[q[1]], ids[q[2]]>>
    BY DEF CoMentioned
  <2>2. q[1] \in 1 .. Len(ids) /\ q[2] \in 1 .. Len(ids) /\ q[1] # q[2]
    BY <1>6, <2>1
  <2> QED
    BY <1>6, <2>1, <2>2
<1>8. E \in SUBSET Edge /\ \A e \in E : e.src # e.dst
  BY <1>7, CoMentionsAreEdges
<1>9. \A y \in 2 .. Len(ids) :
        \E e \in E : e.doc = doc /\ {e.src, e.dst} = {ids[1], ids[y]}
  <2> SUFFICES ASSUME NEW y \in 2 .. Len(ids)
               PROVE  \E e \in E : e.doc = doc /\ {e.src, e.dst} = {ids[1], ids[y]}
    OBVIOUS
  <2>1. /\ y \in 1 .. Len(ids) /\ 1 \in 1 .. Len(ids) /\ 1 < y
    BY <1>6
  <2>2. <<ids[1], ids[y]>> \in CoMentioned(ids)
    <3> DEFINE q == <<1, y>>
    <3>1. q \in (1 .. Len(ids)) \X (1 .. Len(ids)) /\ q[1] = 1 /\ q[2] = y
      BY <2>1
    <3> HIDE DEF q
    <3> QED
      BY <2>1, <3>1 DEF CoMentioned
  <2> DEFINE p == <<ids[1], ids[y]>>
  <2>3. p[1] = ids[1] /\ p[2] = ids[y] /\ p \in CoMentioned(ids)
    BY <2>2
  <2>4. ids[1] # ids[y] /\ ids[1] \in Ids /\ ids[y] \in Ids
    BY <1>6, <2>1
  <2> HIDE DEF p
  <2> DEFINE i == ids[1]
             j == ids[y]
  <2>5. PICK e \in CoMention(ids[1], ids[y], doc) :
          e.doc = doc /\ {e.src, e.dst} = {ids[1], ids[y]}
    <3>1. i \in Ids /\ j \in Ids /\ i # j
      BY <2>4
    <3> HIDE DEF i, j
    <3>2. \E e \in CoMention(i, j, doc) : e.doc = doc /\ {e.src, e.dst} = {i, j}
      BY <3>1, CoMentionsAreEdges
    <3> QED
      BY <3>2 DEF i, j
  <2>6. e \in E
    BY <2>3, <2>5
  <2> QED
    BY <2>5, <2>6
<1> HIDE DEF E
<1>10. Extended(found.graph, h, E)
  BY <1>5, <1>8, MoreEdges
<1> HIDE DEF h
<1>11. SameForOthers(g, h, doc)
  BY <1>2, <1>5, <1>10 DEF SameForOthers, Extended
<1>12. Leads(h, doc, KeysUpTo(text, Len(text)))
  BY <1>5, <1>10 DEF Extended, Found
<1>13. ASSUME \A e \in h.edge : {e.src, e.dst} \subseteq Live(h) PROVE Star(h, doc)
  <2>1. /\ Live(h) = Live(found.graph) /\ Mentioning(h, doc) = Mentioning(found.graph, doc)
        /\ E \subseteq h.edge
    BY <1>10 DEF Extended
  <2>2. /\ Mentioning(h, doc) \subseteq ToSet(ids)
        /\ \A i \in ToSet(ids) : i \in Mentioning(h, doc) \/ i \notin Live(h)
    BY <1>5, <2>1 DEF Found
  <2>3. CASE Len(ids) < 2
    <3>1. \A i, j \in ToSet(ids) : i = j
      <4>1. \A x \in 1 .. Len(ids) : x = 1
        BY <1>6, <2>3
      <4> QED
        BY <1>6, <4>1
    <3> QED
      BY <2>2, <3>1 DEF Star
  <2>4. CASE ~(Len(ids) < 2)
    <3>1. 2 \in 2 .. Len(ids) /\ \A x \in 1 .. Len(ids) : x = 1 \/ x \in 2 .. Len(ids)
      BY <1>6, <2>4
    <3>2. ids[1] \in Live(h) /\ ids[1] \in ToSet(ids)
      <4>1. PICK e \in E : {e.src, e.dst} = {ids[1], ids[2]}
        BY <1>9, <3>1
      <4>2. 1 \in 1 .. Len(ids)
        BY <1>6, <2>4
      <4>3. {e.src, e.dst} \subseteq Live(h)
        BY <1>13, <2>1
      <4> QED
        BY <1>6, <4>1, <4>2, <4>3
    <3>3. ids[1] \in Mentioning(h, doc)
      BY <2>2, <3>2
    <3>4. ASSUME NEW i \in Mentioning(h, doc) \ {ids[1]} PROVE Tied(h, doc, ids[1], i)
      <4>1. PICK y \in 1 .. Len(ids) : i = ids[y]
        BY <1>6, <2>2
      <4>2. y \in 2 .. Len(ids)
        BY <3>1, <4>1
      <4> QED
        BY <1>9, <2>1, <4>1, <4>2 DEF Tied
    <3> QED
      BY <3>3, <3>4 DEF Star
  <2> QED
    BY <2>3, <2>4
<1>14. Sound(h)
  BY <1>10 DEF Extended
<1> QED
  BY <1>1, <1>11, <1>12, <1>13, <1>14 DEF Indexed
-----------------------------------------------------------------------------
(* With one node for a key the repair finds nothing to do.                 *)
LEMMA NoSplitsNoMerge ==
  ASSUME NEW g, Sound(g) PROVE MergeTypeSplits(g) = g
<1> DEFINE RowsOf(k) == {i \in Live(g) : g.node[i].key = k}
           Split == {k \in Keys : Cardinality(RowsOf(k)) > 1}
           MergeKey(k, h) ==
             LET rows == {Candidate(h, i) : i \in RowsOf(k)}
             IN FoldAll(h, Winner(rows), ById(rows))
           merged == FoldSet(MergeKey, g, Split)
<1>1. MergeTypeSplits(g) = [merged EXCEPT !.edge = {e \in @ : e.src # e.dst}]
  BY DEF MergeTypeSplits
<1>2. Split = {}
  <2> SUFFICES ASSUME NEW k \in Keys PROVE ~(Cardinality(RowsOf(k)) > 1)
    OBVIOUS
  <2>1. \A i, j \in RowsOf(k) : i = j
    BY DEF Sound, Unique
  <2> HIDE DEF RowsOf
  <2>2. CASE RowsOf(k) = {}
    BY <2>2, FS_EmptySet
  <2>3. CASE RowsOf(k) # {}
    <3>1. PICK i \in RowsOf(k) : RowsOf(k) = {i}
      BY <2>1, <2>3
    <3>2. Cardinality({i}) = 1
      BY FS_Singleton
    <3> QED
      BY <3>1, <3>2
  <2> QED
    BY <2>2, <2>3
<1>3. merged = g
  <2> HIDE DEF Split
  <2>1. FoldSet(MergeKey, g, {}) = g
    <3> HIDE DEF MergeKey
    <3> DEFINE F(f) == [s \in SUBSET {} |-> IF s = {} THEN g
                           ELSE MergeKey(CHOOSE x \in s : TRUE, f[s \ {CHOOSE x \in s : TRUE}])]
               iter == CHOOSE f : f = F(f)
    <3>1. FoldSet(MergeKey, g, {}) = iter[{}]
      BY DEF FoldSet, MapThenFoldSet
    <3>2. \A f : F(f) = [s \in SUBSET {} |-> g]
      OBVIOUS
    <3> HIDE DEF F
    <3>3. \E f : f = F(f)
      BY <3>2
    <3>4. iter = [s \in SUBSET {} |-> g]
      BY <3>2, <3>3
    <3> QED
      BY <3>1, <3>4
  <2> QED
    BY <1>2, <2>1
<1> HIDE DEF merged
<1>4. \A e \in g.edge : e.src # e.dst
  BY DEF Sound, Anchored
<1>5. [g EXCEPT !.edge = {e \in @ : e.src # e.dst}] = g
  <2>1. {e \in g.edge : e.src # e.dst} = g.edge
    BY <1>4
  <2>2. g \in Graph
    BY DEF Sound
  <2> QED
    BY <2>1, <2>2 DEF Graph
<1> QED
  BY <1>1, <1>3, <1>5
-----------------------------------------------------------------------------
(* Kinds of values: what the two lanes hold in their hands.                *)
Steps == {"idle", "next", "index", "extract", "read", "write", "edge", "record"}

RunFields ==
  run = [step |-> run.step, pass |-> run.pass, list |-> run.list, todo |-> run.todo,
         doc |-> run.doc, text |-> run.text, triples |-> run.triples, read |-> run.read,
         ends |-> run.ends, status |-> run.status]

Kinds ==
  /\ points \in [Docs -> Texts \cup {Absent}]
  /\ indexed \in [Docs -> Texts \cup {NoText}]
  /\ torn \in BOOLEAN /\ lost \in BOOLEAN
  /\ ingest = IdleIngest \/ ingest \in [step : {"store", "index"}, doc : Docs, text : Texts]
  /\ RunFields /\ run.step \in Steps
  /\ run.step \notin {"idle", "next"} => run.doc \in Docs
  /\ run.step = "index" => run.text \in Texts
  /\ Persisting => \E t \in Triples : run.triples = {t}

AtFact == {"extract", "read", "write", "edge"}

LabelsOf(t) == IF t = NoText THEN {} ELSE {s.key : s \in ToSet(t)}

(* As long as no commit of the other lane, no lock and no kill met a half  *)
(* persisted fact: the graph is in order, every document's labels lead to  *)
(* it, every document is a star unless an edge lost an end, and what       *)
(* persist_triples has read, and the ends that it holds, still hold.       *)
InOrder ==
  /\ Sound(graph)
  /\ \A d \in Docs : Leads(graph, d, LabelsOf(indexed[d]))
  /\ ~lost => \A d \in Docs : Star(graph, d)
  /\ run.step = "write" => \A t \in run.triples : run.read = Read(graph, Label(t))
  /\ run.step \in AtFact => /\ run.ends \in Seq(Ids)
                            /\ IF run.step = "edge" THEN Len(run.ends) = 2
                               ELSE Len(run.ends) <= 1

IInv == Kinds /\ (~torn => InOrder)

LEMMA KindsStart ==
  ASSUME Init PROVE Kinds
BY DEF Init, Kinds, RunFields, IdleRun, IdleIngest, Steps, Persisting

LEMMA KindsOfIngest ==
  ASSUME Kinds,
         \/ \E d \in Docs, t \in Texts : delete_document(d, t)
         \/ store_chunks \/ IngestIndex \/ IngestDies \/ merge_type_splits
  PROVE  Kinds'
<1> USE DEF Kinds, RunFields, Persisting
<1>1. ASSUME NEW d \in Docs, NEW t \in Texts, delete_document(d, t) PROVE Kinds'
  BY <1>1 DEF delete_document
<1>2. CASE store_chunks
  BY <1>2 DEF store_chunks, IdleIngest
<1>3. CASE IngestIndex
  <2>1. ingest.doc \in Docs /\ ingest.text \in Texts
    BY <1>3 DEF IngestIndex, IdleIngest
  <2>2. indexed' \in [Docs -> Texts \cup {NoText}] /\ lost' \in BOOLEAN
    BY <1>3, <2>1 DEF IngestIndex, Indexes, IndexGivesUp, Losing
  <2>3. torn' \in BOOLEAN
    BY <1>3 DEF IngestIndex
  <2>4. ingest' = IdleIngest /\ UNCHANGED <<points, run>>
    BY <1>3 DEF IngestIndex
  <2> QED
    BY <2>2, <2>3, <2>4
<1>4. CASE IngestDies
  BY <1>4 DEF IngestDies
<1>5. CASE merge_type_splits
  BY <1>5 DEF merge_type_splits, Losing
<1> QED
  BY <1>1, <1>2, <1>3, <1>4, <1>5

LEMMA KindsOfBackfill ==
  ASSUME Kinds,
         \/ \E pass \in Passes, reset \in BOOLEAN : StartBackfill(pass, reset)
         \/ backfill \/ Kill
  PROVE  Kinds'
<1> USE DEF Kinds, RunFields, Persisting, Steps
<1>1. ASSUME NEW pass \in Passes, NEW reset \in BOOLEAN, StartBackfill(pass, reset)
      PROVE Kinds'
  BY <1>1 DEF StartBackfill, IdleRun
<1>2. ASSUME NEW d \in Docs, TakeDocument(d) PROVE Kinds'
  BY <1>2 DEF TakeDocument
<1>3. CASE _run_deterministic
  BY <1>3 DEF _run_deterministic, Indexes, IndexGivesUp, Losing
<1>4. CASE ExtractDocument
  <2>1. CASE \E T \in {{}} \cup {{t} : t \in Triples} :
               run' = [run EXCEPT !.triples = T, !.step = IF T = {} THEN "record" ELSE "read"]
    <3>1. PICK T \in {{}} \cup {{t} : t \in Triples} :
            run' = [run EXCEPT !.triples = T, !.step = IF T = {} THEN "record" ELSE "read"]
      BY <2>1
    <3>2. CASE T = {}
      BY <1>4, <3>1, <3>2 DEF ExtractDocument
    <3>3. CASE T # {}
      <4>1. PICK t \in Triples : T = {t}
        BY <3>1, <3>3
      <4> QED
        BY <1>4, <3>1, <3>3, <4>1 DEF ExtractDocument
    <3> QED
      BY <3>2, <3>3
  <2>2. CASE \/ run' = [run EXCEPT !.step = "record"]
             \/ run' = [run EXCEPT !.step = "record", !.status = "failed"]
    BY <1>4, <2>2 DEF ExtractDocument
  <2> QED
    BY <1>4, <2>1, <2>2 DEF ExtractDocument
<1>5. CASE ReadLabel
  BY <1>5 DEF ReadLabel
<1>6. CASE WriteLabel
  BY <1>6 DEF WriteLabel, Losing
<1>7. CASE AssertEdge
  BY <1>7 DEF AssertEdge, Losing
<1>8. CASE PersistFails
  BY <1>8 DEF PersistFails
<1>9. CASE _record
  BY <1>9 DEF _record
<1>10. CASE FinishBackfill
  BY <1>10 DEF FinishBackfill, IdleRun
<1>11. CASE Kill
  BY <1>11 DEF Kill, IdleRun
<1> QED
  BY <1>1, <1>2, <1>3, <1>4, <1>5, <1>6, <1>7, <1>8, <1>9, <1>10, <1>11 DEF backfill

LEMMA KindsKept ==
  ASSUME Kinds, [Next]_vars PROVE Kinds'
<1>1. CASE UNCHANGED vars
  BY <1>1 DEF vars, Kinds, RunFields, Persisting
<1>2. CASE Next
  BY <1>2, KindsOfIngest, KindsOfBackfill DEF Next
<1> QED
  BY <1>1, <1>2
-----------------------------------------------------------------------------
(* Order is there at first, and is kept by each of the writers.            *)
LEMMA OrderAtFirst ==
  ASSUME Init PROVE InOrder
<1>1. graph = EmptyGraph /\ run.step = "idle" /\ \A d \in Docs : indexed[d] = NoText
  BY DEF Init, IdleRun
<1>2. EmptyGraph \in Graph
  <2>1. [i \in Ids |-> NoNode] \in [Ids -> Node \cup {NoNode}]
    OBVIOUS
  <2> QED
    BY <2>1 DEF EmptyGraph, Graph
<1>3. /\ Live(EmptyGraph) = {} /\ EmptyGraph.alias = {}
      /\ EmptyGraph.mention = {} /\ EmptyGraph.edge = {}
  BY DEF EmptyGraph, Live
<1>4. Sound(EmptyGraph)
  BY <1>2, <1>3, FS_EmptySet DEF Sound, Anchored, Unique
<1>5. \A d : Mentioning(EmptyGraph, d) = {}
  BY <1>3 DEF Mentioning
<1>6. \A d : Leads(EmptyGraph, d, {}) /\ Star(EmptyGraph, d)
  BY <1>5 DEF Leads, Star
<1> QED
  BY <1>1, <1>4, <1>6 DEF InOrder, LabelsOf, AtFact

(* A step that does not write the graph, and does not go on with a fact.   *)
LEMMA OrderUnlessWritten ==
  ASSUME InOrder, UNCHANGED <<graph, indexed, lost>>,
         UNCHANGED run \/ run'.step \notin AtFact
  PROVE  InOrder'
BY DEF InOrder, AtFact, Label

LEMMA OrderAfterIndexing ==
  ASSUME Kinds, InOrder, NEW d \in Docs, NEW t \in Texts, Indexes(d, t),
         (UNCHANGED run /\ ~Persisting) \/ run'.step \notin AtFact
  PROVE  InOrder'
<1>1. t \in Seq(Sighting) /\ t # NoText
  BY TextsAssumption, NoTextAssumption
<1>2. Indexed(graph, graph', d, t)
  BY <1>1, IndexingIsSound DEF Indexes, Room, InOrder
<1>3. /\ indexed' = [indexed EXCEPT ![d] = t] /\ indexed \in [Docs -> Texts \cup {NoText}]
      /\ lost' = (lost \/ \E e \in graph'.edge : {e.src, e.dst} \ Live(graph') # {})
  BY DEF Indexes, Kinds, Losing
<1>4. KeysUpTo(t, Len(t)) = LabelsOf(t)
  <2>1. DOMAIN t = 1 .. Len(t)
    BY <1>1, LenProperties
  <2> QED
    BY <1>1, <2>1 DEF KeysUpTo, LabelsOf, ToSet
<1>5. ASSUME NEW c \in Docs PROVE Leads(graph', c, LabelsOf(indexed'[c]))
  <2>1. CASE c = d
    <3>1. indexed'[c] = t
      BY <1>3, <2>1
    <3> QED
      BY <1>2, <1>4, <2>1, <3>1 DEF Indexed
  <2>2. CASE c # d
    <3>1. indexed'[c] = indexed[c]
      BY <1>3, <2>2
    <3>2. Leads(graph, c, LabelsOf(indexed[c]))
      BY DEF InOrder
    <3> QED
      BY <1>2, <2>2, <3>1, <3>2 DEF Indexed, SameForOthers
  <2> QED
    BY <2>1, <2>2
<1>6. ASSUME ~lost', NEW c \in Docs PROVE Star(graph', c)
  <2>1. ~lost /\ \A e \in graph'.edge : {e.src, e.dst} \subseteq Live(graph')
    BY <1>3, <1>6
  <2>2. CASE c = d
    BY <1>2, <2>1, <2>2 DEF Indexed
  <2>3. CASE c # d
    <3>1. Star(graph, c)
      BY <2>1 DEF InOrder
    <3> QED
      BY <1>2, <2>3, <3>1 DEF Indexed, SameForOthers
  <2> QED
    BY <2>2, <2>3
<1>7. run'.step # "write" /\
      (run'.step \in AtFact => run' = run)
  BY DEF AtFact, Persisting
<1> QED
  BY <1>2, <1>5, <1>6, <1>7 DEF InOrder, Indexed

LEMMA OrderAfterReading ==
  ASSUME Kinds, InOrder, ReadLabel PROVE InOrder'
<1>1. /\ UNCHANGED <<graph, indexed, lost>> /\ run.step = "read"
      /\ \E t \in run.triples :
           run' = [run EXCEPT !.step = "write", !.read = Read(graph, Label(t))]
  BY DEF ReadLabel
<1>2. PICK t \in Triples : run.triples = {t}
  BY <1>1 DEF Kinds, Persisting
<1>3. /\ run'.step = "write" /\ run'.read = Read(graph, Label(t))
      /\ run'.triples = {t} /\ run'.ends = run.ends
  BY <1>1, <1>2 DEF Kinds, RunFields
<1>4. \A u \in run'.triples : run'.read = Read(graph', Label(u)')
  BY <1>1, <1>3 DEF Label
<1>5. run.ends \in Seq(Ids) /\ Len(run.ends) <= 1
  BY <1>1 DEF InOrder, AtFact
<1> QED
  BY <1>1, <1>3, <1>4, <1>5 DEF InOrder, AtFact

LEMMA OrderAfterALabel ==
  ASSUME Kinds, InOrder, WriteLabel PROVE InOrder'
<1>1. run.step = "write" /\ Room(1) /\ UNCHANGED indexed /\ Losing
  BY DEF WriteLabel
<1>2. PICK t \in Triples : run.triples = {t}
  BY <1>1 DEF Kinds, Persisting
<1>3. /\ run.read = Read(graph, Label(t)) /\ Sound(graph)
      /\ run.ends \in Seq(Ids) /\ Len(run.ends) <= 1
  BY <1>1, <1>2 DEF InOrder, AtFact
<1>4. CASE Refused(graph, Label(t), run.read)
  <2>1. UNCHANGED graph /\ run' = [run EXCEPT !.step = "record", !.status = "failed"]
    BY <1>2, <1>4 DEF WriteLabel
  <2>2. run'.step \notin AtFact
    BY <2>1 DEF Kinds, RunFields, AtFact
  <2>3. ~lost' => ~lost
    BY <1>1 DEF Losing
  <2> QED
    BY <1>1, <2>1, <2>2, <2>3 DEF InOrder, AtFact
<1>5. CASE ~Refused(graph, Label(t), run.read)
  <2> DEFINE s == Label(t)
             r == resolve_entity(graph, s, run.doc, "chunk")
  <2>1. s \in Sighting /\ run.doc \in Docs /\ "chunk" \in Chunks
    BY <1>1, TriplesAssumption DEF Label, Kinds, Chunks
  <2>2. NextId(graph) \in Ids
    <3>1. NextId(graph) \in Nat \ {0} /\ MaxId \in Nat
      BY <1>3, NextIdIsFree, NodesAreNodes DEF Sound
    <3> QED
      BY <1>1, <3>1 DEF Room, Ids
  <2>3. /\ graph' = r.graph
        /\ run' = [run EXCEPT !.ends = Append(@, r.id), !.read = Unread,
                              !.step = IF run.ends = NoEnds THEN "read" ELSE "edge"]
    BY <1>2, <1>3, <1>5 DEF WriteLabel, resolve_entity
  <2> HIDE DEF r, s
  <2>4. Resolved(graph, s, run.doc, "chunk", r)
    BY <1>3, <2>1, <2>2, ResolvingIsSound DEF r
  <2>5. Sound(graph') /\ r.id \in Ids
    <3>1. Sound(r.graph) /\ r.id \in Live(r.graph)
      BY <2>4 DEF Resolved
    <3> QED
      BY <2>3, <3>1, LiveNodes DEF Sound
  <2>6. \A d \in Docs : /\ \A labels : Leads(graph, d, labels) => Leads(graph', d, labels)
                        /\ Star(graph, d) => Star(graph', d)
    <3>1. "chunk" # "whole"
      OBVIOUS
    <3> QED
      BY <1>3, <2>1, <2>3, <2>4, <3>1, ResolvingKeepsOthers
  <2>7. \A d \in Docs : Leads(graph', d, LabelsOf(indexed'[d]))
    BY <1>1, <2>6 DEF InOrder
  <2>8. ~lost' => \A d \in Docs : Star(graph', d)
    BY <1>1, <2>6 DEF InOrder, Losing
  <2>9. /\ run'.step = IF run.ends = NoEnds THEN "read" ELSE "edge"
        /\ run'.ends = Append(run.ends, r.id)
    BY <2>3 DEF Kinds, RunFields
  <2>10. run'.ends \in Seq(Ids) /\ Len(run'.ends) = Len(run.ends) + 1
    BY <1>3, <2>5, <2>9, AppendProperties
  <2>11. Len(run.ends) \in Nat /\ (run.ends = NoEnds <=> Len(run.ends) = 0)
    BY <1>3, LenProperties, EmptySeq DEF NoEnds
  <2>12. IF run'.step = "edge" THEN Len(run'.ends) = 2 ELSE Len(run'.ends) <= 1
    BY <1>3, <2>9, <2>10, <2>11
  <2>13. run'.step # "write"
    BY <2>9
  <2> QED
    BY <2>5, <2>7, <2>8, <2>10, <2>12, <2>13 DEF InOrder
<1> QED
  BY <1>4, <1>5

LEMMA OrderAfterAnEdge ==
  ASSUME Kinds, InOrder, AssertEdge PROVE InOrder'
<1>1. run.step = "edge" /\ UNCHANGED indexed /\ Losing
  BY DEF AssertEdge
<1>2. PICK t \in Triples : run.triples = {t}
  BY <1>1 DEF Kinds, Persisting
<1> DEFINE i == run.ends[1]
           j == run.ends[2]
           E == Assertion(i, j, t.predicate, run.doc)
<1>3. i \in Ids /\ j \in Ids /\ run.doc \in Docs /\ t.predicate \in Predicates
  <2>1. run.ends \in Seq(Ids) /\ Len(run.ends) = 2
    BY <1>1 DEF InOrder, AtFact
  <2> QED
    BY <1>1, <2>1, ElementOfSeq, TriplesAssumption DEF Kinds
<1>4. /\ graph' = [graph EXCEPT !.edge = @ \cup E]
      /\ run' = [run EXCEPT !.step = "record", !.triples = {}]
  BY <1>2 DEF AssertEdge, add_edge
<1> HIDE DEF i, j
<1>5. E \in SUBSET Edge /\ \A e \in E : e.src # e.dst
  BY <1>3 DEF Assertion, Edge
<1> HIDE DEF E
<1>6. Extended(graph, graph', E)
  BY <1>4, <1>5, MoreEdges DEF InOrder
<1>7. run'.step \notin AtFact
  BY <1>4 DEF Kinds, RunFields, AtFact
<1>8. ~lost' => ~lost
  BY <1>1 DEF Losing
<1> QED
  BY <1>1, <1>6, <1>7, <1>8 DEF InOrder, Extended, AtFact
-----------------------------------------------------------------------------
LEMMA InvariantKept ==
  ASSUME IInv, [Next]_vars PROVE IInv'
<1>1. Kinds /\ Kinds'
  BY KindsKept DEF IInv
<1> SUFFICES ASSUME ~torn' PROVE InOrder'
  BY <1>1 DEF IInv
<1>2. CASE UNCHANGED vars
  <2>1. InOrder
    BY <1>2 DEF IInv, vars
  <2> QED
    BY <1>2, <2>1, OrderUnlessWritten DEF vars
<1>3. ASSUME NEW d \in Docs, NEW t \in Texts, delete_document(d, t) PROVE InOrder'
  BY <1>3, OrderUnlessWritten DEF delete_document, IInv
<1>4. CASE store_chunks
  BY <1>4, OrderUnlessWritten DEF store_chunks, IInv
<1>5. CASE IngestIndex
  <2>1. ingest.doc \in Docs /\ ingest.text \in Texts /\ UNCHANGED run
    BY <1>1, <1>5 DEF IngestIndex, Kinds, IdleIngest
  <2>2. CASE Indexes(ingest.doc, ingest.text) /\ torn' = (torn \/ Persisting)
    <3>1. InOrder /\ ~Persisting
      BY <2>2 DEF IInv
    <3> QED
      BY <1>1, <2>1, <2>2, <3>1, OrderAfterIndexing
  <2>3. CASE IndexGivesUp /\ UNCHANGED torn
    BY <2>1, <2>3, OrderUnlessWritten DEF IndexGivesUp, IInv
  <2> QED
    BY <1>5, <2>2, <2>3 DEF IngestIndex
<1>6. CASE IngestDies
  BY <1>6, OrderUnlessWritten DEF IngestDies, IInv
<1>7. ASSUME NEW pass \in Passes, NEW reset \in BOOLEAN, StartBackfill(pass, reset)
      PROVE  InOrder'
  <2>1. run'.step \notin AtFact
    BY <1>7 DEF StartBackfill, IdleRun, AtFact
  <2> QED
    BY <1>7, <2>1, OrderUnlessWritten DEF StartBackfill, IInv
<1>8. ASSUME NEW d \in Docs, TakeDocument(d) PROVE InOrder'
  <2>1. /\ UNCHANGED <<graph, indexed, lost, torn>> /\ run'.ends = <<>>
        /\ run'.step \in {"record", "extract", "index"}
    BY <1>1, <1>8 DEF TakeDocument, Kinds, RunFields, NoEnds
  <2>2. InOrder /\ <<>> \in Seq(Ids) /\ Len(<<>>) = 0
    BY <2>1 DEF IInv
  <2> QED
    BY <2>1, <2>2 DEF InOrder, AtFact
<1>9. CASE _run_deterministic
  <2>1. run.step = "index" /\ run.doc \in Docs /\ run.text \in Texts
    BY <1>1, <1>9 DEF _run_deterministic, Kinds
  <2>2. InOrder /\ run'.step \notin AtFact
    BY <1>1, <1>9 DEF _run_deterministic, Kinds, RunFields, AtFact, IInv
  <2>3. CASE Indexes(run.doc, run.text)
    BY <1>1, <2>1, <2>2, <2>3, OrderAfterIndexing
  <2>4. CASE IndexGivesUp
    BY <2>2, <2>4, OrderUnlessWritten DEF IndexGivesUp
  <2> QED
    BY <1>9, <2>3, <2>4 DEF _run_deterministic
<1>10. CASE ExtractDocument
  <2>1. /\ UNCHANGED <<graph, indexed, lost, torn>> /\ run.step = "extract"
        /\ run'.ends = run.ends /\ run'.step \in {"record", "read"}
    <3>1. \/ \E T : run' = [run EXCEPT !.triples = T,
                                       !.step = IF T = {} THEN "record" ELSE "read"]
          \/ run' = [run EXCEPT !.step = "record"]
          \/ run' = [run EXCEPT !.step = "record", !.status = "failed"]
      BY <1>10 DEF ExtractDocument
    <3>2. run'.ends = run.ends /\ run'.step \in {"record", "read"}
      BY <1>1, <3>1 DEF Kinds, RunFields
    <3> QED
      BY <1>10, <3>2 DEF ExtractDocument
  <2>2. InOrder /\ run.ends \in Seq(Ids) /\ Len(run.ends) <= 1
    BY <2>1 DEF IInv, InOrder, AtFact
  <2> QED
    BY <2>1, <2>2 DEF InOrder, AtFact
<1>11. CASE ReadLabel
  BY <1>1, <1>11, OrderAfterReading DEF ReadLabel, IInv
<1>12. CASE WriteLabel
  BY <1>1, <1>12, OrderAfterALabel DEF WriteLabel, IInv
<1>13. CASE AssertEdge
  BY <1>1, <1>13, OrderAfterAnEdge DEF AssertEdge, IInv
<1>14. CASE PersistFails
  BY <1>14 DEF PersistFails
<1>15. CASE _record
  <2>1. run'.step \notin AtFact
    BY <1>1, <1>15 DEF _record, Kinds, RunFields, AtFact
  <2> QED
    BY <1>15, <2>1, OrderUnlessWritten DEF _record, IInv
<1>16. CASE FinishBackfill
  <2>1. run'.step \notin AtFact
    BY <1>16 DEF FinishBackfill, IdleRun, AtFact
  <2> QED
    BY <1>16, <2>1, OrderUnlessWritten DEF FinishBackfill, IInv
<1>17. CASE Kill
  <2>1. run'.step \notin AtFact /\ ~torn
    BY <1>17 DEF Kill, IdleRun, AtFact
  <2> QED
    BY <1>17, <2>1, OrderUnlessWritten DEF Kill, IInv
<1>18. CASE merge_type_splits
  <2>1. ~torn /\ graph' = MergeTypeSplits(graph) /\ graph' # graph
    BY <1>18 DEF merge_type_splits
  <2>2. Sound(graph)
    BY <2>1 DEF IInv, InOrder
  <2> QED
    BY <2>1, <2>2, NoSplitsNoMerge
<1> QED
  BY <1>2, <1>3, <1>4, <1>5, <1>6, <1>7, <1>8, <1>9, <1>10, <1>11, <1>12, <1>13,
     <1>14, <1>15, <1>16, <1>17, <1>18 DEF Next, backfill

LEMMA Invariant == Spec => []IInv
<1>1. Init => IInv
  BY KindsStart, OrderAtFirst DEF IInv
<1>2. IInv /\ [Next]_vars => IInv'
  BY InvariantKept
<1> QED
  BY <1>1, <1>2, PTL DEF Spec
-----------------------------------------------------------------------------
(* One node per real-world thing: no two live rows of graph_entities have  *)
(* the same canonical key, whatever is indexed, in whatever order, beside  *)
(* whatever backfill; but for a fact that another commit cut in two.       *)
THEOREM GraphOneNodePerThing == Spec => []OneNodePerThing
<1>1. IInv => OneNodePerThing
  BY DEF IInv, InOrder, Sound, Unique, OneNodePerThing
<1> QED
  BY <1>1, Invariant, PTL

(* integrity_report would have nothing to count: aliases and mentions have *)
(* their nodes, every node is mentioned as often as it says and at least   *)
(* once, and no edge leads from a node to itself.                          *)
THEOREM GraphHoldsTogether == Spec => []GraphHangsTogether
<1>1. ASSUME Sound(graph), NEW i \in Live(graph)
      PROVE  graph.node[i].count = Cardinality(MentionsOf(graph, i)) /\ graph.node[i].count > 0
  BY <1>1, CountsAreNumbers DEF Sound, CountIs
<1>2. IInv => GraphHangsTogether
  BY <1>1 DEF IInv, InOrder, Sound, Anchored, GraphHangsTogether
<1> QED
  BY <1>2, Invariant, PTL

(* However its nodes are retyped, folded and forgotten on behalf of other  *)
(* documents, the labels of an indexed document go on to lead, as aliases, *)
(* to the nodes that mention it, and to no others.                         *)
THEOREM GraphLabelsLead == Spec => []LabelsLeadToDocuments
<1>1. ASSUME ~torn => InOrder, ~torn, NEW d \in Docs
      PROVE  LET labels == IF indexed[d] = NoText THEN {} ELSE {s.key : s \in ToSet(indexed[d])}
                 mentioning == {i \in Ids : <<i, d, "whole">> \in graph.mention}
             IN /\ \A k \in labels : \E i \in mentioning : <<k, i>> \in graph.alias
                /\ \A i \in mentioning : \E k \in labels : <<k, i>> \in graph.alias
  BY <1>1 DEF InOrder, Leads, LabelsOf, Mentioning
<1>2. IInv => LabelsLeadToDocuments
  BY <1>1 DEF IInv, LabelsLeadToDocuments
<1> QED
  BY <1>2, Invariant, PTL

(* One of the nodes of an indexed document is tied to every other of them, *)
(* however many they are, by a co-mention of this document alone, as long  *)
(* as no edge has ever lost an end.                                        *)
THEOREM GraphDocumentsAreConnected == Spec => []DocumentIsConnected
<1>1. ASSUME IInv, ~torn, ~lost, NEW d \in Docs
      PROVE  LET mentioning == {m[1] : m \in {n \in graph.mention : n[2] = d /\ n[3] = "whole"}}
             IN mentioning # {} =>
                  \E a \in mentioning : \A i \in mentioning \ {a} :
                    \E e \in graph.edge : e.doc = d /\ {e.src, e.dst} = {a, i}
  <2> DEFINE mentioning == {m[1] : m \in {n \in graph.mention : n[2] = d /\ n[3] = "whole"}}
  <2>1. Star(graph, d) /\ graph \in Graph
    BY <1>1 DEF IInv, InOrder, Sound
  <2>2. mentioning = Mentioning(graph, d)
    <3>1. \A n \in graph.mention : n[1] \in Ids /\ n = <<n[1], n[2], n[3]>>
      BY <2>1 DEF Graph
    <3>2. ASSUME NEW i \in mentioning PROVE i \in Mentioning(graph, d)
      BY <3>1 DEF Mentioning
    <3>3. ASSUME NEW i \in Mentioning(graph, d) PROVE i \in mentioning
      <4> DEFINE n == <<i, d, "whole">>
      <4>1. n \in graph.mention /\ n[1] = i /\ n[2] = d /\ n[3] = "whole"
        BY DEF Mentioning
      <4> HIDE DEF n
      <4> QED
        BY <4>1
    <3> QED
      BY <3>2, <3>3
  <2> HIDE DEF mentioning
  <2>3. mentioning # {} =>
          \E a \in mentioning : \A i \in mentioning \ {a} :
            \E e \in graph.edge : e.doc = d /\ {e.src, e.dst} = {a, i}
    BY <2>1, <2>2 DEF Star, Tied
  <2> QED
    BY <2>3 DEF mentioning
<1>2. IInv => DocumentIsConnected
  BY <1>1 DEF DocumentIsConnected
<1> QED
  BY <1>2, Invariant, PTL
=============================================================================
