----------------------------- MODULE GraphStore -----------------------------
(***************************************************************************)
(* The knowledge graph of one workspace as a value, and what the resolver  *)
(* does to it: graph_resolve.py, and the writers of graph.py.              *)
(*                                                                         *)
(* A label is its canonical key, spelled one way.  Money, the type         *)
(* evidence rows, weights, and the v1 mirror tables are left out.          *)
(***************************************************************************)
EXTENDS Integers, FiniteSets, Sequences, SequencesExt

CONSTANTS
  Keys,         \* canonical keys of labels
  Near,         \* pairs of keys whose SequenceMatcher ratio reaches FUZZY_RATIO
  Docs,         \* documents
  MaxId,        \* bound: row ids of graph_entities
  CORROBORATION_MIN,
  MAX_COMENTION_ENTITIES

ASSUME GraphStoreAssumption ==
  {MaxId, CORROBORATION_MIN} \subseteq Nat /\ MAX_COMENTION_ENTITIES \in Nat \ {0}

Types == {"product", "person", "org", "date", "decision"}
Confs == {70, 80, 90, 95}
NoId  == 0
Ids   == 1..MaxId
NoNode == [key |-> "none", type |-> "none", conf |-> 0, count |-> 0]

(* One chunk per document: the lanes differ in the chunk that they cite.   *)
Chunks     == {"whole", "chunk"}
Predicates == {"CO_ACTIVITY", "OWNS"}

Sighting == [key : Keys, type : Types, conf : Confs]
Node     == [key : Keys, type : Types, conf : Confs, count : Nat]
Edge     == [src : Ids, dst : Ids, predicate : Predicates, doc : Docs]

(* The tables, as sets of their rows: UNIQUE makes sets of aliases,        *)
(* mentions and edges.                                                     *)
Graph ==
  [node    : [Ids -> Node \cup {NoNode}],
   alias   : SUBSET (Keys \X Ids),
   mention : SUBSET (Ids \X Docs \X Chunks),
   edge    : SUBSET Edge]

EmptyGraph ==
  [node |-> [i \in Ids |-> NoNode], alias |-> {}, mention |-> {}, edge |-> {}]

Live(g) == {i \in Ids : g.node[i] # NoNode}
MentionsOf(g, i) == {m \in g.mention : m[1] = i}

(* INTEGER PRIMARY KEY without AUTOINCREMENT: one more than the largest id *)
(* there is, so the id of a deleted row is given out again.                *)
NextId(g) == IF Live(g) = {} THEN 1 ELSE Max(Live(g)) + 1
-----------------------------------------------------------------------------
(* _Candidate: a row, or the assertion about to be written (NoId).         *)
ShapeTypes == {"date"}
NamedTypes == {"product", "person"}
NAMED_ORDER == [t \in Types |-> CASE t = "product" -> 4 [] t = "person" -> 3 [] OTHER -> 0]

Candidate(g, i) ==
  [id |-> i, type |-> g.node[i].type, conf |-> g.node[i].conf, mentions |-> g.node[i].count]

Proven(c) == c.conf >= 90

Tier(c) ==
  CASE c.type \in ShapeTypes -> IF Proven(c) THEN 4 ELSE 0
    [] c.type \in NamedTypes -> 3
    [] c.type = "org"        -> 2
    [] OTHER                 -> 1

rank(c) ==
  <<Tier(c), IF Proven(c) THEN 1 ELSE 0, c.mentions, c.conf, NAMED_ORDER[c.type],
    IF c.id = NoId THEN -(MaxId + 1) ELSE -c.id>>

Outranks(c, d) ==
  \E n \in 1..6 : rank(c)[n] > rank(d)[n] /\ \A m \in 1..(n - 1) : rank(c)[m] = rank(d)[m]

Winner(C) == CHOOSE c \in C : \A d \in C \ {c} : Outranks(c, d)

SharesDocument(g, i, j) ==
  \E m \in MentionsOf(g, i), n \in MentionsOf(g, j) : m[2] = n[2]

MayMerge(g, w, l) ==
  \/ {w.type, l.type} \ (NamedTypes \cup {"org"}) # {}
  \/ w.mentions < CORROBORATION_MIN
  \/ l.mentions < CORROBORATION_MIN
  \/ NoId \in {w.id, l.id}
  \/ SharesDocument(g, w.id, l.id)

(* An UPDATE of a row that is gone writes nothing.                         *)
Update(g, i, node) == IF i \in Live(g) THEN [g EXCEPT !.node[i] = node] ELSE g
Raise(node, conf)  == [node EXCEPT !.conf = IF conf > @ THEN conf ELSE @]
Counted(g, i) ==
  Update(g, i, [g.node[i] EXCEPT !.count = Cardinality(MentionsOf(g, i))])

fold_entity_bug(g, w, l) ==  \* the loser's names are deleted with it
  Counted([g EXCEPT !.node[l] = NoNode,
                    !.alias = {a \in @ : a[2] # l},
                    !.mention = {<<IF m[1] = l THEN w ELSE m[1], m[2], m[3]>> : m \in @}], w)

(* fold_entity: everything the loser owns is the winner's.  OR IGNORE and  *)
(* the sweep after it are what a set does with a row it already has.       *)
fold_entity(g, w, l) ==
  LET At(i) == IF i = l THEN w ELSE i
      h == Update(g, w, Raise(g.node[w], g.node[l].conf))
  IN Counted(
       [node    |-> [h.node EXCEPT ![l] = NoNode],
        alias   |-> {<<a[1], At(a[2])>> : a \in g.alias},
        mention |-> {<<At(m[1]), m[2], m[3]>> : m \in g.mention},
        edge    |-> {[e EXCEPT !.src = At(e.src), !.dst = At(e.dst)] :
                       e \in {f \in g.edge : {f.src, f.dst} # {w, l}}}], w)

(* The losers one after the other, each against the graph as it is then.   *)
FoldAll(g, w, losers) ==
  LET FoldOne(h, c) ==
        IF c.id \in {NoId, w.id} \/ ~MayMerge(h, w, c) THEN h ELSE fold_entity(h, w.id, c.id)
      folded[n \in 0 .. Len(losers)] ==
        IF n = 0 THEN g ELSE FoldOne(folded[n - 1], losers[n])
  IN folded[Len(losers)]

(* The rows of a SELECT without ORDER BY: by id, as one order among others. *)
ById(C) ==
  [n \in 1 .. Cardinality(C) |->
     CHOOSE c \in C : Cardinality({d \in C : d.id < c.id}) = n - 1]
-----------------------------------------------------------------------------
(* What resolve_entity reads: the row that the exact key, an alias or a    *)
(* near key of the same type gives (fuzzy_lookup keeps the last of the     *)
(* best), and the rows of this key under another type.                     *)
LookUp(g, s) ==
  LET OfType  == {i \in Live(g) : g.node[i].type = s.type}
      exact   == {i \in OfType : g.node[i].key = s.key}
      aliased == {i \in OfType : <<s.key, i>> \in g.alias}
      fuzzy   == {i \in OfType : <<s.key, g.node[i].key>> \in Near}
  IN CASE exact # {}   -> Min(exact)
       [] exact = {} /\ aliased # {} -> Min(aliased)
       [] exact = {} /\ aliased = {} /\ fuzzy # {} -> Max(fuzzy)
       [] OTHER -> NoId

Siblings_bug(g, s, same) == {}  \* the key is looked up under its own type
Siblings(g, s, same) ==
  {Candidate(g, i) : i \in
     {j \in Live(g) : g.node[j].key = s.key /\ g.node[j].type # s.type /\ j # same}}

Read(g, s) ==
  LET same == LookUp(g, s)
  IN [same     |-> same,
      siblings |-> Siblings(g, s, same),
      incoming |-> IF same = NoId
                   THEN [id |-> NoId, type |-> s.type, conf |-> s.conf, mentions |-> 0]
                   ELSE Raise(Candidate(g, same), s.conf)]

(* _reconcile_types: one row is left of all that were read.  An assertion  *)
(* that outranks the stored rows gives its type to the best of them.       *)
Retypes(read) ==
  read.siblings # {} /\ Winner(read.siblings \cup {read.incoming}).id = NoId

Reconcile(g, s, read) ==
  LET all  == read.siblings \cup {read.incoming}
      best == Winner(read.siblings)
      rows == <<read.incoming>> \o ById(read.siblings)
  IN IF read.siblings = {} THEN [graph |-> g, id |-> read.same]
     ELSE IF Retypes(read)
     THEN [graph |-> FoldAll(Update(g, best.id, [g.node[best.id] EXCEPT !.type = s.type]),
                             [best EXCEPT !.type = s.type], rows),
           id    |-> best.id]
     ELSE [graph |-> FoldAll(g, Winner(all), rows), id |-> Winner(all).id]

(* UNIQUE(canonical_key, type) refuses the row, or the type, that is about *)
(* to be written.                                                          *)
Refused(g, s, read) ==
  /\ read.same = NoId
  /\ read.siblings = {} \/ (Retypes(read) /\ Winner(read.siblings).id \in Live(g))
  /\ \E i \in Live(g) : g.node[i].key = s.key /\ g.node[i].type = s.type

(* What it writes: the row, its alias, the mention and the count.          *)
Sight(g, i, s, doc, chunk) ==
  LET id == IF i = NoId THEN NextId(g) ELSE i
      h  == IF i = NoId
            THEN [g EXCEPT !.node[id] = [key |-> s.key, type |-> s.type, conf |-> s.conf, count |-> 0]]
            ELSE Update(g, i, Raise(g.node[i], s.conf))
  IN [graph |-> Counted([h EXCEPT !.alias = @ \cup {<<s.key, id>>},
                                  !.mention = @ \cup {<<id, doc, chunk>>}], id),
      id    |-> id]

Write(g, s, read, doc, chunk) ==
  LET r == Reconcile(g, s, read) IN Sight(r.graph, r.id, s, doc, chunk)

resolve_entity(g, s, doc, chunk) == Write(g, s, Read(g, s), doc, chunk)
-----------------------------------------------------------------------------
forget_document_bug(g, doc) ==  \* no garbage collection
  [g EXCEPT !.mention = {m \in @ : m[2] # doc}, !.edge = {e \in @ : e.doc # doc}]

(* forget_document: what a document asserted goes, and the nodes that only *)
(* it mentioned, with their aliases and edges.                             *)
forget_document(g, doc) ==
  LET touched == {m[1] : m \in {n \in g.mention : n[2] = doc}}
      mention == {m \in g.mention : m[2] # doc}
      CountOf(i) == Cardinality({m \in mention : m[1] = i})
      orphans == {i \in touched \cap Live(g) : CountOf(i) = 0}
  IN [node    |-> [i \in Ids |-> IF i \in orphans THEN NoNode
                                 ELSE IF i \in touched \cap Live(g)
                                      THEN [g.node[i] EXCEPT !.count = CountOf(i)]
                                      ELSE g.node[i]],
      alias   |-> {a \in g.alias : a[2] \notin orphans},
      mention |-> mention,
      edge    |-> {e \in g.edge : e.doc # doc /\ {e.src, e.dst} \cap orphans = {}}]

(* add_edge: no edge from a node to itself; the same assertion only once.  *)
Assertion(i, j, p, doc) ==
  IF i = j THEN {} ELSE {[src |-> i, dst |-> j, predicate |-> p, doc |-> doc]}

add_edge(g, i, j, p, doc) == [g EXCEPT !.edge = @ \cup Assertion(i, j, p, doc)]

CoMention(i, j, doc) ==
  IF i < j THEN Assertion(i, j, "CO_ACTIVITY", doc) ELSE Assertion(j, i, "CO_ACTIVITY", doc)

CoMentioned_bug(ranked) ==  \* no anchor below the cap
  {<<ranked[p[1]], ranked[p[2]]>> :
     p \in {q \in (1..Len(ranked)) \X (1..Len(ranked)) :
             q[1] < q[2] /\ q[2] <= MAX_COMENTION_ENTITIES}}

(* The pairs among the most salient nodes of a document, and the rest of   *)
(* its nodes each tied to the first.                                       *)
CoMentioned(ranked) ==
  {<<ranked[p[1]], ranked[p[2]]>> :
     p \in {q \in (1..Len(ranked)) \X (1..Len(ranked)) :
             q[1] < q[2] /\ (q[2] <= MAX_COMENTION_ENTITIES \/ q[1] = 1)}}

(* The entities that the extractor found, one after the other, the most    *)
(* confident first: the graph, and their nodes in this order.              *)
ResolveAll(g, doc, text) ==
  LET ResolveNext(acc, s) ==
        LET r == resolve_entity(acc.graph, s, doc, "whole")
        IN [graph |-> r.graph,
            ids   |-> IF r.id \in ToSet(acc.ids) THEN acc.ids ELSE Append(acc.ids, r.id)]
      found[n \in 0 .. Len(text)] ==
        IF n = 0 THEN [graph |-> g, ids |-> <<>>] ELSE ResolveNext(found[n - 1], text[n])
  IN found[Len(text)]

(* The transaction of index_document.                                      *)
IndexDocument(g, doc, text) ==
  LET found == ResolveAll(forget_document(g, doc), doc, text)
  IN [found.graph EXCEPT
        !.edge = @ \cup UNION {CoMention(p[1], p[2], doc) : p \in CoMentioned(found.ids)}]

(* merge_type_splits: every key with rows of several types folded into the *)
(* one that outranks the others, but for the pairs the guard refuses.      *)
MergeTypeSplits(g) ==
  LET RowsOf(k) == {i \in Live(g) : g.node[i].key = k}
      Split == {k \in Keys : Cardinality(RowsOf(k)) > 1}
      MergeKey(k, h) ==
        LET rows == {Candidate(h, i) : i \in RowsOf(k)}
        IN FoldAll(h, Winner(rows), ById(rows))
      merged == FoldSet(MergeKey, g, Split)
  IN [merged EXCEPT !.edge = {e \in @ : e.src # e.dst}]
=============================================================================
