----------------------------- MODULE Retrieval -----------------------------
(***************************************************************************)
(* How a question becomes evidence: the two searches of vector_store.py    *)
(* and the ranking of retrieve and find_docs in ask.py, as operators on    *)
(* what a store holds.                                                     *)
(*                                                                         *)
(* A point is [doc, ver, idx, copy]: passage idx of version ver of a       *)
(* document; the knowledge base that was migrated holds some passages more *)
(* than once.  What the ranking looks at comes from p, a function from     *)
(* <<doc, ver, idx>> to a passage: its similarity and its freshness, both  *)
(* 0..100, the number of the question's terms in its text (one more if it  *)
(* has them as a phrase) and in the title of its document, and the tag     *)
(* injection_risk it was stored with.                                      *)
(***************************************************************************)
EXTENDS Integers, Sequences, FiniteSets, SequencesExt

CONSTANTS
  Terms,              \* terms of the question
  POOL_MULTIPLIER,    \* the pool is so many times k
  KEYWORD_MULTIPLIER  \* and so is the keyword list

ASSUME RetrievalAssumption == {Terms, POOL_MULTIPLIER, KEYWORD_MULTIPLIER} \subseteq Nat \ {0}

Phrase      == Terms + 1
RRF_K       == 60
PER_DOC_CAP == 2

(* Points in the order in which they were stored, which breaks ties.       *)
Older(a, b) ==
  \/ a.doc < b.doc
  \/ a.doc = b.doc /\ a.ver < b.ver
  \/ a.doc = b.doc /\ a.ver = b.ver /\ a.idx < b.idx
  \/ a.doc = b.doc /\ a.ver = b.ver /\ a.idx = b.idx /\ a.copy < b.copy

Least(a, b) == IF a < b THEN a ELSE b
First(s, n) == SubSeq(s, 1, Least(n, Len(s)))
Of(p, c)    == p[<<c.doc, c.ver, c.idx>>]
Place(s, c) == CHOOSE i \in DOMAIN s : s[i] = c

(* S in the order R, which is strict and total on it.                      *)
Sorted(S, R) ==
  [n \in 1 .. Cardinality(S) |->
     CHOOSE c \in S : Cardinality({b \in S : <<b, c>> \in R}) = n - 1]

(* Points by what key gives them, the highest first.                       *)
ByKey(key) ==
  {x \in (DOMAIN key) \X (DOMAIN key) :
     key[x[1]] > key[x[2]] \/ (key[x[1]] = key[x[2]] /\ Older(x[1], x[2]))}

Best(key, n) == First(Sorted(DOMAIN key, ByKey(key)), n)

(* A sort of positions that keeps the order of those that are worth the    *)
(* same; and what s has at some of its positions in this order.            *)
ByWorth(worth) ==
  {x \in (DOMAIN worth) \X (DOMAIN worth) :
     worth[x[1]] > worth[x[2]] \/ (worth[x[1]] = worth[x[2]] /\ x[1] < x[2])}

Arranged(s, worth) ==
  LET order == Sorted(DOMAIN worth, ByWorth(worth))
  IN [n \in 1 .. Cardinality(DOMAIN worth) |-> s[order[n]]]

(* search_by_vector: k was bounded by an earlier count of the store.       *)
Nearest(p, store, limit, count) ==
  Best([c \in store |-> Of(p, c).sim], Least(limit, IF count > 1 THEN count ELSE 1))

(* retrieve: the nearest once more, now by 0.6 similarity + 0.10 freshness.*)
ByFreshness(p, hits) ==
  Arranged(hits, [i \in DOMAIN hits |-> 6 * Of(p, hits[i]).sim + Of(p, hits[i]).fresh])

(* keyword_search: points that carry at least so many of the terms.        *)
Matching(p, store, terms, limit) ==
  Best([c \in {c \in store : Of(p, c).words >= terms} |-> Of(p, c).words], limit)

-----------------------------------------------------------------------------
(* A share of reciprocal rank fusion, in units of 10^-7; ranks begin at 0. *)
Share(list, c) == IF c \in ToSet(list) THEN 10000000 \div (RRF_K + Place(list, c) - 1) ELSE 0

Scores(vec, kw) ==
  [c \in ToSet(vec) \cup ToSet(kw) |-> Share(vec, c) + Share(kw, c)]

(* The hits of both lists in the order in which _fuse came across them.    *)
Came(vec, kw) ==
  vec \o Arranged(kw, [i \in {i \in DOMAIN kw : kw[i] \notin ToSet(vec)} |-> 0])

(* _fuse, whose sort keeps that order.                                     *)
Fuse(vec, kw, limit) ==
  LET came == Came(vec, kw)
  IN First(Arranged(came, [i \in DOMAIN came |-> Scores(vec, kw)[came[i]]]), limit)

Tagged(p, c) == Of(p, c).tagged

(* Source, chunk index and text: what a copy shares with its original.     *)
Same(a, b) == a.doc = b.doc /\ a.ver = b.ver /\ a.idx = b.idx

(* What is tagged goes, and of each passage the first stays.               *)
Distinct(p, hits) ==
  Arranged(hits, [i \in {i \in DOMAIN hits :
                           /\ ~Tagged(p, hits[i])
                           /\ \A j \in 1 .. i - 1 : ~Same(hits[i], hits[j])} |-> 0])

-----------------------------------------------------------------------------
(* A hit's rrf after both roundings, in units of 10^-5.                    *)
Rrf(p, score, c) == (score[c] + 50) \div 100 + 800 * Least(Of(p, c).title, 2)

(* Which hit of its document it is, from 0, and where the document was     *)
(* found: hits are grouped by documents in the order of their first hits.  *)
Nth(hits, i)   == Cardinality({j \in 1 .. i - 1 : hits[j].doc = hits[i].doc})
Found(hits, d) == CHOOSE i \in DOMAIN hits : hits[i].doc = d /\ Nth(hits, i) = 0

Grouped(hits, I) == Arranged(hits, [i \in I |-> -Found(hits, hits[i].doc)])

(* Documents by the sum of their first two hits, their best chunks, top k. *)
Pick(p, score, hits, k) ==
  LET part(d, n) == {i \in DOMAIN hits : hits[i].doc = d /\ Nth(hits, i) = n}
      rrf(I)     == IF I = {} THEN 0 ELSE Rrf(p, score, hits[CHOOSE i \in I : TRUE])
      capped     == Grouped(hits, {i \in DOMAIN hits : Nth(hits, i) < PER_DOC_CAP})
  IN First(Arranged(capped, [i \in DOMAIN capped |->
                               rrf(part(capped[i].doc, 0)) + rrf(part(capped[i].doc, 1))]), k)

(* Tagged hits are dropped from the k that were picked.                    *)
Evidence_bug(p, vec, kw, k) ==
  LET near  == ByFreshness(p, vec)
      blind == [x \in DOMAIN p |-> [p[x] EXCEPT !.tagged = FALSE]]
      fused == Fuse(near, kw, k * POOL_MULTIPLIER)
  IN Distinct(p, Pick(p, Scores(near, kw), Distinct(blind, fused), k))

(* retrieve, from its two lists on.                                        *)
Evidence(p, vec, kw, k) ==
  LET near  == ByFreshness(p, vec)
      fused == Fuse(near, kw, k * POOL_MULTIPLIER)
  IN Pick(p, Scores(near, kw), Distinct(p, fused), k)

(* find_docs: the documents of the evidence in the order of their best     *)
(* hit, two passages each.                                                 *)
Documents(hits, k) ==
  LET before(d) == {hits[j].doc : j \in 1 .. Found(hits, d) - 1}
  IN Grouped(hits, {i \in DOMAIN hits : Nth(hits, i) < 2 /\ Cardinality(before(hits[i].doc)) < k})
=============================================================================
