----------------------------- MODULE KbMigrate -----------------------------
(***************************************************************************)
(* What those who were handed the workspace do with its store, and the     *)
(* one-time copy of an existing store into it (kb_migrate.py).             *)
(*                                                                         *)
(* A store maps row ids to items: an item is the id of a chunk and the     *)
(* version of it that the text, the payload or the vector is of.  The copy *)
(* is a sequence of statements: counts, batches of points, batches of      *)
(* vectors, counts again, a sample.  The source is live (its daemons keep  *)
(* writing), and so may be the target (an ingest).                         *)
(***************************************************************************)
EXTENDS Workspace, FiniteSets, FiniteSetsExt

CONSTANTS
  InitialRows,      \* row ids in the source at first
  MaxRow,           \* bound: row ids
  Chunks,           \* ids of chunks, numbers
  BATCH,
  SampleSize,       \* rows whose payload is compared, from the middle on
  MaxSourceWrites,  \* bound: writes of the source's daemons
  MaxTargetWrites   \* bound: chunks ingested into the target or deleted there

ASSUME KbAssumption ==
  /\ MaxRow \in Nat /\ InitialRows \subseteq 1 .. MaxRow
  /\ Chunks \subseteq Nat /\ 1 .. Cardinality(InitialRows) \subseteq Chunks
  /\ BATCH \in Nat \ {0} /\ SampleSize \in Nat
  /\ MaxSourceWrites \in Nat /\ MaxTargetWrites \in Nat

VARIABLES
  source,  \* both tables of the source: its writers change them in one transaction
  points,  \* the target's table points
  vecs,    \* and vec_points
  fts,     \* the rows fts_points has
  copy,    \* per user: where its migration is
  writes,  \* [source, target]: how often others wrote
  begun,   \* history: a migration into this workspace has begun
  churned, \* history: the stores that lost a row since then
  changed  \* history: the row ids under which the source rewrote or lost a
           \* chunk since then

history   == <<begun, churned, changed>>
kbvars    == <<source, points, vecs, fts, copy, writes, history>>
storevars == <<wvars, kbvars>>

NoCopy == [at |-> "none"]
Table  == {"points", "vecs"}

(* The stores as partial functions.                                        *)
Empty == [r \in {} |-> 0]
Without(f, rows) == [r \in DOMAIN f \ rows |-> f[r]]
With(f, g) == [r \in DOMAIN f \cup DOMAIN g |-> IF r \in DOMAIN f THEN f[r] ELSE g[r]]
Items(f) == {f[r] : r \in DOMAIN f}
Ids(f)   == {f[r][1] : r \in DOMAIN f}

(* INTEGER PRIMARY KEY: one more than the largest row id of the table.     *)
NextRow(f) == IF DOMAIN f = {} THEN 1 ELSE Max(DOMAIN f) + 1

(* upsert_points: a chunk keeps the row it has.                            *)
RowOf(f, c) ==
  IF c \in Ids(f) THEN CHOOSE r \in DOMAIN f : f[r][1] = c ELSE NextRow(f)

(* Every write brings a version of its chunk that was not there before.    *)
Version(c) == <<c, writes.source + writes.target + 1>>

(* The first n rows after cursor.                                          *)
Page(f, cursor, n) ==
  LET rest == {r \in DOMAIN f : r > cursor}
  IN [r \in {x \in rest : Cardinality({y \in rest : y < x}) < n} |-> f[r]]

InitialRank(r) == Cardinality({q \in InitialRows : q <= r})

KbInit ==
  /\ WorkspaceInit
  /\ source = [r \in InitialRows |-> <<InitialRank(r), 0>>]
  /\ points = Empty /\ vecs = Empty /\ fts = {}
  /\ copy = [u \in Users |-> NoCopy]
  /\ writes = [source |-> 0, target |-> 0]
  /\ begun = FALSE /\ churned = {} /\ changed = {}

-----------------------------------------------------------------------------
(* The daemons of the source upsert a chunk, or delete one.                *)
SourceStores(c) ==
  LET r == RowOf(source, c)
  IN /\ writes.source < MaxSourceWrites
     /\ r <= MaxRow
     /\ source' = With([x \in {r} |-> Version(c)], source)
     /\ writes' = [writes EXCEPT !.source = @ + 1]
     /\ changed' = IF begun /\ r \in DOMAIN source THEN changed \cup {r} ELSE changed
     /\ UNCHANGED <<wvars, points, vecs, fts, copy, begun, churned>>

SourceDeletes(r) ==
  /\ writes.source < MaxSourceWrites
  /\ source' = Without(source, {r})
  /\ writes' = [writes EXCEPT !.source = @ + 1]
  /\ churned' = IF begun THEN churned \cup {"source"} ELSE churned
  /\ changed' = IF begun THEN changed \cup {r} ELSE changed
  /\ UNCHANGED <<wvars, points, vecs, fts, copy, begun>>

Holds(u) == job[u].step = "use" /\ job[u].kind # "kb"

(* upsert_points of one chunk.  One that is there is rewritten in place,   *)
(* and its vector replaced; a new one takes its row id from points, and a  *)
(* vector that already has the row id fails the transaction.  The triggers *)
(* feed fts_points.                                                        *)
StoreChunk(u, c) ==
  LET r    == RowOf(points, c)
      item == [x \in {r} |-> Version(c)]
  IN /\ Holds(u)
     /\ writes.target < MaxTargetWrites
     /\ writes' = [writes EXCEPT !.target = @ + 1]
     /\ IF r \in DOMAIN vecs \ DOMAIN points
        THEN UNCHANGED <<points, vecs, fts>>
        ELSE /\ r <= MaxRow
             /\ points' = With(item, points)
             /\ vecs' = With(item, vecs)
             /\ fts' = IF "points_fts_ai" \in schema THEN fts \cup {r} ELSE fts
     /\ UNCHANGED <<wvars, source, copy, history>>

(* delete_document of one chunk.                                           *)
DeleteChunk(u, r) ==
  /\ Holds(u)
  /\ writes.target < MaxTargetWrites
  /\ writes' = [writes EXCEPT !.target = @ + 1]
  /\ points' = Without(points, {r})
  /\ vecs' = Without(vecs, {r})
  /\ fts' = fts \ {r}
  /\ churned' = IF begun THEN churned \cup {"target"} ELSE churned
  /\ UNCHANGED <<wvars, source, copy, begun, changed>>

-----------------------------------------------------------------------------
Quiet == UNCHANGED <<wvars, source, writes, history>>

(* The target must be empty: this is a migration, not a merge.             *)
CheckEmpty(u) ==
  /\ job[u].step = "use" /\ job[u].kind = "kb" /\ copy[u] = NoCopy
  /\ IF points = Empty
     THEN /\ copy' = [copy EXCEPT ![u] = [at |-> "count points"]]
          /\ begun' = TRUE
          /\ UNCHANGED <<wvars, source, writes, churned, changed, points, vecs, fts>>
     ELSE Close(u) /\ UNCHANGED kbvars

(* Two statements: src_points, src_vectors.                                *)
CountSource(u) ==
  LET n == Cardinality(DOMAIN source)
  IN /\ \/ /\ copy[u].at = "count points"
           /\ copy' = [copy EXCEPT ![u] = [at |-> "count vectors", src |-> <<n>>]]
        \/ /\ copy[u].at = "count vectors"
           /\ copy' = [copy EXCEPT ![u] =
                [at |-> "select", table |-> "points", src |-> <<@.src[1], n>>,
                 cursor |-> 0, copied |-> [t \in Table |-> 0], rows |-> Empty]]
     /\ UNCHANGED <<points, vecs, fts>> /\ Quiet

(* _copy_batched: a page of the source, or the end of this table.          *)
SelectBatch(u) ==
  LET me   == copy[u]
      rows == Page(source, me.cursor, BATCH)
  IN /\ me.at = "select"
     /\ copy' = [copy EXCEPT ![u] =
          IF rows # Empty THEN [me EXCEPT !.at = "insert", !.rows = rows]
          ELSE IF me.table = "points" THEN [me EXCEPT !.table = "vecs", !.cursor = 0]
          ELSE [at |-> "verify", src |-> me.src, copied |-> me.copied, dst |-> <<>>]]
     /\ UNCHANGED <<points, vecs, fts>> /\ Quiet

Inserted(u) ==
  LET me == copy[u]
  IN copy' = [copy EXCEPT ![u] =
       [me EXCEPT !.at = "select", !.cursor = Max(DOMAIN me.rows), !.rows = Empty,
                  !.copied[me.table] = @ + Cardinality(DOMAIN me.rows)]]

(* INSERT OR REPLACE, so that a migration can be taken up again.           *)
InsertBatch_bug(u) ==
  LET me == copy[u]
  IN /\ me.at = "insert"
     /\ Inserted(u)
     /\ IF me.table = "points"
        THEN /\ points' = With(me.rows, points)
             /\ fts' = fts \cup DOMAIN me.rows
             /\ UNCHANGED vecs
        ELSE vecs' = With(me.rows, vecs) /\ UNCHANGED <<points, fts>>
     /\ Quiet

(* The batch goes in whole, or the transaction is rolled back and          *)
(* migrate_kb raises: a row id, or a point id, is already there.           *)
InsertBatch(u) ==
  LET me    == copy[u]
      into  == IF me.table = "points" THEN points ELSE vecs
      clash == \/ DOMAIN me.rows \cap DOMAIN into # {}
               \/ me.table = "points" /\ Ids(me.rows) \cap Ids(points) # {}
  IN /\ me.at = "insert"
     /\ IF clash
        THEN Close(u) /\ copy' = [copy EXCEPT ![u] = NoCopy]
             /\ UNCHANGED <<source, points, vecs, fts, writes, history>>
        ELSE /\ Inserted(u)
             /\ IF me.table = "points"
                THEN /\ points' = With(points, me.rows)
                     /\ fts' = IF "points_fts_ai" \in schema THEN fts \cup DOMAIN me.rows ELSE fts
                     /\ UNCHANGED vecs
                ELSE vecs' = With(vecs, me.rows) /\ UNCHANGED <<points, fts>>
             /\ Quiet

(* dst_points, dst_vectors and dst_fts, one statement each.                *)
CountTarget(u) ==
  LET n == Len(copy[u].dst)
  IN /\ copy[u].at = "verify" /\ n < 3
     /\ copy' = [copy EXCEPT ![u].dst =
          Append(@, Cardinality(CASE n = 0 -> DOMAIN points [] n = 1 -> DOMAIN vecs [] n = 2 -> fts))]
     /\ UNCHANGED <<points, vecs, fts>> /\ Quiet

(* Some rows of the source, from the middle on, are looked up by point id, *)
(* and the payloads compared.                                              *)
SampleOk(n) ==
  LET half == Page(source, 0, n \div 2)
      page == Page(Without(source, DOMAIN half), 0, SampleSize)
  IN Items(page) \subseteq Items(points)

(* The vectors are not counted again.                                      *)
Report_bug(u) ==
  LET me == copy[u]
  IN /\ me.at = "verify" /\ Len(me.dst) = 3
     /\ copy' = [copy EXCEPT ![u] =
          [at |-> "reported",
           ok |-> /\ me.src[1] = me.copied["points"]
                  /\ me.copied["points"] = me.dst[1]
                  /\ me.dst[1] = me.dst[3]
                  /\ SampleOk(me.src[1])]]
     /\ UNCHANGED <<points, vecs, fts>> /\ Quiet

Report(u) ==
  LET me == copy[u]
  IN /\ me.at = "verify" /\ Len(me.dst) = 3
     /\ copy' = [copy EXCEPT ![u] =
          [at |-> "reported",
           ok |-> /\ me.src[1] = me.copied["points"]
                  /\ me.copied["points"] = me.dst[1]
                  /\ me.dst[1] = me.dst[3]
                  /\ me.src[2] = me.copied["vecs"]
                  /\ me.copied["vecs"] = me.dst[2]
                  /\ SampleOk(me.src[1])]]
     /\ UNCHANGED <<points, vecs, fts>> /\ Quiet

(* The command prints its report and ends.                                 *)
Leaves(u) ==
  /\ Holds(u) \/ copy[u].at = "reported"
  /\ Close(u)
  /\ copy' = [copy EXCEPT ![u] = NoCopy]
  /\ UNCHANGED <<source, points, vecs, fts, writes, history>>

UserBreaks(u) ==
  /\ Breaks(u)
  /\ copy' = [copy EXCEPT ![u] = NoCopy]
  /\ UNCHANGED <<source, points, vecs, fts, writes, history>>

migrating(u) ==
  CheckEmpty(u) \/ CountSource(u) \/ SelectBatch(u) \/ InsertBatch(u) \/ CountTarget(u) \/ Report(u)

KbNext ==
  \/ \E c \in Chunks : SourceStores(c)
  \/ \E r \in DOMAIN source : SourceDeletes(r)
  \/ \E u \in Users :
       \/ opening(u) /\ UNCHANGED kbvars
       \/ \E c \in Chunks : StoreChunk(u, c)
       \/ \E r \in DOMAIN points : DeleteChunk(u, r)
       \/ migrating(u) \/ Leaves(u) \/ UserBreaks(u)

KbSpec == KbInit /\ [][KbNext]_storevars

-----------------------------------------------------------------------------
(* Every chunk of the workspace can be found by its words, and none stands *)
(* for the vector of another, or of another version of it, whoever         *)
(* ingested, deleted, migrated or died in whatever order, but in the rows  *)
(* that the source rewrote or lost since the first migration began (the    *)
(* rowid that points, vec_points and fts_points share).                    *)
RowsBelongTogether ==
  /\ fts = DOMAIN points
  /\ \A r \in DOMAIN points \cap DOMAIN vecs : points[r] = vecs[r] \/ r \in changed

ReportsOk(u) ==
  /\ copy[u].at = "verify" /\ copy'[u].at = "reported" /\ copy'[u].ok
  /\ copy[u].src[1] > 0

(* A migration that reports that it copied something, and all of it, has   *)
(* left a store with one vector a chunk, if no store lost a row since the  *)
(* first migration began, and of the same version but in the rows that the *)
(* source rewrote; chunks may be added to both and be rewritten in both, a *)
(* second migration may run, or the remains of a dead one be there (the ok *)
(* of migrate_kb).                                                         *)
ReportedCopyIsWhole ==
  [][\A u \in Users : ReportsOk(u) /\ churned = {} =>
       /\ DOMAIN points = DOMAIN vecs
       /\ \A r \in DOMAIN points \ changed : points[r] = vecs[r]]_storevars
=============================================================================
