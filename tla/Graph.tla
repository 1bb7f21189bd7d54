------------------------------- MODULE Graph -------------------------------
(***************************************************************************)
(* Who writes the knowledge graph, and when: the supervisor's ingest,      *)
(* which replaces a document's points and then indexes it; the backfill    *)
(* runner (graph_backfill.py), a process of its own that a person starts   *)
(* and may kill; and the repair graph_resolve --merge-types.               *)
(*                                                                         *)
(* index_document and the repair are transactions.  persist_triples is     *)
(* not: each statement of it commits alone.  It is two steps a label here, *)
(* what resolve_entity reads and what it then writes.                      *)
(***************************************************************************)
EXTENDS GraphStore

CONSTANTS
  Texts,      \* what the extractor finds in a text, the most confident first
  Triples,    \* facts a model may state
  Absent,     \* no points of the document are stored
  NoText,     \* the document was never indexed
  MaxIngests, \* bound: documents that are ingested
  MaxRuns,    \* bound: starts of the backfill
  MaxFaults   \* bound: locked databases, models that are down, kills

ASSUME TextsAssumption ==
  \A t \in Texts :
    /\ t \in Seq(Sighting)
    /\ \A m, n \in DOMAIN t : m < n => t[m].conf >= t[n].conf

ASSUME NoTextAssumption == {Absent, NoText} \cap Texts = {}

ASSUME TriplesAssumption ==
  \A t \in Triples :
    {t.subject, t.object} \subseteq Sighting /\ t.predicate \in Predicates

NoDoc  == "no doc"
Passes == {"deterministic", "llm"}
Settled == {"done", "skipped"}

NoRow == [pass |-> "none", status |-> "none"]

(* Nothing has been read, and neither end of a fact has been resolved.     *)
Unread == [same |-> NoId, siblings |-> {}, incoming |-> <<>>]
NoEnds == <<>>

IdleRun ==
  [step |-> "idle", pass |-> "none", list |-> {}, todo |-> {}, doc |-> NoDoc,
   text |-> Absent, triples |-> {}, read |-> Unread, ends |-> NoEnds,
   status |-> "none"]
IdleIngest == [step |-> "idle", doc |-> NoDoc, text |-> Absent]

VARIABLES
  points,   \* the stored text of each document
  graph,    \* the graph_* tables
  ledger,   \* the row of each document in graph_backfill
  ingest,   \* the supervisor, inside ingest_ops_corpus or sync
  run,      \* the backfill process, inside backfill()
  ingests, runs, faults,
  indexed,  \* history: the text of the last committed index_document
  torn,     \* history: a commit, a lock or a kill met a half persisted fact
  lost      \* history: an edge was left with an end that is no node

vars == <<points, graph, ledger, ingest, run, ingests, runs, faults, indexed, torn, lost>>

Init ==
  /\ points = [d \in Docs |-> Absent]
  /\ graph = EmptyGraph
  /\ ledger = [d \in Docs |-> NoRow]
  /\ ingest = IdleIngest
  /\ run = IdleRun
  /\ ingests = 0 /\ runs = 0 /\ faults = 0
  /\ indexed = [d \in Docs |-> NoText]
  /\ torn = FALSE /\ lost = FALSE

Fault == faults < MaxFaults /\ faults' = faults + 1

(* Bound: there is room for so many nodes more.                            *)
Room(n) == NextId(graph) + n <= MaxId + 1

(* Noted after every write: an end of an edge that is gone.                *)
Losing == lost' = (lost \/ \E e \in graph'.edge : {e.src, e.dst} \ Live(graph') # {})

Persisting == run.step \in {"read", "write", "edge"}
-----------------------------------------------------------------------------
(* index_document by some lane: all of it, or nothing and 0 when the lock  *)
(* is not to be had or anything in it raises.                              *)
Indexes(d, t) ==
  /\ Room(Len(t))
  /\ graph' = IndexDocument(graph, d, t)
  /\ indexed' = [indexed EXCEPT ![d] = t]
  /\ Losing
  /\ UNCHANGED faults

IndexGivesUp == Fault /\ UNCHANGED <<graph, indexed, lost>>

delete_document(d, t) ==
  /\ ingest.step = "idle" /\ ingests < MaxIngests
  /\ ingests' = ingests + 1
  /\ points' = [points EXCEPT ![d] = Absent]
  /\ ingest' = [step |-> "store", doc |-> d, text |-> t]
  /\ UNCHANGED <<graph, ledger, run, runs, faults, indexed, torn, lost>>

store_chunks ==
  /\ ingest.step = "store"
  /\ points' = [points EXCEPT ![ingest.doc] = ingest.text]
  /\ ingest' = [ingest EXCEPT !.step = "index"]
  /\ UNCHANGED <<graph, ledger, run, ingests, runs, faults, indexed, torn, lost>>

IngestIndex ==
  /\ ingest.step = "index"
  /\ \/ Indexes(ingest.doc, ingest.text) /\ torn' = (torn \/ Persisting)
     \/ IndexGivesUp /\ UNCHANGED torn
  /\ ingest' = IdleIngest
  /\ UNCHANGED <<points, ledger, run, ingests, runs>>

IngestDies ==
  /\ ingest.step # "idle"
  /\ Fault
  /\ ingest' = IdleIngest
  /\ UNCHANGED <<points, graph, ledger, run, ingests, runs, indexed, torn, lost>>
-----------------------------------------------------------------------------
list_doc_ids == {d \in Docs : points[d] # Absent}
resolved_doc_ids(rows, pass) ==
  {d \in Docs : rows[d].pass = pass /\ rows[d].status \in Settled}

(* main and the head of backfill: --reset clears the rows of the pass.     *)
StartBackfill(pass, reset) ==
  LET rows == IF reset THEN [d \in Docs |-> IF ledger[d].pass = pass THEN NoRow ELSE ledger[d]]
                       ELSE ledger
  IN /\ run.step = "idle" /\ runs < MaxRuns
     /\ runs' = runs + 1
     /\ ledger' = rows
     /\ run' = [IdleRun EXCEPT !.step = "next", !.pass = pass, !.list = list_doc_ids,
                               !.todo = list_doc_ids \ resolved_doc_ids(rows, pass)]
     /\ UNCHANGED <<points, graph, ingest, ingests, faults, indexed, torn, lost>>

(* load_chunks: a document that an ingest is replacing has none, and that  *)
(* counts as one with nothing to do.                                       *)
TakeDocument(d) ==
  /\ run.step = "next" /\ d \in run.todo
  /\ run' = [run EXCEPT
       !.doc = d, !.text = points[d], !.triples = {}, !.read = Unread, !.ends = NoEnds,
       !.status = IF points[d] = Absent THEN "skipped" ELSE "done",
       !.step = CASE points[d] = Absent -> "record"
                  [] points[d] # Absent /\ run.pass = "llm" -> "extract"
                  [] OTHER -> "index"]
  /\ UNCHANGED <<points, graph, ledger, ingest, ingests, runs, faults, indexed, torn, lost>>

(* _run_deterministic: the status is "done" whatever index_document says.  *)
_run_deterministic ==
  /\ run.step = "index"
  /\ \/ Indexes(run.doc, run.text) /\ run' = [run EXCEPT !.step = "record"]
     \/ IndexGivesUp /\ run' = [run EXCEPT !.step = "record"]
  /\ UNCHANGED <<points, ledger, ingest, ingests, runs, torn>>

(* extract_triples: a model that is down states no fact, like one that     *)
(* finds none.  The deadline of the document raises.                       *)
ExtractDocument ==
  /\ run.step = "extract"
  /\ \/ \E T \in {{}} \cup {{t} : t \in Triples} :
          /\ run' = [run EXCEPT !.triples = T,
                                !.step = IF T = {} THEN "record" ELSE "read"]
          /\ UNCHANGED faults
     \/ Fault /\ run' = [run EXCEPT !.step = "record"]
     \/ Fault /\ run' = [run EXCEPT !.step = "record", !.status = "failed"]
  /\ UNCHANGED <<points, graph, ledger, ingest, ingests, runs, indexed, torn, lost>>

(* persist_triples: the subject and then the object of a fact.             *)
Label(t) == IF run.ends = NoEnds THEN t.subject ELSE t.object

ReadLabel ==
  /\ run.step = "read"
  /\ \E t \in run.triples :
       run' = [run EXCEPT !.step = "write", !.read = Read(graph, Label(t))]
  /\ UNCHANGED <<points, graph, ledger, ingest, ingests, runs, faults, indexed, torn, lost>>

WriteLabel ==
  /\ run.step = "write" /\ Room(1)
  /\ \E t \in run.triples :
       IF Refused(graph, Label(t), run.read)
       THEN run' = [run EXCEPT !.step = "record", !.status = "failed"] /\ UNCHANGED graph
       ELSE LET w == Write(graph, Label(t), run.read, run.doc, "chunk")
            IN /\ graph' = w.graph
               /\ run' = [run EXCEPT !.ends = Append(@, w.id), !.read = Unread,
                                     !.step = IF run.ends = NoEnds THEN "read" ELSE "edge"]
  /\ Losing
  /\ UNCHANGED <<points, ledger, ingest, ingests, runs, faults, indexed, torn>>

AssertEdge ==
  /\ run.step = "edge"
  /\ \E t \in run.triples :
       /\ graph' = add_edge(graph, run.ends[1], run.ends[2], t.predicate, run.doc)
       /\ run' = [run EXCEPT !.step = "record", !.triples = {}]
  /\ Losing
  /\ UNCHANGED <<points, ledger, ingest, ingests, runs, faults, indexed, torn>>

(* A statement in the middle of persist_triples meets a locked database:   *)
(* the document is failed, and what was committed of it stays.             *)
PersistFails ==
  /\ Persisting
  /\ Fault
  /\ run' = [run EXCEPT !.step = "record", !.status = "failed"]
  /\ torn' = TRUE
  /\ UNCHANGED <<points, graph, ledger, ingest, ingests, runs, indexed, lost>>

(* _record: one row for each document, whatever its pass.                  *)
_record ==
  /\ run.step = "record"
  /\ ledger' = [ledger EXCEPT ![run.doc] =
       [pass |-> run.pass, status |-> run.status]]
  /\ run' = [run EXCEPT !.step = "next", !.todo = @ \ {run.doc}, !.doc = NoDoc, !.text = Absent,
                        !.triples = {}, !.read = Unread, !.ends = NoEnds,
                        !.status = "none"]
  /\ UNCHANGED <<points, graph, ingest, ingests, runs, faults, indexed, torn, lost>>

FinishBackfill ==
  /\ run.step = "next" /\ run.todo = {}
  /\ run' = IdleRun
  /\ UNCHANGED <<points, graph, ledger, ingest, ingests, runs, faults, indexed, torn, lost>>

(* Hours into a run somebody presses Ctrl-C; or the ledger is locked when  *)
(* _record writes to it, outside of the try.                               *)
Kill ==
  /\ run.step # "idle"
  /\ Fault
  /\ run' = IdleRun
  /\ torn' = (torn \/ Persisting)
  /\ UNCHANGED <<points, graph, ledger, ingest, ingests, runs, indexed, lost>>

(* graph_resolve --merge-types, also from a terminal.                      *)
merge_type_splits ==
  /\ graph' = MergeTypeSplits(graph)
  /\ graph' # graph
  /\ Losing
  /\ torn' = (torn \/ Persisting)
  /\ UNCHANGED <<points, ledger, ingest, run, ingests, runs, faults, indexed>>
-----------------------------------------------------------------------------
backfill ==
  \/ \E d \in Docs : TakeDocument(d)
  \/ _run_deterministic \/ ExtractDocument
  \/ ReadLabel \/ WriteLabel \/ AssertEdge \/ PersistFails
  \/ _record \/ FinishBackfill

Next ==
  \/ \E d \in Docs, t \in Texts : delete_document(d, t)
  \/ store_chunks \/ IngestIndex \/ IngestDies
  \/ \E pass \in Passes, reset \in BOOLEAN : StartBackfill(pass, reset)
  \/ backfill \/ Kill \/ merge_type_splits

Spec == Init /\ [][Next]_vars
-----------------------------------------------------------------------------
(* Types of the tables, of the two lanes and of the histories.             *)
TypeOK ==
  /\ points \in [Docs -> Texts \cup {Absent}]
  /\ graph.node \in [Ids -> Node \cup {NoNode}]
  /\ graph.alias \subseteq Keys \X Ids
  /\ graph.mention \subseteq Ids \X Docs \X Chunks
  /\ graph.edge \subseteq Edge
  /\ \A d \in Docs :
       ledger[d] = NoRow \/ ledger[d] \in
         [pass : Passes, status : Settled \cup {"failed"}]
  /\ ingest = IdleIngest \/ ingest \in [step : {"store", "index"}, doc : Docs, text : Texts]
  /\ run.step \in {"idle", "next", "index", "extract", "read", "write", "edge", "record"}
  /\ run.todo \subseteq run.list /\ run.list \subseteq Docs
  /\ Persisting => run.pass = "llm" /\ run.triples # {} /\ run.doc \in run.todo
  /\ run.step = "edge" => Len(run.ends) = 2
  /\ indexed \in [Docs -> Texts \cup {NoText}]
  /\ faults \in 0..MaxFaults /\ {torn, lost} \subseteq BOOLEAN

(* "One node per real-world thing": every write goes through               *)
(* resolve_entity, which looks a key up under all types before it mints.   *)
OneNodePerThing ==
  ~torn => \A i, j \in Live(graph) : graph.node[i].key = graph.node[j].key => i = j

(* What integrity_report counts, but for the ends of edges: no alias or    *)
(* mention of a node that is gone, no edge from a node to itself; and the  *)
(* count that ranks a node is the number of its mentions, never none.      *)
GraphHangsTogether ==
  ~torn =>
    /\ \A a \in graph.alias : a[2] \in Live(graph)
    /\ \A m \in graph.mention : m[1] \in Live(graph)
    /\ \A i \in Live(graph) :
         graph.node[i].count = Cardinality(MentionsOf(graph, i)) /\ graph.node[i].count > 0
    /\ \A e \in graph.edge : e.src # e.dst

(* However nodes are retyped, folded and forgotten on behalf of other      *)
(* documents, the labels of a document lead, as aliases, to the nodes that *)
(* mention it, and to no others.                                           *)
LabelsLeadToDocuments ==
  ~torn =>
    \A d \in Docs :
      LET labels == IF indexed[d] = NoText THEN {} ELSE {s.key : s \in ToSet(indexed[d])}
          mentioning == {i \in Ids : <<i, d, "whole">> \in graph.mention}
      IN /\ \A k \in labels : \E i \in mentioning : <<k, i>> \in graph.alias
         /\ \A i \in mentioning : \E k \in labels : <<k, i>> \in graph.alias

(* The nodes of an indexed document stay connected by its own co-mentions, *)
(* beyond the cap too: one of them is tied to every other, as long as no   *)
(* edge has ever lost an end.                                              *)
DocumentIsConnected ==
  ~torn /\ ~lost =>
    \A d \in Docs :
      LET mentioning == {m[1] : m \in {n \in graph.mention : n[2] = d /\ n[3] = "whole"}}
      IN mentioning # {} =>
           \E a \in mentioning : \A i \in mentioning \ {a} :
             \E e \in graph.edge : e.doc = d /\ {e.src, e.dst} = {a, i}
=============================================================================
