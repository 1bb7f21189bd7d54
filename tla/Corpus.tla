------------------------------- MODULE Corpus -------------------------------
(***************************************************************************)
(* How documents get into the retrievable corpus of a workspace and are    *)
(* replaced there: the file lane (ops_ingest), the connector lane          *)
(* (connector_sync and its route), the guard both share (ingest_guard) and *)
(* the store (vector_store).                                               *)
(*                                                                         *)
(* A worker is the thread or process that runs one ingest or one sync.  It *)
(* takes its documents one by one; for each, the DELETE of the old chunks  *)
(* and the upsert of the new ones are two transactions with the embedding  *)
(* in between, and an exception only skips the document.  A text is        *)
(* abstracted to a version number, a chunk to its index and version.       *)
(***************************************************************************)
EXTENDS Integers, FiniteSets

CONSTANTS
  Workers,
  Spaces,      \* workspaces, one database file each
  Protected,   \* _protected_workspaces()
  Demo,        \* DEMO_WORKSPACE
  Files,       \* files of the ops corpus
  Tools,       \* pull tools of the synthetic connectors
  MaxVersion,  \* bound: how many versions a source has
  Size,        \* how many chunks the slicer makes of a version
  Poisoned,    \* <<version, index>> of the chunks with an injection pattern
  MaxFaults    \* bound: exceptions and dead workers

Docs == Files \cup Tools
Versions == 1 .. MaxVersion

ASSUME SpaceAssumption == Protected \subseteq Spaces /\ Demo \in Spaces
ASSUME LaneAssumption == Files \cap Tools = {}
ASSUME VersionAssumption ==
  /\ MaxVersion \in Nat \ {0} /\ MaxFaults \in Nat
  /\ Size \in [Versions -> Nat]
  /\ \A p \in Poisoned : p[1] \in Versions /\ p[2] \in 1 .. Size[p[1]]

Chunks(v) == {<<i, v>> : i \in 1 .. Size[v]}

(* scan_injection on the whole connector result.                           *)
Risky(v) == \E i \in 1 .. Size[v] : <<v, i>> \in Poisoned

VARIABLES
  source,   \* the version each file or connector would deliver now
  points,   \* the points of each document, per workspace
  results,  \* mcp_results: <<workspace, tool, version>>
  graph,    \* the version of each document the graph has indexed, 0 if none
  worker,
  began,    \* the version whose chunks last started to replace a document's,
            \* 0 if two workers were at it at once; for the properties
  faults

vars == <<source, points, results, graph, worker, began, faults>>

Idle == [step |-> "idle"]

Busy == [step : {"next"}, ws : Spaces, todo : SUBSET Docs]
          \cup [step : {"delete", "store", "index"}, ws : Spaces, todo : SUBSET Docs,
                doc : Docs, version : Versions]

TypeOK ==
  /\ source \in [Docs -> Versions]
  /\ \A s \in Spaces, d \in Docs :
       points[s][d] \subseteq UNION {Chunks(v) : v \in Versions}
  /\ results \subseteq Spaces \X Tools \X Versions
  /\ graph \in [Spaces -> [Docs -> 0 .. MaxVersion]]
  /\ worker \in [Workers -> Busy \cup {Idle}]
  /\ began \in [Spaces -> [Docs -> 0 .. MaxVersion]]
  /\ faults \in 0 .. MaxFaults

Init ==
  /\ source = [d \in Docs |-> 1]
  /\ points = [s \in Spaces |-> [d \in Docs |-> {}]]
  /\ results = {}
  /\ graph = [s \in Spaces |-> [d \in Docs |-> 0]]
  /\ worker = [w \in Workers |-> Idle]
  /\ began = [s \in Spaces |-> [d \in Docs |-> 0]]
  /\ faults = 0

-----------------------------------------------------------------------------
(* A file is edited, or a connector has new data.                          *)
SourceChanges(d) ==
  /\ source[d] < MaxVersion
  /\ source' = [source EXCEPT ![d] = @ + 1]
  /\ UNCHANGED <<points, results, graph, worker, began, faults>>

(* ingest_ops_corpus: every file of the workspace's sources.               *)
StartIngest(w, ws) ==
  /\ worker[w] = Idle
  /\ worker' = [worker EXCEPT ![w] = [step |-> "next", ws |-> ws, todo |-> Files]]
  /\ UNCHANGED <<source, points, results, graph, began, faults>>

(* sync_blocked_reason, for the connectors in _SYNTHETIC_CONNECTORS.       *)
Blocked_bug(ws) == FALSE
Blocked(ws) == ws \in Protected

(* POST /connectors/sync: a sync that the guard refuses is sent to the     *)
(* demo workspace, or refused if that is protected too; sync() asserts the *)
(* guard again on the workspace it is handed.                              *)
StartSync(w, ws) ==
  LET target == IF Blocked(ws) THEN Demo ELSE ws
  IN /\ worker[w] = Idle
     /\ ~Blocked(target)
     /\ worker' = [worker EXCEPT ![w] = [step |-> "next", ws |-> target, todo |-> Tools]]
     /\ UNCHANGED <<source, points, results, graph, began, faults>>

Skip(w, d) ==
  worker' = [worker EXCEPT ![w] =
               [step |-> "next", ws |-> @.ws, todo |-> @.todo \ {d}]]

Take(w, d) ==
  worker' = [worker EXCEPT ![w] =
               [step |-> "delete", ws |-> @.ws, todo |-> @.todo,
                doc |-> d, version |-> source[d]]]

(* A flagged result is stored, and goes on to be sliced.                   *)
PullTool_bug(w, d) ==
  /\ worker[w].step = "next"
  /\ d \in worker[w].todo \cap Tools
  /\ results' = results \cup {<<worker[w].ws, d, source[d]>>}
  /\ Take(w, d)
  /\ UNCHANGED <<source, points, graph, began, faults>>

(* call_tool and guard_mcp_result: the result is stored; if it is flagged  *)
(* it is left there and the document keeps the chunks it has.              *)
PullTool(w, d) ==
  /\ worker[w].step = "next"
  /\ d \in worker[w].todo \cap Tools
  /\ results' = results \cup {<<worker[w].ws, d, source[d]>>}
  /\ IF Risky(source[d]) THEN Skip(w, d) ELSE Take(w, d)
  /\ UNCHANGED <<source, points, graph, began, faults>>

(* read_text; an empty file is skipped and keeps the chunks it has.        *)
ReadFile(w, d) ==
  /\ worker[w].step = "next"
  /\ d \in worker[w].todo \cap Files
  /\ IF Size[source[d]] = 0 THEN Skip(w, d) ELSE Take(w, d)
  /\ UNCHANGED <<source, points, results, graph, began, faults>>

(* Some worker has deleted the old chunks and not yet stored the new ones.  *)
BeingReplaced(s, d) ==
  \E w \in Workers : worker[w].step = "store" /\ worker[w].ws = s /\ worker[w].doc = d

Begin(w) ==
  LET me == worker[w]
  IN began' = [began EXCEPT ![me.ws][me.doc] =
                 IF BeingReplaced(me.ws, me.doc) THEN 0 ELSE me.version]

(* The old chunks are left to the upsert.                                  *)
DeleteDocument_bug(w) ==
  /\ worker[w].step = "delete"
  /\ Begin(w)
  /\ worker' = [worker EXCEPT ![w].step = "store"]
  /\ UNCHANGED <<source, points, results, graph, faults>>

(* delete_document: one transaction.                                       *)
DeleteDocument(w) ==
  /\ worker[w].step = "delete"
  /\ points' = [points EXCEPT ![worker[w].ws][worker[w].doc] = {}]
  /\ Begin(w)
  /\ worker' = [worker EXCEPT ![w].step = "store"]
  /\ UNCHANGED <<source, results, graph, faults>>

(* store_chunks: one transaction that upserts by point id, which is made   *)
(* of the document, the index and the text, so that a point of another     *)
(* version is never the same row, and one of the same version always is.   *)
StoreChunks(w) ==
  LET me == worker[w]
  IN /\ me.step = "store"
     /\ points' = [points EXCEPT ![me.ws][me.doc] = @ \cup Chunks(me.version)]
     /\ worker' = [worker EXCEPT ![w].step = "index"]
     /\ UNCHANGED <<source, results, graph, began, faults>>

(* graph.index_document reports its own errors as nothing indexed.         *)
IndexDocument(w) ==
  LET me == worker[w]
  IN /\ me.step = "index"
     /\ \E v \in {me.version, graph[me.ws][me.doc]} :
          graph' = [graph EXCEPT ![me.ws][me.doc] = v]
     /\ Skip(w, me.doc)
     /\ UNCHANGED <<source, points, results, began, faults>>

Finish(w) ==
  /\ worker[w].step = "next"
  /\ worker[w].todo = {}
  /\ worker' = [worker EXCEPT ![w] = Idle]
  /\ UNCHANGED <<source, points, results, graph, began, faults>>

(* The document whose turn it is raises: the connector fails, the          *)
(* embedding fails, the database stays locked.  It is logged and skipped.  *)
DocumentFails(w, d) ==
  /\ faults < MaxFaults
  /\ faults' = faults + 1
  /\ \/ worker[w].step = "next" /\ d \in worker[w].todo
     \/ worker[w].step \in {"delete", "store"} /\ d = worker[w].doc
  /\ Skip(w, d)
  /\ UNCHANGED <<source, points, results, graph, began>>

(* The process of the worker dies.                                         *)
WorkerDies(w) ==
  /\ faults < MaxFaults
  /\ faults' = faults + 1
  /\ worker[w] # Idle
  /\ worker' = [worker EXCEPT ![w] = Idle]
  /\ UNCHANGED <<source, points, results, graph, began>>

work(w) ==
  \/ \E d \in Docs : PullTool(w, d) \/ ReadFile(w, d)
  \/ DeleteDocument(w)
  \/ StoreChunks(w)
  \/ IndexDocument(w)
  \/ Finish(w)

Next ==
  \/ \E d \in Docs : SourceChanges(d)
  \/ \E w \in Workers, ws \in Spaces : StartIngest(w, ws) \/ StartSync(w, ws)
  \/ \E w \in Workers : work(w)
  \/ \E w \in Workers, d \in Docs : DocumentFails(w, d)
  \/ \E w \in Workers : WorkerDies(w)

Spec == Init /\ [][Next]_vars

-----------------------------------------------------------------------------
(* The production corpora stay free of synthetic data, whatever workspace  *)
(* a sync is asked for and however syncs overlap (connector_sync's guard). *)
RealCorpusIsPure ==
  \A s \in Protected, d \in Tools :
    points[s][d] = {} /\ graph[s][d] = 0 /\ \A v \in Versions : <<s, d, v>> \notin results

(* Nothing of a flagged connector result becomes a chunk or an entity, not *)
(* even its clean parts, and not through a second sync of the same tool    *)
(* (connector_sync: "it NEVER lands in the retrievable corpus").           *)
QuarantineHolds ==
  \A s \in Spaces, d \in Tools :
    /\ \A p \in points[s][d] : ~Risky(p[2])
    /\ graph[s][d] # 0 => ~Risky(graph[s][d])

(* A document that was last replaced by one worker at a time is whole when *)
(* nobody is replacing it: exactly the chunks of the version that came     *)
(* last, with nothing left over of a longer one before it, or, if a step   *)
(* failed, nothing at all (delete_document before store_chunks, each one   *)
(* transaction).                                                           *)
WholeDocuments ==
  \A s \in Spaces, d \in Docs :
    ~BeingReplaced(s, d) /\ began[s][d] # 0 =>
      \/ points[s][d] = Chunks(began[s][d])
      \/ points[s][d] = {} /\ faults > 0
=============================================================================
