# Heydey, checked

Heydey is a local-first research and operations assistant: a supervisor on
127.0.0.1 (FastAPI), one SQLite file per workspace, a web UI that talks to the
supervisor through a proxy, and connectors that run as MCP subprocesses.  This
directory holds TLA+ modules that describe how its parts behave when requests
overlap, models and connectors fail, and processes die; TLC configurations that
check them on small instances; and TLAPS proofs of what matters most for every
size.  `PROJECT.json` lists the runs, the properties, which definition models
which lines of the source, the hazards and the theorems.

What everything rests on: the HTTP routes are plain `def` functions, which
FastAPI runs in a thread pool; database connections are opened with
`isolation_level=None`, so each SQL statement commits alone unless the code says
BEGIN; a request is not undone when a later step of it fails; launchd restarts
the supervisor when it dies.

## Inventory

| component | state | operations | interacts with |
|---|---|---|---|
| Approvals tray (`approvals.py`, `artifacts.py`) | `approvals` rows, action receipts, the artifacts directory | `create_approval`, `pending`, `decide` and its executors, `recent_artifacts` | HTTP routes, MCP host, MCP server, sentinel |
| MCP host and risk gate (`mcp_host.py`, `risk.py`) | a connector process and its pipes, the next request id, the classification of each tool | `start`, `list_tools`, `call_tool`, `_request` with its timer, `stop` | tray (reads the approval), ingest guard, connectors |
| Ask pipeline (`pipeline.py`, `validator.py`, `ask.py`, `llm_client.py`) | one run's local variables; `receipts`, `costs`, co-retrieval edges | retrieve, synthesize, validate, retry, degrade, record | profiles, store, episodic memory, model lanes |
| Model profiles (`models_config.py`, `models_state.py`) | `models/*.json` | save, load, activate | pipeline |
| Episodic memory (`episodic.py`) | `sessions` | `record_run`, `list`, `delete_session` | pipeline, receipts |
| Supervisor launch and token (`heydey_supervisor.py`, `auth.py`, `supervisor.ts`, the launchd plist) | the port, `supervisor.json`, a token per launch | probe, write, bind, restart; read and send | web UI |
| Corpus (`ops_ingest.py`, `connector_sync.py`, `vector_store.py`, `ingest_guard.py`, `slicer.py`) | `points`, `mcp_results`, graph rows | ingest, sync, delete and store a document, quarantine | MCP host, graph, retrieval |
| Connector OAuth (`connector_oauth.py`, `secrets_store.py`, `connectors.py`, `connector_manifest.py`) | pending consents in memory, bundles in the Keychain, `connectors` rows, receipts | config, start, callback, refresh, disconnect | provider, live connectors |
| Foundry (`foundry.py`, playbooks) | agent specs, readiness, the first answer | onboard, readiness, first answer | pipeline, corpus |
| Knowledge graph (`graph*.py`) | entities, aliases, mentions, edges, backfill ledger | index, resolve, backfill | corpus, pipeline |
| MCP server (`mcp_server.py`) | none of its own | `heydey_ask`, `heydey_find`, `heydey_today`, the guard on answers, snippets, claims and lines as they leave | retrieval, pipeline, briefs |
| Morning brief and sentinel (`morning_brief.py`, `sentinel.py`) | `briefs` | compose by section, notify, persist, read the latest | corpus, tray, Today over HTTP and MCP |
| Workspaces and schema (`workspaces.py`, `schema.py`) | the directory and the file of a workspace, its tables, columns and version | create, connect, migrate to the version of the code | everything that opens a workspace |
| Knowledge-base migration (`kb_migrate.py`) | rows of a foreign store and of a workspace | check, copy points, copy vectors, verify, report | workspaces, ingest |
| Web UI | React state | polling, asking, deciding | routes |
| Demo connectors, gates and evaluations, embedder, find CLI | none that outlives a call | | |

The behaviours that are hard, by component, with what makes each correct:

- **Tray.** Check-then-act across file writes and three commits; two requests for
  one card; a death between receipt and status.  Correct when no approval lacks a
  receipt, no gated tool runs without one, a card that one request at a time works on is
  decided once, and a file is credited to the card it was made for.
- **Risk gate.** Two classifiers written apart.  Correct when together they fail
  closed for every mix of verbs and declared tier.
- **Pipeline.** Two model lanes that may fail at every call, twice; a profile read
  twice; rows committed one by one.  Correct when only text that was judged, whole,
  by another model family ships, and every session that is listed can prove it.
- **Launch.** Probe, write and bind are apart; the UI reads the token before it
  sends.  Correct when a supervisor that serves is reachable with the published token.
- **Corpus.** DELETE and upsert are two transactions with an embedding between them;
  results are quarantined; a workspace is protected.  Correct when documents at rest
  are whole and neither synthetic nor flagged text leaks.
- **OAuth.** A consent spans two requests, minutes and possibly a restart; a token
  request spans three effects.  Correct when a token goes back to one timely consent for
  its workspace and a link is on record.
- **Knowledge graph.** One row for a thing that passes name and type differently;
  folding on behalf of one document moves what others asserted; the llm pass commits
  statement by statement beside an ingest that commits by document; a ledger decides
  what is never tried again.  Correct when there is one node per key, nothing hangs in
  the air, and the names of every document lead to the nodes that mention it.
- **Foundry.** Checks against a corpus and a profile that others change, one transaction
  over several rows, events outside of it, a check-then-insert of the first answer, and a
  page that pairs events.  Correct when a fleet is whole, its agents were vetted, and the
  times shown are those of one onboarding.
- **Connector transport.** A thread that reads lines, a timer that kills, a process that
  may say anything or nothing.  Correct when each request ends once, with its own answer or
  a failure, no timer expires on a later request, and a sync comes to its end.
- **Retrieval, brief, Today.** Four statements without a transaction, over a store that is
  being replaced; a stored brief that outlives the tags of its sources.  Correct when a
  passage that is there is found, versions mix only under a replacement, what leaves by MCP
  has been scanned (names have not), and a brief that begins is stored.
- **Workspaces.** Several openers of a file that is new or old, statement by statement.
  Correct when whoever gets a connection gets the whole schema.
- **Migration.** A copy in two phases of batches from a live source, into a file that others
  write.  Correct when texts keep their vectors and words, and a report of success is true.

## Modules

| module | models | extends or uses |
|---|---|---|
| `ToolRisk` | `classify_tool`, `infer_tier`, `resolve_tier` as operators over all tools | |
| `Tray` | abstract: what a card's life promises | |
| `Approvals` | tray, its executors' files, the gate of `call_tool` | `ToolRisk` |
| `TrayHistory` | `Approvals` with a memory of the cards and files that were not left alone | `Approvals`; `INSTANCE Tray` |
| `Pipeline` | profile store, `run_pipeline`, `validate`, rows, `delete_session` | |
| `Launch` | supervisor start, runtime file, UI calls | |
| `Corpus` | both ingest lanes, guard, store | |
| `OAuth` | consents, bundles, receipts, registration | |
| `GraphStore` | entity resolution, folding, forgetting, indexing and repair as operators on the graph | |
| `Graph` | ingest, backfill with its ledger, and repair that write one graph | `GraphStore` |
| `FoundryShelf` | interview, shelf, fleet construction and validation as operators | |
| `Foundry` | onboardings and questions to agents that overlap, events, the stopwatch | `FoundryShelf` |
| `Call` | abstract: what a caller of a connector is promised | |
| `Wire` | the transport of the MCP host: calling thread, timers, connector process | `INSTANCE Call` |
| `Retrieval` | the two searches, their fusion and the evidence mode as operators | |
| `Reading` | ask, find, the morning brief and Today, over HTTP and MCP, against an ingest | `Retrieval` |
| `Workspace` | creation, opening and healing of a workspace file | |
| `KbMigrate` | what users do with the store they opened, and the migration into it | `Workspace` |
| `MC...` | definitions for TLC: tools, profiles, sizes, symmetry | the module of the name |
| `ApprovalsProofs` | theorems: the tier rules, the tray and the gate | `TrayHistory`, `TLAPS` |
| `PipelineProofs`, `CorpusProofs`, `OAuthProofs`, `GraphProofs` | theorems | the module of the name, `TLAPS` |
| `FoundryProofs` | theorems: the shelf, then onboarding and the stopwatch | `Foundry`, `TLAPS` |
| `StartProofs` | theorems: opening a workspace, the rows and the report of a migration; the launch | `KbMigrate`, `Launch`, `TLAPS` |
| `ServiceProofs` | theorems: the transport; sorted lists, then the readers of a store | `Wire`, `Reading`, `TLAPS` |

An operator named `X_bug` is `X` with a mistake a plausible change of the code could
make; each property is checked to reject one of them.

### How state and actions correspond to the code

`Approvals`.  `status` and `kind` are columns of `approvals`; `receipts` is the
table, in id order, restricted to action receipts; `files` is the artifacts
directory, by the name the executor makes (kind and second).  `job[d]` is the local
state of a thread inside `decide`: `DecideRead` is the SELECT with all its
refusals, then `OpenArtifact`, `FlushArtifact` (Python truncates at `open` and
writes when the file is closed), `InsertReceipt`, `UpdateStatus`.  `call[c]` is a
thread inside `call_tool`: `GateCheck`, then `SendCall` or `CallFails`, then
`StoreResult`.  `DecideFails` is an exception, `Crash` the death of the process.
`TrayHistory` restricts no step of it; it remembers in `disturbed` the cards that two
threads decided at once, or that were left with a receipt and no decision, and in `muddled`
the files that two threads had open at once, or that one left before its receipt.

`Pipeline`.  `files` and `active` are the JSON files; a save truncates first
(`save_profile`, `set_active`) and writes second (`WriteText`).  `run[r]` holds the
locals of one run; each stage up to the next disk access or model call is an action.
What a model answers (how many sentences, which of them are grounded, nothing at
all) is a free choice.  `WriteReceipt`, `WriteCost` and `record_run` are the commits.

`Launch`.  `proc` says where each process is in `main`; `Probe` covers
`_already_running` and `generate_token`; `OpenRuntime` and `DumpRuntime` are the
truncation and the text of `supervisor.json`; `Bind` is uvicorn's bind, which fails
when the port is taken.  A UI call is `ReadRuntime` and then `SendMutation`.  `disturbed`
remembers the launches that were on their way, or serving, when another process got past
its probe, and that process itself if any was still on its way.

`Corpus`.  A source has versions; a version has a number of chunks; a point is an
index and a version, since a point id is made of document, index and text
(slicer.py:176), so that versions never overwrite each other.  `PullTool` is the connector
call, the storing of its result and the quarantine
branch; `ReadFile` the file lane; `DeleteDocument` and `StoreChunks` the two
transactions; `IndexDocument` the graph call, which swallows its errors.

`OAuth`.  `pending` is `pending_oauth`; `oauth_callback` prunes and pops in one step
(a state is minted before anyone can come back with it, and `dict.pop` is atomic);
`bundle` is the Keychain item of a workspace, whose empty value reads as absent; the
steps of a thread are the Keychain accesses, the answers of the token endpoint and
the commits.

`GraphStore`.  A graph is a record of four tables, sets where the table has a UNIQUE
key.  `resolve_entity` is `Read` (the three look-ups, the siblings of the key, and the
assertion as one more candidate) and `Write` (`Reconcile`, then `Sight`), so that a
module can put another writer between the two.  A label is its canonical key; the
ratio of `fuzzy_lookup` is the relation `Near`.  Folds stand for the loops.

`Graph`.  `ingest` is the supervisor between `delete_document`, `store_chunks` and
`index_document`; `run` is the loop of `backfill`, one document at a time; `ledger` is
`graph_backfill`, one row a document whatever the pass.  `index_document` and the
repair are single steps, since they hold BEGIN IMMEDIATE; a fact of the llm pass is
`ReadLabel`, `WriteLabel` (twice) and `AssertEdge`.

`Foundry`.  `job[o]` is a thread inside `instantiate`: `StartOnboarding` (event and
answers), `Scan`, `Vet`, then the transaction (`BeginUpsert`, `UpsertRow` on the
transaction's own view of the table, `job[o].table`, which `CommitUpsert` publishes), then
`LogFleet` or `LogFailed`.  An error that is no
`FoundryError` takes `OnboardingBreaks` and logs nothing, as in the code.  `ask[t]` is a
thread inside `ask_endpoint` with the agent it took from the table.  `Shown` is the test
`computeStopwatch` makes on the last events before it shows a time.

`Wire`.  `at` and `turn` say where the thread of a sync is: `Spawn` is Popen, a request
is `Write`, `Arm` (the timer starts after the flush), `ReadLine` or `ReadEnd` for each turn
of the loop, and `Cancel`, its `finally`; `Notify` ends the handshake, `Stop` is the end of
the `with` block.  `timers` are the timer threads that wait; `Expire` is the test that the
timer was not cancelled, after which the thread is in `firing`, and `Kill` is `proc.kill`,
which may come when the request has ended and the next is under way.  `stdin`
and `stdout` are the pipes, `Reply`, `Babble` and `Die` the connector.  A message carries,
besides its id, the request it belongs to, which the program cannot see and the properties
need.  `Proceed` is what `start`, `list_tools` and `sync` make of a request that ended.

`Retrieval` and `Reading`.  A passage is what the ranking looks at: similarity and
freshness in hundredths, how many of the terms it has, its tag.  `ORDER BY` is `Sorted`, the
list of a set along an order without ties; Python's sort, which keeps what compares equal as
it was, is `Arranged`, a sort of positions.  `reader[r]` is a thread in
`retrieve` (`CountPoints`, `SearchByVector`, `SearchAllTerms`, `SearchAnyTerm`, `Answer`),
in `run` of the brief (`RunSection` for each section in their order, `NotifyBrief`,
`Insert`) or
in Today.  `worker` is the ingest with its two transactions.  `there` and `seen` are
histories: what was in the store during the whole reading, and what was at some time.
`Outbound` is the guard of the MCP server, which is put on texts; `Names` are the sources,
paths and breadcrumbs that leave beside them as they are; HTTP has no guard.

`Workspace` and `KbMigrate`.  `dir`, `file`, `schema` and `version` are the file system and
what is in the file; `job[u]` is a process in `create_workspace`, `connect` or `migrate`:
each statement of the DDL script, each `PRAGMA table_info` and `ALTER TABLE`, and the
version row are steps.  Tables that no property tells apart share a name.  `copy[u]` is
`migrate_kb`: its counts, each SELECT of a page and each transaction that inserts one, the
counts and the sample of the verification.  `source` is written by its own daemons, which
add, rewrite in place and delete chunks as `upsert_points` does; an item is a chunk and its
version, so that a text and a vector of different versions differ.

## Runs

| run | instance | shows |
|---|---|---|
| `approvals_race` | 2 rows, 2 deciders, 1 caller, a fault, all in one second | under every overlap and one death: approvals and gated calls are on record, receipts name files, decided cards do not come back; the code implements `Tray`, card by card; a file that nobody shared or abandoned is credited to the card it was made for |
| `approvals_one_at_a_time` | 2 rows, 1 decider, 1 caller, 2 seconds, a fault | accepted decisions land unless a fault comes in between, also after one; a tool that runs code under a manifest that declares a read does not run free |
| `pipeline_ask` | 1 run, 4 models, 2 profiles, 2 saves, a fault | only judged text ships; listed sessions are provable; deletion is final; every Ask ends |
| `pipeline_clinic` (violation) | a `local_only` profile with a cloud validator | connector evidence goes to a cloud model |
| `launch_restart` | 3 processes, two booting at once, 6 launches, 2 kills, a slow probe, 1 UI call | a launch that no other one crossed serves under the published token, and refuses a call only across a restart; usable in the end |
| `corpus_sync` | 2 workers, a file, a tool, 2 workspaces, 2 versions, a fault | documents are whole, the protected corpus is pure, quarantine holds |
| `graph_index` | 2 documents, 2 texts, 1 fact, 2 ingests, 2 runs, a fault | one node per key, counts and references hold, names lead to their documents, an indexed document is connected |
| `foundry_onboard` | 2 onboarders, 2 askers, 6 answers (3 refused), 2 sources, 2 changes, a fault; threads symmetric | fleets are whole, agents vetted, times paired |
| `oauth_link` | 2 threads, 2 workspaces, 2 consents, a fault | timely consent for that workspace, used once; links on record; a quiet disconnect lasts |
| `host_calls` | 3 tools, 2 lines of noise | the transport implements `Call`; a timer expires only while its request is under way; every sync ends, and leaves no process it initialized |
| `reading_store` | 1 reader, k = 2, 2 terms, 2 corpora of 2 and 3 documents in 2 versions, 2 replacements, a fault | words find their passage; versions mix only during a replacement; a brief that begins is stored |
| `workspace_files` | 2 symmetric users, source of 2 rows, batches of 1, 1 write to the source and 1 to the target, a fault | a connection comes with the whole schema; words, text and vector of a row belong together but where the source rewrote or lost it; a copy reported ok is whole |

**Why the bounds are enough.** Two rows and two deciders give two requests for one card and
two cards that share a file name (the clock of `approvals_race` stands still); a third thread
holds a tool call open across both. The races the model exhibits all need two actors and
one fault. In the pipeline a draft has up to two sentences (one grounded, one not, is the
smallest partial verdict), and two writes to the profile store are a save and an activation
around one run. Runs are independent but for the profile files, so one is enough. Two
kills and six launches let a supervisor die at each step of a boot that follows a death, and
leave launches for the processes that the port or a probe sent away; two processes booting
beside one that serves are a second start and a race of two. In the
corpus the second version is shorter than the first (2 chunks, then 1), which is when
leftovers show, and is also the attack. In OAuth a consent lives one tick out of two, so
that a browser can be on time or late; two consents cover one per workspace and two for the
same one; two attempts stand for four. In the graph one text has a product, a date and an
organisation, the other a misspelling of the product, the product typed as an organisation,
and the organisation: retyping, fuzzy match, folding of what another document mentions, and
the cap on co-mentions (2, for ten) all occur. `CORROBORATION_MIN` is 2, for three, so that
two documents can make the guard refuse. Eight ids are enough for the four keys and some
rows that were folded away; a writer stops where there is no room for the nodes a text may
need (`Room`).

In `host_calls` three tools are one that is slow, one that finds what it left behind, and
the last; two lines of noise can stand before an answer and after one.  In `reading_store`
one reader is enough, since readers share nothing but the store and the brief, which a
reader meets again in its next call; a fault and two replacements let a document be gone,
old, mixed or new at each of the five statements.  One corpus has a migrated passage with a
pattern and no tag, twice, and a document that turns into an attack; the other has a
`LOCKS.md` that shrinks.  The multipliers of pool and keyword list are 2 and 2, for the
code's 8 and 4, so that lists are cut.  In `workspace_files` batches of one row make as many
interleavings as the rows allow; the source has two rows and may get a third, `MaxRow`
leaves room for one more on the other side.  The write to the source can fall between any
two pages, be it a new chunk, a rewritten or a deleted one.  A second write to the target,
which would use a row id again after a deletion, is left to the proof.

In the Foundry two onboardings of one playbook write the same rows for different
companies, two of different playbooks do not; a window of five events, for fifty, is
shorter than two onboardings, so that starts drop out of it.  Symmetry is sound there:
the properties are invariants and no thread is named.

**Bounds by name.**  `MaxClock`, `MaxFaults`, `MaxSaves`, `MaxClaims`, `Menu`,
`MaxNoise`, `Tools`, `K`, `Terms`, `POOL_MULTIPLIER`, `KEYWORD_MULTIPLIER`, `GateItems`
(the code's limits, made small), `InitialRows`, `MaxRow`, `BATCH`, `SampleSize`,
`MaxSourceWrites`, `MaxTargetWrites`, `MaxOnboardings`, `MaxAsks`, `MaxChanges`, `MaxId`,
`MaxIngests`, `MaxRuns`, `MaxLaunches`, `MaxCrashes`, `MaxBooting`, `MaxSlow`, `MaxVersion`,
`MaxTries` (a
constant of the code, `_MAX_ATTEMPTS`, made small).  What has to do with overlapping starts
is checked for two at once and proved for any number.
Deadlock is not checked, since every one of these systems may come to rest.

**Fairness.**  Only threads that have begun: `decide` and `call_tool` run on
(file and SQLite calls return, the connector call ends by its timer); an Ask runs on,
because model calls have timeouts; a process that boots goes on booting, and launchd's
KeepAlive probes again and again (launchd runs one process of a label, and whoever else starts one
does so of his own accord, so it is only owed that some process probes).  In `Wire` the
thread runs whenever it can, and a timer that is not cancelled expires and kills; the connector owes
nothing.  In `Reading` the thread of a brief goes on.  Nobody is obliged to start a request, to
save a profile, or to decide a card.  A crash is never fair.

## Proofs

| theorem | says |
|---|---|
| `PlainPullsOnly`, `NoDowngrade` | the tier rules fail closed, for every tool |
| `TypeCorrect` | types, for any rows, threads, tools and bounds |
| `ApprovalsAreRecorded`, `GatedCallsAreRecorded`, `ReceiptsNameFiles`, `DecidedStaysDecided` | the safety of `approvals_race`, for any number of deciders and callers, with crashes |
| `FreeCallsAreHarmless` | what reached a connector without a receipt had pull verbs alone and was declared nothing riskier |
| `TrayKeepsPromise` | `Approvals` implements `Tray`, for any number of deciders, callers and faults |
| `LinkTypes` | types of the account link, for any threads, workspaces, consents and bounds |
| `TokensHaveConsent`, `ConsentsAreSpentOnce`, `ConnectionsAreOnRecord`, `QuietDisconnectsLast` | the safety of `oauth_link`, for any number of threads, workspaces and consents, with crashes |
| `ProvenanceHolds` | under the same generality, a file that nobody shared or abandoned is credited to the card it was made for |
| `PipelineInvariant`, `NoUnjudgedTextShips`, `ListedRunsAreProvable`, `GoneStaysGone` | the safety of `pipeline_ask`, for any runs, models, profiles, saves and faults |
| `LaunchTypes`, `LaunchInvariant` | types, one owner of the port; what a launch that no other one crossed can rely on, for any number of processes booting at once |
| `ServedTokenIsPublished`, `NoCallIsRefusedInPlace` | the safety of `launch_restart`, for any number of starts, kills and probes that time out |
| `CorpusInvariant`, `ProtectedCorporaArePure`, `FlaggedResultsStayOut`, `DocumentsAreWhole` | the safety of `corpus_sync`, for any workers, documents, workspaces and versions |
| `FoundryInvariant`, `FleetsAreWhole`, `AgentsAreVetted`, `StopwatchIsOfOneOnboarding` | the safety of `foundry_onboard`, for any threads, answers, syncs, faults and any window of events |
| `GraphOneNodePerThing`, `GraphHoldsTogether`, `GraphLabelsLead`, `GraphDocumentsAreConnected` | the safety of `graph_index`, for any documents, texts, facts and relation `Near`, and any number of ingests, backfills, repairs and faults, as long as no other commit met a fact of the llm pass that was half persisted |
| `ReadingInvariant`, `ReadingFindsThePassage`, `ReadingMixesNothingOld` | the safety of `reading_store`, for any readers, stores, texts, k, terms, multipliers, replacements and faults |
| `WireInvariant`, `CallsKeepTheirPromise`, `TimersExpireInTime` | the transport implements the safety part of `Call`, and a timer expires only while its request is under way, for any tools and noise |
| `OpenIsWhole` | a connection that is handed out has the whole schema, for any number of openers, with deaths |
| `RowsStayTogether` | text, words and vector of a row are of one chunk and version, but in the rows that the source rewrote or lost, for any users, migrations, stores and batch sizes |
| `ReportsAreTrue` | a migration that reports ok left one vector a chunk, if no store lost a row, and of the same version but in the rows that the source rewrote, under the same generality |

The safety invariants are not inductive.  `IInv` adds what the threads know:
`JobInv` (a decider that is about to write `approved` to its row has a receipt in the
table or writes it next, its path is a file that exists, and the row's kind can be
executed), `GateInv` (a call that passed the gate for a gated tool presents a row that
has a receipt), and that rows decided once stay decided, receipts only grow and files
never disappear.  Those last three are why the interleavings do no harm: everything a
thread has read and still relies on is monotone.  `status` itself is not, which is
the first of the known disagreements.  The assumptions used are the named `ASSUME`s of the
modules.

`TrayKeepsPromise` and `ProvenanceHolds` are about one card and one file at a time.
`CardInv` says what a thread can rely on while its card is not disturbed: the card is still
pending, and a receipt for it is the thread's own; that other threads decide other cards, or
die, changes neither.  `FileInv` relates a file that is not muddled to the newest receipt of
its name, and to what the one thread that has it open has written so far.  For the other cards
`IInv` is enough: they are approved and used on a record.

In `PipelineProofs` each run has its own part of the invariant.  `PairInv`: after the
first load of a profile the two models are of different families, which saves cannot undo
and the second load does not (`StoreInv`: no profile on disk breaks the rule, a torn one
does not load).  `JudgedInv`: the text that a run goes on with past the verdicts is verbatim
evidence or has a verdict of its own in `judged`, with all sentences grounded; a verdict on
the first draft does not do for the second.  `ReceiptInv`: while the rows are written the
table has the receipts up to the sentence the run is at, and the cost row after that;
`ForgetInv` orders the deletion against them.  The families are read through
`ProfileAssumption`.

In the second part of `StartProofs`, on the launch, the file is what matters: `FileInv` says
that a launch which no other one crossed is the only one on its way, and that from its write
on `supervisor.json` holds its token.  Another start that falls between its steps, or whose
probe times out on it, puts it in `disturbed`; launches that were crossed and have ended do
no harm to a later one.  `PortInv` and `LaunchTypes` say nothing of `disturbed`.

In `CorpusProofs` each pair of a workspace and a document has its own invariant:
`WholeInv` (nobody is between the two transactions and the document is whole, or empty
after a step that failed; or one worker is, with the version that began last), `PureInv` and
`CleanInv`; `Sound` says what a worker knows before it writes: the guard has rerouted
it, and what it is about to store was not flagged.

In `FoundryProofs` two things are proved.  About the shelf (`FleetOf`): whatever answers
pass `_validate_answers`, the fleet that `_build_fleet` makes of them, if no id repeats, has
three to six agents, and each that watches a source was asked to; a template at a time, and
for any list of sources.  About the onboardings: `JobsInv` (what a thread knows of answers, fleet
and transaction; in the middle of the upsert its table has the rows written so far and only
agents that watch stored sources), `LiveInv` (the same of the committed table and of
questions that hold an agent), `WatchInv` (after the last start in `foundry_events` no other
onboarding logs an end, unless two overlapped).  The window of the page enters only
in the last step: it is a suffix, so the latest start in it is the last start there is.

In the first part of `ServiceProofs` the pipes are typed by what stands in them: a request
carries the id of its own, an answer the id of the request it was made for (`PipeInv`); ids
are never used again (`IdInv`), so a line with the id waited for is the answer to this
request however many stale lines precede it; a timer that runs is the current request's
(`TimerInv`; one that has expired is bound to nothing). Each step of the system is then a
step of `Call` or a stutter.

In `OAuthProofs` the invariant says what a request knows while it waits for the
Keychain, the provider or SQLite.  `LinkInv`: the account it holds goes back to a
consent given in time for its workspace, so storing it late is harmless.  `SpentInv`: a
state that is still pending, or was never minted, has been answered by nobody.
`ReceiptInv` and `RecordInv`: a registered workspace has a receipt, and a token without
one has a request behind it that is about to write it; the latter only while nothing
has failed (`faults = 0`).  `QuietInv`: after a quiet disconnect no consent is open and
no thread holds an account for that workspace, which is why nothing can bring the token
back.  None of the four properties is inductive without the part about threads.

In the first part of `StartProofs`, `WholeInv` says what a user inside `migrate` knows: the
statements and columns it has passed are there, because nobody ever drops one; so whoever
has passed them all may write the version, and whoever reads the version may rely on it.
`RowInv` adds that every row of a table of the target is either paired with the row of the
other table or a copy of the source's row of that id, and that a batch in flight still is,
unless the source has rewritten or lost the row of that id since (`changed`); two rows of
any other id are then equal.

`WholeCopyInv` is what makes the report true.  The rows a migration has copied are the
source's first ones, up to its cursor (`Has`), a new row comes after all of them, and two
migrations cannot both fill a table, since both begin with the first row and the second
clashes (`Clash`).  Counts that agree then pin down the sets: the points were all of the
source when they were through, so equal counts mean that the vectors stop at the same row
(`SameRows`); and the three counts of the target, taken one after the other, can only agree
with what was copied if nothing else had come in by the last of them (`VerifyingCopies`).
Both need that a finite set of row ids has a largest and a smallest one, which rests on
the library's theorem on well-founded orders, with no induction of our own.

In `GraphProofs` the work is in the operators.  `Sound` is what a graph in order is: one live
row a key (`Unique`), every row with as many mentions as it counts and at least one
(`CountIs`), aliases and mentions that lead to live rows and no edge from a row to itself
(`Anchored`).  Resolving a label and forgetting a document keep it.  `Unique` carries the
rest: where it holds a key has at most one sibling, so that a loop of `FoldAll` has at most
two rows to fold, a new row is only made where the key has none, and the repair finds
nothing to do.  For the labels of a document one has to know
where things go: `Resolves` says that to resolve a label moves the references of the rows
that were folded, to the row that is returned, and adds one alias and one mention; from it
`Follows` says of every other document that its labels lead where they led (`Leads`) and
that its co-mentions still tie its nodes together (`Star`).  `IndexDocument` gives its own
document both, by induction along its labels.  `InOrder` has all of this, and that what
`persist_triples` has read is still what it would read (`run.read = Read(graph, ...)`), which
is what lets a fact be written in several commits.  It holds until another commit, a lock or
a kill comes between them (`torn`): `IInv` claims it for `~torn` only, and after that just
the types (`Kinds`), since the code then promises no more.

In the second part of `ServiceProofs` come first the lists.  `Sorted` enumerates its set
without repeating itself, because the number of elements before one is its place; what a list
loses when it is cut off is its end; merging, grouping and arranging add nothing.  `StoreInv`:
at rest the store has one version of a document, and a worker has deleted that document
before it stores it.  `SearchInv`: `there` is part of the store and the store of `seen`, the
lists are of points in `seen`, none of them twice, and a keyword list that has been through
its searches is full or has everything in `there` that the first search wants (`Heard`).
`WordsFindTheirPassage` is then a matter of counting: the list is full, and there are fewer
tagged points than it holds, so that one of its points is untagged; the pool, into which the
fused list is cut, is one more place where only tagged points could be in the way.
`ReplyInv` is what the answer keeps of this when the reader moves on.  The three properties
fail as invariants by themselves, since they speak of answers alone.

A remark on method.  The prover takes no induction principle with an operator for a
parameter.  Where a fact about a fold or a flattened list is needed for every length,
`FoundryProofs` uses induction as a fact about sets (`SetInduction`: a set of
numbers that has 0 and, with n, n + 1, is all of them), which follows from the library's
theorem on least elements; `Greatest` and `Flattened` come from it.  `GraphProofs` does the
same for the loop over the labels of a document, which the model has as a recursive function
of how many of them are done.

Every safety property that a passing run checks is proved.  Model-checked only: liveness
(`AcceptedDecisionLands`, `EveryAskEnds`, `UsableInTheEnd`, `EverySyncEnds`, `BriefShips`,
and that every request of `Call` ends, which is the rest of `CallPromise`), which rests on
ENABLED and is out of the prover's reach.  Of the tier rules, `PlainPullsOnly` and `NoDowngrade` are
proved over every tool and need no run; `OnlyPlainPullsRunFree` is what they mean for the
tray, checked for two shapes and proved for all.

## Known disagreements

One has a run that shows it, with the sentences of the repository it contradicts in
`PROJECT.json` (findings): `pipeline_clinic`, a local-only profile whose validator is in the
cloud gets connector evidence.  The others are visible in the models and have no run of
their own; a property that would fail because of one says what it leaves out.  Four deserve
to come first, since the code or the documentation promises the opposite:

- Two requests for one card both read it as pending, and the later UPDATE, which has no
  `AND status = 'pending'`, overwrites the earlier decision (approvals.py:164, 196), where
  approvals.py:3 promises a single transition.  `TrayPromise` leaves out such a card
  (`disturbed`), for everything but the record of consent.
- Of two processes that both probe before either binds, the second writes `supervisor.json`
  when the first already serves (heydey_supervisor.py:56), where SECURITY.md:36 says that a
  second start never clobbers the live token.  The launch properties leave out a launch that
  another one crossed (`disturbed`), and none but that.
- A chunk that the source rewrites in place between the two phases of a migration is copied
  with its old text and its new vector; the counts agree, and outside the sample of five the
  report is ok (kb_migrate.py:84, vector_store.py:57-66), where kb_migrate.py:4 calls the copy
  safe while the daemons write.  `RowsBelongTogether` and `ReportedCopyIsWhole` leave out the
  rows that were rewritten (`changed`).
- The MCP server scans texts, but sources, paths and breadcrumbs leave unscanned
  (mcp_server.py:217-240), where mcp_server.py:40 speaks of every string.  `Outbound` and
  `Names` of `Reading` say what leaves; no property is about it, since what the guard does to
  the strings it is given holds by its definition, and the others it is not given.

The tray, the pipeline, the launch, the Foundry, the corpus and the accounts: a validator
that is lost between the two verdicts takes the branch of one that failed the draft, and
the degraded answer ships with a PASS badge, where docs/HEYDEY-EXECUTOR-CONTRACTS.md:23
wants UNVALIDATED; index_document reports a locked database as zero entities, which the
ledger of the backfill records as done, so that no resumed run takes the document up
(graph.py:453-454 says that it does); an approval that is cut short after its receipt
leaves a card that can still be denied, with a receipt that says approved; the retry of
`_synthesize` (pipeline.py:250) is outside the try that degrades, so an executor that dies
between two drafts raises out of the Ask, which pipeline.py:16-18 rules out; two first
answers at once are both logged (server.py:347 says ONE); a database that is locked during
`_upsert_specs` leaves an onboarding without an outcome event (foundry.py:18-21 has one for
ANY failure); agents of an earlier business stay in the table after another is onboarded,
and the page, which asks "the analyst agent (spec[0])", then takes the one whose id sorts
first; a model that is down states no facts, so the llm pass, like the deterministic one,
records a document as done that nobody worked on; two labels of one document may become one
node after the first was counted (a typo that is near one node, under a key that another
has), and then co-mention edges are written to the row that was folded away, whose id
SQLite gives out again, so that a later node inherits them (this is why
`DocumentIsConnected` asks that no edge ever lost an end); two cards of one kind approved
within a second share a file, so the first receipt ends up naming the second draft (and if
the requests overlap, the provenance may name the wrong card, which is why
`ProvenanceIsTrue` leaves out the files that two threads had open at once); a profile that
is saved between its two loads in one run pairs old models with a new egress switch; a
`/health` that is slower than the probe's two seconds counts as absent (`MaxSlow = 1` in
`launch_restart`); two overlapping syncs of one tool can leave chunks of both answers
(`WholeDocuments` is claimed only when one worker at a time replaced the document); a
refresh that is under way when its account is disconnected stores the token again
(`DisconnectLasts` is claimed only for a disconnect that met no other request).

The transport: connector_sync.py:159 calls the loop isolated by tool, but the timer of one
slow tool kills the process, and every tool after it fails with it; a timer that has passed
its test when it is cancelled kills all the same, and may hit the next request, which fails
although its connector was in time (mcp_host.py:128, 146); an initialize that is
refused leaves the process to the end of its input, since nobody calls `stop`; a grandchild
that holds the pipe would keep the reader waiting after the kill.

Reading: ask.py:97 calls retrieval the one chokepoint for tagged chunks, the brief
included, yet the sections on gates and locks select points directly; the MCP server scans
the texts it hands out again, GET /today does not. morning_brief.py:255 says build,
persist, notify, and the code notifies first. The sentinel's check for the last brief finds
none at the first scheduled run, and a brief run by hand hides a schedule that is dead.

Workspaces: a process that dies between mkdir and the file, or loses that race, leaves a
workspace that connect does not find and create cannot make (FileExistsError, which nobody
turns into an answer).  Two openers of an old file may both miss a column, and the second
ALTER raises, where schema.py calls migrate safe on every open.

Migration: a copy that died cannot be taken up, since the target is no longer empty. A row
that is appended to the source between the phases leaves a vector without its point, under
the row id the next chunk would get, so that the store takes no chunk until that id is
passed; the report then says it is not ok. If the source loses rows meanwhile and SQLite
uses an id again, the copy pairs a text with the vector of another, and the report may be
ok, since the sample of the verification is of five rows and looks at no vector;
`RowsBelongTogether` leaves out the rows, by id, that the source rewrote or lost since the
first migration began, and `ReportedCopyIsWhole` is claimed where no store has lost a row.
A migration of a store with no rows reports ok, also while another one is halfway.

## What is left out, and why

- The text of messages, prompts, scores, costs in money, PII scrubbing and the
  slicing of documents: no property is about them.
- One writer of the profile files at a time: the UI's Save is one request, and two
  saves at once add only files that are torn longer.
- An extractive answer counts as one sentence; it is verbatim evidence, which the
  word-overlap check always passes.
- In `Pipeline`, what retrieval finds is a free choice of "nothing", "own" or "connector"
  evidence; `Retrieval` and `Reading` have its searches.
- In `Wire`, the lock around a request: each sync starts a host of its own, with one calling
  thread.  `Approvals` has a call as one step that succeeds or fails.
- In `Reading`, what the sections of the brief compute beyond the points they show, the
  sentinel's checks, the costs, the schedule; the framing of the MCP server's replies.
- In `Workspace`, the authorizer that keeps a connection to its own file, and the listing.
- The Origin check of the supervisor and the redaction of logs.
- In OAuth the values of the client credentials (only whether there are any) and the
  env-file fallback.
- In the graph: extraction from text, money, weights and PMI mining, co-retrieval edges,
  the v1 mirror tables, `--limit`, `--doc` and more than one stream of the backfill.
  A statement inside `WriteLabel` is not interleaved by itself; what is claimed of the
  graph while a fact is half persisted is nothing (`torn`).  That a backfill ends is
  not checked: it has no loop but the one over its list.
- In the Foundry: display texts and focus, the version's use, the playbooks' brief sections
  and cards, and the timestamps themselves: only which events are paired is checked.
- The components that `PROJECT.json` lists as not modelled; gates, evaluations
  and demo connectors keep no state.

## Plan

Built, in this order: `ToolRisk`, `Tray`, `Approvals` with proofs; `Pipeline`;
`Launch`; `Corpus`; `OAuth` with proofs; `GraphStore` and `Graph`; `FoundryShelf` and
`Foundry`; `Workspace` and `KbMigrate` with proofs; `Call` and `Wire`; `Retrieval` and
`Reading`; then the proofs of `Pipeline`, `Launch`, `Corpus`, `Wire`, `Foundry`, `Graph` and
`Reading`.  What is left:

1. The web UI's polling, if its stale-answer handling proves worth a module.
2. Hazards that no property covers (`PROJECT.json` says why, each at its line).
