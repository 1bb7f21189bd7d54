------------------------------ MODULE Reading ------------------------------
(***************************************************************************)
(* Those who read a workspace's store while it is being re-ingested: ask   *)
(* and find of ask.py, the morning brief of morning_brief.py, and Today;   *)
(* over HTTP (server.py) and as tools of the MCP server (mcp_server.py).   *)
(*                                                                         *)
(* No reader holds a transaction: each statement sees the store as it is   *)
(* then.  The ingest replaces a document by two transactions.              *)
(***************************************************************************)
EXTENDS Retrieval

CONSTANTS
  Readers,    \* threads and processes that read
  Worlds,     \* what the documents may say, and what of it is in the store
  K,          \* k of an ask
  GateItems,  \* lines the section gates may have
  MaxRuns,    \* bound: documents that are replaced
  MaxFaults   \* bound: statements that raise and processes that die

ASSUME ReadingAssumption == {K, GateItems, MaxRuns, MaxFaults} \subseteq Nat

(* What a passage is: what Retrieval looks at, a risk (what scan_injection *)
(* finds in it, whatever tag its points were stored with) and one in the   *)
(* path of its document, the markers the brief looks for, and its copies.  *)
Text ==
  [sim : Nat, fresh : Nat, words : Nat, title : Nat, tagged : BOOLEAN,
   risky : BOOLEAN, riskyPath : BOOLEAN, gate : BOOLEAN, copies : Nat]

PointsOf(t, d, v) ==
  UNION {{[doc |-> d, ver |-> v, idx |-> x[3], copy |-> n] : n \in 1 .. t[x].copies} :
         x \in {y \in DOMAIN t : y[1] = d /\ y[2] = v}}

(* A store holds one version of a document before it is replaced.          *)
ASSUME WorldsAssumption ==
  \A w \in Worlds :
    /\ IsFiniteSet(DOMAIN w.texts) /\ DOMAIN w.texts \subseteq Nat \X Nat \X Nat
    /\ w.texts \in [DOMAIN w.texts -> Text]
    /\ IsFiniteSet(w.store) /\ \A c \in w.store : c \in PointsOf(w.texts, c.doc, c.ver)
    /\ \A a, b \in w.store : a.doc = b.doc => a.ver = b.ver

VARIABLES
  texts,   \* <<doc, ver, idx>> to a passage; it never changes
  locks,   \* the documents that are a LOCKS.md, and those with locks in their path
  store,   \* points
  worker,  \* the ingest
  runs,    \* how many documents it took up
  reader,  \* per reader: where it is
  brief,   \* the newest row of briefs, if there is one: its strings
  faults

readvars == <<texts, locks, store, worker, runs, reader, brief, faults>>

Passage(c) == texts[<<c.doc, c.ver, c.idx>>]
Docs       == {x[1] : x \in DOMAIN texts}

Idle    == [at |-> "idle"]
NoBrief == <<>>

(* build_brief runs them in this order, the last two if their playbooks    *)
(* were imported.                                                          *)
Sections == <<"changed", "gates", "locks", "sentinel", "costs", "sessions", "approvals",
              "d2c-ops", "pm">>

ReadingInit ==
  /\ \E w \in Worlds : texts = w.texts /\ locks = w.locks /\ store \in {{}, w.store}
  /\ worker = Idle /\ runs = 0
  /\ reader = [r \in Readers |-> Idle]
  /\ brief = NoBrief
  /\ faults = 0

-----------------------------------------------------------------------------
(* The ingest.                                                             *)

Searching(r) == reader[r].at \in {"count", "near", "all terms", "any term", "rank"}

(* What a reader had before it all the time, and what it may have met.     *)
Witness ==
  reader' = [r \in Readers |->
    IF Searching(r)
    THEN [reader[r] EXCEPT !.there = @ \cap store', !.seen = @ \cup store']
    ELSE reader[r]]

TakeUp(d, v) ==
  /\ worker = Idle /\ runs < MaxRuns
  /\ PointsOf(texts, d, v) # {}
  /\ worker' = [at |-> "delete", doc |-> d, ver |-> v]
  /\ runs' = runs + 1
  /\ UNCHANGED <<texts, locks, store, reader, brief, faults>>

(* Upserts replace what they can, and nothing is deleted.                  *)
Delete_bug ==
  /\ worker.at = "delete"
  /\ worker' = [worker EXCEPT !.at = "store"]
  /\ UNCHANGED <<texts, locks, store, runs, reader, brief, faults>>

Delete ==
  /\ worker.at = "delete"
  /\ store' = {c \in store : c.doc # worker.doc}
  /\ worker' = [worker EXCEPT !.at = "store"]
  /\ Witness
  /\ UNCHANGED <<texts, locks, runs, brief, faults>>

Store ==
  /\ worker.at = "store"
  /\ store' = store \cup PointsOf(texts, worker.doc, worker.ver)
  /\ worker' = Idle
  /\ Witness
  /\ UNCHANGED <<texts, locks, runs, brief, faults>>

IngestFails ==
  /\ worker # Idle /\ faults < MaxFaults
  /\ worker' = Idle /\ faults' = faults + 1
  /\ UNCHANGED <<texts, locks, store, runs, reader, brief>>

ingest == (\E d \in Docs, v \in 1 .. 2 : TakeUp(d, v)) \/ Delete \/ Store \/ IngestFails

-----------------------------------------------------------------------------
(* Ask and find.                                                           *)

Become(r, me) == reader' = [reader EXCEPT ![r] = me]
Quiet         == UNCHANGED <<texts, locks, store, worker, runs>>

(* find_docs asks for more, and groups it by document.                     *)
Wanted(kind) == IF kind = "ask" THEN K ELSE IF K * 2 > 12 THEN K * 2 ELSE 12
Pool(kind)   == Wanted(kind) * POOL_MULTIPLIER
Words(kind)  == Wanted(kind) * KEYWORD_MULTIPLIER

(* What FTS5 cannot parse is looked up as a phrase: wanted is what the     *)
(* first search asks of a text.                                            *)
Begin(r, kind) ==
  /\ reader[r] = Idle
  /\ \E wanted \in {Terms, Phrase} :
       Become(r, [at |-> "count", kind |-> kind, wanted |-> wanted, count |-> 0,
                  near |-> <<>>, words |-> <<>>, deaf |-> FALSE,
                  there |-> store, seen |-> store])
  /\ Quiet /\ UNCHANGED <<brief, faults>>

(* count_points, before the search it bounds.                              *)
CountPoints(r) ==
  /\ reader[r].at = "count"
  /\ Become(r, [reader[r] EXCEPT !.at = "near", !.count = Cardinality(store)])
  /\ Quiet /\ UNCHANGED <<brief, faults>>

SearchByVector(r) ==
  LET me == reader[r]
  IN /\ me.at = "near"
     /\ Become(r, [me EXCEPT !.at = "all terms", !.count = 0,
                             !.near = Nearest(texts, store, Pool(me.kind), me.count)])
     /\ Quiet /\ UNCHANGED <<brief, faults>>

(* The first statement of keyword_search: all terms, or the phrase.        *)
SearchAllTerms(r) ==
  LET me == reader[r]
      hits == Matching(texts, store, me.wanted, Words(me.kind))
  IN /\ me.at = "all terms"
     /\ Become(r, [me EXCEPT !.words = hits,
                   !.at = IF Len(hits) < Words(me.kind) /\ Terms > 1 THEN "any term" ELSE "rank"])
     /\ Quiet /\ UNCHANGED <<brief, faults>>

(* The second: any term; a longer list replaces the first.                 *)
SearchAnyTerm(r) ==
  LET me == reader[r]
      hits == Matching(texts, store, 1, Words(me.kind))
  IN /\ me.at = "any term"
     /\ Become(r, [me EXCEPT !.at = "rank", !.words = IF Len(hits) > Len(@) THEN hits ELSE @])
     /\ Quiet /\ UNCHANGED <<brief, faults>>

(* The search raises: the one for any term keeps what there is, and        *)
(* retrieve goes on without keywords if it was the one for all terms.      *)
SearchFails(r) ==
  /\ reader[r].at \in {"all terms", "any term"} /\ faults < MaxFaults
  /\ faults' = faults + 1
  /\ Become(r, [reader[r] EXCEPT !.at = "rank", !.deaf = TRUE])
  /\ Quiet /\ UNCHANGED brief

Surface == {"http", "mcp"}

(* Of a string that leaves, or stands in a brief, all that matters is      *)
(* where it stands and whether it has a pattern: in a text (the answer, a  *)
(* snippet, a claim, a line), or in a name (source, path, doc_id).         *)
String == [in : {"text", "name"}, risky : BOOLEAN]

Texts(points) == {[in |-> "text", risky |-> Passage(c).risky] : c \in points}
Names(points) == {[in |-> "name", risky |-> Passage(c).riskyPath] : c \in points}

(* _outbound_guard puts a note in place of a text with a pattern, on MCP   *)
(* only; _guard_citation and its like hand it nothing but the texts.       *)
Guarded(string) == [string EXCEPT !.risky = string.in = "name" /\ @]

Outbound(surface, strings) ==
  IF surface = "mcp" THEN {Guarded(string) : string \in strings} ELSE strings

Ranked(me) == Evidence(texts, me.near, me.words, Wanted(me.kind))

(* The reading is over: its citations, passages and answer leave.  Where   *)
(* they go made no difference before.                                      *)
Answer(r, surface) ==
  LET me == reader[r]
  IN /\ me.at = "rank"
     /\ LET hits  == Ranked(me)
            shown == IF me.kind = "ask" THEN hits ELSE Documents(hits, K)
        IN Become(r, [at |-> "replied", kind |-> me.kind, surface |-> surface,
                      hits |-> hits,
                      out |-> Outbound(surface, Texts(ToSet(shown)) \cup Names(ToSet(shown))),
                      deaf |-> me.deaf, wanted |-> me.wanted, there |-> me.there, seen |-> me.seen])
     /\ Quiet /\ UNCHANGED <<brief, faults>>

Close(r) ==
  /\ reader[r].at = "replied"
  /\ Become(r, Idle)
  /\ Quiet /\ UNCHANGED <<brief, faults>>

asking(r) ==
  \/ CountPoints(r) \/ SearchByVector(r) \/ SearchAllTerms(r) \/ SearchAnyTerm(r)
  \/ SearchFails(r) \/ (\E surface \in Surface : Answer(r, surface)) \/ Close(r)

-----------------------------------------------------------------------------
(* The morning brief, and Today.                                           *)

BeginBrief(r) ==
  /\ reader[r] = Idle
  /\ Become(r, [at |-> "section", kind |-> "brief", i |-> 1, lines |-> {}])
  /\ Quiet /\ UNCHANGED <<brief, faults>>

(* The text of one point each of a few documents with a marker; the query  *)
(* goes to the points themselves, with no look at their tags.              *)
GateLines ==
  LET marked == {c \in store : Passage(c).gate}
  IN {c \in marked :
        /\ \A o \in marked : o.doc = c.doc => ~Older(o, c)
        /\ Cardinality({o.doc : o \in {o \in marked : o.doc < c.doc}}) < GateItems}

(* LIMIT 2, newest first: the younger documents stand for the newer ones.  *)
LockLines(docs) ==
  LET found == {c \in store : c.doc \in docs}
  IN {c \in found : Cardinality({o \in found : Older(c, o)}) < 2}

(* Up to five documents of the window.                                     *)
ChangedLines ==
  {{c \in store : c.doc \in docs} :
     docs \in {ds \in SUBSET {c.doc : c \in store} : Cardinality(ds) <= 5}}

(* The section adds these strings; lines that state a fact, and the note   *)
(* of a section that failed, have no pattern.                              *)
Advance(me, strings) ==
  [me EXCEPT !.at = IF me.i = Len(Sections) THEN "notify" ELSE "section",
             !.i = IF me.i = Len(Sections) THEN 1 ELSE me.i + 1,
             !.lines = @ \cup strings]

(* A line with its breadcrumb.                                             *)
Cited(points) == Texts(points) \cup Names(points)

(* _run of build_brief; changed has the names of documents in its lines    *)
(* too, and locks asks again if there is no LOCKS.md.                      *)
RunSection(r) ==
  LET me == reader[r]
      lines == LockLines(locks.canonical)
  IN /\ me.at = "section"
     /\ CASE Sections[me.i] = "changed" ->
               \E points \in ChangedLines :
                 Become(r, Advance(me, Names(points)
                          \cup {[string EXCEPT !.in = "text"] : string \in Names(points)}))
          [] Sections[me.i] = "gates" -> Become(r, Advance(me, Cited(GateLines)))
          [] Sections[me.i] = "locks" ->
               Become(r, IF lines = {} THEN [me EXCEPT !.at = "locks again"]
                         ELSE Advance(me, Cited(lines)))
          [] OTHER -> Become(r, Advance(me, {}))
     /\ Quiet /\ UNCHANGED <<brief, faults>>

LocksAgain(r) ==
  /\ reader[r].at = "locks again"
  /\ Become(r, Advance(reader[r], Cited(LockLines(locks.named))))
  /\ Quiet /\ UNCHANGED <<brief, faults>>

(* The exception leaves build_brief.                                       *)
SectionFails_bug(r) ==
  /\ reader[r].at \in {"section", "locks again"} /\ faults < MaxFaults
  /\ faults' = faults + 1
  /\ Become(r, Idle)
  /\ Quiet /\ UNCHANGED brief

(* A section that raises leaves a note in its place.                       *)
SectionFails(r) ==
  /\ reader[r].at \in {"section", "locks again"} /\ faults < MaxFaults
  /\ faults' = faults + 1
  /\ Become(r, Advance(reader[r], {}))
  /\ Quiet /\ UNCHANGED brief

(* notify_macos never raises.                                              *)
NotifyBrief(r) ==
  /\ reader[r].at = "notify"
  /\ Become(r, [reader[r] EXCEPT !.at = "insert"])
  /\ Quiet /\ UNCHANGED <<brief, faults>>

Insert(r) ==
  LET me == reader[r]
  IN /\ me.at = "insert"
     /\ brief' = <<me.lines>>
     /\ Become(r, [at |-> "stored"])
     /\ Quiet /\ UNCHANGED faults

LeaveBrief(r) ==
  /\ reader[r].at \in {"stored", "lost"}
  /\ Become(r, Idle)
  /\ Quiet /\ UNCHANGED <<brief, faults>>

(* The database stays locked, or the process is gone: no row.              *)
Dies(r) ==
  /\ reader[r].at \in {"section", "locks again", "notify", "insert"} /\ faults < MaxFaults
  /\ faults' = faults + 1
  /\ Become(r, [at |-> "lost"])
  /\ Quiet /\ UNCHANGED brief

(* latest, for GET /today and heydey_today.                                *)
Today(r, surface) ==
  /\ reader[r] = Idle /\ brief # NoBrief
  /\ Become(r, [at |-> "replied", kind |-> "today", surface |-> surface,
                out |-> Outbound(surface, brief[1])])
  /\ Quiet /\ UNCHANGED <<brief, faults>>

briefing(r) ==
  RunSection(r) \/ LocksAgain(r) \/ SectionFails(r) \/ NotifyBrief(r) \/ Insert(r) \/ LeaveBrief(r)

ReadingNext ==
  \/ ingest
  \/ \E r \in Readers :
       \/ \E kind \in {"ask", "find"} : Begin(r, kind)
       \/ asking(r)
       \/ BeginBrief(r) \/ briefing(r) \/ Dies(r)
       \/ \E surface \in Surface : Today(r, surface)

ReadingSpec == ReadingInit /\ [][ReadingNext]_readvars

(* The thread of a brief goes on; nothing else has to.                     *)
ReadingFairSpec == ReadingSpec /\ \A r \in Readers : WF_readvars(briefing(r))

-----------------------------------------------------------------------------
Answered(r) == reader[r].at = "replied" /\ reader[r].kind \in {"ask", "find"}

MayHaveMet(r, d) == {c \in reader[r].seen : c.doc = d}

(* A passage that is in the store all the while, is not tagged and is what *)
(* the first keyword search looks for is enough for the reading not to     *)
(* come up empty, whatever else is ingested or deleted between its         *)
(* statements, and with as many tagged points in its way as both lists are *)
(* not filled by.                                                          *)
WordsFindTheirPassage ==
  \A r \in Readers :
    LET me     == reader[r]
        tagged == {c \in me.seen : Passage(c).tagged}
    IN /\ Answered(r) /\ ~me.deaf
       /\ \E c \in me.there : ~Passage(c).tagged /\ Passage(c).words >= me.wanted
       /\ Cardinality(tagged) < Least(Pool(me.kind), Words(me.kind))
       => me.hits # <<>>

(* Evidence mixes two versions of a document only if the document was      *)
(* being replaced while the reading went on (retrieve).                    *)
OneVersionOfADocument ==
  \A r \in Readers :
    Answered(r) =>
      \A a, b \in ToSet(reader[r].hits) :
        a.doc = b.doc /\ a.ver # b.ver => ~(MayHaveMet(r, a.doc) \subseteq reader[r].there)

(* A brief that was begun is stored, whichever of its sections fail,       *)
(* unless its process dies or cannot write the row (build_brief, run).     *)
BriefShips ==
  \A r \in Readers :
    reader[r].at = "section" ~> reader[r].at \in {"stored", "lost"}
=============================================================================
