------------------------------- MODULE Foundry -------------------------------
(***************************************************************************)
(* Onboarding a business: requests to /foundry/onboard that overlap, write *)
(* agent_specs in one transaction and foundry_events in commits of their   *)
(* own; requests to /ask that take an agent from the table and log the     *)
(* first answer; and the stopwatch that the page computes from the events. *)
(***************************************************************************)
EXTENDS FoundryShelf, FiniteSets, FiniteSetsExt

CONSTANTS
  Onboarders, Askers,  \* threads
  Offers,              \* the answers that somebody may send
  Connected,           \* sources that are registered and may be synced
  NoAgent,             \* a question that is not under way has no agent
  NoAnswers,
  EventLimit,          \* events that the page is given (50)
  MaxOnboardings,      \* bound: requests to onboard
  MaxAsks,             \* bound: questions to agents
  MaxChanges,          \* bound: syncs and profile switches
  MaxFaults            \* bound: locked databases, deaths

Free == "nobody"

ASSUME ConnectedAssumption == Connected \subseteq Sources
ASSUME FreeAssumption == Free \notin Onboarders
ASSUME LimitAssumption == EventLimit \in Nat

VARIABLES
  specs,     \* agent_specs: the row of each id it has, as last committed
  lock,      \* who holds BEGIN IMMEDIATE
  events,    \* foundry_events, in id order
  clean,     \* sources of which chunks are stored
  routable,  \* the active profile has a pair for "ask" of two families
  job,       \* requests inside instantiate
  ask,       \* requests inside ask_endpoint
  onboardings, asks, changes, faults,
  committed, \* history: onboardings whose rows were committed
  last,      \* history: the fleet committed last
  beenClean, \* history: sources of which chunks were ever stored
  overlap    \* history: two onboardings overlapped

vars == <<specs, lock, events, clean, routable, job, ask, onboardings, asks, changes, faults,
          committed, last, beenClean, overlap>>

NoRows  == <<>>
IdleJob == [step |-> "idle", by |-> 0, answers |-> NoAnswers, fleet |-> <<>>,
            rows |-> 0, table |-> NoRows]
IdleAsk == [step |-> "idle", agent |-> NoAgent]

Init ==
  /\ specs = NoRows
  /\ lock = Free
  /\ events = <<>>
  /\ clean = {} /\ beenClean = {}
  /\ routable = TRUE
  /\ job = [o \in Onboarders |-> IdleJob]
  /\ ask = [t \in Askers |-> IdleAsk]
  /\ onboardings = 0 /\ asks = 0 /\ changes = 0 /\ faults = 0
  /\ committed = {}
  /\ last = <<>>
  /\ overlap = FALSE

Fault == faults < MaxFaults /\ faults' = faults + 1

_log_event(step, by) == events' = Append(events, [step |-> step, by |-> by])
-----------------------------------------------------------------------------
(* A sync stores chunks of a source, or takes them away; somebody          *)
(* activates a profile.                                                    *)
World ==
  /\ changes < MaxChanges
  /\ changes' = changes + 1
  /\ \/ \E s \in Connected :
          /\ clean' = IF s \in clean THEN clean \ {s} ELSE clean \cup {s}
          /\ beenClean' = beenClean \cup clean'
          /\ UNCHANGED routable
     \/ routable' = ~routable /\ UNCHANGED <<clean, beenClean>>
  /\ UNCHANGED <<specs, lock, events, job, ask, onboardings, asks, faults,
                 committed, last, overlap>>

(* instantiate: the event, and the answers against the interview.          *)
StartOnboarding(o, a) ==
  /\ job[o].step = "idle" /\ onboardings < MaxOnboardings
  /\ onboardings' = onboardings + 1
  /\ _log_event("onboard_started", onboardings')
  /\ job' = [job EXCEPT ![o] =
       [IdleJob EXCEPT !.step = IF _validate_answers(a) THEN "scan" ELSE "fail",
                       !.by = onboardings', !.answers = a]]
  /\ overlap' = (overlap \/ \E p \in Onboarders \ {o} : job[p].step # "idle")
  /\ UNCHANGED <<specs, lock, clean, routable, ask, asks, changes, faults,
                 committed, last, beenClean>>

(* corpus_scan and its event; every source that was picked must be clean.  *)
Scan_bug(o) ==  \* the sources are not compared with the scan
  /\ job[o].step = "scan"
  /\ _log_event("corpus_scanned", job[o].by)
  /\ job' = [job EXCEPT ![o].step = "vet"]
  /\ UNCHANGED <<specs, lock, clean, routable, ask, onboardings, asks, changes, faults,
                 committed, last, beenClean, overlap>>

Scan(o) ==
  /\ job[o].step = "scan"
  /\ _log_event("corpus_scanned", job[o].by)
  /\ job' = [job EXCEPT ![o].step =
               IF ToSet(job[o].answers.sources) \subseteq clean THEN "vet" ELSE "fail"]
  /\ UNCHANGED <<specs, lock, clean, routable, ask, onboardings, asks, changes, faults,
                 committed, last, beenClean, overlap>>

Vet(o) ==
  /\ job[o].step = "vet"
  /\ LET fleet == _build_fleet(job[o].answers)
     IN job' = [job EXCEPT ![o].fleet = fleet,
                           ![o].step = IF Vetted(fleet, routable) THEN "begin" ELSE "fail"]
  /\ UNCHANGED <<specs, lock, events, clean, routable, ask, onboardings, asks, changes, faults,
                 committed, last, beenClean, overlap>>

(* _upsert_specs: BEGIN IMMEDIATE, a row at a time, COMMIT.  The table that *)
(* the transaction writes is the job's until then.                         *)
BeginUpsert(o) ==
  /\ job[o].step = "begin" /\ lock = Free
  /\ lock' = o
  /\ job' = [job EXCEPT ![o].step = "rows", ![o].rows = 0, ![o].table = specs]
  /\ UNCHANGED <<specs, events, clean, routable, ask, onboardings, asks, changes, faults,
                 committed, last, beenClean, overlap>>

Upserted(table, s) ==
  [id \in DOMAIN table \cup {s.id} |->
     IF id # s.id THEN table[id]
     ELSE [spec |-> s, version |-> IF id \in DOMAIN table THEN table[id].version + 1 ELSE 1]]

UpsertRow_bug(o) ==  \* no transaction: each row commits alone
  /\ job[o].step = "rows" /\ job[o].rows < Len(job[o].fleet)
  /\ job' = [job EXCEPT ![o].rows = @ + 1,
                        ![o].table = Upserted(@, job[o].fleet[job[o].rows + 1])]
  /\ specs' = Upserted(specs, job[o].fleet[job[o].rows + 1])
  /\ UNCHANGED <<lock, events, clean, routable, ask, onboardings, asks, changes, faults,
                 committed, last, beenClean, overlap>>

UpsertRow(o) ==
  /\ job[o].step = "rows" /\ job[o].rows < Len(job[o].fleet)
  /\ job' = [job EXCEPT ![o].rows = @ + 1,
                        ![o].table = Upserted(@, job[o].fleet[job[o].rows + 1])]
  /\ UNCHANGED <<specs, lock, events, clean, routable, ask, onboardings, asks, changes, faults,
                 committed, last, beenClean, overlap>>

CommitUpsert(o) ==
  /\ job[o].step = "rows" /\ job[o].rows = Len(job[o].fleet)
  /\ specs' = job[o].table
  /\ lock' = Free
  /\ job' = [job EXCEPT ![o].step = "log"]
  /\ committed' = committed \cup {job[o].by}
  /\ last' = job[o].fleet
  /\ UNCHANGED <<events, clean, routable, ask, onboardings, asks, changes, faults,
                 beenClean, overlap>>

LogFleet(o) ==
  /\ job[o].step = "log"
  /\ _log_event("fleet_instantiated", job[o].by)
  /\ job' = [job EXCEPT ![o] = IdleJob]
  /\ UNCHANGED <<specs, lock, clean, routable, ask, onboardings, asks, changes, faults,
                 committed, last, beenClean, overlap>>

LogFailed(o) ==
  /\ job[o].step = "fail"
  /\ _log_event("onboard_failed", job[o].by)
  /\ job' = [job EXCEPT ![o] = IdleJob]
  /\ UNCHANGED <<specs, lock, clean, routable, ask, onboardings, asks, changes, faults,
                 committed, last, beenClean, overlap>>

(* An error that is no FoundryError (a locked database) rolls back and     *)
(* leaves instantiate without an event; so does the death of the process.  *)
OnboardingBreaks(o) ==
  /\ job[o].step # "idle"
  /\ Fault
  /\ lock' = IF lock = o THEN Free ELSE lock
  /\ job' = [job EXCEPT ![o] = IdleJob]
  /\ UNCHANGED <<specs, events, clean, routable, ask, onboardings, asks, changes,
                 committed, last, beenClean, overlap>>
-----------------------------------------------------------------------------
(* ask_endpoint: get_spec before anything else; an unknown agent is a 404. *)
StartAsk(t, id) ==
  /\ ask[t].step = "idle" /\ asks < MaxAsks
  /\ id \in DOMAIN specs
  /\ asks' = asks + 1
  /\ ask' = [ask EXCEPT ![t] = [step |-> "answering", agent |-> specs[id].spec]]
  /\ UNCHANGED <<specs, lock, events, clean, routable, job, onboardings, changes, faults,
                 committed, last, beenClean, overlap>>

(* run_pipeline returned, or raised.                                       *)
Answered(t) ==
  /\ ask[t].step = "answering"
  /\ ask' = [ask EXCEPT ![t].step = "answered"]
  /\ UNCHANGED <<specs, lock, events, clean, routable, job, onboardings, asks, changes, faults,
                 committed, last, beenClean, overlap>>

AskBreaks(t) ==
  /\ ask[t].step # "idle"
  /\ Fault
  /\ ask' = [ask EXCEPT ![t] = IdleAsk]
  /\ UNCHANGED <<specs, lock, events, clean, routable, job, onboardings, asks, changes,
                 committed, last, beenClean, overlap>>

(* _log_first_answer_once: SELECT 1, and an INSERT when there was none.    *)
FirstAnswers == {i \in DOMAIN events : events[i].step = "first_answer"}

LookForFirst(t) ==
  /\ ask[t].step = "answered"
  /\ ask' = [ask EXCEPT ![t] = IF FirstAnswers = {} THEN [@ EXCEPT !.step = "first"] ELSE IdleAsk]
  /\ UNCHANGED <<specs, lock, events, clean, routable, job, onboardings, asks, changes, faults,
                 committed, last, beenClean, overlap>>

LogFirst(t) ==
  /\ ask[t].step = "first"
  /\ _log_event("first_answer", 0)
  /\ ask' = [ask EXCEPT ![t] = IdleAsk]
  /\ UNCHANGED <<specs, lock, clean, routable, job, onboardings, asks, changes, faults,
                 committed, last, beenClean, overlap>>
-----------------------------------------------------------------------------
(* foundry_status gives the page the last events, computeStopwatch takes   *)
(* the latest of each step; an end that is older than the start is stale.  *)
Window == {i \in DOMAIN events : i > Len(events) - EventLimit}
Latest(step) ==
  LET found == {i \in Window : events[i].step = step} IN IF found = {} THEN 0 ELSE Max(found)

Shown_bug(step) ==  \* the guard against stale ends is dropped
  Latest("onboard_started") # 0 /\ Latest(step) # 0
Shown(step) ==
  /\ Latest("onboard_started") # 0
  /\ Latest(step) >= Latest("onboard_started")

Next ==
  \/ World
  \/ \E o \in Onboarders :
       \/ \E a \in Offers : StartOnboarding(o, a)
       \/ Scan(o) \/ Vet(o) \/ BeginUpsert(o) \/ UpsertRow(o) \/ CommitUpsert(o)
       \/ LogFleet(o) \/ LogFailed(o) \/ OnboardingBreaks(o)
  \/ \E t \in Askers :
       \/ \E id \in DOMAIN specs : StartAsk(t, id)
       \/ Answered(t) \/ AskBreaks(t) \/ LookForFirst(t) \/ LogFirst(t)

FoundrySpec == Init /\ [][Next]_vars
-----------------------------------------------------------------------------
(* Types; and a fleet that is being written belongs to whom holds the lock. *)
TypeOK ==
  /\ \A id \in DOMAIN specs :
       specs[id].spec \in Spec(id) /\ specs[id].version \in 1..MaxOnboardings
  /\ lock \in Onboarders \cup {Free}
  /\ \A o \in Onboarders : (job[o].step = "rows") <=> (lock = o)
  /\ \A o \in Onboarders : job[o].rows \in 0..Len(job[o].fleet) /\ job[o].by \in 0..onboardings
  /\ clean \subseteq beenClean /\ beenClean \subseteq Sources /\ routable \in BOOLEAN
  /\ \A t \in Askers : (ask[t].step = "idle") <=> (ask[t].agent = NoAgent)
  /\ committed \subseteq 1..onboardings

(* "All-or-nothing": the fleet that was committed last is in the table,    *)
(* every agent of it as it was built from one set of answers, whatever     *)
(* other onboardings did halfway.                                          *)
FleetIsWhole ==
  \A i \in DOMAIN last : last[i].id \in DOMAIN specs /\ specs[last[i].id].spec = last[i]

(* Three to six agents, no two alike, of one business; and whoever watches *)
(* a source, in the table or answering a question, does so because its     *)
(* chunks had landed.                                                      *)
LiveAgentsAreVetted ==
  /\ last # <<>> => Len(last) \in 3..6 /\ Unique(last)
  /\ \A s \in {specs[id].spec : id \in DOMAIN specs}
              \cup {ask[t].agent : t \in {u \in Askers : ask[u].step # "idle"}} :
       \A source \in DOMAIN Watcher : Watcher[source] = s.id => source \in beenClean

(* The page says "fleet live in M:SS" of one onboarding, which committed   *)
(* its fleet, unless two overlapped.                                       *)
StopwatchMeasuresOneOnboarding ==
  ~overlap /\ Shown("fleet_instantiated") =>
    LET end == events[Latest("fleet_instantiated")].by
    IN end = events[Latest("onboard_started")].by /\ end \in committed

=============================================================================
