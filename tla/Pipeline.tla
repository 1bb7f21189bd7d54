------------------------------ MODULE Pipeline ------------------------------
(***************************************************************************)
(* An Ask in full mode: the profile store (models_config, models_state),   *)
(* the staged run (pipeline.run_pipeline, validator.validate) and the      *)
(* three tables it leaves behind (receipts, costs, sessions), which the    *)
(* Session Browser lists and can forget (episodic).                        *)
(*                                                                         *)
(* A run is one request thread.  Its profile is read from disk twice, its  *)
(* model calls take minutes, and its rows are committed one by one, so a   *)
(* profile can be saved, a model can go away and the process can die       *)
(* between any two steps.  Texts are abstracted to who wrote them and how  *)
(* many sentences they have; what a model answers, and whether it answers, *)
(* is a free choice.                                                       *)
(***************************************************************************)
EXTENDS Integers, FiniteSets

CONSTANTS
  Runs,         \* run ids
  Models,       \* model ids
  Family,       \* llm_client.family_of
  LocalModels,  \* provider_of(model) = "ollama"
  Fallback,     \* validator.LOCAL_VALIDATOR_FALLBACK
  Names,        \* profile names
  Default,      \* models_state.DEFAULT
  Builtin,      \* models_config.DEFAULT_PROFILES
  Menu,         \* bound: the profiles somebody may save
  MaxClaims,    \* bound: sentences in a draft
  MaxSaves,     \* bound: writes to the profile store
  MaxFaults,    \* bound: how often the process dies
  NoFile, Torn, \* a file that is missing, or truncated and not yet written
  None

Profile == [executor : Models, validator : Models, egress : {"any", "local_only"}]

FamilyRule(p) == Family[p.executor] # Family[p.validator]

ASSUME FallbackAssumption == Fallback \in Models /\ LocalModels \subseteq Models
ASSUME ProfileAssumption ==
  /\ Default \in Names
  /\ Menu \subseteq Profile
  /\ Builtin \in [Names -> Profile]
  /\ \A name \in Names : FamilyRule(Builtin[name])
ASSUME BoundAssumption == {MaxClaims, MaxSaves, MaxFaults} \subseteq Nat
ASSUME AbsenceAssumption ==
  /\ {NoFile, Torn} \cap (Profile \cup Names) = {}
  /\ None \notin Profile \cup Models \cup Nat

VARIABLES
  files,     \* models/<name>.json
  active,    \* models/active.json
  saver,     \* the write in progress on one of these files
  run,       \* the local variables of each run
  judged,    \* the verdicts each run has had, for the properties
  calls,     \* the prompts that left for a model, for the properties
  receipts,  \* receipts rows per run
  costs,     \* costs row per run
  sessions,  \* the runs that have a sessions row
  forget,    \* where delete_session is, per run
  saves, faults

store  == <<files, active, saver, saves>>
tables == <<receipts, costs, sessions>>
vars   == <<store, run, judged, calls, tables, forget, faults>>

Texts == {"extract", "draft1", "draft2"}

Kinds == {"synthesized", "validator-degraded", "unvalidated-offline",
          "executor-offline", "extractive", "egress-blocked", "empty"}

Working == {"pair", "retrieve", "egress", "draft", "judge", "redraft", "rejudge",
            "record", "session"}

Stages == Working \cup {"new", "done", "failed", "dead"}

Claims == 1 .. MaxClaims

(* What a verdict decides is in grounded: the sentences of the text that   *)
(* were found grounded.  The extractive answer counts as one sentence.     *)
Run == [stage : Stages, name : Names, profile : Profile \cup {None},
        source : {"none", "own", "connector"}, writes : BOOLEAN,
        drafts : 0 .. 2, text : Texts, size : 0 .. MaxClaims + 1,
        grounded : SUBSET (Claims \cup {1}), kind : Kinds \cup {None},
        badge : {"PASS", "FAIL", "UNVALIDATED", "no evidence"}]

Verdict == [text : Texts, by : Models, grounded : SUBSET Claims]

Call == [run : Runs, role : {"writer", "checker"}, model : Models,
         connector : BOOLEAN, egress : {"any", "local_only"}]

ReceiptRow == [text : Texts, sentence : Claims \cup {1}, pass : BOOLEAN]

TypeOK ==
  /\ files \in [Names -> Profile \cup {NoFile, Torn}]
  /\ active \in Names \cup {NoFile, Torn}
  /\ saver \in [file : {"idle"}] \cup [file : {"active"}, name : Names]
                 \cup [file : {"profile"}, name : Names, profile : Profile]
  /\ run \in [Runs -> Run]
  /\ judged \in [Runs -> SUBSET Verdict]
  /\ calls \subseteq Call
  /\ receipts \in [Runs -> SUBSET ReceiptRow]
  /\ costs \in [Runs -> (0 .. 2) \cup {None}]
  /\ sessions \subseteq Runs
  /\ forget \in [Runs -> {"no", "receipts", "session", "cut", "done"}]
  /\ saves \in 0 .. MaxSaves
  /\ faults \in 0 .. MaxFaults

NewRun == [stage |-> "new", name |-> Default, profile |-> None, source |-> "none",
           writes |-> TRUE, drafts |-> 0, text |-> "extract", size |-> 0,
           grounded |-> {}, kind |-> None, badge |-> "no evidence"]

Init ==
  /\ files = [name \in Names |-> NoFile]
  /\ active = NoFile
  /\ saver = [file |-> "idle"]
  /\ run = [r \in Runs |-> NewRun]
  /\ judged = [r \in Runs |-> {}]
  /\ calls = {}
  /\ receipts = [r \in Runs |-> {}]
  /\ costs = [r \in Runs |-> None]
  /\ sessions = {}
  /\ forget = [r \in Runs |-> "no"]
  /\ saves = 0
  /\ faults = 0

-----------------------------------------------------------------------------
(* The profile store.  write_text truncates the file and then writes it.   *)

(* load_profile: the saved file, or the built-in of that name; Torn where  *)
(* the JSON parser would raise.                                            *)
load_profile(name) == IF files[name] = NoFile THEN Builtin[name] ELSE files[name]

(* save_profile checks the family rule before it touches the disk.         *)
save_profile(name, p) ==
  /\ saver.file = "idle" /\ saves < MaxSaves
  /\ FamilyRule(p)
  /\ files' = [files EXCEPT ![name] = Torn]
  /\ saver' = [file |-> "profile", name |-> name, profile |-> p]
  /\ saves' = saves + 1
  /\ UNCHANGED <<active, run, judged, calls, tables, forget, faults>>

(* set_active loads the profile first.                                     *)
set_active(name) ==
  /\ saver.file = "idle" /\ saves < MaxSaves
  /\ load_profile(name) # Torn
  /\ active' = Torn
  /\ saver' = [file |-> "active", name |-> name]
  /\ saves' = saves + 1
  /\ UNCHANGED <<files, run, judged, calls, tables, forget, faults>>

WriteText ==
  /\ \/ /\ saver.file = "profile"
        /\ files' = [files EXCEPT ![saver.name] = saver.profile]
        /\ UNCHANGED active
     \/ /\ saver.file = "active"
        /\ active' = saver.name
        /\ UNCHANGED files
  /\ saver' = [file |-> "idle"]
  /\ UNCHANGED <<saves, run, judged, calls, tables, forget, faults>>

(* models_state.active_profile: anything unreadable means the default.     *)
active_profile ==
  IF active \in Names /\ load_profile(active) # Torn THEN active ELSE Default

-----------------------------------------------------------------------------
(* The stages of run_pipeline.                                             *)

Move(r, fields) ==
  run' = [run EXCEPT ![r] = [f \in DOMAIN @ |->
                               IF f \in DOMAIN fields THEN fields[f] ELSE @[f]]]

(* The deterministic lane: a verbatim slice of a retrieved chunk, whose    *)
(* words are all in that chunk, so the word-overlap check passes.          *)
Extractive(r, kind, badge) ==
  Move(r, [stage |-> "record", text |-> "extract", size |-> 1, grounded |-> {1},
           kind |-> kind, badge |-> badge])

(* An exception leaves run_pipeline: the route answers 500.                *)
Raise(r) == Move(r, [stage |-> "failed"])

Prompt(r, role, model) ==
  [run |-> r, role |-> role, model |-> model,
   connector |-> run[r].source = "connector", egress |-> run[r].profile.egress]

(* The route: the active profile's name; synthesize is the agent's config. *)
Ask(r, writes) ==
  /\ run[r].stage = "new"
  /\ Move(r, [stage |-> "pair", name |-> active_profile, writes |-> writes])
  /\ UNCHANGED <<store, judged, calls, tables, forget, faults>>

(* get_pair: the first load, which settles the two models.                 *)
LoadPair(r) ==
  /\ run[r].stage = "pair"
  /\ IF load_profile(run[r].name) = Torn
     THEN Raise(r)
     ELSE Move(r, [stage |-> "retrieve", profile |-> load_profile(run[r].name)])
  /\ UNCHANGED <<store, judged, calls, tables, forget, faults>>

(* ask.retrieve; without a hit the run is logged and answers nothing.      *)
Retrieve(r, source) ==
  /\ run[r].stage = "retrieve"
  /\ Move(r, IF source = "none" THEN [stage |-> "session", kind |-> "empty"]
             ELSE [stage |-> "egress", source |-> source])
  /\ UNCHANGED <<store, judged, calls, tables, forget, faults>>

EgressAllows(egress, model, source) ==
  source = "connector" /\ egress = "local_only" => model \in LocalModels

(* A profile that is being written is waited for.                          *)
CheckEgress_bug(r) ==
  /\ run[r].stage = "egress"
  /\ load_profile(run[r].name) # Torn
  /\ IF ~EgressAllows(load_profile(run[r].name).egress, run[r].profile.executor, run[r].source)
     THEN Extractive(r, "egress-blocked", "PASS")
     ELSE Move(r, [stage |-> "draft"])
  /\ UNCHANGED <<store, judged, calls, tables, forget, faults>>

(* The second load decides the egress switch for the model of the first.   *)
CheckEgress(r) ==
  /\ run[r].stage = "egress"
  /\ LET now == load_profile(run[r].name)
         me  == run[r]
     IN IF now = Torn THEN Raise(r)
        ELSE IF ~EgressAllows(now.egress, me.profile.executor, me.source)
        THEN Extractive(r, "egress-blocked", "PASS")
        ELSE IF ~me.writes THEN Extractive(r, "extractive", "PASS")
        ELSE Move(r, [stage |-> "draft",
                      profile |-> [me.profile EXCEPT !.egress = now.egress]])
  /\ UNCHANGED <<store, judged, calls, tables, forget, faults>>

(* _synthesize: the executor answers with a draft of n sentences.          *)
Synthesize(r, n) ==
  /\ \/ run[r].stage = "draft" /\ Move(r, [stage |-> "judge", text |-> "draft1",
                                           size |-> n, drafts |-> run[r].drafts + 1])
     \/ run[r].stage = "redraft" /\ Move(r, [stage |-> "rejudge", text |-> "draft2",
                                             size |-> n, drafts |-> run[r].drafts + 1])
  /\ calls' = calls \cup {Prompt(r, "writer", run[r].profile.executor)}
  /\ UNCHANGED <<store, judged, tables, forget, faults>>

(* The first call is guarded by a try that catches an LLMError and nothing *)
(* else (an answer that is no JSON raises another), the retry is not.  The *)
(* prompt may have left before the lane failed.                            *)
ExecutorFails(r) ==
  /\ \/ run[r].stage = "draft" /\ Extractive(r, "executor-offline", "UNVALIDATED")
     \/ run[r].stage \in {"draft", "redraft"} /\ Raise(r)
  /\ calls' \in {calls, calls \cup {Prompt(r, "writer", run[r].profile.executor)}}
  /\ UNCHANGED <<store, judged, tables, forget, faults>>

(* The validator of the pair, or the local one if that is of another       *)
(* family than the executor.                                               *)
Checkers(r) ==
  {run[r].profile.validator}
    \cup {m \in {Fallback} : Family[m] # Family[run[r].profile.executor]}

Ship(r, grounded) ==
  Move(r, [stage |-> "record", grounded |-> grounded, kind |-> "synthesized",
           badge |-> "PASS"])

(* The retry ships whatever the validator says of it.                      *)
Validate_bug(r, by, grounded) ==
  LET me == run[r]
  IN /\ me.stage \in {"judge", "rejudge"}
     /\ me.size > 0 /\ by \in Checkers(r) /\ grounded \subseteq 1 .. me.size
     /\ judged' = [judged EXCEPT ![r] = @ \cup
                     {[text |-> me.text, by |-> by, grounded |-> grounded]}]
     /\ calls' = calls \cup {Prompt(r, "checker", by)}
     /\ IF me.stage = "rejudge" \/ grounded = 1 .. me.size THEN Ship(r, grounded)
        ELSE Move(r, [stage |-> "redraft"])
     /\ UNCHANGED <<store, tables, forget, faults>>

(* validate() had a verdict: the sentences it found grounded, none at all  *)
(* if the call failed or its answer could not be parsed.                   *)
Validate(r, by, grounded) ==
  LET me == run[r]
      passed == grounded = 1 .. me.size
  IN /\ me.stage \in {"judge", "rejudge"}
     /\ me.size > 0 /\ by \in Checkers(r) /\ grounded \subseteq 1 .. me.size
     /\ judged' = [judged EXCEPT ![r] = @ \cup
                     {[text |-> me.text, by |-> by, grounded |-> grounded]}]
     /\ calls' = calls \cup {Prompt(r, "checker", by)}
     /\ IF passed THEN Ship(r, grounded)
        ELSE IF me.stage = "judge" THEN Move(r, [stage |-> "redraft"])
        ELSE Extractive(r, "validator-degraded", "PASS")
     /\ UNCHANGED <<store, tables, forget, faults>>

(* A draft without a sentence passes unread.                               *)
ValidateNothing(r) ==
  /\ run[r].stage \in {"judge", "rejudge"}
  /\ run[r].size = 0
  /\ Ship(r, {})
  /\ UNCHANGED <<store, judged, calls, tables, forget, faults>>

(* No validator is reachable.  On the retry only status and passed are     *)
(* looked at, and the degraded answer is wrapped as validated.             *)
ValidatorOffline(r) ==
  /\ run[r].size > 0
  /\ \/ run[r].stage = "judge" /\ Extractive(r, "unvalidated-offline", "UNVALIDATED")
     \/ run[r].stage = "rejudge" /\ Extractive(r, "validator-degraded", "PASS")
  /\ UNCHANGED <<store, judged, calls, tables, forget, faults>>

-----------------------------------------------------------------------------
(* The tail of run_pipeline: one receipt per sentence of the final text,   *)
(* then the cost, then the session.  (The co-retrieval edges in between    *)
(* are the graph's; their failure is swallowed.)                           *)
WriteReceipt(r) ==
  LET me == run[r]
      next == Cardinality(receipts[r]) + 1
  IN /\ me.stage = "record"
     /\ next <= me.size
     /\ receipts' = [receipts EXCEPT ![r] = @ \cup
                       {[text |-> me.text, sentence |-> next, pass |-> next \in me.grounded]}]
     /\ UNCHANGED <<store, run, judged, calls, costs, sessions, forget, faults>>

(* The cost, and the session after it, do not wait for the receipts.       *)
WriteCost_bug(r) ==
  /\ run[r].stage = "record"
  /\ costs' = [costs EXCEPT ![r] = run[r].drafts]
  /\ Move(r, [stage |-> "session"])
  /\ UNCHANGED <<store, judged, calls, receipts, sessions, forget, faults>>

WriteCost(r) ==
  /\ run[r].stage = "record"
  /\ Cardinality(receipts[r]) = run[r].size
  /\ costs' = [costs EXCEPT ![r] = run[r].drafts]
  /\ Move(r, [stage |-> "session"])
  /\ UNCHANGED <<store, judged, calls, receipts, sessions, forget, faults>>

record_run(r) ==
  /\ run[r].stage = "session"
  /\ sessions' = sessions \cup {r}
  /\ Move(r, [stage |-> "done"])
  /\ UNCHANGED <<store, judged, calls, receipts, costs, forget, faults>>

(* A run can be forgotten before it is listed.                             *)
ForgetCheck_bug(r) ==
  /\ forget[r] \in {"no", "cut"}
  /\ run[r].stage # "new"
  /\ forget' = [forget EXCEPT ![r] = "receipts"]
  /\ UNCHANGED <<store, run, judged, calls, tables, faults>>

(* delete_session: the check, and two DELETEs that commit one by one.      *)
ForgetCheck(r) ==
  /\ forget[r] \in {"no", "cut"}
  /\ r \in sessions
  /\ forget' = [forget EXCEPT ![r] = "receipts"]
  /\ UNCHANGED <<store, run, judged, calls, tables, faults>>

ForgetReceipts(r) ==
  /\ forget[r] = "receipts"
  /\ receipts' = [receipts EXCEPT ![r] = {}]
  /\ forget' = [forget EXCEPT ![r] = "session"]
  /\ UNCHANGED <<store, run, judged, calls, costs, sessions, faults>>

ForgetSession(r) ==
  /\ forget[r] = "session"
  /\ sessions' = sessions \ {r}
  /\ forget' = [forget EXCEPT ![r] = "done"]
  /\ UNCHANGED <<store, run, judged, calls, receipts, costs, faults>>

(* The process dies; the disk keeps what the last statement left.          *)
Crash ==
  /\ faults < MaxFaults
  /\ faults' = faults + 1
  /\ run' = [r \in Runs |-> IF run[r].stage \in Working
                            THEN [run[r] EXCEPT !.stage = "dead"] ELSE run[r]]
  /\ forget' = [r \in Runs |-> IF forget[r] \in {"receipts", "session"}
                               THEN "cut" ELSE forget[r]]
  /\ saver' = [file |-> "idle"]
  /\ UNCHANGED <<files, active, saves, judged, calls, tables>>

-----------------------------------------------------------------------------
run_pipeline(r) ==
  \/ LoadPair(r)
  \/ \E source \in {"none", "own", "connector"} : Retrieve(r, source)
  \/ CheckEgress(r)
  \/ \E n \in 0 .. MaxClaims : Synthesize(r, n)
  \/ ExecutorFails(r)
  \/ \E by \in Models, grounded \in SUBSET Claims : Validate(r, by, grounded)
  \/ ValidateNothing(r)
  \/ ValidatorOffline(r)
  \/ WriteReceipt(r)
  \/ WriteCost(r)
  \/ record_run(r)

delete_session(r) == ForgetReceipts(r) \/ ForgetSession(r)

Next ==
  \/ \E name \in Names, p \in Menu : save_profile(name, p)
  \/ \E name \in Names : set_active(name)
  \/ WriteText
  \/ \E r \in Runs, writes \in BOOLEAN : Ask(r, writes)
  \/ \E r \in Runs : run_pipeline(r)
  \/ \E r \in Runs : ForgetCheck(r)
  \/ \E r \in Runs : delete_session(r)
  \/ Crash

Spec == Init /\ [][Next]_vars

(* A request thread runs on: a model call ends within its timeout, and     *)
(* the statements after it return.                                         *)
Fairness == \A r \in Runs : WF_vars(run_pipeline(r)) /\ WF_vars(delete_session(r))

FairSpec == Spec /\ Fairness

-----------------------------------------------------------------------------
Returned(r) == run[r].stage = "done"

(* Executor Contract A: whatever is saved, switched off or retried on the  *)
(* way, a text that is not verbatim evidence is shipped only if one model  *)
(* of another family than its writer found all its sentences grounded, in  *)
(* that very text and not in the draft before it.                          *)
OnlyJudgedTextShips ==
  \A r \in Runs :
    Returned(r) /\ run[r].text # "extract" /\ run[r].size > 0 =>
      \E j \in judged[r] :
        /\ j.text = run[r].text
        /\ j.grounded = 1 .. run[r].size
        /\ Family[j.by] # Family[run[r].profile.executor]

(* A session that the browser lists can prove its answer: it has one       *)
(* receipt for each sentence of the text that was shipped, and a cost row  *)
(* that counts every draft a validator was asked about, the rejected one   *)
(* too.  Only a deletion that has begun may take that away.                *)
ListedRunIsProvable ==
  \A r \in sessions :
    forget[r] = "no" /\ run[r].kind # "empty" =>
      /\ {row.sentence : row \in receipts[r]} = 1 .. run[r].size
      /\ \A row \in receipts[r] :
           row.text = run[r].text /\ row.pass = (row.sentence \in run[r].grounded)
      /\ costs[r] # None
      /\ Cardinality({j.text : j \in judged[r]}) <= costs[r]

(* A session that delete_session reported as gone stays gone: no step of   *)
(* the run that made it brings back a receipt or the row.                  *)
ForgottenForGood ==
  \A r \in Runs : forget[r] = "done" => receipts[r] = {} /\ r \notin sessions

(* Each Ask ends: with an answer, an error, or the end of the process.     *)
EveryAskEnds ==
  \A r \in Runs : (run[r].stage = "pair") ~> (run[r].stage \in {"done", "failed", "dead"})


(* Under a local_only profile, evidence that came from a connector goes to *)
(* local models only.                                                      *)
LocalOnlyHolds ==
  \A call \in calls :
    call.connector /\ call.egress = "local_only" => call.model \in LocalModels
=============================================================================
