--------------------------- MODULE PipelineProofs ---------------------------
(***************************************************************************)
(* Theorems about Pipeline, for any number of runs, any models, families   *)
(* and profiles, and drafts of any length, with saves, deletions and       *)
(* deaths of the process at any point.                                     *)
(***************************************************************************)
EXTENDS Pipeline, FiniteSetTheorems, FunctionTheorems, TLAPS

Fields == {"stage", "name", "profile", "source", "writes", "drafts", "text", "size",
           "grounded", "kind", "badge"}

(* The stages before anything was written, and those after the answer was  *)
(* settled.                                                                *)
Early   == {"new", "pair", "retrieve", "egress", "draft"}
Settled == {"record", "session", "done"}

(* The stages in which nothing of the run is on record.                    *)
Unrecorded == Early \cup {"judge", "redraft", "rejudge"}

(* The type of a run, field by field.                                      *)
IsRun(me) ==
  /\ me.stage \in Stages /\ me.name \in Names /\ me.profile \in Profile \cup {None}
  /\ me.source \in {"none", "own", "connector"} /\ me.writes \in BOOLEAN
  /\ me.drafts \in 0 .. 2 /\ me.text \in Texts
  /\ me.size \in 0 .. MaxClaims + 1 /\ me.grounded \in SUBSET (Claims \cup {1})
  /\ me.kind \in Kinds \cup {None}
  /\ me.badge \in {"PASS", "FAIL", "UNVALIDATED", "no evidence"}

(* Every profile that can be loaded pairs two families.                    *)
StoreInv ==
  /\ \A name \in Names : files[name] \in Profile => FamilyRule(files[name])
  /\ saver.file = "profile" => FamilyRule(saver.profile)

(* The models of a run are settled by its first load and are of two        *)
(* families; the second load only changes the egress switch.               *)
PairInv(r) ==
  run[r].stage \in (Working \ {"pair"}) \cup {"done"} =>
    run[r].profile \in Profile /\ FamilyRule(run[r].profile)

(* Which draft a run is at, and how many there were.                       *)
DraftInv(r) ==
  LET me == run[r]
  IN /\ me.size \in (0 .. MaxClaims) \cup {1}
     /\ me.stage \in Early => me.text = "extract" /\ me.drafts = 0
     /\ me.stage = "judge" => me.text = "draft1" /\ me.drafts = 1
     /\ me.stage = "redraft" => me.drafts = 1
     /\ me.stage = "rejudge" => me.text = "draft2" /\ me.drafts = 2

(* A validator was asked about drafts that were written, and no others.    *)
Asked(verdicts, drafts) ==
  \A j \in verdicts :
    \/ j.text = "draft1" /\ drafts >= 1
    \/ j.text = "draft2" /\ drafts = 2

AskedInv(r) == Asked(judged[r], run[r].drafts)

(* One of these verdicts found all of the text grounded, and it is that of *)
(* another family than the writer's.                                       *)
Judged(verdicts, me) ==
  \E j \in verdicts :
    /\ j.text = me.text
    /\ j.grounded = 1 .. me.size
    /\ Family[j.by] # Family[me.profile.executor]

JudgedInv(r) ==
  run[r].stage \in Settled /\ run[r].text # "extract" /\ run[r].size > 0 =>
    Judged(judged[r], run[r])

(* The receipts of the first n sentences of the text that is shipped.      *)
RowOf(r, i) ==
  [text |-> run[r].text, sentence |-> i, pass |-> i \in run[r].grounded]
RowsUpTo(r, n) == {RowOf(r, i) : i \in 1 .. n}

ReceiptInv(r) ==
  /\ run[r].stage \in Unrecorded => receipts[r] = {}
  /\ run[r].stage = "record" => \E n \in 0 .. run[r].size : receipts[r] = RowsUpTo(r, n)
  /\ run[r].stage \in {"session", "done"} /\ run[r].kind # "empty" /\ forget[r] = "no" =>
       receipts[r] = RowsUpTo(r, run[r].size) /\ costs[r] = run[r].drafts

(* Only a run that is over is listed, and only a listed one is forgotten.  *)
ForgetInv(r) ==
  /\ r \in sessions \/ forget[r] # "no" => run[r].stage = "done"
  /\ forget[r] \in {"session", "done"} => receipts[r] = {}
  /\ forget[r] = "done" => r \notin sessions

RunInv(r) ==
  PairInv(r) /\ DraftInv(r) /\ AskedInv(r) /\ JudgedInv(r) /\ ReceiptInv(r) /\ ForgetInv(r)

IInv == TypeOK /\ StoreInv /\ \A r \in Runs : RunInv(r)

-----------------------------------------------------------------------------
(* What Move does to the fields of a run, and to no other run.             *)
LEMMA MoveFacts ==
  ASSUME TypeOK, NEW r \in Runs, NEW fields, Move(r, fields)
  PROVE  /\ \A f \in Fields : run'[r][f] = IF f \in DOMAIN fields THEN fields[f] ELSE run[r][f]
         /\ \A q \in Runs : q # r => run'[q] = run[q]
         /\ DOMAIN run' = Runs /\ run' = [q \in Runs |-> run'[q]]
         /\ DOMAIN run'[r] = Fields /\ run'[r] = [f \in Fields |-> run'[r][f]]
<1>1. run \in [Runs -> Run]
  BY DEF TypeOK
<1>2. DOMAIN run[r] = Fields
  BY <1>1 DEF Run, Fields
<1> DEFINE new == [f \in DOMAIN run[r] |-> IF f \in DOMAIN fields THEN fields[f] ELSE run[r][f]]
<1>3. run' = [run EXCEPT ![r] = new]
  BY DEF Move
<1>4. run'[r] = new /\ \A q \in Runs : q # r => run'[q] = run[q]
  BY <1>1, <1>3
<1>5. DOMAIN run' = Runs /\ run' = [q \in Runs |-> run'[q]]
  BY <1>1, <1>3
<1> QED
  BY <1>2, <1>4, <1>5

(* A run that is moved stays a run, if its fields stay what they are.      *)
LEMMA MoveType ==
  ASSUME TypeOK, NEW r \in Runs, NEW fields, Move(r, fields), IsRun(run'[r])
  PROVE  run' \in [Runs -> Run]
<1>1. run'[r] = [f \in Fields |-> run'[r][f]] /\ \A q \in Runs : q # r => run'[q] = run[q]
  BY MoveFacts
<1>2. run'[r] \in Run
  BY <1>1 DEF Run, Fields, IsRun
<1>3. run' = [q \in Runs |-> run'[q]]
  BY MoveFacts
<1> QED
  BY <1>1, <1>2, <1>3 DEF TypeOK

LEMMA InitInv == Init => IInv
<1> SUFFICES ASSUME Init PROVE IInv
  OBVIOUS
<1>1. NewRun \in Run
  BY ProfileAssumption, BoundAssumption DEF NewRun, Run, Stages, Texts, Claims
<1>2. TypeOK
  BY <1>1, BoundAssumption DEF Init, TypeOK
<1>3. StoreInv
  BY AbsenceAssumption DEF Init, StoreInv
<1>4. ASSUME NEW r \in Runs PROVE RunInv(r)
  <2>1. /\ run[r] = NewRun /\ judged[r] = {} /\ receipts[r] = {} /\ forget[r] = "no"
        /\ r \notin sessions
    BY DEF Init
  <2>2. run[r].stage = "new" /\ run[r].size = 0 /\ run[r].text = "extract" /\ run[r].drafts = 0
    <3>1. /\ NewRun.stage = "new" /\ NewRun.size = 0
          /\ NewRun.text = "extract" /\ NewRun.drafts = 0
      BY DEF NewRun
    <3> QED
      BY <2>1, <3>1
  <2>3. PairInv(r) /\ DraftInv(r)
    BY <2>2, BoundAssumption DEF PairInv, DraftInv, Working
  <2>4. AskedInv(r) /\ JudgedInv(r) /\ ReceiptInv(r) /\ ForgetInv(r)
    BY <2>1, <2>2 DEF AskedInv, Asked, JudgedInv, ReceiptInv, ForgetInv, Settled
  <2> QED
    BY <2>3, <2>4 DEF RunInv
<1> QED
  BY <1>2, <1>3, <1>4 DEF IInv

-----------------------------------------------------------------------------
(* A run that no step touches stays as it was.                             *)
LEMMA RunSame ==
  ASSUME NEW r \in Runs, RunInv(r), run'[r] = run[r], judged'[r] = judged[r],
         receipts'[r] = receipts[r], costs'[r] = costs[r], forget'[r] = forget[r],
         r \in sessions' <=> r \in sessions
  PROVE  RunInv(r)'
<1>1. PairInv(r)' /\ DraftInv(r)' /\ AskedInv(r)'
  BY DEF RunInv, PairInv, DraftInv, AskedInv
<1>2. JudgedInv(r)'
  BY DEF RunInv, JudgedInv, Judged
<1>3. ReceiptInv(r)'
  <2>1. \A n : RowsUpTo(r, n)' = RowsUpTo(r, n)
    BY DEF RowsUpTo, RowOf
  <2> QED
    BY <2>1 DEF RunInv, ReceiptInv
<1>4. ForgetInv(r)'
  BY DEF RunInv, ForgetInv
<1> QED
  BY <1>1, <1>2, <1>3, <1>4 DEF RunInv

(* A step of one run leaves the others alone.                              *)
LEMMA OneRun ==
  ASSUME IInv, NEW r \in Runs, UNCHANGED <<files, saver>>, TypeOK', RunInv(r)',
         \A q \in Runs : q # r =>
           /\ run'[q] = run[q] /\ judged'[q] = judged[q] /\ receipts'[q] = receipts[q]
           /\ costs'[q] = costs[q] /\ forget'[q] = forget[q]
           /\ (q \in sessions' <=> q \in sessions)
  PROVE  IInv'
<1>1. StoreInv'
  BY DEF IInv, StoreInv
<1>2. ASSUME NEW q \in Runs PROVE RunInv(q)'
  BY RunSame DEF IInv
<1> QED
  BY <1>1, <1>2 DEF IInv

LEMMA LoadFacts ==
  ASSUME TypeOK, StoreInv, NEW name \in Names
  PROVE  /\ load_profile(name) \in Profile \cup {Torn}
         /\ load_profile(name) # Torn =>
              load_profile(name) \in Profile /\ FamilyRule(load_profile(name))
BY ProfileAssumption DEF TypeOK, StoreInv, load_profile

(* A step of the profile store.                                            *)
LEMMA StoreStep ==
  ASSUME IInv,
         \/ \E name \in Names, p \in Menu : save_profile(name, p)
         \/ \E name \in Names : set_active(name)
         \/ WriteText
  PROVE  IInv'
<1>1. UNCHANGED <<run, judged, calls, tables, forget, faults>>
  BY DEF save_profile, set_active, WriteText
<1>2. \A r \in Runs : RunInv(r)'
  BY <1>1, RunSame DEF IInv, tables
<1>3. TypeOK' /\ StoreInv'
  <2>1. CASE \E name \in Names, p \in Menu : save_profile(name, p)
    <3>1. PICK name \in Names, p \in Menu : save_profile(name, p)
      BY <2>1
    <3>2. p \in Profile /\ FamilyRule(p)
      BY <3>1, ProfileAssumption DEF save_profile
    <3>3. saver' = [file |-> "profile", name |-> name, profile |-> p]
      BY <3>1 DEF save_profile
    <3>4. TypeOK'
      BY <1>1, <3>1, <3>2, <3>3, BoundAssumption DEF IInv, TypeOK, save_profile, tables
    <3>5. Torn \notin Profile
      BY AbsenceAssumption
    <3>6. StoreInv'
      BY <3>1, <3>2, <3>3, <3>5 DEF IInv, StoreInv, TypeOK, save_profile
    <3> QED
      BY <3>4, <3>6
  <2>2. CASE \E name \in Names : set_active(name)
    <3>1. PICK name \in Names : set_active(name)
      BY <2>2
    <3>2. saver' = [file |-> "active", name |-> name]
      BY <3>1 DEF set_active
    <3>3. TypeOK'
      BY <1>1, <3>1, <3>2, BoundAssumption DEF IInv, TypeOK, set_active, tables
    <3>4. StoreInv'
      BY <3>1, <3>2 DEF IInv, StoreInv, set_active
    <3> QED
      BY <3>3, <3>4
  <2>3. CASE WriteText
    <3>1. CASE saver.file = "profile"
      <4>1. saver.name \in Names /\ saver.profile \in Profile
        BY <3>1 DEF IInv, TypeOK
      <4>2. files' = [files EXCEPT ![saver.name] = saver.profile] /\ UNCHANGED active
        BY <2>3, <3>1 DEF WriteText
      <4>3. TypeOK'
        BY <1>1, <2>3, <4>1, <4>2 DEF IInv, TypeOK, WriteText, tables
      <4>4. StoreInv'
        BY <2>3, <3>1, <4>1, <4>2 DEF IInv, StoreInv, TypeOK, WriteText
      <4> QED
        BY <4>3, <4>4
    <3>2. CASE saver.file = "active"
      <4>1. saver.name \in Names
        BY <3>2 DEF IInv, TypeOK
      <4>2. active' = saver.name /\ UNCHANGED files
        BY <2>3, <3>2 DEF WriteText
      <4>3. TypeOK'
        BY <1>1, <2>3, <4>1, <4>2 DEF IInv, TypeOK, WriteText, tables
      <4>4. StoreInv'
        BY <2>3, <4>2 DEF IInv, StoreInv, WriteText
      <4> QED
        BY <4>3, <4>4
    <3> QED
      BY <2>3, <3>1, <3>2 DEF WriteText
  <2> QED
    BY <2>1, <2>2, <2>3
<1> QED
  BY <1>2, <1>3 DEF IInv

-----------------------------------------------------------------------------
(* A run at work is not listed and has not been forgotten.                 *)
LEMMA AtWork ==
  ASSUME IInv, NEW r \in Runs, run[r].stage # "done"
  PROVE  r \notin sessions /\ forget[r] = "no"
BY DEF IInv, RunInv, ForgetInv

LEMMA RunShape ==
  ASSUME IInv, NEW r \in Runs
  PROVE  IsRun(run[r])
<1>1. run[r] \in Run
  BY DEF IInv, TypeOK
<1> QED
  BY <1>1 DEF Run, IsRun

(* One run has moved, and nothing but the prompts that left has changed.   *)
LEMMA MoveStep ==
  ASSUME IInv, NEW r \in Runs, run' \in [Runs -> Run],
         \A q \in Runs : q # r => run'[q] = run[q],
         UNCHANGED <<store, judged, tables, forget, faults>>,
         calls' \subseteq Call, RunInv(r)'
  PROVE  IInv'
<1>1. TypeOK'
  BY DEF IInv, TypeOK, store, tables
<1> QED
  BY <1>1, OneRun DEF store, tables

(* An exception ends a run that is at work.                                *)
LEMMA Raised ==
  ASSUME IInv, NEW r \in Runs, run[r].stage \in Working, Raise(r),
         UNCHANGED <<judged, tables, forget>>
  PROVE  RunInv(r)' /\ run' \in [Runs -> Run] /\ \A q \in Runs : q # r => run'[q] = run[q]
<1> DEFINE fields == [stage |-> "failed"]
<1>1. TypeOK /\ RunInv(r) /\ Move(r, fields)
  BY DEF IInv, Raise
<1>2. /\ run'[r].stage = "failed" /\ run'[r].name = run[r].name
      /\ run'[r].profile = run[r].profile /\ run'[r].source = run[r].source
      /\ run'[r].writes = run[r].writes /\ run'[r].drafts = run[r].drafts
      /\ run'[r].text = run[r].text /\ run'[r].size = run[r].size
      /\ run'[r].grounded = run[r].grounded /\ run'[r].kind = run[r].kind
      /\ run'[r].badge = run[r].badge
  <2> HIDE DEF fields
  <2>1. \A f \in Fields :
          run'[r][f] = IF f \in DOMAIN fields THEN fields[f] ELSE run[r][f]
    BY <1>1, MoveFacts, Zenon
  <2>2. DOMAIN fields = {"stage"}
    BY DEF fields
  <2>3. /\ fields.stage = "failed"
    BY DEF fields
  <2> QED
    BY <2>1, <2>2, <2>3 DEF Fields
<1> HIDE DEF fields
<1>3. IsRun(run'[r])
  BY <1>2, RunShape DEF IsRun, Stages
<1>4. run' \in [Runs -> Run]
  BY <1>1, <1>3, MoveType
<1>5. run[r].stage # "done"
  BY DEF Working
<1>6. RunInv(r)'
  <2>1. PairInv(r)' /\ DraftInv(r)' /\ AskedInv(r)'
    BY <1>1, <1>2 DEF RunInv, PairInv, DraftInv, AskedInv, Working, Early
  <2>2. JudgedInv(r)' /\ ReceiptInv(r)'
    BY <1>2 DEF JudgedInv, ReceiptInv, Settled, Unrecorded, Early
  <2>3. ForgetInv(r)'
    BY <1>5, AtWork DEF ForgetInv, tables
  <2> QED
    BY <2>1, <2>2, <2>3 DEF RunInv
<1> QED
  BY <1>1, <1>4, <1>6, MoveFacts

(* The verbatim answer takes over: nothing is on record for the run yet.   *)
LEMMA Extracted ==
  ASSUME IInv, NEW r \in Runs,
         run[r].stage \in {"egress", "draft", "judge", "rejudge"},
         NEW kind \in Kinds, NEW badge \in {"PASS", "UNVALIDATED"}, Extractive(r, kind, badge),
         Asked(judged'[r], run[r].drafts),
         UNCHANGED <<tables, forget>>
  PROVE  RunInv(r)' /\ run' \in [Runs -> Run] /\ \A q \in Runs : q # r => run'[q] = run[q]
<1> DEFINE fields == [stage |-> "record", text |-> "extract", size |-> 1, grounded |-> {1},
                      kind |-> kind, badge |-> badge]
<1>1. TypeOK /\ RunInv(r) /\ Move(r, fields)
  BY DEF IInv, Extractive
<1>2. /\ run'[r].stage = "record" /\ run'[r].text = "extract" /\ run'[r].size = 1
      /\ run'[r].grounded = {1} /\ run'[r].kind = kind /\ run'[r].badge = badge
      /\ run'[r].name = run[r].name /\ run'[r].profile = run[r].profile
      /\ run'[r].source = run[r].source /\ run'[r].writes = run[r].writes
      /\ run'[r].drafts = run[r].drafts
  <2> HIDE DEF fields
  <2>1. \A f \in Fields :
          run'[r][f] = IF f \in DOMAIN fields THEN fields[f] ELSE run[r][f]
    BY <1>1, MoveFacts, Zenon
  <2>2. DOMAIN fields = {"stage", "text", "size", "grounded", "kind", "badge"}
    BY DEF fields
  <2>3. /\ fields.stage = "record" /\ fields.text = "extract" /\ fields.size = 1
        /\ fields.grounded = {1} /\ fields.kind = kind /\ fields.badge = badge
    BY DEF fields
  <2> QED
    BY <2>1, <2>2, <2>3 DEF Fields
<1> HIDE DEF fields
<1>3. IsRun(run'[r])
  <2>1. IsRun(run[r])
    BY RunShape
  <2>2. "record" \in Stages /\ "extract" \in Texts /\ 1 \in 0 .. MaxClaims + 1
    BY BoundAssumption DEF Stages, Working, Texts
  <2>3. {1} \in SUBSET (Claims \cup {1})
    OBVIOUS
  <2> QED
    BY <1>2, <2>1, <2>2, <2>3 DEF IsRun
<1>4. RunInv(r)'
  <2>1. PairInv(r)' /\ DraftInv(r)'
    BY <1>1, <1>2, BoundAssumption DEF RunInv, PairInv, DraftInv, Working, Early
  <2>2. AskedInv(r)' /\ JudgedInv(r)'
    BY <1>2 DEF AskedInv, JudgedInv
  <2>3. receipts'[r] = {}
    BY <1>1 DEF RunInv, ReceiptInv, Unrecorded, Early, tables
  <2>4. receipts'[r] = RowsUpTo(r, 0)'
    BY <2>3 DEF RowsUpTo
  <2>5. ReceiptInv(r)'
    BY <1>2, <2>4 DEF ReceiptInv, Unrecorded, Early
  <2>6. ForgetInv(r)'
    BY AtWork DEF ForgetInv, tables
  <2> QED
    BY <2>1, <2>2, <2>5, <2>6 DEF RunInv
<1> QED
  BY <1>1, <1>3, <1>4, MoveFacts, MoveType

(* A run that goes on, and has not settled its answer.                     *)
LEMMA GoesOn ==
  ASSUME IInv, NEW r \in Runs, run[r].stage \in Unrecorded, run'[r].stage \in Unrecorded,
         UNCHANGED <<tables, forget>>, PairInv(r)', DraftInv(r)', AskedInv(r)'
  PROVE  RunInv(r)'
<1>1. RunInv(r) /\ run[r].stage # "done"
  BY DEF IInv, Unrecorded, Early
<1>2. JudgedInv(r)'
  BY DEF JudgedInv, Settled, Unrecorded, Early
<1>3. ReceiptInv(r)'
  BY <1>1 DEF RunInv, ReceiptInv, Unrecorded, Early, tables
<1>4. ForgetInv(r)'
  BY <1>1, AtWork DEF ForgetInv, tables
<1> QED
  BY <1>2, <1>3, <1>4 DEF RunInv

LEMMA AskStep ==
  ASSUME IInv, NEW r \in Runs, NEW writes \in BOOLEAN, Ask(r, writes)
  PROVE  IInv'
<1> DEFINE fields == [stage |-> "pair", name |-> active_profile, writes |-> writes]
<1>1. TypeOK /\ RunInv(r) /\ Move(r, fields) /\ run[r].stage = "new"
  BY DEF IInv, Ask
<1>a. UNCHANGED <<store, judged, calls, tables, forget, faults>>
  BY DEF Ask
<1>2. /\ run'[r].stage = "pair" /\ run'[r].name = active_profile
      /\ run'[r].profile = run[r].profile /\ run'[r].source = run[r].source
      /\ run'[r].writes = writes /\ run'[r].drafts = run[r].drafts
      /\ run'[r].text = run[r].text /\ run'[r].size = run[r].size
      /\ run'[r].grounded = run[r].grounded /\ run'[r].kind = run[r].kind
      /\ run'[r].badge = run[r].badge
  <2> HIDE DEF fields
  <2>1. \A f \in Fields :
          run'[r][f] = IF f \in DOMAIN fields THEN fields[f] ELSE run[r][f]
    BY <1>1, MoveFacts, Zenon
  <2>2. DOMAIN fields = {"stage", "name", "writes"}
    BY DEF fields
  <2>3. /\ fields.stage = "pair"
        /\ fields.name = active_profile
        /\ fields.writes = writes
    BY DEF fields
  <2> QED
    BY <2>1, <2>2, <2>3 DEF Fields
<1> HIDE DEF fields
<1>3. active_profile \in Names
  BY ProfileAssumption DEF active_profile
<1>4. IsRun(run[r])
  BY RunShape
<1>5. IsRun(run'[r])
  BY <1>2, <1>3, <1>4 DEF IsRun, Stages, Working
<1>6. RunInv(r)'
  <2>1. PairInv(r)' /\ DraftInv(r)' /\ AskedInv(r)'
    BY <1>1, <1>2, <1>a DEF RunInv, PairInv, DraftInv, AskedInv, Early
  <2> QED
    BY <1>1, <1>2, <1>a, <2>1, GoesOn DEF Unrecorded, Early
<1>7. run' \in [Runs -> Run] /\ \A q \in Runs : q # r => run'[q] = run[q]
  BY <1>1, <1>5, MoveType, MoveFacts
<1> QED
  BY <1>a, <1>6, <1>7, MoveStep DEF IInv, TypeOK

LEMMA LoadPairStep ==
  ASSUME IInv, NEW r \in Runs, LoadPair(r)
  PROVE  IInv'
<1>1. /\ TypeOK /\ StoreInv /\ RunInv(r) /\ run[r].stage = "pair"
      /\ UNCHANGED <<store, judged, calls, tables, forget, faults>>
  BY DEF IInv, LoadPair
<1>2. IsRun(run[r])
  BY RunShape
<1> DEFINE loaded == load_profile(run[r].name)
<1>3. RunInv(r)' /\ run' \in [Runs -> Run] /\ \A q \in Runs : q # r => run'[q] = run[q]
  <2>1. CASE loaded = Torn
    BY <1>1, <2>1, Raised DEF LoadPair, Working
  <2>2. CASE loaded # Torn
    <3> DEFINE fields == [stage |-> "retrieve", profile |-> loaded]
    <3>1. Move(r, fields) /\ TypeOK
      BY <1>1, <2>2 DEF LoadPair
    <3>2. /\ run'[r].stage = "retrieve" /\ run'[r].name = run[r].name
          /\ run'[r].profile = loaded /\ run'[r].source = run[r].source
          /\ run'[r].writes = run[r].writes /\ run'[r].drafts = run[r].drafts
          /\ run'[r].text = run[r].text /\ run'[r].size = run[r].size
          /\ run'[r].grounded = run[r].grounded /\ run'[r].kind = run[r].kind
          /\ run'[r].badge = run[r].badge
      <4> HIDE DEF fields
      <4>1. \A f \in Fields :
              run'[r][f] = IF f \in DOMAIN fields THEN fields[f] ELSE run[r][f]
        BY <3>1, MoveFacts, Zenon
      <4>2. DOMAIN fields = {"stage", "profile"}
        BY DEF fields
      <4>3. /\ fields.stage = "retrieve"
            /\ fields.profile = loaded
        BY DEF fields
      <4> QED
        BY <4>1, <4>2, <4>3 DEF Fields
    <3> HIDE DEF fields
    <3>3. loaded \in Profile /\ FamilyRule(loaded)
      BY <1>1, <1>2, <2>2, LoadFacts DEF IsRun
    <3> HIDE DEF loaded
    <3>4. IsRun(run'[r])
      BY <1>2, <3>2, <3>3 DEF IsRun, Stages, Working
    <3>5. PairInv(r)' /\ DraftInv(r)' /\ AskedInv(r)'
      BY <1>1, <3>2, <3>3 DEF RunInv, PairInv, DraftInv, AskedInv, Early, FamilyRule
    <3> QED
      BY <1>1, <3>1, <3>2, <3>4, <3>5, GoesOn, MoveType, MoveFacts DEF Unrecorded, Early
  <2> QED
    BY <2>1, <2>2
<1> QED
  BY <1>1, <1>3, MoveStep DEF TypeOK

LEMMA RetrieveStep ==
  ASSUME IInv, NEW r \in Runs, NEW source \in {"none", "own", "connector"}, Retrieve(r, source)
  PROVE  IInv'
<1>1. /\ TypeOK /\ RunInv(r) /\ run[r].stage = "retrieve"
      /\ UNCHANGED <<store, judged, calls, tables, forget, faults>>
  BY DEF IInv, Retrieve
<1>2. IsRun(run[r])
  BY RunShape
<1>3. RunInv(r)' /\ run' \in [Runs -> Run] /\ \A q \in Runs : q # r => run'[q] = run[q]
  <2>1. CASE source = "none"
    <3> DEFINE fields == [stage |-> "session", kind |-> "empty"]
    <3>1. Move(r, fields) /\ TypeOK
      BY <1>1, <2>1 DEF Retrieve
    <3>2. /\ run'[r].stage = "session" /\ run'[r].name = run[r].name
          /\ run'[r].profile = run[r].profile /\ run'[r].source = run[r].source
          /\ run'[r].writes = run[r].writes /\ run'[r].drafts = run[r].drafts
          /\ run'[r].text = run[r].text /\ run'[r].size = run[r].size
          /\ run'[r].grounded = run[r].grounded /\ run'[r].kind = "empty"
          /\ run'[r].badge = run[r].badge
      <4> HIDE DEF fields
      <4>1. \A f \in Fields :
              run'[r][f] = IF f \in DOMAIN fields THEN fields[f] ELSE run[r][f]
        BY <3>1, MoveFacts, Zenon
      <4>2. DOMAIN fields = {"stage", "kind"}
        BY DEF fields
      <4>3. /\ fields.stage = "session"
            /\ fields.kind = "empty"
        BY DEF fields
      <4> QED
        BY <4>1, <4>2, <4>3 DEF Fields
    <3> HIDE DEF fields
    <3>3. IsRun(run'[r])
      BY <1>2, <3>2 DEF IsRun, Stages, Working, Kinds
    <3>4. PairInv(r)' /\ DraftInv(r)' /\ AskedInv(r)'
      BY <1>1, <3>2 DEF RunInv, PairInv, DraftInv, AskedInv, Working, Early, FamilyRule
    <3>5. JudgedInv(r)' /\ ReceiptInv(r)'
      BY <1>1, <3>2 DEF RunInv, DraftInv, JudgedInv, ReceiptInv, Unrecorded, Early
    <3>6. ForgetInv(r)'
      BY <1>1, AtWork DEF ForgetInv, tables
    <3> QED
      BY <3>1, <3>3, <3>4, <3>5, <3>6, MoveType, MoveFacts DEF RunInv
  <2>2. CASE source # "none"
    <3> DEFINE fields == [stage |-> "egress", source |-> source]
    <3>1. Move(r, fields) /\ TypeOK
      BY <1>1, <2>2 DEF Retrieve
    <3>2. /\ run'[r].stage = "egress" /\ run'[r].name = run[r].name
          /\ run'[r].profile = run[r].profile /\ run'[r].source = source
          /\ run'[r].writes = run[r].writes /\ run'[r].drafts = run[r].drafts
          /\ run'[r].text = run[r].text /\ run'[r].size = run[r].size
          /\ run'[r].grounded = run[r].grounded /\ run'[r].kind = run[r].kind
          /\ run'[r].badge = run[r].badge
      <4> HIDE DEF fields
      <4>1. \A f \in Fields :
              run'[r][f] = IF f \in DOMAIN fields THEN fields[f] ELSE run[r][f]
        BY <3>1, MoveFacts, Zenon
      <4>2. DOMAIN fields = {"stage", "source"}
        BY DEF fields
      <4>3. /\ fields.stage = "egress"
            /\ fields.source = source
        BY DEF fields
      <4> QED
        BY <4>1, <4>2, <4>3 DEF Fields
    <3> HIDE DEF fields
    <3>3. IsRun(run'[r])
      BY <1>2, <3>2 DEF IsRun, Stages, Working
    <3>4. PairInv(r)' /\ DraftInv(r)' /\ AskedInv(r)'
      BY <1>1, <3>2 DEF RunInv, PairInv, DraftInv, AskedInv, Working, Early, FamilyRule
    <3> QED
      BY <1>1, <3>1, <3>2, <3>3, <3>4, GoesOn, MoveType, MoveFacts DEF Unrecorded, Early
  <2> QED
    BY <2>1, <2>2
<1> QED
  BY <1>1, <1>3, MoveStep DEF TypeOK

LEMMA CheckEgressStep ==
  ASSUME IInv, NEW r \in Runs, CheckEgress(r)
  PROVE  IInv'
<1> DEFINE now == load_profile(run[r].name)
<1>1. /\ TypeOK /\ StoreInv /\ RunInv(r) /\ run[r].stage = "egress"
      /\ UNCHANGED <<store, judged, calls, tables, forget, faults>>
  BY DEF IInv, CheckEgress
<1>2. IsRun(run[r])
  BY RunShape
<1>3. Asked(judged'[r], run[r].drafts)
  BY <1>1 DEF RunInv, AskedInv
<1>4. RunInv(r)' /\ run' \in [Runs -> Run] /\ \A q \in Runs : q # r => run'[q] = run[q]
  <2>1. CASE Raise(r)
    BY <1>1, <2>1, Raised DEF Working
  <2>2. CASE Extractive(r, "egress-blocked", "PASS")
    BY <1>1, <1>3, <2>2, Extracted DEF Kinds
  <2>3. CASE Extractive(r, "extractive", "PASS")
    BY <1>1, <1>3, <2>3, Extracted DEF Kinds
  <2>4. CASE /\ now # Torn
             /\ Move(r, [stage |-> "draft",
                         profile |-> [run[r].profile EXCEPT !.egress = now.egress]])
    <3> DEFINE p == [run[r].profile EXCEPT !.egress = now.egress]
               fields == [stage |-> "draft", profile |-> p]
    <3>1. Move(r, fields) /\ TypeOK
      BY <1>1, <2>4
    <3>2. run[r].profile \in Profile /\ FamilyRule(run[r].profile)
      BY <1>1 DEF RunInv, PairInv, Working
    <3>3. now \in Profile
      BY <1>1, <1>2, <2>4, LoadFacts DEF IsRun
    <3> HIDE DEF now
    <3>4. p \in Profile /\ FamilyRule(p)
      BY <3>2, <3>3 DEF Profile, FamilyRule
    <3> HIDE DEF p
    <3>5. /\ run'[r].stage = "draft" /\ run'[r].name = run[r].name /\ run'[r].profile = p
          /\ run'[r].source = run[r].source /\ run'[r].writes = run[r].writes
          /\ run'[r].drafts = run[r].drafts /\ run'[r].text = run[r].text
          /\ run'[r].size = run[r].size /\ run'[r].grounded = run[r].grounded
          /\ run'[r].kind = run[r].kind /\ run'[r].badge = run[r].badge
      <4> HIDE DEF fields
      <4>1. \A f \in Fields :
              run'[r][f] = IF f \in DOMAIN fields THEN fields[f] ELSE run[r][f]
        BY <3>1, MoveFacts, Zenon
      <4>2. DOMAIN fields = {"stage", "profile"}
        BY DEF fields
      <4>3. /\ fields.stage = "draft"
            /\ fields.profile = p
        BY DEF fields
      <4> QED
        BY <4>1, <4>2, <4>3 DEF Fields
    <3> HIDE DEF fields
    <3>6. IsRun(run'[r])
      BY <1>2, <3>4, <3>5 DEF IsRun, Stages, Working
    <3>7. PairInv(r)' /\ DraftInv(r)' /\ AskedInv(r)'
      BY <1>1, <3>4, <3>5 DEF RunInv, PairInv, DraftInv, AskedInv, Early, FamilyRule
    <3> QED
      BY <1>1, <3>1, <3>5, <3>6, <3>7, GoesOn, MoveType, MoveFacts DEF Unrecorded, Early
  <2> QED
    BY <2>1, <2>2, <2>3, <2>4 DEF CheckEgress
<1> QED
  BY <1>1, <1>4, MoveStep DEF TypeOK

(* Whatever a prompt says, it is a prompt of this run to a model.          *)
LEMMA PromptType ==
  ASSUME TypeOK, NEW r \in Runs, run[r].profile \in Profile,
         NEW role \in {"writer", "checker"}, NEW model \in Models
  PROVE  Prompt(r, role, model) \in Call
BY DEF Prompt, Call, Profile

LEMMA SynthesizeStep ==
  ASSUME IInv, NEW r \in Runs, NEW n \in 0 .. MaxClaims, Synthesize(r, n)
  PROVE  IInv'
<1>1. /\ TypeOK /\ RunInv(r) /\ run[r].stage \in {"draft", "redraft"}
      /\ UNCHANGED <<store, judged, tables, forget, faults>>
      /\ calls' = calls \cup {Prompt(r, "writer", run[r].profile.executor)}
  BY DEF IInv, Synthesize
<1>2. IsRun(run[r])
  BY RunShape
<1>3. run[r].profile \in Profile /\ FamilyRule(run[r].profile)
  BY <1>1 DEF RunInv, PairInv, Working
<1>4. calls' \subseteq Call
  <2>1. run[r].profile.executor \in Models
    BY <1>3 DEF Profile
  <2> QED
    BY <1>1, <1>3, <2>1, PromptType DEF TypeOK
<1>5. RunInv(r)' /\ run' \in [Runs -> Run] /\ \A q \in Runs : q # r => run'[q] = run[q]
  <2>1. CASE run[r].stage = "draft"
    <3> DEFINE fields == [stage |-> "judge", text |-> "draft1", size |-> n,
                          drafts |-> run[r].drafts + 1]
    <3>1. Move(r, fields) /\ TypeOK
      BY <1>1, <2>1 DEF Synthesize
    <3>2. run[r].drafts = 0
      BY <1>1, <2>1 DEF RunInv, DraftInv, Early
    <3>3. /\ run'[r].stage = "judge" /\ run'[r].name = run[r].name
          /\ run'[r].profile = run[r].profile /\ run'[r].source = run[r].source
          /\ run'[r].writes = run[r].writes /\ run'[r].drafts = run[r].drafts + 1
          /\ run'[r].text = "draft1" /\ run'[r].size = n
          /\ run'[r].grounded = run[r].grounded /\ run'[r].kind = run[r].kind
          /\ run'[r].badge = run[r].badge
      <4> HIDE DEF fields
      <4>1. \A f \in Fields :
              run'[r][f] = IF f \in DOMAIN fields THEN fields[f] ELSE run[r][f]
        BY <3>1, MoveFacts, Zenon
      <4>2. DOMAIN fields = {"stage", "text", "size", "drafts"}
        BY DEF fields
      <4>3. /\ fields.stage = "judge"
            /\ fields.text = "draft1"
            /\ fields.size = n
            /\ fields.drafts = run[r].drafts + 1
        BY DEF fields
      <4> QED
        BY <4>1, <4>2, <4>3 DEF Fields
    <3> HIDE DEF fields
    <3>4. IsRun(run'[r])
      <4>1. /\ run'[r].stage \in Stages /\ run'[r].text \in Texts
            /\ run'[r].size \in 0 .. MaxClaims + 1 /\ run'[r].drafts \in 0 .. 2
        BY <3>2, <3>3, BoundAssumption DEF Stages, Working, Texts
      <4> QED
        BY <1>2, <3>3, <4>1 DEF IsRun
    <3>5. PairInv(r)' /\ DraftInv(r)'
      BY <1>3, <3>2, <3>3 DEF PairInv, DraftInv, Early, FamilyRule
    <3>6. AskedInv(r)'
      BY <1>1, <3>2, <3>3 DEF RunInv, AskedInv, Asked
    <3> QED
      BY <1>1, <3>1, <3>3, <3>4, <3>5, <3>6, <2>1, GoesOn, MoveType, MoveFacts
         DEF Unrecorded, Early
  <2>2. CASE run[r].stage = "redraft"
    <3> DEFINE fields == [stage |-> "rejudge", text |-> "draft2", size |-> n,
                          drafts |-> run[r].drafts + 1]
    <3>1. Move(r, fields) /\ TypeOK
      BY <1>1, <2>2 DEF Synthesize
    <3>2. run[r].drafts = 1
      BY <1>1, <2>2 DEF RunInv, DraftInv, Early
    <3>3. /\ run'[r].stage = "rejudge" /\ run'[r].name = run[r].name
          /\ run'[r].profile = run[r].profile /\ run'[r].source = run[r].source
          /\ run'[r].writes = run[r].writes /\ run'[r].drafts = run[r].drafts + 1
          /\ run'[r].text = "draft2" /\ run'[r].size = n
          /\ run'[r].grounded = run[r].grounded /\ run'[r].kind = run[r].kind
          /\ run'[r].badge = run[r].badge
      <4> HIDE DEF fields
      <4>1. \A f \in Fields :
              run'[r][f] = IF f \in DOMAIN fields THEN fields[f] ELSE run[r][f]
        BY <3>1, MoveFacts, Zenon
      <4>2. DOMAIN fields = {"stage", "text", "size", "drafts"}
        BY DEF fields
      <4>3. /\ fields.stage = "rejudge"
            /\ fields.text = "draft2"
            /\ fields.size = n
            /\ fields.drafts = run[r].drafts + 1
        BY DEF fields
      <4> QED
        BY <4>1, <4>2, <4>3 DEF Fields
    <3> HIDE DEF fields
    <3>4. IsRun(run'[r])
      <4>1. /\ run'[r].stage \in Stages /\ run'[r].text \in Texts
            /\ run'[r].size \in 0 .. MaxClaims + 1 /\ run'[r].drafts \in 0 .. 2
        BY <3>2, <3>3, BoundAssumption DEF Stages, Working, Texts
      <4> QED
        BY <1>2, <3>3, <4>1 DEF IsRun
    <3>5. PairInv(r)' /\ DraftInv(r)'
      BY <1>3, <3>2, <3>3 DEF PairInv, DraftInv, Early, FamilyRule
    <3>6. AskedInv(r)'
      BY <1>1, <3>2, <3>3 DEF RunInv, AskedInv, Asked
    <3> QED
      BY <1>1, <3>1, <3>3, <3>4, <3>5, <3>6, <2>2, GoesOn, MoveType, MoveFacts
         DEF Unrecorded, Early
  <2> QED
    BY <1>1, <2>1, <2>2
<1> QED
  BY <1>1, <1>4, <1>5, MoveStep

LEMMA ExecutorFailsStep ==
  ASSUME IInv, NEW r \in Runs, ExecutorFails(r)
  PROVE  IInv'
<1>1. /\ TypeOK /\ RunInv(r) /\ run[r].stage \in {"draft", "redraft"}
      /\ UNCHANGED <<store, judged, tables, forget, faults>>
      /\ calls' \in {calls, calls \cup {Prompt(r, "writer", run[r].profile.executor)}}
  BY DEF IInv, ExecutorFails
<1>2. run[r].profile \in Profile /\ FamilyRule(run[r].profile)
  BY <1>1 DEF RunInv, PairInv, Working
<1>3. calls' \subseteq Call
  <2>1. run[r].profile.executor \in Models
    BY <1>2 DEF Profile
  <2> QED
    BY <1>1, <1>2, <2>1, PromptType DEF TypeOK
<1>4. Asked(judged'[r], run[r].drafts)
  BY <1>1 DEF RunInv, AskedInv
<1>5. RunInv(r)' /\ run' \in [Runs -> Run] /\ \A q \in Runs : q # r => run'[q] = run[q]
  <2>1. CASE run[r].stage = "draft" /\ Extractive(r, "executor-offline", "UNVALIDATED")
    BY <1>1, <1>4, <2>1, Extracted DEF Kinds
  <2>2. CASE run[r].stage \in {"draft", "redraft"} /\ Raise(r)
    BY <1>1, <2>2, Raised DEF Working
  <2> QED
    BY <2>1, <2>2 DEF ExecutorFails
<1> QED
  BY <1>1, <1>3, <1>5, MoveStep

(* An answer with a verdict on it is settled; it is the judged text.       *)
LEMMA Shipped ==
  ASSUME IInv, NEW r \in Runs, run[r].stage \in {"judge", "rejudge"},
         NEW grounded \in SUBSET Claims, Ship(r, grounded),
         Asked(judged'[r], run[r].drafts),
         run[r].size > 0 => Judged(judged'[r], run[r]),
         UNCHANGED <<tables, forget>>
  PROVE  RunInv(r)' /\ run' \in [Runs -> Run] /\ \A q \in Runs : q # r => run'[q] = run[q]
<1> DEFINE fields == [stage |-> "record", grounded |-> grounded, kind |-> "synthesized",
                      badge |-> "PASS"]
<1>1. TypeOK /\ RunInv(r) /\ Move(r, fields)
  BY DEF IInv, Ship
<1>2. IsRun(run[r])
  BY RunShape
<1>3. /\ run'[r].stage = "record" /\ run'[r].name = run[r].name
      /\ run'[r].profile = run[r].profile /\ run'[r].source = run[r].source
      /\ run'[r].writes = run[r].writes /\ run'[r].drafts = run[r].drafts
      /\ run'[r].text = run[r].text /\ run'[r].size = run[r].size
      /\ run'[r].grounded = grounded /\ run'[r].kind = "synthesized"
      /\ run'[r].badge = "PASS"
  <2> HIDE DEF fields
  <2>1. \A f \in Fields :
          run'[r][f] = IF f \in DOMAIN fields THEN fields[f] ELSE run[r][f]
    BY <1>1, MoveFacts, Zenon
  <2>2. DOMAIN fields = {"stage", "grounded", "kind", "badge"}
    BY DEF fields
  <2>3. /\ fields.stage = "record"
        /\ fields.grounded = grounded
        /\ fields.kind = "synthesized"
        /\ fields.badge = "PASS"
    BY DEF fields
  <2> QED
    BY <2>1, <2>2, <2>3 DEF Fields
<1> HIDE DEF fields
<1>4. IsRun(run'[r])
  BY <1>2, <1>3 DEF IsRun, Stages, Working, Kinds
<1>5. PairInv(r)' /\ DraftInv(r)' /\ AskedInv(r)'
  BY <1>1, <1>3 DEF RunInv, PairInv, DraftInv, AskedInv, Working, Early
<1>6. JudgedInv(r)'
  BY <1>3 DEF JudgedInv, Judged
<1>7. ReceiptInv(r)'
  <2>1. receipts'[r] = {}
    BY <1>1 DEF RunInv, ReceiptInv, Unrecorded, tables
  <2>2. receipts'[r] = RowsUpTo(r, 0)'
    BY <2>1 DEF RowsUpTo
  <2>3. run'[r].size >= 0 /\ run'[r].size \in Nat
    BY <1>1, <1>3, BoundAssumption DEF RunInv, DraftInv
  <2> QED
    BY <1>3, <2>2, <2>3 DEF ReceiptInv, Unrecorded, Early
<1>8. ForgetInv(r)'
  BY AtWork DEF ForgetInv, tables
<1> QED
  BY <1>1, <1>4, <1>5, <1>6, <1>7, <1>8, MoveFacts, MoveType DEF RunInv

LEMMA ValidateStep ==
  ASSUME IInv, NEW r \in Runs, NEW by \in Models, NEW grounded \in SUBSET Claims,
         Validate(r, by, grounded)
  PROVE  IInv'
<1> DEFINE verdict == [text |-> run[r].text, by |-> by, grounded |-> grounded]
<1>1. /\ TypeOK /\ RunInv(r) /\ run[r].stage \in {"judge", "rejudge"}
      /\ UNCHANGED <<store, tables, forget, faults>>
      /\ by \in Checkers(r)
      /\ judged' = [judged EXCEPT ![r] = @ \cup {verdict}]
      /\ calls' = calls \cup {Prompt(r, "checker", by)}
  BY DEF IInv, Validate
<1>2. IsRun(run[r])
  BY RunShape
<1>3. run[r].profile \in Profile /\ FamilyRule(run[r].profile)
  BY <1>1 DEF RunInv, PairInv, Working
<1>4. Family[by] # Family[run[r].profile.executor]
  BY <1>1, <1>3 DEF Checkers, FamilyRule
<1>5. judged'[r] = judged[r] \cup {verdict} /\ \A q \in Runs : q # r => judged'[q] = judged[q]
  BY <1>1 DEF TypeOK
<1>6. Asked(judged'[r], run[r].drafts)
  <2>1. Asked(judged[r], run[r].drafts)
    BY <1>1 DEF RunInv, AskedInv
  <2>2. \/ verdict.text = "draft1" /\ run[r].drafts = 1
        \/ verdict.text = "draft2" /\ run[r].drafts = 2
    BY <1>1 DEF RunInv, DraftInv
  <2> QED
    BY <1>5, <2>1, <2>2 DEF Asked
<1>7. judged' \in [Runs -> SUBSET Verdict] /\ calls' \subseteq Call
  <2>1. verdict \in Verdict
    BY <1>2 DEF Verdict, IsRun
  <2>2. judged' \in [Runs -> SUBSET Verdict]
    BY <1>1, <2>1 DEF TypeOK
  <2>3. calls' \subseteq Call
    BY <1>1, <1>3, PromptType DEF TypeOK
  <2> QED
    BY <2>2, <2>3
<1>8. RunInv(r)' /\ run' \in [Runs -> Run] /\ \A q \in Runs : q # r => run'[q] = run[q]
  <2>1. CASE grounded = 1 .. run[r].size /\ Ship(r, grounded)
    <3>1. Judged(judged'[r], run[r])
      <4>1. /\ verdict \in judged'[r] /\ verdict.text = run[r].text
            /\ verdict.grounded = 1 .. run[r].size /\ verdict.by = by
        BY <1>5, <2>1
      <4> QED
        BY <1>4, <4>1 DEF Judged
    <3> QED
      BY <1>1, <1>6, <2>1, <3>1, Shipped
  <2>2. CASE run[r].stage = "judge" /\ Move(r, [stage |-> "redraft"])
    <3> DEFINE fields == [stage |-> "redraft"]
    <3>1. Move(r, fields) /\ TypeOK
      BY <1>1, <2>2
    <3>2. /\ run'[r].stage = "redraft" /\ run'[r].name = run[r].name
          /\ run'[r].profile = run[r].profile /\ run'[r].source = run[r].source
          /\ run'[r].writes = run[r].writes /\ run'[r].drafts = run[r].drafts
          /\ run'[r].text = run[r].text /\ run'[r].size = run[r].size
          /\ run'[r].grounded = run[r].grounded /\ run'[r].kind = run[r].kind
          /\ run'[r].badge = run[r].badge
      <4> HIDE DEF fields
      <4>1. \A f \in Fields :
              run'[r][f] = IF f \in DOMAIN fields THEN fields[f] ELSE run[r][f]
        BY <3>1, MoveFacts, Zenon
      <4>2. DOMAIN fields = {"stage"}
        BY DEF fields
      <4>3. /\ fields.stage = "redraft"
        BY DEF fields
      <4> QED
        BY <4>1, <4>2, <4>3 DEF Fields
    <3> HIDE DEF fields
    <3>3. IsRun(run'[r])
      BY <1>2, <3>2 DEF IsRun, Stages, Working
    <3>4. PairInv(r)' /\ DraftInv(r)' /\ AskedInv(r)'
      BY <1>1, <1>3, <1>6, <2>2, <3>2
         DEF RunInv, PairInv, DraftInv, AskedInv, Early, FamilyRule
    <3> QED
      BY <1>1, <3>1, <3>2, <3>3, <3>4, GoesOn, MoveType, MoveFacts DEF Unrecorded
  <2>3. CASE Extractive(r, "validator-degraded", "PASS")
    BY <1>1, <1>6, <2>3, Extracted DEF Kinds
  <2> QED
    BY <2>1, <2>2, <2>3 DEF Validate
<1>9. TypeOK'
  BY <1>1, <1>7, <1>8 DEF TypeOK, store, tables
<1> QED
  BY <1>1, <1>5, <1>8, <1>9, OneRun DEF store, tables

LEMMA ValidateNothingStep ==
  ASSUME IInv, NEW r \in Runs, ValidateNothing(r)
  PROVE  IInv'
<1>1. /\ TypeOK /\ RunInv(r) /\ run[r].stage \in {"judge", "rejudge"} /\ run[r].size = 0
      /\ UNCHANGED <<store, judged, calls, tables, forget, faults>> /\ Ship(r, {})
  BY DEF IInv, ValidateNothing
<1>2. Asked(judged'[r], run[r].drafts)
  BY <1>1 DEF RunInv, AskedInv
<1>3. RunInv(r)' /\ run' \in [Runs -> Run] /\ \A q \in Runs : q # r => run'[q] = run[q]
  BY <1>1, <1>2, Shipped
<1> QED
  BY <1>1, <1>3, MoveStep DEF TypeOK

LEMMA ValidatorOfflineStep ==
  ASSUME IInv, NEW r \in Runs, ValidatorOffline(r)
  PROVE  IInv'
<1>1. /\ TypeOK /\ RunInv(r) /\ run[r].stage \in {"judge", "rejudge"}
      /\ UNCHANGED <<store, judged, calls, tables, forget, faults>>
  BY DEF IInv, ValidatorOffline
<1>2. Asked(judged'[r], run[r].drafts)
  BY <1>1 DEF RunInv, AskedInv
<1>3. RunInv(r)' /\ run' \in [Runs -> Run] /\ \A q \in Runs : q # r => run'[q] = run[q]
  <2>1. CASE Extractive(r, "unvalidated-offline", "UNVALIDATED")
    BY <1>1, <1>2, <2>1, Extracted DEF Kinds
  <2>2. CASE Extractive(r, "validator-degraded", "PASS")
    BY <1>1, <1>2, <2>2, Extracted DEF Kinds
  <2> QED
    BY <2>1, <2>2 DEF ValidatorOffline
<1> QED
  BY <1>1, <1>3, MoveStep DEF TypeOK

-----------------------------------------------------------------------------
(* The rows of n sentences are n rows, and name these sentences.           *)
LEMMA RowsCount ==
  ASSUME NEW r, NEW n \in Nat
  PROVE  /\ Cardinality(RowsUpTo(r, n)) = n
         /\ {row.sentence : row \in RowsUpTo(r, n)} = 1 .. n
         /\ RowsUpTo(r, n + 1) = RowsUpTo(r, n) \cup {RowOf(r, n + 1)}
<1> DEFINE f == [i \in 1 .. n |-> RowOf(r, i)]
<1>1. \A i \in 1 .. n : RowOf(r, i).sentence = i
  BY DEF RowOf
<1>2. f \in Bijection(1 .. n, RowsUpTo(r, n))
  <2>1. f \in [1 .. n -> RowsUpTo(r, n)]
    BY DEF RowsUpTo
  <2>2. \A i, j \in 1 .. n : f[i] = f[j] => i = j
    BY <1>1
  <2>3. \A row \in RowsUpTo(r, n) : \E i \in 1 .. n : f[i] = row
    BY DEF RowsUpTo
  <2> QED
    BY <2>1, <2>2, <2>3, Fun_IsBij
<1>3. Cardinality(RowsUpTo(r, n)) = n
  BY <1>2, FS_CountingElements DEF ExistsBijection
<1>4. {row.sentence : row \in RowsUpTo(r, n)} = 1 .. n
  BY <1>1 DEF RowsUpTo
<1>5. 1 .. n + 1 = (1 .. n) \cup {n + 1}
  OBVIOUS
<1>6. RowsUpTo(r, n + 1) = RowsUpTo(r, n) \cup {RowOf(r, n + 1)}
  BY <1>5, Zenon DEF RowsUpTo
<1> QED
  BY <1>3, <1>4, <1>6

LEMMA WriteReceiptStep ==
  ASSUME IInv, NEW r \in Runs, WriteReceipt(r)
  PROVE  IInv'
<1> DEFINE next == Cardinality(receipts[r]) + 1
<1>1. /\ TypeOK /\ RunInv(r) /\ run[r].stage = "record" /\ next <= run[r].size
      /\ UNCHANGED <<store, run, judged, calls, costs, sessions, forget, faults>>
      /\ receipts' = [receipts EXCEPT ![r] = @ \cup {RowOf(r, next)}]
  BY DEF IInv, WriteReceipt, RowOf
<1>2. run[r].size \in Nat /\ run[r].size \in (0 .. MaxClaims) \cup {1}
  BY <1>1, BoundAssumption DEF RunInv, DraftInv
<1>3. PICK n \in 0 .. run[r].size : receipts[r] = RowsUpTo(r, n)
  BY <1>1 DEF RunInv, ReceiptInv
<1>4. n \in Nat /\ next = n + 1 /\ n + 1 \in 0 .. run[r].size
  BY <1>1, <1>2, <1>3, RowsCount
<1> HIDE DEF next
<1>5. receipts'[r] = RowsUpTo(r, n + 1) /\ \A q \in Runs : q # r => receipts'[q] = receipts[q]
  BY <1>1, <1>3, <1>4, RowsCount DEF TypeOK
<1>6. receipts' \in [Runs -> SUBSET ReceiptRow]
  <2>1. RowOf(r, next) \in ReceiptRow
    <3>1. IsRun(run[r])
      BY RunShape
    <3>2. next \in Claims \cup {1}
      BY <1>2, <1>4, BoundAssumption DEF Claims
    <3>3. run[r].text \in Texts
      BY <3>1 DEF IsRun
    <3>4. (next \in run[r].grounded) \in BOOLEAN
      OBVIOUS
    <3> QED
      BY <3>2, <3>3, <3>4 DEF RowOf, ReceiptRow
  <2> QED
    BY <1>1, <2>1 DEF TypeOK
<1>7. RunInv(r)'
  <2>1. PairInv(r)' /\ DraftInv(r)' /\ AskedInv(r)' /\ JudgedInv(r)'
    BY <1>1 DEF RunInv, PairInv, DraftInv, AskedInv, JudgedInv
  <2>2. RowsUpTo(r, n + 1)' = RowsUpTo(r, n + 1)
    BY <1>1, <1>4 DEF RowsUpTo, RowOf
  <2>3. ReceiptInv(r)'
    BY <1>1, <1>4, <1>5, <2>2 DEF ReceiptInv, Unrecorded, Early
  <2>4. ForgetInv(r)'
    BY <1>1, AtWork DEF ForgetInv
  <2> QED
    BY <2>1, <2>3, <2>4 DEF RunInv
<1>8. TypeOK'
  BY <1>1, <1>6 DEF TypeOK, store
<1> QED
  BY <1>1, <1>5, <1>7, <1>8, OneRun DEF store

LEMMA WriteCostStep ==
  ASSUME IInv, NEW r \in Runs, WriteCost(r)
  PROVE  IInv'
<1> DEFINE fields == [stage |-> "session"]
<1>1. /\ TypeOK /\ RunInv(r) /\ run[r].stage = "record"
      /\ Cardinality(receipts[r]) = run[r].size
      /\ UNCHANGED <<store, judged, calls, receipts, sessions, forget, faults>>
      /\ costs' = [costs EXCEPT ![r] = run[r].drafts] /\ Move(r, fields)
  BY DEF IInv, WriteCost
<1>2. IsRun(run[r])
  BY RunShape
<1>3. /\ run'[r].stage = "session" /\ run'[r].name = run[r].name
      /\ run'[r].profile = run[r].profile /\ run'[r].source = run[r].source
      /\ run'[r].writes = run[r].writes /\ run'[r].drafts = run[r].drafts
      /\ run'[r].text = run[r].text /\ run'[r].size = run[r].size
      /\ run'[r].grounded = run[r].grounded /\ run'[r].kind = run[r].kind
      /\ run'[r].badge = run[r].badge
  <2> HIDE DEF fields
  <2>1. \A f \in Fields :
          run'[r][f] = IF f \in DOMAIN fields THEN fields[f] ELSE run[r][f]
    BY <1>1, MoveFacts, Zenon
  <2>2. DOMAIN fields = {"stage"}
    BY DEF fields
  <2>3. /\ fields.stage = "session"
    BY DEF fields
  <2> QED
    BY <2>1, <2>2, <2>3 DEF Fields
<1> HIDE DEF fields
<1>4. IsRun(run'[r])
  BY <1>2, <1>3 DEF IsRun, Stages, Working
<1>5. receipts[r] = RowsUpTo(r, run[r].size)
  <2>1. PICK n \in 0 .. run[r].size : receipts[r] = RowsUpTo(r, n)
    BY <1>1 DEF RunInv, ReceiptInv
  <2>2. n \in Nat
    OBVIOUS
  <2> QED
    BY <1>1, <2>1, <2>2, RowsCount
<1>6. costs'[r] = run[r].drafts /\ costs' \in [Runs -> (0 .. 2) \cup {None}]
      /\ \A q \in Runs : q # r => costs'[q] = costs[q]
  BY <1>1, <1>2 DEF TypeOK, IsRun
<1>7. RunInv(r)'
  <2>1. PairInv(r)' /\ DraftInv(r)' /\ AskedInv(r)'
    BY <1>1, <1>3 DEF RunInv, PairInv, DraftInv, AskedInv, Working, Early, FamilyRule
  <2>2. JudgedInv(r)'
    BY <1>1, <1>3 DEF RunInv, JudgedInv, Judged, Settled
  <2>3. RowsUpTo(r, run[r].size)' = RowsUpTo(r, run[r].size)
    BY <1>3 DEF RowsUpTo, RowOf
  <2>4. ReceiptInv(r)'
    BY <1>1, <1>3, <1>5, <1>6, <2>3 DEF ReceiptInv, Unrecorded, Early
  <2>5. ForgetInv(r)'
    BY <1>1, AtWork DEF ForgetInv
  <2> QED
    BY <2>1, <2>2, <2>4, <2>5 DEF RunInv
<1>8. run' \in [Runs -> Run] /\ \A q \in Runs : q # r => run'[q] = run[q]
  BY <1>1, <1>4, MoveType, MoveFacts
<1>9. TypeOK'
  BY <1>1, <1>6, <1>8 DEF TypeOK, store
<1> QED
  BY <1>1, <1>6, <1>7, <1>8, <1>9, OneRun DEF store

LEMMA RecordRunStep ==
  ASSUME IInv, NEW r \in Runs, record_run(r)
  PROVE  IInv'
<1> DEFINE fields == [stage |-> "done"]
<1>1. /\ TypeOK /\ RunInv(r) /\ run[r].stage = "session" /\ sessions' = sessions \cup {r}
      /\ UNCHANGED <<store, judged, calls, receipts, costs, forget, faults>>
      /\ Move(r, fields)
  BY DEF IInv, record_run
<1>2. IsRun(run[r])
  BY RunShape
<1>3. /\ run'[r].stage = "done" /\ run'[r].name = run[r].name
      /\ run'[r].profile = run[r].profile /\ run'[r].source = run[r].source
      /\ run'[r].writes = run[r].writes /\ run'[r].drafts = run[r].drafts
      /\ run'[r].text = run[r].text /\ run'[r].size = run[r].size
      /\ run'[r].grounded = run[r].grounded /\ run'[r].kind = run[r].kind
      /\ run'[r].badge = run[r].badge
  <2> HIDE DEF fields
  <2>1. \A f \in Fields :
          run'[r][f] = IF f \in DOMAIN fields THEN fields[f] ELSE run[r][f]
    BY <1>1, MoveFacts, Zenon
  <2>2. DOMAIN fields = {"stage"}
    BY DEF fields
  <2>3. /\ fields.stage = "done"
    BY DEF fields
  <2> QED
    BY <2>1, <2>2, <2>3 DEF Fields
<1> HIDE DEF fields
<1>4. IsRun(run'[r])
  BY <1>2, <1>3 DEF IsRun, Stages
<1>5. RunInv(r)'
  <2>1. PairInv(r)' /\ DraftInv(r)' /\ AskedInv(r)'
    BY <1>1, <1>3 DEF RunInv, PairInv, DraftInv, AskedInv, Working, Early, FamilyRule
  <2>2. JudgedInv(r)'
    BY <1>1, <1>3 DEF RunInv, JudgedInv, Judged, Settled
  <2>3. RowsUpTo(r, run[r].size)' = RowsUpTo(r, run[r].size)
    BY <1>3 DEF RowsUpTo, RowOf
  <2>4. ReceiptInv(r)'
    BY <1>1, <1>3, <2>3 DEF RunInv, ReceiptInv, Unrecorded, Early
  <2>5. ForgetInv(r)'
    BY <1>1, <1>3, AtWork DEF ForgetInv
  <2> QED
    BY <2>1, <2>2, <2>4, <2>5 DEF RunInv
<1>6. run' \in [Runs -> Run] /\ \A q \in Runs : q # r => run'[q] = run[q]
  BY <1>1, <1>4, MoveType, MoveFacts
<1>7. TypeOK'
  BY <1>1, <1>6 DEF TypeOK, store
<1> QED
  BY <1>1, <1>5, <1>6, <1>7, OneRun DEF store
-----------------------------------------------------------------------------
(* delete_session.  A run whose deletion has begun is over, so the tail of *)
(* run_pipeline cannot bring back what is deleted.                         *)
LEMMA ForgetStep ==
  ASSUME IInv, NEW r \in Runs, ForgetCheck(r) \/ delete_session(r)
  PROVE  IInv'
<1>1. /\ TypeOK /\ RunInv(r) /\ forget[r] \in {"no", "cut", "receipts", "session"}
      /\ forget[r] # "no" \/ r \in sessions
      /\ UNCHANGED <<store, run, judged, calls, costs, faults>>
  BY DEF IInv, ForgetCheck, delete_session, ForgetReceipts, ForgetSession, tables
<1>2. run[r].stage = "done"
  BY <1>1 DEF RunInv, ForgetInv
<1>3. /\ \A q \in Runs : q # r => /\ forget'[q] = forget[q] /\ receipts'[q] = receipts[q]
                                /\ (q \in sessions' <=> q \in sessions)
      /\ \/ forget'[r] = "receipts"
         \/ forget'[r] = "session" /\ receipts'[r] = {}
         \/ forget'[r] = "done" /\ receipts'[r] = receipts[r] /\ r \notin sessions'
              /\ forget[r] = "session"
      /\ TypeOK'
  <2>1. CASE ForgetCheck(r)
    BY <1>1, <2>1 DEF ForgetCheck, TypeOK, store, tables
  <2>2. CASE ForgetReceipts(r)
    BY <1>1, <2>2 DEF ForgetReceipts, TypeOK, store
  <2>3. CASE ForgetSession(r)
    BY <1>1, <2>3 DEF ForgetSession, TypeOK, store
  <2> QED
    BY <2>1, <2>2, <2>3 DEF ForgetCheck, delete_session
<1>4. RunInv(r)'
  <2>1. PairInv(r)' /\ DraftInv(r)' /\ AskedInv(r)'
    BY <1>1 DEF RunInv, PairInv, DraftInv, AskedInv
  <2>2. JudgedInv(r)'
    BY <1>1 DEF RunInv, JudgedInv, Judged
  <2>3. ReceiptInv(r)'
    BY <1>1, <1>2, <1>3 DEF ReceiptInv, Unrecorded, Early
  <2>4. ForgetInv(r)'
    BY <1>1, <1>2, <1>3 DEF RunInv, ForgetInv
  <2> QED
    BY <2>1, <2>2, <2>3, <2>4 DEF RunInv
<1> QED
  BY <1>1, <1>3, <1>4, OneRun DEF store

(* The process dies: a run at work is over and is never listed; a deletion *)
(* that was cut off keeps what it had deleted.                             *)
LEMMA CrashStep ==
  ASSUME IInv, Crash
  PROVE  IInv'
<1>1. TypeOK /\ StoreInv /\ \A r \in Runs : RunInv(r)
  BY DEF IInv
<1>2. UNCHANGED <<files, active, saves, judged, calls, tables>> /\ saver' = [file |-> "idle"]
  BY DEF Crash
<1>3. ASSUME NEW r \in Runs
      PROVE  /\ run[r].stage \notin Working => run'[r] = run[r]
             /\ run[r].stage \in Working => run'[r] = [run[r] EXCEPT !.stage = "dead"]
             /\ forget'[r] = IF forget[r] \in {"receipts", "session"} THEN "cut" ELSE forget[r]
  BY DEF Crash
<1>4. run' \in [Runs -> Run]
  <2>1. \A r \in Runs : run'[r] \in Run
    <3> TAKE r \in Runs
    <3>1. run[r] \in Run /\ "dead" \in Stages
      BY <1>1 DEF TypeOK, Stages
    <3>2. [run[r] EXCEPT !.stage = "dead"] \in Run
      BY <3>1 DEF Run
    <3> QED
      BY <1>3, <3>1, <3>2
  <2>2. run' = [r \in Runs |-> run'[r]]
    BY DEF Crash
  <2> QED
    BY <2>1, <2>2
<1>5. TypeOK'
  <2>1. faults' \in 0 .. MaxFaults
    BY <1>1, BoundAssumption DEF Crash, TypeOK
  <2>2. forget' \in [Runs -> {"no", "receipts", "session", "cut", "done"}]
    BY <1>1 DEF Crash, TypeOK
  <2> QED
    BY <1>1, <1>2, <1>4, <2>1, <2>2 DEF TypeOK, tables
<1>6. StoreInv'
  BY <1>1, <1>2 DEF StoreInv
<1>7. ASSUME NEW r \in Runs PROVE RunInv(r)'
  <2>1. /\ RunInv(r) /\ judged'[r] = judged[r] /\ receipts'[r] = receipts[r]
        /\ costs'[r] = costs[r] /\ sessions' = sessions
    BY <1>1, <1>2 DEF tables
  <2>2. CASE run[r].stage \in Working
    <3>1. run'[r].stage = "dead" /\ run'[r].size = run[r].size /\ run'[r].drafts = run[r].drafts
      <4>1. run[r] \in Run
        BY <1>1 DEF TypeOK
      <4> QED
        BY <1>3, <2>2, <4>1 DEF Run
    <3>2. r \notin sessions /\ forget'[r] = "no"
      <4>1. run[r].stage # "done"
        BY <2>2 DEF Working
      <4> QED
        BY <1>3, <4>1, AtWork
    <3>3. PairInv(r)' /\ DraftInv(r)' /\ AskedInv(r)' /\ JudgedInv(r)'
      BY <2>1, <3>1 DEF RunInv, PairInv, DraftInv, AskedInv, JudgedInv, Working, Early, Settled
    <3>4. ReceiptInv(r)' /\ ForgetInv(r)'
      BY <2>1, <3>1, <3>2 DEF ReceiptInv, ForgetInv, Unrecorded, Early
    <3> QED
      BY <3>3, <3>4 DEF RunInv
  <2>3. CASE run[r].stage \notin Working
    <3>1. run'[r] = run[r]
      BY <1>3, <2>3
    <3>2. PairInv(r)' /\ DraftInv(r)' /\ AskedInv(r)'
      BY <2>1, <3>1 DEF RunInv, PairInv, DraftInv, AskedInv
    <3>3. JudgedInv(r)'
      BY <2>1, <3>1 DEF RunInv, JudgedInv, Judged
    <3>4. ReceiptInv(r)'
      <4>1. \A n : RowsUpTo(r, n)' = RowsUpTo(r, n)
        BY <3>1 DEF RowsUpTo, RowOf
      <4>2. forget'[r] = "no" => forget[r] = "no"
        BY <1>3
      <4> QED
        BY <2>1, <3>1, <4>1, <4>2 DEF RunInv, ReceiptInv
    <3>5. ForgetInv(r)'
      BY <1>3, <2>1, <3>1 DEF RunInv, ForgetInv
    <3> QED
      BY <3>2, <3>3, <3>4, <3>5 DEF RunInv
  <2> QED
    BY <2>2, <2>3
<1> QED
  BY <1>5, <1>6, <1>7 DEF IInv

LEMMA NextStep == IInv /\ [Next]_vars => IInv'
<1> SUFFICES ASSUME IInv, [Next]_vars PROVE IInv'
  OBVIOUS
<1>1. CASE \/ \E name \in Names, p \in Menu : save_profile(name, p)
           \/ \E name \in Names : set_active(name)
           \/ WriteText
  BY <1>1, StoreStep
<1>2. CASE \E r \in Runs, writes \in BOOLEAN : Ask(r, writes)
  BY <1>2, AskStep
<1>3. CASE \E r \in Runs : run_pipeline(r)
  <2>1. PICK r \in Runs : run_pipeline(r)
    BY <1>3
  <2>2. CASE LoadPair(r) \/ CheckEgress(r) \/ ExecutorFails(r)
    BY <2>2, LoadPairStep, CheckEgressStep, ExecutorFailsStep
  <2>3. CASE \E source \in {"none", "own", "connector"} : Retrieve(r, source)
    BY <2>3, RetrieveStep
  <2>4. CASE \E n \in 0 .. MaxClaims : Synthesize(r, n)
    BY <2>4, SynthesizeStep
  <2>5. CASE \E by \in Models, grounded \in SUBSET Claims : Validate(r, by, grounded)
    BY <2>5, ValidateStep
  <2>6. CASE ValidateNothing(r) \/ ValidatorOffline(r)
    BY <2>6, ValidateNothingStep, ValidatorOfflineStep
  <2>7. CASE WriteReceipt(r) \/ WriteCost(r) \/ record_run(r)
    BY <2>7, WriteReceiptStep, WriteCostStep, RecordRunStep
  <2> QED
    BY <2>1, <2>2, <2>3, <2>4, <2>5, <2>6, <2>7 DEF run_pipeline
<1>4. CASE \E r \in Runs : ForgetCheck(r) \/ delete_session(r)
  BY <1>4, ForgetStep
<1>5. CASE Crash
  BY <1>5, CrashStep
<1>6. CASE UNCHANGED vars
  <2>1. UNCHANGED <<files, active, saver, saves, run, judged, calls, receipts, costs,
                    sessions, forget, faults>>
    BY <1>6 DEF vars, store, tables
  <2>2. TypeOK' /\ StoreInv'
    BY <2>1 DEF IInv, TypeOK, StoreInv
  <2>3. \A r \in Runs : RunInv(r)'
    BY <2>1, RunSame DEF IInv
  <2> QED
    BY <2>2, <2>3 DEF IInv
<1> QED
  BY <1>1, <1>2, <1>3, <1>4, <1>5, <1>6 DEF Next

-----------------------------------------------------------------------------
(* Every variable stays within its type, and the inductive invariant holds *)
(* on every run of the store, the pipeline and the deletions.              *)
THEOREM PipelineInvariant == Spec => []IInv
BY InitInv, NextStep, PTL DEF Spec

(* Executor Contract A for every run, any pair of models and any length of *)
(* the drafts: what run_pipeline returns is verbatim evidence, or one      *)
(* model of another family than the writer's found all its sentences       *)
(* grounded in that very text, whatever is saved or fails on the way.      *)
THEOREM NoUnjudgedTextShips == Spec => []OnlyJudgedTextShips
<1>1. IInv => OnlyJudgedTextShips
  <2> SUFFICES ASSUME IInv, NEW r \in Runs,
                      run[r].stage = "done", run[r].text # "extract", run[r].size > 0
               PROVE  \E j \in judged[r] :
                        /\ j.text = run[r].text /\ j.grounded = 1 .. run[r].size
                        /\ Family[j.by] # Family[run[r].profile.executor]
    BY DEF OnlyJudgedTextShips, Returned
  <2> QED
    BY DEF IInv, RunInv, JudgedInv, Judged, Settled
<1> QED
  BY <1>1, PipelineInvariant, PTL

(* The texts a validator was asked about are no more than the drafts.      *)
LEMMA DraftsCount ==
  ASSUME IInv, NEW r \in Runs
  PROVE  Cardinality({j.text : j \in judged[r]}) <= run[r].drafts
<1> DEFINE texts == {j.text : j \in judged[r]}
<1>1. Asked(judged[r], run[r].drafts) /\ run[r].drafts \in 0 .. 2
  BY RunShape DEF IInv, RunInv, AskedInv, IsRun
<1>2. CASE run[r].drafts = 0
  <2>1. texts = {}
    BY <1>1, <1>2 DEF Asked
  <2> QED
    BY <1>2, <2>1, FS_EmptySet
<1>3. CASE run[r].drafts = 1
  <2>1. texts \in SUBSET {"draft1"}
    BY <1>1, <1>3 DEF Asked
  <2>2. IsFiniteSet({"draft1"}) /\ Cardinality({"draft1"}) = 1
    BY FS_Singleton
  <2> HIDE DEF texts
  <2>3. Cardinality(texts) <= 1
    BY <2>1, <2>2, FS_Subset
  <2> QED
    BY <1>3, <2>3 DEF texts
<1>4. CASE run[r].drafts = 2
  <2>1. texts \in SUBSET ({"draft1"} \cup {"draft2"})
    BY <1>1, <1>4 DEF Asked
  <2>2. IsFiniteSet({"draft1"}) /\ Cardinality({"draft1"}) = 1
    BY FS_Singleton
  <2>3. IsFiniteSet({"draft1"} \cup {"draft2"}) /\ Cardinality({"draft1"} \cup {"draft2"}) = 2
    BY <2>2, FS_AddElement
  <2> HIDE DEF texts
  <2>4. Cardinality(texts) <= 2
    BY <2>1, <2>3, FS_Subset
  <2> QED
    BY <1>4, <2>4 DEF texts
<1> QED
  BY <1>1, <1>2, <1>3, <1>4

(* The Session Browser lists a run only with all its receipts, those of    *)
(* the text it shipped, and a cost row that counts the drafts a validator  *)
(* was asked about, until a deletion of the run has begun.                 *)
THEOREM ListedRunsAreProvable == Spec => []ListedRunIsProvable
<1>1. IInv => ListedRunIsProvable
  <2> SUFFICES ASSUME IInv, NEW r \in sessions, forget[r] = "no", run[r].kind # "empty"
               PROVE  /\ {row.sentence : row \in receipts[r]} = 1 .. run[r].size
                      /\ \A row \in receipts[r] :
                           /\ row.text = run[r].text
                           /\ row.pass = (row.sentence \in run[r].grounded)
                      /\ costs[r] # None
                      /\ Cardinality({j.text : j \in judged[r]}) <= costs[r]
    BY DEF ListedRunIsProvable
  <2>1. r \in Runs /\ RunInv(r)
    BY DEF IInv, TypeOK
  <2>2. receipts[r] = RowsUpTo(r, run[r].size) /\ costs[r] = run[r].drafts
    BY <2>1 DEF RunInv, ForgetInv, ReceiptInv
  <2>3. run[r].size \in Nat /\ run[r].drafts \in Nat
    <3>1. run[r].size \in 0 .. MaxClaims + 1 /\ run[r].drafts \in 0 .. 2
      BY <2>1, RunShape DEF IsRun
    <3>2. MaxClaims + 1 \in Nat
      BY BoundAssumption
    <3> QED
      BY <3>1, <3>2
  <2>4. {row.sentence : row \in receipts[r]} = 1 .. run[r].size
    BY <2>2, <2>3, RowsCount
  <2>5. \A row \in receipts[r] :
          row.text = run[r].text /\ row.pass = (row.sentence \in run[r].grounded)
    BY <2>2 DEF RowsUpTo, RowOf
  <2>6. costs[r] # None /\ Cardinality({j.text : j \in judged[r]}) <= costs[r]
    BY <2>1, <2>2, <2>3, DraftsCount, AbsenceAssumption
  <2> QED
    BY <2>4, <2>5, <2>6
<1> QED
  BY <1>1, PipelineInvariant, PTL

(* A session that delete_session reported as gone stays gone, however the  *)
(* run that made it and the deletions are interleaved or cut off.          *)
THEOREM GoneStaysGone == Spec => []ForgottenForGood
<1>1. IInv => ForgottenForGood
  BY DEF IInv, RunInv, ForgetInv, ForgottenForGood
<1> QED
  BY <1>1, PipelineInvariant, PTL
=============================================================================
