-------------------------- MODULE ApprovalsProofs --------------------------
(***************************************************************************)
(* Theorems about Approvals, for every number of cards, request threads,   *)
(* tools and faults.                                                       *)
(***************************************************************************)
EXTENDS TrayHistory, SequenceTheorems, WellFoundedInduction, TLAPS

-----------------------------------------------------------------------------
(* The risk rules hold for every tool a manifest can list (ToolRisk).      *)

(* The tier the verbs point to: the riskiest of the shapes that occur.     *)
LEMMA InferredTier ==
  ASSUME NEW tool \in Tool, candidates(tool) # {}
  PROVE  /\ infer_tier(tool) \in candidates(tool)
         /\ \A other \in candidates(tool) : Rank[other] <= Rank[infer_tier(tool)]
<1> DEFINE Top(tier) == \A other \in candidates(tool) : Rank[other] <= Rank[tier]
<1>1. /\ Rank["read"] = 0 /\ Rank["write_local"] = 1
      /\ Rank["exec"] = 2 /\ Rank["external"] = 3
  BY DEF Rank
<1>2. candidates(tool) \subseteq {"read", "exec", "external"}
  BY DEF candidates
<1>3. \E tier \in candidates(tool) : Top(tier)
  <2>1. CASE "external" \in candidates(tool)
    BY <1>1, <1>2, <2>1
  <2>2. CASE "external" \notin candidates(tool) /\ "exec" \in candidates(tool)
    BY <1>1, <1>2, <2>2
  <2>3. CASE candidates(tool) = {"read"}
    BY <1>1, <2>3
  <2> QED
    BY <1>2, <2>1, <2>2, <2>3
<1> QED
  BY <1>3 DEF infer_tier

(* Only a tool whose verbs are all pull verbs, and which its manifest does *)
(* not declare riskier than a read, runs without the tray.                 *)
THEOREM PlainPullsOnly == UngatedIsPlainPull
<1> SUFFICES ASSUME NEW tool \in Tool, ~Gated(tool)
             PROVE  tool.shapes = {"pull"} /\ tool.declared \in {"read", Undeclared}
  BY DEF UngatedIsPlainPull, PlainPull
<1>1. /\ "spend" \notin tool.shapes /\ "write" \notin tool.shapes
      /\ "pull" \in tool.shapes
  BY DEF Gated, classify_tool
<1>2. resolve_tier(tool) = "read"
  BY DEF Gated, requires_approval
<1>3. "read" \in candidates(tool) /\ ("exec" \in tool.shapes => "exec" \in candidates(tool))
  BY <1>1 DEF candidates
<1>4. /\ Rank["read"] = 0 /\ Rank["write_local"] = 1
      /\ Rank["exec"] = 2 /\ Rank["external"] = 3
  BY DEF Rank
<1>5. tool.declared \in Tiers \cup {Undeclared} /\ tool.shapes \subseteq Shapes
  BY DEF Tool
<1>6. infer_tier(tool) \in {"read", "exec", "external"}
  BY <1>3, InferredTier DEF candidates
<1>7. infer_tier(tool) = "read"
  BY <1>2, <1>3, <1>4, <1>5, <1>6 DEF resolve_tier, riskier, Tiers
<1>8. "exec" \notin tool.shapes
  BY <1>3, <1>4, <1>7, InferredTier
<1>9. tool.declared \in {"read", Undeclared}
  BY <1>2, <1>3, <1>4, <1>5, <1>7 DEF resolve_tier, riskier, Tiers
<1> QED
  BY <1>1, <1>5, <1>8, <1>9 DEF Shapes

(* No declaration makes a tool less risky than its verbs or than itself.   *)
THEOREM NoDowngrade == DeclarationNeverDowngrades
<1> SUFFICES ASSUME NEW tool \in Tool
             PROVE  /\ candidates(tool) # {} =>
                         Rank[resolve_tier(tool)] >= Rank[infer_tier(tool)]
                    /\ tool.declared # Undeclared =>
                         Rank[resolve_tier(tool)] >= Rank[tool.declared]
  BY DEF DeclarationNeverDowngrades
<1>1. /\ Rank["read"] = 0 /\ Rank["write_local"] = 1
      /\ Rank["exec"] = 2 /\ Rank["external"] = 3
  BY DEF Rank
<1>2. tool.declared # Undeclared => tool.declared \in Tiers
  BY DEF Tool
<1>3. candidates(tool) # {} => infer_tier(tool) \in Tiers
  BY InferredTier DEF candidates, Tiers
<1> QED
  BY <1>1, <1>2, <1>3 DEF resolve_tier, riskier, Tiers

-----------------------------------------------------------------------------
(* The tray and the gate.                                                  *)

(* A row is on record when a receipt says that its approval was executed;  *)
(* only a kind with an executor gets there.                                *)
OnRecord(r) == r \in Rows /\ Receipted(r) /\ kind[r] \in Executable

(* What a decider knows at each step of decide(): the row exists, so its   *)
(* kind no longer changes; an executor runs only for an approval; by the   *)
(* time the row is updated to approved the receipt is there.               *)
JobOK(d) ==
  LET j == job[d]
  IN /\ j.step # "idle" => status[j.row] # "absent"
     /\ j.step \in {"open", "flush", "receipt"} => j.decision = "approved"
     /\ j.step \in {"open", "flush"} => kind[j.row] \in FileKinds
     /\ j.step = "receipt" => kind[j.row] \in Executable
     /\ j.step = "update" /\ j.decision = "approved" => OnRecord(j.row)

JobInv == \A d \in Deciders : JobOK(d)

(* The path a decider is about to put on the receipt.                      *)
NamesFileOf(p, r) == p \in Paths /\ p[1] = kind[r] /\ files[p] # "nofile"

PathOK(d) ==
  LET j == job[d]
  IN /\ j.step = "flush" => NamesFileOf(j.path, j.row)
     /\ j.step = "receipt" =>
          IF kind[j.row] \in FileKinds THEN NamesFileOf(j.path, j.row)
                                       ELSE j.path = NoPath

PathInv == \A d \in Deciders : PathOK(d)

ReceiptInv ==
  /\ \A i \in DOMAIN receipts : status[receipts[i].row] # "absent"
  /\ \A r \in Rows : status[r] = "approved" => OnRecord(r)

(* A gated tool that has passed the gate carries a row that is on record.  *)
CallOK(c) ==
  call[c].step # "idle" /\ Gated(call[c].tool) => OnRecord(call[c].row)

GateInv == (\A c \in Callers : CallOK(c)) /\ GatedCallIsOnRecord

IInv == TypeOK /\ JobInv /\ PathInv /\ ReceiptInv /\ ReceiptNamesAFile /\ GateInv

(* A job that is under way is a full record, and one step of it stays one. *)
LEMMA JobShape ==
  ASSUME TypeOK, NEW d \in Deciders, job[d].step # "idle"
  PROVE  /\ job[d] \in Job
         /\ job[d].row \in Rows
         /\ job[d].decision \in Decisions
         /\ job[d].path \in Paths \cup {NoPath}
BY DEF TypeOK, Job, Idle

LEMMA CallShape ==
  ASSUME TypeOK, NEW c \in Callers, call[c].step # "idle"
  PROVE  /\ call[c] \in InCall
         /\ call[c].tool \in Tools
         /\ call[c].row \in Rows \cup {NoRow}
BY DEF TypeOK, InCall, Idle

(* The initial state.                                                      *)
LEMMA InitInv == Init => IInv
<1> SUFFICES ASSUME Init PROVE IInv
  OBVIOUS
<1> USE DEF Init, Idle
<1>1. TypeOK
  BY BoundAssumption DEF TypeOK, Contents, Kinds
<1>2. JobInv /\ PathInv
  BY DEF JobInv, JobOK, PathInv, PathOK
<1>3. ReceiptInv /\ ReceiptNamesAFile
  BY DEF ReceiptInv, ReceiptNamesAFile
<1>4. GateInv
  BY DEF GateInv, CallOK, GatedCallIsOnRecord
<1> QED
  BY <1>1, <1>2, <1>3, <1>4 DEF IInv

(* Every step keeps the types.                                             *)
LEMMA TypeStep == TypeOK /\ JobInv /\ [Next]_vars => TypeOK'
<1> SUFFICES ASSUME TypeOK, JobInv, [Next]_vars PROVE TypeOK'
    OBVIOUS
<1>1. ASSUME NEW r \in Rows, NEW k \in Kinds, create_approval(r, k) PROVE TypeOK'
  BY <1>1 DEF create_approval, TypeOK, disk, host, world
<1>2. ASSUME NEW d \in Deciders, NEW r \in Rows, NEW decision \in Decisions,
             DecideRead(d, r, decision)
      PROVE TypeOK'
  BY <1>2 DEF DecideRead, TypeOK, Job, tray, disk, host, world
<1>3. ASSUME NEW d \in Deciders, OpenArtifact(d) PROVE TypeOK'
  <2> DEFINE p == <<kind[job[d].row], clock>>
  <2>1. job[d] \in Job /\ job[d].row \in Rows
    BY <1>3, JobShape DEF OpenArtifact
  <2>2. p \in Paths
    BY <1>3, <2>1 DEF OpenArtifact, JobInv, JobOK, TypeOK, Paths
  <2>3. [job[d] EXCEPT !.step = "flush", !.path = p] \in Job
    BY <2>1, <2>2 DEF Job
  <2>4. job' \in [Deciders -> Job \cup {Idle}]
    BY <1>3, <2>3 DEF OpenArtifact, TypeOK
  <2>5. files' \in [Paths -> Contents]
    BY <1>3 DEF OpenArtifact, TypeOK, Contents
  <2> QED
    BY <1>3, <2>4, <2>5 DEF OpenArtifact, TypeOK, tray, host, world
<1>4. ASSUME NEW d \in Deciders, FlushArtifact(d) PROVE TypeOK'
  <2>1. job[d] \in Job /\ job[d].row \in Contents /\ "mixed" \in Contents
    BY <1>4, JobShape DEF FlushArtifact, Contents
  <2>2. files' \in [Paths -> Contents]
    BY <1>4, <2>1 DEF FlushArtifact, TypeOK
  <2>3. [job[d] EXCEPT !.step = "receipt"] \in Job
    BY <2>1 DEF Job
  <2>4. job' \in [Deciders -> Job \cup {Idle}]
    BY <1>4, <2>3 DEF FlushArtifact, TypeOK
  <2> QED
    BY <1>4, <2>2, <2>4 DEF FlushArtifact, TypeOK, tray, host, world
<1>5. ASSUME NEW d \in Deciders, InsertReceipt(d) PROVE TypeOK'
  BY <1>5, JobShape DEF InsertReceipt, TypeOK, Job, tray, host, world, Receipt
<1>6. ASSUME NEW d \in Deciders, UpdateStatus(d) PROVE TypeOK'
  BY <1>6, JobShape DEF UpdateStatus, TypeOK, disk, host, world
<1>7. ASSUME NEW c \in Callers, NEW tool \in Tools, NEW r \in Rows \cup {NoRow},
             GateCheck(c, tool, r)
      PROVE TypeOK'
  BY <1>7 DEF GateCheck, TypeOK, InCall, tray, disk, world
<1>8. ASSUME NEW c \in Callers, SendCall(c) PROVE TypeOK'
  <2>1. /\ call[c] \in InCall
        /\ call[c].tool \in Tools
        /\ call[c].row \in Rows \cup {NoRow}
    BY <1>8, CallShape DEF SendCall
  <2>2. [call[c] EXCEPT !.step = "store"] \in InCall
    BY <2>1 DEF InCall
  <2>3. call' \in [Callers -> InCall \cup {Idle}]
    BY <1>8, <2>2 DEF SendCall, TypeOK
  <2>4. sent' \subseteq Tools \X (Rows \cup {NoRow})
    BY <1>8, <2>1 DEF SendCall, TypeOK
  <2> QED
    BY <1>8, <2>3, <2>4 DEF SendCall, TypeOK, tray, disk, world
<1>9. ASSUME NEW c \in Callers, CallFails(c) PROVE TypeOK'
  BY <1>9, CallShape DEF CallFails, TypeOK, tray, disk, world
<1>10. ASSUME NEW c \in Callers, StoreResult(c) PROVE TypeOK'
  BY <1>10, CallShape DEF StoreResult, TypeOK, tray, disk, world
<1>11. ASSUME NEW d \in Deciders, DecideFails(d) PROVE TypeOK'
  BY <1>11, BoundAssumption DEF DecideFails, TypeOK, tray, disk, host
<1>12. CASE Tick
    BY <1>12, BoundAssumption DEF Tick, TypeOK, tray, disk, host
<1>13. CASE Crash
    BY <1>13, BoundAssumption DEF Crash, TypeOK, tray, disk
<1>14. CASE UNCHANGED vars
    BY <1>14 DEF vars, TypeOK, tray, disk, host, world
<1> QED
    BY <1>1, <1>2, <1>3, <1>4, <1>5, <1>6, <1>7, <1>8, <1>9, <1>10, <1>11,
     <1>12, <1>13, <1>14 DEF Next, decide, call_tool

(* What no step undoes: a row stays in the table with its kind, a file     *)
(* stays in the directory, and the receipts only grow, by a receipt for    *)
(* the decider that is at that step.                                       *)
Growth ==
  /\ \A r \in Rows : status[r] # "absent" =>
       status'[r] # "absent" /\ kind'[r] = kind[r]
  /\ \A p \in Paths : files[p] # "nofile" => files'[p] # "nofile"
  /\ \/ receipts' = receipts
     \/ \E d \in Deciders :
          /\ job[d].step = "receipt"
          /\ receipts' = Append(receipts, [row |-> job[d].row, path |-> job[d].path])

LEMMA StepGrows == TypeOK /\ [Next]_vars => Growth
<1> SUFFICES ASSUME TypeOK, [Next]_vars PROVE Growth
  OBVIOUS
<1> USE DEF TypeOK
<1>1. ASSUME NEW r \in Rows, NEW k \in Kinds, create_approval(r, k) PROVE Growth
  BY <1>1 DEF create_approval, Growth, disk
<1>2. ASSUME NEW d \in Deciders, OpenArtifact(d) PROVE Growth
  BY <1>2 DEF OpenArtifact, Growth, tray
<1>3. ASSUME NEW d \in Deciders, FlushArtifact(d) PROVE Growth
  BY <1>3, JobShape, ContentAssumption DEF FlushArtifact, Growth, tray
<1>4. ASSUME NEW d \in Deciders, InsertReceipt(d) PROVE Growth
  BY <1>4 DEF InsertReceipt, Growth, tray
<1>5. ASSUME NEW d \in Deciders, UpdateStatus(d) PROVE Growth
  BY <1>5, JobShape DEF UpdateStatus, Growth, disk, Decisions
<1>6. CASE UNCHANGED <<tray, disk>>
  BY <1>6 DEF Growth, tray, disk
<1> QED
  BY <1>1, <1>2, <1>3, <1>4, <1>5, <1>6
     DEF Next, decide, call_tool, DecideRead, GateCheck, SendCall, CallFails,
         StoreResult, DecideFails, Tick, Crash, vars, host, world

(* The receipts only grow.                                                 *)
LEMMA ReceiptsStay ==
  ASSUME TypeOK, Growth
  PROVE  /\ \A i \in DOMAIN receipts : i \in DOMAIN receipts' /\ receipts'[i] = receipts[i]
         /\ \A i \in DOMAIN receipts' :
              \/ i \in DOMAIN receipts
              \/ \E d \in Deciders :
                   /\ job[d].step = "receipt"
                   /\ receipts'[i] = [row |-> job[d].row, path |-> job[d].path]
<1>1. CASE receipts' = receipts
  BY <1>1
<1>2. ASSUME NEW d \in Deciders, job[d].step = "receipt",
             receipts' = Append(receipts, [row |-> job[d].row, path |-> job[d].path])
      PROVE  /\ \A i \in DOMAIN receipts : i \in DOMAIN receipts' /\ receipts'[i] = receipts[i]
             /\ \A i \in DOMAIN receipts' : i \in DOMAIN receipts
                  \/ receipts'[i] = [row |-> job[d].row, path |-> job[d].path]
  <2> DEFINE e == [row |-> job[d].row, path |-> job[d].path]
  <2>1. receipts \in Seq(Receipt) /\ e \in Receipt
    BY <1>2, JobShape DEF TypeOK, Receipt
  <2> HIDE DEF e
  <2>2. /\ Len(Append(receipts, e)) = Len(receipts) + 1
        /\ \A i \in 1 .. Len(receipts) : Append(receipts, e)[i] = receipts[i]
        /\ Append(receipts, e)[Len(receipts) + 1] = e
        /\ Append(receipts, e) \in Seq(Receipt)
    BY <2>1, AppendProperties
  <2>3. /\ DOMAIN receipts = 1 .. Len(receipts)
        /\ DOMAIN Append(receipts, e) = 1 .. Len(receipts) + 1
        /\ Len(receipts) \in Nat
    BY <2>1, <2>2
  <2>4. receipts' = Append(receipts, e)
    BY <1>2 DEF e
  <2>5. \A i \in DOMAIN receipts' : i \in DOMAIN receipts \/ receipts'[i] = e
    BY <2>2, <2>3, <2>4
  <2> QED
    BY <2>2, <2>3, <2>4, <2>5 DEF e
<1> QED
  BY <1>1, <1>2 DEF Growth

(* A row that has a receipt keeps it, and a row on record stays on record. *)
LEMMA RecordStays ==
  ASSUME TypeOK, ReceiptInv, Growth, NEW r, OnRecord(r)
  PROVE  OnRecord(r)'
<1>1. PICK i \in DOMAIN receipts : receipts[i].row = r
  BY DEF OnRecord, Receipted
<1>2. r \in Rows /\ status[r] # "absent"
  BY <1>1 DEF OnRecord, ReceiptInv
<1>3. kind'[r] = kind[r]
  BY <1>2 DEF Growth
<1>4. i \in DOMAIN receipts' /\ receipts'[i] = receipts[i]
  BY <1>1, ReceiptsStay
<1> QED
  BY <1>1, <1>3, <1>4 DEF OnRecord, Receipted

(* A step leaves a decider's job alone, ends it, or is its next statement. *)
LEMMA JobMoves ==
  ASSUME TypeOK, [Next]_vars, NEW d \in Deciders
  PROVE  \/ job'[d] = job[d]
         \/ job'[d] = Idle
         \/ \E r \in Rows, decision \in Decisions : DecideRead(d, r, decision)
         \/ OpenArtifact(d)
         \/ FlushArtifact(d)
         \/ InsertReceipt(d)
<1> USE DEF TypeOK
<1>1. ASSUME NEW e \in Deciders, NEW r \in Rows, NEW decision \in Decisions,
             DecideRead(e, r, decision), e # d
      PROVE  job'[d] = job[d]
  BY <1>1 DEF DecideRead
<1>2. ASSUME NEW e \in Deciders, decide(e), e # d PROVE job'[d] = job[d]
  BY <1>2 DEF decide, OpenArtifact, FlushArtifact, InsertReceipt, UpdateStatus
<1>3. ASSUME UpdateStatus(d) PROVE job'[d] = Idle
  BY <1>3 DEF UpdateStatus
<1>4. ASSUME NEW e \in Deciders, DecideFails(e) PROVE job'[d] = job[d] \/ job'[d] = Idle
  BY <1>4 DEF DecideFails
<1>5. ASSUME Crash PROVE job'[d] = Idle
  BY <1>5 DEF Crash
<1>6. CASE UNCHANGED job
  BY <1>6
<1> QED
  BY <1>1, <1>2, <1>3, <1>4, <1>5, <1>6
     DEF Next, decide, call_tool, create_approval, GateCheck, SendCall, CallFails,
         StoreResult, Tick, vars

(* decide() keeps JobInv: what a decider has read stays true of the row.   *)
LEMMA JobStep ==
  ASSUME IInv, [Next]_vars, Growth, NEW d \in Deciders
  PROVE  JobOK(d)'
<1> USE DEF IInv
<1>1. CASE job'[d] = job[d]
  <2>1. CASE job[d].step = "idle"
    BY <1>1, <2>1 DEF JobOK
  <2>2. CASE job[d].step # "idle"
    <3>1. PICK r \in Rows : r = job[d].row
      BY <2>2, JobShape
    <3>2. JobOK(d)
      BY DEF JobInv
    <3>3. OnRecord(r) => OnRecord(r)'
      BY RecordStays
    <3> QED
      BY <1>1, <2>2, <3>1, <3>2, <3>3 DEF JobOK, Growth
  <2> QED
    BY <2>1, <2>2
<1>2. CASE job'[d] = Idle
  BY <1>2 DEF JobOK, Idle
<1>3. ASSUME NEW r \in Rows, NEW decision \in Decisions, DecideRead(d, r, decision)
      PROVE  JobOK(d)'
  BY <1>3 DEF DecideRead, JobOK, TypeOK, Decisions, Pending, tray
<1>4. CASE OpenArtifact(d)
  BY <1>4, JobShape DEF OpenArtifact, JobInv, JobOK, TypeOK, tray
<1>5. CASE FlushArtifact(d)
  BY <1>5, JobShape DEF FlushArtifact, JobInv, JobOK, TypeOK, tray, Executable
<1>6. CASE InsertReceipt(d)
  <2>1. PICK r \in Rows : r = job[d].row
    BY <1>6, JobShape DEF InsertReceipt
  <2>2. job[d] \in Job /\ JobOK(d)
    BY <1>6, JobShape DEF InsertReceipt, JobInv
  <2>3. job'[d].step = "update" /\ job'[d].row = r
    BY <1>6, <2>1, <2>2 DEF InsertReceipt, TypeOK, Job
  <2>4. Receipted(r)'
    <3> DEFINE e == [row |-> job[d].row, path |-> job[d].path]
    <3>1. receipts \in Seq(Receipt) /\ e \in Receipt
      BY <1>6, JobShape DEF InsertReceipt, TypeOK, Receipt
    <3>2. receipts' = Append(receipts, e) /\ e.row = r
      BY <1>6, <2>1 DEF InsertReceipt
    <3> HIDE DEF e
    <3>3. Len(receipts) + 1 \in DOMAIN receipts' /\ receipts'[Len(receipts) + 1] = e
      BY <3>1, <3>2, AppendProperties
    <3> QED
      BY <3>2, <3>3 DEF Receipted
  <2>5. OnRecord(r)'
    BY <1>6, <2>1, <2>2, <2>4 DEF OnRecord, InsertReceipt, tray, JobOK
  <2>6. status'[r] # "absent"
    BY <1>6, <2>1, <2>2 DEF InsertReceipt, tray, JobOK
  <2> QED
    BY <2>3, <2>5, <2>6 DEF JobOK
<1> QED
  BY <1>1, <1>2, <1>3, <1>4, <1>5, <1>6, JobMoves

(* The path decide() carries from the executor to the receipt names a file *)
(* of the row's kind that is there.                                        *)
LEMMA PathStep ==
  ASSUME IInv, [Next]_vars, Growth, NEW d \in Deciders
  PROVE  PathOK(d)'
<1> USE DEF IInv
<1>1. CASE job'[d] = job[d]
  <2>1. CASE job[d].step = "idle"
    BY <1>1, <2>1 DEF PathOK
  <2>2. CASE job[d].step # "idle"
    <3>1. JobOK(d) /\ PathOK(d) /\ job[d].row \in Rows
      BY <2>2, JobShape DEF JobInv, PathInv
    <3>2. kind'[job[d].row] = kind[job[d].row]
      BY <2>2, <3>1 DEF JobOK, Growth
    <3> QED
      BY <1>1, <3>1, <3>2 DEF PathOK, NamesFileOf, Growth
  <2> QED
    BY <2>1, <2>2
<1>2. CASE job'[d] = Idle
  BY <1>2 DEF PathOK, Idle
<1>3. ASSUME NEW r \in Rows, NEW decision \in Decisions, DecideRead(d, r, decision)
      PROVE  PathOK(d)'
  BY <1>3 DEF DecideRead, PathOK, TypeOK, tray
<1>4. CASE OpenArtifact(d)
  <2> DEFINE p == <<kind[job[d].row], clock>>
  <2>1. job[d] \in Job /\ JobOK(d)
    BY <1>4, JobShape DEF OpenArtifact, JobInv
  <2>2. p \in Paths /\ p[1] = kind[job[d].row]
    BY <1>4, <2>1 DEF OpenArtifact, JobOK, TypeOK, Paths
  <2>3. files'[p] = "empty"
    BY <1>4, <2>2 DEF OpenArtifact, TypeOK
  <2>4. job'[d].step = "flush" /\ job'[d].row = job[d].row /\ job'[d].path = p
    BY <1>4, <2>1 DEF OpenArtifact, TypeOK, Job
  <2>5. kind' = kind
    BY <1>4 DEF OpenArtifact, tray
  <2> HIDE DEF p
  <2> QED
    BY <2>2, <2>3, <2>4, <2>5 DEF PathOK, NamesFileOf
<1>5. CASE FlushArtifact(d)
  <2>1. job[d] \in Job /\ JobOK(d) /\ PathOK(d)
    BY <1>5, JobShape DEF FlushArtifact, JobInv, PathInv
  <2>2. /\ job'[d].step = "receipt"
        /\ job'[d].row = job[d].row
        /\ job'[d].path = job[d].path
        /\ kind' = kind
    BY <1>5, <2>1 DEF FlushArtifact, TypeOK, Job, tray
  <2> QED
    BY <1>5, <2>1, <2>2 DEF FlushArtifact, PathOK, JobOK, NamesFileOf, Growth
<1>6. CASE InsertReceipt(d)
  BY <1>6, JobShape DEF InsertReceipt, PathOK, TypeOK
<1> QED
  BY <1>1, <1>2, <1>3, <1>4, <1>5, <1>6, JobMoves

(* Every receipt belongs to a row of the table and names its artifact.     *)
LEMMA ReceiptStep ==
  ASSUME IInv, Growth, TypeOK', NEW i \in DOMAIN receipts'
  PROVE  /\ (status[receipts[i].row] # "absent")'
         /\ (LET receipt == receipts[i]
             IN IF kind[receipt.row] \in FileKinds THEN NamesFileOf(receipt.path, receipt.row)
                                                   ELSE receipt.path = NoPath)'
<1> USE DEF IInv
<1>1. CASE i \in DOMAIN receipts
  <2>1. receipts'[i] = receipts[i] /\ receipts[i] \in Receipt
    BY <1>1, ReceiptsStay DEF TypeOK
  <2>2. receipts[i].row \in Rows /\ status[receipts[i].row] # "absent"
    BY <1>1, <2>1 DEF ReceiptInv, Receipt
  <2> QED
    BY <1>1, <2>1, <2>2 DEF Growth, ReceiptNamesAFile, NamesFileOf
<1>2. ASSUME NEW d \in Deciders, job[d].step = "receipt",
             receipts'[i] = [row |-> job[d].row, path |-> job[d].path]
      PROVE  /\ (status[receipts[i].row] # "absent")'
             /\ (LET receipt == receipts[i]
                 IN IF kind[receipt.row] \in FileKinds
                    THEN NamesFileOf(receipt.path, receipt.row)
                    ELSE receipt.path = NoPath)'
  <2>1. JobOK(d) /\ PathOK(d) /\ job[d].row \in Rows
    BY <1>2, JobShape DEF JobInv, PathInv
  <2>2. /\ receipts'[i].row = job[d].row
        /\ receipts'[i].path = job[d].path
    BY <1>2
  <2>3. /\ kind'[job[d].row] = kind[job[d].row]
        /\ status'[job[d].row] # "absent"
    BY <1>2, <2>1 DEF JobOK, Growth
  <2> QED
    BY <1>2, <2>1, <2>2, <2>3 DEF PathOK, NamesFileOf, Growth
<1> QED
  BY <1>1, <1>2, ReceiptsStay

(* Only decide() makes a row approved, and it does so after its receipt.   *)
LEMMA ApprovedStep ==
  ASSUME IInv, [Next]_vars, Growth, NEW r \in Rows, status'[r] = "approved"
  PROVE  OnRecord(r)'
<1> USE DEF IInv
<1>1. CASE status[r] = "approved"
  BY <1>1, RecordStays DEF ReceiptInv
<1>2. ASSUME NEW d \in Deciders, UpdateStatus(d), status[r] # "approved"
      PROVE  OnRecord(r)
  <2>1. JobOK(d) /\ job[d].row \in Rows
    BY <1>2, JobShape DEF UpdateStatus, JobInv
  <2> QED
    BY <1>2, <2>1 DEF UpdateStatus, JobOK, TypeOK
<1>3. ASSUME NEW q \in Rows, NEW k \in Kinds, create_approval(q, k) PROVE status[r] = "approved"
  BY <1>3 DEF create_approval, TypeOK
<1>4. CASE UNCHANGED status
  BY <1>1, <1>4
<1> QED
  BY <1>1, <1>2, <1>3, <1>4, RecordStays
     DEF Next, decide, call_tool, DecideRead, OpenArtifact, FlushArtifact, InsertReceipt,
         GateCheck, SendCall, CallFails, StoreResult, DecideFails, Tick, Crash, vars, tray

(* The gate reads the row's status, so what passes it is on record.        *)
LEMMA CallStep ==
  ASSUME IInv, [Next]_vars, Growth, NEW c \in Callers
  PROVE  CallOK(c)'
<1> USE DEF IInv
<1>1. ASSUME call'[c].step # "idle", call'[c].tool = call[c].tool,
             call'[c].row = call[c].row, call[c].step # "idle"
      PROVE  CallOK(c)'
  <2>1. CallOK(c)
    BY DEF GateInv
  <2>2. CASE Gated(call[c].tool)
    <3>1. PICK r \in Rows : r = call[c].row
      BY <1>1, <2>1, <2>2 DEF CallOK, OnRecord
    <3>2. OnRecord(r)'
      BY <1>1, <2>1, <2>2, <3>1, RecordStays DEF CallOK
    <3> QED
      BY <1>1, <3>1, <3>2 DEF CallOK
  <2>3. CASE ~Gated(call[c].tool)
    BY <1>1, <2>3 DEF CallOK, Gated, classify_tool, resolve_tier, candidates,
                      infer_tier, riskier, requires_approval
  <2> QED
    BY <2>2, <2>3
<1>2. CASE call'[c] = Idle
  BY <1>2 DEF CallOK, Idle
<1>3. CASE call'[c] = call[c]
  <2>1. CASE call[c].step = "idle"
    BY <1>3, <2>1 DEF CallOK
  <2>2. CASE call[c].step # "idle"
    BY <1>1, <1>3, <2>2
  <2> QED
    BY <2>1, <2>2
<1>4. ASSUME NEW tool \in Tools, NEW r \in Rows \cup {NoRow}, GateCheck(c, tool, r)
      PROVE  CallOK(c)'
  <2>1. call'[c].tool = tool /\ call'[c].row = r
    BY <1>4 DEF GateCheck, TypeOK
  <2>2. Gated(tool) => r \in Rows /\ OnRecord(r)'
    BY <1>4, RecordStays DEF GateCheck, ReceiptInv
  <2> QED
    BY <2>1, <2>2 DEF CallOK
<1>5. CASE SendCall(c)
  <2>1. call[c] \in InCall
    BY <1>5, CallShape DEF SendCall
  <2>2. /\ call'[c].step = "store"
        /\ call'[c].tool = call[c].tool
        /\ call'[c].row = call[c].row
    BY <1>5, <2>1 DEF SendCall, TypeOK, InCall
  <2> QED
    BY <1>1, <1>5, <2>2 DEF SendCall
<1>6. ASSUME NEW e \in Callers, e # c, SendCall(e) \/ CallFails(e) \/ StoreResult(e)
      PROVE  call'[c] = call[c]
  BY <1>6 DEF SendCall, CallFails, StoreResult, TypeOK
<1>7. ASSUME NEW e \in Callers, NEW tool \in Tools, NEW r \in Rows \cup {NoRow},
             GateCheck(e, tool, r), e # c
      PROVE  call'[c] = call[c]
  BY <1>7 DEF GateCheck, TypeOK
<1>8. CASE CallFails(c) \/ StoreResult(c) \/ Crash
  BY <1>2, <1>8 DEF CallFails, StoreResult, Crash, TypeOK
<1>9. CASE UNCHANGED call
  BY <1>3, <1>9
<1> QED
  BY <1>2, <1>3, <1>4, <1>5, <1>6, <1>7, <1>8, <1>9
     DEF Next, decide, call_tool, create_approval, DecideRead, OpenArtifact, FlushArtifact,
         InsertReceipt, UpdateStatus, DecideFails, Tick, vars, host

(* What reached the connector, or came back, had passed the gate.          *)
LEMMA SentStep ==
  ASSUME IInv, [Next]_vars, Growth,
         NEW pair \in sent' \cup results', Gated(pair[1])
  PROVE  OnRecord(pair[2])'
<1> USE DEF IInv
<1>1. CASE pair \in sent \cup results
  <2>1. OnRecord(pair[2])
    BY <1>1 DEF GateInv, GatedCallIsOnRecord, OnRecord
  <2> QED
    BY <2>1, RecordStays
<1>2. ASSUME NEW c \in Callers, call[c].step # "idle",
             pair = <<call[c].tool, call[c].row>>
      PROVE  OnRecord(pair[2])'
  <2>1. OnRecord(pair[2])
    BY <1>2 DEF GateInv, CallOK
  <2> QED
    BY <2>1, RecordStays
<1>3. pair \in sent \cup results \/
      \E c \in Callers : call[c].step # "idle" /\ pair = <<call[c].tool, call[c].row>>
  BY DEF Next, decide, call_tool, create_approval, DecideRead, OpenArtifact, FlushArtifact,
         InsertReceipt, UpdateStatus, GateCheck, SendCall, CallFails, StoreResult,
         DecideFails, Tick, Crash, vars, host
<1> QED
  BY <1>1, <1>2, <1>3

(* The invariant is inductive.                                             *)
LEMMA InvStep == IInv /\ [Next]_vars => IInv'
<1> SUFFICES ASSUME IInv, [Next]_vars PROVE IInv'
  OBVIOUS
<1>1. TypeOK'
  BY TypeStep DEF IInv
<1>2. Growth
  BY StepGrows DEF IInv
<1>3. JobInv' /\ PathInv'
  BY <1>2, JobStep, PathStep DEF JobInv, PathInv
<1>4. ReceiptNamesAFile'
  BY <1>1, <1>2, ReceiptStep DEF ReceiptNamesAFile, NamesFileOf
<1>5. ReceiptInv'
  BY <1>1, <1>2, ReceiptStep, ApprovedStep DEF ReceiptInv
<1>6. GateInv'
  BY <1>2, CallStep, SentStep DEF GateInv, GatedCallIsOnRecord, OnRecord
<1> QED
  BY <1>1, <1>3, <1>4, <1>5, <1>6 DEF IInv

LEMMA Inductive == Spec => []IInv
  BY InitInv, InvStep, PTL DEF Spec

(* Type correctness: every variable keeps the shape its declaration gives  *)
(* in every state decide(), call_tool() and their faults can reach.        *)
THEOREM TypeCorrect == Spec => []TypeOK
  BY Inductive, PTL DEF IInv

(* No approval takes effect without a receipt, whatever requests race and  *)
(* wherever the process dies in approvals.decide.                          *)
THEOREM ApprovalsAreRecorded == Spec => []ApprovalIsOnRecord
<1>1. IInv => ApprovalIsOnRecord
  BY DEF IInv, ReceiptInv, ApprovalIsOnRecord, OnRecord
<1> QED
  BY <1>1, Inductive, PTL

(* No gated tool reaches a connector, or leaves a result, without the      *)
(* receipt of an approval for the row that call_tool was given.            *)
THEOREM GatedCallsAreRecorded == Spec => []GatedCallIsOnRecord
<1>1. IInv => GatedCallIsOnRecord
  BY DEF IInv, GateInv
<1> QED
  BY <1>1, Inductive, PTL

(* Nothing but a plain pull reaches a connector without a receipt: both    *)
(* classifiers and the gate of call_tool, over every tool there can be.    *)
THEOREM FreeCallsAreHarmless == Spec => []OnlyPlainPullsRunFree
<1>1. IInv => OnlyPlainPullsRunFree
  <2> SUFFICES ASSUME IInv, NEW pair \in sent \cup results, ~Receipted(pair[2])
               PROVE  PlainPull(pair[1])
    BY DEF OnlyPlainPullsRunFree
  <2>1. pair[1] \in Tool
    BY ToolAssumption DEF IInv, TypeOK
  <2>2. ~Gated(pair[1])
    BY DEF IInv, GateInv, GatedCallIsOnRecord
  <2> QED
    BY <2>1, <2>2, PlainPullsOnly DEF UngatedIsPlainPull
<1> QED
  BY <1>1, Inductive, PTL

(* Every action receipt of a prepared action names a file that is there,   *)
(* of the kind of its row.                                                 *)
THEOREM ReceiptsNameFiles == Spec => []ReceiptNamesAFile
<1>1. IInv => ReceiptNamesAFile
  BY DEF IInv
<1> QED
  BY <1>1, Inductive, PTL

(* A decided card never comes back to the tray.                            *)
THEOREM DecidedStaysDecided == Spec => NeverPendingAgain
<1>1. TypeOK /\ [Next]_vars =>
        [\A r \in Rows : status[r] \in Decisions => status'[r] \in Decisions]_vars
  <2> SUFFICES ASSUME TypeOK, Next, NEW r \in Rows, status[r] \in Decisions
               PROVE  status'[r] \in Decisions
    OBVIOUS
  <2>1. ASSUME NEW q \in Rows, NEW k \in Kinds, create_approval(q, k)
        PROVE  status'[r] \in Decisions
    BY <2>1 DEF create_approval, TypeOK, Decisions
  <2>2. ASSUME NEW d \in Deciders, UpdateStatus(d) PROVE status'[r] \in Decisions
    BY <2>2, JobShape DEF UpdateStatus, TypeOK
  <2>3. CASE UNCHANGED status
    BY <2>3
  <2> QED
    BY <2>1, <2>2, <2>3
       DEF Next, decide, call_tool, DecideRead, OpenArtifact, FlushArtifact, InsertReceipt,
           GateCheck, SendCall, CallFails, StoreResult, DecideFails, Tick, Crash, vars, tray
<1> QED
  BY <1>1, TypeCorrect, PTL DEF Spec, NeverPendingAgain

-----------------------------------------------------------------------------
(* The theorems with a memory.  HistSpec adds two history variables to     *)
(* Approvals; what holds of every behaviour of Approvals holds of it.      *)
LEMMA HistoryStep == [HistNext]_histVars => [Next]_vars
BY DEF HistNext, histVars

LEMMA HistoryInductive == HistSpec => []IInv
<1>1. HistInit => IInv
  BY InitInv DEF HistInit
<1>2. IInv /\ [HistNext]_histVars => IInv'
  BY HistoryStep, InvStep
<1> QED
  BY <1>1, <1>2, PTL DEF HistSpec

(* What a thread can rely on while its card is left alone: the card is     *)
(* still pending, and a receipt for it is the thread's own.                *)
AloneOK(d) ==
  job[d].step # "idle" /\ job[d].row \notin disturbed =>
    /\ status[job[d].row] = "pending"
    /\ Receipted(job[d].row) <=> job[d].step = "update" /\ job[d].decision = "approved"

CardInv ==
  /\ \A r \in Rows : Contested(r) => r \in disturbed
  /\ \A d \in Deciders : AloneOK(d)
  /\ \A r \in Rows \ disturbed : status[r] = "denied" => ~Receipted(r)
  /\ \A c \in Callers :
       call[c].step # "idle" /\ Gated(call[c].tool) /\ call[c].row \notin disturbed =>
         status[call[c].row] = "approved"

(* Exactly the row of the inserted receipt becomes receipted.              *)
LEMMA InsertRecords ==
  ASSUME TypeOK, NEW d \in Deciders, InsertReceipt(d), NEW r
  PROVE  Receipted(r)' <=> Receipted(r) \/ r = job[d].row
<1> DEFINE e == [row |-> job[d].row, path |-> job[d].path]
<1>1. receipts \in Seq(Receipt) /\ e \in Receipt
  BY JobShape DEF InsertReceipt, TypeOK, Receipt
<1>2. receipts' = Append(receipts, e) /\ e.row = job[d].row
  BY DEF InsertReceipt
<1> HIDE DEF e
<1>3. /\ receipts' \in Seq(Receipt)
      /\ Len(receipts') = Len(receipts) + 1
      /\ \A i \in 1 .. Len(receipts) : receipts'[i] = receipts[i]
      /\ receipts'[Len(receipts) + 1] = e
  BY <1>1, <1>2, AppendProperties
<1>4. /\ DOMAIN receipts = 1 .. Len(receipts)
      /\ DOMAIN receipts' = 1 .. Len(receipts) + 1
      /\ Len(receipts) \in Nat
  BY <1>1, <1>3
<1> QED
  BY <1>2, <1>3, <1>4 DEF Receipted

LEMMA SameReceipts ==
  ASSUME UNCHANGED receipts, NEW r
  PROVE  Receipted(r)' <=> Receipted(r)
BY DEF Receipted

(* A row that is asked for has no receipt yet.                             *)
LEMMA AbsentHasNoReceipt ==
  ASSUME IInv, NEW r \in Rows, status[r] = "absent"
  PROVE  ~Receipted(r)
BY DEF IInv, ReceiptInv, Receipted

(* A card that is not disturbed has one thread at most.                    *)
LEMMA LoneThread ==
  ASSUME CardInv, NEW d \in Deciders, NEW e \in Deciders, d # e,
         job[d].step # "idle", job[e].step # "idle",
         job[d].row \in Rows, job[e].row = job[d].row
  PROVE  job[d].row \in disturbed
BY DEF CardInv, Contested, DecidesOn, Idle

LEMMA CardInit == HistInit => CardInv
BY DEF HistInit, Init, CardInv, AloneOK, Idle, Receipted, Contested, DecidesOn

(* Nothing is forgotten, and a contested card is remembered.               *)
LEMMA Remembered ==
  ASSUME CardInv, [HistNext]_histVars
  PROVE  /\ disturbed \subseteq disturbed'
         /\ (\A r \in Rows : Contested(r) => r \in disturbed)'
<1>1. CASE HistNext
  BY <1>1 DEF HistNext, Remember
<1>2. CASE UNCHANGED histVars
  BY <1>2 DEF histVars, vars, tray, disk, CardInv, Contested, DecidesOn, Receipted
<1> QED
  BY <1>1, <1>2

LEMMA CardStep ==
  ASSUME IInv, CardInv, [HistNext]_histVars
  PROVE  CardInv'
<1> USE DEF IInv
<1>0. /\ disturbed \subseteq disturbed'
      /\ (\A r \in Rows : Contested(r) => r \in disturbed)'
  BY Remembered
<1>a. \A c \in Callers :
        call[c].step # "idle" /\ Gated(call[c].tool) => call[c].row \in Rows
  BY DEF GateInv, CallOK, OnRecord
<1>1. ASSUME NEW q \in Rows, NEW k \in Kinds, create_approval(q, k) PROVE CardInv'
  <2>1. UNCHANGED <<receipts, job, call>> /\ status[q] = "absent"
    BY <1>1 DEF create_approval, disk, host
  <2>2. ~Receipted(q)
    BY <2>1, AbsentHasNoReceipt
  <2>3. \A r \in Rows : status'[r] = IF r = q THEN "pending" ELSE status[r]
    BY <1>1 DEF create_approval, TypeOK
  <2>4. \A d \in Deciders : AloneOK(d)'
    BY <1>0, <2>1, <2>2, <2>3, JobShape, SameReceipts DEF AloneOK, CardInv, JobInv, JobOK
  <2> QED
    BY <1>0, <1>a, <2>1, <2>3, <2>4, SameReceipts DEF CardInv
<1>2. ASSUME NEW d \in Deciders, NEW q \in Rows, NEW decision \in Decisions,
             DecideRead(d, q, decision)
      PROVE  CardInv'
  <2>1. UNCHANGED <<status, receipts, call>> /\ job[d] = Idle /\ status[q] = "pending"
    BY <1>2 DEF DecideRead, tray, disk, host, Pending
  <2>2. /\ job'[d].row = q /\ job'[d] # Idle
        /\ job'[d].step = "update" => job'[d].decision # "approved"
    BY <1>2 DEF DecideRead, TypeOK, Idle
  <2>3. \A e \in Deciders : e # d => job'[e] = job[e]
    BY <1>2 DEF DecideRead, TypeOK
  <2>4. q \notin disturbed' => ~Receipted(q)
    <3> SUFFICES ASSUME Receipted(q), q \notin disturbed' PROVE FALSE
      OBVIOUS
    <3>1. PICK e \in Deciders : DecidesOn(e, q)
      BY <1>0, <2>1 DEF CardInv, Contested
    <3>2. e # d /\ DecidesOn(e, q)' /\ DecidesOn(d, q)'
      BY <2>1, <2>2, <2>3, <3>1 DEF DecidesOn
    <3> QED
      BY <1>0, <3>2 DEF Contested
  <2>5. AloneOK(d)'
    BY <2>1, <2>2, <2>4, SameReceipts DEF AloneOK
  <2>6. ASSUME NEW e \in Deciders, e # d PROVE AloneOK(e)'
    BY <1>0, <2>1, <2>3, <2>6, SameReceipts DEF AloneOK, CardInv
  <2> QED
    BY <1>0, <2>1, <2>5, <2>6, SameReceipts DEF CardInv
<1>3. ASSUME NEW d \in Deciders, OpenArtifact(d) \/ FlushArtifact(d) PROVE CardInv'
  <2>1. UNCHANGED <<status, receipts, call>>
    BY <1>3 DEF OpenArtifact, FlushArtifact, tray, host
  <2>2. job[d] \in Job /\ job[d].step # "update" /\ job[d].step # "idle"
    BY <1>3, JobShape DEF OpenArtifact, FlushArtifact
  <2>3. job'[d].row = job[d].row /\ job'[d].step # "update"
    BY <1>3, <2>2 DEF OpenArtifact, FlushArtifact, TypeOK, Job
  <2>4. \A e \in Deciders : e # d => job'[e] = job[e]
    BY <1>3 DEF OpenArtifact, FlushArtifact, TypeOK
  <2>5. \A e \in Deciders : AloneOK(e)'
    BY <1>0, <2>1, <2>2, <2>3, <2>4, SameReceipts DEF AloneOK, CardInv
  <2> QED
    BY <1>0, <2>1, <2>5, SameReceipts DEF CardInv
<1>4. ASSUME NEW d \in Deciders, InsertReceipt(d) PROVE CardInv'
  <2>1. UNCHANGED <<status, call>> /\ job[d].step = "receipt"
    BY <1>4 DEF InsertReceipt, tray, host
  <2>2. job[d] \in Job /\ job[d].row \in Rows /\ job[d].decision = "approved"
    BY <2>1, JobShape DEF JobInv, JobOK
  <2>3. job[d].row \notin disturbed => status[job[d].row] = "pending"
    BY <2>1 DEF CardInv, AloneOK
  <2>4. /\ job'[d].row = job[d].row /\ job'[d].step = "update"
        /\ job'[d].decision = "approved"
    BY <1>4, <2>2 DEF InsertReceipt, TypeOK, Job
  <2>5. \A e \in Deciders : e # d => job'[e] = job[e]
    BY <1>4 DEF InsertReceipt, TypeOK
  <2>6. \A r : Receipted(r)' <=> Receipted(r) \/ r = job[d].row
    BY <1>4, InsertRecords
  <2>7. PICK q \in Rows : q = job[d].row
    BY <2>2
  <2>8. Receipted(q)'
    BY <2>6, <2>7
  <2>9. AloneOK(d)'
    BY <1>0, <2>1, <2>3, <2>4, <2>7, <2>8 DEF AloneOK
  <2>10. ASSUME NEW e \in Deciders, e # d PROVE AloneOK(e)'
    <3> SUFFICES ASSUME job[e].step # "idle", job[e].row \notin disturbed'
                 PROVE  AloneOK(e)'
      BY <2>5, <2>10 DEF AloneOK
    <3>1. job[e].row \in Rows /\ job[e].row \notin disturbed
      BY <1>0, JobShape
    <3>2. job[e].row # job[d].row
      BY <2>1, <2>2, <2>10, <3>1, LoneThread
    <3>3. PICK r \in Rows : r = job[e].row
      BY <3>1
    <3>4. Receipted(r)' <=> Receipted(r)
      BY <2>6, <3>2, <3>3
    <3> QED
      BY <2>1, <2>5, <2>10, <3>1, <3>3, <3>4 DEF AloneOK, CardInv
  <2>11. (\A r \in Rows \ disturbed : status[r] = "denied" => ~Receipted(r))'
    BY <1>0, <2>1, <2>3, <2>6 DEF CardInv
  <2> QED
    BY <1>0, <2>1, <2>9, <2>10, <2>11 DEF CardInv
<1>5. ASSUME NEW d \in Deciders, UpdateStatus(d) PROVE CardInv'
  <2>1. UNCHANGED <<receipts, call>> /\ job'[d] = Idle /\ job[d].step = "update"
    BY <1>5 DEF UpdateStatus, disk, host, TypeOK
  <2>2. /\ job[d].row \in Rows /\ job[d].decision \in Decisions
        /\ job[d].row \notin disturbed =>
             /\ status[job[d].row] = "pending"
             /\ job[d].decision = "denied" => ~Receipted(job[d].row)
    BY <2>1, JobShape DEF CardInv, AloneOK
  <2>3. \A r \in Rows : status'[r] = IF r = job[d].row THEN job[d].decision ELSE status[r]
    BY <1>5 DEF UpdateStatus, TypeOK
  <2>4. \A e \in Deciders : e # d => job'[e] = job[e]
    BY <1>5 DEF UpdateStatus, TypeOK
  <2>5. ASSUME NEW e \in Deciders PROVE AloneOK(e)'
    <3> SUFFICES ASSUME e # d, job[e].step # "idle", job[e].row \notin disturbed'
                 PROVE  AloneOK(e)'
      BY <2>1, <2>4 DEF AloneOK, Idle
    <3>1. job[e].row \in Rows /\ job[e].row \notin disturbed
      BY <1>0, JobShape
    <3>2. job[e].row # job[d].row
      BY <2>1, <2>2, <3>1, LoneThread
    <3> QED
      BY <2>1, <2>3, <2>4, <3>1, <3>2, SameReceipts DEF AloneOK, CardInv
  <2>6. (\A r \in Rows \ disturbed : status[r] = "denied" => ~Receipted(r))'
    BY <1>0, <2>1, <2>2, <2>3, SameReceipts DEF CardInv
  <2>7. (\A c \in Callers :
           call[c].step # "idle" /\ Gated(call[c].tool) /\ call[c].row \notin disturbed =>
             status[call[c].row] = "approved")'
    BY <1>0, <1>a, <2>1, <2>2, <2>3 DEF CardInv
  <2> QED
    BY <1>0, <2>5, <2>6, <2>7 DEF CardInv
<1>6. ASSUME NEW c \in Callers, NEW tool \in Tools, NEW r \in Rows \cup {NoRow},
             GateCheck(c, tool, r)
      PROVE  CardInv'
  <2>1. UNCHANGED <<status, receipts, job>>
    BY <1>6 DEF GateCheck, tray, disk
  <2>2. call'[c].tool = tool /\ call'[c].row = r /\ (Gated(tool) => status[r] = "approved")
    BY <1>6 DEF GateCheck, TypeOK
  <2>3. \A e \in Callers : e # c => call'[e] = call[e]
    BY <1>6 DEF GateCheck, TypeOK
  <2> QED
    BY <1>0, <2>1, <2>2, <2>3, SameReceipts DEF CardInv, AloneOK
<1>7. ASSUME NEW c \in Callers, SendCall(c) PROVE CardInv'
  <2>1. UNCHANGED <<status, receipts, job>>
    BY <1>7 DEF SendCall, tray, disk
  <2>2. call[c] \in InCall /\ call[c].step # "idle"
    BY <1>7, CallShape DEF SendCall
  <2>3. call'[c].tool = call[c].tool /\ call'[c].row = call[c].row
    BY <1>7, <2>2 DEF SendCall, TypeOK, InCall
  <2>4. \A e \in Callers : e # c => call'[e] = call[e]
    BY <1>7 DEF SendCall, TypeOK
  <2> QED
    BY <1>0, <2>1, <2>2, <2>3, <2>4, SameReceipts DEF CardInv, AloneOK
<1>8. ASSUME UNCHANGED <<status, receipts>>,
             \A d \in Deciders : job'[d] \in {job[d], Idle},
             \A c \in Callers : call'[c] \in {call[c], Idle}
      PROVE  CardInv'
  BY <1>0, <1>8, SameReceipts DEF CardInv, AloneOK, Idle
<1>9. ASSUME NEW c \in Callers, CallFails(c) \/ StoreResult(c) PROVE CardInv'
  BY <1>8, <1>9 DEF CallFails, StoreResult, TypeOK, tray, disk
<1>10. ASSUME NEW d \in Deciders, DecideFails(d) PROVE CardInv'
  BY <1>8, <1>10 DEF DecideFails, TypeOK, tray, disk, host
<1>11. CASE Crash
  BY <1>8, <1>11 DEF Crash, TypeOK, tray, disk
<1>12. CASE UNCHANGED <<tray, disk, job, host>>
  BY <1>8, <1>12 DEF tray, disk, host
<1> QED
  BY HistoryStep, <1>1, <1>2, <1>3, <1>4, <1>5, <1>6, <1>7, <1>9, <1>10, <1>11, <1>12
     DEF Next, decide, call_tool, Tick, vars, world

(* Each step of the code is a step of the tray's promise, or no step of it.*)
LEMMA StepKeepsPromise ==
  ASSUME IInv, CardInv, [HistNext]_histVars
  PROVE  Promise!TrayNext
<1> USE DEF IInv
<1> DEFINE Consent == {r \in Rows : Receipted(r)}
           Used == {r \in Rows : \E pair \in sent : Gated(pair[1]) /\ pair[2] = r}
<1>a. disturbed \subseteq disturbed'
  BY Remembered
<1>0. ASSUME UNCHANGED <<status, receipts, sent>> PROVE UNCHANGED Promise!cards
  BY <1>0 DEF Promise!cards, Receipted
<1>1. ASSUME NEW q \in Rows, NEW k \in Kinds, create_approval(q, k)
      PROVE  Promise!Ask(q)
  BY <1>1 DEF create_approval, disk, host, Promise!Ask, Receipted
<1>2. ASSUME NEW d \in Deciders, InsertReceipt(d)
      PROVE  \/ Promise!Record(job[d].row) /\ job[d].row \in Rows
             \/ UNCHANGED Promise!cards
  <2>1. /\ job[d].row \in Rows
        /\ status[job[d].row] # "absent"
        /\ job[d].row \in disturbed \/ status[job[d].row] = "pending"
    BY <1>2, JobShape DEF InsertReceipt, CardInv, AloneOK, JobInv, JobOK
  <2>2. Consent' = Consent \cup {job[d].row}
    BY <1>2, <2>1, InsertRecords
  <2>3. UNCHANGED <<status, sent>>
    BY <1>2 DEF InsertReceipt, tray, host
  <2>4. CASE job[d].row \in Consent
    <3>1. Consent' = Consent
      BY <2>2, <2>4
    <3> QED
      BY <2>3, <3>1 DEF Promise!cards
  <2>5. CASE job[d].row \notin Consent
    BY <2>1, <2>2, <2>3, <2>5 DEF Promise!Record, Promise!Open
  <2> QED
    BY <2>4, <2>5
<1>3. ASSUME NEW d \in Deciders, UpdateStatus(d)
      PROVE  /\ job[d].row \in Rows
             /\ Promise!Approve(job[d].row) \/ Promise!Deny(job[d].row)
  <2>1. /\ job[d].row \in Rows
        /\ status[job[d].row] # "absent"
        /\ job[d].decision \in Decisions
        /\ job[d].decision = "approved" => Receipted(job[d].row)
        /\ job[d].row \notin disturbed =>
             /\ status[job[d].row] = "pending"
             /\ Receipted(job[d].row) <=> job[d].decision = "approved"
    BY <1>3, JobShape DEF UpdateStatus, CardInv, AloneOK, JobInv, JobOK, OnRecord
  <2>2. UNCHANGED <<receipts, sent>>
    BY <1>3 DEF UpdateStatus, disk, host
  <2>3. UNCHANGED <<Consent, Used>>
    BY <2>2 DEF Receipted
  <2>4. status' = [status EXCEPT ![job[d].row] = job[d].decision]
    BY <1>3 DEF UpdateStatus
  <2> QED
    BY <2>1, <2>3, <2>4 DEF Promise!Approve, Promise!Deny, Promise!Open, Decisions
<1>4. ASSUME NEW c \in Callers, SendCall(c) \/ CallFails(c)
      PROVE  \/ \E r \in Rows : Promise!Use(r)
             \/ UNCHANGED Promise!cards
  <2>1. UNCHANGED <<status, receipts>> /\ UNCHANGED Consent
    BY <1>4 DEF SendCall, CallFails, tray, disk, Receipted
  <2>2. CASE sent' = sent
    BY <2>1, <2>2, <1>0
  <2>3. CASE sent' = sent \cup {<<call[c].tool, call[c].row>>}
    <3>1. call[c].step # "idle"
      BY <1>4 DEF SendCall, CallFails
    <3>2. CASE Gated(call[c].tool)
      <4>1. /\ call[c].row \in Rows /\ Receipted(call[c].row)
            /\ call[c].row \in disturbed \/ status[call[c].row] = "approved"
        BY <3>1, <3>2 DEF CardInv, GateInv, CallOK, OnRecord
      <4>2. PICK t \in Tools : t = call[c].tool
        BY <3>1, CallShape
      <4>3. PICK q \in Rows : q = call[c].row
        BY <4>1
      <4>4. <<t, q>> \in sent' /\ <<t, q>>[1] = t /\ <<t, q>>[2] = q /\ Gated(t)
        BY <2>3, <3>2, <4>2, <4>3
      <4>5. sent' = sent \cup {<<t, q>>}
        BY <2>3, <4>2, <4>3
      <4>6. Used' = Used \cup {q}
        BY <4>4, <4>5
      <4>7. Receipted(q) /\ (q \in disturbed \/ status[q] = "approved")
        BY <4>1, <4>3
      <4> QED
        BY <2>1, <4>6, <4>7 DEF Promise!Use
    <3>3. CASE ~Gated(call[c].tool)
      <4>1. Used' = Used
        BY <2>3, <3>3
      <4> QED
        BY <2>1, <4>1 DEF Promise!cards
    <3> QED
      BY <3>2, <3>3
  <2> QED
    BY <1>4, <2>2, <2>3 DEF SendCall, CallFails
<1> HIDE DEF Consent, Used
<1> QED
  BY HistoryStep, <1>a, <1>0, <1>1, <1>2, <1>3, <1>4
     DEF Next, decide, call_tool, DecideRead, OpenArtifact, FlushArtifact, GateCheck,
         StoreResult, Tick, DecideFails, Crash, vars, tray, disk, host, Promise!TrayNext

(* However many threads decide, call and die, the code implements module   *)
(* Tray: a card that was left alone is decided once and on one record, a   *)
(* disturbed one is still approved and used on a record only               *)
(* (approvals.decide, create_approval, mcp_host.call_tool).                *)
THEOREM TrayKeepsPromise == HistSpec => TrayPromise
<1>1. HistInit => Promise!TrayInit
  BY DEF HistInit, Init, Promise!TrayInit, Receipted
<1>2. IInv /\ CardInv /\ [HistNext]_histVars =>
        CardInv' /\ [Promise!TrayNext]_(Promise!trayVars)
  BY CardStep, StepKeepsPromise
<1> QED
  BY <1>1, <1>2, CardInit, HistoryInductive, PTL DEF HistSpec, TrayPromise, Promise!TraySpec

-----------------------------------------------------------------------------
(* What the artifacts page says of a file that no two threads made at once *)
(* and nobody left unfinished: it is empty while its draft is on the way,  *)
(* it holds the draft when the receipt is written, and otherwise the       *)
(* newest receipt tells whose draft is in it.                              *)
Newest(p, i) ==
  /\ i \in DOMAIN receipts /\ receipts[i].path = p
  /\ \A j \in DOMAIN receipts : receipts[j].path = p => j <= i

DraftInv ==
  \A d \in Deciders : job[d].path \notin muddled =>
    /\ job[d].step = "flush" => files[job[d].path] = "empty"
    /\ job[d].step = "receipt" /\ kind[job[d].row] \in FileKinds =>
         files[job[d].path] = job[d].row

NewestInv ==
  \A p \in Paths \ muddled, i \in DOMAIN receipts :
    Newest(p, i) /\ (\A d \in Deciders : ~AtWorkOn(d, p)) => files[p] = receipts[i].row

FileInv == (\A p \in Paths : Shared(p) => p \in muddled) /\ DraftInv /\ NewestInv

(* A nonempty set of numbers with a bound has a greatest one.              *)
LEMMA Greatest ==
  ASSUME NEW n \in Nat, NEW S \in SUBSET (1 .. n), S # {}
  PROVE  \E m \in S : \A j \in S : j <= m
<1> DEFINE Bounds == {m \in Nat : \A j \in S : j <= m}
           Less == {pair \in Nat \X Nat : pair[1] < pair[2]}
<1>1. IsWellFoundedOn(Less, Nat)
  BY NatLessThanWellFounded DEF OpToRel
<1>2. Bounds \subseteq Nat /\ n \in Bounds
  OBVIOUS
<1> HIDE DEF Less
<1>3. PICK m \in Bounds : \A k \in Bounds : ~(<<k, m>> \in Less)
  BY <1>1, <1>2, WFMin
<1>4. m \in S
  <2> SUFFICES ASSUME m \notin S PROVE FALSE
    OBVIOUS
  <2>1. m \in Nat /\ \A j \in S : j \in Nat /\ j >= 1 /\ j <= m
    OBVIOUS
  <2>2. \A j \in S : j <= m - 1
    BY <2>1
  <2>3. m - 1 \in Bounds
    <3>1. PICK j \in S : j \in Nat /\ j >= 1 /\ j <= m
      BY <2>1
    <3>2. m - 1 \in Nat
      BY <2>1, <3>1
    <3> QED
      BY <2>2, <3>2
  <2>4. <<m - 1, m>> \in Less
    BY <2>1, <2>3 DEF Less
  <2> QED
    BY <1>3, <2>3, <2>4
<1> QED
  BY <1>4

LEMMA FileInit == HistInit => FileInv
BY DEF HistInit, Init, FileInv, DraftInv, NewestInv, Newest, AtWorkOn, Shared, Idle

(* Nothing is forgotten of a file that was shared or abandoned.            *)
LEMMA MuddleRemembered ==
  ASSUME FileInv, [HistNext]_histVars
  PROVE  /\ muddled \subseteq muddled'
         /\ (\A p \in Paths : Shared(p) => p \in muddled)'
         /\ \A p \in Paths, d \in Deciders :
              AtWorkOn(d, p) /\ job'[d] = Idle => p \in muddled'
<1>1. CASE HistNext
  BY <1>1 DEF HistNext, Remember, Abandoned
<1>2. CASE UNCHANGED histVars
  BY <1>2 DEF histVars, vars, FileInv, Shared, AtWorkOn, Idle
<1> QED
  BY <1>1, <1>2

(* A file that is not muddled has one writer at most.                      *)
LEMMA LoneWriter ==
  ASSUME FileInv, NEW p \in Paths \ muddled, NEW d \in Deciders, NEW e \in Deciders,
         AtWorkOn(d, p), AtWorkOn(e, p)
  PROVE  d = e
BY DEF FileInv, Shared

(* No file, no receipt, and no job that is past the opening of its file,   *)
(* has changed, unless the job is gone.                                    *)
LEMMA FilesKept ==
  ASSUME FileInv, [HistNext]_histVars, UNCHANGED <<files, receipts>>,
         \A d \in Deciders :
           \/ job'[d] = job[d] /\ (kind'[job[d].row] = kind[job[d].row] \/ job[d].step # "receipt")
           \/ job'[d] = Idle
           \/ /\ job[d].step \notin {"flush", "receipt"}
              /\ job'[d].step # "flush"
              /\ job'[d].step = "receipt" => kind'[job'[d].row] \notin FileKinds
                                             /\ job'[d].path = NoPath
  PROVE  FileInv'
<1>1. /\ muddled \subseteq muddled'
      /\ (\A p \in Paths : Shared(p) => p \in muddled)'
      /\ \A p \in Paths, d \in Deciders :
           AtWorkOn(d, p) /\ job'[d] = Idle => p \in muddled'
  BY MuddleRemembered
<1>2. DraftInv'
  BY <1>1 DEF FileInv, DraftInv, Idle
<1>3. \A p, i : Newest(p, i)' <=> Newest(p, i)
  BY DEF Newest
<1>4. \A p \in Paths, d \in Deciders :
        p \notin muddled' /\ AtWorkOn(d, p) => AtWorkOn(d, p)'
  BY <1>1 DEF AtWorkOn
<1>5. NewestInv'
  BY <1>1, <1>3, <1>4 DEF FileInv, NewestInv
<1> QED
  BY <1>1, <1>2, <1>5 DEF FileInv

LEMMA FileStep ==
  ASSUME IInv, FileInv, [HistNext]_histVars
  PROVE  FileInv'
<1> USE DEF IInv
<1>0. /\ muddled \subseteq muddled'
      /\ (\A p \in Paths : Shared(p) => p \in muddled)'
  BY MuddleRemembered
<1>1. ASSUME NEW q \in Rows, NEW k \in Kinds, create_approval(q, k) PROVE FileInv'
  <2>1. UNCHANGED <<files, receipts, job>> /\ status[q] = "absent"
    BY <1>1 DEF create_approval, disk
  <2>2. \A r \in Rows : r # q => kind'[r] = kind[r]
    BY <1>1 DEF create_approval, TypeOK
  <2>3. ASSUME NEW d \in Deciders, job[d].step = "receipt"
        PROVE  kind'[job[d].row] = kind[job[d].row]
    BY <2>1, <2>2, <2>3, JobShape DEF JobInv, JobOK
  <2> QED
    BY <2>1, <2>3, FilesKept
<1>2. ASSUME NEW d \in Deciders, NEW q \in Rows, NEW decision \in Decisions,
             DecideRead(d, q, decision)
      PROVE  FileInv'
  <2>1. UNCHANGED <<files, receipts, kind>> /\ job[d] = Idle
    BY <1>2 DEF DecideRead, tray, disk
  <2>2. /\ job'[d].step # "flush" /\ job'[d].row = q /\ job'[d].path = NoPath
        /\ job'[d].step = "receipt" => kind[q] \notin FileKinds
    BY <1>2 DEF DecideRead, TypeOK
  <2>3. \A e \in Deciders : e # d => job'[e] = job[e]
    BY <1>2 DEF DecideRead, TypeOK
  <2> QED
    BY <2>1, <2>2, <2>3, FilesKept DEF Idle
<1>3. ASSUME NEW d \in Deciders, OpenArtifact(d) PROVE FileInv'
  <2>a. job[d].step = "open" /\ job[d] \in Job
    BY <1>3, JobShape DEF OpenArtifact
  <2>b. PICK p \in Paths : p = <<kind[job[d].row], clock>>
    BY <2>a DEF JobInv, JobOK, TypeOK, Paths
  <2>1. /\ UNCHANGED <<receipts, kind>> /\ files' = [files EXCEPT ![p] = "empty"]
        /\ job' = [job EXCEPT ![d].step = "flush", ![d].path = p]
    BY <1>3, <2>b DEF OpenArtifact, tray
  <2>3. job'[d].step = "flush" /\ job'[d].path = p
    BY <2>1, <2>a DEF TypeOK, Job
  <2>4. \A q \in Paths : files'[q] = IF q = p THEN "empty" ELSE files[q]
    BY <2>1 DEF TypeOK
  <2>5. \A e \in Deciders : e # d => job'[e] = job[e]
    BY <2>1 DEF TypeOK
  <2>6. AtWorkOn(d, p)' /\ \A q : AtWorkOn(d, q)' <=> q = p
    BY <2>3 DEF AtWorkOn
  <2>7. \A e \in Deciders : p \notin muddled' /\ AtWorkOn(e, p)' => e = d
    BY <1>0, <2>6 DEF Shared
  <2>8. ASSUME NEW e \in Deciders, e # d, job[e].path \notin muddled'
        PROVE  /\ job[e].step = "flush" => files'[job[e].path] = "empty"
               /\ job[e].step = "receipt" /\ kind[job[e].row] \in FileKinds =>
                    files'[job[e].path] = job[e].row
    <3>1. job[e].step \in {"flush", "receipt"} => job[e].path # p
      BY <2>5, <2>7, <2>8 DEF AtWorkOn
    <3>2. job[e].step = "flush" => job[e].path \in Paths
      BY DEF PathInv, PathOK, NamesFileOf
    <3>3. job[e].step = "receipt" /\ kind[job[e].row] \in FileKinds => job[e].path \in Paths
      BY DEF PathInv, PathOK, NamesFileOf
    <3> QED
      BY <1>0, <2>4, <2>8, <3>1, <3>2, <3>3 DEF FileInv, DraftInv
  <2>9. DraftInv'
    BY <2>1, <2>3, <2>4, <2>5, <2>8 DEF DraftInv
  <2>10. \A q, i : Newest(q, i)' <=> Newest(q, i)
    BY <2>1 DEF Newest
  <2>11. \A q : \A e \in Deciders : AtWorkOn(e, q) => AtWorkOn(e, q)'
    BY <2>a, <2>5 DEF AtWorkOn
  <2>12. NewestInv'
    BY <1>0, <2>1, <2>4, <2>6, <2>10, <2>11 DEF FileInv, NewestInv
  <2> QED
    BY <1>0, <2>9, <2>12 DEF FileInv
<1>4. ASSUME NEW d \in Deciders, FlushArtifact(d) PROVE FileInv'
  <2>1. UNCHANGED <<receipts, kind>> /\ job[d].step = "flush"
    BY <1>4 DEF FlushArtifact, tray
  <2>a. job[d] \in Job /\ job[d].row \in Rows /\ job[d].path \in Paths
    BY <2>1, JobShape DEF PathInv, PathOK, NamesFileOf
  <2>b. PICK p \in Paths, row \in Rows : p = job[d].path /\ row = job[d].row
    BY <2>a
  <2>2. job[d] \in Job /\ AtWorkOn(d, p)
    BY <2>1, <2>a, <2>b DEF AtWorkOn
  <2>3. p \notin muddled' => files[p] = "empty"
    BY <1>0, <2>1, <2>b DEF FileInv, DraftInv
  <2>4. PICK content \in {row, "mixed"} :
          /\ content = "mixed" => files[p] # "empty"
          /\ files' = [files EXCEPT ![p] = content]
    BY <1>4, <2>b DEF FlushArtifact
  <2>5. job'[d].step = "receipt" /\ job'[d].path = p /\ job'[d].row = row
    BY <1>4, <2>a, <2>b DEF FlushArtifact, TypeOK, Job
  <2>6. \A e \in Deciders : e # d => job'[e] = job[e]
    BY <1>4 DEF FlushArtifact, TypeOK
  <2>7. /\ \A q \in Paths : q # p => files'[q] = files[q]
        /\ p \notin muddled' => files'[p] = row
    BY <2>3, <2>4 DEF TypeOK
  <2>8. ASSUME NEW e \in Deciders, e # d, job[e].path \notin muddled'
        PROVE  /\ job[e].step = "flush" => files'[job[e].path] = "empty"
               /\ job[e].step = "receipt" /\ kind[job[e].row] \in FileKinds =>
                    files'[job[e].path] = job[e].row
    <3>1. job[e].step \in {"flush", "receipt"} => job[e].path # p
      BY <1>0, <2>2, <2>8, LoneWriter DEF AtWorkOn
    <3>2. job[e].step = "flush" => job[e].path \in Paths
      BY DEF PathInv, PathOK, NamesFileOf
    <3>3. job[e].step = "receipt" /\ kind[job[e].row] \in FileKinds => job[e].path \in Paths
      BY DEF PathInv, PathOK, NamesFileOf
    <3> QED
      BY <1>0, <2>7, <2>8, <3>1, <3>2, <3>3 DEF FileInv, DraftInv
  <2>9. DraftInv'
    BY <2>1, <2>5, <2>6, <2>7, <2>8 DEF DraftInv
  <2>10. \A q, i : Newest(q, i)' <=> Newest(q, i)
    BY <2>1 DEF Newest
  <2>11. AtWorkOn(d, p)' /\ \A q : \A e \in Deciders : AtWorkOn(e, q) => AtWorkOn(e, q)'
    BY <2>1, <2>b, <2>5, <2>6 DEF AtWorkOn
  <2>12. NewestInv'
    BY <1>0, <2>1, <2>7, <2>10, <2>11 DEF FileInv, NewestInv
  <2> QED
    BY <1>0, <2>9, <2>12 DEF FileInv
<1>5. ASSUME NEW d \in Deciders, InsertReceipt(d) PROVE FileInv'
  <2> DEFINE e == [row |-> job[d].row, path |-> job[d].path]
             n == Len(receipts)
  <2>1. /\ UNCHANGED <<files, kind>> /\ job[d].step = "receipt"
        /\ receipts' = Append(receipts, e) /\ e.row = job[d].row /\ e.path = job[d].path
    BY <1>5 DEF InsertReceipt, tray
  <2>2. job[d] \in Job /\ e \in Receipt /\ receipts \in Seq(Receipt)
    BY <2>1, JobShape DEF TypeOK, Receipt
  <2> HIDE DEF e
  <2>3. /\ n \in Nat /\ DOMAIN receipts = 1 .. n /\ DOMAIN receipts' = 1 .. n + 1
        /\ \A i \in 1 .. n : receipts'[i] = receipts[i]
        /\ receipts'[n + 1] = e
    BY <2>1, <2>2, AppendProperties
  <2> HIDE DEF n
  <2>4. /\ job'[d].step = "update"
        /\ \A f \in Deciders : f # d => job'[f] = job[f]
    BY <1>5, <2>2 DEF InsertReceipt, TypeOK, Job
  <2>5. DraftInv'
    BY <1>0, <2>1, <2>4 DEF FileInv, DraftInv
  <2>6. ASSUME NEW p \in Paths \ muddled', NEW i \in DOMAIN receipts', Newest(p, i)',
               \A f \in Deciders : ~AtWorkOn(f, p)'
        PROVE  files[p] = receipts'[i].row
    <3>1. CASE p = e.path
      <4>1. i = n + 1
        <5>1. n + 1 <= i
          BY <2>3, <2>6, <3>1 DEF Newest
        <5> QED
          BY <2>3, <5>1
      <4>2. kind[job[d].row] \in FileKinds
        BY <2>1, <3>1, PathAssumption DEF PathInv, PathOK
      <4>3. files[job[d].path] = job[d].row
        BY <1>0, <2>1, <3>1, <4>2 DEF FileInv, DraftInv
      <4> QED
        BY <2>1, <2>3, <3>1, <4>1, <4>3
    <3>2. CASE p # e.path
      <4>1. i \in 1 .. n
        BY <2>3, <2>6, <3>2 DEF Newest
      <4>2. Newest(p, i)
        BY <2>3, <2>6, <4>1 DEF Newest
      <4>3. \A f \in Deciders : ~AtWorkOn(f, p)
        BY <2>1, <2>4, <2>6, <3>2 DEF AtWorkOn
      <4> QED
        BY <1>0, <2>3, <4>1, <4>2, <4>3 DEF FileInv, NewestInv
    <3> QED
      BY <3>1, <3>2
  <2>7. NewestInv'
    BY <2>1, <2>6 DEF NewestInv
  <2> QED
    BY <1>0, <2>5, <2>7 DEF FileInv
<1>6. ASSUME NEW d \in Deciders, UpdateStatus(d) PROVE FileInv'
  <2>1. UNCHANGED <<files, receipts, kind>>
    BY <1>6 DEF UpdateStatus, disk
  <2>2. job'[d] = Idle /\ \A e \in Deciders : e # d => job'[e] = job[e]
    BY <1>6 DEF UpdateStatus, TypeOK
  <2> QED
    BY <2>1, <2>2, FilesKept
<1>7. ASSUME NEW d \in Deciders, DecideFails(d) PROVE FileInv'
  <2>1. UNCHANGED <<files, receipts, kind>> /\ \A e \in Deciders : job'[e] \in {job[e], Idle}
    BY <1>7 DEF DecideFails, tray, disk, TypeOK
  <2> QED
    BY <2>1, FilesKept
<1>8. CASE Crash
  <2>1. UNCHANGED <<files, receipts, kind>> /\ \A e \in Deciders : job'[e] = Idle
    BY <1>8 DEF Crash, tray, disk
  <2> QED
    BY <2>1, FilesKept
<1>9. CASE UNCHANGED <<files, receipts, kind, job>>
  BY <1>9, FilesKept
<1> QED
  BY HistoryStep, <1>1, <1>2, <1>3, <1>4, <1>5, <1>6, <1>7, <1>8, <1>9
     DEF Next, decide, GateCheck, call_tool, SendCall, CallFails, StoreResult, Tick, vars,
         tray, disk

(* However many threads decide and die, the card that                      *)
(* artifacts.recent_artifacts names for a file is the one it was made for, *)
(* for every file that nobody is at work on, no two threads made at once   *)
(* and none left unfinished; also when the clock stands still and a second *)
(* draft takes the name of the first.                                      *)
THEOREM ProvenanceHolds == HistSpec => []ProvenanceIsTrue
<1>1. IInv /\ FileInv => ProvenanceIsTrue
  <2> SUFFICES ASSUME IInv, FileInv, NEW p \in Paths \ muddled, Producer(p) # NoRow,
                      \A d \in Deciders : ~AtWorkOn(d, p)
               PROVE  files[p] = Producer(p)
    BY DEF ProvenanceIsTrue
  <2> DEFINE at == {i \in DOMAIN receipts : receipts[i].path = p}
  <2>1. at # {} /\ Producer(p) = receipts[CHOOSE i \in at : \A j \in at : j <= i].row
    BY DEF Producer
  <2>2. Len(receipts) \in Nat /\ at \in SUBSET (1 .. Len(receipts))
    <3>1. receipts \in Seq(Receipt)
      BY DEF IInv, TypeOK
    <3> QED
      BY <3>1
  <2>3. \E i \in at : \A j \in at : j <= i
    <3> HIDE DEF at
    <3> QED
      BY <2>1, <2>2, Greatest
  <2>4. PICK i \in at : (\A j \in at : j <= i) /\ Producer(p) = receipts[i].row
    BY <2>1, <2>3
  <2>5. Newest(p, i)
    BY <2>4 DEF Newest
  <2> QED
    BY <2>4, <2>5 DEF FileInv, NewestInv
<1>2. IInv /\ FileInv /\ [HistNext]_histVars => FileInv'
  BY FileStep
<1> QED
  BY <1>1, <1>2, FileInit, HistoryInductive, PTL DEF HistSpec
=============================================================================
