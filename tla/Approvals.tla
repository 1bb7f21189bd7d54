----------------------------- MODULE Approvals -----------------------------
(***************************************************************************)
(* The approvals tray of one workspace and the gate the MCP host keeps in  *)
(* front of every connector tool (approvals.py, mcp_host.call_tool,        *)
(* artifacts.recent_artifacts).                                            *)
(*                                                                         *)
(* The HTTP routes are plain functions served by a thread pool, and the    *)
(* database connection is in autocommit mode: every statement of decide()  *)
(* takes effect alone, so several requests, and a crash of the process,    *)
(* can fall between any two of them.  A decider is a thread serving        *)
(* /approvals/decide, a caller is a thread inside MCPHost.call_tool.       *)
(* A refused request changes nothing and is a stuttering step.             *)
(***************************************************************************)
EXTENDS Integers, Sequences, FiniteSets, ToolRisk

CONSTANTS
  Rows,        \* ids of the approvals table
  Deciders,    \* request threads in approvals.decide
  Callers,     \* threads in MCPHost.call_tool
  Tools,       \* the tools of the connector's manifest
  MaxClock,    \* bound: last second on the wall clock
  MaxFaults,   \* bound: how often a request or the process dies
  NoRow,       \* approval_id = None
  NoPath       \* the result of an executor that writes no file

ASSUME RowAssumption  == NoRow \notin Rows
ASSUME ToolAssumption == Tools \subseteq Tool
ASSUME BoundAssumption == MaxClock \in Nat /\ MaxFaults \in Nat

FileKinds == {"sku_suppression", "prd_section"}

(* _EXECUTORS: the payload kinds an approval can execute; "other" stands   *)
(* for every kind that has no executor.                                    *)
Executable == FileKinds \cup {"connector_call"}
Kinds == Executable \cup {"other"}

Decisions == {"approved", "denied"}

(* An artifact's name is its kind and a time stamp with one-second steps.  *)
Paths == FileKinds \X (0 .. MaxClock)

ASSUME PathAssumption == NoPath \notin Paths

(* What a reader of an artifact finds: no file, a file truncated by open() *)
(* and not yet flushed, two writers' bytes over each other, or the draft   *)
(* prepared for one row.                                                   *)
Contents == Rows \cup {"nofile", "empty", "mixed"}

ASSUME ContentAssumption == Rows \cap {"nofile", "empty", "mixed"} = {}

VARIABLES
  status,    \* approvals.status per row, "absent" before the INSERT
  kind,      \* payload["kind"] per row, "other" before the INSERT
  receipts,  \* the action receipts in id order
  files,     \* the artifacts directory
  job,       \* where each decider is in decide() and what it has read
  call,      \* the tool each caller is running and the row it presented
  sent,      \* the <<tool, row>> pairs that reached a connector
  results,   \* the <<tool, row>> pairs whose result is in mcp_results
  clock,     \* wall clock, in the seconds that artifact names use
  faults

tray  == <<status, kind>>
disk  == <<receipts, files>>
host  == <<call, sent, results>>
world == <<clock, faults>>

vars == <<tray, disk, job, host, world>>

Idle == [step |-> "idle"]

Job == [step : {"open", "flush", "receipt", "update"}, row : Rows,
        decision : Decisions, path : Paths \cup {NoPath}]

InCall == [step : {"send", "store"}, tool : Tools, row : Rows \cup {NoRow}]

Receipt == [row : Rows, path : Paths \cup {NoPath}]

TypeOK ==
  /\ status \in [Rows -> {"absent", "pending"} \cup Decisions]
  /\ kind \in [Rows -> Kinds]
  /\ receipts \in Seq(Receipt)
  /\ files \in [Paths -> Contents]
  /\ job \in [Deciders -> Job \cup {Idle}]
  /\ call \in [Callers -> InCall \cup {Idle}]
  /\ sent \subseteq Tools \X (Rows \cup {NoRow})
  /\ results \subseteq Tools \X (Rows \cup {NoRow})
  /\ clock \in 0 .. MaxClock
  /\ faults \in 0 .. MaxFaults

Init ==
  /\ status = [r \in Rows |-> "absent"]
  /\ kind = [r \in Rows |-> "other"]
  /\ receipts = <<>>
  /\ files = [p \in Paths |-> "nofile"]
  /\ job = [d \in Deciders |-> Idle]
  /\ call = [c \in Callers |-> Idle]
  /\ sent = {}
  /\ results = {}
  /\ clock = 0
  /\ faults = 0

-----------------------------------------------------------------------------
(* approvals.create_approval: one INSERT.                                  *)
create_approval(r, k) ==
  /\ status[r] = "absent"
  /\ status' = [status EXCEPT ![r] = "pending"]
  /\ kind' = [kind EXCEPT ![r] = k]
  /\ UNCHANGED <<disk, job, host, world>>

(* The row is a card of the tray: what approvals.pending lists.            *)
Pending(r) == status[r] = "pending"

(* The receipt of a connector call is left out.                            *)
DecideRead_bug2(d, r, decision) ==
  /\ job[d] = Idle
  /\ Pending(r)
  /\ decision = "approved" => kind[r] \in Executable
  /\ job' = [job EXCEPT ![d] =
               [step |-> IF decision = "approved" /\ kind[r] \in FileKinds THEN "open"
                         ELSE "update",
                row |-> r, decision |-> decision, path |-> NoPath]]
  /\ UNCHANGED <<tray, disk, host, world>>

(* The receipt is written before the executor runs.                        *)
DecideRead_bug3(d, r, decision) ==
  /\ job[d] = Idle
  /\ Pending(r)
  /\ decision = "approved" => kind[r] \in Executable
  /\ job' = [job EXCEPT ![d] =
               [step |-> IF decision = "denied" THEN "update" ELSE "receipt",
                row |-> r, decision |-> decision, path |-> NoPath]]
  /\ UNCHANGED <<tray, disk, host, world>>

(* Any card that is there can be decided.                                  *)
DecideRead_bug(d, r, decision) ==
  /\ job[d] = Idle
  /\ status[r] # "absent"
  /\ decision = "approved" => kind[r] \in Executable
  /\ job' = [job EXCEPT ![d] =
               [step |-> IF decision = "denied" THEN "update"
                         ELSE IF kind[r] \in FileKinds THEN "open" ELSE "receipt",
                row |-> r, decision |-> decision, path |-> NoPath]]
  /\ UNCHANGED <<tray, disk, host, world>>

(* decide(), first statement: the SELECT, and every check made on it.  A   *)
(* row that is missing or decided, and the approval of a kind without an   *)
(* executor, are refused.                                                  *)
DecideRead(d, r, decision) ==
  /\ job[d] = Idle
  /\ Pending(r)
  /\ decision = "approved" => kind[r] \in Executable
  /\ job' = [job EXCEPT ![d] =
               [step |-> IF decision = "denied" THEN "update"
                         ELSE IF kind[r] \in FileKinds THEN "open" ELSE "receipt",
                row |-> r, decision |-> decision, path |-> NoPath]]
  /\ UNCHANGED <<tray, disk, host, world>>

(* The stamp is rounded up.                                                *)
OpenArtifact_bug(d) ==
  /\ job[d].step = "open"
  /\ LET p == <<kind[job[d].row], clock + 1>>
     IN /\ files' = [files EXCEPT ![p] = "empty"]
        /\ job' = [job EXCEPT ![d].step = "flush", ![d].path = p]
  /\ UNCHANGED <<tray, receipts, host, world>>

(* The executor stamps the file name with the current second and opens the *)
(* file for writing, which truncates whatever is there.                    *)
OpenArtifact(d) ==
  /\ job[d].step = "open"
  /\ LET p == <<kind[job[d].row], clock>>
     IN /\ files' = [files EXCEPT ![p] = "empty"]
        /\ job' = [job EXCEPT ![d].step = "flush", ![d].path = p]
  /\ UNCHANGED <<tray, receipts, host, world>>

(* An executor's error is swallowed and the request ends there.            *)
FlushArtifact_bug(d) ==
  /\ job[d].step = "flush"
  /\ files' = [files EXCEPT ![job[d].path] = job[d].row]
  /\ job' = [job EXCEPT ![d] = Idle]
  /\ UNCHANGED <<tray, receipts, host, world>>

(* The draft reaches the file when it is closed.  If another writer's text *)
(* is there already, its tail may stick out behind ours.                   *)
FlushArtifact(d) ==
  /\ job[d].step = "flush"
  /\ \E content \in {job[d].row, "mixed"} :
       /\ content = "mixed" => files[job[d].path] # "empty"
       /\ files' = [files EXCEPT ![job[d].path] = content]
  /\ job' = [job EXCEPT ![d].step = "receipt"]
  /\ UNCHANGED <<tray, receipts, host, world>>

InsertReceipt(d) ==
  /\ job[d].step = "receipt"
  /\ receipts' = Append(receipts, [row |-> job[d].row, path |-> job[d].path])
  /\ job' = [job EXCEPT ![d].step = "update"]
  /\ UNCHANGED <<tray, files, host, world>>

(* UPDATE ... WHERE id = ?: the status read at the start is not re-checked. *)
UpdateStatus(d) ==
  /\ job[d].step = "update"
  /\ status' = [status EXCEPT ![job[d].row] = job[d].decision]
  /\ job' = [job EXCEPT ![d] = Idle]
  /\ UNCHANGED <<kind, disk, host, world>>

decide(d) ==
  \/ OpenArtifact(d)
  \/ FlushArtifact(d)
  \/ InsertReceipt(d)
  \/ UpdateStatus(d)

-----------------------------------------------------------------------------
(* Any card that is not refused serves.                                    *)
GateCheck_bug(c, tool, r) ==
  /\ call[c] = Idle
  /\ Gated(tool) => r \in Rows /\ status[r] \in {"pending", "approved"}
  /\ call' = [call EXCEPT ![c] = [step |-> "send", tool |-> tool, row |-> r]]
  /\ UNCHANGED <<tray, disk, job, sent, results, world>>

(* call_tool, the gate: a free tool runs with any approval_id, a gated one *)
(* only with the id of a row that is approved now.  Nothing ties the row   *)
(* to the tool, and nothing marks it as spent.                             *)
GateCheck(c, tool, r) ==
  /\ call[c] = Idle
  /\ Gated(tool) => r \in Rows /\ status[r] = "approved"
  /\ call' = [call EXCEPT ![c] = [step |-> "send", tool |-> tool, row |-> r]]
  /\ UNCHANGED <<tray, disk, job, sent, results, world>>

(* The tools/call request reaches the connector, which acts and answers.   *)
SendCall(c) ==
  /\ call[c].step = "send"
  /\ sent' = sent \cup {<<call[c].tool, call[c].row>>}
  /\ call' = [call EXCEPT ![c].step = "store"]
  /\ UNCHANGED <<tray, disk, job, results, world>>

(* MCPHostError: the pipe was closed, or the timer killed the connector.   *)
(* It may or may not have acted by then; nothing is stored.                *)
CallFails(c) ==
  /\ call[c].step = "send"
  /\ sent' \in {sent, sent \cup {<<call[c].tool, call[c].row>>}}
  /\ call' = [call EXCEPT ![c] = Idle]
  /\ UNCHANGED <<tray, disk, job, results, world>>

(* guard_mcp_result stores the answer before anyone sees it.               *)
StoreResult(c) ==
  /\ call[c].step = "store"
  /\ results' = results \cup {<<call[c].tool, call[c].row>>}
  /\ call' = [call EXCEPT ![c] = Idle]
  /\ UNCHANGED <<tray, disk, job, sent, world>>

call_tool(c) == SendCall(c) \/ CallFails(c) \/ StoreResult(c)

-----------------------------------------------------------------------------
Tick ==
  /\ clock < MaxClock
  /\ clock' = clock + 1
  /\ UNCHANGED <<tray, disk, job, host, faults>>

(* A failed decision puts its card back.                                   *)
DecideFails_bug(d) ==
  /\ faults < MaxFaults
  /\ job[d] # Idle
  /\ faults' = faults + 1
  /\ status' = [status EXCEPT ![job[d].row] = "pending"]
  /\ job' = [job EXCEPT ![d] = Idle]
  /\ UNCHANGED <<kind, disk, host, clock>>

(* A statement of decide() raises: a malformed payload, a full disk, a     *)
(* database that stays locked.  No transaction undoes the earlier steps.   *)
DecideFails(d) ==
  /\ faults < MaxFaults
  /\ job[d] # Idle
  /\ faults' = faults + 1
  /\ job' = [job EXCEPT ![d] = Idle]
  /\ UNCHANGED <<tray, disk, host, clock>>

(* The process dies and launchd starts it again: the requests are gone,    *)
(* the database and the artifacts directory stay as the last statement     *)
(* left them.                                                              *)
Crash ==
  /\ faults < MaxFaults
  /\ faults' = faults + 1
  /\ job' = [d \in Deciders |-> Idle]
  /\ call' = [c \in Callers |-> Idle]
  /\ UNCHANGED <<tray, disk, sent, results, clock>>

Next ==
  \/ \E r \in Rows, k \in Kinds : create_approval(r, k)
  \/ \E d \in Deciders, r \in Rows, decision \in Decisions : DecideRead(d, r, decision)
  \/ \E d \in Deciders : decide(d)
  \/ \E c \in Callers, tool \in Tools, r \in Rows \cup {NoRow} : GateCheck(c, tool, r)
  \/ \E c \in Callers : call_tool(c)
  \/ \E d \in Deciders : DecideFails(d)
  \/ Tick
  \/ Crash

Spec == Init /\ [][Next]_vars

(* A thread that is inside decide() or call_tool() runs on; nobody is      *)
(* obliged to start a request.                                             *)
Fairness ==
  /\ \A d \in Deciders : WF_vars(decide(d))
  /\ \A c \in Callers : WF_vars(call_tool(c))

FairSpec == Spec /\ Fairness
-----------------------------------------------------------------------------
(* Properties that hold whatever threads interleave and whatever dies.     *)

Receipted(r) == \E i \in DOMAIN receipts : receipts[i].row = r

(* The audit trail is complete: no approval takes effect without its       *)
(* receipt, not even when the process dies inside decide() or another      *)
(* request decides the same card (approvals.decide writes the receipt      *)
(* before it updates the row).                                             *)
ApprovalIsOnRecord ==
  \A r \in Rows : status[r] = "approved" => Receipted(r)

(* A tool that writes, sends, spends or runs code never reaches the        *)
(* connector, and leaves no result, without a receipt that somebody        *)
(* approved the row presented for it; a card that has no executor can      *)
(* never serve (mcp_host.call_tool and approvals.decide together).         *)
GatedCallIsOnRecord ==
  \A pair \in sent \cup results :
    Gated(pair[1]) =>
      /\ pair[2] \in Rows
      /\ Receipted(pair[2])
      /\ kind[pair[2]] \in Executable

(* Fail closed, end to end: whatever reached a connector without anybody's *)
(* consent was a tool whose verbs are pull verbs and nothing else, and     *)
(* which its manifest does not declare riskier than a read (Executor       *)
(* Contract C, layer 2: classify_tool, resolve_tier and the gate together).*)
OnlyPlainPullsRunFree ==
  \A pair \in sent \cup results :
    ~Receipted(pair[2]) => PlainPull(pair[1])

(* A receipt that names a file was written after the file was made, with   *)
(* the kind of the row it is a receipt for: artifacts.recent_artifacts     *)
(* can join every action receipt of a prepared action to a file.           *)
ReceiptNamesAFile ==
  \A i \in DOMAIN receipts :
    LET receipt == receipts[i]
    IN IF kind[receipt.row] \in FileKinds
       THEN /\ receipt.path \in Paths
            /\ receipt.path[1] = kind[receipt.row]
            /\ files[receipt.path] # "nofile"
       ELSE receipt.path = NoPath

(* A card that has been decided never comes back to the tray               *)
(* (approvals.decide, approvals.pending).                                  *)
NeverPendingAgain ==
  [][\A r \in Rows : status[r] \in Decisions => status'[r] \in Decisions]_vars

(* The oldest receipt is taken.                                            *)
Producer_bug(p) ==
  LET at == {i \in DOMAIN receipts : receipts[i].path = p}
  IN IF at = {} THEN NoRow
     ELSE receipts[CHOOSE i \in at : \A j \in at : i <= j].row

(* The row artifacts.recent_artifacts names as the producer of a file: the *)
(* newest receipt whose doc_id is its path.                                *)
Producer(p) ==
  LET at == {i \in DOMAIN receipts : receipts[i].path = p}
  IN IF at = {} THEN NoRow
     ELSE receipts[CHOOSE i \in at : \A j \in at : j <= i].row

(* A decision that decide() accepted reaches the row: the card leaves the  *)
(* tray, however slow the disk is, unless a fault comes in between; after  *)
(* a request or the process was lost the next decision lands all the same. *)
AcceptedDecisionLands ==
  \A d \in Deciders, r \in Rows, n \in 0 .. MaxFaults :
    (job[d] # Idle /\ job[d].row = r /\ faults = n)
      ~> (status[r] \in Decisions \/ faults > n)
=============================================================================
