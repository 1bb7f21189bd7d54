------------------------------ MODULE ToolRisk ------------------------------
(***************************************************************************)
(* How the MCP host decides, when it reads a connector's tool manifest,    *)
(* whether a tool may run without a person (mcp_host.classify_tool and     *)
(* risk.resolve_tier).  Both work on the verbs found in the tool's name    *)
(* and description, so a tool is abstracted to the set of verb shapes the  *)
(* regular expressions find in it, and to the tier its manifest declares.  *)
(***************************************************************************)
EXTENDS Integers

CONSTANT Undeclared   \* the manifest gives the tool no tier

Tiers == {"read", "write_local", "exec", "external"}

Rank == [read |-> 0, write_local |-> 1, exec |-> 2, external |-> 3]

ASSUME UndeclaredIsNoTier == Undeclared \notin Tiers

(* The verb shapes: spend verbs, the other write verbs, verbs that run     *)
(* code, and pull verbs.  Both modules use the same word lists.            *)
Shapes == {"spend", "write", "exec", "pull"}

Tool == [shapes : SUBSET Shapes, declared : Tiers \cup {Undeclared}]

classify_tool(tool) ==
  IF "spend" \in tool.shapes THEN "spend"
  ELSE IF "write" \notin tool.shapes /\ "pull" \in tool.shapes THEN "none"
  ELSE "outbound"

riskier(a, b) == IF Rank[a] >= Rank[b] THEN a ELSE b

(* The tiers the verbs of a tool point to; the inference keeps the highest *)
candidates(tool) ==
  (IF tool.shapes \cap {"spend", "write"} # {} THEN {"external"} ELSE {})
    \cup (IF "exec" \in tool.shapes THEN {"exec"} ELSE {})
    \cup (IF "pull" \in tool.shapes THEN {"read"} ELSE {})

infer_tier(tool) ==
  CHOOSE tier \in candidates(tool) :
    \A other \in candidates(tool) : Rank[other] <= Rank[tier]

(* Operators called X_bug, here and in the other modules, are X with a     *)
(* mistake that a property must catch.  This one believes the manifest.    *)
resolve_tier_bug(tool) ==
  IF tool.declared # Undeclared THEN tool.declared
  ELSE IF candidates(tool) = {} THEN "external" ELSE infer_tier(tool)

resolve_tier(tool) ==
  IF candidates(tool) = {}
  THEN IF tool.declared = Undeclared THEN "external" ELSE tool.declared
  ELSE IF tool.declared = Undeclared THEN infer_tier(tool)
  ELSE riskier(tool.declared, infer_tier(tool))

requires_approval(tier) == tier # "read"

(* MCPHost.call_tool's union of the two gates: either one forces the tray. *)
Gated(tool) ==
  \/ classify_tool(tool) # "none"
  \/ requires_approval(resolve_tier(tool))

-----------------------------------------------------------------------------
(* The tools that may run without the tray: their verbs are pull verbs and *)
(* nothing else, and their manifest does not declare them riskier.         *)
PlainPull(tool) == tool.shapes = {"pull"} /\ tool.declared \in {"read", Undeclared}

(* Fail closed (Executor Contract C, layer 2): both gates together let no  *)
(* other tool pass.                                                        *)
UngatedIsPlainPull == \A tool \in Tool : ~Gated(tool) => PlainPull(tool)

(* A declaration can never downgrade (risk.resolve_tier): whatever tier a  *)
(* manifest declares, a tool is at least as risky as its verbs say and at  *)
(* least as risky as the manifest says.                                    *)
DeclarationNeverDowngrades ==
  \A tool \in Tool :
    /\ candidates(tool) # {} => Rank[resolve_tier(tool)] >= Rank[infer_tier(tool)]
    /\ tool.declared # Undeclared => Rank[resolve_tier(tool)] >= Rank[tool.declared]
=============================================================================
