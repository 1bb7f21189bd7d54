---------------------------- MODULE MCApprovals ----------------------------
(* Instances of Approvals for TLC.                                         *)
EXTENDS Approvals, TLC

(* A pull tool that also runs code while its manifest declares a read: it  *)
(* is gated by its tier, which the declaration must not lower.             *)
OneExecTool == {[shapes |-> {"pull", "exec"}, declared |-> "read"]}
=============================================================================
