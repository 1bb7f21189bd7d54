---------------------------- MODULE MCPipeline ----------------------------
(* Instances of Pipeline for TLC: a local writer and a local judge, a      *)
(* cloud writer and a cloud judge, each of a family of its own.            *)
EXTENDS Pipeline, TLC

CONSTANTS llama, qwen, sonnet, deepseek

ModelIds == {llama, qwen, sonnet, deepseek}
FamilyOf == [m \in ModelIds |-> m]

P(executor, validator, egress) ==
  [executor |-> executor, validator |-> validator, egress |-> egress]

LocalOnly    == P(llama, qwen, "any")
QualityFirst == P(sonnet, deepseek, "any")

Shipped == [name \in Names |-> IF name = Default THEN LocalOnly ELSE QualityFirst]

(* Profiles people save: a clinic's, and one that breaks the family rule.  *)
MainMenu   == {P(sonnet, qwen, "local_only"), P(llama, llama, "any")}
ClinicMenu == {P(llama, deepseek, "local_only")}
===========================================================================
