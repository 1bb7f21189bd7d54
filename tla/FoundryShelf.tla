---------------------------- MODULE FoundryShelf ----------------------------
(***************************************************************************)
(* The pre-authored shelf of foundry.py and what is selected from it: five *)
(* answers become a fleet of agent specs.  Names, roles and focus are text *)
(* that only repeats the company or the template and are left out.         *)
(***************************************************************************)
EXTENDS Integers, Sequences, SequencesExt

CONSTANT Companies  \* names that the pattern of the interview accepts

(* INTERVIEW: the options, those that depend on the playbook by playbook.  *)
BusinessTypes == {"d2c", "agency", "product"}
Styles == {"verbatim", "synthesized"}
PLAYBOOK == [d2c |-> "d2c-ops", agency |-> "agency-brief", product |-> "pm-product"]
Playbooks == {PLAYBOOK[b] : b \in BusinessTypes}

Goals(p) ==
  CASE p = "d2c-ops"      -> {"daily_brief", "cited_answers", "cost_watch"}
    [] p = "agency-brief" -> {"client_briefs", "cited_answers"}
    [] p = "pm-product"   -> {"daily_brief", "cited_answers"}
SourcesOf(p) ==
  CASE p = "d2c-ops"      -> {"demo-shopify", "demo-sheets"}
    [] p = "agency-brief" -> {"demo-agency"}
    [] p = "pm-product"   -> {"prds", "interviews", "competitor-notes"}
Sources == UNION {SourcesOf(p) : p \in Playbooks}

(* A template: id, k, k for cited answers (that of k where there is none), *)
(* and whether the style of the answers decides on synthesis.              *)
Template(id, k, cited, byStyle) == [id |-> id, k |-> k, cited |-> cited, byStyle |-> byStyle]

CORE(p) ==
  CASE p = "d2c-ops" ->
         <<Template("d2c-analyst", 6, 8, TRUE), Template("d2c-librarian", 8, 8, FALSE)>>
    [] p = "pm-product" ->
         <<Template("pm-competitor-watch", 6, 6, FALSE), Template("pm-user-voice", 6, 8, TRUE),
           Template("pm-roadmap-risk", 6, 6, FALSE)>>
    [] p = "agency-brief" ->
         <<Template("agency-analyst", 6, 8, TRUE), Template("agency-librarian", 8, 8, FALSE)>>

(* Themes of documents have no watcher of their own: the trio is fixed.    *)
WATCH(source) ==
  CASE source = "demo-shopify" -> <<Template("d2c-returns-watch", 4, 4, FALSE)>>
    [] source = "demo-sheets"  -> <<Template("d2c-spend-watch", 4, 4, FALSE)>>
    [] source = "demo-agency"  -> <<Template("agency-intake-watch", 4, 4, FALSE)>>
    [] OTHER -> <<>>
Watcher == [s \in {"demo-shopify", "demo-sheets", "demo-agency"} |-> WATCH(s)[1].id]

GOAL(p, goal) ==
  CASE p = "d2c-ops" /\ goal = "daily_brief" -> <<Template("d2c-overnight", 6, 6, TRUE)>>
    [] p = "d2c-ops" /\ goal = "cost_watch"  -> <<Template("d2c-cost-watch", 4, 4, FALSE)>>
    [] p = "agency-brief" /\ goal = "client_briefs" ->
         <<Template("agency-brief-drafter", 8, 8, TRUE)>>
    [] OTHER -> <<>>

Spec(id) == [id : {id}, company : Companies, k : Int, synthesize : BOOLEAN, playbook : Playbooks]
-----------------------------------------------------------------------------
(* _validate_answers: closed enumerations, and at least one source.        *)
_validate_answers(a) ==
  /\ a.business_type \in BusinessTypes
  /\ a.primary_goal \in Goals(PLAYBOOK[a.business_type])
  /\ a.sources # <<>> /\ a.sources \in Seq(SourcesOf(PLAYBOOK[a.business_type]))
  /\ a.company_name \in Companies /\ a.answer_style \in Styles

_mint(p, t, a, bump) ==
  [id         |-> t.id,
   company    |-> a.company_name,
   k          |-> IF bump THEN t.cited ELSE t.k,
   synthesize |-> t.byStyle /\ a.answer_style = "synthesized",
   playbook   |-> p]

(* Core, a watcher for each source that has one, and at most one           *)
(* specialist; only the core is bumped for cited answers.                  *)
_build_fleet(a) ==
  LET p     == PLAYBOOK[a.business_type]
      cited == a.primary_goal = "cited_answers"
      Mint(templates, bump) == [i \in DOMAIN templates |-> _mint(p, templates[i], a, bump)]
  IN Mint(CORE(p), cited)
     \o Mint(FlattenSeq([i \in DOMAIN a.sources |-> WATCH(a.sources[i])]), FALSE)
     \o Mint(GOAL(p, a.primary_goal), FALSE)

(* validate_spec, with what the router says of the active profile; and the *)
(* ids of a batch, which a source that is named twice would repeat.        *)
validate_spec(s, routable) == s.k \in 3..12 /\ s.playbook \in Playbooks /\ routable

Unique(fleet) == \A i, j \in DOMAIN fleet : fleet[i].id = fleet[j].id => i = j
Vetted(fleet, routable) ==
  Unique(fleet) /\ \A i \in DOMAIN fleet : validate_spec(fleet[i], routable)
=============================================================================
