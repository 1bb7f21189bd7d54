----------------------------- MODULE MCFoundry -----------------------------
(* Two shops and an agency; one that names a source twice, one that picks  *)
(* none, and one of a kind that is not on the shelf.                       *)
EXTENDS Foundry, TLC

Offer(type, company, goal, sources) ==
  [business_type |-> type, company_name |-> company, primary_goal |-> goal,
   sources |-> sources, answer_style |-> "synthesized"]

MCOffers ==
  {Offer("d2c", "Acme", "cited_answers", <<"demo-shopify">>),
   Offer("d2c", "Bolt", "cost_watch", <<"demo-shopify">>),
   Offer("d2c", "Bolt", "daily_brief", <<"demo-shopify", "demo-shopify">>),
   Offer("agency", "Bolt", "cited_answers", <<"demo-agency">>),
   Offer("agency", "Bolt", "cited_answers", <<>>),
   Offer("clinic", "Acme{", "daily_brief", <<"demo-shopify">>)}
MCConnected == {"demo-shopify", "demo-agency"}
MCCompanies == {"Acme", "Bolt"}
Symmetry == Permutations(Onboarders) \cup Permutations(Askers)
=============================================================================
