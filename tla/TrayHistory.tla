---------------------------- MODULE TrayHistory ----------------------------
(***************************************************************************)
(* Approvals with a memory.  decide() checks a card in one statement and   *)
(* settles it in another, so what it can promise about a card, and about a *)
(* file, depends on whether its work on that card or file was left alone.  *)
(* Two history variables record the cards and the files for which it was   *)
(* not; they follow the steps of Approvals and restrict none of them.      *)
(***************************************************************************)
EXTENDS Approvals

VARIABLES
  disturbed,  \* cards decided by two threads at once, or left half decided
  muddled     \* files made by two threads at once, or left half made

histVars == <<vars, disturbed, muddled>>

(* Thread d is inside decide() for card r.                                 *)
DecidesOn(d, r) == job[d] # Idle /\ job[d].row = r

(* Two threads decide the card, or nobody does although its approval has   *)
(* got as far as the receipt.                                              *)
Contested(r) ==
  \/ \E d, e \in Deciders : d # e /\ DecidesOn(d, r) /\ DecidesOn(e, r)
  \/ /\ status[r] = "pending" /\ Receipted(r)
     /\ \A d \in Deciders : ~DecidesOn(d, r)

(* Thread d has opened file p and has not put it on a receipt yet.         *)
AtWorkOn(d, p) == job[d].step \in {"flush", "receipt"} /\ job[d].path = p

Shared(p) == \E d, e \in Deciders : d # e /\ AtWorkOn(d, p) /\ AtWorkOn(e, p)

(* The thread that was making the file is gone.                            *)
Abandoned(p) == \E d \in Deciders : AtWorkOn(d, p) /\ job'[d] = Idle

Remember ==
  /\ disturbed' = disturbed \cup {r \in Rows : Contested(r)'}
  /\ muddled' = muddled \cup {p \in Paths : Shared(p)' \/ Abandoned(p)}

HistInit == Init /\ disturbed = {} /\ muddled = {}
HistNext == Next /\ Remember
HistSpec == HistInit /\ [][HistNext]_histVars

-----------------------------------------------------------------------------
(* What the tray promises, with the receipts as the record of consent.     *)
Promise == INSTANCE Tray WITH
  consent <- {r \in Rows : Receipted(r)},
  used <- {r \in Rows : \E pair \in sent : Gated(pair[1]) /\ pair[2] = r}

(* However many threads decide cards at once, and wherever one of them or  *)
(* the process dies, a card that one thread at a time works on and that is *)
(* not left between receipt and status is decided once, for one record of  *)
(* consent or for none; any other card still serves and counts as approved *)
(* only on a record (approvals.decide, mcp_host.call_tool).                *)
TrayPromise == Promise!TraySpec

(* The card that artifacts.recent_artifacts shows for a file is the one it *)
(* was made for, also when the clock stands still and a second draft takes *)
(* the name of the first: for every file that nobody is writing now, that  *)
(* no two threads ever wrote at once and that nobody left unfinished.      *)
ProvenanceIsTrue ==
  \A p \in Paths \ muddled :
    Producer(p) # NoRow /\ (\A d \in Deciders : ~AtWorkOn(d, p)) =>
      files[p] = Producer(p)
=============================================================================
