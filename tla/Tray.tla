-------------------------------- MODULE Tray --------------------------------
(***************************************************************************)
(* What the approvals tray promises, card by card, whatever else goes on:  *)
(* a card is put up, a person decides it once, an approval is on record    *)
(* before it takes effect, a denied card leaves no record of consent, and  *)
(* only approved cards are ever presented to a connector.                  *)
(*                                                                         *)
(* A disturbed card is promised less: it may be decided again, also        *)
(* against the record, but it is never approved, and never presented to a  *)
(* connector, without a record of consent, and it never returns to the     *)
(* tray.                                                                   *)
(***************************************************************************)
CONSTANT Rows   \* the ids of the tray

VARIABLES
  status,    \* where each card stands
  consent,   \* the cards for which an approval is on record
  used,      \* the cards under which a connector tool has run
  disturbed  \* the cards whose decision was not left alone

cards == <<status, consent, used>>
trayVars == <<cards, disturbed>>

TrayInit ==
  /\ status = [r \in Rows |-> "absent"]
  /\ consent = {}
  /\ used = {}
  /\ disturbed = {}

(* A card can be decided while it is pending; a disturbed one also later.  *)
Open(r) ==
  \/ status[r] = "pending"
  \/ r \in disturbed /\ status[r] # "absent"

Ask(r) ==
  /\ status[r] = "absent"
  /\ status' = [status EXCEPT ![r] = "pending"]
  /\ UNCHANGED <<consent, used>>

Record(r) ==
  /\ Open(r)
  /\ r \notin consent
  /\ consent' = consent \cup {r}
  /\ UNCHANGED <<status, used>>

Approve(r) ==
  /\ Open(r)
  /\ r \in consent
  /\ status' = [status EXCEPT ![r] = "approved"]
  /\ UNCHANGED <<consent, used>>

Deny(r) ==
  /\ Open(r)
  /\ r \in consent => r \in disturbed
  /\ status' = [status EXCEPT ![r] = "denied"]
  /\ UNCHANGED <<consent, used>>

Use(r) ==
  /\ r \in consent
  /\ status[r] = "approved" \/ r \in disturbed
  /\ used' = used \cup {r}
  /\ UNCHANGED <<status, consent>>

(* Nothing that happened to a card is forgotten.                           *)
TrayNext ==
  /\ disturbed \subseteq disturbed'
  /\ \/ \E r \in Rows : Ask(r) \/ Record(r) \/ Approve(r) \/ Deny(r) \/ Use(r)
     \/ UNCHANGED cards

TraySpec == TrayInit /\ [][TrayNext]_trayVars
=============================================================================
