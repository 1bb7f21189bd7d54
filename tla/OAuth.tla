------------------------------- MODULE OAuth --------------------------------
(***************************************************************************)
(* Linking one OAuth connector to the workspaces: the consent flows that   *)
(* the server holds in memory, the token bundles in the Keychain, and what *)
(* a link leaves in a workspace's database (server.py's oauth routes,      *)
(* connector_oauth.py, connectors.register).                               *)
(*                                                                         *)
(* A thread is one request: a browser that comes back from the provider, a *)
(* live connector that asks for its access token, or a disconnect.  Every  *)
(* Keychain access and every commit takes effect alone, and the provider   *)
(* may take its time, so threads interleave at each of them.  A bundle is  *)
(* abstracted to the consent flow it goes back to, whether it came with a  *)
(* refresh token, and whether it is still fresh.                           *)
(***************************************************************************)
EXTENDS Integers, FiniteSets

CONSTANTS
  Threads,
  Spaces,     \* workspaces
  Flows,      \* consent flows, each named by the state it mints
  TTL,        \* OAUTH_PENDING_TTL_S, in ticks
  MaxTries,   \* _MAX_ATTEMPTS
  MaxClock,   \* bound: ticks
  MaxFaults,  \* bound: requests or processes that die
  None        \* no bundle, no workspace

ASSUME BoundAssumption ==
  {TTL, MaxClock, MaxFaults} \subseteq Nat /\ MaxTries \in Nat \ {0}
ASSUME NoneAssumption == None \notin Spaces

VARIABLES
  client,      \* the connector's client id is in the Keychain
  space,       \* the workspace each flow was started for
  started,     \* started_at of each flow
  pending,     \* the states in pending_oauth
  bundle,      \* the token bundle of each workspace
  receipts,    \* the action receipts, with the flow they go back to
  registered,  \* the workspaces with a connectors row
  thread,
  clock, faults,
  answered,    \* for the properties: how old each flow was when its code
               \* was accepted, and by how many requests
  settled      \* for the properties: a disconnect has succeeded while no
               \* consent and no request was open; until the next start

flows == <<space, started, pending>>
store == <<bundle, receipts, registered>>
ghost == <<answered, settled>>
world == <<clock, faults>>
vars  == <<client, flows, store, thread, world, ghost>>

Idle == [step |-> "idle"]

Bundle == [flow : Flows, refreshable : BOOLEAN, fresh : BOOLEAN]

(* An exchange links an account; an access fetches its token, and learns   *)
(* only from its load which flow that goes back to.                        *)
Lanes == {"exchange", "access"}

Request ==
  [lane : {"exchange"}, step : {"client", "post", "store", "receipt", "register"},
   ws : Spaces, flow : Flows, tries : 0 .. MaxTries - 1]
    \cup [lane : {"access"}, step : {"load"}, ws : Spaces]
    \cup [lane : {"access"}, step : {"post", "store", "receipt", "return"},
          ws : Spaces, flow : Flows, tries : 0 .. MaxTries - 1]
    \cup [lane : {"disconnect"}, step : {"clear", "verify"}, ws : Spaces]

TypeOK ==
  /\ client \in BOOLEAN
  /\ space \in [Flows -> Spaces \cup {None}]
  /\ started \in [Flows -> 0 .. MaxClock]
  /\ \A f \in Flows : started[f] <= clock
  /\ pending \subseteq {f \in Flows : space[f] # None}
  /\ bundle \in [Spaces -> Bundle \cup {None}]
  /\ receipts \subseteq Spaces \X Flows \X {"exchanged", "refreshed"}
  /\ registered \subseteq Spaces
  /\ thread \in [Threads -> Request \cup {Idle}]
  /\ clock \in 0 .. MaxClock
  /\ faults \in 0 .. MaxFaults
  /\ answered \in [Flows -> [age : 0 .. MaxClock, times : Nat]]
  /\ settled \subseteq Spaces

Init ==
  /\ client = FALSE
  /\ space = [f \in Flows |-> None]
  /\ started = [f \in Flows |-> 0]
  /\ pending = {}
  /\ bundle = [w \in Spaces |-> None]
  /\ receipts = {}
  /\ registered = {}
  /\ thread = [t \in Threads |-> Idle]
  /\ clock = 0
  /\ faults = 0
  /\ answered = [f \in Flows |-> [age |-> 0, times |-> 0]]
  /\ settled = {}

-----------------------------------------------------------------------------
(* POST /connectors/oauth/config.                                          *)
oauth_config ==
  /\ ~client
  /\ client' = TRUE
  /\ UNCHANGED <<flows, store, thread, world, ghost>>

(* What _prune_pending keeps.                                              *)
Live == {f \in pending : clock - started[f] <= TTL}

(* POST /connectors/oauth/start: prune, mint a state and remember it.      *)
oauth_start(f, w) ==
  /\ client
  /\ space[f] = None
  /\ space' = [space EXCEPT ![f] = w]
  /\ started' = [started EXCEPT ![f] = clock]
  /\ pending' = Live \cup {f}
  /\ settled' = settled \ {w}
  /\ UNCHANGED <<client, store, thread, world, answered>>

Accept(t, f, w) ==
  /\ thread' = [thread EXCEPT ![t] =
       [lane |-> "exchange", step |-> "client", ws |-> w, flow |-> f, tries |-> 0]]
  /\ answered' = [answered EXCEPT ![f] =
       [age |-> clock - started[f], times |-> @.times + 1]]

(* The state is only looked up.                                            *)
oauth_callback_bug(t, f, code) ==
  /\ thread[t] = Idle
  /\ space[f] # None
  /\ pending' = Live
  /\ IF f \in Live /\ code THEN Accept(t, f, space[f]) ELSE UNCHANGED <<thread, answered>>
  /\ UNCHANGED <<client, space, started, store, world, settled>>

(* Old states are not pruned.                                              *)
oauth_callback_bug2(t, f, code) ==
  /\ thread[t] = Idle
  /\ space[f] # None
  /\ pending' = pending \ {f}
  /\ IF f \in pending /\ code THEN Accept(t, f, space[f]) ELSE UNCHANGED <<thread, answered>>
  /\ UNCHANGED <<client, space, started, store, world, settled>>

(* The workspace is that of the flow that was started last.                *)
oauth_callback_bug3(t, f, code) ==
  /\ thread[t] = Idle
  /\ space[f] # None
  /\ pending' = Live \ {f}
  /\ IF f \in Live /\ code
     THEN \E g \in Live : /\ \A h \in Live : started[h] <= started[g]
                          /\ Accept(t, f, space[g])
     ELSE UNCHANGED <<thread, answered>>
  /\ UNCHANGED <<client, space, started, store, world, settled>>

(* GET /connectors/oauth/callback: prune, and take the state out of the    *)
(* map.  A browser may come back late, twice, or without a code (an error, *)
(* a consent that was refused), which spends the state all the same.       *)
oauth_callback(t, f, code) ==
  /\ thread[t] = Idle
  /\ space[f] # None
  /\ pending' = Live \ {f}
  /\ IF f \in Live /\ code THEN Accept(t, f, space[f]) ELSE UNCHANGED <<thread, answered>>
  /\ UNCHANGED <<client, space, started, store, world, settled>>

-----------------------------------------------------------------------------
At(t, step) == thread[t].step = step

Go(t, step) == thread' = [thread EXCEPT ![t].step = step]

End(t) == thread' = [thread EXCEPT ![t] = Idle]

(* The client id is read again; the Keychain may not answer.               *)
ReadClient(t) ==
  /\ At(t, "client")
  /\ Go(t, "post") \/ End(t)
  /\ UNCHANGED <<client, flows, store, world, ghost>>

(* get_valid_access_token, first load.  A missing bundle is refused and a  *)
(* fresh one is handed out, both without a trace.                          *)
get_valid_access_token(t, w) ==
  /\ thread[t] = Idle
  /\ bundle[w] # None
  /\ ~bundle[w].fresh
  /\ thread' = [thread EXCEPT ![t] =
       [lane |-> "access", step |-> "load", ws |-> w]]
  /\ UNCHANGED <<client, flows, store, world, ghost>>

(* refresh loads once more, and refuses without a refresh token.           *)
LoadPrior(t) ==
  LET prior == bundle[thread[t].ws]
  IN /\ At(t, "load")
     /\ IF prior # None /\ prior.refreshable
        THEN thread' = [thread EXCEPT ![t] =
               [lane |-> "access", step |-> "post", ws |-> @.ws, flow |-> prior.flow, tries |-> 0]]
        ELSE End(t)
     /\ UNCHANGED <<client, flows, store, world, ghost>>

(* _post_form: 429 or 5xx, and attempts are left.                          *)
PostAgain(t) ==
  /\ At(t, "post")
  /\ thread[t].tries < MaxTries - 1
  /\ thread' = [thread EXCEPT ![t].tries = @ + 1]
  /\ UNCHANGED <<client, flows, store, world, ghost>>

(* A token, or an OAuthError.                                              *)
PostEnds(t) ==
  /\ At(t, "post")
  /\ Go(t, "store") \/ End(t)
  /\ UNCHANGED <<client, flows, store, world, ghost>>

(* _store_bundle.  A refresh keeps its refresh token whatever is sent; the *)
(* provider decides whether an exchange brings one.                        *)
StoreBundle(t) ==
  /\ At(t, "store")
  /\ \E refreshable \in BOOLEAN :
       /\ thread[t].lane = "access" => refreshable
       /\ bundle' = [bundle EXCEPT ![thread[t].ws] =
            [flow |-> thread[t].flow, refreshable |-> refreshable, fresh |-> TRUE]]
  /\ Go(t, "receipt")
  /\ UNCHANGED <<client, flows, receipts, registered, world, ghost>>

(* A first link leaves no receipt.                                         *)
WriteActionReceipt_bug(t) ==
  /\ At(t, "receipt")
  /\ receipts' = IF thread[t].lane = "exchange" THEN receipts
                 ELSE receipts \cup {<<thread[t].ws, thread[t].flow, "refreshed">>}
  /\ Go(t, IF thread[t].lane = "exchange" THEN "register" ELSE "return")
  /\ UNCHANGED <<client, flows, bundle, registered, world, ghost>>

WriteActionReceipt(t) ==
  LET exchange == thread[t].lane = "exchange"
  IN /\ At(t, "receipt")
     /\ receipts' = receipts \cup {<<thread[t].ws, thread[t].flow,
                                     IF exchange THEN "exchanged" ELSE "refreshed">>}
     /\ Go(t, IF exchange THEN "register" ELSE "return")
     /\ UNCHANGED <<client, flows, bundle, registered, world, ghost>>

(* register_from_manifest, the last step of the callback.                  *)
Register(t) ==
  /\ At(t, "register")
  /\ registered' = registered \cup {thread[t].ws}
  /\ End(t)
  /\ UNCHANGED <<client, flows, bundle, receipts, world, ghost>>

(* get_valid_access_token loads the bundle for the third time and hands    *)
(* out its token; it raises if the bundle is gone by now.                  *)
ReturnToken(t) ==
  /\ At(t, "return")
  /\ End(t)
  /\ UNCHANGED <<client, flows, store, world, ghost>>

-----------------------------------------------------------------------------
(* POST /connectors/oauth/disconnect: nothing to do, or the bundle is      *)
(* overwritten with an empty value, which reads as absent ...              *)
oauth_disconnect(t, w) ==
  /\ thread[t] = Idle
  /\ bundle[w] # None
  /\ thread' = [thread EXCEPT ![t] = [lane |-> "disconnect", step |-> "clear", ws |-> w]]
  /\ UNCHANGED <<client, flows, store, world, ghost>>

ClearBundle(t) ==
  /\ At(t, "clear")
  /\ bundle' = [bundle EXCEPT ![thread[t].ws] = None]
  /\ Go(t, "verify")
  /\ UNCHANGED <<client, flows, receipts, registered, world, ghost>>

(* A request that may still store a bundle for w.                          *)
Linking(w) == \E t \in Threads : thread[t] # Idle /\ thread[t].ws = w /\ thread[t].lane \in Lanes

(* A consent screen for w that the callback would still honour.            *)
Consenting(w) == \E f \in Live : space[f] = w

(* ... and read back: a bundle that is still there is reported as an error *)
(* and left.                                                               *)
VerifyCleared(t) ==
  LET w == thread[t].ws
  IN /\ At(t, "verify")
     /\ End(t)
     /\ settled' = settled \cup {v \in {w} : bundle[v] = None /\ ~Linking(v) /\ ~Consenting(v)}
     /\ UNCHANGED <<client, flows, store, world, answered>>

-----------------------------------------------------------------------------
Tick ==
  /\ clock < MaxClock
  /\ clock' = clock + 1
  /\ UNCHANGED <<client, flows, store, thread, faults, ghost>>

(* expires_at has passed.                                                  *)
Expire(w) ==
  /\ bundle[w] # None
  /\ bundle[w].fresh
  /\ bundle' = [bundle EXCEPT ![w].fresh = FALSE]
  /\ UNCHANGED <<client, flows, receipts, registered, thread, world, ghost>>

(* A Keychain command or an SQL statement of the request raises.           *)
RequestFails(t) ==
  /\ faults < MaxFaults
  /\ faults' = faults + 1
  /\ thread[t] # Idle
  /\ End(t)
  /\ UNCHANGED <<client, flows, store, clock, ghost>>

(* The supervisor restarts: requests and consent flows are forgotten.      *)
Crash ==
  /\ faults < MaxFaults
  /\ faults' = faults + 1
  /\ thread' = [t \in Threads |-> Idle]
  /\ pending' = {}
  /\ UNCHANGED <<client, space, started, store, clock, ghost>>

serve(t) ==
  \/ ReadClient(t) \/ LoadPrior(t) \/ PostAgain(t) \/ PostEnds(t)
  \/ StoreBundle(t) \/ WriteActionReceipt(t) \/ Register(t) \/ ReturnToken(t)
  \/ ClearBundle(t) \/ VerifyCleared(t)

Next ==
  \/ oauth_config
  \/ \E f \in Flows, w \in Spaces : oauth_start(f, w)
  \/ \E t \in Threads, f \in Flows, code \in BOOLEAN : oauth_callback(t, f, code)
  \/ \E t \in Threads, w \in Spaces : get_valid_access_token(t, w) \/ oauth_disconnect(t, w)
  \/ \E t \in Threads : serve(t) \/ RequestFails(t)
  \/ \E w \in Spaces : Expire(w)
  \/ Tick
  \/ Crash

Spec == Init /\ [][Next]_vars

-----------------------------------------------------------------------------
(* A workspace's token goes back to a consent that was given for that very *)
(* workspace, in time (oauth_callback takes workspace and age from the     *)
(* flow of the state it was handed, and refresh stays with its prior).     *)
TokenHasConsent ==
  \A w \in Spaces :
    bundle[w] # None =>
      LET f == bundle[w].flow
      IN space[f] = w /\ answered[f].times > 0 /\ answered[f].age <= TTL

(* One consent serves one exchange, however often the browser comes back   *)
(* and whatever dies in between ("single-use, popped before the exchange"). *)
ConsentIsSpentOnce == \A f \in Flows : answered[f].times <= 1

(* A workspace that is registered as linked has a receipt for a link, and  *)
(* unless a request died half-way a token that is there when no request is *)
(* under way has both ("nothing claims a connection we don't have").       *)
ConnectionIsOnRecord ==
  \A w \in Spaces :
    /\ w \in registered => \E f \in Flows : <<w, f, "exchanged">> \in receipts
    /\ bundle[w] # None /\ ~Linking(w) /\ faults = 0 =>
         w \in registered /\ <<w, bundle[w].flow, "exchanged">> \in receipts

(* A disconnect that met no open consent and no request under way lasts:   *)
(* until somebody clicks Connect again, neither a late browser, nor a      *)
(* refresh, nor a restart brings a token back.                             *)
DisconnectLasts == \A w \in settled : bundle[w] = None
=============================================================================
