----------------------------- MODULE OAuthProofs -----------------------------
(***************************************************************************)
(* What holds of OAuth for any number of threads, workspaces and consent   *)
(* flows, any time-out and any number of crashes.                          *)
(*                                                                         *)
(* A thread that holds a token, or a code on its way to become one, holds  *)
(* it for the workspace whose consent it goes back to (LinkInv); a consent *)
(* that is still pending has not been answered (SpentInv); and a workspace *)
(* where a disconnect has settled has no thread and no consent left that   *)
(* could store a token (QuietInv).                                         *)
(***************************************************************************)
EXTENDS OAuth, TLAPS

Holding == {"client", "post", "store", "receipt", "register", "return"}

Backed(w, f) ==
  space[f] = w /\ answered[f].times > 0 /\ answered[f].age <= TTL

LinkInv ==
  \A t \in Threads :
    thread[t].step \in Holding => Backed(thread[t].ws, thread[t].flow)

SpentInv ==
  \A f \in Flows :
    /\ answered[f].times <= 1
    /\ f \in pending \/ space[f] = None => answered[f].times = 0

QuietInv ==
  \A w \in settled : bundle[w] = None /\ ~Linking(w) /\ ~Consenting(w)

(* A link is on record, or the request that makes it is about to see to it. *)
Recorded(w, f) == <<w, f, "exchanged">> \in receipts /\ w \in registered

Recording(w, f) ==
  \E t \in Threads :
    /\ thread[t].step \in {"receipt", "register"}
    /\ thread[t].lane = "exchange"
    /\ thread[t].ws = w
    /\ thread[t].flow = f

ReceiptInv ==
  /\ \A t \in Threads :
       thread[t].step = "register" => <<thread[t].ws, thread[t].flow, "exchanged">> \in receipts
  /\ \A w \in registered : \E f \in Flows : <<w, f, "exchanged">> \in receipts

RecordInv ==
  faults = 0 =>
    /\ \A w \in Spaces :
         bundle[w] # None =>
           Recorded(w, bundle[w].flow) \/ Recording(w, bundle[w].flow)
    /\ \A t \in Threads :
         thread[t].step \in Holding /\ thread[t].lane = "access" =>
           \/ Recorded(thread[t].ws, thread[t].flow)
           \/ Recording(thread[t].ws, thread[t].flow)
-----------------------------------------------------------------------------
(* Type correctness.                                                       *)

(* Moving a request on changes its step and nothing else.                  *)
LEMMA StepOnly ==
  ASSUME NEW r \in Request, NEW s
  PROVE  /\ [r EXCEPT !.step = s].step = s
         /\ [r EXCEPT !.step = s].lane = r.lane
         /\ [r EXCEPT !.step = s].ws = r.ws
         /\ r.step \in Holding =>
              /\ [r EXCEPT !.step = s].flow = r.flow
              /\ [r EXCEPT !.step = s].tries = r.tries
BY DEF Request, Holding

(* The moves that the actions make lead from request to request.           *)
LEMMA StepStays ==
  ASSUME NEW r \in Request
  PROVE  /\ r.step = "client" => [r EXCEPT !.step = "post"] \in Request
         /\ r.step = "post" => [r EXCEPT !.step = "store"] \in Request
         /\ r.step = "store" => [r EXCEPT !.step = "receipt"] \in Request
         /\ r.step = "receipt" =>
              [r EXCEPT !.step = IF r.lane = "exchange" THEN "register" ELSE "return"] \in Request
         /\ r.step = "clear" => [r EXCEPT !.step = "verify"] \in Request
BY DEF Request

LEMMA TypeInit == Init => TypeOK
<1>1. 0 \in 0 .. MaxClock /\ 0 \in 0 .. MaxFaults
  BY BoundAssumption
<1>2. [age |-> 0, times |-> 0] \in [age : 0 .. MaxClock, times : Nat]
  BY <1>1
<1>3. ASSUME Init PROVE \A f \in Flows : started[f] <= clock
  BY <1>3 DEF Init
<1> QED
  BY <1>1, <1>2, <1>3 DEF Init, TypeOK

LEMMA TypeStep == TypeOK /\ [Next]_vars => TypeOK'
<1> SUFFICES ASSUME TypeOK, [Next]_vars PROVE TypeOK'
  OBVIOUS
<1> USE BoundAssumption, NoneAssumption
<1>1. CASE oauth_config
  BY <1>1 DEF oauth_config, TypeOK, flows, store, world, ghost
<1>2. ASSUME NEW f \in Flows, NEW w \in Spaces, oauth_start(f, w) PROVE TypeOK'
  <2>1. space' \in [Flows -> Spaces \cup {None}] /\ started' \in [Flows -> 0 .. MaxClock]
    BY <1>2 DEF oauth_start, TypeOK
  <2>2. pending' \subseteq {g \in Flows : space'[g] # None}
    <3>1. pending' \subseteq pending \cup {f}
      BY <1>2 DEF oauth_start, Live
    <3>2. space'[f] = w
      BY <1>2 DEF oauth_start, TypeOK
    <3>3. \A g \in Flows \ {f} : space'[g] = space[g]
      BY <1>2 DEF oauth_start, TypeOK
    <3> QED
      BY <3>1, <3>2, <3>3 DEF TypeOK
  <2> QED
    BY <1>2, <2>1, <2>2 DEF oauth_start, TypeOK, store, world
<1>3. ASSUME NEW t \in Threads, NEW f \in Flows, NEW code \in BOOLEAN,
             oauth_callback(t, f, code)
      PROVE  TypeOK'
  <2>1. pending' \subseteq {g \in Flows : space'[g] # None}
    BY <1>3 DEF oauth_callback, TypeOK, Live
  <2>2. thread' \in [Threads -> Request \cup {Idle}]
    <3>1. space[f] \in Spaces
      BY <1>3 DEF oauth_callback, TypeOK
    <3>2. [lane |-> "exchange", step |-> "client", ws |-> space[f], flow |-> f, tries |-> 0]
            \in Request
      BY <3>1 DEF Request
    <3> QED
      BY <1>3, <3>2 DEF oauth_callback, Accept, TypeOK
  <2>3. answered' \in [Flows -> [age : 0 .. MaxClock, times : Nat]]
    <3>1. f \in Live => clock - started[f] \in 0 .. MaxClock
      BY <1>3 DEF TypeOK, Live
    <3>2. answered[f].times + 1 \in Nat
      BY DEF TypeOK
    <3>3. f \in Live => [age |-> clock - started[f], times |-> answered[f].times + 1]
                          \in [age : 0 .. MaxClock, times : Nat]
      BY <3>1, <3>2
    <3>4. CASE f \in Live /\ code
      <4>1. answered' = [answered EXCEPT ![f] =
               [age |-> clock - started[f], times |-> answered[f].times + 1]]
        BY <1>3, <3>4 DEF oauth_callback, Accept
      <4> QED
        BY <3>3, <3>4, <4>1 DEF TypeOK
    <3>5. CASE ~(f \in Live /\ code)
      BY <1>3, <3>5 DEF oauth_callback, TypeOK
    <3> QED
      BY <3>4, <3>5
  <2> QED
    BY <1>3, <2>1, <2>2, <2>3 DEF oauth_callback, TypeOK, store, world
<1>4. ASSUME NEW t \in Threads, NEW w \in Spaces, get_valid_access_token(t, w)
      PROVE  TypeOK'
  <2>1. [lane |-> "access", step |-> "load", ws |-> w] \in Request
    BY DEF Request
  <2> QED
    BY <1>4, <2>1 DEF get_valid_access_token, TypeOK, flows, store, world, ghost
<1>5. ASSUME NEW t \in Threads, NEW w \in Spaces, oauth_disconnect(t, w)
      PROVE  TypeOK'
  <2>1. [lane |-> "disconnect", step |-> "clear", ws |-> w] \in Request
    BY DEF Request
  <2> QED
    BY <1>5, <2>1 DEF oauth_disconnect, TypeOK, flows, store, world, ghost
<1>6. ASSUME NEW t \in Threads, serve(t) PROVE TypeOK'
  <2>0. thread[t] # Idle => thread[t] \in Request
    BY DEF TypeOK
  <2> DEFINE r == thread[t]
  <2>1. CASE ReadClient(t)
    <3>1. r \in Request
      BY <2>1, <2>0 DEF ReadClient, At, Idle
    <3>2. thread' \in [Threads -> Request \cup {Idle}]
      BY <2>1, <3>1, StepStays DEF ReadClient, At, Go, End, TypeOK
    <3> QED
      BY <2>1, <3>2 DEF ReadClient, TypeOK, flows, store, world, ghost
  <2>2. CASE LoadPrior(t)
    <3>1. r \in Request
      BY <2>2, <2>0 DEF LoadPrior, At, Idle
    <3>2. r.ws \in Spaces
      BY <3>1 DEF Request
    <3>3. ASSUME bundle[r.ws] # None
          PROVE  [lane |-> "access", step |-> "post", ws |-> r.ws,
                  flow |-> bundle[r.ws].flow, tries |-> 0] \in Request
      BY <3>2, <3>3 DEF Request, TypeOK, Bundle
    <3>4. thread' \in [Threads -> Request \cup {Idle}]
      BY <2>2, <3>3 DEF LoadPrior, End, TypeOK
    <3> QED
      BY <2>2, <3>4 DEF LoadPrior, TypeOK, flows, store, world, ghost
  <2>3. CASE PostAgain(t)
    <3>1. r \in Request
      BY <2>3, <2>0 DEF PostAgain, At, Idle
    <3>2. [r EXCEPT !.tries = r.tries + 1] \in Request
      BY <2>3, <3>1 DEF PostAgain, At, Request
    <3>3. thread' \in [Threads -> Request \cup {Idle}]
      BY <2>3, <3>2 DEF PostAgain, TypeOK
    <3> QED
      BY <2>3, <3>3 DEF PostAgain, TypeOK, flows, store, world, ghost
  <2>4. CASE PostEnds(t)
    <3>1. r \in Request
      BY <2>4, <2>0 DEF PostEnds, At, Idle
    <3>2. thread' \in [Threads -> Request \cup {Idle}]
      BY <2>4, <3>1, StepStays DEF PostEnds, At, Go, End, TypeOK
    <3> QED
      BY <2>4, <3>2 DEF PostEnds, TypeOK, flows, store, world, ghost
  <2>5. CASE StoreBundle(t)
    <3>1. r \in Request
      BY <2>5, <2>0 DEF StoreBundle, At, Idle
    <3>2. r.flow \in Flows
      BY <2>5, <3>1 DEF StoreBundle, At, Request
    <3>3. bundle' \in [Spaces -> Bundle \cup {None}]
      <4>1. PICK refreshable \in BOOLEAN :
              bundle' = [bundle EXCEPT ![r.ws] =
                [flow |-> r.flow, refreshable |-> refreshable, fresh |-> TRUE]]
        BY <2>5 DEF StoreBundle
      <4>2. [flow |-> r.flow, refreshable |-> refreshable, fresh |-> TRUE] \in Bundle
        BY <3>2 DEF Bundle
      <4> QED
        BY <4>1, <4>2 DEF TypeOK
    <3>4. thread' \in [Threads -> Request \cup {Idle}]
      BY <2>5, <3>1, StepStays DEF StoreBundle, At, Go, TypeOK
    <3> QED
      BY <2>5, <3>3, <3>4 DEF StoreBundle, TypeOK, flows, world, ghost
  <2>6. CASE WriteActionReceipt(t)
    <3>1. r \in Request
      BY <2>6, <2>0 DEF WriteActionReceipt, At, Idle
    <3>2. r.flow \in Flows /\ r.ws \in Spaces
      BY <2>6, <3>1 DEF WriteActionReceipt, At, Request
    <3>3. thread' \in [Threads -> Request \cup {Idle}]
      BY <2>6, <3>1, StepStays DEF WriteActionReceipt, At, Go, TypeOK
    <3> QED
      BY <2>6, <3>2, <3>3 DEF WriteActionReceipt, TypeOK, flows, world, ghost
  <2>7. CASE Register(t)
    <3>1. r.ws \in Spaces
      BY <2>7, <2>0 DEF Register, At, Idle, Request
    <3> QED
      BY <2>7, <3>1 DEF Register, End, TypeOK, flows, world, ghost
  <2>8. CASE ReturnToken(t)
    BY <2>8 DEF ReturnToken, End, TypeOK, flows, store, world, ghost
  <2>9. CASE ClearBundle(t)
    <3>1. r \in Request
      BY <2>9, <2>0 DEF ClearBundle, At, Idle
    <3>2. thread' \in [Threads -> Request \cup {Idle}]
      BY <2>9, <3>1, StepStays DEF ClearBundle, At, Go, TypeOK
    <3> QED
      BY <2>9, <3>2 DEF ClearBundle, TypeOK, flows, world, ghost
  <2>10. CASE VerifyCleared(t)
    <3>1. r.ws \in Spaces
      BY <2>10, <2>0 DEF VerifyCleared, At, Idle, Request
    <3> QED
      BY <2>10, <3>1 DEF VerifyCleared, End, TypeOK, flows, store, world
  <2> QED
    BY <1>6, <2>1, <2>2, <2>3, <2>4, <2>5, <2>6, <2>7, <2>8, <2>9, <2>10 DEF serve
<1>7. ASSUME NEW t \in Threads, RequestFails(t) PROVE TypeOK'
  BY <1>7 DEF RequestFails, End, TypeOK, flows, store, ghost
<1>8. ASSUME NEW w \in Spaces, Expire(w) PROVE TypeOK'
  <2>1. bundle[w] \in Bundle \cup {None} /\ bundle[w] # None
    BY <1>8 DEF Expire, TypeOK
  <2>2. [bundle[w] EXCEPT !.fresh = FALSE] \in Bundle
    BY <2>1 DEF Bundle
  <2> QED
    BY <1>8, <2>2 DEF Expire, TypeOK, flows, world, ghost
<1>9. CASE Tick
  BY <1>9 DEF Tick, TypeOK, flows, store, ghost
<1>10. CASE Crash
  BY <1>10 DEF Crash, TypeOK, store, ghost
<1>11. CASE UNCHANGED vars
  BY <1>11 DEF vars, flows, store, world, ghost, TypeOK
<1> QED
  BY <1>1, <1>2, <1>3, <1>4, <1>5, <1>6, <1>7, <1>8, <1>9, <1>10, <1>11 DEF Next
-----------------------------------------------------------------------------
(* What a step can do to a thread, a bundle and a consent.                 *)

(* A request that links or fetches was there before and holds what it      *)
(* held, or is a browser whose consent was accepted just now, or an access *)
(* that begins with a stale bundle, or one that has just read its bundle.  *)
LEMMA ThreadStep ==
  ASSUME TypeOK, [Next]_vars, NEW u \in Threads,
         thread'[u] # Idle, thread'[u].lane \in Lanes
  PROVE  \/ thread'[u] = thread[u]
         \/ /\ thread[u] \in Request
            /\ thread[u].step \in Holding /\ thread'[u].step \in Holding
            /\ thread'[u].lane = thread[u].lane
            /\ thread'[u].ws = thread[u].ws
            /\ thread'[u].flow = thread[u].flow
         \/ \E f \in Live :
              /\ thread'[u].lane = "exchange" /\ thread'[u].step = "client"
              /\ thread'[u].ws = space[f] /\ thread'[u].flow = f
              /\ answered'[f] = [age |-> clock - started[f], times |-> answered[f].times + 1]
              /\ UNCHANGED space
         \/ /\ bundle[thread'[u].ws] # None
            /\ thread'[u].lane = "access" /\ thread'[u].step = "load"
         \/ /\ thread[u] \in Request
            /\ thread[u].lane = "access" /\ thread[u].step = "load"
            /\ thread'[u].lane = "access" /\ thread'[u].step = "post"
            /\ bundle[thread[u].ws] # None
            /\ thread'[u].ws = thread[u].ws
            /\ thread'[u].flow = bundle[thread[u].ws].flow
<1> DEFINE Moved ==
      /\ thread[u] \in Request
      /\ thread[u].step \in Holding /\ thread'[u].step \in Holding
      /\ thread'[u].lane = thread[u].lane
      /\ thread'[u].ws = thread[u].ws
      /\ thread'[u].flow = thread[u].flow
<1>0. thread[u] # Idle => thread[u] \in Request
  BY DEF TypeOK
<1>1. CASE oauth_config
  BY <1>1 DEF oauth_config
<1>2. ASSUME NEW f \in Flows, NEW w \in Spaces, oauth_start(f, w) PROVE thread'[u] = thread[u]
  BY <1>2 DEF oauth_start
<1>3. ASSUME NEW t \in Threads, NEW f \in Flows, NEW code \in BOOLEAN, oauth_callback(t, f, code)
      PROVE  \/ thread'[u] = thread[u]
             \/ /\ f \in Live
                /\ thread'[u].lane = "exchange" /\ thread'[u].step = "client"
                /\ thread'[u].ws = space[f] /\ thread'[u].flow = f
                /\ answered'[f] = [age |-> clock - started[f], times |-> answered[f].times + 1]
                /\ UNCHANGED space
  BY <1>3 DEF oauth_callback, Accept, TypeOK
<1>4. ASSUME NEW t \in Threads, NEW w \in Spaces, get_valid_access_token(t, w)
      PROVE  \/ thread'[u] = thread[u]
             \/ /\ bundle[thread'[u].ws] # None
                /\ thread'[u].lane = "access" /\ thread'[u].step = "load"
  BY <1>4 DEF get_valid_access_token, TypeOK
<1>5. ASSUME NEW t \in Threads, NEW w \in Spaces, oauth_disconnect(t, w)
      PROVE  thread'[u] = thread[u]
  <2>1. CASE u = t
    BY <1>5, <2>1 DEF oauth_disconnect, TypeOK, Lanes
  <2> QED
    BY <1>5, <2>1 DEF oauth_disconnect, TypeOK
<1>6. ASSUME NEW t \in Threads, serve(t), t = u
      PROVE  \/ Moved
             \/ /\ thread[u] \in Request
                /\ thread[u].lane = "access" /\ thread[u].step = "load"
                /\ thread'[u].lane = "access" /\ thread'[u].step = "post"
                /\ bundle[thread[u].ws] # None
                /\ thread'[u].ws = thread[u].ws
                /\ thread'[u].flow = bundle[thread[u].ws].flow
  <2>0. thread \in [Threads -> Request \cup {Idle}]
    BY DEF TypeOK
  <2>1. ASSUME NEW s, Go(u, s), thread[u] \in Request
        PROVE  /\ thread'[u].step = s
               /\ thread'[u].lane = thread[u].lane
               /\ thread'[u].ws = thread[u].ws
               /\ thread[u].step \in Holding => thread'[u].flow = thread[u].flow
    <3>1. thread'[u] = [thread[u] EXCEPT !.step = s]
      BY <2>0, <2>1 DEF Go
    <3> QED
      BY <2>1, <3>1, StepOnly
  <2>2. ~End(u)
    BY <2>0 DEF End
  <2>3. ASSUME NEW s, At(u, s), s # "idle" PROVE thread[u] \in Request
    BY <2>3, <1>0 DEF At, Idle
  <2>4. CASE ReadClient(u)
    BY <2>4, <2>1, <2>2, <2>3 DEF ReadClient, At, Holding
  <2>5. CASE LoadPrior(u)
    <3>1. thread[u] \in Request
      BY <2>5, <2>3 DEF LoadPrior
    <3>2. thread[u].lane = "access"
      BY <2>5, <3>1 DEF LoadPrior, At, Request
    <3>3. bundle[thread[u].ws] # None
      BY <2>5, <2>2 DEF LoadPrior
    <3>4. thread'[u] = [lane |-> "access", step |-> "post", ws |-> thread[u].ws,
                        flow |-> bundle[thread[u].ws].flow, tries |-> 0]
      BY <2>5, <2>0, <2>2 DEF LoadPrior
    <3> QED
      BY <2>5, <3>1, <3>2, <3>3, <3>4 DEF LoadPrior, At
  <2>6. CASE PostAgain(u)
    <3>1. thread[u] \in Request
      BY <2>6, <2>3 DEF PostAgain
    <3>2. thread'[u] = [thread[u] EXCEPT !.tries = thread[u].tries + 1]
      BY <2>6, <2>0 DEF PostAgain
    <3>3. /\ thread'[u].step = thread[u].step /\ thread'[u].lane = thread[u].lane
          /\ thread'[u].ws = thread[u].ws /\ thread'[u].flow = thread[u].flow
      BY <2>6, <3>1, <3>2 DEF Request, PostAgain, At
    <3> QED
      BY <2>6, <3>1, <3>3 DEF PostAgain, At, Holding
  <2>7. CASE PostEnds(u)
    BY <2>7, <2>1, <2>2, <2>3 DEF PostEnds, At, Holding
  <2>8. CASE StoreBundle(u)
    BY <2>8, <2>1, <2>3 DEF StoreBundle, At, Holding
  <2>9. CASE WriteActionReceipt(u)
    BY <2>9, <2>1, <2>3 DEF WriteActionReceipt, At, Holding
  <2>10. CASE Register(u)
    BY <2>10, <2>2 DEF Register
  <2>11. CASE ReturnToken(u)
    BY <2>11, <2>2 DEF ReturnToken
  <2>12. CASE ClearBundle(u)
    <3>1. thread[u] \in Request /\ thread'[u].lane = thread[u].lane
      BY <2>12, <2>1, <2>3 DEF ClearBundle
    <3> QED
      BY <2>12, <3>1 DEF ClearBundle, At, Request, Lanes
  <2>13. CASE VerifyCleared(u)
    BY <2>13, <2>2 DEF VerifyCleared
  <2> QED
    BY <1>6, <2>4, <2>5, <2>6, <2>7, <2>8, <2>9, <2>10, <2>11, <2>12, <2>13 DEF serve
<1>7. ASSUME NEW t \in Threads, serve(t), t # u PROVE thread'[u] = thread[u]
  BY <1>7 DEF serve, ReadClient, LoadPrior, PostAgain, PostEnds, StoreBundle,
              WriteActionReceipt, Register, ReturnToken, ClearBundle, VerifyCleared,
              Go, End, TypeOK
<1>8. ASSUME NEW t \in Threads, RequestFails(t) PROVE thread'[u] = thread[u]
  BY <1>8 DEF RequestFails, End, TypeOK
<1>9. ASSUME NEW w \in Spaces, Expire(w) PROVE thread'[u] = thread[u]
  BY <1>9 DEF Expire
<1>10. CASE Tick
  BY <1>10 DEF Tick
<1>11. CASE Crash
  BY <1>11 DEF Crash
<1>12. CASE UNCHANGED vars
  BY <1>12 DEF vars
<1> QED
  BY <1>1, <1>2, <1>3, <1>4, <1>5, <1>6, <1>7, <1>8, <1>9, <1>10, <1>11, <1>12 DEF Next

(* A token is the one that was there, made older at most, or was stored by *)
(* a request that held it.                                                 *)
LEMMA BundleStep ==
  ASSUME TypeOK, [Next]_vars, NEW w \in Spaces, bundle'[w] # None
  PROVE  \/ bundle[w] # None /\ bundle'[w].flow = bundle[w].flow
         \/ \E t \in Threads :
              /\ thread[t] \in Request /\ thread[t].step = "store"
              /\ thread'[t].step = "receipt"
              /\ thread'[t].lane = thread[t].lane
              /\ thread'[t].ws = thread[t].ws
              /\ thread'[t].flow = thread[t].flow
              /\ thread[t].ws = w /\ bundle'[w].flow = thread[t].flow
<1>1. ASSUME NEW t \in Threads, StoreBundle(t), thread[t].ws = w
      PROVE  /\ thread[t] \in Request /\ thread[t].step = "store"
             /\ thread'[t].step = "receipt"
             /\ thread'[t].lane = thread[t].lane
             /\ thread'[t].ws = thread[t].ws
             /\ thread'[t].flow = thread[t].flow
             /\ bundle'[w].flow = thread[t].flow
  <2>1. thread[t] \in Request /\ thread[t].step = "store"
    BY <1>1 DEF StoreBundle, At, TypeOK, Idle
  <2>2. thread'[t] = [thread[t] EXCEPT !.step = "receipt"]
    BY <1>1 DEF StoreBundle, Go, TypeOK
  <2>3. PICK refreshable \in BOOLEAN :
          bundle' = [bundle EXCEPT ![w] =
            [flow |-> thread[t].flow, refreshable |-> refreshable, fresh |-> TRUE]]
    BY <1>1 DEF StoreBundle
  <2>4. bundle'[w].flow = thread[t].flow
    BY <2>3 DEF TypeOK
  <2> QED
    BY <2>1, <2>2, <2>4, StepOnly DEF Holding
<1>2. ASSUME NEW t \in Threads, StoreBundle(t), thread[t].ws # w
      PROVE  bundle'[w] = bundle[w]
  BY <1>2 DEF StoreBundle, TypeOK
<1>3. ASSUME NEW v \in Spaces, Expire(v)
      PROVE  bundle[w] # None /\ bundle'[w].flow = bundle[w].flow
  <2>1. CASE v = w
    <3>1. bundle[w] \in Bundle
      BY <1>3, <2>1 DEF Expire, TypeOK
    <3>2. bundle'[w] = [bundle[w] EXCEPT !.fresh = FALSE]
      BY <1>3, <2>1 DEF Expire, TypeOK
    <3> QED
      BY <1>3, <2>1, <3>1, <3>2 DEF Bundle, Expire
  <2>2. CASE v # w
    BY <1>3, <2>2 DEF Expire, TypeOK
  <2> QED
    BY <2>1, <2>2
<1>4. ASSUME NEW t \in Threads, ClearBundle(t) PROVE bundle'[w] = bundle[w]
  BY <1>4 DEF ClearBundle, TypeOK
<1>5. CASE UNCHANGED bundle
  BY <1>5
<1>6. \/ UNCHANGED bundle
      \/ \E t \in Threads : StoreBundle(t) \/ ClearBundle(t)
      \/ \E v \in Spaces : Expire(v)
  BY DEF Next, vars, store, oauth_config, oauth_start, oauth_callback, get_valid_access_token,
         oauth_disconnect, serve, ReadClient, LoadPrior, PostAgain, PostEnds,
         WriteActionReceipt, Register, ReturnToken, VerifyCleared, RequestFails, Tick, Crash
<1> QED
  BY <1>1, <1>2, <1>3, <1>4, <1>5, <1>6

(* Consents: one is started once, answered once while it is pending, and   *)
(* untouched otherwise.                                                    *)
LEMMA ConsentStep ==
  ASSUME TypeOK, [Next]_vars
  PROVE  \/ UNCHANGED <<space, answered>> /\ pending' \subseteq pending
         \/ \E f \in Flows, w \in Spaces :
              /\ space[f] = None
              /\ space' = [space EXCEPT ![f] = w]
              /\ pending' \subseteq pending \cup {f}
              /\ UNCHANGED answered
         \/ \E f \in Live :
              /\ pending' = Live \ {f}
              /\ answered' = [answered EXCEPT ![f] =
                    [age |-> clock - started[f], times |-> @.times + 1]]
              /\ UNCHANGED space
<1>1. ASSUME NEW f \in Flows, NEW w \in Spaces, oauth_start(f, w)
      PROVE  /\ space[f] = None
             /\ space' = [space EXCEPT ![f] = w]
             /\ pending' \subseteq pending \cup {f}
             /\ UNCHANGED answered
  BY <1>1 DEF oauth_start, Live
<1>2. ASSUME NEW t \in Threads, NEW f \in Flows, NEW code \in BOOLEAN, oauth_callback(t, f, code)
      PROVE  \/ UNCHANGED <<space, answered>> /\ pending' \subseteq pending
             \/ /\ f \in Live
                /\ pending' = Live \ {f}
                /\ answered' = [answered EXCEPT ![f] =
                      [age |-> clock - started[f], times |-> @.times + 1]]
                /\ UNCHANGED space
  BY <1>2 DEF oauth_callback, Accept, Live
<1>3. \/ \E f \in Flows, w \in Spaces : oauth_start(f, w)
      \/ \E t \in Threads, f \in Flows, code \in BOOLEAN : oauth_callback(t, f, code)
      \/ UNCHANGED <<space, answered>> /\ pending' \subseteq pending
  BY DEF Next, vars, flows, ghost, oauth_config, get_valid_access_token,
         oauth_disconnect, serve, ReadClient, LoadPrior, PostAgain, PostEnds, StoreBundle,
         WriteActionReceipt, Register, ReturnToken, ClearBundle, VerifyCleared, Expire,
         RequestFails, Tick, Crash
<1> QED
  BY <1>1, <1>2, <1>3

-----------------------------------------------------------------------------
(* Consents and tokens.                                                    *)

LEMMA SpentStep == TypeOK /\ SpentInv /\ [Next]_vars => SpentInv'
<1> SUFFICES ASSUME TypeOK, SpentInv, [Next]_vars, NEW g \in Flows
             PROVE  /\ answered'[g].times <= 1
                    /\ g \in pending' \/ space'[g] = None => answered'[g].times = 0
  BY DEF SpentInv
<1>1. CASE UNCHANGED <<space, answered>> /\ pending' \subseteq pending
  BY <1>1 DEF SpentInv
<1>2. ASSUME NEW f \in Flows, NEW w \in Spaces, space[f] = None,
             space' = [space EXCEPT ![f] = w], pending' \subseteq pending \cup {f},
             UNCHANGED answered
      PROVE  /\ answered'[g].times <= 1
             /\ g \in pending' \/ space'[g] = None => answered'[g].times = 0
  BY <1>2 DEF SpentInv, TypeOK
<1>3. ASSUME NEW f \in Live, pending' = Live \ {f}, UNCHANGED space,
             answered' = [answered EXCEPT ![f] =
               [age |-> clock - started[f], times |-> @.times + 1]]
      PROVE  /\ answered'[g].times <= 1
             /\ g \in pending' \/ space'[g] = None => answered'[g].times = 0
  <2>1. f \in pending /\ f \in Flows /\ space[f] # None
    BY DEF Live, TypeOK
  <2>2. CASE g = f
    <3>1. answered'[g].times = answered[f].times + 1
      BY <1>3, <2>1, <2>2 DEF TypeOK
    <3> QED
      BY <1>3, <2>1, <2>2, <3>1 DEF SpentInv
  <2>3. CASE g # f
    BY <1>3, <2>1, <2>3 DEF SpentInv, Live, TypeOK
  <2> QED
    BY <2>2, <2>3
<1> QED
  BY <1>1, <1>2, <1>3, ConsentStep

(* A consent that backs a token goes on backing it.                        *)
LEMMA BackedStays ==
  ASSUME TypeOK, SpentInv, [Next]_vars, NEW w \in Spaces, NEW g \in Flows, Backed(w, g)
  PROVE  Backed(w, g)'
<1>0. g \notin pending /\ space[g] # None
  BY DEF SpentInv, Backed
<1>1. CASE UNCHANGED <<space, answered>>
  BY <1>1 DEF Backed
<1>2. ASSUME NEW f \in Flows, NEW v \in Spaces, space[f] = None,
             space' = [space EXCEPT ![f] = v], UNCHANGED answered
      PROVE  Backed(w, g)'
  BY <1>0, <1>2 DEF Backed, TypeOK
<1>3. ASSUME NEW f \in Live, UNCHANGED space,
             answered' = [answered EXCEPT ![f] =
               [age |-> clock - started[f], times |-> @.times + 1]]
      PROVE  Backed(w, g)'
  BY <1>0, <1>3 DEF Backed, Live, TypeOK
<1> QED
  BY <1>1, <1>2, <1>3, ConsentStep

LEMMA LinkStep ==
  TypeOK /\ SpentInv /\ LinkInv /\ TokenHasConsent /\ [Next]_vars
    => LinkInv' /\ TokenHasConsent'
<1> SUFFICES ASSUME TypeOK, SpentInv, LinkInv, TokenHasConsent, [Next]_vars
             PROVE  LinkInv' /\ TokenHasConsent'
  OBVIOUS
<1>0. TypeOK'
  BY TypeStep
<1>1. ASSUME NEW w \in Spaces, bundle[w] # None
      PROVE  bundle[w].flow \in Flows /\ Backed(w, bundle[w].flow)
  BY <1>1 DEF TokenHasConsent, Backed, TypeOK, Bundle
<1>2. ASSUME NEW t \in Threads, thread[t] \in Request, thread[t].step \in Holding
      PROVE  /\ thread[t].ws \in Spaces /\ thread[t].flow \in Flows
             /\ Backed(thread[t].ws, thread[t].flow)
  BY <1>2 DEF LinkInv, Request, Holding
<1>3. ASSUME NEW u \in Threads, thread'[u].step \in Holding
      PROVE  Backed(thread[u].ws, thread[u].flow)'
  <2>1. thread'[u] \in Request
    BY <1>0, <1>3 DEF TypeOK, Holding, Idle
  <2>2. thread'[u] # Idle /\ thread'[u].lane \in Lanes
    BY <1>3, <2>1 DEF Holding, Request, Lanes, Idle
  <2>3. CASE thread'[u] = thread[u]
    BY <1>2, <1>3, <2>1, <2>3, BackedStays DEF Backed
  <2>4. CASE /\ thread[u] \in Request /\ thread[u].step \in Holding
             /\ thread'[u].ws = thread[u].ws /\ thread'[u].flow = thread[u].flow
    BY <1>2, <2>4, BackedStays DEF Backed
  <2>5. ASSUME NEW f \in Live, thread'[u].ws = space[f], thread'[u].flow = f, UNCHANGED space,
               answered'[f] = [age |-> clock - started[f], times |-> answered[f].times + 1]
        PROVE  Backed(thread[u].ws, thread[u].flow)'
    <3>1. f \in Flows /\ clock - started[f] <= TTL /\ answered[f].times \in Nat
      BY DEF Live, TypeOK
    <3> QED
      BY <2>5, <3>1 DEF Backed
  <2>6. CASE /\ thread[u] \in Request /\ thread[u].step = "load" /\ thread[u].lane = "access"
             /\ bundle[thread[u].ws] # None
             /\ thread'[u].ws = thread[u].ws
             /\ thread'[u].flow = bundle[thread[u].ws].flow
    <3>1. thread[u].ws \in Spaces
      BY <2>6 DEF Request
    <3> QED
      BY <1>1, <2>6, <3>1, BackedStays DEF Backed
  <2>7. thread'[u].step # "load"
    BY <1>3 DEF Holding
  <2> QED
    BY <2>2, <2>3, <2>4, <2>5, <2>6, <2>7, ThreadStep
<1>4. ASSUME NEW w \in Spaces, bundle'[w] # None
      PROVE  Backed(w, bundle[w].flow)'
  <2>1. CASE bundle[w] # None /\ bundle'[w].flow = bundle[w].flow
    BY <1>1, <2>1, BackedStays DEF Backed
  <2>2. ASSUME NEW t \in Threads, thread[t] \in Request, thread[t].step = "store",
               thread[t].ws = w, bundle'[w].flow = thread[t].flow
        PROVE  Backed(w, bundle[w].flow)'
    BY <1>2, <2>2, BackedStays DEF Backed, Holding
  <2> QED
    BY <1>4, <2>1, <2>2, BundleStep
<1> QED
  BY <1>3, <1>4 DEF LinkInv, TokenHasConsent, Backed

-----------------------------------------------------------------------------
(* A disconnect that has settled.                                          *)

(* Where a disconnect has settled, or settles with this step, the step     *)
(* begins with no token, no request under way and no consent open.         *)
LEMMA SettledStep ==
  ASSUME TypeOK, QuietInv, [Next]_vars, NEW w \in settled'
  PROVE  /\ w \in Spaces /\ bundle[w] = None /\ ~Linking(w) /\ ~Consenting(w)
         /\ \A f \in Flows : ~oauth_start(f, w)
<1>0. settled' \subseteq Spaces
  BY TypeStep DEF TypeOK
<1>1. \A f \in Flows : ~oauth_start(f, w)
  BY DEF oauth_start
<1>2. CASE w \in settled
  BY <1>0, <1>1, <1>2 DEF QuietInv
<1>3. CASE w \notin settled
  <2>1. \E t \in Threads : VerifyCleared(t)
    BY <1>3 DEF Next, vars, ghost, oauth_config, oauth_start, oauth_callback,
           get_valid_access_token, oauth_disconnect, serve, ReadClient, LoadPrior,
           PostAgain, PostEnds, StoreBundle, WriteActionReceipt, Register, ReturnToken,
           ClearBundle, Expire, RequestFails, Tick, Crash
  <2>2. bundle[w] = None /\ ~Linking(w) /\ ~Consenting(w)
    BY <1>3, <2>1 DEF VerifyCleared
  <2> QED
    BY <1>0, <1>1, <2>2
<1> QED
  BY <1>2, <1>3

(* No consent opens for w unless somebody clicks Connect there.            *)
LEMMA ConsentingStep ==
  ASSUME TypeOK, [Next]_vars, NEW w \in Spaces, ~Consenting(w),
         \A f \in Flows : ~oauth_start(f, w)
  PROVE  ~Consenting(w)'
<1> SUFFICES ASSUME NEW g \in Flows, g \in Live', space'[g] = w
             PROVE  FALSE
  BY TypeStep DEF Consenting, Live, TypeOK
<1>0. clock \in Nat /\ started[g] \in Nat /\ TTL \in Nat
  BY BoundAssumption DEF TypeOK
<1>1. ASSUME NEW f \in Flows, NEW v \in Spaces, oauth_start(f, v) PROVE FALSE
  <2>1. v # w
    BY <1>1
  <2>2. g # f
    BY <1>1, <2>1 DEF oauth_start, TypeOK
  <2>3. space[g] = w /\ g \in Live
    BY <1>1, <2>2 DEF oauth_start, world, Live, TypeOK
  <2> QED
    BY <2>3 DEF Consenting
<1>2. ASSUME UNCHANGED <<space, started>>, pending' \subseteq pending,
             clock' \in {clock, clock + 1}
      PROVE  FALSE
  <2>1. g \in pending /\ clock - started[g] <= TTL
    BY <1>0, <1>2 DEF Live
  <2> QED
    BY <1>2, <2>1 DEF Consenting, Live
<1>3. \/ \E f \in Flows, v \in Spaces : oauth_start(f, v)
      \/ /\ UNCHANGED <<space, started>> /\ pending' \subseteq pending
         /\ clock' \in {clock, clock + 1}
  BY DEF Next, vars, flows, world, Live, oauth_config, oauth_callback, get_valid_access_token,
         oauth_disconnect, serve, ReadClient, LoadPrior, PostAgain, PostEnds, StoreBundle,
         WriteActionReceipt, Register, ReturnToken, ClearBundle, VerifyCleared, Expire,
         RequestFails, Tick, Crash
<1> QED
  BY <1>1, <1>2, <1>3

LEMMA QuietStep == TypeOK /\ QuietInv /\ [Next]_vars => QuietInv'
<1> SUFFICES ASSUME TypeOK, QuietInv, [Next]_vars, NEW w \in settled'
             PROVE  bundle'[w] = None /\ ~Linking(w)' /\ ~Consenting(w)'
  BY DEF QuietInv
<1>1. /\ w \in Spaces /\ bundle[w] = None /\ ~Linking(w) /\ ~Consenting(w)
      /\ \A f \in Flows : ~oauth_start(f, w)
  BY SettledStep
<1>2. ~Consenting(w)'
  BY <1>1, ConsentingStep
<1>3. bundle'[w] = None
  <2>1. ASSUME NEW t \in Threads, thread[t] \in Request, thread[t].step = "store",
               thread[t].ws = w
        PROVE  FALSE
    <3>1. thread[t] # Idle /\ thread[t].lane \in Lanes
      BY <2>1 DEF Request, Idle, Lanes
    <3> QED
      BY <1>1, <2>1, <3>1 DEF Linking
  <2> QED
    BY <1>1, <2>1, BundleStep
<1>4. ASSUME NEW u \in Threads, thread'[u] # Idle, thread'[u].ws = w, thread'[u].lane \in Lanes
      PROVE  FALSE
  <2>1. CASE thread'[u] = thread[u]
    BY <1>1, <1>4, <2>1 DEF Linking
  <2>2. CASE /\ thread[u] \in Request /\ thread[u].step # "idle"
             /\ thread'[u].lane = thread[u].lane /\ thread'[u].ws = thread[u].ws
    BY <1>1, <1>4, <2>2 DEF Linking, Idle
  <2>3. ASSUME NEW f \in Live, thread'[u].ws = space[f] PROVE FALSE
    BY <1>1, <1>4, <2>3 DEF Consenting
  <2>4. CASE bundle[thread'[u].ws] # None
    BY <1>1, <1>4, <2>4
  <2>5. thread[u].step \in Holding \cup {"load"} => thread[u].step # "idle"
    BY DEF Holding
  <2> QED
    BY <1>4, <2>1, <2>2, <2>3, <2>4, <2>5, ThreadStep
<1> QED
  BY <1>2, <1>3, <1>4 DEF Linking

-----------------------------------------------------------------------------
(* The record of a link.                                                   *)

(* Receipts and registrations only grow, and grow by a request that has    *)
(* got that far.                                                           *)
LEMMA StoreStep ==
  ASSUME TypeOK, [Next]_vars
  PROVE  /\ receipts \subseteq receipts'
         /\ registered \subseteq registered'
         /\ \A w \in registered' \ registered :
              \E t \in Threads : thread[t].step = "register" /\ thread[t].ws = w
         /\ faults' = 0 => faults = 0 /\ ~Crash /\ \A t \in Threads : ~RequestFails(t)
<1>0. faults \in Nat
  BY BoundAssumption DEF TypeOK
<1>1. ASSUME NEW t \in Threads, Register(t)
      PROVE  /\ registered' = registered \cup {thread[t].ws}
             /\ thread[t].step = "register"
             /\ UNCHANGED <<receipts, faults>>
  BY <1>1 DEF Register, At, world
<1>2. ASSUME NEW t \in Threads, WriteActionReceipt(t)
      PROVE  receipts \subseteq receipts' /\ UNCHANGED <<registered, faults>>
  BY <1>2 DEF WriteActionReceipt, world
<1>3. \/ \E t \in Threads : Register(t) \/ WriteActionReceipt(t)
      \/ UNCHANGED <<receipts, registered>> /\ faults' \in {faults, faults + 1}
  BY DEF Next, vars, store, world, oauth_config, oauth_start, oauth_callback,
         get_valid_access_token, oauth_disconnect, serve, ReadClient, LoadPrior, PostAgain,
         PostEnds, StoreBundle, ReturnToken, ClearBundle, VerifyCleared, Expire,
         RequestFails, Tick, Crash
<1>4. Crash \/ (\E t \in Threads : RequestFails(t)) => faults' = faults + 1
  BY DEF Crash, RequestFails
<1> QED
  BY <1>0, <1>1, <1>2, <1>3, <1>4

(* A request reaches its registration by writing its receipt.              *)
LEMMA RegisterStep ==
  ASSUME TypeOK, [Next]_vars, NEW u \in Threads, thread'[u].step = "register"
  PROVE  \/ thread'[u] = thread[u]
         \/ <<thread'[u].ws, thread'[u].flow, "exchanged">> \in receipts'
<1>0. thread'[u] \in Request /\ thread'[u].lane = "exchange" /\ thread'[u] # Idle
  BY TypeStep DEF TypeOK, Request, Idle
<1>1. ASSUME NEW t \in Threads, WriteActionReceipt(t), t = u
      PROVE  <<thread'[u].ws, thread'[u].flow, "exchanged">> \in receipts'
  <2>1. thread[u] \in Request
    BY <1>1 DEF WriteActionReceipt, At, TypeOK, Idle
  <2>2. thread'[u] = [thread[u] EXCEPT !.step =
                        IF thread[u].lane = "exchange" THEN "register" ELSE "return"]
    BY <1>1 DEF WriteActionReceipt, Go, TypeOK
  <2>3. /\ thread'[u].lane = thread[u].lane /\ thread'[u].ws = thread[u].ws
        /\ thread'[u].flow = thread[u].flow
    BY <1>1, <2>1, <2>2, StepOnly DEF WriteActionReceipt, At, Holding
  <2> QED
    BY <1>0, <1>1, <2>3 DEF WriteActionReceipt
<1>2. ASSUME NEW t \in Threads, serve(t), ~WriteActionReceipt(t) PROVE thread'[u] = thread[u]
  <2>0. thread \in [Threads -> Request \cup {Idle}] /\ thread[t] \in Request
    BY <1>2 DEF serve, ReadClient, LoadPrior, PostAgain, PostEnds, StoreBundle,
           Register, ReturnToken, ClearBundle, VerifyCleared, At, TypeOK, Idle
  <2>1. ASSUME NEW s, Go(t, s) PROVE thread'[t].step = s
    <3>1. thread'[t] = [thread[t] EXCEPT !.step = s]
      BY <2>0, <2>1 DEF Go
    <3> QED
      BY <2>0, <3>1, StepOnly
  <2>2. ASSUME End(t) PROVE thread'[t].step = "idle"
    BY <2>0, <2>2 DEF End, Idle
  <2>3. ASSUME PostAgain(t) PROVE thread'[t].step = "post"
    <3>1. thread'[t] = [thread[t] EXCEPT !.tries = thread[t].tries + 1]
      BY <2>0, <2>3 DEF PostAgain
    <3> QED
      BY <2>0, <2>3, <3>1 DEF PostAgain, At, Request
  <2>4. ASSUME LoadPrior(t) PROVE thread'[t].step \in {"post", "idle"}
    BY <2>0, <2>2, <2>4 DEF LoadPrior
  <2>5. thread'[t].step # "register"
    BY <1>2, <2>1, <2>2, <2>3, <2>4 DEF serve, ReadClient, PostEnds, StoreBundle,
           Register, ReturnToken, ClearBundle, VerifyCleared
  <2>6. t # u
    BY <2>5
  <2> QED
    BY <1>2, <2>6 DEF serve, ReadClient, LoadPrior, PostAgain, PostEnds, StoreBundle,
           Register, ReturnToken, ClearBundle, VerifyCleared, Go, End, TypeOK
<1>3. ASSUME NEW t \in Threads, WriteActionReceipt(t), t # u PROVE thread'[u] = thread[u]
  BY <1>3 DEF WriteActionReceipt, Go, TypeOK
<1>4. CASE ~\E t \in Threads : serve(t)
  BY <1>0, <1>4 DEF Next, vars, oauth_config, oauth_start, oauth_callback, Accept,
         get_valid_access_token, oauth_disconnect, Expire, RequestFails, Tick, Crash,
         End, TypeOK
<1> QED
  BY <1>1, <1>2, <1>3, <1>4

LEMMA ReceiptStep == TypeOK /\ ReceiptInv /\ [Next]_vars => ReceiptInv'
<1> SUFFICES ASSUME TypeOK, ReceiptInv, [Next]_vars PROVE ReceiptInv'
  OBVIOUS
<1>1. ASSUME NEW u \in Threads, thread'[u].step = "register"
      PROVE  <<thread'[u].ws, thread'[u].flow, "exchanged">> \in receipts'
  BY <1>1, RegisterStep, StoreStep DEF ReceiptInv
<1>2. ASSUME NEW w \in registered'
      PROVE  \E f \in Flows : <<w, f, "exchanged">> \in receipts'
  <2>1. CASE w \in registered
    BY <2>1, StoreStep DEF ReceiptInv
  <2>2. CASE w \notin registered
    <3>1. PICK t \in Threads : thread[t].step = "register" /\ thread[t].ws = w
      BY <1>2, <2>2, StoreStep
    <3>2. thread[t].flow \in Flows
      BY <3>1 DEF TypeOK, Request, Idle
    <3> QED
      BY <3>1, <3>2, StoreStep DEF ReceiptInv
  <2> QED
    BY <2>1, <2>2
<1> QED
  BY <1>1, <1>2 DEF ReceiptInv

(* While nothing dies, a link that is on record, or on its way there, gets *)
(* no further from it.                                                     *)
LEMMA RecordStays ==
  ASSUME TypeOK, ReceiptInv, [Next]_vars, faults' = 0,
         NEW w \in Spaces, NEW f \in Flows, Recorded(w, f) \/ Recording(w, f)
  PROVE  (Recorded(w, f) \/ Recording(w, f))'
<1>1. CASE Recorded(w, f)
  BY <1>1, StoreStep DEF Recorded
<1>2. ASSUME NEW u \in Threads, thread[u].step \in {"receipt", "register"},
             thread[u].lane = "exchange", thread[u].ws = w, thread[u].flow = f
      PROVE  (Recorded(w, f) \/ Recording(w, f))'
  <2>0. thread \in [Threads -> Request \cup {Idle}] /\ thread[u] \in Request
    BY <1>2 DEF TypeOK, Idle
  <2>1. thread'[u] = thread[u] \/ WriteActionReceipt(u) \/ Register(u)
    <3>1. ~Crash /\ \A t \in Threads : ~RequestFails(t)
      BY StoreStep
    <3>2. thread[u] # Idle
      BY <1>2 DEF Idle
    <3>3. ASSUME NEW t \in Threads, serve(t)
          PROVE  thread'[u] = thread[u] \/ WriteActionReceipt(u) \/ Register(u)
      BY <1>2, <2>0, <3>3 DEF serve, ReadClient, LoadPrior, PostAgain, PostEnds, StoreBundle,
             WriteActionReceipt, Register, ReturnToken, ClearBundle, VerifyCleared, At, Go, End
    <3>4. CASE ~\E t \in Threads : serve(t)
      BY <2>0, <3>1, <3>2, <3>4 DEF Next, vars, oauth_config, oauth_start, oauth_callback,
             Accept, get_valid_access_token, oauth_disconnect, Expire, Tick
    <3> QED
      BY <3>3, <3>4
  <2>2. CASE thread'[u] = thread[u]
    BY <1>2, <2>2 DEF Recording
  <2>3. CASE WriteActionReceipt(u)
    <3>1. thread[u].step \in Holding
      BY <1>2 DEF Holding
    <3>2. thread'[u] = [thread[u] EXCEPT !.step = "register"]
      BY <1>2, <2>0, <2>3 DEF WriteActionReceipt, Go
    <3>3. /\ thread'[u].step = "register" /\ thread'[u].lane = "exchange"
          /\ thread'[u].ws = w /\ thread'[u].flow = f
      BY <1>2, <2>0, <3>1, <3>2, StepOnly
    <3> QED
      BY <3>3 DEF Recording
  <2>4. CASE Register(u)
    <3>1. <<w, f, "exchanged">> \in receipts
      BY <1>2, <2>4 DEF Register, At, ReceiptInv
    <3>2. w \in registered'
      BY <1>2, <2>4 DEF Register
    <3> QED
      BY <3>1, <3>2, StoreStep DEF Recorded
  <2> QED
    BY <2>1, <2>2, <2>3, <2>4
<1> QED
  BY <1>1, <1>2 DEF Recording

LEMMA RecordStep ==
  TypeOK /\ ReceiptInv /\ RecordInv /\ [Next]_vars => RecordInv'
<1> SUFFICES ASSUME TypeOK, ReceiptInv, RecordInv, [Next]_vars, faults' = 0
             PROVE  /\ \A w \in Spaces :
                         bundle'[w] # None =>
                           (Recorded(w, bundle[w].flow) \/ Recording(w, bundle[w].flow))'
                    /\ \A t \in Threads :
                         thread'[t].step \in Holding /\ thread'[t].lane = "access" =>
                           (\/ Recorded(thread[t].ws, thread[t].flow)
                            \/ Recording(thread[t].ws, thread[t].flow))'
  BY DEF RecordInv
<1>0. faults = 0
  BY StoreStep
<1>1. ASSUME NEW w \in Spaces, bundle[w] # None
      PROVE  /\ bundle[w].flow \in Flows
             /\ Recorded(w, bundle[w].flow) \/ Recording(w, bundle[w].flow)
  BY <1>0, <1>1 DEF RecordInv, TypeOK, Bundle
<1>2. ASSUME NEW t \in Threads, thread[t] \in Request, thread[t].step \in Holding
      PROVE  thread[t].ws \in Spaces /\ thread[t].flow \in Flows
  BY <1>2 DEF Request, Holding
<1>3. ASSUME NEW t \in Threads, thread[t] \in Request, thread[t].step \in Holding,
             thread[t].lane = "access"
      PROVE  \/ Recorded(thread[t].ws, thread[t].flow)
             \/ Recording(thread[t].ws, thread[t].flow)
  BY <1>0, <1>3 DEF RecordInv
<1>4. ASSUME NEW w \in Spaces, bundle'[w] # None
      PROVE  (Recorded(w, bundle[w].flow) \/ Recording(w, bundle[w].flow))'
  <2>1. CASE bundle[w] # None /\ bundle'[w].flow = bundle[w].flow
    BY <1>1, <2>1, RecordStays DEF Recorded, Recording
  <2>2. ASSUME NEW t \in Threads, thread[t] \in Request, thread[t].step = "store",
               thread'[t].step = "receipt", thread'[t].lane = thread[t].lane,
               thread'[t].ws = thread[t].ws, thread'[t].flow = thread[t].flow,
               thread[t].ws = w, bundle'[w].flow = thread[t].flow
        PROVE  (Recorded(w, bundle[w].flow) \/ Recording(w, bundle[w].flow))'
    <3>1. thread[t].lane \in {"exchange", "access"} /\ thread[t].step \in Holding
      BY <2>2 DEF Request, Holding
    <3>2. CASE thread[t].lane = "exchange"
      BY <2>2, <3>2 DEF Recording
    <3>3. CASE thread[t].lane = "access"
      BY <1>2, <1>3, <2>2, <3>1, <3>3, RecordStays DEF Recorded, Recording
    <3> QED
      BY <3>1, <3>2, <3>3
  <2> QED
    BY <1>4, <2>1, <2>2, BundleStep
<1>5. ASSUME NEW u \in Threads, thread'[u].step \in Holding, thread'[u].lane = "access"
      PROVE  (\/ Recorded(thread[u].ws, thread[u].flow)
              \/ Recording(thread[u].ws, thread[u].flow))'
  <2>1. thread'[u] \in Request /\ thread'[u] # Idle /\ thread'[u].lane \in Lanes
    BY <1>5, TypeStep DEF TypeOK, Holding, Idle, Lanes
  <2>2. CASE thread'[u] = thread[u]
    BY <1>2, <1>3, <1>5, <2>1, <2>2, RecordStays DEF Recorded, Recording
  <2>3. CASE /\ thread[u] \in Request /\ thread[u].step \in Holding
             /\ thread'[u].lane = thread[u].lane
             /\ thread'[u].ws = thread[u].ws /\ thread'[u].flow = thread[u].flow
    BY <1>2, <1>3, <1>5, <2>3, RecordStays DEF Recorded, Recording
  <2>4. CASE /\ thread[u] \in Request /\ thread[u].step = "load" /\ thread[u].lane = "access"
             /\ bundle[thread[u].ws] # None
             /\ thread'[u].ws = thread[u].ws
             /\ thread'[u].flow = bundle[thread[u].ws].flow
    <3>1. thread[u].ws \in Spaces
      BY <2>4 DEF Request
    <3> QED
      BY <1>1, <2>4, <3>1, RecordStays DEF Recorded, Recording
  <2>5. thread'[u].step # "load" /\ thread'[u].lane # "exchange"
    BY <1>5 DEF Holding
  <2> QED
    BY <2>1, <2>2, <2>3, <2>4, <2>5, ThreadStep
<1> QED
  BY <1>4, <1>5

-----------------------------------------------------------------------------
IInv ==
  /\ TypeOK /\ SpentInv /\ LinkInv /\ TokenHasConsent
  /\ QuietInv /\ ReceiptInv /\ RecordInv

LEMMA InitInv == Init => IInv
<1> SUFFICES ASSUME Init PROVE IInv
  OBVIOUS
<1>1. \A t \in Threads : thread[t].step = "idle"
  BY DEF Init, Idle
<1>2. \A w \in Spaces : bundle[w] = None
  BY DEF Init
<1>3. SpentInv
  BY DEF Init, SpentInv
<1>4. settled = {} /\ registered = {}
  BY DEF Init
<1> QED
  BY <1>1, <1>2, <1>3, <1>4, TypeInit
     DEF IInv, LinkInv, TokenHasConsent, QuietInv, ReceiptInv, RecordInv, Holding

LEMMA Inductive == Spec => []IInv
<1>1. IInv /\ [Next]_vars => IInv'
  BY TypeStep, SpentStep, LinkStep, QuietStep, ReceiptStep, RecordStep DEF IInv
<1> QED
  BY <1>1, InitInv, PTL DEF Spec

(* Types of everything an OAuth request, a timeout or a crash can reach.   *)
THEOREM LinkTypes == Spec => []TypeOK
  BY Inductive, PTL DEF IInv

(* No stored token but from a consent for its workspace, given in time,    *)
(* however many browsers, refreshes and disconnects overlap.               *)
THEOREM TokensHaveConsent == Spec => []TokenHasConsent
  BY Inductive, PTL DEF IInv

(* oauth_callback pops a state before it uses it, so a state serves once.  *)
THEOREM ConsentsAreSpentOnce == Spec => []ConsentIsSpentOnce
<1>1. IInv => ConsentIsSpentOnce
  BY DEF IInv, SpentInv, ConsentIsSpentOnce
<1> QED
  BY <1>1, Inductive, PTL

(* A registered workspace has the receipt of a link; where nothing died,   *)
(* so has every token that is at rest.                                     *)
THEOREM ConnectionsAreOnRecord == Spec => []ConnectionIsOnRecord
<1>1. IInv => ConnectionIsOnRecord
  <2> SUFFICES ASSUME IInv PROVE ConnectionIsOnRecord
    OBVIOUS
  <2>1. ASSUME NEW w \in Spaces, NEW f, ~Linking(w) PROVE ~Recording(w, f)
    BY <2>1 DEF Linking, Recording, Lanes, Idle
  <2> QED
    BY <2>1 DEF IInv, ReceiptInv, RecordInv, Recorded, ConnectionIsOnRecord
<1> QED
  BY <1>1, Inductive, PTL

(* A disconnect that met no open consent and no request lasts until        *)
(* somebody starts a new link in that workspace.                           *)
THEOREM QuietDisconnectsLast == Spec => []DisconnectLasts
<1>1. IInv => DisconnectLasts
  BY DEF IInv, QuietInv, DisconnectLasts
<1> QED
  BY <1>1, Inductive, PTL
=============================================================================
