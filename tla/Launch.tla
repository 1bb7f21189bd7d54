------------------------------- MODULE Launch -------------------------------
(***************************************************************************)
(* The start of the supervisor and the hand-over of its token to the UI    *)
(* (heydey_supervisor.main, auth.py, webapp/app/lib/supervisor.ts).        *)
(*                                                                         *)
(* A process probes the port, writes its per-launch token to the runtime   *)
(* file and only then binds the port.  launchd starts a process whenever   *)
(* its own is down; a person can start another by hand.  The UI reads the  *)
(* file for every call and sends the token it found to whoever listens.    *)
(***************************************************************************)
EXTENDS Integers, FiniteSets

CONSTANTS
  Procs,        \* supervisor processes
  Clients,      \* calls of the UI's supervisorFetch
  MaxLaunches,  \* bound: tokens generated
  MaxCrashes,   \* bound: processes killed
  MaxBooting,   \* bound: processes between their probe and their bind
  MaxSlow,      \* bound: /health answers that miss the probe's timeout
  Torn          \* the runtime file, truncated and not yet written

ASSUME BoundAssumption ==
  {MaxLaunches, MaxCrashes, MaxBooting, MaxSlow} \subseteq Nat
ASSUME TornAssumption == Torn \notin Nat

VARIABLES
  proc,      \* where each process is in main()
  token,     \* the token of its last launch, 0 before the first
  runtime,   \* the token in supervisor.json, 0 if there is no file
  ui,        \* each UI call
  launches, crashes, slow,
  disturbed  \* history: launches that were booting or serving when another
             \* one got past its probe, and that one if they were booting

vars == <<proc, token, runtime, ui, launches, crashes, slow, disturbed>>

Tokens == 0 .. MaxLaunches

Booting == {p \in Procs : proc[p] \in {"open", "dump", "bind"}}
Serving == {p \in Procs : proc[p] = "serving"}

(* The token of the process that listens, 0 if none does.                  *)
Listening == IF Serving = {} THEN 0 ELSE token[CHOOSE p \in Serving : TRUE]

TypeOK ==
  /\ proc \in [Procs -> {"down", "open", "dump", "bind", "serving"}]
  /\ token \in [Procs -> Tokens]
  /\ runtime \in Tokens \cup {Torn}
  /\ ui \in [Clients -> [step : {"idle", "send", "ok", "401", "503"},
                         sends : Tokens, readUnder : Tokens, sentTo : Tokens]]
  /\ launches \in Tokens
  /\ crashes \in 0 .. MaxCrashes
  /\ slow \in 0 .. MaxSlow
  /\ disturbed \subseteq Tokens
  /\ Cardinality(Serving) <= 1

Init ==
  /\ proc = [p \in Procs |-> "down"]
  /\ token = [p \in Procs |-> 0]
  /\ runtime = 0
  /\ ui = [c \in Clients |-> [step |-> "idle", sends |-> 0, readUnder |-> 0, sentTo |-> 0]]
  /\ launches = 0
  /\ crashes = 0
  /\ slow = 0
  /\ disturbed = {}

-----------------------------------------------------------------------------
(* The launches in the way of one that gets past its probe, and that one   *)
(* itself if any of them still has to write or to bind.                    *)
Crossing(others) ==
  disturbed \cup {token[q] : q \in others} \cup
    (IF Booting = {} THEN {} ELSE {launches + 1})

(* The process goes on to write its token without asking who listens.      *)
Probe_bug(p) ==
  /\ proc[p] = "down"
  /\ Cardinality(Booting) < MaxBooting
  /\ launches < MaxLaunches
  /\ launches' = launches + 1
  /\ token' = [token EXCEPT ![p] = launches + 1]
  /\ proc' = [proc EXCEPT ![p] = "open"]
  /\ disturbed' = Crossing(Booting)
  /\ UNCHANGED <<runtime, ui, crashes, slow>>

(* _already_running and generate_token.  If a supervisor answers in time   *)
(* the process exits and nothing has changed; a refused connection and a   *)
(* timeout both count as "nobody there".                                   *)
Probe(p) ==
  /\ proc[p] = "down"
  /\ Cardinality(Booting) < MaxBooting
  /\ Serving # {} => slow < MaxSlow
  /\ slow' = IF Serving = {} THEN slow ELSE slow + 1
  /\ launches < MaxLaunches
  /\ launches' = launches + 1
  /\ token' = [token EXCEPT ![p] = launches + 1]
  /\ proc' = [proc EXCEPT ![p] = "open"]
  /\ disturbed' = Crossing(Booting \cup Serving)
  /\ UNCHANGED <<runtime, ui, crashes>>

(* write_runtime_file: O_TRUNC, then the text.                             *)
OpenRuntime(p) ==
  /\ proc[p] = "open"
  /\ runtime' = Torn
  /\ proc' = [proc EXCEPT ![p] = "dump"]
  /\ UNCHANGED <<token, ui, launches, crashes, slow, disturbed>>

(* The file is written once and kept.                                      *)
DumpRuntime_bug(p) ==
  /\ proc[p] = "dump"
  /\ runtime' = 1
  /\ proc' = [proc EXCEPT ![p] = "bind"]
  /\ UNCHANGED <<token, ui, launches, crashes, slow, disturbed>>

DumpRuntime(p) ==
  /\ proc[p] = "dump"
  /\ runtime' = token[p]
  /\ proc' = [proc EXCEPT ![p] = "bind"]
  /\ UNCHANGED <<token, ui, launches, crashes, slow, disturbed>>

(* uvicorn.run: the port is ours, or the process exits.                    *)
Bind(p) ==
  /\ proc[p] = "bind"
  /\ proc' = [proc EXCEPT ![p] = IF Serving = {} THEN "serving" ELSE "down"]
  /\ UNCHANGED <<token, runtime, ui, launches, crashes, slow, disturbed>>

boot(p) == OpenRuntime(p) \/ DumpRuntime(p) \/ Bind(p)

Kill(p) ==
  /\ proc[p] # "down"
  /\ crashes < MaxCrashes
  /\ crashes' = crashes + 1
  /\ proc' = [proc EXCEPT ![p] = "down"]
  /\ UNCHANGED <<token, runtime, ui, launches, slow, disturbed>>

-----------------------------------------------------------------------------
(* supervisorFetch: the token is read ...  A file that is missing or torn  *)
(* is reported as "supervisor offline".                                    *)
ReadRuntime(c) ==
  /\ ui[c].step \notin {"send"}
  /\ ui' = [ui EXCEPT ![c] =
              [step |-> IF runtime \in {0, Torn} THEN "503" ELSE "send",
               sends |-> IF runtime = Torn THEN 0 ELSE runtime,
               readUnder |-> Listening, sentTo |-> 0]]
  /\ UNCHANGED <<proc, token, runtime, launches, crashes, slow, disturbed>>

(* ... and sent; request_is_authorized compares it.                        *)
SendMutation(c) ==
  /\ ui[c].step = "send"
  /\ ui' = [ui EXCEPT ![c].sentTo = Listening,
                      ![c].step = IF Serving = {} THEN "503"
                                  ELSE IF ui[c].sends = Listening THEN "ok" ELSE "401"]
  /\ UNCHANGED <<proc, token, runtime, launches, crashes, slow, disturbed>>

Next ==
  \/ \E p \in Procs : Probe(p) \/ boot(p) \/ Kill(p)
  \/ \E c \in Clients : ReadRuntime(c) \/ SendMutation(c)

Spec == Init /\ [][Next]_vars

(* launchd's KeepAlive starts a process again and again, a process that    *)
(* runs gets on with its boot, and a call that was begun is sent.          *)
Fairness ==
  /\ WF_vars(\E p \in Procs : Probe(p))
  /\ \A p \in Procs : WF_vars(boot(p))
  /\ \A c \in Clients : WF_vars(SendMutation(c))

FairSpec == Spec /\ Fairness

-----------------------------------------------------------------------------
(* A supervisor that serves under a launch no other one crossed is the one *)
(* whose token the UI will find: the runtime file is written before the    *)
(* bind, and only after a probe that found nobody.  Another launch crosses *)
(* it only between its probe and its bind, or by a probe that timed out on *)
(* it, whatever was killed or crossed before.                              *)
LiveTokenIsPublished ==
  \A p \in Serving : token[p] \notin disturbed => runtime = token[p]

(* A call of the UI is refused only if the supervisor was replaced while   *)
(* the call was on its way, or the launch it reaches was crossed by        *)
(* another: one that read the file under the supervisor it reaches is      *)
(* accepted.                                                               *)
RefusedOnlyAcrossRestart ==
  \A c \in Clients : ui[c].step = "401" =>
    ui[c].readUnder # ui[c].sentTo \/ ui[c].sentTo \in disturbed

(* However often it is killed, a supervisor serves in the end, for good,   *)
(* and under the token that the UI finds, unless another launch crossed    *)
(* the one that is left.                                                   *)
UsableInTheEnd ==
  <>[](Serving # {} /\ (runtime = Listening \/ Listening \in disturbed))
=============================================================================
