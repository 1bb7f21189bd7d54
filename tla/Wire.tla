-------------------------------- MODULE Wire --------------------------------
(***************************************************************************)
(* The transport of the MCP host (mcp_host.py) under the loop that drives  *)
(* it (sync of connector_sync.py).                                         *)
(*                                                                         *)
(* Three actors: the thread of the sync, which writes a request and reads  *)
(* lines until its answer is there; the timer of the request, a thread     *)
(* that kills the connector; and the connector, a process that answers,    *)
(* says other things, stays silent or dies.  A sync starts a host and a    *)
(* process of its own, so one host has one calling thread.                 *)
(***************************************************************************)
EXTENDS Naturals, Sequences

CONSTANTS
  Tools,    \* how many tools the connector has that a sync may pull
  MaxNoise  \* bound: lines of the connector that answer nothing

ASSUME WireAssumption == Tools \in Nat /\ MaxNoise \in Nat

(* The requests of a sync in their order: initialize, tools/list, and a    *)
(* tools/call for each tool.                                               *)
Initialize == 1
ListTools  == 2
Requests   == Tools + 2
R          == 1 .. Requests

VARIABLES
  proc,     \* the connector's process
  stdin,    \* what was written to it: requests, and one notification
  stdout,   \* lines it wrote that nobody read yet
  noise,    \* how many of them were no answer
  at,       \* where the thread is
  turn,     \* the request it is at
  nextId,   \* _next_id
  verdict,  \* of the request that is being given up or returned
  timers,   \* requests whose timer waits
  firing,   \* requests whose timer found itself not cancelled, and will kill
  call,     \* per request: how far it is
  answer    \* per request: the request its answer was made for

vars ==
  <<proc, stdin, stdout, noise, at, turn, nextId, verdict, timers, firing, call, answer>>
wire == <<proc, stdin, stdout, noise>>

(* A request knows which one of the sync it is, besides the id it carries. *)
(* id 0: none, or not one of ours.                                         *)
Message == [id : Nat, of : 0 .. Requests]
Line    == [kind : {"result", "error", "noise", "odd", "notice"}, id : Nat, of : 0 .. Requests]
Verdict == [how : {"answered", "failed"}, of : 0 .. Requests]

Notification == [id |-> 0, of |-> 0]
Failed       == [how |-> "failed", of |-> 0]

TypeOK ==
  /\ proc \in {"none", "up", "dead"}
  /\ stdin \in Seq(Message) /\ stdout \in Seq(Line)
  /\ noise \in 0 .. MaxNoise
  /\ at \in {"spawn", "write", "arm", "read", "cancel", "notify", "stop", "ended"}
  /\ turn \in R /\ nextId \in Nat
  /\ verdict \in Verdict
  /\ timers \subseteq R /\ firing \subseteq R
  /\ call \in [R -> {"unasked", "asked", "answered", "failed"}]
  /\ answer \in [R -> 0 .. Requests]

Init ==
  /\ proc = "none" /\ stdin = <<>> /\ stdout = <<>> /\ noise = 0
  /\ at = "spawn" /\ turn = Initialize /\ nextId = 0 /\ verdict = Failed
  /\ timers = {} /\ firing = {}
  /\ call = [n \in R |-> "unasked"] /\ answer = [n \in R |-> 0]

-----------------------------------------------------------------------------
(* The thread of the sync.                                                 *)

(* Where a request that ended sends the thread.  If initialize fails, the  *)
(* with block was not entered and nobody stops the process; if tools/list  *)
(* does, or lists what are no tools, the block is left; a tool that fails  *)
(* is logged, and the next one has its turn.                               *)
Proceed(how) ==
  CASE turn = Initialize ->
         at' = (IF how = "answered" THEN "notify" ELSE "ended") /\ UNCHANGED turn
    [] turn > Initialize /\ (turn = Requests \/ (turn = ListTools /\ how = "failed")) ->
         at' = "stop" /\ UNCHANGED turn
    [] OTHER ->
         \/ at' = "write" /\ turn' = turn + 1
         \/ turn = ListTools /\ at' = "stop" /\ UNCHANGED turn

(* Popen finds the command, or raises.                                     *)
Spawn ==
  /\ at = "spawn"
  /\ \/ proc' = "up" /\ at' = "write"
     \/ at' = "ended" /\ UNCHANGED proc
  /\ UNCHANGED <<stdin, stdout, noise, turn, nextId, verdict, timers, firing, call, answer>>

(* The id moves on when the request before was answered.                   *)
Write_bug ==
  /\ at = "write"
  /\ nextId' = IF verdict = Failed /\ nextId > 0 THEN nextId ELSE nextId + 1
  /\ IF proc = "up"
     THEN /\ stdin' = Append(stdin, [id |-> nextId', of |-> turn])
          /\ at' = "arm"
          /\ UNCHANGED verdict
     ELSE /\ at' = "cancel"
          /\ verdict' = Failed
          /\ UNCHANGED stdin
  /\ call' = [call EXCEPT ![turn] = "asked"]
  /\ UNCHANGED <<proc, stdout, noise, turn, timers, firing, answer>>

(* _request, up to the flush, which raises if nobody holds the other end.  *)
Write ==
  /\ at = "write"
  /\ nextId' = nextId + 1
  /\ IF proc = "up"
     THEN /\ stdin' = Append(stdin, [id |-> nextId + 1, of |-> turn])
          /\ at' = "arm"
          /\ UNCHANGED verdict
     ELSE /\ at' = "cancel"
          /\ verdict' = Failed
          /\ UNCHANGED stdin
  /\ call' = [call EXCEPT ![turn] = "asked"]
  /\ UNCHANGED <<proc, stdout, noise, turn, timers, firing, answer>>

(* Only the handshake has a time limit.                                    *)
Arm_bug ==
  /\ at = "arm"
  /\ timers' = IF turn = Initialize THEN timers \cup {turn} ELSE timers
  /\ at' = "read"
  /\ UNCHANGED <<wire, turn, nextId, verdict, firing, call, answer>>

(* timer.start()                                                           *)
Arm ==
  /\ at = "arm"
  /\ timers' = timers \cup {turn}
  /\ at' = "read"
  /\ UNCHANGED <<wire, turn, nextId, verdict, firing, call, answer>>

(* The loop leaves with this verdict, into finally.                        *)
Leave(v) == at' = "cancel" /\ verdict' = v /\ UNCHANGED <<turn, timers>>

(* An error of the connector is passed on at once.                         *)
ReadLine_bug ==
  LET line == Head(stdout)
  IN /\ at = "read" /\ stdout # <<>>
     /\ stdout' = Tail(stdout)
     /\ IF line.kind = "odd" THEN Leave(Failed) /\ UNCHANGED call
        ELSE IF line.kind = "noise" \/ line.id # nextId
             THEN UNCHANGED <<at, verdict, turn, timers, call>>
        ELSE IF line.kind = "error"
             THEN Proceed("failed") /\ call' = [call EXCEPT ![turn] = "failed"]
                  /\ UNCHANGED <<verdict, timers>>
        ELSE Leave([how |-> "answered", of |-> line.of]) /\ UNCHANGED call
     /\ UNCHANGED <<proc, stdin, noise, nextId, firing, answer>>

(* One turn of the loop.  JSON that is no object has no get, and raises;   *)
(* what is no JSON, and what carries another id, is skipped.               *)
ReadLine ==
  LET line == Head(stdout)
  IN /\ at = "read" /\ stdout # <<>>
     /\ stdout' = Tail(stdout)
     /\ IF line.kind = "odd" THEN Leave(Failed)
        ELSE IF line.kind = "noise" \/ line.id # nextId
             THEN UNCHANGED <<at, verdict, turn, timers>>
        ELSE IF line.kind = "error" THEN Leave(Failed)
        ELSE Leave([how |-> "answered", of |-> line.of])
     /\ UNCHANGED <<proc, stdin, noise, nextId, firing, call, answer>>

(* The end of the pipe: what a dead connector wrote is read before it.     *)
ReadEnd ==
  /\ at = "read" /\ stdout = <<>> /\ proc = "dead"
  /\ Leave(Failed)
  /\ UNCHANGED <<wire, nextId, firing, call, answer>>

(* finally: timer.cancel(), and _request returns or raises.                *)
Cancel ==
  /\ at = "cancel"
  /\ timers' = timers \ {turn}
  /\ call' = [call EXCEPT ![turn] = verdict.how]
  /\ answer' = [answer EXCEPT ![turn] = verdict.of]
  /\ Proceed(verdict.how)
  /\ UNCHANGED <<wire, nextId, verdict, firing>>

(* start goes on with the answer to initialize: it may be no good, and the *)
(* notification may find the pipe closed.                                  *)
Notify ==
  /\ at = "notify"
  /\ \/ at' = "ended" /\ UNCHANGED <<stdin, turn>>
     \/ /\ proc = "up"
        /\ stdin' = Append(stdin, Notification)
        /\ at' = "write" /\ turn' = ListTools
  /\ UNCHANGED <<proc, stdout, noise, nextId, verdict, timers, firing, call, answer>>

(* stop: terminate, wait, kill.                                            *)
Stop ==
  /\ at = "stop"
  /\ proc' = "none"
  /\ at' = "ended"
  /\ UNCHANGED <<stdin, stdout, noise, turn, nextId, verdict, timers, firing, call, answer>>

thread == Spawn \/ Write \/ Arm \/ ReadLine \/ ReadEnd \/ Cancel \/ Notify \/ Stop

-----------------------------------------------------------------------------
(* Timer(timeout, proc.kill) tests whether it was cancelled, and kills.    *)
(* The cancel of finally may fall between.                                 *)
Expire(n) ==
  /\ n \in timers
  /\ timers' = timers \ {n} /\ firing' = firing \cup {n}
  /\ UNCHANGED <<wire, at, turn, nextId, verdict, call, answer>>

Kill(n) ==
  /\ n \in firing
  /\ firing' = firing \ {n}
  /\ proc' = IF proc = "up" THEN "dead" ELSE proc
  /\ UNCHANGED <<stdin, stdout, noise, at, turn, nextId, verdict, timers, call, answer>>

timer(n) == Expire(n) \/ Kill(n)

(* The connector takes a request and answers it, or reports an error; a    *)
(* notification has no id and gets no answer.                              *)
Reply ==
  LET request == Head(stdin)
  IN /\ proc = "up" /\ stdin # <<>>
     /\ stdin' = Tail(stdin)
     /\ IF request = Notification
        THEN UNCHANGED stdout
        ELSE \E kind \in {"result", "error"} :
               stdout' = Append(stdout, [kind |-> kind, id |-> request.id, of |-> request.of])
     /\ UNCHANGED <<proc, noise, at, turn, nextId, verdict, timers, firing, call, answer>>

(* It writes a line that answers nothing: not JSON, JSON that is no        *)
(* object, a notification.                                                 *)
Babble ==
  /\ proc = "up" /\ noise < MaxNoise
  /\ noise' = noise + 1
  /\ \E kind \in {"noise", "odd", "notice"} :
       stdout' = Append(stdout, [kind |-> kind, id |-> 0, of |-> 0])
  /\ UNCHANGED <<proc, stdin, at, turn, nextId, verdict, timers, firing, call, answer>>

Die ==
  /\ proc = "up"
  /\ proc' = "dead"
  /\ UNCHANGED <<stdin, stdout, noise, at, turn, nextId, verdict, timers, firing, call, answer>>

connector == Reply \/ Babble \/ Die

Next == thread \/ connector \/ \E n \in R : timer(n)

Spec == Init /\ [][Next]_vars

(* The thread runs and a timer that is not cancelled goes off; the         *)
(* connector owes nothing.                                                 *)
FairSpec == Spec /\ WF_vars(thread) /\ \A n \in R : WF_vars(timer(n))

-----------------------------------------------------------------------------
Promise == INSTANCE Call

(* Each request of a sync ends once, with the answer the connector gave to *)
(* it and not to an earlier one, or with a failure: also when lines are    *)
(* left in the pipe by a request that failed, when the connector is        *)
(* silent, dies, or is killed while its answer is on the way (_request).   *)
CallPromise == Promise!Spec

(* However a request ends, its timer does not go on waiting: a timer finds *)
(* itself not cancelled only while its own request is under way, and not   *)
(* when a later one is (the finally of _request).  The kill that follows   *)
(* may still come late.                                                    *)
TimersExpireDuringTheirCall ==
  [][\A n \in firing' \ firing : call[n] = "asked"]_vars

(* Whatever the connector does, a sync that began comes to its end, and    *)
(* leaves no process behind once the connector was initialized             *)
(* (__exit__, sync).                                                       *)
EverySyncEnds == <>[](at = "ended" /\ (call[ListTools] # "unasked" => proc = "none"))
=============================================================================
