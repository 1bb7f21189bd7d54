--------------------------- MODULE ServiceProofs ---------------------------
(***************************************************************************)
(* What a client of the workspace gets back.  Of a sync with a connector   *)
(* of any number of tools, that writes any number of lines that answer     *)
(* nothing: its calls keep what module Call promises of them, and its      *)
(* timers expire during their own.  And of any number of readers of a      *)
(* store of any size, while it is re-ingested: what they find, and what    *)
(* they mix.                                                               *)
(***************************************************************************)
EXTENDS Wire, Reading, FiniteSetTheorems, SequenceTheorems, WellFoundedInduction, TLAPS

(*-------------------------------- Wire ----------------------------------*)

(* The id of a request is its place among the requests of the sync, and so *)
(* is the id of its answer; what answers nothing has id 0.                 *)
Asking    == {m \in Message : m.id = m.of}
Answering == {l \in Line : l.id = l.of}

PipeInv == stdin \in Seq(Asking) /\ stdout \in Seq(Answering)

(* Ids are not reused: _next_id counts the requests that were written, or  *)
(* would have been had the pipe been open.                                 *)
IdInv ==
  /\ at \in {"spawn", "write"} => nextId = turn - 1
  /\ at \in {"arm", "read", "cancel", "notify", "stop"} => nextId = turn

(* The requests have their turns in order, and each ends before the next.  *)
TurnInv ==
  /\ \A n \in R : n < turn => Promise!Ended(n)
  /\ \A n \in R : n > turn => call[n] = "unasked"
  /\ at \in {"spawn", "write"} => call[turn] = "unasked"
  /\ at \in {"arm", "read", "cancel"} => call[turn] = "asked"
  /\ at = "notify" => turn = Initialize /\ Promise!Ended(turn)
  /\ \A n \in R : call[n] \in {"unasked", "asked"} => answer[n] = 0

(* What the thread leaves the loop with, and the timer it leaves behind.   *)
VerdictInv == at = "cancel" => verdict \in {Failed, [how |-> "answered", of |-> turn]}
TimerInv   == timers \subseteq {turn} /\ (timers # {} => at \in {"read", "cancel"})

IInv == TypeOK /\ PipeInv /\ IdInv /\ TurnInv /\ VerdictInv /\ TimerInv
-----------------------------------------------------------------------------
LEMMA Counts == Requests \in Nat /\ Requests >= 2 /\ R = 1 .. Requests /\ Promise!R = R
BY WireAssumption DEF Requests, R, Promise!R

LEMMA WireInit == Init => IInv
<1> SUFFICES ASSUME Init PROVE IInv
  OBVIOUS
<1>1. TypeOK
  BY Counts, WireAssumption
     DEF Init, TypeOK, R, Initialize, Verdict, Failed
<1>2. PipeInv
  BY DEF Init, PipeInv
<1>3. IdInv /\ TurnInv /\ VerdictInv /\ TimerInv
  BY Counts DEF Init, IdInv, TurnInv, VerdictInv, TimerInv, R, Initialize
<1> QED
  BY <1>1, <1>2, <1>3 DEF IInv

(* What is taken off a pipe, and what is put on it.                        *)
LEMMA Pipes ==
  ASSUME NEW S, NEW pipe \in Seq(S)
  PROVE  /\ pipe # <<>> => Head(pipe) \in S /\ Tail(pipe) \in Seq(S)
         /\ \A m \in S : Append(pipe, m) \in Seq(S)
BY HeadTailProperties, AppendProperties

(* The thread starts the connector, writes a request and sets its timer.   *)
LEMMA SpawnStep == IInv /\ Spawn => IInv'
<1> SUFFICES ASSUME IInv, Spawn PROVE IInv'
  OBVIOUS
<1> USE DEF IInv
<1>1. at' \in {"write", "ended"} /\ proc' \in {"none", "up", "dead"}
  BY DEF Spawn, TypeOK
<1>2. UNCHANGED <<stdin, stdout, noise, turn, nextId, verdict, timers, firing, call, answer>>
  BY DEF Spawn
<1>3. TypeOK' /\ PipeInv'
  BY <1>1, <1>2 DEF TypeOK, PipeInv
<1>4. IdInv' /\ VerdictInv' /\ TimerInv'
  BY <1>1, <1>2 DEF Spawn, IdInv, VerdictInv, TimerInv
<1>5. TurnInv'
  BY <1>1, <1>2 DEF Spawn, TurnInv, Promise!Ended
<1> QED
  BY <1>3, <1>4, <1>5

LEMMA WriteStep == IInv /\ Write => IInv'
<1> SUFFICES ASSUME IInv, Write PROVE IInv'
  OBVIOUS
<1> USE DEF IInv
<1>1. /\ at = "write" /\ at' \in {"arm", "cancel"} /\ nextId' = nextId + 1
      /\ call' = [call EXCEPT ![turn] = "asked"]
      /\ UNCHANGED <<proc, stdout, noise, turn, timers, firing, answer>>
      /\ at' = "cancel" => verdict' = Failed
      /\ verdict' \in {verdict, Failed}
  BY DEF Write
<1>2. turn \in R /\ turn \in Nat /\ nextId' = turn /\ timers = {}
  BY <1>1, Counts DEF TypeOK, IdInv, TimerInv
<1>3. stdin' \in Seq(Asking) /\ stdin' \in Seq(Message)
  <2>1. CASE proc = "up"
    <3> DEFINE request == [id |-> nextId + 1, of |-> turn]
    <3>1. request \in Asking /\ request \in Message
      BY <1>1, <1>2, Counts DEF Asking, Message
    <3>2. stdin' = Append(stdin, request)
      BY <2>1 DEF Write
    <3> HIDE DEF request
    <3> QED
      BY <3>1, <3>2, Pipes DEF PipeInv, TypeOK
  <2>2. CASE proc # "up"
    BY <2>2 DEF Write, PipeInv, TypeOK
  <2> QED
    BY <2>1, <2>2
<1>4. /\ call'[turn] = "asked" /\ \A n \in R : n # turn => call'[n] = call[n]
      /\ call' \in [R -> {"unasked", "asked", "answered", "failed"}]
  BY <1>1, <1>2 DEF TypeOK
<1>5. Failed \in Verdict
  BY Counts DEF Failed, Verdict
<1>6. TypeOK'
  BY <1>1, <1>2, <1>3, <1>4, <1>5 DEF TypeOK
<1>7. PipeInv' /\ IdInv' /\ VerdictInv' /\ TimerInv'
  BY <1>1, <1>2, <1>3 DEF PipeInv, IdInv, VerdictInv, TimerInv
<1>8. TurnInv'
  BY <1>1, <1>2, <1>4, Counts DEF TurnInv, Promise!Ended
<1> QED
  BY <1>6, <1>7, <1>8

LEMMA ArmStep == IInv /\ Arm => IInv'
<1> SUFFICES ASSUME IInv, Arm PROVE IInv'
  OBVIOUS
<1> USE DEF IInv
<1>1. /\ at = "arm" /\ at' = "read" /\ timers' = timers \cup {turn}
      /\ UNCHANGED <<proc, stdin, stdout, noise, turn, nextId, verdict, firing, call, answer>>
  BY DEF Arm, wire
<1>2. TypeOK' /\ PipeInv' /\ IdInv' /\ VerdictInv' /\ TimerInv'
  BY <1>1 DEF TypeOK, PipeInv, IdInv, VerdictInv, TimerInv
<1>3. TurnInv'
  BY <1>1 DEF TurnInv, Promise!Ended
<1> QED
  BY <1>2, <1>3

(* The loop goes on, or leaves with a failure or with the answer to the    *)
(* request that is under way: no other line carries its id.                *)
LEMMA ReadStep == IInv /\ (ReadLine \/ ReadEnd) => IInv'
<1> SUFFICES ASSUME IInv, ReadLine \/ ReadEnd PROVE IInv'
  OBVIOUS
<1> USE DEF IInv
<1>1. /\ at = "read" /\ at' \in {"read", "cancel"}
      /\ UNCHANGED <<proc, stdin, noise, turn, nextId, timers, firing, call, answer>>
  BY DEF ReadLine, ReadEnd, Leave, wire
<1>2. stdout' \in Seq(Answering) /\ stdout' \in Seq(Line)
  <2>1. CASE ReadLine
    BY <2>1, Pipes DEF ReadLine, PipeInv, TypeOK
  <2>2. CASE ReadEnd
    BY <2>2 DEF ReadEnd, wire, PipeInv, TypeOK
  <2> QED
    BY <2>1, <2>2
<1>3. /\ at' = "cancel" => verdict' \in {Failed, [how |-> "answered", of |-> turn]}
      /\ at' = "read" => verdict' = verdict
  <2>1. CASE ReadLine
    <3>1. Head(stdout) \in Answering
      BY <2>1, Pipes DEF ReadLine, PipeInv
    <3>2. Head(stdout).id = nextId => Head(stdout).of = turn
      BY <1>1, <3>1 DEF Answering, IdInv
    <3> QED
      BY <2>1, <3>2 DEF ReadLine, Leave
  <2>2. CASE ReadEnd
    BY <2>2 DEF ReadEnd, Leave
  <2> QED
    BY <2>1, <2>2
<1>4. Failed \in Verdict /\ [how |-> "answered", of |-> turn] \in Verdict
  BY Counts DEF Failed, Verdict, TypeOK
<1>5. TypeOK'
  <2>1. verdict' \in Verdict
    BY <1>1, <1>3, <1>4 DEF TypeOK
  <2> QED
    BY <1>1, <1>2, <2>1 DEF TypeOK
<1>6. PipeInv' /\ IdInv' /\ VerdictInv' /\ TimerInv'
  BY <1>1, <1>2, <1>3 DEF PipeInv, IdInv, VerdictInv, TimerInv
<1>7. TurnInv'
  BY <1>1 DEF TurnInv, Promise!Ended
<1> QED
  BY <1>5, <1>6, <1>7

(* What the end of a request does, and what the abstract call does then.   *)
LEMMA CancelEffect ==
  ASSUME IInv, Cancel
  PROVE  /\ turn \in R /\ call[turn] = "asked"
         /\ call' = [call EXCEPT ![turn] = verdict.how]
         /\ \/ /\ verdict.how = "answered"
               /\ answer' = [answer EXCEPT ![turn] = turn]
            \/ verdict.how = "failed" /\ answer' = answer
         /\ answer' \in [R -> 0 .. Requests]
<1> USE DEF IInv
<1>1. /\ at = "cancel" /\ call' = [call EXCEPT ![turn] = verdict.how]
      /\ answer' = [answer EXCEPT ![turn] = verdict.of]
  BY DEF Cancel
<1>2. turn \in R /\ turn \in 0 .. Requests /\ call[turn] = "asked"
  BY <1>1, Counts DEF TypeOK, TurnInv
<1>3. answer \in [R -> 0 .. Requests] /\ answer[turn] = 0
  BY <1>2 DEF TypeOK, TurnInv
<1>4. CASE verdict = Failed
  <2>1. verdict.how = "failed" /\ verdict.of = 0
    BY <1>4 DEF Failed
  <2>2. answer' = answer
    BY <1>1, <1>2, <1>3, <2>1
  <2> QED
    BY <1>1, <1>2, <1>3, <2>1, <2>2
<1>5. CASE verdict = [how |-> "answered", of |-> turn]
  <2>1. verdict.how = "answered" /\ verdict.of = turn
    BY <1>5
  <2> QED
    BY <1>1, <1>2, <1>3, <2>1
<1> QED
  BY <1>1, <1>4, <1>5 DEF VerdictInv

LEMMA CancelStep == IInv /\ Cancel => IInv'
<1> SUFFICES ASSUME IInv, Cancel PROVE IInv'
  OBVIOUS
<1> USE DEF IInv
<1>1. /\ at = "cancel" /\ timers' = timers \ {turn} /\ Proceed(verdict.how)
      /\ UNCHANGED <<proc, stdin, stdout, noise, nextId, verdict, firing>>
  BY DEF Cancel, wire
<1>2. /\ turn \in R /\ turn \in Nat /\ turn <= Requests /\ nextId = turn /\ timers' = {}
  BY <1>1, Counts DEF TypeOK, IdInv, TimerInv
<1>3. /\ call'[turn] \in {"answered", "failed"}
      /\ \A n \in R : n # turn => call'[n] = call[n] /\ answer'[n] = answer[n]
      /\ call' \in [R -> {"unasked", "asked", "answered", "failed"}]
      /\ answer' \in [R -> 0 .. Requests]
  BY CancelEffect DEF TypeOK
<1>4. \/ at' = "notify" /\ turn = Initialize /\ turn' = turn
      \/ at' \in {"ended", "stop"} /\ turn' = turn
      \/ at' = "write" /\ turn' = turn + 1 /\ turn < Requests
  <2>1. CASE turn = Initialize
    BY <1>1, <2>1 DEF Proceed
  <2>2. CASE turn > Initialize /\ (turn = Requests \/ (turn = ListTools /\ verdict.how = "failed"))
    <3>1. turn # Initialize
      BY <1>2, <2>2 DEF Initialize
    <3> QED
      BY <1>1, <2>2, <3>1 DEF Proceed
  <2>3. CASE turn # Initialize
             /\ ~(turn > Initialize
                  /\ (turn = Requests \/ (turn = ListTools /\ verdict.how = "failed")))
    <3>1. turn < Requests
      BY <1>2, <2>3, Counts DEF Initialize
    <3> QED
      BY <1>1, <2>3, <3>1 DEF Proceed
  <2> QED
    BY <2>1, <2>2, <2>3
<1>5. turn' \in R
  BY <1>2, <1>4, Counts
<1>6. TypeOK'
  BY <1>1, <1>2, <1>3, <1>4, <1>5 DEF TypeOK
<1>7. PipeInv' /\ VerdictInv' /\ TimerInv'
  BY <1>1, <1>2, <1>4 DEF PipeInv, VerdictInv, TimerInv
<1>8. IdInv'
  BY <1>1, <1>2, <1>4 DEF IdInv
<1>9. TurnInv'
  <2>1. \A n \in R : n # turn /\ call'[n] \in {"unasked", "asked"} => answer'[n] = 0
    BY <1>3 DEF TurnInv
  <2>2. \A n \in R : n <= turn => Promise!Ended(n)'
    BY <1>2, <1>3, Counts DEF TurnInv, Promise!Ended
  <2>3. \A n \in R : n > turn => call'[n] = "unasked"
    BY <1>2, <1>3, Counts DEF TurnInv
  <2> QED
    BY <1>2, <1>3, <1>4, <1>5, <2>1, <2>2, <2>3, Counts DEF TurnInv
<1> QED
  BY <1>6, <1>7, <1>8, <1>9

LEMMA NotifyStep == IInv /\ Notify => IInv'
<1> SUFFICES ASSUME IInv, Notify PROVE IInv'
  OBVIOUS
<1> USE DEF IInv
<1>1. /\ at = "notify" /\ turn = 1 /\ Promise!Ended(turn)
      /\ UNCHANGED <<proc, stdout, noise, nextId, verdict, timers, firing, call, answer>>
      /\ \/ at' = "ended" /\ UNCHANGED <<stdin, turn>>
         \/ at' = "write" /\ turn' = 2 /\ stdin' = Append(stdin, Notification)
  BY DEF Notify, TurnInv, Initialize, ListTools
<1>2. Notification \in Asking /\ Notification \in Message
  BY Counts DEF Notification, Asking, Message
<1>3. stdin' \in Seq(Asking) /\ stdin' \in Seq(Message)
  <2>1. stdin \in Seq(Asking) /\ stdin \in Seq(Message)
    BY DEF PipeInv, TypeOK
  <2>2. stdin' = stdin \/ stdin' = Append(stdin, Notification)
    BY <1>1
  <2> QED
    BY <1>2, <2>1, <2>2, AppendProperties
<1>4. TypeOK'
  BY <1>1, <1>3, Counts, SMTT(30) DEF TypeOK
<1>5. PipeInv' /\ IdInv' /\ VerdictInv' /\ TimerInv'
  BY <1>1, <1>3 DEF PipeInv, IdInv, VerdictInv, TimerInv
<1>6. TurnInv'
  BY <1>1, Counts DEF TurnInv, Promise!Ended
<1> QED
  BY <1>4, <1>5, <1>6

(* A timer expires, or kills: the thread and the pipes stay as they are.   *)
LEMMA TimerStep == IInv /\ (\E n \in R : timer(n)) => IInv'
<1> SUFFICES ASSUME IInv, NEW n \in R, timer(n) PROVE IInv'
  OBVIOUS
<1> USE DEF IInv
<1>1. /\ UNCHANGED <<stdin, stdout, noise, at, turn, nextId, verdict, call, answer>>
      /\ timers' \subseteq timers /\ firing' \subseteq R
      /\ proc' \in {"none", "up", "dead"}
  BY DEF timer, Expire, Kill, wire, TypeOK
<1>2. TypeOK' /\ PipeInv' /\ IdInv' /\ VerdictInv' /\ TimerInv'
  BY <1>1 DEF TypeOK, PipeInv, IdInv, VerdictInv, TimerInv
<1>3. TurnInv'
  BY <1>1 DEF TurnInv, Promise!Ended
<1> QED
  BY <1>2, <1>3

(* Steps that leave the calls alone and the thread where it is, or end it. *)
LEMMA OthersStep == IInv /\ (Stop \/ connector) => IInv'
<1> SUFFICES ASSUME IInv, Stop \/ connector PROVE IInv'
  OBVIOUS
<1> USE DEF IInv
<1>1. /\ UNCHANGED <<turn, nextId, verdict, timers, firing, call, answer>>
      /\ at' = at \/ (at = "stop" /\ at' = "ended")
      /\ noise' \in 0 .. MaxNoise /\ proc' \in {"none", "up", "dead"}
  BY WireAssumption DEF Stop, connector, Reply, Babble, Die, TypeOK
<1>2. stdin' \in Seq(Asking) /\ stdin' \in Seq(Message)
  <2>1. stdin' = stdin \/ (stdin # <<>> /\ stdin' = Tail(stdin))
    BY DEF Stop, connector, Reply, Babble, Die
  <2> QED
    BY <2>1, Pipes DEF PipeInv, TypeOK
<1>3. stdout' \in Seq(Answering) /\ stdout' \in Seq(Line)
  <2>1. CASE UNCHANGED stdout
    BY <2>1 DEF PipeInv, TypeOK
  <2>2. ASSUME Reply, stdout' # stdout
        PROVE  \E line \in Answering : stdout' = Append(stdout, line)
    <3>1. Head(stdin) \in Asking
      BY <2>2, Pipes DEF Reply, PipeInv
    <3>2. PICK kind \in {"result", "error"} :
            stdout' = Append(stdout, [kind |-> kind, id |-> Head(stdin).id,
                                      of |-> Head(stdin).of])
      BY <2>2 DEF Reply
    <3> QED
      BY <3>1, <3>2 DEF Asking, Answering, Message, Line
  <2>3. ASSUME Babble
        PROVE  \E line \in Answering : stdout' = Append(stdout, line)
    <3>1. PICK kind \in {"noise", "odd", "notice"} :
            stdout' = Append(stdout, [kind |-> kind, id |-> 0, of |-> 0])
      BY <2>3 DEF Babble
    <3> QED
      BY <3>1, Counts DEF Answering, Line
  <2>4. CASE \E line \in Answering : stdout' = Append(stdout, line)
    BY <2>4, Pipes DEF PipeInv, TypeOK, Answering
  <2>5. UNCHANGED stdout \/ Reply \/ Babble
    BY DEF Stop, connector, Die, wire
  <2> QED
    BY <2>1, <2>2, <2>3, <2>4, <2>5
<1>4. TypeOK'
  BY <1>1, <1>2, <1>3 DEF TypeOK
<1>5. PipeInv' /\ IdInv' /\ VerdictInv'
  BY <1>1, <1>2, <1>3 DEF PipeInv, IdInv, VerdictInv
<1>6. TimerInv'
  BY <1>1 DEF TimerInv
<1>7. TurnInv'
  BY <1>1 DEF TurnInv, Promise!Ended
<1> QED
  BY <1>4, <1>5, <1>6, <1>7

LEMMA Inductive == IInv /\ [Next]_vars => IInv'
<1>1. IInv /\ UNCHANGED vars => IInv'
  BY DEF vars, IInv, TypeOK, PipeInv, IdInv, TurnInv, VerdictInv, TimerInv, Promise!Ended
<1> QED
  BY <1>1, SpawnStep, WriteStep, ArmStep, ReadStep, CancelStep, NotifyStep, TimerStep, OthersStep
     DEF Next, thread

(* The pipes of a connector carry one request and one answer per id, and a *)
(* sync is at one request at a time.                                       *)
THEOREM WireInvariant == Spec => []IInv
BY WireInit, Inductive, PTL DEF Spec
-----------------------------------------------------------------------------
(* Each step of a sync is one of the abstract calls', or none.             *)
LEMMA StepKeepsPromise ==
  IInv /\ [Next]_vars => [Promise!Next]_<<call, answer>>
<1> SUFFICES ASSUME IInv, [Next]_vars
             PROVE  Promise!Next \/ UNCHANGED <<call, answer>>
  OBVIOUS
<1>1. CASE Write
  <2>1. turn \in R /\ call[turn] = "unasked"
    BY <1>1 DEF Write, IInv, TypeOK, TurnInv
  <2>2. \A m \in 1 .. turn - 1 : Promise!Ended(m)
    BY <2>1, Counts DEF IInv, TurnInv
  <2>3. Promise!Ask(turn)
    BY <1>1, <2>1, <2>2 DEF Write, Promise!Ask
  <2> QED
    BY <2>1, <2>3, Counts DEF Promise!Next
<1>2. CASE Cancel
  <2>1. turn \in R /\ (Promise!Answer(turn) \/ Promise!Fail(turn))
    BY <1>2, CancelEffect DEF Promise!Answer, Promise!Fail
  <2> QED
    BY <2>1, Counts DEF Promise!Next
<1>3. CASE ~Write /\ ~Cancel
  BY <1>3 DEF Next, thread, connector, Spawn, Arm, ReadLine, ReadEnd, Notify, Stop,
              Reply, Babble, Die, timer, Expire, Kill, vars
<1> QED
  BY <1>1, <1>2, <1>3

(* Whatever the connector does, the requests of a sync are made one after  *)
(* the other, and each ends at most once, with the answer to itself or     *)
(* with a failure (_request implements the safety part of module Call).    *)
THEOREM CallsKeepTheirPromise == Spec => Promise!Safe
<1>1. Init => Promise!Init
  BY Counts DEF Init, Promise!Init
<1> QED
  BY <1>1, WireInit, Inductive, StepKeepsPromise, PTL DEF Spec, Promise!Safe

(* A timer finds itself not cancelled only while the request that armed it *)
(* is under way, so that what a late kill can hit is bounded by the calls  *)
(* that were overdue (the finally of _request).                            *)
THEOREM TimersExpireInTime == Spec => TimersExpireDuringTheirCall
<1>1. IInv => \A n \in timers : call[n] = "asked"
  BY DEF IInv, TimerInv, TurnInv
<1>2. [Next]_vars => firing' \ firing \subseteq timers
  BY DEF Next, thread, connector, Spawn, Write, Arm, ReadLine, ReadEnd, Leave, Cancel,
         Notify, Stop, Reply, Babble, Die, timer, Expire, Kill, wire, vars
<1>3. IInv /\ [Next]_vars => [\A n \in firing' \ firing : call[n] = "asked"]_vars
  BY <1>1, <1>2
<1> QED
  BY <1>3, WireInit, Inductive, PTL DEF Spec, TimersExpireDuringTheirCall

-----------------------------------------------------------------------------
(*------------------------------- Reading --------------------------------*)
(* Lists: sorted, cut off, and taken from other lists.                     *)

(* rel is strict and total on S.                                             *)
Orders(rel, S) ==
  /\ \A a \in S : <<a, a>> \notin rel
  /\ \A a, b \in S : a # b => <<a, b>> \in rel \/ <<b, a>> \in rel
  /\ \A a, b, c \in S : <<a, b>> \in rel /\ <<b, c>> \in rel => <<a, c>> \in rel

NoTwice(s) == \A i, j \in DOMAIN s : s[i] = s[j] => i = j

(* A sort returns each element once: how many are before it is its place.  *)
LEMMA SortedEnumerates ==
  ASSUME NEW S, IsFiniteSet(S), NEW rel, Orders(rel, S)
  PROVE  /\ Cardinality(S) \in Nat
         /\ Sorted(S, rel) \in [1 .. Cardinality(S) -> S]
         /\ NoTwice(Sorted(S, rel))
         /\ \A c \in S : \E n \in 1 .. Cardinality(S) : Sorted(S, rel)[n] = c
<1> DEFINE N    == Cardinality(S)
           Below(c) == {b \in S : <<b, c>> \in rel}
           rank == [c \in S |-> Cardinality(Below(c)) + 1]
<1>1. N \in Nat /\ IsFiniteSet(1 .. N) /\ Cardinality(1 .. N) = N
  <2>1. N \in Nat
    BY FS_CardinalityType
  <2>2. IsFiniteSet(1 .. N) /\ Cardinality(1 .. N) = IF 1 > N THEN 0 ELSE N - 1 + 1
    <3> HIDE DEF N
    <3> QED
      BY <2>1, FS_Interval
  <2> QED
    BY <2>1, <2>2
<1>2. \A c \in S : /\ IsFiniteSet(Below(c)) /\ Cardinality(Below(c)) \in Nat
                   /\ Cardinality(Below(c)) < N
  <2> TAKE c \in S
  <2>1. Below(c) \in SUBSET S /\ Below(c) # S
    BY DEF Orders
  <2>2. IsFiniteSet(Below(c)) /\ Cardinality(Below(c)) <= N /\ Cardinality(Below(c)) # N
    <3> HIDE DEF Below
    <3> QED
      BY <2>1, FS_Subset
  <2> QED
    BY <1>1, <2>2, FS_CardinalityType
<1>3. \A a, b \in S : <<a, b>> \in rel => Cardinality(Below(a)) < Cardinality(Below(b))
  <2> SUFFICES ASSUME NEW a \in S, NEW b \in S, <<a, b>> \in rel
               PROVE  Cardinality(Below(a)) < Cardinality(Below(b))
    OBVIOUS
  <2>1. Below(a) \in SUBSET Below(b) /\ a \in Below(b) /\ a \notin Below(a)
    BY DEF Orders
  <2>2. Cardinality(Below(a)) <= Cardinality(Below(b)) /\ Cardinality(Below(a)) # Cardinality(Below(b))
    <3> HIDE DEF Below
    <3> QED
      BY <1>2, <2>1, FS_Subset
  <2>3. Cardinality(Below(a)) \in Nat /\ Cardinality(Below(b)) \in Nat
    BY <1>2
  <2> HIDE DEF Below
  <2> QED
    BY <2>2, <2>3
<1> HIDE DEF Below
<1>4. \A a, b \in S : rank[a] = rank[b] => a = b
  <2> SUFFICES ASSUME NEW a \in S, NEW b \in S, rank[a] = rank[b], a # b PROVE FALSE
    OBVIOUS
  <2>1. Cardinality(Below(a)) + 1 = Cardinality(Below(b)) + 1
    OBVIOUS
  <2>2. ~(Cardinality(Below(a)) < Cardinality(Below(b))) /\ ~(Cardinality(Below(b)) < Cardinality(Below(a)))
    BY <1>2, <2>1
  <2>3. <<a, b>> \in rel \/ <<b, a>> \in rel
    BY DEF Orders
  <2> QED
    BY <1>3, <2>2, <2>3
<1>5. rank \in [S -> 1 .. N] /\ \A c \in S : rank[c] = Cardinality(Below(c)) + 1
  BY <1>1, <1>2
<1> HIDE DEF rank, N
<1>6. rank \in Injection(S, 1 .. N)
  BY <1>4, <1>5 DEF Injection, IsInjective
<1>7. rank \in Surjection(S, 1 .. N)
  BY <1>1, <1>6, FS_Injection DEF N
<1>8. \A n \in 1 .. N : \E c \in S : rank[c] = n
  BY <1>7 DEF Surjection
<1>9. \A n \in 1 .. N : Sorted(S, rel)[n] \in S /\ rank[Sorted(S, rel)[n]] = n
  <2> TAKE n \in 1 .. N
  <2>1. Sorted(S, rel)[n] = CHOOSE c \in S : Cardinality(Below(c)) = n - 1
    BY DEF Sorted, N, Below
  <2>2. \E c \in S : Cardinality(Below(c)) = n - 1
    <3>1. PICK c \in S : rank[c] = n
      BY <1>8
    <3>2. Cardinality(Below(c)) \in Nat /\ Cardinality(Below(c)) + 1 = n
      BY <1>2, <1>5, <3>1
    <3> QED
      BY <3>2
  <2>3. PICK c \in S : c = Sorted(S, rel)[n] /\ Cardinality(Below(c)) = n - 1
    BY <2>1, <2>2
  <2> QED
    BY <1>1, <1>5, <2>3
<1> DEFINE place(n) == CHOOSE c \in S : Cardinality({b \in S : <<b, c>> \in rel}) = n - 1
<1>10. Sorted(S, rel) = [n \in 1 .. N |-> place(n)]
  BY DEF Sorted, N
<1> HIDE DEF place
<1>11. Sorted(S, rel) \in [1 .. N -> S]
  BY <1>9, <1>10
<1>12. NoTwice(Sorted(S, rel))
  BY <1>9, <1>10 DEF NoTwice
<1>13. \A c \in S : \E n \in 1 .. N : Sorted(S, rel)[n] = c
  BY <1>4, <1>5, <1>9
<1> QED
  BY <1>1, <1>11, <1>12, <1>13 DEF N

LEMMA LeastOf ==
  ASSUME NEW a \in Nat, NEW b \in Nat
  PROVE  /\ Least(a, b) \in Nat /\ Least(a, b) <= a /\ Least(a, b) <= b
         /\ Least(a, b) \in {a, b} /\ (b <= a => Least(a, b) = b)
BY DEF Least

LEMMA FirstOfASeq ==
  ASSUME NEW S, NEW s \in Seq(S), NEW n \in Nat
  PROVE  /\ First(s, n) \in Seq(S)
         /\ Len(First(s, n)) = Least(n, Len(s))
         /\ \A i \in 1 .. Least(n, Len(s)) : First(s, n)[i] = s[i]
         /\ ToSet(First(s, n)) \subseteq ToSet(s)
         /\ NoTwice(s) => NoTwice(First(s, n))
         /\ Len(s) <= n => First(s, n) = s
<1> DEFINE m == Least(n, Len(s))
<1>1. Len(s) \in Nat /\ DOMAIN s = 1 .. Len(s) /\ \A i \in 1 .. Len(s) : s[i] \in S
  BY LenProperties
<1>2. m \in Nat /\ m <= Len(s) /\ m <= n /\ (Len(s) <= n => m = Len(s))
  BY <1>1, LeastOf
<1> HIDE DEF m
<1>0. \A i \in 1 .. m : s[i] \in S /\ i \in DOMAIN s
  <2> TAKE i \in 1 .. m
  <2>1. m \in Nat /\ Len(s) \in Nat /\ m <= Len(s)
    BY <1>1, <1>2
  <2>2. i \in 1 .. Len(s)
    BY <2>1
  <2> QED
    BY <1>1, <2>2
<1>3. /\ SubSeq(s, 1, m) \in Seq(S)
      /\ Len(SubSeq(s, 1, m)) = IF 1 <= m THEN m - 1 + 1 ELSE 0
      /\ \A i \in 1 .. m - 1 + 1 : SubSeq(s, 1, m)[i] = s[1 + i - 1]
  BY <1>0, <1>2, SubSeqProperties
<1>4. First(s, n) = SubSeq(s, 1, m)
  BY DEF First, m
<1>5. First(s, n) \in Seq(S) /\ Len(First(s, n)) = m /\ \A i \in 1 .. m : First(s, n)[i] = s[i]
  BY <1>2, <1>3, <1>4
<1>6. DOMAIN First(s, n) = 1 .. m
  BY <1>5, LenProperties
<1>7. ToSet(First(s, n)) \subseteq ToSet(s)
  BY <1>0, <1>5, <1>6 DEF ToSet
<1>8. NoTwice(s) => NoTwice(First(s, n))
  BY <1>0, <1>5, <1>6 DEF NoTwice
<1>9. Len(s) <= n => First(s, n) = s
  BY <1>1, <1>2, <1>5, SeqEqual
<1> QED
  BY <1>5, <1>7, <1>8, <1>9 DEF m

(* What s has at some of its positions, in whichever order.                *)
LEMMA ArrangedList ==
  ASSUME NEW S, NEW s \in Seq(S), NEW I \in SUBSET DOMAIN s, NEW worth \in [I -> Int]
  PROVE  /\ Arranged(s, worth) \in Seq(S)
         /\ Cardinality(I) \in Nat /\ Len(Arranged(s, worth)) = Cardinality(I)
         /\ (I = {}) <=> (Cardinality(I) = 0)
         /\ \A c : c \in ToSet(Arranged(s, worth)) <=> \E i \in I : s[i] = c
         /\ NoTwice(s) => NoTwice(Arranged(s, worth))
<1> DEFINE N == Cardinality(I)
           order == Sorted(I, ByWorth(worth))
           out == Arranged(s, worth)
<1>1. DOMAIN worth = I /\ DOMAIN s = 1 .. Len(s) /\ Len(s) \in Nat /\ I \subseteq Nat
      /\ \A i \in I : s[i] \in S /\ worth[i] \in Int
  BY LenProperties
<1>2. IsFiniteSet(I)
  <2>1. I \in SUBSET (1 .. Len(s)) /\ IsFiniteSet(1 .. Len(s))
    BY <1>1, FS_Interval
  <2> QED
    BY <2>1, FS_Subset
<1>3. Orders(ByWorth(worth), I)
  <2>1. \A i, j \in I : <<i, j>> \in ByWorth(worth) <=>
          worth[i] > worth[j] \/ (worth[i] = worth[j] /\ i < j)
    BY <1>1 DEF ByWorth
  <2>2. \A i, j \in I : i \in Nat /\ j \in Nat /\ worth[i] \in Int /\ worth[j] \in Int
    BY <1>1
  <2>3. \A i \in I : <<i, i>> \notin ByWorth(worth)
    BY <2>1, <2>2
  <2>4. \A i, j \in I : i # j => <<i, j>> \in ByWorth(worth) \/ <<j, i>> \in ByWorth(worth)
    BY <2>1, <2>2
  <2>5. \A i, j, l \in I : <<i, j>> \in ByWorth(worth) /\ <<j, l>> \in ByWorth(worth)
                           => <<i, l>> \in ByWorth(worth)
    BY <2>1, <2>2
  <2> QED
    BY <2>3, <2>4, <2>5 DEF Orders
<1>4. /\ N \in Nat /\ order \in [1 .. N -> I] /\ NoTwice(order)
      /\ \A i \in I : \E n \in 1 .. N : order[n] = i
  BY <1>2, <1>3, SortedEnumerates
<1>5. out = [n \in 1 .. N |-> s[order[n]]]
  BY <1>1 DEF Arranged
<1> HIDE DEF order, out, N
<1>6. \A n \in 1 .. N : order[n] \in I /\ s[order[n]] \in S
  BY <1>1, <1>4
<1>7. out \in Seq(S)
  BY <1>4, <1>5, <1>6, IsASeq
<1>8. DOMAIN out = 1 .. N /\ \A n \in 1 .. N : out[n] = s[order[n]]
  BY <1>5
<1>9. Len(out) = N
  BY <1>4, <1>7, <1>8, LenProperties
<1>10. \A c : c \in ToSet(out) <=> \E i \in I : s[i] = c
  <2>1. \A n \in 1 .. N : \E i \in I : out[n] = s[i]
    BY <1>6, <1>8
  <2>2. ASSUME NEW i \in I PROVE \E n \in 1 .. N : out[n] = s[i]
    <3>1. PICK n \in 1 .. N : order[n] = i
      BY <1>4
    <3> QED
      BY <1>8, <3>1
  <2>3. \A c : c \in ToSet(out) <=> \E n \in 1 .. N : out[n] = c
    BY <1>8 DEF ToSet
  <2>4. ASSUME NEW c \in ToSet(out) PROVE \E i \in I : s[i] = c
    <3>1. PICK n \in 1 .. N : out[n] = c
      BY <2>3
    <3>2. PICK i \in I : out[n] = s[i]
      BY <2>1
    <3> QED
      BY <3>1, <3>2
  <2>5. ASSUME NEW i \in I PROVE s[i] \in ToSet(out)
    BY <2>2, <2>3
  <2> QED
    BY <2>4, <2>5
<1>11. NoTwice(s) => NoTwice(out)
  BY <1>1, <1>4, <1>6, <1>8 DEF NoTwice
<1>12. (I = {}) <=> (N = 0)
  BY <1>2, FS_EmptySet DEF N
<1> QED
  BY <1>4, <1>7, <1>9, <1>10, <1>11, <1>12 DEF out, N

(* More different elements than T has are not all in T.                    *)
LEMMA OneIsLeftOver ==
  ASSUME NEW S, NEW s \in Seq(S), NoTwice(s),
         NEW T, IsFiniteSet(T), Cardinality(T) < Len(s)
  PROVE  \E c \in ToSet(s) : c \notin T
<1> SUFFICES ASSUME \A c \in ToSet(s) : c \in T PROVE FALSE
  OBVIOUS
<1>1. Len(s) \in Nat /\ DOMAIN s = 1 .. Len(s) /\ s \in [1 .. Len(s) -> S]
  BY LenProperties
<1>2. \A i \in 1 .. Len(s) : s[i] \in T
  BY <1>1 DEF ToSet
<1>3. s \in [1 .. Len(s) -> T]
  BY <1>1, <1>2
<1>4. IsFiniteSet(1 .. Len(s)) /\ Cardinality(1 .. Len(s)) = Len(s)
  BY <1>1, FS_Interval
<1>5. \E i, j \in 1 .. Len(s) : i # j /\ s[i] = s[j]
  BY <1>3, <1>4, FS_PigeonHole
<1> QED
  BY <1>1, <1>5 DEF NoTwice

-----------------------------------------------------------------------------
(* The searches.  A point is held if its passage has a text.               *)
Point   == [doc : Nat, ver : Nat, idx : Nat, copy : Nat]
Held(p) == {c \in Point : <<c.doc, c.ver, c.idx>> \in DOMAIN p}
Spoken(p) == p \in [DOMAIN p -> Text]

LEMMA OlderIsAnOrder ==
  /\ \A a \in Point : ~Older(a, a)
  /\ \A a, b \in Point : a # b => Older(a, b) \/ Older(b, a)
  /\ \A a, b, c \in Point : Older(a, b) /\ Older(b, c) => Older(a, c)
<1>1. \A a \in Point : a.doc \in Nat /\ a.ver \in Nat /\ a.idx \in Nat /\ a.copy \in Nat
  BY DEF Point
<1>2. \A a, b \in Point : a.doc = b.doc /\ a.ver = b.ver /\ a.idx = b.idx /\ a.copy = b.copy => a = b
  BY DEF Point
<1>3. \A a \in Point : ~Older(a, a)
  BY <1>1 DEF Older
<1>4. \A a, b \in Point : a # b => Older(a, b) \/ Older(b, a)
  <2> TAKE a, b \in Point
  <2> QED
    BY <1>1, <1>2 DEF Older
<1>5. \A a, b, c \in Point : Older(a, b) /\ Older(b, c) => Older(a, c)
  <2> TAKE a, b, c \in Point
  <2> QED
    BY <1>1 DEF Older
<1> QED
  BY <1>3, <1>4, <1>5

(* The best n of T are different points of it, and all of T if n are not   *)
(* filled.                                                                 *)
LEMMA BestList ==
  ASSUME NEW T \in SUBSET Point, IsFiniteSet(T), NEW key \in [T -> Int], NEW n \in Nat
  PROVE  /\ Best(key, n) \in Seq(T) /\ NoTwice(Best(key, n))
         /\ Len(Best(key, n)) < n => T \subseteq ToSet(Best(key, n))
<1> DEFINE sorted == Sorted(T, ByKey(key))
           N == Cardinality(T)
<1>1. Orders(ByKey(key), T)
  <2>1. \A a, b \in T : <<a, b>> \in ByKey(key) <=>
          key[a] > key[b] \/ (key[a] = key[b] /\ Older(a, b))
    BY DEF ByKey
  <2>2. \A a \in T : key[a] \in Int /\ a \in Point
    OBVIOUS
  <2>3. \A a \in T : <<a, a>> \notin ByKey(key)
    BY <2>1, <2>2, OlderIsAnOrder
  <2>4. \A a, b \in T : a # b => <<a, b>> \in ByKey(key) \/ <<b, a>> \in ByKey(key)
    BY <2>1, <2>2, OlderIsAnOrder
  <2>5. \A a, b, c \in T : <<a, b>> \in ByKey(key) /\ <<b, c>> \in ByKey(key) => <<a, c>> \in ByKey(key)
    <3> TAKE a, b, c \in T
    <3>1. Older(a, b) /\ Older(b, c) => Older(a, c)
      BY <2>2, OlderIsAnOrder
    <3> QED
      BY <2>1, <2>2, <3>1
  <2> QED
    BY <2>3, <2>4, <2>5 DEF Orders
<1>2. /\ N \in Nat /\ sorted \in [1 .. N -> T] /\ NoTwice(sorted)
      /\ \A c \in T : \E i \in 1 .. N : sorted[i] = c
  BY <1>1, SortedEnumerates
<1>3. Best(key, n) = First(sorted, n)
  BY DEF Best
<1> HIDE DEF sorted, N
<1>4. sorted \in Seq(T) /\ Len(sorted) = N /\ DOMAIN sorted = 1 .. N
  <2>1. sorted = [i \in 1 .. N |-> sorted[i]] /\ \A i \in 1 .. N : sorted[i] \in T
    BY <1>2
  <2>2. sorted \in Seq(T)
    BY <1>2, <2>1, SeqDef
  <2> QED
    BY <1>2, <2>2, LenProperties
<1>5. Best(key, n) \in Seq(T) /\ NoTwice(Best(key, n))
  BY <1>2, <1>3, <1>4, FirstOfASeq
<1>6. ASSUME Len(Best(key, n)) < n PROVE T \subseteq ToSet(Best(key, n))
  <2>1. Len(sorted) <= n
    <3>1. Least(n, N) = Len(Best(key, n)) /\ Least(n, N) \in {n, N} /\ Least(n, N) <= n
      BY <1>2, <1>3, <1>4, FirstOfASeq, LeastOf
    <3> QED
      BY <1>2, <1>4, <1>6, <3>1
  <2>2. Best(key, n) = sorted
    BY <1>3, <1>4, <2>1, FirstOfASeq
  <2> QED
    BY <1>2, <1>4, <2>2 DEF ToSet
<1> QED
  BY <1>5, <1>6

LEMMA HeldText ==
  ASSUME NEW p, Spoken(p), NEW c \in Held(p)
  PROVE  /\ Of(p, c).sim \in Nat /\ Of(p, c).fresh \in Nat
         /\ Of(p, c).words \in Nat /\ Of(p, c).title \in Nat
         /\ Of(p, c).tagged \in BOOLEAN
BY DEF Spoken, Held, Of, Text

LEMMA NearestList ==
  ASSUME NEW p, Spoken(p), NEW T \in SUBSET Held(p), IsFiniteSet(T),
         NEW limit \in Nat, NEW count \in Nat
  PROVE  Nearest(p, T, limit, count) \in Seq(T) /\ NoTwice(Nearest(p, T, limit, count))
<1> DEFINE key == [c \in T |-> Of(p, c).sim]
           n   == Least(limit, IF count > 1 THEN count ELSE 1)
<1>1. T \in SUBSET Point /\ key \in [T -> Int] /\ n \in Nat
  <2>1. \A c \in T : Of(p, c).sim \in Int
    BY HeldText
  <2>2. key \in [T -> Int]
    BY <2>1
  <2> QED
    BY <2>2, LeastOf DEF Held
<1>2. Nearest(p, T, limit, count) = Best(key, n)
  BY DEF Nearest
<1> HIDE DEF key, n
<1> QED
  BY <1>1, <1>2, BestList

LEMMA MatchingList ==
  ASSUME NEW p, Spoken(p), NEW T \in SUBSET Held(p), IsFiniteSet(T),
         NEW terms \in Nat, NEW limit \in Nat
  PROVE  /\ Matching(p, T, terms, limit) \in Seq(T) /\ NoTwice(Matching(p, T, terms, limit))
         /\ Len(Matching(p, T, terms, limit)) < limit =>
              {c \in T : Of(p, c).words >= terms} \subseteq ToSet(Matching(p, T, terms, limit))
<1> DEFINE U   == {c \in T : Of(p, c).words >= terms}
           key == [c \in U |-> Of(p, c).words]
<1>1. U \in SUBSET Point /\ U \in SUBSET T /\ key \in [U -> Int]
  <2>1. \A c \in T : Of(p, c).words \in Int
    BY HeldText
  <2>2. key \in [U -> Int]
    BY <2>1
  <2> QED
    BY <2>2 DEF Held
<1>2. IsFiniteSet(U)
  <2> HIDE DEF U
  <2> QED
    BY <1>1, FS_Subset
<1>3. Matching(p, T, terms, limit) = Best(key, limit)
  BY DEF Matching
<1> HIDE DEF key, U
<1>4. /\ Best(key, limit) \in Seq(U) /\ NoTwice(Best(key, limit))
      /\ Len(Best(key, limit)) < limit => U \subseteq ToSet(Best(key, limit))
  BY <1>1, <1>2, BestList
<1>5. Best(key, limit) \in Seq(T)
  BY <1>1, <1>4, SeqMonotonic
<1> QED
  BY <1>3, <1>4, <1>5 DEF U

LEMMA FreshList ==
  ASSUME NEW p, Spoken(p), NEW T \in SUBSET Held(p), NEW hits \in Seq(T), NoTwice(hits)
  PROVE  ByFreshness(p, hits) \in Seq(T) /\ NoTwice(ByFreshness(p, hits))
<1> DEFINE worth == [i \in DOMAIN hits |-> 6 * Of(p, hits[i]).sim + Of(p, hits[i]).fresh]
<1>1. \A i \in DOMAIN hits : hits[i] \in Held(p)
  BY LenProperties
<1>2. worth \in [DOMAIN hits -> Int]
  BY <1>1, HeldText
<1>3. ByFreshness(p, hits) = Arranged(hits, worth)
  BY DEF ByFreshness
<1> HIDE DEF worth
<1> QED
  BY <1>2, <1>3, ArrangedList

-----------------------------------------------------------------------------
(* The ranking.                                                            *)
LEMMA SetOfASeq ==
  ASSUME NEW S, NEW s \in Seq(S)
  PROVE  /\ ToSet(s) \subseteq S /\ (s = <<>> <=> ToSet(s) = {})
         /\ \A c : c \in ToSet(s) <=> \E i \in DOMAIN s : s[i] = c
         /\ \A c \in ToSet(s) : Place(s, c) \in DOMAIN s /\ s[Place(s, c)] = c
<1>1. Len(s) \in Nat /\ DOMAIN s = 1 .. Len(s) /\ \A i \in DOMAIN s : s[i] \in S
  BY LenProperties
<1>2. s = <<>> <=> Len(s) = 0
  BY EmptySeq
<1>3. \A c : c \in ToSet(s) <=> \E i \in DOMAIN s : s[i] = c
  BY DEF ToSet
<1>4. \A c \in ToSet(s) : Place(s, c) \in DOMAIN s /\ s[Place(s, c)] = c
  BY <1>3 DEF Place
<1>5. Len(s) = 0 <=> DOMAIN s = {}
  <2>1. Len(s) # 0 => 1 \in DOMAIN s
    BY <1>1
  <2> QED
    BY <1>1, <2>1
<1> QED
  BY <1>1, <1>2, <1>3, <1>4, <1>5

LEMMA CameList ==
  ASSUME NEW T, NEW vec \in Seq(T), NEW kw \in Seq(T), NoTwice(vec), NoTwice(kw)
  PROVE  /\ Came(vec, kw) \in Seq(T) /\ NoTwice(Came(vec, kw))
         /\ ToSet(Came(vec, kw)) = ToSet(vec) \cup ToSet(kw)
<1> DEFINE I     == {i \in DOMAIN kw : kw[i] \notin ToSet(vec)}
           worth == [i \in I |-> 0]
           rest  == Arranged(kw, worth)
           came  == Came(vec, kw)
<1>1. I \in SUBSET DOMAIN kw /\ worth \in [I -> Int]
  OBVIOUS
<1>2. came = vec \o rest
  BY DEF Came
<1>3. \A c : (\E i \in I : kw[i] = c) <=> c \in ToSet(kw) /\ c \notin ToSet(vec)
  BY SetOfASeq
<1> HIDE DEF I, worth
<1>4. rest \in Seq(T) /\ (\A c : c \in ToSet(rest) <=> \E i \in I : kw[i] = c) /\ NoTwice(rest)
  BY <1>1, ArrangedList
<1> HIDE DEF rest, came
<1>5. /\ came \in Seq(T) /\ Len(came) = Len(vec) + Len(rest)
      /\ \A i \in 1 .. Len(vec) + Len(rest) :
           came[i] = IF i <= Len(vec) THEN vec[i] ELSE rest[i - Len(vec)]
  BY <1>2, <1>4, ConcatProperties
<1>6. /\ Len(vec) \in Nat /\ DOMAIN vec = 1 .. Len(vec)
      /\ Len(rest) \in Nat /\ DOMAIN rest = 1 .. Len(rest)
      /\ DOMAIN came = 1 .. Len(vec) + Len(rest)
  BY <1>4, <1>5, LenProperties
<1>7. \A i \in DOMAIN came : \/ i \in DOMAIN vec /\ came[i] = vec[i]
                             \/ /\ i > Len(vec) /\ i - Len(vec) \in DOMAIN rest
                                /\ came[i] = rest[i - Len(vec)]
  <2> TAKE i \in DOMAIN came
  <2>1. i \in 1 .. Len(vec) + Len(rest)
    BY <1>6
  <2>2. CASE i <= Len(vec)
    BY <1>5, <1>6, <2>1, <2>2
  <2>3. CASE i > Len(vec)
    BY <1>5, <1>6, <2>1, <2>3
  <2> QED
    BY <1>6, <2>1, <2>2, <2>3
<1>8. \A i \in DOMAIN vec : i \in DOMAIN came /\ came[i] = vec[i]
  <2> TAKE i \in DOMAIN vec
  <2>1. i \in 1 .. Len(vec) /\ i \in 1 .. Len(vec) + Len(rest)
    BY <1>6
  <2> QED
    BY <1>5, <1>6, <2>1
<1>9. \A j \in DOMAIN rest : Len(vec) + j \in DOMAIN came /\ came[Len(vec) + j] = rest[j]
  <2> TAKE j \in DOMAIN rest
  <2>1. Len(vec) + j \in 1 .. Len(vec) + Len(rest) /\ ~(Len(vec) + j <= Len(vec))
        /\ Len(vec) + j - Len(vec) = j
    BY <1>6
  <2> QED
    BY <1>5, <1>6, <2>1
<1>10. \A i \in DOMAIN vec, j \in DOMAIN rest : vec[i] # rest[j]
  BY <1>3, <1>4, SetOfASeq
<1>11. NoTwice(came)
  <2> SUFFICES ASSUME NEW i \in DOMAIN came, NEW j \in DOMAIN came, came[i] = came[j]
               PROVE  i = j
    BY DEF NoTwice
  <2>1. CASE i \in DOMAIN vec /\ j \in DOMAIN vec
    BY <1>8, <2>1 DEF NoTwice
  <2>2. CASE i > Len(vec) /\ j > Len(vec)
    <3>1. /\ i - Len(vec) \in DOMAIN rest /\ came[i] = rest[i - Len(vec)]
          /\ j - Len(vec) \in DOMAIN rest /\ came[j] = rest[j - Len(vec)]
      BY <1>6, <1>7, <2>2
    <3>2. i - Len(vec) = j - Len(vec)
      BY <1>4, <3>1 DEF NoTwice
    <3> QED
      BY <1>6, <3>2
  <2> QED
    BY <1>7, <1>10, <2>1, <2>2
<1>12. ToSet(came) = ToSet(vec) \cup ToSet(kw)
  <2>1. \A c : c \in ToSet(came) <=> c \in ToSet(vec) \/ c \in ToSet(rest)
    <3>1. ASSUME NEW c \in ToSet(came) PROVE c \in ToSet(vec) \/ c \in ToSet(rest)
      <4>1. PICK i \in DOMAIN came : came[i] = c
        BY <1>5, SetOfASeq
      <4> QED
        BY <1>4, <1>7, <4>1, SetOfASeq
    <3>2. \A c \in ToSet(vec) : c \in ToSet(came)
      BY <1>5, <1>8, SetOfASeq
    <3>3. ASSUME NEW c \in ToSet(rest) PROVE c \in ToSet(came)
      <4>1. PICK j \in DOMAIN rest : rest[j] = c
        BY <1>4, SetOfASeq
      <4> QED
        BY <1>5, <1>9, <4>1, SetOfASeq
    <3> QED
      BY <3>1, <3>2, <3>3
  <2> QED
    BY <1>3, <1>4, <2>1
<1> QED
  BY <1>5, <1>11, <1>12 DEF came

LEMMA Quotient == \A m \in Nat, n \in Nat \ {0} : m \div n \in Nat
OBVIOUS

LEMMA ScoresType ==
  ASSUME NEW T, NEW vec \in Seq(T), NEW kw \in Seq(T)
  PROVE  Scores(vec, kw) \in [ToSet(vec) \cup ToSet(kw) -> Nat]
<1>1. \A s \in Seq(T) : \A c : Share(s, c) \in Nat
  <2> TAKE s \in Seq(T)
  <2> TAKE c
  <2>1. CASE c \in ToSet(s)
    <3>1. Place(s, c) \in Nat /\ Place(s, c) >= 1
      BY <2>1, SetOfASeq, LenProperties
    <3>2. Share(s, c) = 10000000 \div (RRF_K + Place(s, c) - 1)
      BY <2>1, SMT DEF Share
    <3> QED
      BY <3>1, <3>2, Quotient, SMT DEF RRF_K
  <2>2. CASE c \notin ToSet(s)
    BY <2>2, SMT DEF Share
  <2> QED
    BY <2>1, <2>2
<1>2. \A c \in ToSet(vec) \cup ToSet(kw) : Share(vec, c) + Share(kw, c) \in Nat
  BY <1>1
<1> QED
  BY <1>2 DEF Scores

(* All of both lists, or as much of it as was asked for.                   *)
LEMMA FuseList ==
  ASSUME NEW T, NEW vec \in Seq(T), NEW kw \in Seq(T), NoTwice(vec), NoTwice(kw),
         NEW limit \in Nat
  PROVE  /\ Fuse(vec, kw, limit) \in Seq(T) /\ NoTwice(Fuse(vec, kw, limit))
         /\ ToSet(Fuse(vec, kw, limit)) \subseteq ToSet(vec) \cup ToSet(kw)
         /\ \/ Len(Fuse(vec, kw, limit)) = limit
            \/ ToSet(Fuse(vec, kw, limit)) = ToSet(vec) \cup ToSet(kw)
<1> DEFINE came  == Came(vec, kw)
           worth == [i \in DOMAIN came |-> Scores(vec, kw)[came[i]]]
           all   == Arranged(came, worth)
<1>1. came \in Seq(T) /\ NoTwice(came) /\ ToSet(came) = ToSet(vec) \cup ToSet(kw)
  BY CameList
<1> HIDE DEF came
<1>2. worth \in [DOMAIN came -> Int] /\ DOMAIN came \in SUBSET DOMAIN came
  <2>1. \A i \in DOMAIN came : Scores(vec, kw)[came[i]] \in Int
    <3> TAKE i \in DOMAIN came
    <3>1. came[i] \in ToSet(vec) \cup ToSet(kw)
      BY <1>1, SetOfASeq
    <3>2. Scores(vec, kw)[came[i]] \in Nat
      BY <3>1, ScoresType
    <3> QED
      BY <3>2
  <2> QED
    BY <2>1
<1>3. Fuse(vec, kw, limit) = First(all, limit)
  BY DEF Fuse, came
<1> HIDE DEF worth
<1>4. all \in Seq(T) /\ NoTwice(all) /\ \A c : c \in ToSet(all) <=> \E i \in DOMAIN came : came[i] = c
  BY <1>1, <1>2, ArrangedList
<1>5. ToSet(all) = ToSet(vec) \cup ToSet(kw)
  BY <1>1, <1>4, SetOfASeq
<1> HIDE DEF all
<1>6. Len(all) \in Nat
  BY <1>4, LenProperties
<1>7. Len(all) <= limit \/ Len(First(all, limit)) = limit
  <2>1. Len(First(all, limit)) = Least(limit, Len(all))
    BY <1>4, FirstOfASeq
  <2> QED
    BY <1>6, <2>1, LeastOf
<1>8. /\ First(all, limit) \in Seq(T) /\ NoTwice(First(all, limit))
      /\ ToSet(First(all, limit)) \subseteq ToSet(all)
      /\ Len(all) <= limit => First(all, limit) = all
  BY <1>4, FirstOfASeq
<1> QED
  BY <1>3, <1>5, <1>7, <1>8

LEMMA LeastNumber ==
  ASSUME NEW S \in SUBSET Nat, S # {}
  PROVE  \E m \in S : \A k \in S : m <= k
<1> DEFINE Less == {pair \in Nat \X Nat : pair[1] < pair[2]}
<1>1. IsWellFoundedOn(Less, Nat)
  BY NatLessThanWellFounded DEF OpToRel
<1> HIDE DEF Less
<1>2. PICK m \in S : \A k \in S : ~(<<k, m>> \in Less)
  BY <1>1, WFMin
<1>3. ASSUME NEW k \in S, k < m PROVE FALSE
  <2>1. <<k, m>> \in Less
    BY <1>3 DEF Less
  <2> QED
    BY <1>2, <2>1
<1> QED
  BY <1>2, <1>3

(* Nothing that is tagged passes, and of what is not something does.       *)
LEMMA DistinctList ==
  ASSUME NEW p, NEW T, NEW hits \in Seq(T)
  PROVE  /\ Distinct(p, hits) \in Seq(T) /\ ToSet(Distinct(p, hits)) \subseteq ToSet(hits)
         /\ \A c \in ToSet(Distinct(p, hits)) : ~Tagged(p, c)
         /\ (\E c \in ToSet(hits) : ~Tagged(p, c)) => Distinct(p, hits) # <<>>
<1> DEFINE I     == {i \in DOMAIN hits : /\ ~Tagged(p, hits[i])
                                         /\ \A j \in 1 .. i - 1 : ~Same(hits[i], hits[j])}
           worth == [i \in I |-> 0]
           out   == Distinct(p, hits)
<1>1. I \in SUBSET DOMAIN hits /\ worth \in [I -> Int]
  OBVIOUS
<1>2. out = Arranged(hits, worth)
  BY DEF Distinct
<1>3. \A i \in I : ~Tagged(p, hits[i])
  OBVIOUS
<1>4. ASSUME NEW c \in ToSet(hits), ~Tagged(p, c) PROVE I # {}
  <2> DEFINE J == {i \in DOMAIN hits : ~Tagged(p, hits[i])}
  <2>1. DOMAIN hits = 1 .. Len(hits) /\ Len(hits) \in Nat
    BY LenProperties
  <2>2. J \in SUBSET Nat /\ J # {}
    BY <1>4, <2>1, SetOfASeq
  <2>3. PICK i \in J : \A j \in J : i <= j
    <3> HIDE DEF J
    <3> QED
      BY <2>2, LeastNumber
  <2>4. ASSUME NEW j \in 1 .. i - 1, Same(hits[i], hits[j]) PROVE FALSE
    <3>1. i \in 1 .. Len(hits) /\ j \in 1 .. Len(hits) /\ ~(i <= j)
      BY <2>1, <2>3
    <3>2. Tagged(p, hits[j]) = Tagged(p, hits[i])
      BY <2>4 DEF Same, Tagged, Of
    <3>3. j \in J
      BY <2>1, <2>3, <3>1, <3>2
    <3> QED
      BY <2>3, <3>1, <3>3
  <2>5. i \in I
    BY <2>3, <2>4
  <2> QED
    BY <2>5
<1> HIDE DEF I, worth, out
<1>5. out \in Seq(T) /\ \A c : c \in ToSet(out) <=> \E i \in I : hits[i] = c
  BY <1>1, <1>2, ArrangedList
<1>6. ToSet(out) \subseteq ToSet(hits) /\ \A c \in ToSet(out) : ~Tagged(p, c)
  BY <1>1, <1>3, <1>5, SetOfASeq
<1>7. I # {} => out # <<>>
  <2>1. I # {} => ToSet(out) # {}
    BY <1>5
  <2> QED
    BY <1>5, <2>1, SetOfASeq
<1> QED
  BY <1>4, <1>5, <1>6, <1>7 DEF out

-----------------------------------------------------------------------------
(* Nth and Found.                                                          *)
LEMMA NthType ==
  ASSUME NEW T, NEW hits \in Seq(T)
  PROVE  /\ \A i \in DOMAIN hits : Nth(hits, i) \in Nat
         /\ \A i \in DOMAIN hits : Found(hits, hits[i].doc) \in DOMAIN hits
         /\ hits # <<>> => 1 \in DOMAIN hits /\ Nth(hits, 1) = 0
<1>1. DOMAIN hits = 1 .. Len(hits) /\ Len(hits) \in Nat
  BY LenProperties
<1>2. \A i \in DOMAIN hits : Nth(hits, i) \in Nat
  <2> TAKE i \in DOMAIN hits
  <2> DEFINE U == {j \in 1 .. i - 1 : hits[j].doc = hits[i].doc}
  <2>1. i - 1 \in Int /\ 1 \in Int
    BY <1>1
  <2>2. IsFiniteSet(1 .. i - 1)
    BY <2>1, FS_Interval
  <2>3. U \in SUBSET (1 .. i - 1) /\ Nth(hits, i) = Cardinality(U)
    BY DEF Nth
  <2> HIDE DEF U
  <2>4. IsFiniteSet(U)
    BY <2>2, <2>3, FS_Subset
  <2> QED
    BY <2>3, <2>4, FS_CardinalityType
<1>3. \A i \in DOMAIN hits : {j \in 1 .. i - 1 : hits[j].doc = hits[i].doc} = {} => Nth(hits, i) = 0
  BY FS_EmptySet DEF Nth
<1>4. ASSUME NEW i \in DOMAIN hits PROVE Found(hits, hits[i].doc) \in DOMAIN hits
  <2> DEFINE J == {j \in DOMAIN hits : hits[j].doc = hits[i].doc}
  <2>1. J \in SUBSET Nat /\ J # {}
    BY <1>1
  <2>2. PICK m \in J : \A j \in J : m <= j
    <3> HIDE DEF J
    <3> QED
      BY <2>1, LeastNumber
  <2>3. \A j \in 1 .. m - 1 : hits[j].doc # hits[m].doc
    <3> SUFFICES ASSUME NEW j \in 1 .. m - 1, hits[j].doc = hits[m].doc PROVE FALSE
      OBVIOUS
    <3>1. m \in 1 .. Len(hits) /\ hits[m].doc = hits[i].doc
      BY <1>1, <2>2
    <3>2. j \in DOMAIN hits /\ ~(m <= j)
      BY <1>1, <3>1
    <3> QED
      BY <2>2, <3>1, <3>2
  <2>4. m \in DOMAIN hits /\ hits[m].doc = hits[i].doc /\ Nth(hits, m) = 0
    BY <1>3, <2>2, <2>3
  <2> QED
    BY <2>4 DEF Found
<1>5. hits # <<>> => 1 \in DOMAIN hits
  <2>1. hits # <<>> => Len(hits) # 0
    BY EmptySeq
  <2> QED
    BY <1>1, <2>1
<1>6. 1 \in DOMAIN hits => Nth(hits, 1) = 0
  BY <1>3
<1> QED
  BY <1>2, <1>4, <1>5, <1>6

LEMMA GroupedList ==
  ASSUME NEW T, NEW hits \in Seq(T), NEW I \in SUBSET DOMAIN hits
  PROVE  /\ Grouped(hits, I) \in Seq(T)
         /\ \A c : c \in ToSet(Grouped(hits, I)) <=> \E i \in I : hits[i] = c
<1> DEFINE worth == [i \in I |-> -Found(hits, hits[i].doc)]
<1>1. \A i \in I : Found(hits, hits[i].doc) \in Nat
  <2>1. DOMAIN hits \subseteq Nat
    BY LenProperties
  <2> QED
    BY <2>1, NthType
<1>2. worth \in [I -> Int]
  BY <1>1
<1>3. Grouped(hits, I) = Arranged(hits, worth)
  BY DEF Grouped
<1> HIDE DEF worth
<1>4. /\ Arranged(hits, worth) \in Seq(T)
      /\ \A c : c \in ToSet(Arranged(hits, worth)) <=> \E i \in I : hits[i] = c
  BY <1>2, ArrangedList
<1> QED
  BY <1>3, <1>4

(* What is picked was there, and something is.                             *)
LEMMA PickList ==
  ASSUME NEW p, Spoken(p), NEW T \in SUBSET Held(p), NEW hits \in Seq(T),
         NEW U, ToSet(hits) \subseteq U, NEW score \in [U -> Nat], NEW k \in Nat
  PROVE  /\ Pick(p, score, hits, k) \in Seq(T)
         /\ ToSet(Pick(p, score, hits, k)) \subseteq ToSet(hits)
         /\ hits # <<>> /\ k >= 1 => Pick(p, score, hits, k) # <<>>
<1> DEFINE part(d, n) == {i \in DOMAIN hits : hits[i].doc = d /\ Nth(hits, i) = n}
           rrf(I) == IF I = {} THEN 0 ELSE Rrf(p, score, hits[CHOOSE i \in I : TRUE])
           I == {i \in DOMAIN hits : Nth(hits, i) < PER_DOC_CAP}
           capped == Grouped(hits, I)
           worth == [i \in DOMAIN capped |-> rrf(part(capped[i].doc, 0)) + rrf(part(capped[i].doc, 1))]
           all == Arranged(capped, worth)
<1>1. \A i \in DOMAIN hits : Rrf(p, score, hits[i]) \in Int
  <2> TAKE i \in DOMAIN hits
  <2>1. hits[i] \in ToSet(hits) /\ hits[i] \in Held(p)
    BY SetOfASeq
  <2>2. score[hits[i]] \in Nat /\ Least(Of(p, hits[i]).title, 2) \in Nat
    BY <2>1, HeldText, LeastOf
  <2>3. (score[hits[i]] + 50) \div 100 \in Int
    BY <2>2
  <2> QED
    BY <2>2, <2>3 DEF Rrf
<1>2. \A J \in SUBSET DOMAIN hits : rrf(J) \in Int
  BY <1>1
<1>3. \A d, n : part(d, n) \in SUBSET DOMAIN hits
  OBVIOUS
<1>4. I \in SUBSET DOMAIN hits
  OBVIOUS
<1>5. hits # <<>> => I # {}
  BY NthType DEF PER_DOC_CAP
<1> HIDE DEF part, rrf, I
<1>6. capped \in Seq(T) /\ \A c : c \in ToSet(capped) <=> \E i \in I : hits[i] = c
  BY <1>4, GroupedList
<1>7. Pick(p, score, hits, k) = First(all, k)
  BY DEF Pick, part, rrf, I
<1> HIDE DEF capped
<1>8. worth \in [DOMAIN capped -> Int] /\ DOMAIN capped \in SUBSET DOMAIN capped
  BY <1>2, <1>3
<1> HIDE DEF worth
<1>9. all \in Seq(T) /\ \A c : c \in ToSet(all) <=> \E i \in DOMAIN capped : capped[i] = c
  <2>1. capped \in Seq(T)
    BY <1>6
  <2> QED
    BY <1>8, <2>1, ArrangedList
<1>10. \A c : c \in ToSet(all) <=> \E i \in I : hits[i] = c
  BY <1>6, <1>9, SetOfASeq
<1> HIDE DEF all
<1>11. First(all, k) \in Seq(T) /\ ToSet(First(all, k)) \subseteq ToSet(all)
  BY <1>9, FirstOfASeq
<1>12. ToSet(all) \subseteq ToSet(hits)
  BY <1>4, <1>10, SetOfASeq
<1>13. ASSUME hits # <<>>, k >= 1 PROVE First(all, k) # <<>>
  <2>1. all # <<>>
    <3>1. ToSet(all) # {}
      BY <1>5, <1>10, <1>13
    <3> QED
      BY <1>9, <3>1, SetOfASeq
  <2>2. Len(all) \in Nat /\ Len(all) # 0
    BY <1>9, <2>1, LenProperties, EmptySeq
  <2>3. Len(First(all, k)) = Least(k, Len(all))
    BY <1>9, FirstOfASeq
  <2>4. Len(First(all, k)) # 0
    <3>1. Least(k, Len(all)) \in {k, Len(all)}
      BY <2>2, LeastOf
    <3> QED
      BY <1>13, <2>2, <2>3, <3>1
  <2> QED
    BY <2>4, EmptySeq
<1> QED
  BY <1>7, <1>11, <1>12, <1>13

(* The evidence was in the lists and is not tagged; and there is some if   *)
(* an untagged passage is in the keyword list, and the tagged ones cannot  *)
(* fill the pool.                                                          *)
LEMMA EvidenceList ==
  ASSUME NEW p, Spoken(p), NEW T \in SUBSET Held(p), IsFiniteSet(T), NEW k \in Nat,
         NEW vec \in Seq(T), NEW kw \in Seq(T), NoTwice(vec), NoTwice(kw)
  PROVE  /\ Evidence(p, vec, kw, k) \in Seq(T)
         /\ \A c \in ToSet(Evidence(p, vec, kw, k)) : ~Tagged(p, c)
         /\ /\ \E c \in ToSet(kw) : ~Tagged(p, c)
            /\ Cardinality({c \in T : Tagged(p, c)}) < k * POOL_MULTIPLIER
            => Evidence(p, vec, kw, k) # <<>>
<1> DEFINE near  == ByFreshness(p, vec)
           fused == Fuse(near, kw, k * POOL_MULTIPLIER)
           hits  == Distinct(p, fused)
           score == Scores(near, kw)
           U     == ToSet(near) \cup ToSet(kw)
           tagged == {c \in T : Tagged(p, c)}
<1>1. POOL_MULTIPLIER \in Nat /\ k * POOL_MULTIPLIER \in Nat
  BY RetrievalAssumption
<1>2. near \in Seq(T) /\ NoTwice(near)
  BY FreshList
<1> HIDE DEF near
<1>3. /\ fused \in Seq(T) /\ NoTwice(fused) /\ ToSet(fused) \subseteq U
      /\ Len(fused) = k * POOL_MULTIPLIER \/ ToSet(fused) = U
  BY <1>1, <1>2, FuseList
<1> HIDE DEF fused
<1>4. /\ hits \in Seq(T) /\ ToSet(hits) \subseteq ToSet(fused)
      /\ \A c \in ToSet(hits) : ~Tagged(p, c)
      /\ (\E c \in ToSet(fused) : ~Tagged(p, c)) => hits # <<>>
  BY <1>3, DistinctList
<1> HIDE DEF hits
<1>5. score \in [U -> Nat]
  BY <1>2, ScoresType
<1> HIDE DEF score, U
<1>6. /\ Pick(p, score, hits, k) \in Seq(T)
      /\ ToSet(Pick(p, score, hits, k)) \subseteq ToSet(hits)
      /\ hits # <<>> /\ k >= 1 => Pick(p, score, hits, k) # <<>>
  BY <1>3, <1>4, <1>5, PickList
<1>7. Evidence(p, vec, kw, k) = Pick(p, score, hits, k)
  BY DEF Evidence, near, fused, hits, score
<1>8. ASSUME \E c \in ToSet(kw) : ~Tagged(p, c), Cardinality(tagged) < k * POOL_MULTIPLIER
      PROVE  Pick(p, score, hits, k) # <<>>
  <2>1. tagged \in SUBSET T
    OBVIOUS
  <2>2. IsFiniteSet(tagged) /\ Cardinality(tagged) \in Nat
    <3> HIDE DEF tagged
    <3> QED
      BY <2>1, FS_Subset, FS_CardinalityType
  <2>3. k >= 1
    <3>1. k = 0 => k * POOL_MULTIPLIER = 0
      BY <1>1
    <3> QED
      BY <1>1, <1>8, <2>2, <3>1
  <2>4. \E c \in ToSet(fused) : ~Tagged(p, c)
    <3>1. CASE ToSet(fused) = U
      BY <1>8, <3>1 DEF U
    <3>2. CASE Len(fused) = k * POOL_MULTIPLIER
      <4>1. PICK c \in ToSet(fused) : c \notin tagged
        <5> HIDE DEF tagged
        <5> QED
          BY <1>3, <1>8, <2>2, <3>2, OneIsLeftOver
      <4> QED
        BY <1>3, <4>1, SetOfASeq
    <3> QED
      BY <1>3, <3>1, <3>2
  <2> QED
    BY <1>4, <1>6, <2>3, <2>4
<1> QED
  BY <1>4, <1>6, <1>7, <1>8

-----------------------------------------------------------------------------
(* The inductive invariant.                                                *)
OneVersion(points) == \A a, b \in points : a.doc = b.doc => a.ver = b.ver

(* The ingest deletes what there is of a document before it stores it.     *)
StoreInv ==
  /\ Spoken(texts) /\ IsFiniteSet(DOMAIN texts) /\ DOMAIN texts \subseteq Nat \X Nat \X Nat
  /\ store \subseteq Held(texts) /\ IsFiniteSet(store) /\ OneVersion(store)
  /\ worker = Idle \/ worker \in [at : {"delete", "store"}, doc : Docs, ver : 1 .. 2]
  /\ worker.at = "store" => \A c \in store : c.doc # worker.doc

Search ==
  [at : {"count", "near", "all terms", "any term", "rank"}, kind : {"ask", "find"},
   wanted : Nat, count : Nat, near : Seq(Point), words : Seq(Point), deaf : BOOLEAN,
   there : SUBSET Point, seen : SUBSET Point]

(* What a keyword search owes: all it could find, or as much as it may.    *)
Heard(me) ==
  \/ Len(me.words) >= Words(me.kind)
  \/ {c \in me.there : Of(texts, c).words >= me.wanted} \subseteq ToSet(me.words)

SearchInv(r) ==
  Searching(r) =>
    LET me == reader[r]
    IN /\ me \in Search /\ me.wanted >= 1
       /\ me.there \subseteq store /\ store \subseteq me.seen
       /\ me.seen \subseteq Held(texts) /\ IsFiniteSet(me.seen)
       /\ me.near \in Seq(me.seen) /\ NoTwice(me.near)
       /\ me.words \in Seq(me.seen) /\ NoTwice(me.words)
       /\ me.at \in {"any term", "rank"} /\ ~me.deaf => Heard(me)

Briefing == [at : {"section", "locks again", "notify", "insert"}, kind : {"brief"}, i : Nat,
             lines : SUBSET String]

BriefInv(r) ==
  reader[r].at \in {"section", "locks again", "notify", "insert"} => reader[r] \in Briefing

Tags(me) == {c \in me.seen : Passage(c).tagged}

(* What there was to find is in the keyword list, or behind more tagged    *)
(* points than it holds.                                                   *)
FoundInv(me) ==
  /\ ~me.deaf
  /\ \E c \in me.there : ~Passage(c).tagged /\ Passage(c).words >= me.wanted
  /\ Cardinality(Tags(me)) < Least(Pool(me.kind), Words(me.kind))
  => me.hits # <<>>

ReplyInv(r) ==
  LET me == reader[r]
  IN Answered(r) =>
       /\ ToSet(me.hits) \subseteq me.seen /\ OneVersion(me.there)
       /\ FoundInv(me)

Mine(r) == SearchInv(r) /\ BriefInv(r) /\ ReplyInv(r)
ReadInv == StoreInv /\ DOMAIN reader = Readers /\ \A r \in Readers : Mine(r)

LEMMA Bounds ==
  ASSUME NEW kind
  PROVE  /\ Wanted(kind) \in Nat /\ Pool(kind) \in Nat /\ Words(kind) \in Nat
         /\ Pool(kind) = Wanted(kind) * POOL_MULTIPLIER
<1>1. K \in Nat /\ POOL_MULTIPLIER \in Nat /\ KEYWORD_MULTIPLIER \in Nat
  BY ReadingAssumption, RetrievalAssumption
<1>2. Wanted(kind) \in Nat
  BY <1>1 DEF Wanted
<1> QED
  BY <1>1, <1>2 DEF Pool, Words

(* What a reader does is seen by that reader only.                         *)
LEMMA OneReaderMoves ==
  ASSUME ReadInv, NEW r \in Readers, NEW me, Become(r, me), Quiet, Mine(r)'
  PROVE  ReadInv'
<1>1. UNCHANGED <<texts, store, worker>> /\ reader' = [reader EXCEPT ![r] = me]
  BY DEF Quiet, Become
<1>2. StoreInv'
  BY <1>1 DEF ReadInv, StoreInv, Docs
<1>3. DOMAIN reader' = Readers
  BY <1>1 DEF ReadInv
<1>4. ASSUME NEW q \in Readers, q # r PROVE Mine(q)'
  <2>1. reader'[q] = reader[q]
    BY <1>1, <1>4 DEF ReadInv
  <2>2. SearchInv(q)' /\ BriefInv(q)'
    BY <1>1, <2>1 DEF ReadInv, Mine, SearchInv, BriefInv, Searching, Heard
  <2>3. ReplyInv(q)'
    BY <1>1, <2>1 DEF ReadInv, Mine, ReplyInv, Answered, FoundInv, Passage, Tags
  <2> QED
    BY <2>2, <2>3 DEF Mine
<1> QED
  BY <1>2, <1>3, <1>4 DEF ReadInv

LEMMA Becomes ==
  ASSUME ReadInv, NEW r \in Readers, NEW me, Become(r, me)
  PROVE  reader'[r] = me
BY DEF ReadInv, Become

(* The steps of a search keep what it has; a step has its list to add.     *)
LEMMA SearchGoesOn ==
  ASSUME ReadInv, NEW r \in Readers, NEW me, Become(r, me), Quiet, me \in Search, me.wanted >= 1,
         me.there \subseteq store, store \subseteq me.seen,
         me.seen \subseteq Held(texts), IsFiniteSet(me.seen),
         me.near \in Seq(me.seen), NoTwice(me.near),
         me.words \in Seq(me.seen), NoTwice(me.words),
         me.at \in {"any term", "rank"} /\ ~me.deaf => Heard(me)
  PROVE  ReadInv'
<1>1. reader'[r] = me /\ UNCHANGED <<texts, store>>
  BY Becomes DEF Quiet
<1>2. me.at \in {"count", "near", "all terms", "any term", "rank"}
  BY DEF Search
<1>3. SearchInv(r)'
  BY <1>1 DEF SearchInv, Heard
<1>4. BriefInv(r)' /\ ReplyInv(r)'
  BY <1>1, <1>2 DEF BriefInv, ReplyInv, Answered
<1> QED
  BY <1>3, <1>4, OneReaderMoves DEF Mine

LEMMA SearchFacts ==
  ASSUME ReadInv, NEW r \in Readers, Searching(r)
  PROVE  /\ reader[r] \in Search /\ reader[r].wanted >= 1
         /\ reader[r].there \subseteq store /\ store \subseteq reader[r].seen
         /\ reader[r].seen \subseteq Held(texts) /\ IsFiniteSet(reader[r].seen)
         /\ reader[r].near \in Seq(reader[r].seen) /\ NoTwice(reader[r].near)
         /\ reader[r].words \in Seq(reader[r].seen) /\ NoTwice(reader[r].words)
         /\ reader[r].at \in {"any term", "rank"} /\ ~reader[r].deaf => Heard(reader[r])
BY DEF ReadInv, Mine, SearchInv

LEMMA TypedList ==
  ASSUME ReadInv, NEW T \in SUBSET Held(texts), NEW s \in Seq(store), store \subseteq T
  PROVE  s \in Seq(T) /\ s \in Seq(Point)
<1>1. store \subseteq Point
  BY DEF ReadInv, StoreInv, Held
<1> QED
  BY <1>1, SeqMonotonic

LEMMA NoHits == \A T : <<>> \in Seq(T) /\ NoTwice(<<>>)
<1>1. \A T : <<>> \in Seq(T)
  BY EmptySeq
<1>2. NoTwice(<<>>)
  BY DEF NoTwice
<1> QED
  BY <1>1, <1>2

LEMMA BeginStep ==
  ASSUME ReadInv, NEW r \in Readers, NEW kind \in {"ask", "find"}, Begin(r, kind)
  PROVE  ReadInv'
<1>1. PICK wanted \in {Terms, Phrase} :
        Become(r, [at |-> "count", kind |-> kind, wanted |-> wanted, count |-> 0,
                   near |-> <<>>, words |-> <<>>, deaf |-> FALSE, there |-> store, seen |-> store])
  BY DEF Begin
<1> DEFINE me == [at |-> "count", kind |-> kind, wanted |-> wanted, count |-> 0,
                  near |-> <<>>, words |-> <<>>, deaf |-> FALSE, there |-> store, seen |-> store]
<1>2. wanted \in Nat /\ wanted >= 1
  BY RetrievalAssumption DEF Phrase
<1>3. store \subseteq Held(texts) /\ IsFiniteSet(store) /\ store \in SUBSET Point
  BY DEF ReadInv, StoreInv, Held
<1>4. me \in Search
  BY <1>2, <1>3, NoHits DEF Search
<1>5. /\ Become(r, me) /\ Quiet /\ me.wanted = wanted /\ me.there = store /\ me.seen = store
      /\ me.near = <<>> /\ me.words = <<>> /\ me.at = "count"
  BY <1>1 DEF Begin
<1> HIDE DEF me
<1> QED
  BY <1>2, <1>3, <1>4, <1>5, NoHits, SearchGoesOn

LEMMA CountPointsStep ==
  ASSUME ReadInv, NEW r \in Readers, CountPoints(r)
  PROVE  ReadInv'
<1> DEFINE me   == reader[r]
           next == [me EXCEPT !.at = "near", !.count = Cardinality(store)]
<1>1. Searching(r) /\ Become(r, next) /\ Quiet
  BY DEF CountPoints, Searching
<1>2. Cardinality(store) \in Nat
  BY FS_CardinalityType DEF ReadInv, StoreInv
<1>3. me \in Search
  BY <1>1, SearchFacts
<1>4. /\ next \in Search /\ next.at = "near" /\ next.wanted = me.wanted
      /\ next.there = me.there /\ next.seen = me.seen
      /\ next.near = me.near /\ next.words = me.words
  BY <1>2, <1>3 DEF Search
<1> HIDE DEF next
<1> QED
  BY <1>1, <1>4, SearchFacts, SearchGoesOn

LEMMA SearchByVectorStep ==
  ASSUME ReadInv, NEW r \in Readers, SearchByVector(r)
  PROVE  ReadInv'
<1> DEFINE me   == reader[r]
           hits == Nearest(texts, store, Pool(me.kind), me.count)
           next == [me EXCEPT !.at = "all terms", !.count = 0, !.near = hits]
<1>1. Searching(r) /\ Become(r, next) /\ Quiet
  BY DEF SearchByVector, Searching
<1>2. me \in Search /\ me.count \in Nat
  BY <1>1, SearchFacts DEF Search
<1>3. hits \in Seq(store) /\ NoTwice(hits)
  BY <1>2, NearestList, Bounds DEF ReadInv, StoreInv
<1>4. hits \in Seq(me.seen) /\ hits \in Seq(Point)
  BY <1>1, <1>3, SearchFacts, TypedList
<1> HIDE DEF hits
<1>5. /\ next \in Search /\ next.at = "all terms" /\ next.wanted = me.wanted
      /\ next.there = me.there /\ next.seen = me.seen
      /\ next.near = hits /\ next.words = me.words
  BY <1>2, <1>4 DEF Search
<1> HIDE DEF next
<1> QED
  BY <1>1, <1>3, <1>4, <1>5, SearchFacts, SearchGoesOn

(* A list that is not full has all that the search looks for.              *)
LEMMA WordsList ==
  ASSUME ReadInv, NEW r \in Readers, Searching(r), NEW terms \in Nat,
         NEW hits, hits = Matching(texts, store, terms, Words(reader[r].kind))
  PROVE  /\ hits \in Seq(reader[r].seen) /\ hits \in Seq(Point) /\ NoTwice(hits)
         /\ \/ Len(hits) >= Words(reader[r].kind)
            \/ {c \in store : Of(texts, c).words >= terms} \subseteq ToSet(hits)
<1>1. /\ hits \in Seq(store) /\ NoTwice(hits)
      /\ Len(hits) < Words(reader[r].kind) =>
           {c \in store : Of(texts, c).words >= terms} \subseteq ToSet(hits)
  BY MatchingList, Bounds DEF ReadInv, StoreInv
<1>2. hits \in Seq(reader[r].seen) /\ hits \in Seq(Point)
  BY <1>1, SearchFacts, TypedList
<1>3. Len(hits) \in Nat /\ Words(reader[r].kind) \in Nat
  BY <1>1, LenProperties, Bounds
<1> QED
  BY <1>1, <1>2, <1>3

LEMMA SearchAllTermsStep ==
  ASSUME ReadInv, NEW r \in Readers, SearchAllTerms(r)
  PROVE  ReadInv'
<1> DEFINE me    == reader[r]
           hits  == Matching(texts, store, me.wanted, Words(me.kind))
           where == IF Len(hits) < Words(me.kind) /\ Terms > 1 THEN "any term" ELSE "rank"
           next  == [me EXCEPT !.words = hits, !.at = where]
<1>1. Searching(r) /\ Become(r, next) /\ Quiet
  BY DEF SearchAllTerms, Searching
<1>2. me \in Search /\ me.wanted \in Nat /\ me.there \subseteq store
  BY <1>1, SearchFacts DEF Search
<1>3. /\ hits \in Seq(me.seen) /\ hits \in Seq(Point) /\ NoTwice(hits)
      /\ \/ Len(hits) >= Words(me.kind)
         \/ {c \in store : Of(texts, c).words >= me.wanted} \subseteq ToSet(hits)
  BY <1>1, <1>2, WordsList
<1>4. where \in {"any term", "rank"}
  OBVIOUS
<1> HIDE DEF hits, where
<1>5. /\ next \in Search /\ next.at = where /\ next.wanted = me.wanted /\ next.kind = me.kind
      /\ next.there = me.there /\ next.seen = me.seen
      /\ next.near = me.near /\ next.words = hits
  BY <1>2, <1>3, <1>4 DEF Search
<1> HIDE DEF next
<1>6. Heard(next)
  BY <1>2, <1>3, <1>5 DEF Heard
<1> QED
  BY <1>1, <1>3, <1>5, <1>6, SearchFacts, SearchGoesOn

LEMMA SearchAnyTermStep ==
  ASSUME ReadInv, NEW r \in Readers, SearchAnyTerm(r)
  PROVE  ReadInv'
<1> DEFINE me    == reader[r]
           hits  == Matching(texts, store, 1, Words(me.kind))
           words == IF Len(hits) > Len(me.words) THEN hits ELSE me.words
           next  == [me EXCEPT !.at = "rank", !.words = words]
<1>1. Searching(r) /\ Become(r, next) /\ Quiet /\ me.at = "any term"
  BY DEF SearchAnyTerm, Searching
<1>2. /\ me \in Search /\ me.wanted \in Nat /\ me.wanted >= 1 /\ me.there \subseteq store
      /\ me.words \in Seq(me.seen) /\ NoTwice(me.words) /\ me.words \in Seq(Point)
      /\ me.seen \subseteq Held(texts) /\ store \subseteq me.seen
  BY <1>1, SearchFacts DEF Search
<1>3. /\ hits \in Seq(me.seen) /\ hits \in Seq(Point) /\ NoTwice(hits)
      /\ \/ Len(hits) >= Words(me.kind)
         \/ {c \in store : Of(texts, c).words >= 1} \subseteq ToSet(hits)
  BY <1>1, WordsList
<1>4. {c \in me.there : Of(texts, c).words >= me.wanted} \subseteq
      {c \in store : Of(texts, c).words >= 1}
  <2>1. \A c \in store : Of(texts, c).words \in Nat
    BY HeldText DEF ReadInv, StoreInv
  <2> QED
    BY <1>2, <2>1
<1> HIDE DEF hits
<1>5. words \in Seq(me.seen) /\ words \in Seq(Point) /\ NoTwice(words)
  BY <1>2, <1>3
<1>6. words = hits \/ words = me.words
  OBVIOUS
<1> HIDE DEF words
<1>7. /\ next \in Search /\ next.at = "rank" /\ next.wanted = me.wanted /\ next.kind = me.kind
      /\ next.there = me.there /\ next.seen = me.seen /\ next.deaf = me.deaf
      /\ next.near = me.near /\ next.words = words
  BY <1>2, <1>5 DEF Search
<1> HIDE DEF next
<1>8. ~next.deaf => Heard(next)
  <2>1. ~me.deaf => Heard(me)
    BY <1>1, SearchFacts
  <2>2. CASE words = me.words
    BY <1>7, <2>1, <2>2 DEF Heard
  <2>3. CASE words = hits
    BY <1>3, <1>4, <1>7, <2>3 DEF Heard
  <2> QED
    BY <1>6, <2>2, <2>3
<1> QED
  BY <1>1, <1>5, <1>7, <1>8, SearchFacts, SearchGoesOn

LEMMA SearchFailsStep ==
  ASSUME ReadInv, NEW r \in Readers, SearchFails(r)
  PROVE  ReadInv'
<1> DEFINE me   == reader[r]
           next == [me EXCEPT !.at = "rank", !.deaf = TRUE]
<1>1. Searching(r) /\ Become(r, next) /\ Quiet
  BY DEF SearchFails, Searching
<1>2. me \in Search
  BY <1>1, SearchFacts
<1>3. /\ next \in Search /\ next.deaf /\ next.wanted = me.wanted
      /\ next.there = me.there /\ next.seen = me.seen
      /\ next.near = me.near /\ next.words = me.words
  BY <1>2 DEF Search
<1> HIDE DEF next
<1> QED
  BY <1>1, <1>3, SearchFacts, SearchGoesOn

(* What the tags do not fill: an untagged passage that was there all the   *)
(* while is in the keyword list, or one that was met is.                   *)
LEMMA SomethingWasFound ==
  ASSUME ReadInv, NEW r \in Readers, reader[r].at = "rank", ~reader[r].deaf,
         \E c \in reader[r].there : ~Passage(c).tagged /\ Passage(c).words >= reader[r].wanted,
         Cardinality(Tags(reader[r])) < Least(Pool(reader[r].kind), Words(reader[r].kind))
  PROVE  Ranked(reader[r]) # <<>>
<1> DEFINE me == reader[r]
           p  == texts
<1>1. /\ me.seen \in SUBSET Held(p) /\ IsFiniteSet(me.seen) /\ me.there \subseteq me.seen
      /\ me.near \in Seq(me.seen) /\ NoTwice(me.near)
      /\ me.words \in Seq(me.seen) /\ NoTwice(me.words) /\ Heard(me)
  BY SearchFacts DEF Searching
<1>2. \A c : Passage(c).tagged = Tagged(p, c) /\ Passage(c).words = Of(p, c).words
  BY DEF Passage, Tagged, Of
<1>3. Tags(me) = {c \in me.seen : Tagged(p, c)}
  BY DEF Tags, Passage, Tagged, Of
<1>4. /\ IsFiniteSet(Tags(me)) /\ Cardinality(Tags(me)) \in Nat
  <2>1. Tags(me) \in SUBSET me.seen
    BY DEF Tags
  <2> QED
    BY <1>1, <2>1, FS_Subset, FS_CardinalityType
<1>5. Cardinality(Tags(me)) < Pool(me.kind) /\ Cardinality(Tags(me)) < Words(me.kind)
  <2>1. Least(Pool(me.kind), Words(me.kind)) <= Pool(me.kind)
        /\ Least(Pool(me.kind), Words(me.kind)) <= Words(me.kind)
        /\ Pool(me.kind) \in Nat /\ Words(me.kind) \in Nat
        /\ Least(Pool(me.kind), Words(me.kind)) \in Nat
    BY Bounds, LeastOf
  <2> QED
    BY <1>4, <2>1
<1>6. \E c \in ToSet(me.words) : ~Tagged(p, c)
  <2>1. CASE Len(me.words) >= Words(me.kind)
    <3>1. Cardinality(Tags(me)) < Len(me.words)
      <4>1. Len(me.words) \in Nat /\ Words(me.kind) \in Nat
        BY <1>1, LenProperties, Bounds
      <4> QED
        BY <1>4, <1>5, <2>1, <4>1
    <3>2. PICK c \in ToSet(me.words) : c \notin Tags(me)
      BY <1>1, <1>4, <3>1, OneIsLeftOver
    <3>3. c \in me.seen
      BY <1>1, <3>2, SetOfASeq
    <3> QED
      BY <1>3, <3>2, <3>3
  <2>2. CASE {c \in me.there : Of(p, c).words >= me.wanted} \subseteq ToSet(me.words)
    BY <1>2, <2>2
  <2> QED
    BY <1>1, <2>1, <2>2 DEF Heard
<1>7. Ranked(me) = Evidence(p, me.near, me.words, Wanted(me.kind))
  BY DEF Ranked
<1>8. Spoken(p) /\ Wanted(me.kind) \in Nat /\ Pool(me.kind) = Wanted(me.kind) * POOL_MULTIPLIER
  BY Bounds DEF ReadInv, StoreInv
<1> QED
  BY <1>1, <1>3, <1>5, <1>6, <1>7, <1>8, EvidenceList

LEMMA AnswerStep ==
  ASSUME ReadInv, NEW r \in Readers, NEW surface \in Surface, Answer(r, surface)
  PROVE  ReadInv'
<1> DEFINE me    == reader[r]
           hits  == Ranked(me)
           shown == IF me.kind = "ask" THEN hits ELSE Documents(hits, K)
           out   == Outbound(surface, Texts(ToSet(shown)) \cup Names(ToSet(shown)))
           next  == [at |-> "replied", kind |-> me.kind, surface |-> surface, hits |-> hits,
                     out |-> out, deaf |-> me.deaf, wanted |-> me.wanted, there |-> me.there,
                     seen |-> me.seen]
<1>1. me.at = "rank" /\ Become(r, next) /\ Quiet
  BY DEF Answer
<1>2. /\ me.seen \in SUBSET Held(texts) /\ IsFiniteSet(me.seen) /\ me.there \subseteq store
      /\ me.near \in Seq(me.seen) /\ NoTwice(me.near)
      /\ me.words \in Seq(me.seen) /\ NoTwice(me.words)
  BY <1>1, SearchFacts DEF Searching
<1>3. hits \in Seq(me.seen)
  BY <1>2, EvidenceList, Bounds DEF Ranked, ReadInv, StoreInv
<1>4. OneVersion(me.there)
  BY <1>2 DEF ReadInv, StoreInv, OneVersion
<1>5. ToSet(hits) \subseteq me.seen
  BY <1>3, SetOfASeq
<1> HIDE DEF out, hits
<1>6. /\ next.at = "replied" /\ next.hits = hits
      /\ next.deaf = me.deaf /\ next.wanted = me.wanted /\ next.there = me.there
      /\ next.seen = me.seen /\ next.kind = me.kind
  OBVIOUS
<1> HIDE DEF next
<1>7. reader'[r] = next /\ texts' = texts
  BY <1>1, Becomes DEF Quiet
<1>8. SearchInv(r)' /\ BriefInv(r)'
  BY <1>6, <1>7 DEF SearchInv, Searching, BriefInv
<1>9. FoundInv(next)
  BY <1>1, <1>6, SomethingWasFound DEF FoundInv, Tags, hits
<1>10. ReplyInv(r)'
  BY <1>4, <1>5, <1>6, <1>7, <1>9 DEF ReplyInv, FoundInv, Passage, Tags
<1> QED
  BY <1>1, <1>8, <1>10, OneReaderMoves DEF Mine

(* A reader that is elsewhere owes nothing.                                *)
LEMMA Elsewhere ==
  ASSUME ReadInv, NEW r \in Readers, NEW me, Become(r, me), Quiet,
         \/ me.at \in {"idle", "stored", "lost"}
         \/ me \in Briefing
         \/ me.at = "replied" /\ me.kind = "today"
  PROVE  ReadInv'
<1>1. reader'[r] = me
  BY Becomes
<1>2. me \in Briefing => me.at \in {"section", "locks again", "notify", "insert"}
  BY DEF Briefing
<1>3. SearchInv(r)' /\ BriefInv(r)'
  BY <1>1, <1>2 DEF SearchInv, Searching, BriefInv
<1>4. ReplyInv(r)'
  BY <1>1, <1>2 DEF ReplyInv, Answered
<1> QED
  BY <1>3, <1>4, OneReaderMoves DEF Mine

LEMMA BriefingFacts ==
  ASSUME ReadInv, NEW r \in Readers, reader[r].at \in {"section", "locks again", "notify", "insert"}
  PROVE  reader[r] \in Briefing
BY DEF ReadInv, Mine, BriefInv

LEMMA Advances ==
  ASSUME NEW me \in Briefing, NEW strings \in SUBSET String
  PROVE  Advance(me, strings) \in Briefing
<1> DEFINE where == IF me.i = Len(Sections) THEN "notify" ELSE "section"
           i     == IF me.i = Len(Sections) THEN 1 ELSE me.i + 1
           lines == me.lines \cup strings
<1>1. where \in {"section", "notify"} /\ i \in Nat
  <2>1. me.i \in Nat
    BY DEF Briefing
  <2> QED
    BY <2>1
<1>2. lines \in SUBSET String
  BY DEF Briefing
<1>3. Advance(me, strings) = [me EXCEPT !.at = where, !.i = i, !.lines = lines]
  BY DEF Advance, Briefing
<1> HIDE DEF where, i, lines
<1> QED
  BY <1>1, <1>2, <1>3 DEF Briefing

(* What a section adds are strings, of passages that are stored.           *)
LEMMA StringsOfPoints ==
  ASSUME StoreInv, NEW points \in SUBSET store
  PROVE  /\ Cited(points) \in SUBSET String
         /\ Names(points) \cup {[string EXCEPT !.in = "text"] : string \in Names(points)}
              \in SUBSET String
<1>1. \A c \in points : Passage(c).risky \in BOOLEAN /\ Passage(c).riskyPath \in BOOLEAN
  <2> TAKE c \in points
  <2>1. c \in Held(texts) /\ Spoken(texts)
    BY DEF StoreInv
  <2>2. texts[<<c.doc, c.ver, c.idx>>] \in Text
    BY <2>1 DEF Held, Spoken
  <2> QED
    BY <2>2 DEF Passage, Text
<1>2. Texts(points) \subseteq String /\ Names(points) \subseteq String
  BY <1>1 DEF Names, Texts, String
<1>3. \A string \in String : [string EXCEPT !.in = "text"] \in String
  BY DEF String
<1> QED
  BY <1>2, <1>3 DEF Cited

LEMMA BriefSteps ==
  ASSUME ReadInv, NEW r \in Readers, BeginBrief(r) \/ briefing(r) \/ Dies(r)
  PROVE  ReadInv'
<1>1. CASE BeginBrief(r)
  <2> DEFINE me == [at |-> "section", kind |-> "brief", i |-> 1, lines |-> {}]
  <2>1. me \in Briefing
    BY DEF Briefing
  <2>2. Become(r, me) /\ Quiet
    BY <1>1 DEF BeginBrief
  <2> HIDE DEF me
  <2> QED
    BY <2>1, <2>2, Elsewhere
<1>2. CASE RunSection(r)
  <2>1. reader[r] \in Briefing /\ Quiet
    BY <1>2, BriefingFacts DEF RunSection
  <2>2. [reader[r] EXCEPT !.at = "locks again"] \in Briefing
    BY <2>1 DEF Briefing
  <2>3. GateLines \in SUBSET store /\ LockLines(locks.canonical) \in SUBSET store
    BY DEF GateLines, LockLines
  <2>4. \A points \in ChangedLines : points \in SUBSET store
    BY DEF ChangedLines
  <2>5. StoreInv /\ {} \in SUBSET String
    BY DEF ReadInv
  <2>6. \/ \E points \in ChangedLines :
             Become(r, Advance(reader[r], Names(points)
                      \cup {[string EXCEPT !.in = "text"] : string \in Names(points)}))
        \/ Become(r, Advance(reader[r], Cited(GateLines)))
        \/ Become(r, [reader[r] EXCEPT !.at = "locks again"])
        \/ Become(r, Advance(reader[r], Cited(LockLines(locks.canonical))))
        \/ Become(r, Advance(reader[r], {}))
    <3> DEFINE section == Sections[reader[r].i]
    <3>1. CASE section = "changed"
      BY <1>2, <3>1 DEF RunSection
    <3>2. CASE section = "gates"
      BY <1>2, <3>2 DEF RunSection
    <3>3. CASE section = "locks"
      BY <1>2, <3>3 DEF RunSection
    <3>4. CASE section \notin {"changed", "gates", "locks"}
      BY <1>2, <3>4 DEF RunSection
    <3> QED
      BY <3>1, <3>2, <3>3, <3>4
  <2>7. PICK me \in Briefing : Become(r, me)
    <3>1. \A points \in SUBSET store :
            /\ Advance(reader[r], Cited(points)) \in Briefing
            /\ Advance(reader[r], Names(points)
                 \cup {[string EXCEPT !.in = "text"] : string \in Names(points)}) \in Briefing
      BY <2>1, <2>5, StringsOfPoints, Advances
    <3>2. Advance(reader[r], {}) \in Briefing
      BY <2>1, <2>5, Advances
    <3> QED
      BY <2>2, <2>3, <2>4, <2>6, <3>1, <3>2
  <2> QED
    BY <2>1, <2>7, Elsewhere
<1>3. CASE LocksAgain(r)
  <2>1. reader[r] \in Briefing /\ Quiet
    BY <1>3, BriefingFacts DEF LocksAgain
  <2>2. StoreInv /\ LockLines(locks.named) \in SUBSET store
    BY DEF ReadInv, LockLines
  <2>3. Cited(LockLines(locks.named)) \in SUBSET String
    BY <2>2, StringsOfPoints
  <2>4. PICK me \in Briefing : Become(r, me)
    BY <1>3, <2>1, <2>3, Advances DEF LocksAgain
  <2> QED
    BY <2>1, <2>4, Elsewhere
<1>4. CASE SectionFails(r)
  <2>1. reader[r] \in Briefing /\ Quiet /\ {} \in SUBSET String
    BY <1>4, BriefingFacts DEF SectionFails
  <2>2. PICK me \in Briefing : Become(r, me)
    BY <1>4, <2>1, Advances DEF SectionFails
  <2> QED
    BY <2>1, <2>2, Elsewhere
<1>5. CASE NotifyBrief(r)
  <2>1. reader[r] \in Briefing /\ Quiet
    BY <1>5, BriefingFacts DEF NotifyBrief
  <2>2. [reader[r] EXCEPT !.at = "insert"] \in Briefing
    BY <2>1 DEF Briefing
  <2>3. Become(r, [reader[r] EXCEPT !.at = "insert"])
    BY <1>5 DEF NotifyBrief
  <2> QED
    BY <2>1, <2>2, <2>3, Elsewhere
<1>6. CASE Insert(r)
  <2>1. Become(r, [at |-> "stored"]) /\ Quiet /\ [at |-> "stored"].at = "stored"
    BY <1>6 DEF Insert
  <2> QED
    BY <2>1, Elsewhere
<1>7. CASE LeaveBrief(r)
  <2>1. Become(r, Idle) /\ Quiet /\ Idle.at = "idle"
    BY <1>7 DEF LeaveBrief, Idle
  <2> QED
    BY <2>1, Elsewhere
<1>8. CASE Dies(r)
  <2>1. Become(r, [at |-> "lost"]) /\ Quiet /\ [at |-> "lost"].at = "lost"
    BY <1>8 DEF Dies
  <2> QED
    BY <2>1, Elsewhere
<1> QED
  BY <1>1, <1>2, <1>3, <1>4, <1>5, <1>6, <1>7, <1>8 DEF briefing

LEMMA CloseStep ==
  ASSUME ReadInv, NEW r \in Readers, Close(r) PROVE ReadInv'
<1>1. Become(r, Idle) /\ Quiet /\ Idle.at = "idle"
  BY DEF Close, Idle
<1> QED
  BY <1>1, Elsewhere

LEMMA TodayStep ==
  ASSUME ReadInv, NEW r \in Readers, NEW surface \in Surface, Today(r, surface)
  PROVE  ReadInv'
<1> DEFINE me == [at |-> "replied", kind |-> "today", surface |-> surface,
                  out |-> Outbound(surface, brief[1])]
<1>1. Become(r, me) /\ Quiet
  BY DEF Today
<1>2. me.at = "replied" /\ me.kind = "today"
  OBVIOUS
<1> HIDE DEF me
<1> QED
  BY <1>1, <1>2, Elsewhere
-----------------------------------------------------------------------------
(* The ingest.                                                             *)
LEMMA ImageIsFinite ==
  ASSUME NEW S, IsFiniteSet(S), NEW f, DOMAIN f = S
  PROVE  IsFiniteSet({f[x] : x \in S})
<1> DEFINE g == [x \in S |-> f[x]]
<1>1. g \in Surjection(S, {f[x] : x \in S})
  BY DEF Surjection
<1> QED
  BY <1>1, FS_Surjection

LEMMA PointsAreHeld ==
  ASSUME StoreInv, NEW d, NEW v
  PROVE  /\ PointsOf(texts, d, v) \subseteq Held(texts) /\ IsFiniteSet(PointsOf(texts, d, v))
         /\ \A c \in PointsOf(texts, d, v) : c.doc = d /\ c.ver = v
<1> DEFINE X == {y \in DOMAIN texts : y[1] = d /\ y[2] = v}
           Copies(x) == {[doc |-> d, ver |-> v, idx |-> x[3], copy |-> n] : n \in 1 .. texts[x].copies}
           All == {Copies(x) : x \in X}
<1>1. PointsOf(texts, d, v) = UNION All
  BY DEF PointsOf
<1>2. \A x \in X : texts[x].copies \in Nat
  BY DEF StoreInv, Spoken, Text
<1>3. \A x \in X : Copies(x) \subseteq Held(texts) /\ \A c \in Copies(x) : c.doc = d /\ c.ver = v
  <2> TAKE x \in X
  <2>1. x \in Nat \X Nat \X Nat /\ x \in DOMAIN texts /\ x[1] = d /\ x[2] = v
    BY DEF StoreInv
  <2>2. x = <<d, v, x[3]>> /\ d \in Nat /\ v \in Nat /\ x[3] \in Nat
    BY <2>1
  <2>3. ASSUME NEW n \in 1 .. texts[x].copies
        PROVE  [doc |-> d, ver |-> v, idx |-> x[3], copy |-> n] \in Held(texts)
    <3>1. n \in Nat
      BY <1>2
    <3> QED
      BY <2>1, <2>2, <3>1 DEF Held, Point
  <2> QED
    BY <2>3
<1>4. IsFiniteSet(X)
  <2>1. X \in SUBSET DOMAIN texts
    OBVIOUS
  <2> HIDE DEF X
  <2> QED
    BY <2>1, FS_Subset DEF StoreInv
<1>5. \A x \in X : IsFiniteSet(Copies(x))
  <2> TAKE x \in X
  <2>1. IsFiniteSet(1 .. texts[x].copies)
    BY <1>2, FS_Interval
  <2> DEFINE f == [n \in 1 .. texts[x].copies |-> [doc |-> d, ver |-> v, idx |-> x[3], copy |-> n]]
  <2>2. Copies(x) = {f[n] : n \in 1 .. texts[x].copies} /\ DOMAIN f = 1 .. texts[x].copies
    OBVIOUS
  <2> HIDE DEF f, Copies
  <2> DEFINE N == 1 .. texts[x].copies
  <2>3. IsFiniteSet(N) /\ DOMAIN f = N /\ Copies(x) = {f[n] : n \in N}
    BY <2>1, <2>2
  <2> HIDE DEF N
  <2> QED
    BY <2>3, ImageIsFinite
<1> HIDE DEF X, Copies
<1>6. IsFiniteSet(All)
  <2> DEFINE f == [x \in X |-> Copies(x)]
  <2>1. All = {f[x] : x \in X} /\ DOMAIN f = X
    OBVIOUS
  <2> HIDE DEF f
  <2> QED
    BY <1>4, <2>1, ImageIsFinite
<1>7. \A C \in All : IsFiniteSet(C)
  BY <1>5
<1> HIDE DEF All
<1>8. IsFiniteSet(UNION All)
  BY <1>6, <1>7, FS_UNION
<1>9. \A c \in UNION All : c \in Held(texts) /\ c.doc = d /\ c.ver = v
  BY <1>3 DEF All
<1> QED
  BY <1>1, <1>8, <1>9

(* A change of the store takes from what a search has had there, and adds  *)
(* to what it may have met.                                                *)
LEMMA SearchesWitness ==
  ASSUME ReadInv, Witness, texts' = texts, StoreInv'
  PROVE  ReadInv'
<1>1. DOMAIN reader' = Readers
  BY DEF Witness
<1>2. ASSUME NEW r \in Readers, ~Searching(r) PROVE Mine(r)'
  <2>1. reader'[r] = reader[r]
    BY <1>2 DEF Witness
  <2>2. SearchInv(r)' /\ BriefInv(r)'
    BY <1>2, <2>1 DEF ReadInv, Mine, SearchInv, BriefInv, Searching
  <2>3. ReplyInv(r)'
    BY <2>1 DEF ReadInv, Mine, ReplyInv, Answered, FoundInv, Passage, Tags
  <2> QED
    BY <2>2, <2>3 DEF Mine
<1>3. ASSUME NEW r \in Readers, Searching(r) PROVE Mine(r)'
  <2> DEFINE me   == reader[r]
             next == [me EXCEPT !.there = @ \cap store', !.seen = @ \cup store']
  <2>1. reader'[r] = next
    BY <1>3 DEF Witness
  <2>2. /\ me \in Search /\ me.seen \subseteq Held(texts) /\ IsFiniteSet(me.seen)
        /\ me.near \in Seq(me.seen) /\ NoTwice(me.near)
        /\ me.words \in Seq(me.seen) /\ NoTwice(me.words) /\ me.wanted >= 1
        /\ me.at \in {"any term", "rank"} /\ ~me.deaf => Heard(me)
    BY <1>3, SearchFacts
  <2>3. store' \subseteq Held(texts) /\ IsFiniteSet(store') /\ store' \in SUBSET Point
    BY DEF StoreInv, Held
  <2>4. /\ next \in Search /\ next.at = me.at /\ next.kind = me.kind /\ next.wanted = me.wanted
        /\ next.near = me.near /\ next.words = me.words /\ next.deaf = me.deaf
        /\ next.there = me.there \cap store' /\ next.seen = me.seen \cup store'
    BY <2>2, <2>3 DEF Search
  <2> HIDE DEF next
  <2>5. IsFiniteSet(next.seen)
    <3>1. IsFiniteSet(me.seen \cup store')
      BY <2>2, <2>3, FS_Union
    <3> QED
      BY <2>4, <3>1
  <2>6. next.near \in Seq(next.seen) /\ next.words \in Seq(next.seen)
    BY <2>2, <2>4, SeqMonotonic
  <2>7. Heard(me) => Heard(next)
    BY <2>4 DEF Heard
  <2>8. SearchInv(r)'
    BY <2>1, <2>2, <2>3, <2>4, <2>5, <2>6, <2>7 DEF SearchInv, Heard
  <2>9. me.at \in {"count", "near", "all terms", "any term", "rank"}
    BY <2>2 DEF Search
  <2>10. BriefInv(r)' /\ ReplyInv(r)'
    BY <2>1, <2>4, <2>9 DEF BriefInv, ReplyInv, Answered
  <2> QED
    BY <2>8, <2>10 DEF Mine
<1> QED
  BY <1>1, <1>2, <1>3 DEF ReadInv

LEMMA IngestStep == ASSUME ReadInv, ingest PROVE ReadInv'
<1>1. CASE \E d \in Docs, v \in 1 .. 2 : TakeUp(d, v)
  <2>1. /\ UNCHANGED <<texts, store, reader>> /\ worker'.at = "delete"
        /\ worker' \in [at : {"delete", "store"}, doc : Docs, ver : 1 .. 2]
    BY <1>1 DEF TakeUp
  <2>2. StoreInv'
    BY <2>1 DEF ReadInv, StoreInv, Docs
  <2> QED
    BY <2>1, <2>2 DEF ReadInv, Mine, SearchInv, BriefInv, ReplyInv, Searching, Heard,
                Answered, FoundInv, Passage, Tags
<1>2. CASE Delete
  <2>1. /\ texts' = texts /\ store' = {c \in store : c.doc # worker.doc}
        /\ worker' = [worker EXCEPT !.at = "store"] /\ Witness
    BY <1>2 DEF Delete
  <2>2. StoreInv'
    <3>1. store' \in SUBSET store /\ IsFiniteSet(store')
      BY <2>1, FS_Subset DEF ReadInv, StoreInv
    <3>2. /\ worker \in [at : {"delete", "store"}, doc : Docs, ver : 1 .. 2]
          /\ worker' \in [at : {"delete", "store"}, doc : Docs, ver : 1 .. 2]
          /\ worker'.doc = worker.doc
      BY <1>2, <2>1 DEF ReadInv, StoreInv, Delete, Idle
    <3> QED
      BY <2>1, <3>1, <3>2 DEF ReadInv, StoreInv, OneVersion, Docs
  <2> QED
    BY <2>1, <2>2, SearchesWitness
<1>3. CASE Store
  <2> DEFINE new == PointsOf(texts, worker.doc, worker.ver)
  <2>1. texts' = texts /\ store' = store \cup new /\ worker' = Idle /\ Witness /\ worker.at = "store"
    BY <1>3 DEF Store
  <2>2. /\ new \subseteq Held(texts) /\ IsFiniteSet(new)
        /\ \A c \in new : c.doc = worker.doc /\ c.ver = worker.ver
    BY PointsAreHeld DEF ReadInv
  <2> HIDE DEF new
  <2>3. IsFiniteSet(store')
    BY <2>1, <2>2, FS_Union DEF ReadInv, StoreInv
  <2>4. OneVersion(store')
    BY <2>1, <2>2 DEF ReadInv, StoreInv, OneVersion
  <2>5. StoreInv'
    BY <2>1, <2>2, <2>3, <2>4 DEF ReadInv, StoreInv, Idle, Docs
  <2> QED
    BY <2>1, <2>5, SearchesWitness
<1>4. CASE IngestFails
  <2>1. UNCHANGED <<texts, store, reader>> /\ worker' = Idle /\ Idle.at = "idle"
    BY <1>4 DEF IngestFails, Idle
  <2>2. StoreInv'
    BY <2>1 DEF ReadInv, StoreInv
  <2> QED
    BY <2>1, <2>2 DEF ReadInv, Mine, SearchInv, BriefInv, ReplyInv, Searching, Heard,
                Answered, FoundInv, Passage, Tags
<1> QED
  BY <1>1, <1>2, <1>3, <1>4 DEF ingest

-----------------------------------------------------------------------------
LEMMA ReadingStarts == ReadingInit => ReadInv
<1> SUFFICES ASSUME ReadingInit PROVE ReadInv
  OBVIOUS
<1>1. PICK w \in Worlds : texts = w.texts /\ store \in {{}, w.store}
  BY DEF ReadingInit
<1>2. /\ IsFiniteSet(DOMAIN texts) /\ DOMAIN texts \subseteq Nat \X Nat \X Nat
      /\ texts \in [DOMAIN texts -> Text]
      /\ IsFiniteSet(w.store) /\ \A c \in w.store : c \in PointsOf(texts, c.doc, c.ver)
      /\ \A a, b \in w.store : a.doc = b.doc => a.ver = b.ver
  BY <1>1, WorldsAssumption
<1>3. worker = Idle /\ reader = [r \in Readers |-> Idle] /\ Idle.at = "idle"
  BY DEF ReadingInit, Idle
<1>4. IsFiniteSet(store) /\ OneVersion(store)
  BY <1>1, <1>2, FS_EmptySet DEF OneVersion
<1>5. store \subseteq Held(texts)
  <2> SUFFICES ASSUME NEW c \in store PROVE c \in Held(texts)
    OBVIOUS
  <2>1. c \in PointsOf(texts, c.doc, c.ver)
    BY <1>1, <1>2
  <2>2. PICK x \in DOMAIN texts : \E n \in 1 .. texts[x].copies :
          /\ x[1] = c.doc /\ x[2] = c.ver
          /\ c = [doc |-> c.doc, ver |-> c.ver, idx |-> x[3], copy |-> n]
    BY <2>1 DEF PointsOf
  <2>3. x \in Nat \X Nat \X Nat /\ texts[x].copies \in Nat
    BY <1>2 DEF Text
  <2>4. x = <<c.doc, c.ver, x[3]>> /\ c.doc \in Nat /\ c.ver \in Nat /\ x[3] \in Nat
    BY <2>2, <2>3
  <2>5. c \in Point /\ c.idx = x[3]
    BY <2>2, <2>3, <2>4 DEF Point
  <2> QED
    BY <2>2, <2>4, <2>5 DEF Held
<1>6. StoreInv
  BY <1>2, <1>3, <1>4, <1>5 DEF StoreInv, Spoken
<1>7. \A r \in Readers : Mine(r)
  BY <1>3 DEF Mine, SearchInv, Searching, BriefInv, ReplyInv, Answered
<1> QED
  BY <1>3, <1>6, <1>7 DEF ReadInv

LEMMA ReadingGoesOn == ReadInv /\ [ReadingNext]_readvars => ReadInv'
<1> SUFFICES ASSUME ReadInv, [ReadingNext]_readvars PROVE ReadInv'
  OBVIOUS
<1>1. CASE UNCHANGED readvars
  <2>1. UNCHANGED <<texts, store, worker, reader>>
    BY <1>1 DEF readvars
  <2>2. StoreInv'
    BY <2>1 DEF ReadInv, StoreInv, Docs
  <2> QED
    BY <2>1, <2>2 DEF ReadInv, Mine, SearchInv, BriefInv, ReplyInv, Searching, Heard,
                      Answered, FoundInv, Passage, Tags
<1>2. CASE ingest
  BY <1>2, IngestStep
<1>3. ASSUME NEW r \in Readers, asking(r) PROVE ReadInv'
  BY <1>3, CountPointsStep, SearchByVectorStep, SearchAllTermsStep, SearchAnyTermStep,
     SearchFailsStep, AnswerStep, CloseStep DEF asking
<1> QED
  BY <1>1, <1>2, <1>3, BeginStep, BriefSteps, TodayStep DEF ReadingNext

THEOREM ReadingInvariant == ReadingSpec => []ReadInv
BY ReadingStarts, ReadingGoesOn, PTL DEF ReadingSpec

(* A passage that is in the store all the while, is not tagged and is what *)
(* the first keyword search looks for is enough for the reading not to     *)
(* come up empty (the pools of retrieve).                                  *)
THEOREM ReadingFindsThePassage == ReadingSpec => []WordsFindTheirPassage
<1>1. ReadInv => WordsFindTheirPassage
  BY DEF ReadInv, Mine, ReplyInv, FoundInv, Tags, WordsFindTheirPassage
<1> QED
  BY <1>1, ReadingInvariant, PTL

(* Two versions of a document are in the evidence only if the document was *)
(* being replaced while the reading went on.                               *)
THEOREM ReadingMixesNothingOld == ReadingSpec => []OneVersionOfADocument
<1>1. ReadInv => OneVersionOfADocument
  <2> SUFFICES ASSUME ReadInv, NEW r \in Readers, Answered(r),
                      NEW a \in ToSet(reader[r].hits), NEW b \in ToSet(reader[r].hits),
                      a.doc = b.doc, a.ver # b.ver, MayHaveMet(r, a.doc) \subseteq reader[r].there
               PROVE  FALSE
    BY DEF OneVersionOfADocument
  <2>1. ToSet(reader[r].hits) \subseteq reader[r].seen /\ OneVersion(reader[r].there)
    BY DEF ReadInv, Mine, ReplyInv
  <2>2. a \in reader[r].there /\ b \in reader[r].there
    BY <2>1 DEF MayHaveMet
  <2> QED
    BY <2>1, <2>2 DEF OneVersion
<1> QED
  BY <1>1, ReadingInvariant, PTL
=============================================================================
