-------------------------------- MODULE Call --------------------------------
(***************************************************************************)
(* What the caller of a connector is promised, whatever the connector      *)
(* does: its requests are made one after the other, and each of them ends  *)
(* once, with the answer to itself or with a failure.                      *)
(***************************************************************************)
EXTENDS Naturals

CONSTANT Requests  \* how many there may be

VARIABLES
  call,   \* per request: how far it is
  answer  \* per request: the request its answer was made for, 0 if it has none

R == 1 .. Requests

Ended(n) == call[n] \in {"answered", "failed"}

Init ==
  /\ call = [n \in R |-> "unasked"]
  /\ answer = [n \in R |-> 0]

Ask(n) ==
  /\ call[n] = "unasked"
  /\ \A m \in 1 .. n - 1 : Ended(m)
  /\ call' = [call EXCEPT ![n] = "asked"]
  /\ UNCHANGED answer

Answer(n) ==
  /\ call[n] = "asked"
  /\ call' = [call EXCEPT ![n] = "answered"]
  /\ answer' = [answer EXCEPT ![n] = n]

Fail(n) ==
  /\ call[n] = "asked"
  /\ call' = [call EXCEPT ![n] = "failed"]
  /\ UNCHANGED answer

Next == \E n \in R : Ask(n) \/ Answer(n) \/ Fail(n)

Safe == Init /\ [][Next]_<<call, answer>>

Spec == Safe /\ \A n \in R : WF_<<call, answer>>(Answer(n) \/ Fail(n))
=============================================================================
