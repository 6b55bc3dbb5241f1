---------------------------- MODULE SerialSigner ----------------------------
(***************************************************************************)
(* What the signing queue promises its callers, with neither call stack    *)
(* nor awaits: one request at a time, in the order of submission, and the  *)
(* waiting ones can be cancelled together.                                 *)
(***************************************************************************)
EXTENDS Naturals, Sequences

CONSTANT Requests

VARIABLES
  order,   \* the requests, in the order of submission
  state    \* "none", "pending", "signing" or how the request ended

vars == <<order, state>>

Init == order = <<>> /\ state = [r \in Requests |-> "none"]

Submit(r) ==
  /\ state[r] = "none"
  /\ order' = Append(order, r)
  /\ state' = [state EXCEPT ![r] = "pending"]

(* The oldest waiting request is served when no other one is. *)
Serve(r) ==
  /\ \A q \in Requests : state[q] # "signing"
  /\ \E k \in 1..Len(order) :
       /\ order[k] = r
       /\ state[r] = "pending"
       /\ \A j \in 1..(k - 1) : state[order[j]] # "pending"
  /\ state' = [state EXCEPT ![r] = "signing"]
  /\ UNCHANGED order

End(r) ==
  /\ state[r] = "signing"
  /\ \E outcome \in {"signed", "stale", "failed"} :
       state' = [state EXCEPT ![r] = outcome]
  /\ UNCHANGED order

CancelWaiting ==
  /\ state' = [r \in Requests |-> IF state[r] = "pending" THEN "cancelled" ELSE state[r]]
  /\ UNCHANGED order

Next == CancelWaiting \/ \E r \in Requests : Submit(r) \/ Serve(r) \/ End(r)

Spec == Init /\ [][Next]_vars
=============================================================================
