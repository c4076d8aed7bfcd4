--------------------------- MODULE EventDelivery ---------------------------
(***************************************************************************)
(* What an event library promises its clients: an event that was requested *)
(* ends exactly once, by a call of its handler or silently because it was  *)
(* cancelled so, and the number of events that have not ended, which       *)
(* decides how long the loop runs, is always right.                        *)
(***************************************************************************)
EXTENDS Naturals, FiniteSets

CONSTANT Ids            \* the requests, in the order in which they are made

VARIABLES outcome,      \* what has become of each request
          pending       \* number of requests that have not ended

vars == <<outcome, pending>>

Verdicts == {"told", "silent"}

Init ==
    /\ outcome = [e \in Ids |-> "unused"]
    /\ pending = 0

Request(e) ==
    /\ outcome[e] = "unused"
    /\ outcome' = [outcome EXCEPT ![e] = "pending"]
    /\ pending' = pending + 1

\* The request fails while it is being made; its handler is called at once.
RequestFails(e) ==
    /\ outcome[e] = "unused"
    /\ outcome' = [outcome EXCEPT ![e] = "told"]
    /\ UNCHANGED pending

End(e, v) ==
    /\ outcome[e] = "pending"
    /\ outcome' = [outcome EXCEPT ![e] = v]
    /\ pending' = pending - 1

Next ==
    \/ \E e \in Ids : Request(e) \/ RequestFails(e)
    \/ \E e \in Ids, v \in Verdicts : End(e, v)

Spec == Init /\ [][Next]_vars
=============================================================================
