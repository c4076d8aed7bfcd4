----------------------------- MODULE DnsLookup -----------------------------
(***************************************************************************)
(* What parallel reverse DNS promises: every address that is looked up     *)
(* ends exactly once, with a name, with the server's word that there is    *)
(* none, handed to the system resolver or given up; and the number of      *)
(* lookups left, which decides when the loop stops, is always right.       *)
(***************************************************************************)
EXTENDS Naturals, FiniteSets

CONSTANTS Targets       \* the addresses of the batch

VARIABLES outcome,      \* how the lookup of each address ended, or "pending"
          left          \* number of lookups that have not ended

vars == <<outcome, left>>

\* How a lookup by the DNS servers may end.
Verdicts == {"name", "nx", "dropped", "deferred"}

\* How the system resolver may end a lookup that was deferred to it.
SystemVerdicts == {"name", "noname"}

Pending == {t \in Targets : outcome[t] = "pending"}

Init ==
    /\ outcome \in [Targets -> {"pending", "cached", "down"}]
    /\ left = Cardinality(Pending)

End(t, v) ==
    /\ outcome[t] = "pending"
    /\ outcome' = [outcome EXCEPT ![t] = v]
    /\ left' = left - 1

\* The system resolver is asked only when no server is.
EndDeferred(t, v) ==
    /\ outcome[t] = "deferred"
    /\ left = 0
    /\ outcome' = [outcome EXCEPT ![t] = v]
    /\ UNCHANGED left

Next ==
    \/ \E t \in Targets, v \in Verdicts : End(t, v)
    \/ \E t \in Targets, v \in SystemVerdicts : EndDeferred(t, v)

Spec == Init /\ [][Next]_vars
=============================================================================
