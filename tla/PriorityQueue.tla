--------------------------- MODULE PriorityQueue ---------------------------
(***************************************************************************)
(* What a heap of timeouts promises: it holds the nodes that were pushed   *)
(* and not taken out, with their keys, and gives a node of the least key.  *)
(***************************************************************************)
EXTENDS Integers

CONSTANTS Nodes, Keys

VARIABLES held,         \* the nodes in the queue
          key,          \* their keys
          popped        \* the node the last call took from the front, if it did

NoKey == -1

vars == <<held, key, popped>>

Init == held = {} /\ key = [n \in Nodes |-> NoKey] /\ popped = {}

Push(n, k) ==
    /\ n \notin held
    /\ held' = held \cup {n} /\ key' = [key EXCEPT ![n] = k] /\ popped' = {}

Remove(n) ==
    /\ n \in held
    /\ held' = held \ {n} /\ key' = [key EXCEPT ![n] = NoKey] /\ popped' = {}

Pop(n) ==
    /\ n \in held /\ \A m \in held : key[n] <= key[m]
    /\ held' = held \ {n} /\ key' = [key EXCEPT ![n] = NoKey] /\ popped' = {n}

Next ==
    \/ \E n \in Nodes, k \in Keys : Push(n, k)
    \/ \E n \in Nodes : Remove(n) \/ Pop(n)

Spec == Init /\ [][Next]_vars
=============================================================================
