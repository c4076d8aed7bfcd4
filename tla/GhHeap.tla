------------------------------- MODULE GhHeap -------------------------------
(***************************************************************************)
(* The binary heap of nsock (gh_heap.c) that orders the timeouts of its    *)
(* events.  A node knows its place (hnode->index), so that any event can   *)
(* be taken out when it ends before its timeout.                           *)
(***************************************************************************)
EXTENDS Integers, FiniteSets

CONSTANTS Nodes, GH_SLOTS,
          KeysOf            \* the timeouts that the event of a node may have

Keys == UNION {KeysOf[n] : n \in Nodes}

GhHeapAssumption ==
    IsFiniteSet(Nodes) /\ Keys \subseteq Nat /\ DOMAIN KeysOf = Nodes /\ GH_SLOTS \in Nat \ {0}

GH_HEAP_GUARD == -1         \* the index of a node that is in no heap
NoKey == -1

VARIABLES slots,            \* the nodes by index, from 0 up to the count
          index,            \* hnode->index
          key,              \* the timeout of the node's event, while it is in the heap
          highwm,           \* allocated slots
          popped            \* the node gh_heap_pop() has just returned

vars == <<slots, index, key, highwm, popped>>

Count == Cardinality(DOMAIN slots)
Held == {slots[i] : i \in DOMAIN slots}

Parent(i) == (i - 1) \div 2

\* A heap in the making: the slots and the indices of the nodes.
Place(h, i, n) == [slots |-> [h.slots EXCEPT ![i] = n], index |-> [h.index EXCEPT ![n] = i]]

\* hnode_up() moves n towards the root until its parent is less.  The nodes it passes take
\* one step down.  k are the keys; expirable_cmp() is strict.
hnode_up(h, n, k) ==
    LET up[i \in DOMAIN h.slots] ==
            IF i = 0 THEN Place(h, i, n)
            ELSE LET p == h.slots[Parent(i)] IN
                 IF k[p] < k[n] THEN Place(h, i, n) ELSE Place(up[Parent(i)], i, p)
    IN  up[h.index[n]]

hnode_down_First(h, n, k) ==
    LET count == Cardinality(DOMAIN h.slots)
        down[i \in DOMAIN h.slots] ==
            LET c == 2 * i + 1
            IN  IF c >= count THEN Place(h, i, n)
                ELSE IF k[n] < k[h.slots[c]] THEN Place(h, i, n)
                ELSE Place(down[c], i, h.slots[c])
    IN  down[h.index[n]]

\* hnode_down() moves n away from the root, each time to the place of the lesser child.
hnode_down(h, n, k) ==
    LET count == Cardinality(DOMAIN h.slots)
        down[i \in DOMAIN h.slots] ==
            LET c1 == 2 * i + 1
                c2 == c1 + 1
                c == IF c2 < count /\ k[h.slots[c2]] < k[h.slots[c1]] THEN c2 ELSE c1
            IN  IF c1 >= count THEN Place(h, i, n)
                ELSE IF k[n] < k[h.slots[c]] THEN Place(h, i, n)
                ELSE Place(down[c], i, h.slots[c])
    IN  down[h.index[n]]

-----------------------------------------------------------------------------

Init ==
    /\ slots = [i \in {} |-> i]
    /\ index = [n \in Nodes |-> GH_HEAP_GUARD] /\ key = [n \in Nodes |-> NoKey]
    /\ highwm = GH_SLOTS /\ popped = {}

\* event_new() invalidates the node of the struct it reuses, and nsock_pool_add_event()
\* pushes it.
gh_heap_push(n, k) ==
    LET count == Count
        grown == [slots |-> [i \in 0..count |-> IF i = count THEN n ELSE slots[i]],
                  index |-> [index EXCEPT ![n] = count]]
        keys == [key EXCEPT ![n] = k]
        h == hnode_up(grown, n, keys)
    IN  /\ n \notin Held
        /\ slots' = h.slots /\ index' = h.index /\ key' = keys /\ popped' = {}
        /\ highwm' = IF count = highwm THEN highwm + GH_SLOTS ELSE highwm

\* gh_heap_remove() puts the last node in the place of n and moves it up or else down.  A
\* node that was itself the last is not invalidated.
Removed(n) ==
    LET count == Count - 1
        last == slots[count]
        less == [slots |-> [i \in 0..(count - 1) |-> IF slots[i] = n THEN last ELSE slots[i]],
                 index |-> [index EXCEPT ![last] = index[n]]]
        up == hnode_up(less, last, key)
        moved == IF up.index[last] # index[n] THEN up ELSE hnode_down(less, last, key)
    IN  IF last = n THEN [slots |-> [i \in 0..(count - 1) |-> slots[i]], index |-> index]
        ELSE [moved EXCEPT !.index[n] = GH_HEAP_GUARD]

gh_heap_remove(n) ==
    /\ n \in Held
    /\ LET h == Removed(n) IN slots' = h.slots /\ index' = h.index
    /\ key' = [key EXCEPT ![n] = NoKey] /\ popped' = {}
    /\ UNCHANGED highwm

gh_heap_pop ==
    /\ Count > 0
    /\ LET h == Removed(slots[0]) IN slots' = h.slots /\ index' = h.index
    /\ key' = [key EXCEPT ![slots[0]] = NoKey] /\ popped' = {slots[0]}
    /\ UNCHANGED highwm

Next ==
    \/ \E n \in Nodes : \E k \in KeysOf[n] : gh_heap_push(n, k)
    \/ \E n \in Nodes : gh_heap_remove(n)
    \/ gh_heap_pop

Spec == Init /\ [][Next]_vars

-----------------------------------------------------------------------------

TypeOK ==
    /\ DOMAIN slots = 0..(Count - 1) /\ Held \subseteq Nodes
    /\ index \in [Nodes -> Nat \cup {GH_HEAP_GUARD}]
    /\ key \in [Nodes -> Keys \cup {NoKey}]
    /\ highwm \in Nat /\ Count <= highwm /\ popped \subseteq Nodes

\* Every node of the heap knows its place: gh_heap_remove() asserts that the slot a node
\* names holds it, after any sequence of pushes and removals from the middle.
IndexExact == \A i \in DOMAIN slots : index[slots[i]] = i

\* No node is before its parent, so that process_expired_events() may stop at the first
\* event that has not timed out.
HeapOrdered == \A i \in DOMAIN slots \ {0} : key[slots[Parent(i)]] <= key[slots[i]]

\* The heap implements a priority queue: it holds what was pushed and not taken out, and
\* pops a node of the least key.
Queue == INSTANCE PriorityQueue WITH held <- Held
ImplementsQueue == Queue!Spec

\* "set heap node index to this value to indicate that the node is inactive (not part of a
\* heap)" (GH_HEAP_GUARD in gh_heap.h).
RemovedAreInvalid == \A n \in Nodes \ Held : index[n] = GH_HEAP_GUARD
=============================================================================
