-------------------------- MODULE PortList_proofs ---------------------------
(***************************************************************************)
(* Theorems about PortList for any port map, any states set and any        *)
(* iteration asked for.                                                    *)
(***************************************************************************)
EXTENDS PortList, FiniteSetTheorems, SequenceTheorems, WellFoundedInduction, TLAPS

\* A set of numbers has a least one, and Min finds it.
LEMMA LeastExists ==
    ASSUME NEW S \in SUBSET Nat, S # {}
    PROVE  Min(S) \in S /\ \A n \in S : Min(S) <= n
  <1> DEFINE less == {ss \in Nat \X Nat : ss[1] < ss[2]}
  <1>1. IsWellFoundedOn(less, Nat)
    BY NatLessThanWellFounded DEF OpToRel
  <1>2. PICK m \in S : \A n \in S : ~(<<n, m>> \in less)
    <2> HIDE DEF less
    <2> QED BY <1>1, WFMin
  <1>3. \A n \in S : m <= n
    <2> TAKE n \in S
    <2>1. n \in Nat /\ m \in Nat
      OBVIOUS
    <2>2. ~(n < m)
      BY <1>2, <2>1
    <2> QED BY <2>1, <2>2
  <1> QED BY <1>3 DEF Min

-----------------------------------------------------------------------------
(* The counts of the states.                                                *)

At(p, u) == {i \in Slots(p) : StateAt(p, i) = u}

ListTyped ==
    /\ port_list = [p \in Protos |-> port_list[p]]
    /\ \A p \in Protos : port_list[p] \in [Slots(p) -> States \cup {NoPort}]
    /\ default_port_state \in [Protos -> States]
    /\ state_counts_proto \in [Protos -> [States -> Int]]

CountsInv == ListTyped /\ CountsExact

\* The slots of a protocol are finitely many numbers.
LEMMA SlotsFinite ==
    ASSUME NEW p \in Protos
    PROVE  /\ Len(PortMapRev[p]) \in Nat /\ Slots(p) \subseteq Nat \ {0} /\ IsFiniteSet(Slots(p))
           /\ Cardinality(Slots(p)) = Len(PortMapRev[p])
           /\ \A u : IsFiniteSet(At(p, u)) /\ Cardinality(At(p, u)) \in Nat
  <1>1. PortMapRev[p] \in Seq(PortNumbers)
    BY PortListAssumption
  <1>2. Len(PortMapRev[p]) \in Nat
    BY <1>1
  <1>3. IsFiniteSet(Slots(p)) /\ Cardinality(Slots(p)) = Len(PortMapRev[p])
    BY <1>2, FS_Interval, SMTT(30) DEF Slots
  <1>4. \A u : IsFiniteSet(At(p, u)) /\ Cardinality(At(p, u)) \in Nat
    <2> TAKE u
    <2>1. At(p, u) \in SUBSET Slots(p)
      BY DEF At
    <2>2. IsFiniteSet(At(p, u))
      BY <1>3, <2>1, FS_Subset
    <2> QED BY <2>2, FS_CardinalityType
  <1> QED BY <1>2, <1>3, <1>4 DEF Slots

\* The state of a slot is one of the states.
LEMMA StateAtType ==
    ASSUME ListTyped, NEW p \in Protos, NEW i \in Slots(p)
    PROVE  StateAt(p, i) \in States
  BY DEF ListTyped, StateAt

LEMMA InitCounts == Init => CountsInv
  <1> SUFFICES ASSUME Init PROVE CountsInv
    OBVIOUS
  <1>1. ListTyped
    BY SlotsFinite DEF Init, ListTyped, States, PORT_UNKNOWN, NoPort
  <1>2. CountsExact
    <2> SUFFICES ASSUME NEW p \in Protos, NEW st \in States
                 PROVE  state_counts_proto[p][st] = Cardinality(At(p, st))
      BY DEF CountsExact, At
    <2>1. \A i \in Slots(p) : StateAt(p, i) = PORT_UNKNOWN
      BY DEF Init, StateAt
    <2>2. CASE st = PORT_UNKNOWN
      <3>1. At(p, st) = Slots(p)
        BY <2>1, <2>2 DEF At
      <3> QED BY <3>1, <2>2, SlotsFinite DEF Init
    <2>3. CASE st # PORT_UNKNOWN
      <3>1. At(p, st) = {}
        BY <2>1, <2>3 DEF At
      <3> QED BY <3>1, <2>3, FS_EmptySet DEF Init
    <2> QED BY <2>2, <2>3
  <1> QED BY <1>1, <1>2 DEF CountsInv

\* The slots M of p, which all have state old, get state st.
MoveStep(p, M, old, st) ==
    /\ M \in SUBSET Slots(p) /\ old \in States /\ st \in States
    /\ \A i \in M : StateAt(p, i) = old
    /\ \A q \in Protos : \A j \in Slots(q) :
          StateAt(q, j)' = IF q = p /\ j \in M THEN st ELSE StateAt(q, j)
    /\ state_counts_proto' = [state_counts_proto EXCEPT ![p] = Moved(@, Cardinality(M), old, st)]

\* When slots move, the sets of slots with a state change as the counts do.
LEMMA MovedExact ==
    ASSUME CountsInv, ListTyped', NEW p \in Protos, NEW M, NEW old, NEW st, MoveStep(p, M, old, st)
    PROVE  CountsInv'
  <1> USE DEF MoveStep
  <1>1. ListTyped /\ CountsExact
    BY DEF CountsInv
  <1>2. IsFiniteSet(M) /\ Cardinality(M) \in Nat
    BY SlotsFinite, FS_Subset, FS_CardinalityType
  <1>3. CountsExact'
    <2> SUFFICES ASSUME NEW q \in Protos, NEW u \in States
                 PROVE  state_counts_proto'[q][u] = Cardinality(At(q, u)')
      BY DEF CountsExact, At, Slots
    <2>1. state_counts_proto[q][u] = Cardinality(At(q, u)) /\ state_counts_proto[q][u] \in Int
      BY <1>1 DEF CountsExact, At, ListTyped
    <2>2. CASE q # p
      <3>1. At(q, u)' = At(q, u)
        BY <2>2 DEF At, Slots
      <3>2. state_counts_proto'[q] = state_counts_proto[q]
        BY <2>2, <1>1 DEF ListTyped
      <3> QED BY <3>1, <3>2, <2>1
    <2>3. CASE q = p
      <3>1. state_counts_proto'[p][u] = state_counts_proto[p][u]
               - (IF u = old THEN Cardinality(M) ELSE 0) + (IF u = st THEN Cardinality(M) ELSE 0)
        BY <1>1 DEF ListTyped, Moved
      <3>2. /\ IsFiniteSet(At(p, u)) /\ Cardinality(At(p, u)) \in Nat
            /\ u = old => At(p, u) \cap M = M
            /\ u # old => At(p, u) \cap M = {}
        BY SlotsFinite DEF At
      <3>3. Cardinality(At(p, u) \cap M) = IF u = old THEN Cardinality(M) ELSE 0
        BY <3>2, FS_EmptySet
      <3>4. CASE u = st
        <4>1. At(p, u)' = At(p, u) \cup M
          BY <3>4 DEF At, Slots
        <4>2. Cardinality(At(p, u) \cup M) =
                 Cardinality(At(p, u)) + Cardinality(M) - Cardinality(At(p, u) \cap M)
          BY <1>2, <3>2, FS_Union
        <4> QED BY <1>2, <2>1, <2>3, <3>1, <3>2, <3>3, <3>4, <4>1, <4>2
      <3>5. CASE u # st
        <4>1. At(p, u)' = At(p, u) \ M
          BY <3>5 DEF At, Slots
        <4>2. Cardinality(At(p, u) \ M) = Cardinality(At(p, u)) - Cardinality(At(p, u) \cap M)
          BY <3>2, FS_Difference
        <4> QED BY <1>2, <2>1, <2>3, <3>1, <3>2, <3>3, <3>5, <4>1, <4>2
      <3> QED BY <3>4, <3>5
    <2> QED BY <2>2, <2>3
  <1> QED BY <1>3 DEF CountsInv

\* One slot gets a new entry, or loses it.
LEMMA OneMoves ==
    ASSUME CountsInv, NEW p \in Protos, NEW i \in Slots(p), NEW new \in States \cup {NoPort},
           NEW old, old = StateAt(p, i),
           NEW st, st = IF new = NoPort THEN default_port_state[p] ELSE new,
           port_list' = [port_list EXCEPT ![p][i] = new],
           default_port_state' = default_port_state,
           state_counts_proto' = [state_counts_proto EXCEPT ![p] = Moved(@, 1, old, st)]
    PROVE  CountsInv'
  <1> DEFINE M == {i}
  <1>1. ListTyped /\ old \in States /\ st \in States
    BY StateAtType DEF CountsInv, ListTyped
  <1>2. /\ port_list' = [q \in Protos |-> port_list'[q]]
        /\ \A q \in Protos : port_list'[q] \in [Slots(q) -> States \cup {NoPort}]
        /\ \A q \in Protos : \A j \in Slots(q) :
              port_list'[q][j] = IF q = p /\ j = i THEN new ELSE port_list[q][j]
    BY <1>1 DEF ListTyped
  <1>3. \A q \in Protos : \A j \in Slots(q) :
            StateAt(q, j)' = IF q = p /\ j \in M THEN st ELSE StateAt(q, j)
    BY <1>2 DEF StateAt
  <1>4. ListTyped'
    <2>1. Moved(state_counts_proto[p], 1, old, st) \in [States -> Int]
      BY <1>1 DEF ListTyped, Moved
    <2>2. state_counts_proto' \in [Protos -> [States -> Int]]
      BY <2>1, <1>1 DEF ListTyped
    <2> QED BY <1>1, <1>2, <2>2 DEF ListTyped, Slots
  <1>5. M \in SUBSET Slots(p) /\ \A j \in M : StateAt(p, j) = old
    OBVIOUS
  <1>6. state_counts_proto' = [state_counts_proto EXCEPT ![p] = Moved(@, Cardinality(M), old, st)]
    BY FS_Singleton
  <1>7. MoveStep(p, M, old, st)
    BY <1>1, <1>3, <1>5, <1>6 DEF MoveStep
  <1> QED BY <1>4, <1>7, MovedExact

LEMMA SetPortStateCounts ==
    ASSUME CountsInv, NEW x \in AllSlots, NEW new \in SetStates, setPortState(x[1], x[2], new)
    PROVE  CountsInv'
  <1> DEFINE p == x[1]
             i == x[2]
  <1>1. p \in Protos /\ i \in Slots(p)
    BY DEF AllSlots
  <1>2. new \in States /\ new # NoPort
    BY PortListAssumption DEF States, NoPort
  <1>3. PICK old : old = StateAt(p, i)
    OBVIOUS
  <1> HIDE DEF p, i
  <1>4. /\ state_counts_proto' = [state_counts_proto EXCEPT ![p] = Moved(@, 1, old, new)]
        /\ port_list' = [port_list EXCEPT ![p][i] = new] /\ default_port_state' = default_port_state
    BY <1>3 DEF setPortState, p, i
  <1> QED BY <1>1, <1>2, <1>3, <1>4, OneMoves

LEMMA ForgetPortCounts ==
    ASSUME CountsInv, NEW x \in AllSlots, forgetPort(x[1], x[2])
    PROVE  CountsInv'
  <1> DEFINE p == x[1]
             i == x[2]
  <1>1. p \in Protos /\ i \in Slots(p)
    BY DEF AllSlots
  <1>2. PICK old : old = StateAt(p, i)
    OBVIOUS
  <1>3. PICK st : st = default_port_state[p]
    OBVIOUS
  <1> HIDE DEF p, i
  <1>4. /\ state_counts_proto' = [state_counts_proto EXCEPT ![p] = Moved(@, 1, old, st)]
        /\ port_list' = [port_list EXCEPT ![p][i] = NoPort] /\ default_port_state' = default_port_state
    BY <1>2, <1>3 DEF forgetPort, StateAt, p, i
  <1> QED BY <1>1, <1>2, <1>3, <1>4, OneMoves

\* A port that is created has the default state at that moment: no count changes.
LEMMA CreatePortCounts ==
    ASSUME CountsInv, NEW x \in AllSlots, createPort(x[1], x[2])
    PROVE  CountsInv'
  <1> DEFINE p == x[1]
             i == x[2]
  <1>1. p \in Protos /\ i \in Slots(p)
    BY DEF AllSlots
  <1> HIDE DEF p, i
  <1>2. /\ port_list' = [port_list EXCEPT ![p][i] = default_port_state[p]]
        /\ default_port_state' = default_port_state /\ state_counts_proto' = state_counts_proto
        /\ port_list[p][i] = NoPort
    BY DEF createPort, p, i
  <1>3. ListTyped'
    BY <1>1, <1>2 DEF CountsInv, ListTyped, Slots
  <1>4. \A q \in Protos : \A j \in Slots(q) : StateAt(q, j)' = StateAt(q, j)
    BY <1>1, <1>2 DEF CountsInv, ListTyped, StateAt
  <1>5. \A q \in Protos : \A u \in States : At(q, u)' = At(q, u)
    BY <1>4 DEF At, Slots
  <1>6. CountsExact'
    BY <1>2, <1>5 DEF CountsInv, CountsExact, At
  <1> QED BY <1>3, <1>6 DEF CountsInv

LEMMA SetDefaultCounts ==
    ASSUME CountsInv, NEW p \in Rescanned, NEW st \in SetStates, setDefaultPortState(p, st)
    PROVE  CountsInv'
  <1> DEFINE M == {i \in Slots(p) : port_list[p][i] = NoPort}
  <1>1. p \in Protos /\ st \in States /\ ListTyped
    BY PortListAssumption DEF CountsInv
  <1>2. PICK old : old = default_port_state[p]
    OBVIOUS
  <1>3. /\ state_counts_proto' = [state_counts_proto EXCEPT ![p] = Moved(@, Cardinality(M), old, st)]
        /\ default_port_state' = [default_port_state EXCEPT ![p] = st]
        /\ port_list' = port_list
    BY <1>2 DEF setDefaultPortState
  <1>4. \A q \in Protos : \A j \in Slots(q) :
            StateAt(q, j)' = IF q = p /\ j \in M THEN st ELSE StateAt(q, j)
    BY <1>1, <1>3 DEF ListTyped, StateAt
  <1>5. old \in States /\ \A i \in M : StateAt(p, i) = old
    BY <1>1, <1>2 DEF ListTyped, StateAt
  <1>6. ListTyped'
    <2>1. Cardinality(M) \in Nat
      BY <1>1, SlotsFinite, FS_Subset, FS_CardinalityType
    <2> HIDE DEF M
    <2>2. Moved(state_counts_proto[p], Cardinality(M), old, st) \in [States -> Int]
      BY <1>1, <2>1 DEF ListTyped, Moved
    <2>3. state_counts_proto' \in [Protos -> [States -> Int]]
      BY <2>2, <1>1, <1>3 DEF ListTyped
    <2> QED BY <1>1, <1>3, <2>3 DEF ListTyped, Slots
  <1>7. MoveStep(p, M, old, st)
    BY <1>1, <1>3, <1>4, <1>5 DEF MoveStep
  <1> QED BY <1>1, <1>6, <1>7, MovedExact

\* The iteration does not change the list.
LEMMA UnchangedCounts == CountsInv /\ UNCHANGED list => CountsInv'
  <1> SUFFICES ASSUME CountsInv, UNCHANGED list PROVE CountsInv'
    OBVIOUS
  <1>1. ListTyped'
    BY DEF CountsInv, ListTyped, list, Slots
  <1>2. \A q \in Protos : \A u \in States : At(q, u)' = At(q, u)
    BY DEF At, Slots, StateAt, list
  <1>3. CountsExact'
    BY <1>2 DEF CountsInv, CountsExact, At, list
  <1> QED BY <1>1, <1>3 DEF CountsInv

LEMMA NextCounts == CountsInv /\ [Next]_vars => CountsInv'
  <1> SUFFICES ASSUME CountsInv, [Next]_vars PROVE CountsInv'
    OBVIOUS
  <1>1. ASSUME NEW p \in Rescanned, NEW st \in SetStates, setDefaultPortState(p, st)
        PROVE  CountsInv'
    BY <1>1, SetDefaultCounts
  <1>2. ASSUME NEW x \in AllSlots, NEW st \in SetStates, setPortState(x[1], x[2], st)
        PROVE  CountsInv'
    BY <1>2, SetPortStateCounts
  <1>3. ASSUME NEW x \in AllSlots, createPort(x[1], x[2]) \/ forgetPort(x[1], x[2])
        PROVE  CountsInv'
    BY <1>3, CreatePortCounts, ForgetPortCounts
  <1>4. ASSUME NEW a \in Allowed, NEW st \in Wanted, StartIteration(a, st)
        PROVE  CountsInv'
    BY <1>4, UnchangedCounts DEF StartIteration
  <1>5. CASE CallNextPort
    BY <1>5, UnchangedCounts DEF CallNextPort
  <1>6. CASE UNCHANGED vars
    BY <1>6, UnchangedCounts DEF vars, list
  <1> QED BY <1>1, <1>2, <1>3, <1>4, <1>5, <1>6 DEF Next

\* For any scanned ports, in any order of state changes, new defaults, ports created and
\* ports taken back, each of the counters that setPortState(), setDefaultPortState() and
\* forgetPort() adjust by hand is the number of ports in its state.
THEOREM StateCountsExact == Spec => []CountsExact
  <1>1. Spec => []CountsInv
    BY InitCounts, NextCounts, PTL DEF Spec
  <1>2. CountsInv => CountsExact
    BY DEF CountsInv
  <1> QED BY <1>1, <1>2, PTL

-----------------------------------------------------------------------------
(* The iteration.                                                           *)

\* nextPort() goes on from protocol p to protocol q.
Later(p, q) == (p = "TCP" /\ q \in {"UDP", "SCTP"}) \/ (p = "UDP" /\ q = "SCTP")

\* The order in which nextPort() comes to the slots.
Before(x, y) == Later(x[1], y[1]) \/ (x[1] = y[1] /\ x[2] < y[2])

\* The protocols that a call of nextPort() searches.
Searched(cur, allowed) ==
    LET proto == IF cur = Nothing THEN First(allowed) ELSE cur[1]
    IN  <<proto>> \o Others(cur, allowed, proto)

Cursors == {Nothing} \cup AllSlots
Alloweds == Protos \cup {"UDPANDSCTP", "TCPANDUDPANDSCTP"}

LEMMA SlotPair ==
    ASSUME NEW x \in AllSlots
    PROVE  /\ x = <<x[1], x[2]>> /\ x[1] \in Protos /\ x[2] \in Slots(x[1])
           /\ x[2] \in Nat \ {0} /\ x # Nothing
  <1>1. PICK p \in Protos : \E i \in Slots(p) : x = <<p, i>>
    BY DEF AllSlots
  <1> QED BY <1>1, SlotsFinite DEF Nothing

LEMMA ListsOfProtos ==
    ASSUME NEW a \in Protos
    PROVE  /\ <<a>> \o <<>> \in Seq(Protos) /\ Len(<<a>> \o <<>>) = 1 /\ (<<a>> \o <<>>)[1] = a
           /\ <<a>> \o <<"SCTP">> \in Seq(Protos) /\ Len(<<a>> \o <<"SCTP">>) = 2
           /\ (<<a>> \o <<"SCTP">>)[1] = a /\ (<<a>> \o <<"SCTP">>)[2] = "SCTP"
           /\ <<a>> \o <<"UDP", "SCTP">> \in Seq(Protos) /\ Len(<<a>> \o <<"UDP", "SCTP">>) = 3
           /\ (<<a>> \o <<"UDP", "SCTP">>)[1] = a /\ (<<a>> \o <<"UDP", "SCTP">>)[2] = "UDP"
           /\ (<<a>> \o <<"UDP", "SCTP">>)[3] = "SCTP"
  <1>1. <<a>> \in Seq(Protos) /\ <<>> \in Seq(Protos) /\ <<"SCTP">> \in Seq(Protos)
        /\ <<"UDP", "SCTP">> \in Seq(Protos)
    BY DEF Protos
  <1> QED BY <1>1

\* A call searches its protocols in the order of Later, the one it is at first, and all
\* that its caller has asked for and that are still to come.
LEMMA SearchedFacts ==
    ASSUME NEW cur \in Cursors, NEW allowed \in Alloweds
    PROVE  LET protos == Searched(cur, allowed)
           IN  /\ protos \in Seq(Protos) /\ Len(protos) > 0
               /\ \A k, l \in 1..Len(protos) : k < l => Later(protos[k], protos[l])
               /\ cur # Nothing => protos[1] = cur[1]
               /\ cur # Nothing => \A q \in Protos :
                     Later(cur[1], q) => \E l \in 2..Len(protos) : protos[l] = q
               /\ cur = Nothing => \A q \in Covers(allowed) : \E l \in 1..Len(protos) : protos[l] = q
  <1> DEFINE proto == IF cur = Nothing THEN First(allowed) ELSE cur[1]
             protos == Searched(cur, allowed)
             three == (cur = Nothing /\ allowed = "TCPANDUDPANDSCTP") \/ (cur # Nothing /\ proto = "TCP")
             two == (cur = Nothing /\ allowed = "UDPANDSCTP") \/ (cur # Nothing /\ proto = "UDP")
  <1>1. proto \in Protos /\ (cur # Nothing => proto = cur[1])
    BY SlotPair DEF Cursors, Alloweds, First, Protos
  <1>2. protos = <<proto>> \o (IF three THEN <<"UDP", "SCTP">> ELSE IF two THEN <<"SCTP">> ELSE <<>>)
    BY DEF Searched, Others
  <1>3. CASE three
    <2>1. /\ protos \in Seq(Protos) /\ Len(protos) = 3 /\ protos[1] = "TCP"
          /\ protos[2] = "UDP" /\ protos[3] = "SCTP"
      <3>1. proto = "TCP"
        BY <1>3 DEF First
      <3> QED BY <1>1, <1>2, <1>3, <3>1, ListsOfProtos
    <2>2. cur = Nothing => Covers(allowed) = {"TCP", "UDP", "SCTP"}
      BY <1>3 DEF Covers
    <2> HIDE DEF protos
    <2> QED BY <1>1, <1>3, <2>1, <2>2 DEF Later, protos
  <1>4. CASE ~three /\ two
    <2>1. /\ protos \in Seq(Protos) /\ Len(protos) = 2 /\ protos[1] = "UDP" /\ protos[2] = "SCTP"
      <3>1. proto = "UDP"
        BY <1>4 DEF First
      <3> QED BY <1>1, <1>2, <1>4, <3>1, ListsOfProtos
    <2>2. cur = Nothing => Covers(allowed) = {"UDP", "SCTP"}
      BY <1>4 DEF Covers
    <2> HIDE DEF protos
    <2> QED BY <1>1, <1>4, <2>1, <2>2 DEF Later, protos
  <1>5. CASE ~three /\ ~two
    <2>1. protos \in Seq(Protos) /\ Len(protos) = 1 /\ protos[1] = proto
      BY <1>1, <1>2, <1>5, ListsOfProtos
    <2>2. cur = Nothing => Covers(allowed) = {proto}
      BY <1>5 DEF Covers, First, Alloweds
    <2>3. cur # Nothing => proto \notin {"TCP", "UDP"}
      BY <1>5
    <2> HIDE DEF protos, proto
    <2> QED BY <1>1, <2>1, <2>2, <2>3 DEF Later, protos
  <1> QED BY <1>3, <1>4, <1>5

\* What nextPort() returns: the first slot after cur that qualifies.
LEMMA NextPortFacts ==
    ASSUME NEW cur \in Cursors, NEW allowed \in Alloweds, NEW st
    PROVE  LET x == nextPort(cur, allowed, st)
           IN  /\ x # Nothing => x \in AllSlots /\ (cur # Nothing => Before(cur, x))
               /\ \A y \in AllSlots :
                     /\ Qualifies(y[1], y[2], st)
                     /\ IF cur = Nothing THEN y[1] \in Covers(allowed) ELSE Before(cur, y)
                     => x # Nothing /\ (y = x \/ Before(x, y))
  <1> DEFINE protos == Searched(cur, allowed)
             from == IF cur = Nothing THEN 1 ELSE cur[2] + 1
             found(k) == {i \in Slots(protos[k]) :
                            (k = 1 => i >= from) /\ Qualifies(protos[k], i, st)}
             hits == {k \in DOMAIN protos : found(k) # {}}
             x == nextPort(cur, allowed, st)
  <1>1. x = IF hits = {} THEN Nothing ELSE <<protos[Min(hits)], Min(found(Min(hits)))>>
    BY DEF nextPort, Searched
  <1>2. /\ protos \in Seq(Protos) /\ DOMAIN protos = 1..Len(protos)
        /\ \A k, l \in 1..Len(protos) : k < l => Later(protos[k], protos[l])
        /\ cur # Nothing => protos[1] = cur[1]
        /\ cur # Nothing => \A q \in Protos :
              Later(cur[1], q) => \E l \in 2..Len(protos) : protos[l] = q
        /\ cur = Nothing => \A q \in Covers(allowed) : \E l \in 1..Len(protos) : protos[l] = q
    BY SearchedFacts
  <1>3. from \in Nat /\ (cur # Nothing => cur \in AllSlots /\ cur[2] \in Nat /\ from = cur[2] + 1)
    BY SlotPair DEF Cursors
  <1> HIDE DEF protos, from, x
  <1>4. \A k \in 1..Len(protos) : protos[k] \in Protos /\ found(k) \subseteq Slots(protos[k])
                                  /\ found(k) \in SUBSET Nat
    BY <1>2, SlotsFinite
  <1>5. hits \in SUBSET Nat /\ hits \subseteq 1..Len(protos)
    BY <1>2
  <1>6. ASSUME hits # {}
        PROVE  /\ Min(hits) \in hits /\ \A k \in hits : Min(hits) <= k
               /\ Min(found(Min(hits))) \in found(Min(hits))
               /\ \A i \in found(Min(hits)) : Min(found(Min(hits))) <= i
    <2>1. Min(hits) \in hits /\ \A k \in hits : Min(hits) <= k
      BY <1>5, <1>6, LeastExists
    <2>2. found(Min(hits)) # {} /\ found(Min(hits)) \in SUBSET Nat
      BY <1>4, <1>5, <2>1
    <2> HIDE DEF found
    <2> QED BY <2>1, <2>2, LeastExists
  <1>7. ASSUME x # Nothing
        PROVE  x \in AllSlots /\ (cur # Nothing => Before(cur, x))
    <2>1. hits # {}
      BY <1>1, <1>7
    <2>2. PICK k \in hits, m \in Nat : m \in found(k) /\ x = <<protos[k], m>>
      BY <1>1, <1>4, <1>5, <1>6, <2>1
    <2>3. k \in 1..Len(protos) /\ protos[k] \in Protos /\ m \in Slots(protos[k]) /\ m \in Nat
      BY <1>4, <1>5, <2>2
    <2>4. x \in AllSlots
      BY <2>2, <2>3 DEF AllSlots
    <2>5. ASSUME cur # Nothing PROVE Before(cur, x)
      <3>1. CASE k = 1
        <4>1. m >= from
          BY <2>2, <3>1
        <4> QED BY <1>2, <1>3, <2>2, <2>3, <2>5, <3>1, <4>1 DEF Before
      <3>2. CASE k # 1
        <4>1. Later(protos[1], protos[k])
          BY <1>2, <2>3, <3>2
        <4> QED BY <1>2, <2>2, <2>5, <4>1 DEF Before
      <3> QED BY <3>1, <3>2
    <2> QED BY <2>4, <2>5
  <1>8. ASSUME NEW y \in AllSlots, Qualifies(y[1], y[2], st),
               IF cur = Nothing THEN y[1] \in Covers(allowed) ELSE Before(cur, y)
        PROVE  x # Nothing /\ (y = x \/ Before(x, y))
    <2>1. y = <<y[1], y[2]>> /\ y[1] \in Protos /\ y[2] \in Slots(y[1]) /\ y[2] \in Nat \ {0}
      BY SlotPair
    <2>2. PICK l \in 1..Len(protos) : protos[l] = y[1] /\ (l = 1 => y[2] >= from)
      <3>1. CASE cur = Nothing
        BY <1>2, <1>8, <2>1, <3>1 DEF from
      <3>2. CASE cur # Nothing /\ Later(cur[1], y[1])
        BY <1>2, <2>1, <3>2
      <3>3. CASE cur # Nothing /\ cur[1] = y[1] /\ cur[2] < y[2]
        <4>1. Len(protos) \in Nat /\ Len(protos) > 0
          BY SearchedFacts DEF protos
        <4> QED BY <1>2, <1>3, <2>1, <3>3, <4>1
      <3> QED BY <1>8, <3>1, <3>2, <3>3 DEF Before
    <2>3. y[2] \in found(l) /\ l \in hits
      BY <1>2, <1>8, <2>1, <2>2
    <2>4. PICK k \in hits : k = Min(hits)
      BY <1>6, <2>3
    <2>5. k <= l /\ k \in 1..Len(protos) /\ Min(found(k)) \in found(k)
          /\ \A i \in found(k) : Min(found(k)) <= i
      BY <1>5, <1>6, <2>3, <2>4
    <2>6. x = <<protos[k], Min(found(k))>>
      BY <1>1, <2>3, <2>4
    <2>7. x # Nothing
      BY <2>6 DEF Nothing
    <2>8. CASE k = l
      <3>1. Min(found(k)) \in Nat /\ Min(found(k)) <= y[2]
        BY <1>4, <2>3, <2>5, <2>8
      <3> HIDE DEF found
      <3> QED BY <2>1, <2>2, <2>6, <2>7, <2>8, <3>1 DEF Before
    <2>9. CASE k < l
      <3>1. Later(protos[k], protos[l])
        BY <1>2, <2>5, <2>9
      <3> HIDE DEF found
      <3> QED BY <2>2, <2>6, <2>7, <3>1 DEF Before
    <2> QED BY <2>5, <2>8, <2>9
  <1> QED BY <1>7, <1>8 DEF x

IterTyped == iter \in Iter /\ returned \in Seq(AllSlots) /\ steady \subseteq AllSlots

\* What the loop around nextPort() has returned ends with the cursor and is in order, and a
\* slot that has qualified all along was returned or is still to come.
AtCursor ==
    IF iter.cur = Nothing THEN returned = <<>>
    ELSE Len(returned) > 0 /\ returned[Len(returned)] = iter.cur
InOrder == \A i, j \in 1..Len(returned) : i < j => Before(returned[i], returned[j])
StillQualify == steady \subseteq QualifyingSlots(iter.state)
StillToCome ==
    \A y \in steady : y[1] \in Covers(iter.allowed) =>
        \/ y \in ToSet(returned)
        \/ iter.on /\ (iter.cur = Nothing \/ Before(iter.cur, y))

IterInv == IterTyped /\ AtCursor /\ InOrder /\ StillQualify /\ StillToCome

LEMMA IterFields ==
    ASSUME IterTyped
    PROVE  /\ iter.on \in BOOLEAN /\ iter.allowed \in Alloweds /\ iter.cur \in Cursors
           /\ iter.allowed \in Allowed \cup {"TCP"} /\ iter.state \in States
           /\ Len(returned) \in Nat /\ DOMAIN returned = 1..Len(returned)
           /\ \A i \in 1..Len(returned) : returned[i] \in AllSlots
  <1>1. /\ iter.on \in BOOLEAN /\ iter.cur \in {Nothing} \cup AllSlots
        /\ iter.allowed \in Allowed \cup {"TCP"} /\ iter.state \in States
    BY DEF IterTyped, Iter
  <1>2. iter.allowed \in Alloweds
    BY <1>1, PortListAssumption DEF Alloweds, Protos
  <1>3. /\ Len(returned) \in Nat /\ DOMAIN returned = 1..Len(returned)
        /\ \A i \in 1..Len(returned) : returned[i] \in AllSlots
    BY LenProperties, ElementOfSeq DEF IterTyped
  <1> QED BY <1>1, <1>2, <1>3 DEF Cursors

LEMMA InitIter == Init => IterInv
  BY PortListAssumption
     DEF Init, IterInv, IterTyped, Iter, AtCursor, InOrder, StillQualify, StillToCome, States

LEMMA BeforeTransitive ==
    ASSUME NEW x \in AllSlots, NEW y \in AllSlots, NEW z \in AllSlots, Before(x, y), Before(y, z)
    PROVE  Before(x, z)
  BY SlotPair DEF Before, Later

\* A change of the list takes slots out of steady and does nothing else to the iteration.
LEMMA ObservedIter ==
    ASSUME IterInv, Observed
    PROVE  IterInv'
  <1>1. iter' = iter /\ returned' = returned /\ steady' \subseteq steady
    BY DEF Observed
  <1>2. StillQualify'
    BY DEF Observed, StillQualify
  <1>3. IterTyped'
    BY <1>1 DEF IterInv, IterTyped, Iter, AllSlots, Slots
  <1>4. AtCursor' /\ InOrder' /\ StillToCome'
    BY <1>1 DEF IterInv, AtCursor, InOrder, StillToCome
  <1> QED BY <1>2, <1>3, <1>4 DEF IterInv

LEMMA StartIter ==
    ASSUME IterInv, NEW a \in Allowed, NEW st \in Wanted, StartIteration(a, st)
    PROVE  IterInv'
  <1>1. /\ iter' = [on |-> TRUE, allowed |-> a, state |-> st, cur |-> Nothing]
        /\ returned' = <<>> /\ steady' = QualifyingSlots(st) /\ UNCHANGED list
    BY DEF StartIteration
  <1>2. IterTyped'
    BY <1>1, PortListAssumption DEF IterTyped, Iter, QualifyingSlots
  <1>3. AtCursor' /\ InOrder' /\ StillToCome'
    BY <1>1 DEF AtCursor, InOrder, StillToCome
  <1>4. QualifyingSlots(st)' = QualifyingSlots(st)
    BY <1>1 DEF QualifyingSlots, AllSlots, Slots, Qualifies, StateAt, list
  <1>5. StillQualify'
    BY <1>1, <1>4 DEF StillQualify
  <1> QED BY <1>2, <1>3, <1>5 DEF IterInv

LEMMA CallIter ==
    ASSUME IterInv, CallNextPort
    PROVE  IterInv'
  <1>0. PICK x : x = nextPort(iter.cur, iter.allowed, iter.state)
    OBVIOUS
  <1>1. /\ iter.on /\ steady' = steady /\ UNCHANGED list
        /\ IF x = Nothing THEN iter' = [iter EXCEPT !.on = FALSE] /\ returned' = returned
           ELSE iter' = [iter EXCEPT !.cur = x] /\ returned' = Append(returned, x)
    BY <1>0 DEF CallNextPort
  <1>2. /\ x # Nothing => x \in AllSlots /\ (iter.cur # Nothing => Before(iter.cur, x))
        /\ \A y \in AllSlots :
              /\ Qualifies(y[1], y[2], iter.state)
              /\ IF iter.cur = Nothing THEN y[1] \in Covers(iter.allowed) ELSE Before(iter.cur, y)
              => x # Nothing /\ (y = x \/ Before(x, y))
    BY <1>0, NextPortFacts, IterFields DEF IterInv
  <1>3. \A y \in steady : y \in AllSlots /\ Qualifies(y[1], y[2], iter.state)
    BY DEF IterInv, IterTyped, StillQualify, QualifyingSlots
  <1>4. iter'.state = iter.state /\ iter'.allowed = iter.allowed
    BY <1>1 DEF IterInv, IterTyped, Iter
  <1>5. StillQualify'
    <2>1. QualifyingSlots(iter.state)' = QualifyingSlots(iter.state)
      BY <1>1, <1>4 DEF QualifyingSlots, AllSlots, Slots, Qualifies, StateAt, list
    <2> QED BY <1>1, <2>1 DEF IterInv, StillQualify
  <1>6. CASE x = Nothing
    <2>1. iter' = [iter EXCEPT !.on = FALSE] /\ returned' = returned /\ iter'.cur = iter.cur
      BY <1>1, <1>6 DEF IterInv, IterTyped, Iter
    <2>2. IterTyped' /\ AtCursor' /\ InOrder'
      BY <1>1, <2>1 DEF IterInv, IterTyped, Iter, AtCursor, InOrder
    <2>3. StillToCome'
      <3> SUFFICES ASSUME NEW y \in steady, y[1] \in Covers(iter.allowed) PROVE y \in ToSet(returned)
        BY <1>1, <1>4, <2>1 DEF StillToCome, ToSet
      <3> QED BY <1>2, <1>3, <1>6 DEF IterInv, StillToCome
    <2> QED BY <1>5, <2>2, <2>3 DEF IterInv
  <1>7. CASE x # Nothing
    <2>1. /\ iter' = [iter EXCEPT !.cur = x] /\ returned' = Append(returned, x) /\ x \in AllSlots
          /\ iter'.cur = x /\ iter'.on
      BY <1>1, <1>2, <1>7 DEF IterInv, IterTyped, Iter
    <2>2. /\ Len(returned') = Len(returned) + 1 /\ returned' \in Seq(AllSlots)
          /\ \A i \in 1..Len(returned) : returned'[i] = returned[i]
          /\ returned'[Len(returned) + 1] = x
          /\ Len(returned) \in Nat
      BY <2>1, AppendProperties, IterFields DEF IterInv, IterTyped
    <2>3. IterTyped'
      BY <1>1, <2>1, <2>2 DEF IterInv, IterTyped, Iter
    <2>4. AtCursor'
      BY <2>1, <2>2, <1>7 DEF AtCursor
    <2>5. \A i \in 1..Len(returned) : Before(returned[i], x)
      <3> TAKE i \in 1..Len(returned)
      <3>1. /\ Len(returned) > 0 /\ iter.cur # Nothing /\ returned[Len(returned)] = iter.cur
            /\ iter.cur \in AllSlots /\ returned[i] \in AllSlots
        BY IterFields DEF IterInv, AtCursor
      <3>2. Before(iter.cur, x)
        BY <1>2, <1>7, <3>1
      <3>3. CASE i = Len(returned)
        BY <3>1, <3>2, <3>3
      <3>4. CASE i # Len(returned)
        <4>1. i < Len(returned) /\ Len(returned) \in 1..Len(returned)
          BY <2>2, <3>4
        <4>2. Before(returned[i], iter.cur)
          BY <3>1, <4>1 DEF IterInv, InOrder
        <4> QED BY <2>1, <3>1, <3>2, <4>2, BeforeTransitive
      <3> QED BY <3>3, <3>4
    <2>6. InOrder'
      <3> SUFFICES ASSUME NEW i \in 1..Len(returned'), NEW j \in 1..Len(returned'), i < j
                   PROVE  Before(returned'[i], returned'[j])
        BY DEF InOrder, Before, Later
      <3>1. i \in 1..Len(returned)
        BY <2>2
      <3>2. CASE j \in 1..Len(returned)
        BY <2>2, <3>1, <3>2 DEF IterInv, InOrder
      <3>3. CASE j = Len(returned) + 1
        BY <2>2, <2>5, <3>1, <3>3
      <3> QED BY <2>2, <3>2, <3>3
    <2>7. StillToCome'
      <3> SUFFICES ASSUME NEW y \in steady, y[1] \in Covers(iter.allowed)
                   PROVE  y \in ToSet(returned') \/ Before(x, y)
        BY <1>1, <1>4, <2>1 DEF StillToCome, ToSet, Before, Later
      <3>1. DOMAIN returned' = 1..Len(returned) + 1 /\ DOMAIN returned = 1..Len(returned)
        BY <2>2, IterFields DEF IterInv
      <3>2. CASE y \in ToSet(returned)
        BY <2>2, <3>1, <3>2 DEF ToSet
      <3>3. CASE y \notin ToSet(returned)
        <4>1. y = x \/ Before(x, y)
          BY <1>2, <1>3, <3>3 DEF IterInv, StillToCome
        <4>2. x \in ToSet(returned')
          BY <2>2, <3>1 DEF ToSet
        <4> QED BY <4>1, <4>2
      <3> QED BY <3>2, <3>3
    <2> QED BY <1>5, <2>3, <2>4, <2>6, <2>7 DEF IterInv
  <1> QED BY <1>6, <1>7

LEMMA NextIter == IterInv /\ [Next]_vars => IterInv'
  <1> SUFFICES ASSUME IterInv, [Next]_vars PROVE IterInv'
    OBVIOUS
  <1>1. ASSUME NEW p \in Rescanned, NEW st \in SetStates, setDefaultPortState(p, st)
        PROVE  IterInv'
    BY <1>1, ObservedIter DEF setDefaultPortState
  <1>2. ASSUME NEW x \in AllSlots, NEW st \in SetStates, setPortState(x[1], x[2], st)
        PROVE  IterInv'
    BY <1>2, ObservedIter DEF setPortState
  <1>3. ASSUME NEW x \in AllSlots, createPort(x[1], x[2]) \/ forgetPort(x[1], x[2])
        PROVE  IterInv'
    BY <1>3, ObservedIter DEF createPort, forgetPort
  <1>4. ASSUME NEW a \in Allowed, NEW st \in Wanted, StartIteration(a, st)
        PROVE  IterInv'
    BY <1>4, StartIter
  <1>5. CASE CallNextPort
    BY <1>5, CallIter
  <1>6. CASE UNCHANGED vars
    <2>1. QualifyingSlots(iter.state)' = QualifyingSlots(iter.state)
      BY <1>6 DEF vars, QualifyingSlots, AllSlots, Slots, Qualifies, StateAt
    <2>2. Observed
      BY <1>6, <2>1 DEF vars, Observed, IterInv, StillQualify
    <2> QED BY <2>2, ObservedIter
  <1> QED BY <1>1, <1>2, <1>3, <1>4, <1>5, <1>6 DEF Next

LEMMA IterInvComplete == IterInv => IterationComplete
  <1> SUFFICES ASSUME IterInv PROVE IterationComplete
    OBVIOUS
  <1>1. IsInjective(returned)
    <2> SUFFICES ASSUME NEW i \in DOMAIN returned, NEW j \in DOMAIN returned,
                        returned[i] = returned[j], i # j
                 PROVE  FALSE
      BY DEF IsInjective
    <2>1. /\ i \in 1..Len(returned) /\ j \in 1..Len(returned) /\ Len(returned) \in Nat
          /\ returned[i] \in AllSlots /\ returned[j] \in AllSlots
      BY IterFields DEF IterInv
    <2>2. ASSUME NEW x \in AllSlots PROVE ~Before(x, x)
      BY SlotPair DEF Before, Later
    <2>3. Before(returned[i], returned[j]) \/ Before(returned[j], returned[i])
      BY <2>1 DEF IterInv, InOrder
    <2> QED BY <2>1, <2>2, <2>3
  <1>2. ~iter.on => {y \in steady : y[1] \in Covers(iter.allowed)} \subseteq ToSet(returned)
    BY DEF IterInv, StillToCome
  <1> QED BY <1>1, <1>2 DEF IterationComplete

\* For any port map, any mix of protocols and any state asked for: a loop around nextPort()
\* returns no port twice, and returns every port of those protocols that has the state from
\* the first call to the last, whatever other scripts do to the list between the calls.
THEOREM IterationIsComplete == Spec => []IterationComplete
  <1>1. Spec => []IterInv
    BY InitIter, NextIter, PTL DEF Spec
  <1> QED BY <1>1, IterInvComplete, PTL
=============================================================================
