------------------------------ MODULE PortList ------------------------------
(***************************************************************************)
(* The port list of a target (portlist.cc): one slot for each scanned port *)
(* of a protocol, empty while nothing is known of it, a default state for  *)
(* the empty slots, and state_counts_proto kept beside them. nextPort() is *)
(* called again and again by its users, for NSE scripts (nmap.get_ports)   *)
(* with other scripts changing states between the calls: an iteration is   *)
(* a process of its own here. Reasons, services and script results are     *)
(* data of a port that only matter by the port's being created for them.   *)
(***************************************************************************)
EXTENDS Integers, Sequences, FiniteSets, FiniteSetsExt, SequencesExt

CONSTANTS
    PortMapRev,     \* port_map_rev: the scanned ports of a protocol, sorted
    SetStates,      \* states the callers set
    Rescanned,      \* protocols whose default is set
    Allowed,        \* values of allowed_protocol that are asked for
    Wanted,         \* values of allowed_state that are asked for
    MaxPerState,    \* max_per_state
    OpenOnly        \* --open

Protos == {"TCP", "UDP", "SCTP", "IP"}
PORT_UNKNOWN == 0
PORT_CLOSED == 1
PORT_OPEN == 2
PORT_TESTING == 4
PORT_FRESH == 5
PORT_UNFILTERED == 6
PORT_OPENFILTERED == 7
States == 0..8
NoPort == -1
PortNumbers == 0..65535
Nothing == <<>>

ASSUME PortListAssumption ==
    /\ PortMapRev \in [Protos -> Seq(PortNumbers)]
    /\ \A p \in Protos : \A i, j \in DOMAIN PortMapRev[p] :
          i < j => PortMapRev[p][i] < PortMapRev[p][j]
    /\ SetStates \subseteq States \ {PORT_UNKNOWN, PORT_TESTING, PORT_FRESH}
    /\ Rescanned \subseteq Protos
    /\ Allowed \subseteq Protos \cup {"UDPANDSCTP", "TCPANDUDPANDSCTP"}
    /\ Wanted \subseteq States
    /\ MaxPerState \in Nat /\ OpenOnly \in BOOLEAN

Slots(p) == 1..Len(PortMapRev[p])
AllSlots == UNION {{<<p, i>> : i \in Slots(p)} : p \in Protos}

VARIABLES
    port_list,              \* port_list[p][i]: a state, or NoPort
    default_port_state,
    state_counts_proto,
    iter,                   \* the iteration: what is asked for, last result
    returned,               \* history: slots this iteration returned
    steady                  \* history: slots that qualified all along

vars == <<port_list, default_port_state, state_counts_proto, iter, returned, steady>>
list == <<port_list, default_port_state, state_counts_proto>>

Iter == [on : BOOLEAN, allowed : Allowed \cup {"TCP"}, state : States, cur : {Nothing} \cup AllSlots]

TypeOK ==
    /\ \A p \in Protos : port_list[p] \in [Slots(p) -> States \cup {NoPort}]
    /\ default_port_state \in [Protos -> States]
    /\ state_counts_proto \in [Protos -> [States -> Nat]]
    /\ iter \in Iter
    /\ returned \in Seq(AllSlots) /\ steady \subseteq AllSlots

---------------------------------------------------------------------------

StateAt(p, i) ==
    IF port_list[p][i] = NoPort THEN default_port_state[p] ELSE port_list[p][i]

Qualifies(p, i, st) == st = PORT_UNKNOWN \/ StateAt(p, i) = st
QualifyingSlots(st) == {x \in AllSlots : Qualifies(x[1], x[2], st)}

getStateCounts(st) ==
    FoldSet(LAMBDA p, n : n + state_counts_proto[p][st], 0, Protos)

(* isIgnoredState and nextIgnoredState, with which the output cycles       *)
(* through the states it only counts.                                      *)
isIgnoredState(st) ==
    /\ st \notin {PORT_OPEN, PORT_UNKNOWN, PORT_TESTING, PORT_FRESH}
    /\ \/ OpenOnly /\ st \notin {PORT_OPENFILTERED, PORT_UNFILTERED} /\ getStateCounts(st) > 0
       \/ getStateCounts(st) > MaxPerState

\* states with as many ports as the last one are passed over
MayFollow_Strict(st, prev) ==
    st # prev /\ (prev = PORT_UNKNOWN \/ getStateCounts(st) < getStateCounts(prev))

MayFollow(st, prev) ==
    /\ st # prev
    /\ \/ prev = PORT_UNKNOWN
       \/ getStateCounts(st) < getStateCounts(prev)
       \/ getStateCounts(st) = getStateCounts(prev) /\ st > prev

nextIgnoredState(prev) ==
    LET eligible == {st \in States : isIgnoredState(st) /\ MayFollow(st, prev)}
        most == {st \in eligible :
                    \A u \in eligible : getStateCounts(u) <= getStateCounts(st)}
    IN  IF eligible = {} THEN PORT_UNKNOWN ELSE Min(most)

(* nextPort: the protocols it searches and where it starts. After the last *)
(* TCP port it goes on with UDP and SCTP, after the last UDP port with     *)
(* SCTP, unless this was the first call and another protocol was asked for.*)
First(allowed) ==
    CASE allowed = "TCPANDUDPANDSCTP" -> "TCP"
      [] allowed = "UDPANDSCTP" -> "UDP"
      [] OTHER -> allowed

\* the end of TCP is the end of the list
Others_OnlyFirst(cur, allowed, proto) ==
    IF cur = Nothing /\ allowed = "TCPANDUDPANDSCTP" THEN <<"UDP", "SCTP">> ELSE <<>>

Others(cur, allowed, proto) ==
    IF (cur = Nothing /\ allowed = "TCPANDUDPANDSCTP") \/ (cur # Nothing /\ proto = "TCP")
    THEN <<"UDP", "SCTP">>
    ELSE IF (cur = Nothing /\ allowed = "UDPANDSCTP") \/ (cur # Nothing /\ proto = "UDP")
    THEN <<"SCTP">>
    ELSE <<>>

nextPort(cur, allowed, st) ==
    LET proto == IF cur = Nothing THEN First(allowed) ELSE cur[1]
        protos == <<proto>> \o Others(cur, allowed, proto)
        from == IF cur = Nothing THEN 1 ELSE cur[2] + 1
        found(k) == {i \in Slots(protos[k]) :
                        (k = 1 => i >= from) /\ Qualifies(protos[k], i, st)}
        hits == {k \in DOMAIN protos : found(k) # {}}
    IN  IF hits = {} THEN Nothing
        ELSE <<protos[Min(hits)], Min(found(Min(hits)))>>

---------------------------------------------------------------------------

(* PortList::PortList(): all ports have the state 0 (unknown).             *)
Init ==
    /\ port_list = [p \in Protos |-> [i \in Slots(p) |-> NoPort]]
    /\ default_port_state = [p \in Protos |-> PORT_UNKNOWN]
    /\ state_counts_proto = [p \in Protos |-> [st \in States |->
                                IF st = PORT_UNKNOWN THEN Len(PortMapRev[p]) ELSE 0]]
    /\ iter = [on |-> FALSE, allowed |-> "TCP", state |-> 0, cur |-> Nothing]
    /\ returned = <<>> /\ steady = {}

(* A change of the list as an iteration in progress sees it.               *)
Observed ==
    /\ UNCHANGED <<iter, returned>>
    /\ steady' = steady \cap QualifyingSlots(iter.state)'

(* The counts of a protocol when k slots pass from one state to another.   *)
Moved(counts, k, old, st) ==
    [u \in States |-> counts[u] - (IF u = old THEN k ELSE 0) + (IF u = st THEN k ELSE 0)]

(* ultra_scan() sets the default of a protocol when it begins.             *)
setDefaultPortState(p, st) ==
    LET empty == Cardinality({i \in Slots(p) : port_list[p][i] = NoPort})
        old == default_port_state[p]
    IN  /\ state_counts_proto' =
             [state_counts_proto EXCEPT ![p] = Moved(@, empty, old, st)]
        /\ default_port_state' = [default_port_state EXCEPT ![p] = st]
        /\ UNCHANGED port_list /\ Observed

\* the old state is always taken for the default
setPortState_FromDefault(p, i, st) ==
    /\ state_counts_proto' =
         [state_counts_proto EXCEPT ![p] = Moved(@, 1, default_port_state[p], st)]
    /\ port_list' = [port_list EXCEPT ![p][i] = st]
    /\ UNCHANGED default_port_state /\ Observed

setPortState(p, i, st) ==
    /\ state_counts_proto' =
         [state_counts_proto EXCEPT ![p] = Moved(@, 1, StateAt(p, i), st)]
    /\ port_list' = [port_list EXCEPT ![p][i] = st]
    /\ UNCHANGED default_port_state /\ Observed

(* A service, a script result or a reason is stored for a port that has no *)
(* slot yet: it gets one, with what is the default state at that moment.   *)
createPort(p, i) ==
    /\ port_list[p][i] = NoPort
    /\ port_list' = [port_list EXCEPT ![p][i] = default_port_state[p]]
    /\ UNCHANGED <<default_port_state, state_counts_proto>> /\ Observed

(* The FTP bounce scan takes back a port it had found.                     *)
forgetPort(p, i) ==
    /\ port_list[p][i] # NoPort
    /\ state_counts_proto' =
         [state_counts_proto EXCEPT ![p] = Moved(@, 1, port_list[p][i], default_port_state[p])]
    /\ port_list' = [port_list EXCEPT ![p][i] = NoPort]
    /\ UNCHANGED default_port_state /\ Observed

(* The loop around nextPort() of its callers.                              *)
StartIteration(allowed, st) ==
    /\ ~iter.on
    /\ iter' = [on |-> TRUE, allowed |-> allowed, state |-> st, cur |-> Nothing]
    /\ returned' = <<>>
    /\ steady' = QualifyingSlots(st)
    /\ UNCHANGED list

CallNextPort ==
    LET x == nextPort(iter.cur, iter.allowed, iter.state)
    IN  /\ iter.on
        /\ IF x = Nothing
           THEN iter' = [iter EXCEPT !.on = FALSE] /\ UNCHANGED <<returned, steady>>
           ELSE /\ iter' = [iter EXCEPT !.cur = x]
                /\ returned' = Append(returned, x)
                /\ UNCHANGED steady
        /\ UNCHANGED list

Next ==
    \/ \E p \in Rescanned, st \in SetStates : setDefaultPortState(p, st)
    \/ \E x \in AllSlots, st \in SetStates : setPortState(x[1], x[2], st)
    \/ \E x \in AllSlots : createPort(x[1], x[2]) \/ forgetPort(x[1], x[2])
    \/ \E a \in Allowed, st \in Wanted : StartIteration(a, st)
    \/ CallNextPort

Spec == Init /\ [][Next]_vars

---------------------------------------------------------------------------
(* state_counts_proto, from which the output decides what it lists and OS  *)
(* detection whether there is an open port, agrees with the slots.         *)
CountsExact ==
    \A p \in Protos, st \in States :
        state_counts_proto[p][st] = Cardinality({i \in Slots(p) : StateAt(p, i) = st})

(* The output's walk from PORT_UNKNOWN through nextIgnoredState() shows    *)
(* each state that isIgnoredState() suppresses in the port table, and each *)
(* only once, also when two have the same number of ports: otherwise ports *)
(* vanish from the report.                                                 *)
Walk ==
    LET Shown(seq, n) ==
            LET next == nextIgnoredState(IF seq = <<>> THEN PORT_UNKNOWN ELSE Last(seq))
            IN  IF next = PORT_UNKNOWN THEN seq ELSE Append(seq, next)
    IN  FoldLeft(Shown, <<>>, [n \in 1..Cardinality(States) |-> n])
IgnoredShownOnce ==
    LET walk == Walk
    IN  IsInjective(walk) /\ ToSet(walk) = {st \in States : isIgnoredState(st)}

(* A port of the wanted protocols that has the wanted state throughout an  *)
(* iteration is returned by it, whatever happens to the list in between,   *)
(* and no port is returned twice.                                          *)
Covers(allowed) ==
    CASE allowed = "TCPANDUDPANDSCTP" -> {"TCP", "UDP", "SCTP"}
      [] allowed = "UDPANDSCTP" -> {"UDP", "SCTP"}
      [] OTHER -> {allowed}
IterationComplete ==
    /\ IsInjective(returned)
    /\ ~iter.on => {x \in steady : x[1] \in Covers(iter.allowed)} \subseteq ToSet(returned)

(* An iteration that is restricted to one protocol returns ports of that   *)
(* protocol only, as the comment on nextPort() says.                       *)
OnlyAllowedProtocol ==
    iter.allowed \in Protos =>
        \A n \in DOMAIN returned : returned[n][1] = iter.allowed
=============================================================================
