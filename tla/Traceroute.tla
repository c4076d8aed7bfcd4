----------------------------- MODULE Traceroute -----------------------------
(***************************************************************************)
(* The traceroute of a host group (traceroute.cc): several probes with     *)
(* different TTLs are on their way at once, first downward from a guess at *)
(* the distance and then upward, and the traces of all targets are one     *)
(* tree of Hop structures: a reply from a hop that is in the cache links   *)
(* the target's chain of hops to the chain found before.                   *)
(*                                                                         *)
(* The network is given by Answers[h][t], the addresses that may answer    *)
(* the probe of host h with TTL t; a host is its own address. A hop is     *)
(* named by the host that made it and its TTL: a host makes at most one    *)
(* for a TTL. The tokens that tie a reply to its probe are taken to be     *)
(* unique; there is one probe for a host and TTL at a time.                *)
(***************************************************************************)
EXTENDS Naturals, Sequences, FiniteSets, FiniteSetsExt, SequencesExt

CONSTANTS
    HostList,                   \* the remote targets, in order
    Answers,
    Guesses,                    \* distances that get_initial_ttl_guess gives
    InitialTtl,                 \* distance_guess of a host
    MAX_TTL,
    MAX_OUTSTANDING_PROBES,
    MAX_RESENDS,
    ScanDelay                   \* --scan-delay: sending may have to wait

Hosts == ToSet(HostList)
TTLs == 1..MAX_TTL
Ids == Hosts \X TTLs
Nil == <<>>
NoAddr == "timedout"
Addrs == UNION {Answers[h][t] : h \in Hosts, t \in TTLs} \cup {NoAddr}

TracerouteAssumption ==
    /\ HostList # <<>> /\ IsInjective(HostList)
    /\ MAX_TTL \in Nat \ {0} /\ MAX_RESENDS \in Nat
    /\ MAX_OUTSTANDING_PROBES \in Nat \ {0}
    /\ Guesses \subseteq TTLs /\ \A h \in Hosts : InitialTtl[h] \in TTLs
    /\ ScanDelay \in BOOLEAN

VARIABLES
    phase,          \* "send", "read", "cull": where the main loop is
    active,         \* active_hosts
    sender,         \* next_sending_host, as an index of active
    failed,         \* failed_host, 0 for active_hosts.end()
    numActive,      \* num_active_probes
    host,           \* the HostState of each host
    trace           \* the hops: hop, hops (the chains' heads), hop_cache

vars == <<phase, active, sender, failed, numActive, host, trace>>

HostState == [current : 1..(MAX_TTL + 1), state : {"DOWN", "UP"},
              reached : 0..MAX_TTL, sent : SUBSET TTLs,
              unanswered : SUBSET TTLs, resends : [TTLs -> 0..MAX_RESENDS],
              probes : Seq(TTLs), pending : Seq(TTLs)]
Hop == [parent : Ids \cup {Nil}, tag : Hosts, addr : Addrs]

TypeOK ==
    /\ phase \in {"send", "read", "cull"}
    /\ active \in Seq(Hosts) /\ sender \in Nat /\ failed \in Nat
    /\ numActive \in 0..MAX_OUTSTANDING_PROBES
    /\ host \in [Hosts -> HostState]
    /\ DOMAIN trace.hop \subseteq Ids
    /\ \A x \in DOMAIN trace.hop : trace.hop[x] \in Hop
    /\ trace.hops \in [Hosts -> DOMAIN trace.hop \cup {Nil}]
    /\ trace.cache \subseteq DOMAIN trace.hop

Init ==
    /\ phase = "send" /\ active = HostList /\ sender = 1 /\ failed = 0
    /\ numActive = 0
    /\ host = [h \in Hosts |->
                 [current |-> InitialTtl[h], state |-> "DOWN", reached |-> 0,
                  sent |-> {}, unanswered |-> {}, resends |-> [t \in TTLs |-> 0],
                  probes |-> <<>>, pending |-> <<>>]]
    /\ trace = [hop |-> [x \in {} |-> {}], hops |-> [h \in Hosts |-> Nil], cache |-> {}]

---------------------------------------------------------------------------
(* Chains of hops. ttl(x) of a hop x is in its name.                       *)

ttl(x) == x[2]

Chain(tr, x) ==
    LET at[n \in 0..MAX_TTL] ==
          IF n = 0 THEN x
          ELSE IF at[n - 1] = Nil THEN Nil ELSE tr.hop[at[n - 1]].parent
    IN  {at[n] : n \in 0..MAX_TTL} \ {Nil}

Highest(S) == IF S = {} THEN Nil ELSE CHOOSE x \in S : \A y \in S : ttl(y) <= ttl(x)
Lowest(S) == CHOOSE x \in S : \A y \in S : ttl(x) <= ttl(y)

(* child_parent_ttl: the chain's hops above TTL t, and the one at or below.*)
ChildAt(tr, h, t) ==
    LET above == {x \in Chain(tr, tr.hops[h]) : ttl(x) > t}
    IN  IF above = {} THEN Nil ELSE Lowest(above)
ParentAt(tr, h, t) == Highest({x \in Chain(tr, tr.hops[h]) : ttl(x) <= t})

(* hop is made the child's parent, or the head of the chain of h.          *)
Attached(tr, h, child, x) ==
    IF child = Nil THEN [tr EXCEPT !.hops[h] = x]
    ELSE [tr EXCEPT !.hop[child].parent = x]

(* A hop with TTL t is added to the chain of h. A timed-out one that is    *)
(* there already takes the address, but does not enter the cache.          *)
insert_hop(tr, h, t, addr) ==
    LET child == ChildAt(tr, h, t)
        p == ParentAt(tr, h, t)
        new == [parent |-> p, addr |-> addr,
                tag |-> IF child = Nil THEN h ELSE tr.hop[child].tag]
    IN  IF p # Nil /\ ttl(p) = t
        THEN IF tr.hop[p].addr = NoAddr THEN [tr EXCEPT !.hop[p].addr = addr] ELSE tr
        ELSE [Attached([tr EXCEPT !.hop = (<<h, t>> :> new) @@ @], h, child, <<h, t>>)
                 EXCEPT !.cache = IF addr = NoAddr THEN @ ELSE @ \cup {<<h, t>>}]

(* Of two hops with one TTL, does merge_hops keep x of the first chain?    *)
Preferred(tr, x, y) == tr.hop[y].addr = NoAddr \/ tr.hop[x].addr # NoAddr

(* merge_hops: the chains from a and b become one, sorted by TTL, down to  *)
(* where they meet. All its hops get the tag of a.                         *)
merge_hops(tr, a, b) ==
    LET joint == Chain(tr, a) \cap Chain(tr, b)
        as == Chain(tr, a) \ joint
        bs == Chain(tr, b) \ joint
        kept == {x \in as : \A y \in bs : ttl(x) = ttl(y) => Preferred(tr, x, y)}
                \cup {y \in bs : \A x \in as : ttl(x) = ttl(y) => ~Preferred(tr, x, y)}
        parentOf(x) == Highest({y \in kept \cup joint : ttl(y) < ttl(x)})
        tag == tr.hop[a].tag
    IN  [head |-> Highest(kept \cup joint),
         hop |-> [x \in DOMAIN tr.hop |->
                    IF x \in kept THEN [tr.hop[x] EXCEPT !.parent = parentOf(x), !.tag = tag]
                    ELSE IF x \in joint THEN [tr.hop[x] EXCEPT !.tag = tag]
                    ELSE tr.hop[x]]]

link_to(tr, h, x) ==
    LET child == ChildAt(tr, h, ttl(x))
        p == ParentAt(tr, h, ttl(x))
        m == merge_hops(tr, x, p)
    IN  IF x = p THEN tr
        ELSE Attached([tr EXCEPT !.hop = m.hop], h, child, m.head)

\* a hop is known by its address alone
hop_cache_lookup_AnyTtl(t, addr) ==
    LET hits == {x \in trace.cache : trace.hop[x].addr = addr}
    IN  IF hits = {} THEN Nil ELSE CHOOSE x \in hits : TRUE

hop_cache_lookup(t, addr) ==
    LET hits == {x \in trace.cache : ttl(x) = t /\ trace.hop[x].addr = addr}
    IN  IF hits = {} THEN Nil ELSE CHOOSE x \in hits : TRUE

---------------------------------------------------------------------------
(* The HostState of one host, s being its value.                           *)

\* a host that is counting up is done when its target has answered
has_more_probes_TillReached(s) == ~(s.state = "UP" /\ (s.reached > 0 \/ s.current > MAX_TTL))

has_more_probes(s) ==
    ~ /\ s.state = "UP"
      /\ (s.reached > 0 /\ s.current >= s.reached) \/ s.current > MAX_TTL

is_finished(s) == ~has_more_probes(s) /\ s.probes = <<>> /\ s.pending = <<>>

next_ttl(s) ==
    LET low == IF s.state = "UP" THEN s.current
               ELSE Max({1} \cup {t \in 1..s.current : t \notin s.sent})
        up == IF s.state = "UP" \/ low = 1 THEN "UP" ELSE "DOWN"
    IN  [s EXCEPT !.state = up,
           !.current = IF up = "DOWN" THEN low
                       ELSE Min({t \in low..(MAX_TTL + 1) : t \notin s.sent})]

(* cancel_probe for every unanswered probe with a TTL in S.                *)
Cancelled(s, S) ==
    LET keep(q) == SelectSeq(q, LAMBDA t : t \notin S)
    IN  [s EXCEPT !.unanswered = @ \ S, !.probes = keep(@), !.pending = keep(@)]

(* The target itself has answered the probe with TTL t.                    *)
Reached(s, t, distance) ==
    Cancelled([s EXCEPT
                 !.reached = IF @ = 0 \/ t < @ THEN t ELSE @,
                 !.current = IF s.state = "DOWN" /\ distance < @ THEN distance ELSE @],
              (t + 1)..MAX_TTL)

(* A cache hit on the way down, tr being the trace after link_to(h, x):    *)
(* who has the tag of the lowest hop goes on, others turn upward.          *)
CacheHit(s, tr, h, x) ==
    LET below == Chain(tr, tr.hop[x].parent)
        last == Lowest({x} \cup below)
        s1 == [s EXCEPT !.sent = @ \cup {ttl(y) : y \in below}]
    IN  IF s.state = "UP" THEN s
        ELSE IF tr.hop[last].tag = h THEN s1
        ELSE Cancelled([s1 EXCEPT !.state = "UP"], 1..(ttl(x) - 1))

---------------------------------------------------------------------------
(* TracerouteState: the main loop.                                         *)

next_active_host(i) == IF i = Len(active) THEN 1 ELSE i + 1

(* One turn of send_new_probes: a resend, a new probe, or nothing to send. *)
SendNextProbe ==
    LET h == active[sender]
        s == host[h]
        n == next_ttl(s)
        t == n.current
    IN  /\ phase = "send" /\ active # <<>>
        /\ sender # failed /\ numActive < MAX_OUTSTANDING_PROBES
        /\ sender' = next_active_host(sender)
        /\ IF s.pending # <<>>
           THEN /\ host' = [host EXCEPT ![h] =
                     [s EXCEPT !.pending = Tail(@), !.probes = Append(@, Head(s.pending)),
                               !.resends[Head(s.pending)] = @ + 1]]
                /\ numActive' = numActive + 1 /\ failed' = 0
           ELSE IF has_more_probes(n)
           THEN /\ host' = [host EXCEPT ![h] =
                     [n EXCEPT !.sent = @ \cup {t}, !.unanswered = @ \cup {t},
                               !.probes = Append(@, t)]]
                /\ numActive' = numActive + 1 /\ failed' = 0
           ELSE /\ host' = [host EXCEPT ![h] = n]
                /\ failed' = IF failed = 0 THEN sender ELSE failed
                /\ UNCHANGED numActive
        /\ UNCHANGED <<phase, active, trace>>

StopSending ==
    /\ phase = "send" /\ active # <<>>
    /\ sender = failed \/ numActive >= MAX_OUTSTANDING_PROBES \/ ScanDelay
    /\ phase' = "read"
    /\ failed' = 0
    /\ UNCHANGED <<active, sender, numActive, host, trace>>

(* set_host_hop, and the end of the probe that was answered.               *)
SetHostHop(h, t, addr, s) ==
    LET x == hop_cache_lookup(t, addr)
        tr == IF x = Nil THEN insert_hop(trace, h, t, addr) ELSE link_to(trace, h, x)
        new == Cancelled(IF x = Nil THEN s ELSE CacheHit(s, tr, h, x), {t})
    IN  /\ trace' = tr
        /\ host' = [host EXCEPT ![h] = new]
        /\ numActive' = numActive - (Len(host[h].probes) - Len(new.probes))

(* read_replies: an answer to an unanswered probe, late or not.            *)
Reply(h, t, addr, distance) ==
    /\ phase = "read" /\ h \in ToSet(active)
    /\ t \in host[h].unanswered /\ addr \in Answers[h][t]
    /\ SetHostHop(h, t, addr,
                  IF addr = h THEN Reached(host[h], t, distance) ELSE host[h])
    /\ UNCHANGED <<phase, active, sender, failed>>

StopReading ==
    /\ phase = "read" /\ phase' = "cull"
    /\ UNCHANGED <<active, sender, failed, numActive, host, trace>>

(* cull_timeouts: the oldest active probe of h has waited for too long.    *)
TimeOut(h) ==
    LET s == host[h]
        t == Head(s.probes)
    IN  /\ phase = "cull" /\ h \in ToSet(active) /\ s.probes # <<>>
        /\ trace' = insert_hop(trace, h, t, NoAddr)
        /\ host' = [host EXCEPT ![h] =
             [s EXCEPT !.probes = Tail(@),
                       !.pending = IF s.resends[t] < MAX_RESENDS THEN <<t>> \o @ ELSE @]]
        /\ numActive' = numActive - 1
        /\ UNCHANGED <<phase, active, sender, failed>>

(* remove_finished_hosts: next_sending_host moves on to a host that stays. *)
RemoveFinished ==
    LET stay == SelectSeq(active, LAMBDA h : ~is_finished(host[h]))
        order == SubSeq(active, sender, Len(active)) \o SubSeq(active, 1, sender - 1)
        next == SelectSeq(order, LAMBDA h : ~is_finished(host[h]))
    IN  /\ phase = "cull" /\ phase' = "send"
        /\ active' = stay
        /\ sender' = IF stay = <<>> THEN 1
                     ELSE CHOOSE i \in DOMAIN stay : stay[i] = Head(next)
        /\ UNCHANGED <<failed, numActive, host, trace>>

Over == active = <<>> /\ UNCHANGED vars

Next ==
    \/ SendNextProbe \/ StopSending \/ StopReading \/ RemoveFinished \/ Over
    \/ \E h \in Hosts, t \in TTLs : \E addr \in Answers[h][t], d \in Guesses : Reply(h, t, addr, d)
    \/ \E h \in Hosts : TimeOut(h)

Spec == Init /\ [][Next]_vars

(* The loop goes on, the scan delay passes, and a probe that stays active  *)
(* times out in the end.                                                   *)
FairSpec ==
    /\ Spec
    /\ SF_vars(SendNextProbe) /\ WF_vars(StopSending)
    /\ WF_vars(StopReading) /\ WF_vars(RemoveFinished)
    /\ \A h \in Hosts : SF_vars(TimeOut(h))

---------------------------------------------------------------------------
(* Properties.                                                             *)

(* The TTLs fall along every chain of hops, also after merges of chains    *)
(* that share some of their hops: a chain that rose or closed on itself    *)
(* would be walked for ever by child_parent_ttl().                         *)
ChainsFall ==
    \A x \in DOMAIN trace.hop :
        trace.hop[x].parent # Nil => ttl(trace.hop[x].parent) < ttl(x)

(* In a network where all paths through a router at some TTL agree up to   *)
(* it, the addresses in the chain of a target are those on its own path,   *)
(* however its trace was linked to others.                                 *)
HopsOnPath ==
    \A h \in Hosts : \A x \in Chain(trace, trace.hops[h]) :
        trace.hop[x].addr \in Answers[h][ttl(x)] \cup {NoAddr}

(* When the trace is over, the chain of each target has a hop, answered or *)
(* timed out, for each TTL up to the target, or to MAX_TTL if it never     *)
(* answered: every TTL was probed for this target or for one whose path it *)
(* shares.                                                                 *)
TraceComplete ==
    active = <<>> =>
        \A h \in Hosts :
            LET top == IF host[h].reached > 0 THEN host[h].reached ELSE MAX_TTL
            IN  1..top \subseteq {ttl(x) : x \in Chain(trace, trace.hops[h])}
=============================================================================
