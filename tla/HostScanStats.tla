--------------------------- MODULE HostScanStats ---------------------------
(***************************************************************************)
(* The per-host bookkeeping of ultra_scan(), nmap's port-scan and host-    *)
(* discovery engine: class HostScanStats of scan_engine.h with the parts   *)
(* of GroupScanStats and ConnectScanInfo its methods write.                *)
(*                                                                         *)
(* Every operator is a method of the code as a function of the state it    *)
(* reads.  A method that also writes group statistics takes and returns a  *)
(* record [hss |-> host statistics, g |-> group statistics].  A method     *)
(* whose result depends on the congestion-control arithmetic or on the     *)
(* outcome of connect() returns the SET of its possible results.           *)
(*                                                                         *)
(* The clock is abstracted: how far a probe is past its timeout is chosen  *)
(* by the caller.  A congestion window is floor(cwnd + 0.5), the number of *)
(* active probes below which `cwnd >= num_probes_active + .5' holds.       *)
(***************************************************************************)
EXTENDS Integers, FiniteSets, Sequences

CONSTANTS
    Ports,               \* the probe specifications every host is scanned with
    NONE,                \* no port (and, in UltraScan, no host)
    TrynoCap,            \* perf.tryno_cap, from --max-retries
    PingScan,            \* USI->ping_scan: host discovery, not a port scan
    ConnectScan,         \* probes are connect() calls, not raw packets
    ArpScan,             \* USI->ping_scan_arp or ping_scan_nd
    NorespOpen,          \* USI->noresp_open_scan: silence means open
    Responses,           \* port states an answer can mean in this scan type
    Errnos,              \* outcomes of connect() that are modelled
    ImmediateConnect,    \* a non-blocking connect() may finish at once
    DiscoveryIgnoreRst,  \* --discovery-ignore-rst
    DefeatRatelimit,     \* --defeat-rst-ratelimit or --defeat-icmp-ratelimit
    LowCwnd, MaxCwnd,    \* perf.low_cwnd, perf.max_cwnd
    StartPings,          \* pingprobes a target may bring from an earlier scan
    MaxPings             \* bound: timing pings sent to one host

PortStates == {"open", "closed", "filtered", "unfiltered"}

ConnectErrnos == {"accept", "self", "refused", "unreach", "eagain", "strange"}

ASSUME ScanAssumption ==
    /\ IsFiniteSet(Ports) /\ NONE \notin Ports
    /\ TrynoCap \in Nat /\ MaxPings \in Nat
    /\ PingScan \in BOOLEAN /\ ConnectScan \in BOOLEAN
    /\ ArpScan \in BOOLEAN /\ (ArpScan => PingScan /\ ~ConnectScan)
    /\ NorespOpen \in BOOLEAN /\ ImmediateConnect \in BOOLEAN
    /\ DiscoveryIgnoreRst \in BOOLEAN /\ DefeatRatelimit \in BOOLEAN
    /\ Responses \subseteq PortStates /\ Errnos \subseteq ConnectErrnos
    /\ LowCwnd \in Nat \ {0} /\ MaxCwnd \in Nat /\ LowCwnd <= MaxCwnd

-----------------------------------------------------------------------------
(* UltraProbe.  A probe with pingseq > 0 is a timing ping.  sd is the state *)
(* of a connect probe's socket: none (raw probe, or closed), watched by     *)
(* select(), or drained: still watched but its SO_ERROR was already read.   *)
UltraProbe ==
    [port: Ports, tryno: 0..TrynoCap, pingseq: 0..MaxPings,
     timedout: BOOLEAN, retransmitted: BOOLEAN,
     sd: {"none", "watched", "drained"}]

NewProbe(port, tryno, pingseq) ==
    [port |-> port, tryno |-> tryno, pingseq |-> pingseq,
     timedout |-> FALSE, retransmitted |-> FALSE, sd |-> "none"]

isPing(p) == p.pingseq > 0

\* Probes that num_probes_active counts.
Active(P) == {p \in P : ~p.timedout}

\* Probes that num_probes_waiting_retransmit counts.
Awaiting(P) == {p \in P : ~isPing(p) /\ p.timedout /\ ~p.retransmitted}

\* Probes whose socket is in the fd_sets of ConnectScanInfo.
Watched(P) == {p \in P : p.sd # "none"}

NoPing == [port |-> NONE, state |-> "none"]

PingProbes == {NoPing} \cup [port: Ports, state: PortStates \cup {"unknown"}]

ASSUME PingAssumption ==
    StartPings \subseteq PingProbes /\ (PingScan => StartPings = {NoPing})

HostScanStats ==
    [fresh: SUBSET Ports,                 \* ports next_portidx has not reached
     probes_outstanding: SUBSET UltraProbe,
     num_probes_active: Int,
     num_probes_waiting_retransmit: Int,
     probe_bench: Seq(Ports),
     bench_tryno: 0..TrynoCap,
     retry_stack: Seq([port: Ports, tries: 0..TrynoCap - 1]),
     max_successful_tryno: 0..TrynoCap,
     tryno_mayincrease: BOOLEAN,
     cwnd: LowCwnd..MaxCwnd,
     pingprobe: PingProbes,
     nxtpseq: 1..MaxPings + 1,
     rld_max_tryno_sent: 0..TrynoCap,
     rld: {"no", "waiting", "over"},      \* rld_waiting; over: waittime has passed
     clock: {"idle", "running", "stopped"},
     timedOut: BOOLEAN,
     flags: {"unknown", "up", "down"},    \* target->flags
     port_state: [Ports -> PortStates \cup {"default"}],
     seen: [Ports -> SUBSET PortStates],  \* history: states answers have meant
     tries: [Ports -> Nat]]               \* history: probes sent for the port

\* scan_performance_vars::init(): box(low_cwnd, max_cwnd, 10).
InitialCwnd ==
    IF 10 < LowCwnd THEN LowCwnd ELSE IF 10 > MaxCwnd THEN MaxCwnd ELSE 10

\* A port scan keeps the pingprobe that host discovery or an earlier port scan
\* found, unless this type of scan cannot use it.
HostInit(pp) ==
    [fresh |-> Ports, probes_outstanding |-> {},
     num_probes_active |-> 0, num_probes_waiting_retransmit |-> 0,
     probe_bench |-> <<>>, bench_tryno |-> 0, retry_stack |-> <<>>,
     max_successful_tryno |-> 0, tryno_mayincrease |-> TRUE,
     cwnd |-> InitialCwnd, pingprobe |-> pp, nxtpseq |-> 1,
     rld_max_tryno_sent |-> 0, rld |-> "no",
     clock |-> "idle", timedOut |-> FALSE, flags |-> "unknown",
     port_state |-> [q \in Ports |-> "default"],
     seen |-> [q \in Ports |-> {}], tries |-> [q \in Ports |-> 0]]

GroupInit == [num_probes_active |-> 0, numSDs |-> 0, cwnd |-> InitialCwnd]

One(b) == IF b THEN 1 ELSE 0

-----------------------------------------------------------------------------
(* Questions the engine asks about a host.                                  *)

\* Seeded fault: probes that await their retransmission do not hold the host back.
completed_IgnoresRetransmits(s) ==
    /\ s.num_probes_active = 0
    /\ s.probe_bench = <<>> /\ s.retry_stack = <<>>
    /\ \/ PingScan /\ s.flags \in {"up", "down"}
       \/ s.fresh = {}

completed(s) ==
    /\ s.num_probes_active = 0 /\ s.num_probes_waiting_retransmit = 0
    /\ s.probe_bench = <<>> /\ s.retry_stack = <<>>
    /\ \/ PingScan /\ s.flags \in {"up", "down"}
       \/ s.fresh = {}

\* Seeded fault: --max-retries is not enforced.
allowedTryno_Uncapped(s) == s.max_successful_tryno + 1

\* The value allowedTryno() returns ...
allowedTryno(s) ==
    IF s.max_successful_tryno + 1 > TrynoCap
    THEN TrynoCap
    ELSE s.max_successful_tryno + 1

\* Seeded fault: the number of tries is never considered final.
MayIncrease_Forever(s) == TRUE

\* ... and what it leaves in tryno_mayincrease on the way.
MayIncrease(s) ==
    /\ s.tryno_mayincrease
    /\ s.max_successful_tryno + 1 <= TrynoCap
    /\ \/ s.num_probes_active # 0
       \/ s.fresh # {}
       \/ \E p \in s.probes_outstanding :
             ~p.retransmitted /\ ~isPing(p) /\ p.tryno < allowedTryno(s)

\* HostScanStats::sendOK(NULL), without --min-rate and without the scan delay
\* (a caller may always stop sending).  getTiming() returns the host's own window
\* until the host has been sent 80 probes.
HostSendOK(s) ==
    /\ ~s.timedOut /\ ~completed(s)
    /\ IF s.rld # "no"
       THEN s.rld = "over"
       ELSE /\ s.num_probes_active < s.cwnd
            /\ \/ s.fresh # {}
               \/ s.num_probes_waiting_retransmit # 0
               \/ s.retry_stack # <<>>

pingprobe_score(pp) ==
    CASE pp = NoPing -> 0
      [] pp # NoPing /\ ConnectScan -> 1
      [] pp # NoPing /\ ~ConnectScan /\ pp.state = "filtered" -> 2
      [] pp # NoPing /\ ~ConnectScan /\ pp.state \in {"open", "unknown"} -> 3
      [] OTHER -> 6

-----------------------------------------------------------------------------
(* Congestion control.                                                      *)

\* Windows that ultrascan_adjust_timing can leave when probe p was answered
\* (rcvd) or given up on: a drop is noticed for an answer to a retransmission
\* and for a silent ping, at most once per batch, and an answer is an ack.
AdjustedTiming(u, p, rcvd) ==
    LET dropped == (p.tryno > 0 /\ rcvd) \/ (isPing(p) /\ ~rcvd)
        Windows(c) == (IF dropped THEN LowCwnd ELSE c)
                         .. (IF rcvd THEN MaxCwnd ELSE c)
    IN  {[hss |-> [u.hss EXCEPT !.cwnd = c], g |-> [u.g EXCEPT !.cwnd = d]] :
            c \in Windows(u.hss.cwnd), d \in Windows(u.g.cwnd)}

-----------------------------------------------------------------------------
(* The life of a probe.                                                     *)

\* Seeded fault: num_probes_waiting_retransmit is left alone.
destroyOutstandingProbe_KeepsWaiting(u, p) ==
    [hss |-> [u.hss EXCEPT
                !.probes_outstanding = @ \ {p},
                !.num_probes_active = @ - One(~p.timedout)],
     g   |-> [u.g EXCEPT
                !.num_probes_active = @ - One(~p.timedout),
                !.numSDs = @ - One(p.sd # "none")]]

destroyOutstandingProbe(u, p) ==
    [hss |-> [u.hss EXCEPT
                !.probes_outstanding = @ \ {p},
                !.num_probes_active = @ - One(~p.timedout),
                !.num_probes_waiting_retransmit =
                    @ - One(~isPing(p) /\ p.timedout /\ ~p.retransmitted)],
     g   |-> [u.g EXCEPT
                !.num_probes_active = @ - One(~p.timedout),
                !.numSDs = @ - One(p.sd # "none")]]

destroyAllOutstandingProbes(u) ==
    LET P == u.hss.probes_outstanding
    IN  [hss |-> [u.hss EXCEPT
                    !.probes_outstanding = {},
                    !.num_probes_active = @ - Cardinality(Active(P)),
                    !.num_probes_waiting_retransmit = @ - Cardinality(Awaiting(P))],
         g   |-> [u.g EXCEPT
                    !.num_probes_active = @ - Cardinality(Active(P)),
                    !.numSDs = @ - Cardinality(Watched(P))]]

TimedOutProbe(p) == [p EXCEPT !.timedout = TRUE, !.sd = "none"]

\* Seeded faults of markProbeTimedout: the group's count or the socket is
\* forgotten.
TimedOut(u, p, active, sds) ==
    AdjustedTiming(
        [hss |-> [u.hss EXCEPT
                    !.probes_outstanding = (@ \ {p}) \cup {TimedOutProbe(p)},
                    !.num_probes_active = @ - 1,
                    !.num_probes_waiting_retransmit = @ + One(~isPing(p))],
         g   |-> [u.g EXCEPT !.num_probes_active = @ - active, !.numSDs = @ - sds]],
        p, FALSE)

markProbeTimedout_HostOnly(u, p) == TimedOut(u, p, 0, One(p.sd # "none"))

markProbeTimedout(u, p) ==
    AdjustedTiming(
        [hss |-> [u.hss EXCEPT
                    !.probes_outstanding = (@ \ {p}) \cup {TimedOutProbe(p)},
                    !.num_probes_active = @ - 1,
                    !.num_probes_waiting_retransmit = @ + One(~isPing(p))],
         g   |-> [u.g EXCEPT
                    !.num_probes_active = @ - 1,
                    !.numSDs = @ - One(p.sd # "none")]],
        p, FALSE)

moveProbeToBench(s, p) ==
    [s EXCEPT
        !.bench_tryno = IF s.probe_bench = <<>> THEN p.tryno ELSE @,
        !.probe_bench = Append(@, p.port),
        !.probes_outstanding = @ \ {p},
        !.num_probes_waiting_retransmit = @ - 1]

dismissBench(s) ==
    [s EXCEPT
        !.flags = IF PingScan /\ @ # "up" THEN "down" ELSE @,
        !.probe_bench = <<>>,
        !.bench_tryno = 0]

\* Seeded fault: the bench goes to the bottom of the stack.
retransmitBench_AtBottom(s) ==
    [s EXCEPT
        !.retry_stack = [i \in 1..Len(s.probe_bench) |->
                           [port |-> s.probe_bench[i], tries |-> s.bench_tryno]] \o @,
        !.probe_bench = <<>>,
        !.bench_tryno = 0]

retransmitBench(s) ==
    [s EXCEPT
        !.retry_stack = @ \o [i \in 1..Len(s.probe_bench) |->
                                [port |-> s.probe_bench[i], tries |-> s.bench_tryno]],
        !.probe_bench = <<>>,
        !.bench_tryno = 0]

-----------------------------------------------------------------------------
(* What an answer does.                                                     *)

ultrascan_ping_update(u, p, rcvd) ==
    {destroyOutstandingProbe(v, p) : v \in AdjustedTiming(u, p, rcvd)}

\* Seeded fault: a late ICMP error overrides an answer from the port itself.
ultrascan_port_pspec_update_IcmpWins(old, new) ==
    IF new = "filtered" \/ old \in {"default", "filtered", "unfiltered"} THEN new ELSE old

\* Which answer wins when a port has answered before.
ultrascan_port_pspec_update(old, new) ==
    CASE old = "default" -> new
      [] old = "open" -> IF NorespOpen THEN new ELSE old
      [] old = "closed" -> IF ~NorespOpen /\ new # "filtered" THEN new ELSE old
      [] old = "filtered" -> IF ~NorespOpen \/ new # "open" THEN new ELSE old
      [] old = "unfiltered" -> IF new \in {"open", "closed"} THEN new ELSE old

\* The pingprobe an answer that means `state' leaves behind.
BetterPing(s, p, state) ==
    LET pp == [port |-> p.port, state |-> state]
    IN  IF pingprobe_score(pp) > pingprobe_score(s.pingprobe)
        THEN pp ELSE s.pingprobe

\* Answers that hosts and routers limit in rate: a late one is no drop.
RateLimited(new) ==
    IF NorespOpen
    THEN DefeatRatelimit /\ new \in {"closed", "filtered"}
    ELSE new = "filtered" \/ (DefeatRatelimit /\ new = "closed")

ultrascan_port_probe_update(u, p, new) ==
    LET adjust == ~(RateLimited(new) /\ p.tryno > 0)
        s      == u.hss
        t      == [s EXCEPT
                     !.port_state[p.port] = ultrascan_port_pspec_update(@, new),
                     !.seen[p.port] = @ \cup {new},
                     !.max_successful_tryno =
                         IF adjust /\ p.tryno > @ THEN p.tryno ELSE @,
                     !.pingprobe = IF RateLimited(new) THEN @ ELSE BetterPing(s, p, new)]
        v      == destroyOutstandingProbe([u EXCEPT !.hss = t], p)
    IN  IF adjust THEN AdjustedTiming(v, p, TRUE) ELSE {v}

\* newstate is "up" or "down"; rcvd is FALSE when the probe was given up on.
ultrascan_host_probe_update(u, p, newstate, rcvd) ==
    LET s == u.hss
        t == [s EXCEPT
                !.flags = IF @ = "up" THEN @ ELSE newstate,
                !.pingprobe = IF rcvd /\ newstate = "up"
                              THEN BetterPing(s, p, "unknown") ELSE @]
        v == destroyOutstandingProbe([u EXCEPT !.hss = t], p)
    IN  IF rcvd /\ newstate = "down" /\ p.tryno > 0
        THEN {v} ELSE AdjustedTiming(v, p, rcvd)

\* A response that settles whether the host is up, in a ping scan.
HostAnswer(u, p, newstate) ==
    {IF newstate = "up" THEN destroyAllOutstandingProbes(v) ELSE v :
        v \in ultrascan_host_probe_update(u, p, newstate, TRUE)}

NewHostState(e) ==
    CASE e \in {"accept", "self", "eagain"} -> "up"
      [] e = "refused" -> IF DiscoveryIgnoreRst THEN "unknown" ELSE "up"
      [] e = "unreach" -> "down"
      [] e = "strange" -> "unknown"

NewPortState(e) ==
    CASE e \in {"accept", "self"} -> "open"
      [] e = "refused" -> "closed"
      [] e = "unreach" -> "filtered"
      [] e \in {"eagain", "strange"} -> "unknown"

\* Seeded fault: an answer destroys all probes of the host in a port scan too.
handleConnectResult_DestroysAll(u, p, e, destroy_probe) ==
    IF NewPortState(e) = "unknown"
    THEN {IF destroy_probe THEN destroyOutstandingProbe(u, p) ELSE u}
    ELSE {destroyAllOutstandingProbes(v) :
            v \in ultrascan_port_probe_update(u, p, NewPortState(e))}

\* getsockname() is taken to succeed.
handleConnectResult(u, p, e, destroy_probe) ==
    CASE isPing(p) /\ NewHostState(e) # "unknown" ->
            ultrascan_ping_update(u, p, TRUE)
      [] ~isPing(p) /\ PingScan /\ NewHostState(e) # "unknown" ->
            HostAnswer(u, p, NewHostState(e))
      [] (~isPing(p) \/ NewHostState(e) = "unknown") /\ ~PingScan
            /\ NewPortState(e) # "unknown" ->
            IF e = "self"
            THEN markProbeTimedout(u, p)
            ELSE ultrascan_port_probe_update(u, p, NewPortState(e))
      [] OTHER -> {IF destroy_probe THEN destroyOutstandingProbe(u, p) ELSE u}

-----------------------------------------------------------------------------
(* Sending a probe: sendIPScanProbe, sendArpScanProbe, sendNDScanProbe and  *)
(* sendConnectScanProbe.                                                    *)

Enqueue(u, p) ==
    [hss |-> [u.hss EXCEPT
                !.probes_outstanding = @ \cup {p},
                !.num_probes_active = @ + 1,
                !.tries[p.port] = IF isPing(p) THEN @ ELSE @ + 1],
     g   |-> [u.g EXCEPT
                !.num_probes_active = @ + 1,
                !.numSDs = @ + One(p.sd # "none")]]

sendScanProbe(u, p) ==
    IF ~ConnectScan
    THEN {Enqueue(u, p)}
    ELSE {Enqueue(u, [p EXCEPT !.sd = "watched"])}
            \cup (IF ImmediateConnect
                  THEN UNION {handleConnectResult(Enqueue(u, p), p, e, TRUE) : e \in Errnos \ {"eagain"}}
                  ELSE {})
=============================================================================
