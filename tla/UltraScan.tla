----------------------------- MODULE UltraScan -----------------------------
(***************************************************************************)
(* The main loop of ultra_scan() (scan_engine.cc): one thread that, round  *)
(* after round, sends timing pings, retransmissions, retries and fresh     *)
(* probes while the congestion control allows it, waits for answers, and   *)
(* expires probes and hosts.  The environment chooses which probes are     *)
(* answered, when, and by what; how long a probe has been outstanding when *)
(* processData() looks at it; and when a host's --host-timeout runs out.   *)
(*                                                                         *)
(* Each phase is one function of the loop and each action one iteration of *)
(* that function.  A phase may always be left early: the clock gates of    *)
(* sendOK (scan delay, --max-rate, 50 sends per wait) are not modelled, so *)
(* the code can stop sending whenever the model can.                       *)
(***************************************************************************)
EXTENDS HostScanStats

CONSTANTS
    Hosts,        \* the targets of this call
    MaxSockets,   \* CSI->maxSocketsAllowed
    HostTimeout   \* --host-timeout is given

ASSUME UltraScanAssumption ==
    /\ IsFiniteSet(Hosts) /\ NONE \notin Hosts
    /\ MaxSockets \in Nat \ {0} /\ HostTimeout \in BOOLEAN

VARIABLES
    hss,              \* HostScanStats of every host
    gstats,           \* GroupScanStats and ConnectScanInfo
    incompleteHosts,
    completedHosts,   \* recently completed; an old one is dropped for good
    pinghost,         \* gstats->pinghost
    phase,            \* where the loop is
    todo,             \* hosts the current function has yet to visit
    cur               \* processData's locals for the host it is visiting

vars == <<hss, gstats, incompleteHosts, completedHosts, pinghost, phase, todo, cur>>

Phases == {"pings", "retransmits", "retries", "new", "wait", "process",
           "expire", "globalpings", "done", "abort"}

NoCur == [host |-> NONE, maxtries |-> 0, mayincrease |-> FALSE, rest |-> {}]

Init ==
    /\ hss \in [Hosts -> {HostInit(pp) : pp \in StartPings}]
    /\ gstats = GroupInit
    /\ incompleteHosts = Hosts /\ completedHosts = {}
    /\ pinghost = NONE
    /\ phase = "pings" /\ todo = Hosts
    /\ cur = NoCur

View(h) == [hss |-> hss[h], g |-> gstats]

Commit(h, u) ==
    /\ hss' = [hss EXCEPT ![h] = u.hss]
    /\ gstats' = u.g

\* Seeded fault: one socket too many.
GroupSendOK_OneMore ==
    /\ ConnectScan => gstats.numSDs <= MaxSockets
    /\ \/ Cardinality(incompleteHosts) < 2
       \/ gstats.num_probes_active < gstats.cwnd

\* GroupScanStats::sendOK(NULL).
GroupSendOK ==
    /\ ConnectScan => gstats.numSDs < MaxSockets
    /\ \/ Cardinality(incompleteHosts) < 2
       \/ gstats.num_probes_active < gstats.cwnd

Lists == <<incompleteHosts, completedHosts, pinghost>>

-----------------------------------------------------------------------------
(* doAnyPings                                                               *)

SendPing(h) ==
    /\ hss[h].pingprobe # NoPing
    /\ hss[h].nxtpseq <= MaxPings
    /\ LET s == hss[h]
           u == [View(h) EXCEPT !.hss = [s EXCEPT !.nxtpseq = @ + 1]]
       IN  \E v \in sendScanProbe(u, NewProbe(s.pingprobe.port, 0, s.nxtpseq)) :
             Commit(h, v)

HostPing(h) ==
    /\ phase = "pings" /\ h \in todo
    /\ hss[h].rld = "no"
    /\ GroupSendOK /\ HostSendOK(hss[h])
    /\ SendPing(h)
    /\ todo' = todo \ {h}
    /\ UNCHANGED <<Lists, phase, cur>>

GlobalPing ==
    /\ phase = "pings" /\ pinghost # NONE
    /\ hss[pinghost].num_probes_active = 0
    /\ GroupSendOK
    /\ SendPing(pinghost)
    /\ phase' = "retransmits" /\ todo' = {}
    /\ UNCHANGED <<Lists, cur>>

EndPings ==
    /\ phase = "pings"
    /\ phase' = "retransmits" /\ todo' = {}
    /\ UNCHANGED <<hss, gstats, Lists, cur>>

-----------------------------------------------------------------------------
(* doAnyOutstandingRetransmits                                              *)

\* The host the loop stands at may retransmit; allowedTryno() has been called.
MayRetransmit(h) ==
    /\ phase = "retransmits" /\ h \in incompleteHosts
    /\ GroupSendOK /\ HostSendOK(hss[h])
    /\ \/ hss[h].num_probes_active # 0
       \/ hss[h].num_probes_waiting_retransmit # 0

Retransmittable(s) ==
    {p \in Awaiting(s.probes_outstanding) : p.tryno < allowedTryno(s)}

AfterAllowedTryno(s) == [s EXCEPT !.tryno_mayincrease = MayIncrease(s)]

NothingToRetransmit(h) ==
    /\ MayRetransmit(h)
    /\ Retransmittable(hss[h]) = {}
    /\ hss' = [hss EXCEPT ![h] = AfterAllowedTryno(@)]
    /\ UNCHANGED <<gstats, Lists, phase, todo, cur>>

\* Rate-limit detection: pause before a try number is used for the first time.
IsFirstUse(s, p) ==
    /\ p.tryno + 1 > s.rld_max_tryno_sent
    /\ Cardinality(Ports) > 1 \/ ArpScan

BeginRateLimitWait(h) ==
    /\ MayRetransmit(h)
    /\ \E p \in Retransmittable(hss[h]) :
         /\ IsFirstUse(hss[h], p)
         /\ hss' = [hss EXCEPT ![h] = [AfterAllowedTryno(@) EXCEPT
                      !.rld_max_tryno_sent = p.tryno + 1, !.rld = "waiting"]]
    /\ UNCHANGED <<gstats, Lists, phase, todo, cur>>

\* Seeded fault: the old probe is not marked retransmitted.
Retransmitted_Unmarked(u, p) == u

\* retransmitProbe().  If the new probe's connect() settled the host at once,
\* all probes are gone, the old one too, and the assertion aborts the program.
Retransmitted(u, p) ==
    [hss |-> [u.hss EXCEPT
                !.probes_outstanding = (@ \ {p}) \cup {[p EXCEPT !.retransmitted = TRUE]},
                !.num_probes_waiting_retransmit = @ - 1],
     g   |-> u.g]

Retransmit(h) ==
    /\ MayRetransmit(h)
    /\ \E p \in Retransmittable(hss[h]) :
         /\ ~IsFirstUse(hss[h], p)
         /\ LET s == [AfterAllowedTryno(hss[h]) EXCEPT !.rld = "no"]
            IN  \E v \in sendScanProbe([View(h) EXCEPT !.hss = s],
                                       NewProbe(p.port, p.tryno + 1, 0)) :
                  IF v.hss.num_probes_waiting_retransmit > 0
                  THEN Commit(h, Retransmitted(v, p)) /\ phase' = phase
                  ELSE Commit(h, v) /\ phase' = "abort"
    /\ UNCHANGED <<Lists, todo, cur>>

EndRetransmits ==
    /\ phase = "retransmits"
    /\ phase' = "retries"
    /\ UNCHANGED <<hss, gstats, Lists, todo, cur>>

-----------------------------------------------------------------------------
(* doAnyRetryStackRetransmits and doAnyNewProbes                            *)

SendRetry(h) ==
    /\ phase = "retries" /\ h \in incompleteHosts
    /\ hss[h].retry_stack # <<>>
    /\ GroupSendOK /\ HostSendOK(hss[h])
    /\ LET s   == hss[h]
           top == s.retry_stack[Len(s.retry_stack)]
           t   == [s EXCEPT !.retry_stack = SubSeq(@, 1, Len(@) - 1)]
       IN  \E v \in sendScanProbe([View(h) EXCEPT !.hss = t],
                                  NewProbe(top.port, top.tries + 1, 0)) :
             Commit(h, v)
    /\ UNCHANGED <<Lists, phase, todo, cur>>

EndRetries ==
    /\ phase = "retries"
    /\ phase' = "new"
    /\ UNCHANGED <<hss, gstats, Lists, todo, cur>>

SendNew(h) ==
    /\ phase = "new" /\ h \in incompleteHosts
    /\ GroupSendOK /\ HostSendOK(hss[h])
    /\ \E q \in hss[h].fresh :
         LET s == [hss[h] EXCEPT !.fresh = @ \ {q},
                                 !.clock = IF @ = "idle" THEN "running" ELSE @]
         IN  \E v \in sendScanProbe([View(h) EXCEPT !.hss = s], NewProbe(q, 0, 0)) :
               Commit(h, v)
    /\ UNCHANGED <<Lists, phase, todo, cur>>

\* printAnyStats(), when it prints, calls allowedTryno() for every host.
EndNew ==
    /\ phase = "new"
    /\ phase' = "wait"
    /\ \/ hss' = hss
       \/ hss' = [h \in Hosts |-> IF h \in incompleteHosts
                                  THEN AfterAllowedTryno(hss[h]) ELSE hss[h]]
    /\ UNCHANGED <<gstats, Lists, todo, cur>>

-----------------------------------------------------------------------------
(* waitForResponses                                                         *)

\* The wait goes on after an answer only while probes are active.
WaitOn == phase' = IF gstats'.num_probes_active > 0 THEN "wait" ELSE "process"

\* A packet is matched to a probe that is still listed, timed out or not, of a
\* host that is scanned or was scanned recently; results is what it can lead to.
Answered(h, results) ==
    /\ phase = "wait" /\ ~ConnectScan
    /\ h \in incompleteHosts \cup completedHosts
    /\ \E v \in results : Commit(h, v)
    /\ WaitOn
    /\ UNCHANGED <<Lists, todo, cur>>

Pings(s) == {p \in s.probes_outstanding : isPing(p)}

ScanProbes(s) == {p \in s.probes_outstanding : ~isPing(p)}

\* The answer to a timing ping ...
PingAnswer(h) ==
    ~ArpScan /\ Answered(h,
        UNION {ultrascan_ping_update(View(h), p, TRUE) : p \in Pings(hss[h])})

\* ... to a probe of a port scan (get_pcap_result) ...
PortAnswer(h) ==
    ~PingScan /\ Answered(h,
        UNION {ultrascan_port_probe_update(View(h), p, r) :
                 p \in ScanProbes(hss[h]), r \in Responses})

\* ... of a ping scan (get_ping_pcap_result) ...
DiscoveryAnswer(h) ==
    PingScan /\ ~ArpScan /\ Answered(h,
        UNION {HostAnswer(View(h), p, r) :
                 p \in ScanProbes(hss[h]), r \in {"up", "down"}})

\* ... and of an ARP or neighbor discovery scan, which knows no pings.
ArpAnswer(h) ==
    ArpScan /\ Answered(h,
        UNION {HostAnswer(View(h), p, "up") : p \in hss[h].probes_outstanding})

\* get_arp_result, get_ns_result: a reply from a host with no probe outstanding.
UnsolicitedReply(h) ==
    /\ phase = "wait" /\ ArpScan
    /\ h \in incompleteHosts \cup completedHosts
    /\ hss[h].probes_outstanding = {}
    /\ hss' = [hss EXCEPT ![h].flags = "up"]
    /\ UNCHANGED <<gstats, Lists, phase, todo, cur>>

\* do_one_select_round: the socket is ready; getsockopt(SO_ERROR) returns the
\* pending error and clears it, so a second look at the socket reads 0.
SelectAnswer(h) ==
    /\ phase = "wait" /\ ConnectScan
    /\ h \in incompleteHosts \cup completedHosts
    /\ \E p \in Watched(hss[h].probes_outstanding) :
       \E e \in (IF p.sd = "drained" THEN {"accept"} ELSE Errnos) :
         LET q == [p EXCEPT !.sd = "drained"]
             s == [hss[h] EXCEPT !.probes_outstanding = (@ \ {p}) \cup {q}]
             u == [View(h) EXCEPT !.hss = s]
         IN  \E v \in handleConnectResult(u, q, e, FALSE) : Commit(h, v)
    /\ WaitOn
    /\ UNCHANGED <<Lists, todo, cur>>

\* Time passes while the engine waits.
RateLimitWaitOver(h) ==
    /\ phase = "wait" /\ hss[h].rld = "waiting"
    /\ hss' = [hss EXCEPT ![h].rld = "over"]
    /\ UNCHANGED <<gstats, Lists, phase, todo, cur>>

HostClockExpires(h) ==
    /\ phase = "wait" /\ HostTimeout
    /\ hss[h].clock = "running" /\ ~hss[h].timedOut
    /\ hss' = [hss EXCEPT ![h].timedOut = TRUE]
    /\ UNCHANGED <<gstats, Lists, phase, todo, cur>>

EndWait ==
    /\ phase = "wait"
    /\ phase' = "process"
    /\ UNCHANGED <<hss, gstats, Lists, todo, cur>>

-----------------------------------------------------------------------------
(* processData                                                              *)

\* Hosts removeCompletedHosts() moves to completedHosts ...
Leaving == {h \in incompleteHosts : completed(hss[h]) \/ hss[h].timedOut}

\* ... one after the other, each of which may take over from ping host a ...
TakesOver(h, a) ==
    IF a = NONE
    THEN hss[h].pingprobe # NoPing
    ELSE /\ hss[a].num_probes_active = 0
         /\ pingprobe_score(hss[h].pingprobe) >= pingprobe_score(hss[a].pingprobe)

\* ... so that these are the ping hosts the moves, in some order, can end with.
NextPinghosts ==
    LET Last[S \in SUBSET Leaving] == [a \in Hosts \cup {NONE} |->
            IF S = {} THEN {a}
            ELSE UNION {Last[S \ {h}][IF TakesOver(h, a) THEN h ELSE a] : h \in S}]
    IN  {a \in Hosts \cup {NONE} : a \in Last[Leaving][pinghost]}

removeCompletedHosts ==
    /\ pinghost' \in NextPinghosts
    /\ incompleteHosts' = incompleteHosts \ Leaving
    /\ \E old \in SUBSET (completedHosts \ {pinghost}) :
         completedHosts' = (completedHosts \ old) \cup Leaving
    /\ hss' = [h \in Hosts |-> IF h \in Leaving /\ hss[h].clock = "running"
                               THEN [hss[h] EXCEPT !.clock = "stopped"]
                               ELSE hss[h]]

StartProcess ==
    /\ phase = "process"
    /\ removeCompletedHosts
    /\ phase' = IF incompleteHosts' = {} THEN "done" ELSE "expire"
    /\ todo' = incompleteHosts'
    /\ UNCHANGED <<gstats, cur>>

\* Seeded fault: a bench is dismissed but never retried.
AfterBench_NeverRetried(s) ==
    IF s.probe_bench # <<>> /\ ~s.tryno_mayincrease THEN dismissBench(s) ELSE s

\* The bench is dismissed when its tries are final, retried when it may be.
AfterBench(s) ==
    CASE s.probe_bench # <<>> /\ allowedTryno(s) = s.bench_tryno
            /\ ~s.tryno_mayincrease -> dismissBench(s)
      [] s.probe_bench # <<>> /\ allowedTryno(s) > s.bench_tryno -> retransmitBench(s)
      [] OTHER -> s

VisitHost(h) ==
    /\ phase = "expire" /\ cur = NoCur /\ h \in todo
    /\ LET s == AfterAllowedTryno(hss[h])
       IN  /\ hss' = [hss EXCEPT ![h] = AfterBench(s)]
           /\ cur' = [host |-> h, maxtries |-> allowedTryno(s),
                      mayincrease |-> s.tryno_mayincrease,
                      rest |-> s.probes_outstanding]
    /\ todo' = todo \ {h}
    /\ UNCHANGED <<gstats, Lists, phase>>

\* A connect probe expires when it times out, a raw one ten times later.
Ages == IF ConnectScan THEN {"young", "expired"} ELSE {"young", "late", "expired"}

Waits(p) == ~isPing(p) /\ p.timedout /\ ~p.retransmitted

ExpireProbe(p, age) ==
    LET h == cur.host
    IN  /\ phase = "expire" /\ p \in cur.rest
        /\ cur' = [cur EXCEPT !.rest = @ \ {p}]
        /\ \/ /\ ~p.timedout /\ age # "young"
              /\ \E v \in markProbeTimedout(View(h), p) : Commit(h, v)
           \/ /\ Waits(p) /\ ~cur.mayincrease /\ p.tryno >= cur.maxtries
              /\ IF PingScan
                 THEN \E v \in ultrascan_host_probe_update(View(h), p, "down", FALSE) :
                        Commit(h, v)
                 ELSE Commit(h, destroyOutstandingProbe(View(h), p))
           \/ /\ Waits(p) /\ cur.mayincrease /\ p.tryno >= cur.maxtries
              /\ age = "expired"
              /\ Commit(h, [View(h) EXCEPT !.hss = moveProbeToBench(@, p)])
           \/ /\ p.timedout /\ ~Waits(p) /\ age = "expired"
              /\ Commit(h, destroyOutstandingProbe(View(h), p))
           \/ /\ \/ ~p.timedout /\ age = "young"
                 \/ Waits(p) /\ p.tryno < cur.maxtries
                 \/ Waits(p) /\ cur.mayincrease /\ age # "expired"
                 \/ p.timedout /\ ~Waits(p) /\ age # "expired"
              /\ UNCHANGED <<hss, gstats>>
        /\ UNCHANGED <<Lists, phase, todo>>

FinishHost ==
    /\ phase = "expire" /\ cur # NoCur /\ cur.rest = {}
    /\ cur' = NoCur
    /\ UNCHANGED <<hss, gstats, Lists, phase, todo>>

FinishHosts ==
    /\ phase = "expire" /\ cur = NoCur /\ todo = {}
    /\ removeCompletedHosts
    /\ phase' = "globalpings"
    /\ UNCHANGED <<gstats, todo, cur>>

\* A global ping past its timeout makes room for a new ping host.
ExpireGlobalPing ==
    /\ phase = "globalpings" /\ pinghost # NONE
    /\ \E p \in hss[pinghost].probes_outstanding :
         /\ isPing(p)
         /\ \E v \in ultrascan_ping_update(View(pinghost), p, FALSE) :
              Commit(pinghost, v)
    /\ UNCHANGED <<Lists, phase, todo, cur>>

EndRound ==
    /\ phase = "globalpings"
    /\ phase' = IF incompleteHosts = {} THEN "done" ELSE "pings"
    /\ todo' = incompleteHosts
    /\ UNCHANGED <<hss, gstats, Lists, cur>>

Terminating == phase \in {"done", "abort"} /\ UNCHANGED vars

-----------------------------------------------------------------------------
Next ==
    \/ \E h \in Hosts :
          \/ HostPing(h) \/ NothingToRetransmit(h) \/ BeginRateLimitWait(h)
          \/ Retransmit(h) \/ SendRetry(h) \/ SendNew(h)
          \/ PingAnswer(h) \/ PortAnswer(h) \/ DiscoveryAnswer(h) \/ ArpAnswer(h)
          \/ UnsolicitedReply(h) \/ SelectAnswer(h)
          \/ RateLimitWaitOver(h) \/ HostClockExpires(h) \/ VisitHost(h)
    \/ \E p \in cur.rest, age \in Ages : ExpireProbe(p, age)
    \/ GlobalPing \/ EndPings \/ EndRetransmits \/ EndRetries \/ EndNew
    \/ EndWait \/ StartProcess \/ FinishHost \/ FinishHosts
    \/ ExpireGlobalPing \/ EndRound \/ Terminating

Spec == Init /\ [][Next]_vars

-----------------------------------------------------------------------------
(* Fairness: the loop keeps running, and what it may do again and again it  *)
(* does at last, because the clock gates that make it stop early reopen     *)
(* with time and because a probe that is looked at often enough has expired.*)

ExpireOne(h, q) == cur.host = h /\ \E p \in cur.rest : p.port = q /\ ExpireProbe(p, "expired")

Fairness ==
    /\ WF_vars(Next)
    /\ \A h \in Hosts :
         /\ SF_vars(BeginRateLimitWait(h)) /\ SF_vars(Retransmit(h))
         /\ SF_vars(SendRetry(h)) /\ SF_vars(SendNew(h))
         /\ SF_vars(RateLimitWaitOver(h)) /\ \A q \in Ports : SF_vars(ExpireOne(h, q))

FairSpec == Spec /\ Fairness

-----------------------------------------------------------------------------
(* Properties                                                               *)

TypeOK ==
    /\ hss \in [Hosts -> HostScanStats]
    /\ gstats \in [num_probes_active: Int, numSDs: Int, cwnd: LowCwnd..MaxCwnd]
    /\ incompleteHosts \subseteq Hosts /\ completedHosts \subseteq Hosts
    /\ pinghost \in Hosts \cup {NONE}
    /\ phase \in Phases
    /\ todo \subseteq Hosts
    /\ cur = NoCur \/ cur \in [host: Hosts, maxtries: 0..TrynoCap,
                               mayincrease: BOOLEAN, rest: SUBSET UltraProbe]

\* The three counters kept by hand in destroyOutstandingProbe, markProbeTimedout,
\* moveProbeToBench, retransmitProbe and the send functions never drift from the
\* list they describe (so none of the `assert(num_... > 0)' can fire).
HostCountersExact ==
    \A h \in Hosts :
        LET s == hss[h] IN
        /\ s.num_probes_active = Cardinality(Active(s.probes_outstanding))
        /\ s.num_probes_waiting_retransmit =
              Cardinality(Awaiting(s.probes_outstanding))

AllOf(Sub(_)) == UNION {{h} \X Sub(hss[h].probes_outstanding) : h \in Hosts}

\* GroupScanStats::num_probes_active and ConnectScanInfo::numSDs agree with the
\* probes of all hosts, whichever list a host is on.
GroupCountersExact ==
    /\ gstats.num_probes_active = Cardinality(AllOf(Active))
    /\ gstats.numSDs = Cardinality(AllOf(Watched))

\* A connect scan never holds more sockets than CSI->maxSocketsAllowed.
SocketsBounded == gstats.numSDs <= MaxSockets

RangeOf(f) == {f[i] : i \in DOMAIN f}

\* Where the next try of port q can come from.
Holders(s, q) ==
    Cardinality({p \in s.probes_outstanding :
                    p.port = q /\ ~isPing(p) /\ ~p.retransmitted})
    + One(q \in s.fresh)
    + Cardinality({i \in DOMAIN s.probe_bench : s.probe_bench[i] = q})
    + Cardinality({i \in DOMAIN s.retry_stack : s.retry_stack[i].port = q})

\* A port is in at most one place at a time (fresh, in flight, awaiting its
\* retransmission, benched, on the retry stack), and what is there carries the
\* number of the last try: no try number is used twice, none is skipped.
TriesAreSequential ==
    \A h \in Hosts : \A q \in Ports :
        LET s == hss[h] IN
        /\ Holders(s, q) <= 1
        /\ q \in s.fresh <=> s.tries[q] = 0
        /\ q \in RangeOf(s.probe_bench) => s.bench_tryno = s.tries[q] - 1
        /\ \A r \in RangeOf(s.retry_stack) : r.port = q => r.tries = s.tries[q] - 1
        /\ \A p \in s.probes_outstanding : p.port = q /\ ~isPing(p) =>
              p.tryno = s.tries[q] - 1 \/ (p.retransmitted /\ p.tryno < s.tries[q] - 1)

\* The assertions of moveProbeToBench and processData: while a host's probes are
\* expired no probe is past the allowed try number, and the probes that can join
\* the bench have the try number of those that sit there.
BenchUniform ==
    \A h \in Hosts :
        LET s == hss[h] IN
        /\ \A p \in Awaiting(s.probes_outstanding) : p.tryno <= allowedTryno(s)
        /\ s.probe_bench # <<>> => s.bench_tryno <= allowedTryno(s)
        /\ cur.host = h /\ s.probe_bench # <<>> /\ cur.mayincrease =>
              s.bench_tryno = cur.maxtries

\* "It is kept sorted such that probes with highest retry counts are on top"
\* (scan_engine.h): the retry stack never holds a lower count above a higher one.
RetryStackSorted ==
    \A h \in Hosts : LET r == hss[h].retry_stack IN
        \A i, j \in DOMAIN r : i < j => r[i].tries <= r[j].tries

Finished(h) == h \notin incompleteHosts /\ ~hss[h].timedOut

\* A port scan leaves a host only when each of its ports has answered or has
\* been tried, and retried as --max-retries allows, without an answer.
NoPortForgotten ==
    \A h \in Hosts : Finished(h) /\ ~PingScan =>
        \A q \in Ports : hss[h].seen[q] = {} =>
            hss[h].tries[q] >= IF TrynoCap = 0 THEN 1 ELSE 2

\* Host discovery leaves a host only with a verdict.
EveryHostJudged ==
    \A h \in Hosts : Finished(h) /\ PingScan => hss[h].flags # "unknown"

Rank(r) ==
    IF NorespOpen
    THEN CASE r = "open" -> 1 [] r = "filtered" -> 2 [] r = "closed" -> 3
           [] r = "unfiltered" -> 4
    ELSE CASE r = "filtered" -> 1 [] r = "unfiltered" -> 2 [] r = "closed" -> 3
           [] r = "open" -> 4

\* The state of a port is the most telling of the answers it gave, whatever
\* order the answers to its several tries arrive in.
PortStateIsBest ==
    \A h \in Hosts : \A q \in Ports :
        LET s == hss[h] IN
        IF s.seen[q] = {} THEN s.port_state[q] = "default"
        ELSE /\ s.port_state[q] \in s.seen[q]
             /\ \A r \in s.seen[q] : Rank(r) <= Rank(s.port_state[q])

\* No assertion of the program fails.
NoAbort == phase # "abort"

\* "These options control the total number of probes that may be outstanding"
\* (--max-parallelism, docs/nmap.1): no host has more active probes than that.
ParallelismBounded ==
    \A h \in Hosts : hss[h].num_probes_active <= MaxCwnd

\* tryno_mayincrease "becomes false if it becomes clear that tryno will not
\* increase further during the scan" (scan_engine.h).
MayIncreaseIsFinal ==
    [][\A h \in Hosts : ~hss[h].tryno_mayincrease
         => allowedTryno(hss'[h]) = allowedTryno(hss[h])]_vars

\* --discovery-ignore-rst "will prevent Nmap from considering [RST] replies during
\* host discovery" (docs/nmap.1): when every probe of a connect() ping scan that
\* is answered is answered by a RST, no host is reported up.
RstAloneProvesNothing ==
    ConnectScan /\ PingScan /\ DiscoveryIgnoreRst /\ Errnos = {"refused"} =>
        \A h \in Hosts : hss[h].flags # "up"

\* The scan ends.
ScanTerminates == <>(phase = "done")
=============================================================================
