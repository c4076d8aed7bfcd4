---------------------------- MODULE ServiceScan ----------------------------
(***************************************************************************)
(* Version detection (service_scan.cc): the ServiceGroup of a scan, the    *)
(* order in which a service's probes are tried, and the Nsock callbacks    *)
(* that drive every service from services_remaining over                   *)
(* services_in_progress to services_finished.                              *)
(*                                                                         *)
(* A probe is its place in nmap-service-probes; which probes suit a port,  *)
(* are too rare for the intensity, or can find a soft-matched service is   *)
(* given by constants. What a service answers, and what the answer         *)
(* matches, is chosen freely. A handler runs to its end, and then          *)
(* launchSomeServiceProbes() runs, if the handler calls it: launching is   *)
(* TRUE until that has nothing more to start.                              *)
(***************************************************************************)
EXTENDS Naturals, Sequences, FiniteSets, FiniteSetsExt, SequencesExt

CONSTANTS
    ServiceList,    \* services_remaining when the scan begins
    HostOf,         \* the host of a service
    Udp,            \* the services with a UDP port; the others are TCP
    Excluded,       \* services that nmap-service-probes excludes
    NumProbes,      \* probes after the NULL probe, in file order
    Probable,       \* Probable[tunnel][s]: probes that list the port of s
    Rare,           \* probes with a rarity above version_intensity
    Possible,       \* probes that can find the soft-matched service
    Parallelism,    \* ideal_parallelism
    MaxReads,       \* bound: reads of one probe before its time is up
    HostTimeouts    \* --host-timeout was given

Services == ToSet(ServiceList)
Hosts == {HostOf[s] : s \in Services}
Probes == 1..NumProbes
Working == {"INITIAL", "NULLPROBE", "MATCHINGPROBES", "NONMATCHINGPROBES"}
Done == {"HARDMATCHED", "SOFTMATCHED", "NOMATCH", "TCPWRAPPED", "INCOMPLETE"}

ServiceAssumption ==
    /\ IsInjective(ServiceList)
    /\ Udp \subseteq Services /\ Excluded \subseteq Services
    /\ NumProbes \in Nat /\ Parallelism \in Nat \ {0} /\ MaxReads \in Nat
    /\ Rare \subseteq Probes /\ Possible \subseteq Probes
    /\ \A t \in {"NONE", "SSL"}, s \in Services : Probable[t][s] \subseteq Probes
    /\ HostTimeouts \in BOOLEAN

VARIABLES
    remaining,      \* services_remaining
    inProgress,     \* services_in_progress
    finished,       \* services_finished
    svc,            \* the ServiceNFO of each service
    events,         \* Nsock events of each service's iod
    clock,          \* hosts whose time-out clock runs
    expired,        \* hosts that are timed out
    timedout,       \* num_hosts_timedout
    launching,      \* inside launchSomeServiceProbes()
    ports,          \* what setServiceProbeResults() last stored
    over,           \* nsock_loop() has returned
    sent,           \* history: probes of the present pass, in order
    connected       \* history: services a connection was made to

vars == <<remaining, inProgress, finished, svc, events, clock, expired,
          timedout, launching, ports, over, sent, connected>>
lists == <<remaining, inProgress, finished>>

Svc == [state : Working \cup Done, probe : 0..NumProbes,
        tunnel : {"NONE", "SSL"}, matched : {"", "ssl", "other"},
        soft : BOOLEAN, tcpwrap : BOOLEAN, resp : BOOLEAN, reads : 0..MaxReads]

TypeOK ==
    /\ remaining \in Seq(Services)
    /\ inProgress \subseteq Services /\ finished \subseteq Services
    /\ svc \in [Services -> Svc]
    /\ events \in [Services -> SUBSET {"connect", "read", "write"}]
    /\ clock \subseteq Hosts /\ expired \subseteq Hosts /\ timedout \in Nat
    /\ launching \in BOOLEAN /\ over \in BOOLEAN
    /\ ports \in [Services -> {"none", "EXCLUDED"} \cup Working \cup Done]
    /\ sent \in [Services -> Seq(0..NumProbes)]
    /\ connected \subseteq Services

(* remove_excluded_ports() files the excluded services as finished, after  *)
(* it has reported them.                                                   *)
remove_excluded_ports == SelectSeq(ServiceList, LAMBDA s : s \notin Excluded)

(* service_scan() up to the first launch.                                  *)
Init ==
    /\ remaining = remove_excluded_ports
    /\ inProgress = {}
    /\ finished = Excluded
    /\ svc = [s \in Services |->
                [state |-> "INITIAL", probe |-> 0, tunnel |-> "NONE",
                 matched |-> "", soft |-> FALSE, tcpwrap |-> TRUE,
                 resp |-> FALSE, reads |-> 0]]
    /\ events = [s \in Services |-> {}]
    /\ clock = {} /\ expired = {} /\ timedout = 0
    /\ launching = (remaining # <<>>)
    /\ over = (remaining = <<>>)
    /\ ports = [s \in Services |-> IF s \in Excluded THEN "EXCLUDED" ELSE "none"]
    /\ sent = [s \in Services |-> <<>>] /\ connected = {}

---------------------------------------------------------------------------
(* ServiceNFO::nextProbe on v, the state of service s: the NULL probe      *)
(* first, then the probes for the port, then the others that are common    *)
(* enough; after a soft match only those that can find that service.       *)

MatchingProbes(s, v) ==
    {p \in Probable[v.tunnel][s] : ~v.soft \/ p \in Possible}

NonmatchingProbes(s, v) ==
    (Probes \ Probable[v.tunnel][s]) \cap (IF v.soft THEN Possible ELSE Probes \ Rare)

After(S, v, state) == IF v.state = state THEN {p \in S : p > v.probe} ELSE S

\* nextProbe's second walk starts where the first walk ended
nextProbe_Continues(s, v, newresp) ==
    LET ms == After(MatchingProbes(s, v), v, "MATCHINGPROBES")
        ns == {p \in NonmatchingProbes(s, v) : p > v.probe}
        goto(state, p) == [v EXCEPT !.state = state, !.probe = p,
                                    !.resp = ~newresp /\ v.resp]
    IN  IF v.state = "INITIAL" /\ s \notin Udp THEN goto("NULLPROBE", 0)
        ELSE IF v.state # "NONMATCHINGPROBES" /\ ms # {}
             THEN goto("MATCHINGPROBES", Min(ms))
        ELSE IF ns # {} THEN goto("NONMATCHINGPROBES", Min(ns))
        ELSE goto(IF v.soft THEN "SOFTMATCHED" ELSE "NOMATCH", 0)

nextProbe(s, v, newresp) ==
    LET ms == After(MatchingProbes(s, v), v, "MATCHINGPROBES")
        ns == After(NonmatchingProbes(s, v), v, "NONMATCHINGPROBES")
        goto(state, p) == [v EXCEPT !.state = state, !.probe = p,
                                    !.resp = ~newresp /\ v.resp]
    IN  IF v.state = "INITIAL" /\ s \notin Udp THEN goto("NULLPROBE", 0)
        ELSE IF v.state # "NONMATCHINGPROBES" /\ ms # {}
             THEN goto("MATCHINGPROBES", Min(ms))
        ELSE IF ns # {} THEN goto("NONMATCHINGPROBES", Min(ns))
        ELSE goto(IF v.soft THEN "SOFTMATCHED" ELSE "NOMATCH", 0)

NoProbe(v) == v.state \notin Working

(* The probe text is written, unless it is the NULL probe, and an answer   *)
(* is read.                                                                *)
SendAndRead(v) ==
    IF v.state = "NULLPROBE" THEN {"read"} ELSE {"read", "write"}

(* The list surgery of end_svcprobe, and handleHostIfDone: v is the state  *)
(* of s, which ends as st; running is the set of hosts whose clock runs.   *)
FinalState(v, st) == IF v.tcpwrap THEN "TCPWRAPPED" ELSE st

HostHasWork(s) ==
    \E u \in (inProgress \cup ToSet(remaining)) \ {s} : HostOf[u] = HostOf[s]

endWithClock(s, v, st, running) ==
    /\ svc' = [svc EXCEPT ![s] = [v EXCEPT !.state = FinalState(v, st)]]
    /\ inProgress' = inProgress \ {s}
    /\ remaining' = IF s \in inProgress THEN remaining
                    ELSE SelectSeq(remaining, LAMBDA u : u # s)
    /\ finished' = finished \cup {s}
    /\ events' = [events EXCEPT ![s] = {}]
    /\ IF HostHasWork(s) THEN clock' = running /\ UNCHANGED timedout
       ELSE /\ clock' = running \ {HostOf[s]}
            /\ timedout' = timedout + (IF HostOf[s] \in expired THEN 1 ELSE 0)
    /\ UNCHANGED sent

end_svcprobe(s, v, st) == endWithClock(s, v, st, clock)

(* startNextProbe after a probe that found nothing, v being the state of s.*)
(* After the NULL probe the connection is used again unless the other side *)
(* closed it; a UDP socket always; otherwise a new connection is made,     *)
(* which may fail at once and call the handler back.                       *)
startNextProbe(s, v, alwaysrestart) ==
    LET reuse == ~alwaysrestart /\ v.state = "NULLPROBE"
        nv == [nextProbe(s, v, ~reuse) EXCEPT !.reads = 0]
        sending == sent' = [sent EXCEPT ![s] = Append(@, nv.probe)]
        stay == UNCHANGED <<lists, clock, timedout>>
    IN  IF NoProbe(nv) THEN end_svcprobe(s, nv, nv.state)
        ELSE IF reuse \/ s \in Udp
        THEN /\ svc' = [svc EXCEPT ![s] = nv]
             /\ events' = [events EXCEPT ![s] = @ \cup SendAndRead(nv)]
             /\ sending /\ stay
        ELSE \/ /\ svc' = [svc EXCEPT ![s] = nv]
                /\ events' = [events EXCEPT ![s] = {"connect"}]
                /\ sending /\ stay
             \/ end_svcprobe(s, nv, "INCOMPLETE")

---------------------------------------------------------------------------
(* One turn of the loop of launchSomeServiceProbes().                      *)

Launch ==
    LET s == Head(remaining)
        v == nextProbe(s, svc[s], TRUE)
        started == clock \cup {HostOf[s]}
    IN  /\ launching
        /\ Cardinality(inProgress) < Parallelism /\ remaining # <<>>
        /\ IF HostOf[s] \in expired
           THEN end_svcprobe(s, svc[s], "INCOMPLETE")
           ELSE IF NoProbe(v)
           THEN endWithClock(s, v, "NOMATCH", started)
           ELSE \/ /\ svc' = [svc EXCEPT ![s] = v]
                   /\ remaining' = Tail(remaining)
                   /\ inProgress' = inProgress \cup {s}
                   /\ events' = [events EXCEPT ![s] = {"connect"}]
                   /\ clock' = started
                   /\ sent' = [sent EXCEPT ![s] = <<v.probe>>]
                   /\ UNCHANGED <<finished, timedout>>
                \/ \* the connect fails at once and calls the handler
                   endWithClock(s, v, "INCOMPLETE", started)
        /\ UNCHANGED <<expired, launching, ports, over, connected>>

LaunchDone ==
    /\ launching
    /\ Cardinality(inProgress) >= Parallelism \/ remaining = <<>>
    /\ launching' = FALSE
    /\ UNCHANGED <<lists, svc, events, clock, expired, timedout, ports, over,
                   sent, connected>>

(* An event of service s is delivered. Deleting the iod drops the others,  *)
(* which end_svcprobe and startNextProbe do.                               *)
Event(s, type) == ~launching /\ type \in events[s]

(* servicescan_connect_handler.                                            *)
ConnectHandler(s) ==
    /\ Event(s, "connect")
    /\ \/ /\ HostOf[s] \in expired
          /\ end_svcprobe(s, svc[s], "INCOMPLETE")
          /\ UNCHANGED connected
       \/ /\ HostOf[s] \notin expired  \* success
          /\ events' = [events EXCEPT ![s] = SendAndRead(svc[s])]
          /\ connected' = connected \cup {s}
          /\ UNCHANGED <<lists, svc, clock, timedout, sent>>
       \/ /\ HostOf[s] \notin expired  \* timeout or error
          /\ end_svcprobe(s, svc[s], "INCOMPLETE")
          /\ UNCHANGED connected
    /\ launching' = TRUE
    /\ UNCHANGED <<expired, ports, over>>

(* servicescan_write_handler. On a timed-out host it returns without       *)
(* launching other services. (A UDP write that outlives its probe is one   *)
(* with that of the next probe.)                                           *)
WriteHandler(s) ==
    /\ Event(s, "write")
    /\ \/ /\ HostOf[s] \in expired
          /\ end_svcprobe(s, svc[s], "INCOMPLETE")
          /\ launching' = FALSE
       \/ /\ HostOf[s] \notin expired  \* success
          /\ events' = [events EXCEPT ![s] = @ \ {"write"}]
          /\ UNCHANGED <<lists, svc, clock, timedout, sent, launching>>
       \/ /\ HostOf[s] \notin expired  \* failure
          /\ end_svcprobe(s, svc[s], "INCOMPLETE")
          /\ launching' = TRUE
    /\ UNCHANGED <<expired, ports, over, connected>>

(* servicescan_read_handler, by what happened.                             *)
Read(s) ==
    /\ Event(s, "read")
    /\ launching' = TRUE
    /\ UNCHANGED <<expired, ports, over, connected>>

Wrapless(s) == [svc[s] EXCEPT !.tcpwrap = FALSE]

ReadTimedOutHost(s) ==
    /\ Read(s) /\ HostOf[s] \in expired
    /\ end_svcprobe(s, Wrapless(s), "INCOMPLETE")

(* Data that matches nothing, or softly: read on while there is time, else *)
(* the next probe. A second soft match changes nothing.                    *)
ReadInconclusive(s, isSoft) ==
    LET v == [Wrapless(s) EXCEPT
                !.resp = TRUE,
                !.matched = IF isSoft /\ @ = "" THEN "other" ELSE @,
                !.soft = @ \/ (isSoft /\ svc[s].matched = "")]
    IN  /\ Read(s) /\ HostOf[s] \notin expired
        /\ \/ /\ v.reads < MaxReads
              /\ svc' = [svc EXCEPT ![s] = [v EXCEPT !.reads = @ + 1]]
              /\ UNCHANGED <<lists, events, clock, timedout, sent>>
           \/ startNextProbe(s, v, FALSE)

(* A hard match. "ssl" itself on a plain TCP connection starts all over    *)
(* through SSL (scanThroughTunnel); "ssl/..." and the rest end the service.*)
ReadHardMatch(s, name) ==
    LET v == [Wrapless(s) EXCEPT !.resp = TRUE, !.soft = FALSE,
                                 !.matched = IF name = "ssl" THEN "ssl" ELSE "other"]
        again == name = "ssl" /\ v.tunnel = "NONE" /\ s \notin Udp
        fresh == [v EXCEPT !.tunnel = "SSL", !.matched = "", !.resp = FALSE,
                           !.state = "INITIAL", !.probe = 0, !.reads = 0]
        first == nextProbe(s, fresh, TRUE)
        ended == IF name = "ssl/" THEN [v EXCEPT !.tunnel = "SSL"] ELSE v
    IN  /\ Read(s) /\ HostOf[s] \notin expired
        /\ IF ~again THEN end_svcprobe(s, ended, "HARDMATCHED")
           ELSE \/ /\ svc' = [svc EXCEPT ![s] = first]
                   /\ events' = [events EXCEPT ![s] = {"connect"}]
                   /\ sent' = [sent EXCEPT ![s] = <<first.probe>>]
                   /\ UNCHANGED <<lists, clock, timedout>>
                \/ end_svcprobe(s, first, "INCOMPLETE")

(* No answer in time.                                                      *)
ReadTimeout(s) ==
    /\ Read(s) /\ HostOf[s] \notin expired
    /\ startNextProbe(s, Wrapless(s), FALSE)

(* The other side closes: end of file, or a reset. Soon after a NULL probe *)
(* and with no data ever seen that is a TCP wrapper. A reset does not      *)
(* clear tcpwrap_possible, even after data.                                *)
ReadClosed(s, reset, soon) ==
    LET v == IF svc[s].resp /\ ~reset THEN Wrapless(s) ELSE svc[s]
    IN  /\ Read(s) /\ HostOf[s] \notin expired
        /\ IF v.tcpwrap /\ v.state = "NULLPROBE" /\ soon
           THEN end_svcprobe(s, v, "TCPWRAPPED")
           ELSE startNextProbe(s, v, TRUE)

(* Errors that concern the one probe.                                      *)
ReadProbeError(s) ==
    /\ Read(s) /\ HostOf[s] \notin expired
    /\ startNextProbe(s, svc[s], TRUE)

(* The host or its network has become unreachable.                         *)
ReadUnreachable(s) ==
    /\ Read(s) /\ HostOf[s] \notin expired
    /\ end_svcprobe(s, Wrapless(s), "INCOMPLETE")

(* Time passes: a host with a running clock may be past its time.          *)
Expire(h) ==
    /\ HostTimeouts /\ ~over
    /\ h \in clock \ expired
    /\ expired' = expired \cup {h}
    /\ UNCHANGED <<lists, svc, events, clock, timedout, launching, ports,
                   over, sent, connected>>

(* nsock_loop() returns when no event is left; processResults() stores the *)
(* state of every finished service.                                        *)
LoopEnds ==
    /\ ~launching /\ ~over
    /\ \A s \in Services : events[s] = {}
    /\ over' = TRUE
    /\ ports' = [s \in Services |->
                   IF s \in finished THEN svc[s].state ELSE ports[s]]
    /\ UNCHANGED <<lists, svc, events, clock, expired, timedout, launching,
                   sent, connected>>

Callback(s) ==
    \/ ConnectHandler(s) \/ WriteHandler(s)
    \/ ReadTimedOutHost(s) \/ ReadTimeout(s)
    \/ ReadProbeError(s) \/ ReadUnreachable(s)
    \/ \E isSoft \in BOOLEAN : ReadInconclusive(s, isSoft)
    \/ \E name \in {"ssl", "ssl/", "other"} : ReadHardMatch(s, name)
    \/ \E reset, soon \in BOOLEAN : ReadClosed(s, reset, soon)

Over == over /\ UNCHANGED vars

Next ==
    \/ Launch \/ LaunchDone \/ LoopEnds \/ Over
    \/ \E s \in Services : Callback(s)
    \/ \E h \in Hosts : Expire(h)

Spec == Init /\ [][Next]_vars

(* Every connect and read has a timeout, so Nsock calls back.              *)
FairSpec == /\ Spec
            /\ WF_vars(Launch \/ LaunchDone \/ LoopEnds)
            /\ \A s \in Services : WF_vars(Callback(s))
---------------------------------------------------------------------------
(* Properties.                                                             *)

(* A service is given up as NOMATCH only after every probe it should get   *)
(* has been sent in the present pass (plain or through SSL): the NULL      *)
(* probe on TCP, those that list its port, and the others that are not too *)
(* rare. nextProbe() walks the list twice with one iterator and the state, *)
(* so a wrong advance or a reset of either skips probes.                   *)
Eligible(s) == Probable[svc[s].tunnel][s] \cup (Probes \ Rare)
               \cup (IF s \in Udp THEN {} ELSE {0})
NoMatchMeansAllTried ==
    \A s \in Services : svc[s].state = "NOMATCH" => Eligible(s) \subseteq ToSet(sent[s])

(* No probe is sent twice in one pass: the second walk of nextProbe()      *)
(* leaves out what the first sent, whenever the soft match came.           *)
ProbesOncePerPass == \A s \in Services : IsInjective(sent[s])

(* When nsock_loop() returns, every service has been dealt with: nothing   *)
(* is left in services_remaining or services_in_progress, so none is       *)
(* missing from the results.                                               *)
AllServicesFinished == over => remaining = <<>> /\ inProgress = {}

(* The time-out clock of a host runs while a service of it is in progress, *)
(* and while a timed-out host has work (stopTimeOutClock() asserts it when *)
(* the last one ends), and no longer: startTimeOutClock() in the next      *)
(* phase asserts that it stands.                                           *)
HasWork(h) == \E s \in inProgress \cup ToSet(remaining) : HostOf[s] = h
ClockFollowsWork ==
    /\ \A s \in inProgress : HostOf[s] \in clock
    /\ \A h \in expired : HasWork(h) => h \in clock
    /\ \A h \in clock : HasWork(h)

(* Each host whose time ran out is counted once in num_hosts_timedout,     *)
(* however many of its services were cut short.                            *)
TimeoutsCountedOnce == over => timedout = Cardinality(expired)

(* The scan comes to an end, whatever the services answer.                 *)
ScanEnds == <>over

(* A service ends as tcpwrapped only if a connection to it was made; a     *)
(* failed connect is marked incomplete, as servicescan_connect_handler     *)
(* says.                                                                   *)
TcpwrappedWasConnected ==
    \A s \in Services : svc[s].state = "TCPWRAPPED" => s \in connected

(* The result stored for an excluded port says that it was excluded.       *)
ExcludedReported == over => \A s \in Excluded : ports[s] = "EXCLUDED"

(* A service that ends soft-matched was sent every probe that could find   *)
(* it, regardless of rarity.                                               *)
SoftMatchExhausted ==
    \A s \in Services :
        svc[s].state = "SOFTMATCHED" => Possible \subseteq ToSet(sent[s])

=============================================================================
