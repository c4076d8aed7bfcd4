------------------------------ MODULE MCPhases ------------------------------
(***************************************************************************)
(* The phases of nmap_main(): host groups (MCHostGroup, which this module  *)
(* extends), idle scan, version detection and traceroute, and the event    *)
(* library below them.  Each phase keeps its state for itself and frees it *)
(* when it returns, so an instance is in one of them, chosen at the start, *)
(* and the state of the others is left alone.  Version detection has two   *)
(* instances: one with many probes, one with hosts that time out.          *)
(***************************************************************************)
EXTENDS MCHostGroup

-----------------------------------------------------------------------------
VARIABLES
    engine,     \* the phase of this instance
    remaining, inProgress, finished, svc, events, clock, expired, timedout,
    launching, ports, over, sent, connected,
    tracePhase, active, sender, failed, numActive, host, trace,
    open, portidx, idleStack, count, latestid, id, inflight, marked, faults, idleOutcome,
    client, ev, list, expirables, iod, events_pending, eventOutcome, calls, serials,
    allocated, loopPhase, todo, stale, fatal

serviceVars == <<remaining, inProgress, finished, svc, events, clock, expired, timedout,
                 launching, ports, over, sent, connected>>
traceVars == <<tracePhase, active, sender, failed, numActive, host, trace>>
idleVars == <<open, portidx, idleStack, count, latestid, id, inflight, marked, faults, idleOutcome>>
nsockVars == <<client, ev, list, expirables, iod, events_pending, eventOutcome, calls, serials,
               allocated, loopPhase, todo, stale, fatal>>
allVars == <<engine, vars, serviceVars, traceVars, idleVars, nsockVars>>

(* A TCP and a UDP service of one host and three probes: 2 lists the port  *)
(* of the first, or 3 if it is reached through SSL, and 1 is rare.         *)
Service == INSTANCE ServiceScan WITH
    ServiceList <- <<"s1", "s2">>, HostOf <- [s \in {"s1", "s2"} |-> "h1"],
    Udp <- {"s2"}, Excluded <- {}, NumProbes <- 3,
    Probable <- [t \in {"NONE", "SSL"} |->
                    [s1 |-> IF t = "NONE" THEN {2} ELSE {3}, s2 |-> {1}]],
    Rare <- {1}, Possible <- {2, 3}, Parallelism <- 1, MaxReads <- 1, HostTimeouts <- FALSE

(* Three services of two hosts that may time out.                          *)
Clocks == INSTANCE ServiceScan WITH
    ServiceList <- <<"s1", "s2", "s3">>, HostOf <- [s1 |-> "h1", s2 |-> "h2", s3 |-> "h1"],
    Udp <- {"s3"}, Excluded <- {}, NumProbes <- 1,
    Probable <- [t \in {"NONE", "SSL"} |-> [s \in {"s1", "s2", "s3"} |-> {}]],
    Rare <- {1}, Possible <- {1}, Parallelism <- 3, MaxReads <- 0, HostTimeouts <- TRUE

(* One target, nearer than the first TTL probed.                           *)
Trace == INSTANCE Traceroute WITH
    HostList <- <<"h1">>, Answers <- [h1 |-> <<{"r1"}, {"r2"}, {"h1"}, {"h1"}>>],
    Guesses <- {1, 2, 4}, InitialTtl <- [h1 |-> 4], MAX_TTL <- 4,
    MAX_OUTSTANDING_PROBES <- 2, MAX_RESENDS <- 1, ScanDelay <- TRUE, phase <- tracePhase

(* A proxy that loses probes more often than idlescan_countopen() retries. *)
Idle == INSTANCE IdleScan WITH
    NumPorts <- 2, GroupSizes <- {4}, Faults <- {"probe"}, MaxFaults <- 2, MaxRounds <- 2,
    IdModulus <- 16, FirstId <- 1, stack <- idleStack, outcome <- idleOutcome

(* Reads and timers on one open descriptor.                                *)
Events == INSTANCE Nsock WITH
    MaxEvents <- 2, outcome <- eventOutcome, stack <- calls, phase <- loopPhase,
    Clients <- {[iods |-> {1}, opened |-> {1}, kinds |-> {"read", "timer"},
                 timeouts |-> BOOLEAN, ssl |-> FALSE, engine |-> "poll", reentrant |-> FALSE]}

ASSUME /\ Service!ServiceAssumption /\ Clocks!ServiceAssumption
       /\ Trace!TracerouteAssumption /\ Idle!IdleScanAssumption /\ Events!NsockAssumption

-----------------------------------------------------------------------------
PhasesInit ==
    /\ engine \in {"hosts", "service", "clocks", "trace", "idle", "events"}
    /\ Init /\ Trace!Init /\ Events!Init
    /\ IF engine = "clocks" THEN Clocks!Init ELSE Service!Init
    /\ Idle!Init /\ (engine # "idle" => open = {})

(* Engine e takes a step: those of the others do not.                      *)
Turn(e) ==
    /\ engine = e /\ UNCHANGED engine
    /\ e = "hosts" \/ UNCHANGED vars
    /\ e \in {"service", "clocks"} \/ UNCHANGED serviceVars
    /\ e = "trace" \/ UNCHANGED traceVars
    /\ e = "idle" \/ UNCHANGED idleVars
    /\ e = "events" \/ UNCHANGED nsockVars

PhasesNext ==
    \/ Turn("hosts") /\ Next
    \/ Turn("service") /\ Service!Next
    \/ Turn("clocks") /\ Clocks!Next
    \/ Turn("trace") /\ Trace!Next
    \/ Turn("idle") /\ Idle!Next
    \/ Turn("events") /\ Events!Next

(* The fairness of the phases' own specifications.  Since the phase does   *)
(* not change, the fairness of an action of one phase and of an action of  *)
(* another is the fairness of their disjunction.  When an action of nsock  *)
(* is enabled is spelled out in Nsock.                                     *)
Loop ==
    \/ Turn("hosts") /\ Next
    \/ Turn("service") /\ (Service!Launch \/ Service!LaunchDone \/ Service!LoopEnds)
    \/ Turn("clocks") /\ (Clocks!Launch \/ Clocks!LaunchDone \/ Clocks!LoopEnds)
    \/ Turn("trace") /\ (Trace!StopSending \/ Trace!StopReading \/ Trace!RemoveFinished)
    \/ Turn("idle") /\ Idle!Next
LoopOrEvents == Loop \/ (Turn("events") /\ Events!Progress)
LoopEnabled == IF engine = "events" THEN Events!Running ELSE ENABLED <<Loop>>_allVars

ServiceCalled(s) ==
    \/ Turn("service") /\ Service!Callback(s)
    \/ Turn("clocks") /\ Clocks!Callback(s)

(* The scan delay passes and a probe times out; both events expire.        *)
TraceInTime(slot) == Turn("trace") /\ (IF slot = 1 THEN Trace!SendNextProbe ELSE Trace!TimeOut("h1"))
InTime(slot) == TraceInTime(slot) \/ (Turn("events") /\ Events!Expire(slot))
InTimeEnabled(slot) ==
    IF engine = "events" THEN Events!MayExpire(slot) ELSE ENABLED <<TraceInTime(slot)>>_allVars

PhasesSpec ==
    /\ PhasesInit /\ [][PhasesNext]_allVars
    /\ <>[]LoopEnabled => []<><<LoopOrEvents>>_allVars
    /\ \A s \in {"s1", "s2"} : WF_allVars(ServiceCalled(s))
    /\ WF_allVars(Turn("clocks") /\ Clocks!Callback("s3"))
    /\ \A slot \in {1, 2} : []<>InTimeEnabled(slot) => []<><<InTime(slot)>>_allVars

-----------------------------------------------------------------------------
(* Version detection gives a service up only when every probe it should    *)
(* get was sent, sends none twice in one pass over the probes, and is not  *)
(* over before every service has ended.  With host time-outs, the clock of *)
(* a host runs exactly while there is work for the host, and a host that   *)
(* times out is counted once.                                              *)
ServicesRight ==
    /\ engine = "service" =>
        Service!NoMatchMeansAllTried /\ Service!ProbesOncePerPass /\ Service!AllServicesFinished
    /\ engine = "clocks" => Clocks!ClockFollowsWork /\ Clocks!TimeoutsCountedOnce

(* A trace that is over has a hop for each TTL up to the target.           *)
TraceComplete == Trace!TraceComplete

(* Every phase comes to its end: deferred hosts get their turn, probes     *)
(* that nobody answers run out of tries, counts that never agree are given *)
(* up; and every nsock event with a timeout ends.                          *)
Ended ==
    CASE engine = "hosts" -> phase = "over"
      [] engine \in {"service", "clocks"} -> over
      [] engine = "trace" -> active = <<>>
      [] engine = "idle" -> idleOutcome # "scanning"
      [] engine = "events" -> TRUE
PhasesEnd == <>Ended /\ Events!TimeoutsFire
=============================================================================
