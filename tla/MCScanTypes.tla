---------------------------- MODULE MCScanTypes ----------------------------
(***************************************************************************)
(* UltraScan for the kinds of scan nmap_main() and nexthost() ask of it.   *)
(* The kind is chosen when ultra_scan() is called and does not change: the *)
(* scan of the run's configuration, a raw port scan of a group, a connect  *)
(* scan, host discovery, ARP discovery, and a port scan that is under way. *)
(* An instance takes the constants it does not replace from the run.       *)
(***************************************************************************)
EXTENDS MCUltraScan

CONSTANTS q4,
          Kinds     \* the kinds of scan of a run: "own" has the run's constants

VARIABLE kind

NoPingYet == [port |-> NONE, state |-> "none"]

Group == INSTANCE UltraScan WITH
    NorespOpen <- TRUE, Responses <- {"open", "closed"}, DefeatRatelimit <- TRUE,
    MaxCwnd <- 2, HostTimeout <- TRUE

(* The target may have a pingprobe from host discovery.                    *)
Connect == INSTANCE UltraScan WITH
    Hosts <- {h1}, Ports <- {q1, q2}, ConnectScan <- TRUE,
    Errnos <- {"accept", "self", "refused", "unreach", "eagain", "strange"},
    ImmediateConnect <- TRUE, MaxCwnd <- 2, MaxSockets <- 1,
    StartPings <- {NoPingYet} \cup [port: {q1, q2}, state: {"unknown"}]

Discovery == INSTANCE UltraScan WITH
    Ports <- {q1, q2}, PingScan <- TRUE, MaxPings <- 0

Arp == INSTANCE UltraScan WITH
    PingScan <- TRUE, ArpScan <- TRUE, HostTimeout <- TRUE

Midway == INSTANCE UltraScan WITH
    Hosts <- {h1}, Ports <- {q1, q2, q3, q4}, TrynoCap <- 3, MaxPings <- 0

(* A port scan under way: every port has been tried twice, one second try  *)
(* is still in flight and the others have timed out.  The retry stack      *)
(* holds two try numbers only after four ports went through several rounds *)
(* each.                                                                   *)
MidwayInit ==
    LET second(q, late) == [Midway!NewProbe(q, 1, 0) EXCEPT !.timedout = late]
        midway(q0) == [Midway!HostInit(NoPingYet) EXCEPT
            !.fresh = {},
            !.probes_outstanding = {second(q, q # q0) : q \in {q1, q2, q3, q4}},
            !.num_probes_active = 1, !.num_probes_waiting_retransmit = 3,
            !.rld_max_tryno_sent = 1, !.clock = "running",
            !.tries = [q \in {q1, q2, q3, q4} |-> 2]]
    IN  /\ hss \in [{h1} -> {midway(q) : q \in {q1, q2, q3, q4}}]
        /\ gstats = [Midway!GroupInit EXCEPT !.num_probes_active = 1]
        /\ incompleteHosts = {h1} /\ completedHosts = {} /\ pinghost = NONE
        /\ phase = "pings" /\ todo = {h1} /\ cur = Midway!NoCur

KindInit == /\ kind \in Kinds
            /\ CASE kind = "own" -> Init
                 [] kind = "group" -> Group!Init
                 [] kind = "connect" -> Connect!Init
                 [] kind = "discovery" -> Discovery!Init
                 [] kind = "arp" -> Arp!Init
                 [] kind = "midway" -> MidwayInit

KindNext == /\ \/ kind = "own" /\ Next
               \/ kind = "group" /\ Group!Next
               \/ kind = "connect" /\ Connect!Next
               \/ kind = "discovery" /\ Discovery!Next
               \/ kind = "arp" /\ Arp!Next
               \/ kind = "midway" /\ Midway!Next
            /\ UNCHANGED kind

KindSpec == KindInit /\ [][KindNext]_<<kind, vars>>
FairKindSpec == KindSpec /\ Fairness

KindSymmetry == Permutations({h1, h2}) \cup Permutations({q1, q2, q3, q4})

-----------------------------------------------------------------------------
(* The counters of the whole group are the sums over its hosts, in scans   *)
(* of several hosts, connect scans with sockets, and ARP discovery, where  *)
(* a host that is up has all its probes destroyed at once.                 *)
GroupsCounted ==
    /\ kind = "group" => Group!GroupCountersExact
    /\ kind = "connect" => Connect!GroupCountersExact
    /\ kind = "arp" => Arp!GroupCountersExact

(* No assertion of the connect scan fails, whatever connect() returns.     *)
NoAssertFails == kind = "connect" => Connect!NoAbort

(* Host discovery, by IP probes or by ARP, leaves no host without a        *)
(* verdict unless the host timed out.                                      *)
AllHostsJudged ==
    /\ kind = "discovery" => Discovery!EveryHostJudged
    /\ kind = "arp" => Arp!EveryHostJudged

(* The retry stack never holds a probe with fewer tries above one with     *)
(* more: "kept sorted such that probes with highest retry counts are on    *)
(* top" (scan_engine.h).                                                   *)
RetryStacksSorted == kind = "midway" => Midway!RetryStackSorted
=============================================================================
