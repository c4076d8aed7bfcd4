------------------------------ MODULE MCParts -------------------------------
(***************************************************************************)
(* Parts of nmap that keep books for the phases: the port list (PortList,  *)
(* which this module extends), the hops that traces share, the counts of   *)
(* idle scan, the encoding of probes in source ports, the round-trip time  *)
(* estimate, and the heap of nsock's timeouts.  An instance is one of      *)
(* them, chosen at the start; the state of the others is left alone.       *)
(***************************************************************************)
EXTENDS PortList

FourPorts == [TCP |-> <<22, 80>>, UDP |-> <<53>>, SCTP |-> <<9>>, IP |-> <<>>]

VARIABLES
    part,       \* the part that this instance is
    phase, active, sender, failed, numActive, host, trace,
    open, portidx, stack, count, latestid, id, inflight, marked, faults, outcome,
    magic_port_set, base_port, scan, probes, wire, verdict,
    srtt, rttvar, timeout, replies,
    slots, index, key, highwm, popped

traceVars == <<phase, active, sender, failed, numActive, host, trace>>
idleVars == <<open, portidx, stack, count, latestid, id, inflight, marked, faults, outcome>>
codecVars == <<magic_port_set, base_port, scan, probes, wire, verdict>>
rttVars == <<srtt, rttvar, timeout, replies>>
heapVars == <<slots, index, key, highwm, popped>>
allVars == <<part, vars, traceVars, idleVars, codecVars, rttVars, heapVars>>

(* A router that is on the paths of both targets, at different distances.  *)
Skewed == INSTANCE Traceroute WITH
    HostList <- <<"h1", "h2">>,
    Answers <- [h1 |-> <<{"r1"}, {"r2"}, {"h1"}, {"h1"}>>,
                h2 |-> <<{"r0"}, {"r1"}, {"r3"}, {"h2"}>>],
    Guesses <- {4}, InitialTtl <- [h \in {"h1", "h2"} |-> 4], MAX_TTL <- 4,
    MAX_OUTSTANDING_PROBES <- 2, MAX_RESENDS <- 0, ScanDelay <- FALSE

(* Paths that change while they are traced, so that the chains disagree.   *)
Unstable == INSTANCE Traceroute WITH
    HostList <- <<"h1", "h2">>,
    Answers <- [h1 |-> <<{"r1", "q1"}, {"r2"}, {"r3", "h1"}>>,
                h2 |-> <<{"r1"}, {"r2"}, {"h2"}>>],
    Guesses <- {1, 3}, InitialTtl <- [h \in {"h1", "h2"} |-> 3], MAX_TTL <- 3,
    MAX_OUTSTANDING_PROBES <- 2, MAX_RESENDS <- 0, ScanDelay <- FALSE

(* One fault of any kind but a delayed answer.                             *)
Idle == INSTANCE IdleScan WITH
    NumPorts <- 4, GroupSizes <- {4}, Faults <- {"noise", "syn", "probe"}, MaxFaults <- 1,
    MaxRounds <- 6, IdModulus <- 1000, FirstId <- 1

(* Three probes of one scan, of any try and ping number, with base ports   *)
(* at both ends of their range.                                            *)
Codec == INSTANCE ProbeCodec WITH
    tryno_cap <- 10, Trynos <- {0, 1, 10}, PingSeqs <- {1, 246, 255},
    FirstBases <- {33000, 65022, 65279}, MagicPort <- {FALSE}, MaxScans <- 1, MaxProbes <- 3

(* Two scans: answers to the first may come in the second.                 *)
Scans == INSTANCE ProbeCodec WITH
    tryno_cap <- 10, Trynos <- {0, 10}, PingSeqs <- {245},
    FirstBases <- {33000, 65279}, MagicPort <- {FALSE, TRUE}, MaxScans <- 2, MaxProbes <- 2

(* Times at and around every threshold of the code, in microseconds.       *)
Rtt == INSTANCE RttEstimator WITH
    InitialRtt <- 1000000, MinRtt <- 100000, MaxRtt <- 10000000, ScanDelay <- 12000000,
    FirstDeltas <- {-49999, 0, 3, 250000, 7999999},
    Deltas <- {-60000000, -50000, -49999, 0, 1, 250000, 1600000, 7999999, 8000000},
    MaxReplies <- 5

(* Six events, two of them with the same timeout.                          *)
Heap == INSTANCE GhHeap WITH
    Nodes <- 1..6, KeysOf <- <<{1}, {2}, {2}, {3}, {4}, {5}>>, GH_SLOTS <- 4

ASSUME /\ Skewed!TracerouteAssumption /\ Unstable!TracerouteAssumption
       /\ Idle!IdleScanAssumption /\ Codec!CodecAssumption /\ Scans!CodecAssumption
       /\ Rtt!RttAssumption /\ Heap!GhHeapAssumption

-----------------------------------------------------------------------------
PartsInit ==
    /\ part \in {"ports", "skewed", "unstable", "idle", "codec", "scans", "rtt", "heap"}
    /\ Init /\ Rtt!Init /\ Heap!Init
    /\ IF part = "unstable" THEN Unstable!Init ELSE Skewed!Init
    /\ Idle!Init /\ (part # "idle" => open = {})
    /\ IF part = "scans" THEN Scans!Init
       ELSE Codec!Init /\ (part # "codec" => base_port = 33000)

(* Part p takes a step: the others do not.                                 *)
Turn(p) ==
    /\ part = p /\ UNCHANGED part
    /\ p = "ports" \/ UNCHANGED vars
    /\ p \in {"skewed", "unstable"} \/ UNCHANGED traceVars
    /\ p = "idle" \/ UNCHANGED idleVars
    /\ p \in {"codec", "scans"} \/ UNCHANGED codecVars
    /\ p = "rtt" \/ UNCHANGED rttVars
    /\ p = "heap" \/ UNCHANGED heapVars

PartsNext ==
    \/ Turn("ports") /\ Next
    \/ Turn("skewed") /\ Skewed!Next
    \/ Turn("unstable") /\ Unstable!Next
    \/ Turn("idle") /\ Idle!Next
    \/ Turn("codec") /\ Codec!Next
    \/ Turn("scans") /\ Scans!Next
    \/ Turn("rtt") /\ Rtt!Next
    \/ Turn("heap") /\ Heap!Next

PartsSpec == PartsInit /\ [][PartsNext]_allVars

-----------------------------------------------------------------------------
(* The port table's walk over the states it suppresses shows each once.    *)
SuppressedShownOnce == part = "ports" => IgnoredShownOnce

(* Traces that were linked to one another show the routers of each         *)
(* target's own path, and never close on themselves even when the paths    *)
(* change.                                                                 *)
RoutesRight ==
    /\ part = "skewed" => Skewed!HopsOnPath
    /\ part = "unstable" => Unstable!ChainsFall

(* One wrong count, from a lost probe or traffic of others, never puts a   *)
(* wrong port in the list, and what idle_treescan() returns is the number  *)
(* of ports it set.                                                        *)
IdleExact == part = "idle" => Idle!OpenExact /\ Idle!TotalIsMarked

(* An answer is matched with the probe that caused it and with no other,   *)
(* and one that comes in the next scan with none.                          *)
AnswersMatched ==
    /\ part = "codec" => Codec!AnswersFindTheirProbe
    /\ part = "scans" => Scans!LateAnswersRejected

(* The timeout stays within its bounds and the estimate within the answers *)
(* seen, whatever the clock does after the first answer.                   *)
RttSound == part = "rtt" => Rtt!TimeoutBounded /\ Rtt!EstimatePlausible

(* nsock's heap implements a priority queue, and after any sequence of     *)
(* pushes and removals every node knows its place in it.                   *)
ImplementsQueue == Heap!ImplementsQueue /\ [](part = "heap" => Heap!IndexExact /\ Heap!HeapOrdered)
=============================================================================
