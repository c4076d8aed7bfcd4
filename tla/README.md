# A verification project for nmap

TLA+ modules that model the parts of nmap that schedule work and keep books about it: the
scan engine, host groups, the port list, the nsock event library and its clients (the script
scheduler, reverse DNS, version detection), traceroute and idle scan. TLC checks them on
small instances, and TLAPS proves the central invariants of the scan engine, the host groups,
the port list, the event library, reverse DNS and the script scheduler for every size of
instance.

    tlc -workers 2 -config RawPortScan.cfg MCScanTypes     # one run
    tlapm UltraScan_proofs.tla                             # the proofs of one module

`PROJECT.json` lists components, runs, seeded faults, the lines each definition models,
findings, hazards and theorems. Paths below are relative to `src/nmap/`.

## 1. Inventory

nmap is a command-line program. Almost all of it runs in one thread that multiplexes its
work itself, so its hard behaviours are not data races but *protocol* ones: answers that
arrive late, twice, or never; timeouts; callbacks that free what their caller still holds;
counters kept by hand beside the lists they count; limits shared by many hosts.

| Component | Source | State | Operations | Hard behaviour | What makes it correct | Module |
|---|---|---|---|---|---|---|
| **Scan engine** (core) | `scan_engine.cc/.h` | per host: outstanding probes, counters, bench, retry stack, allowed tries, pingprobe, rate-limit wait; per group: counters, windows, ping host; incomplete and completed hosts | `doAnyPings`, `doAnyOutstandingRetransmits`, `doAnyRetryStackRetransmits`, `doAnyNewProbes`, `waitForResponses`, `processData` | late answers, retransmission against timeout, host timeout, completion, termination | counters exact; every port tried and retried as allowed; try numbers neither repeated nor skipped; port state independent of answer order; the scan ends | `HostScanStats`, `UltraScan` |
| **Connect probes** | `scan_engine_connect.cc` | sockets watched by `select()`, their number and limit | `sendConnectScanProbe`, `handleConnectResult`, `do_one_select_round` | `connect()` that finishes at once, errors read once, socket limit | sockets bounded and counted | `HostScanStats`, `UltraScan` |
| **Raw probes** | `scan_engine_raw.cc` | base port, sequence mask; numbers encoded in packets | `sport_encode`, `seq32_encode`, `tcp_probe_match`, `increment_base_port` | matching an answer to the right try; 16-bit wrap; answers from an earlier scan | an answer is matched with the probe that caused it | `ProbeCodec` |
| **Timing** | `timing.cc/.h` | `cwnd`, `srtt`, `rttvar`, `timeout` | `adjust_timeouts2`, `ack`, `drop` | first sample, clamps, steps of the clock | the estimate follows the answers and the timeout stays in range | `RttEstimator` (windows: abstract in `HostScanStats`) |
| **Host groups** | `targets.cc`, `NewTargets.cc`, `nmap.cc` | batch, defer buffer, undeferred hosts, group, resume address | `nexthost`, `refresh_hostbatch`, `returnhost`, `nmap_main` | hosts deferred, returned, added; crash and `--resume` | every address is decided once; groups are homogeneous | `HostGroup` |
| **Port list** | `portlist.cc/.h` | slots per protocol with state counts | `setPortState`, `createPort`, `forgetPort`, `setDefaultPortState`, `nextPort`, `nextIgnoredState` | counts kept beside the map; iteration while scripts change it | counts equal the map; iterations are complete | `PortList` |
| **Nsock** | `nsock/src/*` | event lists shared by all descriptors, `first_*` pointers, expirable heap, watch counters | `nsock_loop`, requests, cancel, `nsock_iod_delete`, `nsock_pool_delete`, engines | handlers that start, cancel and delete while lists are walked | every event ends exactly once; counters equal lists | `Nsock`, `EventDelivery`, `GhHeap`, `PriorityQueue` |
| **NSE scheduler** | `nse_main.lua`, `nse_main.cc`, `nse_nsock.cc`, `nse_nmaplib.cc` | running, waiting, pending threads, mutexes, condition variables, socket slots, timeouts | `run`, `nse_yield`, `nse_restore`, `close`, mutex and condvar calls, `socket_lock/unlock` | wake-up against timeout and garbage collection | no thread lost; no needed wake-up dropped | `NseScheduler` |
| **Reverse DNS** | `nmap_dns.cc` | per-server windows and queues, requests by id, deferred list | `do_possible_writes`, `read_evt_handler`, `deal_with_timedout_reads` | answer after a retry or a change of server | every address is answered, deferred or dropped once | `NmapDns`, `DnsLookup` |
| **Version detection** | `service_scan.cc` | services remaining, in progress and finished; a walk over the probes | `launchSomeServiceProbes`, the connect, read and write handlers, `nextProbe` | callbacks against host timeout, the two walks | every service ends; every due probe is sent once | `ServiceScan` |
| **Traceroute** | `traceroute.cc` | probes per host and TTL, tree of hops, hop cache | `send_next_probe`, `set_host_hop`, `link_to`, `cull_timeouts` | merging of traces, late replies | a hop for each TTL, on the target's own path | `Traceroute` |
| **Idle scan** | `idle_scan.cc` | the proxy's IP ID, the recursion | `idlescan_countopen2`, `idle_treescan` | IP ID arithmetic, lost and late packets | exactly the open ports are reported | `IdleScan` |
| OS detection, FTP bounce, Ncat, Nping, output, options, data tables, libnetutil, NSE scripts, Zenmap, Ndiff, vendored libraries | | | | | | not modelled (section 7) |

How they interact: `nmap_main` takes a batch of targets from the host-group code, which
calls `ultra_scan` for host discovery; the surviving targets go through `ultra_scan` again for
each port-scan type, then through service detection, OS detection, traceroute and NSE. Each
of these phases frees its state when it returns; what one hands to the next is in the
`Target` (pingprobe, timing, port list). Service detection, DNS and NSE are clients of nsock
and run as its callbacks; the scan engine uses `select()` and libpcap directly.

## 2. Plan

Done: all modules of section 3, the runs of section 4, the proofs of section 6.

Left, for the proofs: what section 6 lists as only model-checked. None of the modules that are
proved about declares a `RECURSIVE` operator.

## 3. Modules

Definitions whose name is that of another definition with a suffix (`completed_IgnoresRetransmits`,
`FreedIfIdle`, `DoneByAnyThread`) are seeded faults: plausible slips in the code that the
properties must catch. Nothing uses them but the mutation tests listed in `PROJECT.json`.

### The scan engine

`HostScanStats` models class `HostScanStats` and the parts of `GroupScanStats` and
`ConnectScanInfo` its methods write. The state of a host is a record with the names of the
C++ members; a method is an operator on it. Methods that write both host and group take
and return a *view* `[hss, g]`; methods whose outcome depends on the congestion-control
arithmetic or on `connect()` return the set of possible results.

`UltraScan` composes the hosts with the loop of `ultra_scan()`. `phase` says which function
of the loop runs, `todo` which hosts it has yet to visit, `cur` holds `processData`'s
locals (`maxtries`, `tryno_mayincrease` and the probes its inner loop has yet to look at),
because the code computes them once and then changes the host.

| Actions | Code |
|---|---|
| `HostPing`, `GlobalPing`, `EndPings` | `doAnyPings`, `sendPingProbe`, `sendGlobalPingProbe` |
| `NothingToRetransmit`, `BeginRateLimitWait`, `Retransmit`, `EndRetransmits` | `doAnyOutstandingRetransmits`, `retransmitProbe` with its assertion |
| `SendRetry`, `EndRetries`, `SendNew`, `EndNew` | `doAnyRetryStackRetransmits`, `doAnyNewProbes`, `printAnyStats` |
| `PingAnswer`, `PortAnswer`, `DiscoveryAnswer`, `ArpAnswer`, `UnsolicitedReply` | `get_pcap_result`, `get_ping_pcap_result`, `get_arp_result`, `get_ns_result` |
| `SelectAnswer` | `do_one_select_round`, `handleConnectResult` |
| `RateLimitWaitOver`, `HostClockExpires`, `EndWait` | the clock, `Target::timedOut`, end of `waitForResponses` |
| `StartProcess`, `VisitHost`, `ExpireProbe`, `FinishHost`, `FinishHosts`, `ExpireGlobalPing`, `EndRound` | `processData`, `removeCompletedHosts` |

Abstractions, all of which only add behaviour: a probe's age is chosen when `processData`
looks at it (`young`, `late` or `expired`); `cwnd` is `floor(cwnd + 0.5)`, raised by an ack to
anything up to `max_cwnd` and lowered by a drop to anything down to `low_cwnd`; scan delay,
`--max-rate` and the limit of 50 sends per wait are replaced by a sending phase that may end at
any moment; an answer is a choice of an outstanding probe and of a meaning in `Responses` or
of an errno in `Errnos`. `seen` and `tries` are history variables; no guard reads them.

`ProbeCodec` supplies what `UltraScan` takes for granted, that an answer finds its probe: one
host and port over several scans, try and ping numbers in 16-bit source ports and 32-bit
sequence numbers, answers in any order and late. `RttEstimator` is `adjust_timeouts2` with its
numbers, in microseconds.

### Host groups and the port list

`HostGroup` follows `nmap_main`'s loop over groups and `nexthost` below it. `Refresh`,
`TakeUndeferred`, `TakeSpec`, `TakeNew` and `EndFill` are `refresh_hostbatch` and
`next_target`; `Gather`, `GroupFull`, `Scan` and `Report` the loop in `nmap_main` with
`returnhost`; `AddTarget` is `NewTargets::insert` from a script; `Crash` kills nmap and starts
it again with `--resume`, which reads the last logged address.

`PortList` has one action per method that writes (`setPortState`, `setDefaultPortState`,
`createPort`, `forgetPort`), and an iteration (`StartIteration`, `CallNextPort`) that goes on
while they happen. `nextIgnoredState` is an operator, checked in every state.

### Nsock

`Nsock` models the pool: the intrusive lists shared by all descriptors, the `first_*`
pointers, the heap, the free list and the counts. Handlers are client code that calls the
library again, so the calls under way are a stack. `Client` are the requests
(`nsock_connect_*`, `nsock_read*`, `nsock_write`, `nsock_timer_create`, `nsock_event_cancel`,
`nsock_iod_delete`), `Library` the steps of `nsock_loop` and of the calls that walk lists
(`process_iod_events`, `process_expired_events`, `nsock_iod_delete`), `Kill` those of
`nsock_pool_delete`. `EventDelivery` is what the library promises: each event ends exactly
once, and the number of pending ones is right. `ImplementsDelivery` is the refinement, with
`outcome` kept by `Nsock` as history and `events_pending` mapped to `pending`.

`GhHeap` is the heap under it, with the index each node keeps of its own place;
`ImplementsQueue` is its refinement of `PriorityQueue`.

### Clients of nsock

`NseScheduler`: `MainLoop` is `run()` (start, check time-outs, resume, `socket_unlock`, loop
again), `Script` what a script may do while it runs (end, sleep, lock and unlock, wait, signal
and broadcast, connect, send or receive, close, start a worker), `Callback` nsock's. Lua's
collector is an actor of its own (`CollectThread`, `CollectCoroutine`) because the tables of
threads are weak.

`NmapDns`: `RetryServer`, `MoveOn`, `StillWaiting`, `EndTimeouts` are
`deal_with_timedout_reads`; `WriteQueued`, `WriteNew`, `SkipServer`, `EndWrites`
`do_possible_writes`; `write_evt_handler` its callback; `PtrAnswer`, `NxDomain`,
`SystemResolve` and `ServFail` the outcomes of `read_evt_handler`, for any query ever sent;
`SystemDns` the second pass over deferred requests. `DnsLookup` is the abstract
specification; `ImplementsLookup` maps `total_reqs` to the number of lookups left.

`ServiceScan`: `Launch` is one turn of `launchSomeServiceProbes`, `Callback(s)` any of the
handlers (connect, write, and read with its outcomes) run to its end, `Expire` the host's
clock. Which probes suit a port, are rare or can find a service is given by constants; what an
answer matches is free.

### Traceroute and idle scan

`Traceroute`: the tree of `Hop` structures as a function, `SendNextProbe`, `Reply`, `TimeOut`
(`cull_timeouts`), `RemoveFinished`; `insert_hop`, `link_to` and `merge_hops` are operators on
the tree. `IdleScan`: `idle_treescan()`'s recursion as a stack of frames, one count as
`SendSyns`, `Try`, `Recount`, `GiveUp`; the proxy's counter and packets that are lost, late or
somebody else's.

### Instances

Each MC module gives the modules their constants. Some runs are unions: `MCScanTypes` (the
kinds of scan, variable `kind`), `MCNsock` (three clients, `client`), `MCPhases` (the phases of
nmap, `engine`), `MCParts` (the bookkeeping parts, `part`) and `NseScheduler` itself
(`repertoire`). The variable is chosen in the initial state and never changes, so the union has
the behaviours of the instances and no others; nmap runs its phases one after the other and
none reads another's state.

| Module | Instances |
|---|---|
| `MCScanTypes` | the scan of the configuration (`"own"`: `RawPortScan`, `Termination`); UDP-style scan of 2 hosts with pings and `--host-timeout`; connect scan, 2 ports, all errnos, 1 socket; discovery of 2 hosts by 2 probes; ARP discovery with unsolicited replies, which waits before its first retransmissions although it has one probe per host; a port scan of 4 ports under way (one second try in flight, three timed out, a state that silent ports lead to) |
| `MCNsock` | all kinds of events on one iod (poll); SSL on one iod (epoll); reads without timeouts on two iods |
| `MCPhases` | 6 target specifications on 2 interfaces with a duplicate, an excluded one and one added by a script, 1 crash; 2 services with 3 probes; 3 services on 2 hosts that time out; a trace of length 3 with TTLs up to 4; an idle scan whose probes are lost; 2 nsock events |
| `MCParts` | 4 ports of 3 protocols; 2 traces with a router at different distances; 2 traces on paths that change; idle scan of 4 ports with one fault; 3 probes with base ports at both ends; 2 scans with late answers; 5 round-trip times around every threshold; a heap of 6 |

## 4. Properties and runs

| Run | Properties | Why the bounds suffice |
|---|---|---|
| `RawPortScan` | `TypeOK`; `HostCountersExact`; `TriesAreSequential` (a port is in one place and no try number is repeated or skipped); `BenchUniform` (the assertions about try numbers); `NoPortForgotten`; `PortStateIsBest` (the best answer wins in any order) | three ports are the least with one benched, one stacked and one in flight |
| `ScanTypes` | `GroupsCounted` (`GroupCountersExact`, over both host lists); `NoAssertFails` (`NoAbort`); `AllHostsJudged` (`EveryHostJudged`); `RetryStacksSorted`. Every action of `UltraScan` happens in it | two hosts share the group's counters; two try numbers on the stack need four ports |
| `Termination` | `ScanTerminates`; `SocketsBounded` | two hosts compete for one socket, with retries |
| `NsockEvents` | `CountsExact`; `ListsExact` (grouping, `first_*` pointers, free list and heap agree); `NoFatal`; `ImplementsDelivery` | with three events a walk has one before, one at and one after its position |
| `NseThreads` | `NoThreadLost`; `LockMeansOwner` (two scripts are never inside one mutex); `CondvarWakes`; `NoAbort` (no socket event finds its thread finished); `ClockStops` | two scripts and a worker that outlives its script |
| `NseEnds` | `WaiterHasWaker` (whoever waits has somebody to wake him); `Terminates` | three threads and two slots: one waits, one runs, one ends |
| `DnsResolution` | `OnWireExact`; `RecordsMatch`; `ImplementsLookup`; `DnsTerminates` | a request can fail at one server, be retried, move and be answered late by the first; three ids for up to eight queries: a query takes the id of one still outstanding and replaces its record, and an answer ends the wrong lookup |
| `Phases` | `EveryHostOnce`; `GroupsRight` (one interface, no duplicates, `numhosts_up` exact, defer buffer bounded); `ServicesRight`; `TraceComplete`; `PhasesEnd` | a host can be deferred and returned in one run; the walks over three probes pass a rare one |
| `Parts` | `CountsExact`; `IterationComplete`; `SuppressedShownOnce`; `RoutesRight`; `IdleExact`; `AnswersMatched`; `RttSound`; `ImplementsQueue` | six nodes give a heap of three levels in which a replaced node moves up as well as down |

Named bounds: `MaxPings`, `MaxOps`, `MaxEvents`, `MaxCrashes`, `MaxFaults`, `MaxReads`,
`MaxReplies`, `MaxScans`, `MaxProbes`. The rest is bounded by the code (`tryno_cap`,
`max_cwnd`, `MAX_RESENDS`, `SERVERS_TO_TRY`...). Hosts and ports are interchangeable in
`UltraScan`, so symmetry is used in its safety runs; it is not used where liveness is checked.

*Fairness.* In every case: the loop runs on (`WF` of its steps), and the clock reaches every
deadline (`SF` of the action that is due, because the visits at which it is not due disable
it). In detail:

* `UltraScan!Fairness`: `SF` for the sends, for the end of a rate-limit wait and, per host and
  port, for the expiry of a probe (`ExpireOne`). The gates that may close a sending phase early
  and a probe's youth are functions of the clock, which advances in every `waitForResponses`.
  Nothing is assumed about answers: they may all be lost.
* `NmapDns`: every write calls back and every request expires in the end.
* `NseScheduler`: a script's operations return; sleeps and socket events, which all have a
  timeout, are delivered.
* `MCPhases`: the fairness of the phases' own specifications. Since `engine` does not change,
  the fairness of an action of one phase and of an action of another is that of their
  disjunction, which keeps the formula small. Nsock's `ENABLED` conditions are spelled out
  (`Running`, `MayExpire`).

## 5. Findings

Three runs state what the documentation or a comment says and are violated:

* `RetransmitAssert`: in a connect ping scan whose retransmitted probe is answered by
  `connect()` itself, `destroyAllOutstandingProbes` frees the probe that `retransmitProbe`
  goes on to mark, and its assertion fails.
* `HostResumeDown`: with `-v` a host that is down is logged before the hosts of its group that
  are up; killed there and resumed, nmap never scans those.
* `NseDeadOwner`: a thread that times out in the queue of a mutex stays queued, is given the
  lock later, and nobody releases it.

Further statements do not hold of the code, and the checked instances are chosen around them.
Each can be reproduced by a configuration that differs as shown:

| Statement | Instance in which it fails | What the code does |
|---|---|---|
| `UltraScan!ScanTerminates` | `HostTimeout = TRUE`, 3 hosts, `MaxCwnd = 1` | a host that times out takes its active probes to `completedHosts`, where nothing expires them (`scan_engine.cc:1167`) |
| `UltraScan!ParallelismBounded` | 3 ports, `MaxCwnd = 1` | `sendOK` answers a pending rate-limit wait before it looks at the window (`scan_engine.cc:561`) |
| `UltraScan!MayIncreaseIsFinal` | 2 ports, `TrynoCap = 2` | late answers raise the tries after `tryno_mayincrease` became false |
| `UltraScan!RstAloneProvesNothing` | connect ping scan, `DiscoveryIgnoreRst = TRUE` | the error of an ignored RST has been read, and the socket then looks connected |
| `HostGroup!ScansMaxIps` | `MaxIps = 3`, batches of 4 | `-iR 3` may scan a fourth host (`targets.cc:317`) |
| `HostGroup!ResumeMissesNone` | two interfaces, one crash | a deferred host comes after later ones in the log |
| `PortList!OnlyAllowedProtocol` | `Allowed = {"TCP"}` | `nextPort()` goes on with UDP (`portlist.cc:589`) |
| `Nsock!CountsExact` without `~Ssl` | SSL connects | the count of a handshake that times out is not lowered (`nsock_core.c:348`) |
| `Nsock!CountsExact` | `reentrant` client | the struct of a cancelled event, reused by its own handler, is marked done and stays counted (`nsock_event.c:317`) |
| `Nsock!NoFatal` | `reentrant` client | the handler of an event that `nsock_iod_delete` ends requests another on the same iod (`nsock_iod.c:235`) |
| `Nsock!NeverNone` | `reentrant` client | the struct of a cancelled event is reused by its own handler (`nsock_event.c:317`) |
| `Nsock!DeletionKills` | any | `nsock_iod_delete()` says CANCELLED, its comment KILL |
| `Nsock!DeletedIodsFreed` | `engine = "epoll"` | a deleted iod is never visited again |
| `GhHeap!RemovedAreInvalid` | any | a node removed from the last slot keeps its index |
| `NseScheduler!SocketLimit` | `Parallelism = 1`, 2 threads | one thread more than the limit (`nse_nsock.cc:189`) |
| `NseScheduler!Terminates` | `Gc = TRUE`, sockets | slots of collected threads vanish without waking anybody (`nse_nsock.cc:215`) |
| `NseScheduler!Terminates` | `Repertoires = {{"mutex", "socket"}}` | slot holders wait for a mutex whose owner waits for a slot |
| `NseScheduler!NoAbort` | `Sharing = TRUE` | an event of a refused send finds its thread gone |
| `ServiceScan!AllServicesFinished` | `Parallelism = 1`, `HostTimeouts = TRUE` | `servicescan_write_handler` returns without launching the next (`service_scan.cc:2403`) |
| `ServiceScan!TcpwrappedWasConnected`, `ExcludedReported`, `SoftMatchExhausted` | failing connects; `Excluded # {}`; a rare probe in `Possible` | see the comments of the definitions |
| `NmapDns_proofs!RecordsComplete` (every request in process has its record) | `IdSpace = 3` | an id is used again with no look at the table, and the older request's record is replaced (`nmap_dns.cc:470`); the request then ends by its timeout |
| `Traceroute!TraceComplete` | 2 targets on one path | each leaves the rest of the path to the other (`traceroute.cc:1070`) |
| `IdleScan!CountRight` | `IdModulus = 16`, `FirstId = 13` | the counter wraps during a count |
| `IdleScan!OpenExact` | `Faults = {"late"}` | a late RST is counted for the next port |
| `ProbeCodec!LateAnswersRejected` | two scans, `PingSeqs = {246}` | `increment_base_port` adds less than the largest offset |
| `ProbeCodec!AnswersFindTheirProbe` | `MagicPort = {TRUE}` with pings | `check_tryno_pingseq(0, 0)` accepts a ping |
| `RttEstimator!EstimatesPositive` | a first delta of -60000000 | the first answer is stored unchecked (`timing.cc:124`) |

## 6. Proofs

Each theorem holds for every value of the constants that satisfies the module's named
assumptions (`ScanAssumption`, `PingAssumption`, `UltraScanAssumption`, `HostGroupAssumption`,
`DnsAssumption`, `SchedulerAssumption`, `NsockAssumption`, and those of `PortList`), and for any
number of hosts, ports, scripts, servers, targets or events. A further hypothesis is in the theorem's `ASSUME` and below.

| Theorem | Property | Hypothesis | Module |
|---|---|---|---|
| `TypeCorrect` | `UltraScan!TypeOK` | | `UltraScan_proofs` |
| `SocketLimit` | `UltraScan!SocketsBounded` | | `UltraScan_proofs` |
| `CountersExact` | `UltraScan!HostCountersExact` | | `UltraScan_proofs` |
| `BenchIsUniform` | `UltraScan!BenchUniform` | | `UltraScan_proofs` |
| `TriesInSequence` | `UltraScan!TriesAreSequential` | | `ScanProgress_proofs` |
| `StateIsBest` | `UltraScan!PortStateIsBest` | `Comparable` | `ScanProgress_proofs` |
| `PortsRemembered` | `UltraScan!NoPortForgotten` | `Tracked` | `ScanProgress_proofs` |
| `HostsJudged` | `UltraScan!EveryHostJudged` | `Tracked`, `Ports # {}` | `ScanProgress_proofs` |
| `StackSorted` | `UltraScan!RetryStackSorted` | | `ScanProgress_proofs` |
| `GroupExact` | `UltraScan!GroupCountersExact` | | `ScanProgress_proofs` |
| `NoAssertion` | `UltraScan!NoAbort` | `~SettlesAtOnce` | `ScanProgress_proofs` |
| `StateCountsExact` | `PortList!CountsExact` | | `PortList_proofs` |
| `IterationIsComplete` | `PortList!IterationComplete` | | `PortList_proofs` |
| `GroupsAreRight` | `HostGroup!GroupsRight` | | `HostGroup_proofs` |
| `EveryHostIsDecidedOnce` | `HostGroup!EveryHostOnce` | no limit on hosts (`MaxIps = 0`) | `HostGroup_proofs` |
| `WireCountsExact` | `NmapDns!OnWireExact` | | `NmapDns_proofs` |
| `DnsRefinesLookup` | `NmapDns!ImplementsLookup` | | `NmapDns_proofs` |
| `RecordsExact` | `NmapDns!RecordsMatch` | | `NmapDns_proofs` |
| `AnswersFindRequests` | `RecordsComplete` | `IdsSuffice` | `NmapDns_proofs` |
| `ThreadsNeverLost` | `NseScheduler!NoThreadLost` | | `NseScheduler_proofs` |
| `ClocksStop` | `NseScheduler!ClockStops` | | `NseScheduler_proofs` |
| `LockHasOneHolder` | `NseScheduler!LockMeansOwner` | `~Sharing` | `NseScheduler_proofs` |
| `CallbacksFindTheirThread` | `NseScheduler!NoAbort` | `~Sharing` | `NseScheduler_proofs` |
| `CondvarWakesWaiters` | `NseScheduler!CondvarWakes` | `~Sharing` | `NseScheduler_proofs` |
| `WaitersAreWoken` | `NseScheduler!WaiterHasWaker` | `~Sharing`, `~Timeouts`, `~Gc` | `NseScheduler_proofs` |
| `DeliversOnce` | `Nsock!ImplementsDelivery` | | `Nsock_proofs` |
| `NeverFatal` | `Nsock!NoFatal` | `~Reentrant` | `NsockCalm_proofs` |
| `ListsRight` | `Nsock!ListsExact` | `~Reentrant` | `NsockCalm_proofs` |
| `CountsRight` | `Nsock!CountsExact` | `~Reentrant` | `NsockCalm_proofs` |

*Scan engine: types and sockets.* The induction is over `TypeInv == TypeOK /\ ListsFinite /\ SocketsBounded`. `TypeOK` alone is
not inductive: `destroyAllOutstandingProbes` subtracts cardinalities, which are integers only
for finite lists, hence `ListsFinite`. The argument follows the code's structure.
The first part of `UltraScan_proofs` states for every method what it does to the *books* of a host (list,
two counters, `Kept` fields) and to the number of sockets: destroying, marking, clearing and
enqueuing are the only four things that happen (`Destroyed`, `Marked`, `Cleared`, `Enqueued`),
every answer is one of them (`Outcome`), and a send is an `Enqueued` possibly followed by an
`Outcome`. What is left is, for each action, that it commits such a view, and that every sender
has asked `GroupSendOK`.

*Scan engine: counters and bench.* The induction is over `BooksInv == TypeInv /\ HostsGood /\ CurOK`. That
the counters are exact is not inductive: adding a probe that is already listed would raise a
counter and not the list. So `HostsGood` says, for each host, what keeps two tries of a port
apart:

* `Keyed`: port, try number and ping number identify a listed probe; `PingsBelow`: the next
  ping number is unused;
* `Newest`: a probe that can still be retransmitted is its port's last try, so its successor
  is new; `FlagsOK`: only a timed-out probe is marked retransmitted;
* `FreshUntried`, `BenchParked`, `StackParked`, `Distinct`: a fresh, benched or stacked port
  has no probe that can still be retransmitted, and is parked in one place;
* `WithinAllowed`: no try, bench or stack entry is past `allowedTryno`.

`retransmitProbe` sends the new try before it marks the old one, and in between the old probe
is no longer the newest though it is not yet marked: `Newest` takes a set of exempt probes,
which is that probe during the call and empty between steps. `CurOK` relates `processData`'s
locals to the host it works on: the probes its loop has yet to
look at are still listed, `maxtries` bounds their tries, and if `mayincrease` is true it is the
try number of the bench they may join. The counts themselves
come from lemmas on cardinality (`CountRemove`, `CountAdd`), and each action again reduces to
the four things that can happen to a list. `Good` is preserved by each of them, once.

*Scan engine: what becomes of the ports.* The induction is over `ProgressInv == BooksInv /\ Journals /\ CurNext /\
DoneDecided /\ GroupCountersExact`. A host's `Journal` relates where its ports are to what was
asked and answered:

* `Numbered`: a listed, benched or stacked port is there with the number of its last try, but
  for tries that have a successor; `Untried`: a port not tried yet is fresh;
* `Covered`: a port about which more is to be learnt (`~Decided`: no answer, and fewer tries
  than `--max-retries` allows; in host discovery, no verdict yet) is fresh, listed with a try
  that can be retransmitted, benched or stacked (`Held`);
* `Sorted`, `BenchAbove`: the retry stack ascends and the bench is above it. The second is why
  `retransmitBench` may append: the bench it empties has a higher number than all it pushed
  before, because `allowedTryno` has grown past it since;
* `Told`: a port's state is the best of the answers it has seen.

A port passes from place to place in the middle of a call: `sendNextScanProbe` has taken it
from the fresh ones and not listed it yet, `retransmitProbe` has sent the new try and not
marked the old one. So `Journal` takes the exempt probes and the exempt ports, both empty
between steps. `CurNext` is about the `maxtries` that `processData` computes when it comes to a
host and then goes by: it allows enough tries, so the port of a probe that is given up has had
them, and it is above the retry stack, so a bench begun at `maxtries` is too. `DoneDecided` is the
conclusion: a host that leaves the incomplete ones with no
probe, bench, stack or fresh port left holds no port, so by `Covered` all are decided, and what
is decided stays so. `GroupCountersExact` is an invariant beside it: the counters are the
cardinality of a set of pairs of a host and a probe, every action changes one host's list, and
what the group counts beyond that host's share stays the same (`Balanced`). The steps of the
code are summed up three ways: nothing is sent and answers may have come (`Follows`), a host
moves (`Moves`), nothing that matters changes (`Still`).

The hypotheses: `Comparable` says that a scan whose answers include *unfiltered* has no
*closed* and no `noresp_open_scan`: that answer comes from an ACK scan only, which gives no
other but *filtered*, and the precedence rule has no order between them. `Tracked` excludes
two ends of a connect scan in which the code itself loses track of a port: a `connect()` that
fails at once with an errno `handleConnectResult` does not expect, and a refused one that
`--discovery-ignore-rst` ignores, destroy the probe, and no try succeeds it. Both are `connect()`
results at the time of the call; when they come from `select()` the probe stays listed and
times out, which the theorems cover. `Ports # {}`: a scan that sends nothing judges nothing.
`~SettlesAtOnce` says that no `connect()` brings a host up, in host discovery, before it
returns; with it the assertion fails, which is finding `RetransmitAssert`.

*Port list.* `CountsInv` adds to `CountsExact` only the types of the slots: the slots of a
protocol are a function, so one write moves one port from one count to another, and
`setDefaultPortState` moves a whole class, which is why it needs the cardinality of a union.
`IterInv` is about an iteration under way: the ports returned are in order and end at the cursor
(`InOrder`, `AtCursor`), and a port that has had the wanted state since the start is either
returned or after the cursor (`StillQualify`, `StillToCome`), whatever was changed
between two calls.

*Host groups.* `GroupInv == TypeOK /\ Stage /\ GroupsRight`, where `Stage` says what the phase
implies about batch and buffer. It holds with crashes. `EveryHostOnce` needs an equation:
`Balance` says that for every address the occurrences among the decided hosts, the group under
scan, the rest of the batch, the defer buffer, the undeferred hosts, the specifications yet to
be expanded and the queue of new targets add up to the times it was asked for; `Ending` says
that all places but the first are empty when a group stays empty. It is stated for `MaxIps = 0`
because `-iR` ends the run after a number of hosts, whatever else is queued, and `Balance` is
about runs that were not killed, as the property is.

*Reverse DNS.* `LookupInv` says where each request is: new, on a server's queue, with nsock
(`writes`) or in process at one server, never in two of them (`NewOK`, `QueuesOK`, `WritesOK`, `InProcessOK`, which
also keep its server and tries in step), and in one of them as long as its address has no
outcome (`PlacedOnce`); `total_reqs` counts those left (`LeftOK`). The refinement follows from it, because a callback finds its request
where the step that ends a lookup assumes it. `RecordsLive` and `OwnInv` carry `RecordsMatch`
for every number of ids: a request that was sent has its query on the wire (`IdsOnWire`), so
a step that overwrites or clears the record of an id can only hurt a request whose id is
shared (`RecordsKept`). `RecordsComplete` needs more: ids are handed out in cyclic order
(`IdInv`), so two queries of one run have the same id only after a wrap, and `IdsSuffice` says
that there is none, `NumTargets * SERVERS_TO_TRY * TriesPerServer <= IdSpace`: in nmap at most
4096 * 9 for a default host group against 65536. With `--randomize-hosts` or a large
`--min-hostgroup` a group may be larger, and only `RecordsExact` covers it: the 16-bit id is
then reused with no look at the table (`nmap_dns.cc:470`).

*Script scheduler.* `ThreadsInv` says that the live threads are the disjoint union of the
running, waiting and pending ones and the one being resumed, counted by `num_threads`
(`Separate`, `Counted`), and that the parent of a live thread, worker or not, is a script
(`Parents`), whose clock it keeps running. It needs
no hypothesis: time-outs, the collector and shared sockets are included. The mutex, condition variable
and socket theorems are about `PrivateInv`, which adds why each thread waits (`Reasons`: wake-ups come from five places that know nothing
of each other; a live thread is in at most one of them, and in none while it is awake), that queues have no duplicates
(`Queues`), that an event under way belongs to the suspended thread that opened the socket (`EventsOwned`) and
that the destructor of a mutex is its owner's (`Locks`). It assumes `~Sharing`, that a script
does not hand its socket to another thread: with it `NoAbort` fails, as section 5 lists.
`WaitersAreWoken` adds, from `Wakers`, that the owner of the mutex is alive and the slots are
taken while somebody waits for one. It cannot hold with time-outs, which is finding
`NseDeadOwner`, nor with the collector, whose weak keys free slots without waking anybody
(section 5).

*Event library.* `DeliversOnce` is the refinement: for any clients, any engine and any number of
events, with handlers that request, cancel and delete from within any call, every event ends
exactly once, and `events_pending` counts those that have not. The induction is over
`DeliveryInv`. That an event ends once rests on where its struct is, so `Events` says that the
events that have not ended are exactly the *live* structs, one for each: a struct is `Live` when
it is `Kept` (on the list of its type, or in the heap if it is a timer) and not `Held` by a call
of its handler. It must be said of the calls under way too (`Frames`), because
`process_iod_events()` and `process_expired_events()` delete an event only after its handler, so
that the event is still on its list, done, while the handler calls the library: the handlers of
such events run for different structs (`HeldIs`), `process_iod_events()` is at the bottom of the
stack and its place is the event whose handler it called. `Lists`, `Firsts` and `Heap` say
what the pointers need: no event is listed twice, the events of one iod are together,
`first_*` is the first of them, and a struct on the free list is on no other and not in the
heap. The last is what makes it harmless that `nevent_delete()` puts an event on the free list
*before* its handler runs: a handler that requests an event may get the very struct whose
cancellation it is told of, and when it returns that struct is marked done; the new event then
ends early and without a status (section 5), but it still ends once.
While `nsock_pool_delete()` runs the list heads are stale, hence `~Killing => Firsts`, and
`events_pending` is not kept, which the refinement mapping replaces by the number of events that
have not ended. The proof has one lemma for each operator of the library that says what it does
to a state as a value (`Touch` for what changes an event in place, `Gone`, `Entered`,
`MovedTo`), and one `...Works` lemma for each action.

*Event library: counts and deletions.* `NeverFatal` and `ListsRight` add `CalmInv` to it.
`nsock_iod_delete()` ends the program if the count of the iod is not zero when it has walked the
lists, so the count must be exact (`PendingExact`: the number of live events of the iod), and the
walk must have met them all. The walk takes its next event before it ends the one it is at, and
reads the `first_*` pointer of each list before the first event ends; `Walk` says of each walk
under way that the lists before its place hold no live event of the iod, that in the list it is
in every live one is at or after its place, and that the pointers it has read are still the
first ones. This is not inductive for a walk whose handlers may request or delete events, since
the walk may not meet what they request, and the program then ends (section 5); hence `~Reentrant`, a client whose handlers of
cancelled events do not call the library, the kind the run `NsockEvents` checks, and `Calm`:
only the handler of the event just ended runs inside a walk. `HeapLive` says that an event
that is done leaves its list and the heap no later than its handler returns. It fails for the other clients,
because the handler of a cancelled event may be given its struct again (section 5). During
`nsock_pool_delete()` no list is walked, and `PendingExact` is what is left of the invariant.

*Event library: what the engine watches.* `CountsRight` adds `CountInv`, which says `Tallied` of the
state: the counts of an iod are the numbers of events that wait to read and to write on it, and the
engine watches for the bits with a count above zero. The code raises a count when it adds an event,
if the iod has a socket by then, and lowers it in the `handle_*_result()` function that ends the event, if the
iod *still* has a socket. So `Tallied` also says that an iod with events that wait has its socket:
`nsock_iod_delete()` closes it only when it has ended all of them. And a count may
be lowered only once for an event, which rests on `CalmInv`: a handler that returns ends an event
that has ended before, unless it was given the struct of its own event. A step of the library
lowers the counts of one event (`Fewer`), raises them (`More`) or leaves them, and `TallyDone`,
`TallyBegin` and `TallyKeep` say that the number of waiting events follows in each case. `CountsExact` is about connections
without SSL; with SSL it fails (section 5).

*Not proved.* Liveness under fairness (`ScanTerminates`, `Terminates`, `DnsTerminates`,
`PhasesEnd`) is beyond the prover. The heap's reordering (`hnode_up`, `hnode_down`, hence
`ImplementsQueue`) and the fold in `nextIgnoredState` (`SuppressedShownOnce`) are recursive computations over data, for which the
prover has no induction. The properties of version
detection, traceroute, idle scan, `ProbeCodec` and `RttEstimator`, and of `UltraScan` those not
listed above, are only model-checked, and so are the findings.

## 7. Not modelled

Of the engine: `--min-rate`; the fallback of `getTiming` to the group's window after 80
probes to a host; a ping scan that mixes raw and connect probes; errnos on which the program
exits; the wrap of ping numbers at 255 while an older ping is outstanding; scan delay and rate
meters; the order in which hosts and ports are visited (any order is allowed); payload choice.

Of nsock: pcap events, proxies, IOCP, the descriptor arrays of the engines. Of NSE: script
selection, pcap sockets, coroutines made by scripts. Of reverse DNS: the cache of names, server
discovery, the wire format. Of version detection: the probe file, regular expressions and
fingerprints. Of traceroute: packets, the trimming of hops, the cache across groups. Of idle
scan: the qualification of the proxy and timing. Of host groups: parsing of expressions,
`--open`.

Whole components: OS detection repeats the congestion control of `ultra_scan` in its own
classes, and its matching is numeric data processing; FTP bounce is a sequential dialogue;
Ncat and Nping are programs of their own, mostly I/O; output, options and tables are
formatting and parsing; libnetutil and nbase are packet construction, routing tables and
portability; the scripts, Zenmap and Ndiff are clients.

*Coverage.* The repository counts some 343,000 lines of implementation, most of them vendored
(libpcap, libpcre, libssh2, libdnet, liblua, zlib, liblinear), scripts, packet formats or user
interface. They have no state machine of nmap's own, and modelling them line by line would say
nothing about nmap; what the map covers is the code that schedules, matches and counts.
