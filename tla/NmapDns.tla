------------------------------ MODULE NmapDns ------------------------------
(***************************************************************************)
(* Parallel reverse DNS resolution (nmap_dns.cc): nmap_mass_rdns_core()    *)
(* and its nsock callbacks.  Requests wait in new_reqs or in a server's    *)
(* to_process, are being written, or are in a server's in_process until an *)
(* answer or a timeout; records finds a request by the id of its query.    *)
(*                                                                         *)
(* Time is abstract: any request in process may be found past its timeout. *)
(* A query that was sent may be answered at any time, late, twice, or      *)
(* never.  The order of in_process, which only decides the order in which  *)
(* expired requests are queued again, is any order.                        *)
(***************************************************************************)
EXTENDS Integers, Sequences, FiniteSets, Functions

CONSTANTS
    NumTargets,         \* number of addresses in the batch
    NumServers,         \* number of DNS servers
    CAPACITY_MIN, CAPACITY_MAX, CAPACITY_UP_STEP,
    SERVERS_TO_TRY,
    IdSpace,            \* number of query ids (2^16 in the program)
    FirstId             \* id of the first query, a random number

ASSUME DnsAssumption ==
    /\ NumTargets \in Nat /\ NumServers \in Nat \ {0}
    /\ CAPACITY_MIN \in Nat \ {0} /\ CAPACITY_MAX \in Nat /\ CAPACITY_MIN <= CAPACITY_MAX
    /\ CAPACITY_UP_STEP \in Nat /\ SERVERS_TO_TRY \in Nat \ {0} /\ IdSpace \in Nat \ {0}
    /\ FirstId \in 0..(IdSpace - 1)

Targets == 1..NumTargets
Servers == 1..NumServers
Ids == 0..(IdSpace - 1)
NoServer == 0
NoRecord == [tpreq |-> 0, server |-> NoServer]

VARIABLES
    req,            \* the request of each address
    serv,           \* the list servs
    new_reqs,       \* requests not yet given to a server
    records,        \* the map from query ids to requests
    total_reqs,
    deferred_reqs,
    progressiveId,  \* id of the next query
    writes,         \* requests whose nsock_write() has not called back
    wire,           \* queries sent so far, with the address they ask for
    outcome,        \* how each lookup ended
    phase,          \* the function that runs
    visit,          \* requests deal_with_timedout_reads() has yet to look at
    at              \* server do_possible_writes() looks at next

vars == <<req, serv, new_reqs, records, total_reqs, deferred_reqs, progressiveId,
          writes, wire, outcome, phase, visit, at>>

\* The number of tries a server is given, by the number of servers.
read_timeouts == <<3, 2, 2>>
TriesPerServer == read_timeouts[IF NumServers < 3 THEN NumServers ELSE 3]

Request == [tries : 0..3, servers_tried : 0..SERVERS_TO_TRY, first_server : Servers \cup {NoServer},
            curr_server : Servers \cup {NoServer}, id : Ids, due : BOOLEAN]

Server == [connected : BOOLEAN, reqs_on_wire : Nat, capacity : CAPACITY_MIN..CAPACITY_MAX,
           write_busy : BOOLEAN, to_process : Seq(Targets), in_process : SUBSET Targets]

Outcomes == {"pending", "cached", "down", "name", "nx", "dropped", "deferred", "noname"}

check_capacities(c) ==
    IF c < CAPACITY_MIN THEN CAPACITY_MIN ELSE IF c > CAPACITY_MAX THEN CAPACITY_MAX ELSE c

MinorDown(c) == check_capacities((9 * c) \div 10)
MajorDown(c) == check_capacities((7 * c) \div 10)

NextServer(s) == IF s = NumServers THEN 1 ELSE s + 1

InProcess == UNION {serv[s].in_process : s \in Servers}

-----------------------------------------------------------------------------

\* A host that is down is not looked up, nor one whose name is in the cache; the others are,
\* in the order of the batch.
Init ==
    /\ outcome \in [Targets -> {"pending", "cached", "down"}]
    /\ LET wanted == {t \in Targets : outcome[t] = "pending"} IN
       /\ new_reqs \in [1..Cardinality(wanted) -> wanted]
       /\ \A i, j \in DOMAIN new_reqs : i < j => new_reqs[i] < new_reqs[j]
       /\ total_reqs = Cardinality(wanted)
    /\ req = [t \in Targets |-> [tries |-> 0, servers_tried |-> 0, first_server |-> NoServer,
                                 curr_server |-> NoServer, id |-> 0, due |-> FALSE]]
    /\ serv = [s \in Servers |-> [connected |-> TRUE, reqs_on_wire |-> 0,
                                  capacity |-> CAPACITY_MIN, write_busy |-> FALSE,
                                  to_process |-> <<>>, in_process |-> {}]]
    /\ records = [i \in Ids |-> NoRecord]
    /\ deferred_reqs = {} /\ writes = {} /\ wire = {} /\ visit = {}
    /\ progressiveId = FirstId
    /\ phase = IF total_reqs = 0 THEN "done" ELSE "timeouts"
    /\ at = 1

\* deal_with_timedout_reads() finds that the time of r is not over.
StillWaiting(r) ==
    /\ phase = "timeouts" /\ r \in visit /\ ~req[r].due
    /\ visit' = visit \ {r}
    /\ UNCHANGED <<req, serv, new_reqs, records, total_reqs, deferred_reqs, progressiveId,
                   writes, wire, outcome, phase, at>>

\* Seeded fault: a request whose record is gone counts as answered already.
OffTheWire_ByRecord(s, r) ==
    [serv EXCEPT ![s].in_process = @ \ {r}, ![s].capacity = MinorDown(@),
                 ![s].reqs_on_wire = IF records[req[r].id].tpreq = r THEN @ - 1 ELSE @]

OffTheWire_StaysListed(s, r) ==
    [serv EXCEPT ![s].reqs_on_wire = @ - 1, ![s].capacity = MinorDown(@)]

\* Taking r off server s when its time is over.
OffTheWire(s, r) ==
    [serv EXCEPT ![s].in_process = @ \ {r}, ![s].reqs_on_wire = @ - 1,
                 ![s].capacity = MinorDown(@)]

Forget_Keeps(id) == records

Forget(id) == [records EXCEPT ![id] = NoRecord]

\* The same server is tried again.
RetryServer(r) ==
    /\ phase = "timeouts" /\ r \in visit
    /\ LET s == req[r].curr_server IN
       /\ req[r].tries < TriesPerServer
       /\ serv' = [OffTheWire(s, r) EXCEPT ![s].to_process = Append(@, r)]
    /\ records' = Forget(req[r].id)
    /\ req' = [req EXCEPT ![r].due = FALSE]
    /\ visit' = visit \ {r}
    /\ UNCHANGED <<new_reqs, total_reqs, deferred_reqs, progressiveId, writes, wire, outcome,
                   phase, at>>

GivenUp(q, next) == next = q.first_server \/ q.servers_tried + 1 = SERVERS_TO_TRY

\* The server has been tried often enough: the next one is, or the address is dropped.
MoveOn(r) ==
    /\ phase = "timeouts" /\ r \in visit
    /\ req[r].tries = TriesPerServer
    /\ LET s == req[r].curr_server
           next == NextServer(s)
           off == [OffTheWire(s, r) EXCEPT ![s].capacity = MajorDown(@)]
       IN  /\ req' = [req EXCEPT ![r].curr_server = next, ![r].tries = 0,
                                 ![r].servers_tried = @ + 1, ![r].due = FALSE]
           /\ \/ /\ GivenUp(req[r], next)
                 /\ serv' = off
                 /\ total_reqs' = total_reqs - 1
                 /\ outcome' = [outcome EXCEPT ![r] = "dropped"]
              \/ /\ ~GivenUp(req[r], next)
                 /\ serv' = [off EXCEPT ![next].to_process = Append(@, r)]
                 /\ UNCHANGED <<total_reqs, outcome>>
    /\ records' = Forget(req[r].id)
    /\ visit' = visit \ {r}
    /\ UNCHANGED <<new_reqs, deferred_reqs, progressiveId, writes, wire, phase, at>>

EndTimeouts ==
    /\ phase = "timeouts" /\ visit = {}
    /\ phase' = "writes" /\ at' = 1
    /\ UNCHANGED <<req, serv, new_reqs, records, total_reqs, deferred_reqs, progressiveId,
                   writes, wire, outcome, visit>>

-----------------------------------------------------------------------------

MayWrite(s) == ~serv[s].write_busy /\ serv[s].reqs_on_wire < serv[s].capacity

\* put_dns_packet_on_wire() for request r of server s.
put_dns_packet_on_wire(r, s, first) ==
    /\ req' = [req EXCEPT ![r].id = progressiveId, ![r].tries = @ + 1,
                          ![r].first_server = first, ![r].curr_server = s]
    /\ progressiveId' = (progressiveId + 1) % IdSpace
    /\ writes' = writes \cup {r}
    /\ wire' = wire \cup {[id |-> progressiveId, asks |-> r]}

\* One round of the loop of do_possible_writes().
WriteQueued ==
    /\ phase = "writes" /\ at \in Servers /\ MayWrite(at)
    /\ serv[at].to_process # <<>>
    /\ LET r == Head(serv[at].to_process)
       IN  put_dns_packet_on_wire(r, at, req[r].first_server)
    /\ serv' = [serv EXCEPT ![at].to_process = Tail(@), ![at].write_busy = TRUE,
                            ![at].reqs_on_wire = @ + 1]
    /\ at' = at + 1
    /\ UNCHANGED <<new_reqs, records, total_reqs, deferred_reqs, outcome, phase, visit>>

WriteNew ==
    /\ phase = "writes" /\ at \in Servers /\ MayWrite(at)
    /\ serv[at].to_process = <<>> /\ new_reqs # <<>>
    /\ put_dns_packet_on_wire(Head(new_reqs), at, at)
    /\ new_reqs' = Tail(new_reqs)
    /\ serv' = [serv EXCEPT ![at].write_busy = TRUE, ![at].reqs_on_wire = @ + 1]
    /\ at' = at + 1
    /\ UNCHANGED <<records, total_reqs, deferred_reqs, outcome, phase, visit>>

SkipServer ==
    /\ phase = "writes" /\ at \in Servers
    /\ ~MayWrite(at) \/ (serv[at].to_process = <<>> /\ new_reqs = <<>>)
    /\ at' = at + 1
    /\ UNCHANGED <<req, serv, new_reqs, records, total_reqs, deferred_reqs, progressiveId,
                   writes, wire, outcome, phase, visit>>

\* All servers seen.  If nothing is left close_dns_servers() ends nsock_loop().
EndWrites ==
    /\ phase = "writes" /\ at \notin Servers
    /\ \/ /\ total_reqs > 0
          /\ phase' = "nsock"
          /\ UNCHANGED <<serv, writes>>
       \/ /\ total_reqs = 0
          /\ phase' = "deferred"
          /\ serv' = [s \in Servers |-> [serv[s] EXCEPT !.connected = FALSE,
                                                        !.to_process = <<>>, !.in_process = {}]]
          /\ writes' = {}
    /\ UNCHANGED <<req, new_reqs, records, total_reqs, deferred_reqs, progressiveId, wire,
                   outcome, visit, at>>

-----------------------------------------------------------------------------

write_evt_handler_StaysBusy(r) ==
    /\ phase = "nsock" /\ r \in writes
    /\ LET s == req[r].curr_server IN
       /\ serv' = [serv EXCEPT ![s].in_process = @ \cup {r}]
       /\ records' = [records EXCEPT ![req[r].id] = [tpreq |-> r, server |-> s]]
    /\ writes' = writes \ {r}
    /\ phase' = "writes" /\ at' = 1
    /\ UNCHANGED <<req, new_reqs, total_reqs, deferred_reqs, progressiveId, wire, outcome, visit>>

\* The write of r is over, or has timed out.
write_evt_handler(r) ==
    /\ phase = "nsock" /\ r \in writes
    /\ LET s == req[r].curr_server IN
       /\ serv' = [serv EXCEPT ![s].write_busy = FALSE, ![s].in_process = @ \cup {r}]
       /\ records' = [records EXCEPT ![req[r].id] = [tpreq |-> r, server |-> s]]
    /\ writes' = writes \ {r}
    /\ phase' = "writes" /\ at' = 1
    /\ UNCHANGED <<req, new_reqs, total_reqs, deferred_reqs, progressiveId, wire, outcome, visit>>

\* process_result() with an action that ends the request found under id.
Finish(id, verdict) ==
    LET r == records[id].tpreq
        s == records[id].server
    IN  /\ serv' = [serv EXCEPT ![s].capacity = check_capacities(@ + CAPACITY_UP_STEP),
                                ![s].in_process = @ \ {r}, ![s].reqs_on_wire = @ - 1]
        /\ records' = Forget(id)
        /\ total_reqs' = total_reqs - 1
        /\ outcome' = [outcome EXCEPT ![r] = verdict]
        /\ deferred_reqs' = IF verdict = "deferred" THEN deferred_reqs \cup {r} ELSE deferred_reqs
        /\ phase' = "writes" /\ at' = 1
        /\ UNCHANGED <<req, new_reqs, progressiveId, writes, wire, visit>>

\* An answer to query q; one whose id is not in records has no effect.
Known(q) == phase = "nsock" /\ q \in wire /\ records[q.id] # NoRecord

\* A PTR record counts only if it is for the address asked.
PtrAnswer(q) == Known(q) /\ records[q.id].tpreq = q.asks /\ Finish(q.id, "name")

NxDomain(q) == Known(q) /\ Finish(q.id, "nx")

\* Truncated answers and unresolved aliases are left to the system resolver.
SystemResolve(q) == Known(q) /\ Finish(q.id, "deferred")

\* A server failure is a timeout.
ServFail(q) ==
    /\ Known(q)
    /\ req' = [req EXCEPT ![records[q.id].tpreq].due = TRUE]
    /\ phase' = "timeouts" /\ visit' = InProcess
    /\ UNCHANGED <<serv, new_reqs, records, total_reqs, deferred_reqs, progressiveId, writes,
                   wire, outcome, at>>

\* nsock_loop() comes back to the main loop.
LoopTimeout ==
    /\ phase = "nsock"
    /\ phase' = "timeouts" /\ visit' = InProcess
    /\ UNCHANGED <<req, serv, new_reqs, records, total_reqs, deferred_reqs, progressiveId,
                   writes, wire, outcome, at>>

\* getnameinfo() for the deferred addresses.
SystemDns(r, verdict) ==
    /\ phase = "deferred" /\ r \in deferred_reqs
    /\ deferred_reqs' = deferred_reqs \ {r}
    /\ outcome' = [outcome EXCEPT ![r] = verdict]
    /\ UNCHANGED <<req, serv, new_reqs, records, total_reqs, progressiveId, writes, wire,
                   phase, visit, at>>

EndDeferred ==
    /\ phase = "deferred" /\ deferred_reqs = {}
    /\ phase' = "done"
    /\ UNCHANGED <<req, serv, new_reqs, records, total_reqs, deferred_reqs, progressiveId,
                   writes, wire, outcome, visit, at>>

Terminating == phase = "done" /\ UNCHANGED vars

-----------------------------------------------------------------------------

Expire(r) == RetryServer(r) \/ MoveOn(r)

Next ==
    \/ \E r \in Targets : StillWaiting(r) \/ RetryServer(r) \/ MoveOn(r)
    \/ EndTimeouts \/ WriteQueued \/ WriteNew \/ SkipServer \/ EndWrites
    \/ \E r \in writes : write_evt_handler(r)
    \/ \E q \in wire : PtrAnswer(q) \/ NxDomain(q) \/ SystemResolve(q) \/ ServFail(q)
    \/ LoopTimeout
    \/ \E r \in Targets, v \in {"name", "noname"} : SystemDns(r, v)
    \/ EndDeferred \/ Terminating

\* The loop runs on; nsock calls back every write (they have a timeout of their own) and
\* the clock reaches every timeout.
Fairness ==
    /\ WF_vars(Next)
    /\ \A r \in Targets : SF_vars(write_evt_handler(r)) /\ SF_vars(Expire(r))

Spec == Init /\ [][Next]_vars
LiveSpec == Spec /\ Fairness

-----------------------------------------------------------------------------
(* Properties.                                                              *)

\* Every field has its type; in particular tries never runs past a row of
\* read_timeouts (the index of put_dns_packet_on_wire and deal_with_timedout_reads).
TypeOK ==
    /\ req \in [Targets -> Request] /\ serv \in [Servers -> Server]
    /\ \A t \in Targets : req[t].tries <= TriesPerServer
    /\ new_reqs \in Seq(Targets) /\ records \in [Ids -> [tpreq : Targets, server : Servers] \cup {NoRecord}]
    /\ total_reqs \in Nat /\ deferred_reqs \subseteq Targets /\ progressiveId \in Ids
    /\ writes \subseteq Targets /\ wire \subseteq [id : Ids, asks : Targets]
    /\ outcome \in [Targets -> Outcomes]
    /\ phase \in {"timeouts", "writes", "nsock", "deferred", "done"}
    /\ visit \subseteq Targets /\ at \in 1..(NumServers + 1)

\* A server's reqs_on_wire, which put_dns_packet_on_wire, deal_with_timedout_reads and
\* process_result keep by hand, counts its requests being written or in process, and
\* write_busy says whether one is being written.
OnWireExact == \A s \in Servers :
    LET writing == {r \in writes : req[r].curr_server = s} IN
    /\ serv[s].reqs_on_wire = Cardinality(serv[s].in_process) + Cardinality(writing)
    /\ serv[s].write_busy <=> writing # {}
    /\ serv[s].reqs_on_wire <= CAPACITY_MAX

\* The id of r was also sent for another address: the ids have wrapped since, or did before.
IdShared(r) == \E q \in wire : q.id = req[r].id /\ q.asks # r

\* records leads only to requests in process, under their last id: an answer that comes
\* after its request timed out, was queued again or went to another server cannot end it.
\* And it leads to each of them, unless the ids have wrapped and its id was also sent for
\* another address, whose record may then have replaced its own.
RecordsMatch ==
    /\ \A i \in Ids : records[i] # NoRecord =>
          /\ records[i].tpreq \in serv[records[i].server].in_process
          /\ req[records[i].tpreq].id = i /\ req[records[i].tpreq].curr_server = records[i].server
    /\ \A r \in InProcess : ~IdShared(r) => records[req[r].id].tpreq = r

\* The loop implements the abstract lookup: each address ends once and total_reqs, which
\* stops the loop and closes the servers, is the number that have not.
Lookup == INSTANCE DnsLookup WITH left <- total_reqs
ImplementsLookup == Lookup!Spec

\* Every lookup ends, whatever the servers answer or fail to.
DnsTerminates == <>(phase = "done")
=============================================================================
