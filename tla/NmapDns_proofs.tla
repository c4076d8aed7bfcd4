--------------------------- MODULE NmapDns_proofs ---------------------------
(***************************************************************************)
(* Proofs about parallel reverse DNS (NmapDns), for any batch of addresses *)
(* and any number of servers: the counters of the servers are exact, the   *)
(* records lead only to requests in process, and to all of them when the   *)
(* query ids suffice, and the loop implements the abstract lookup          *)
(* (DnsLookup).                                                            *)
(***************************************************************************)
EXTENDS NmapDns, FiniteSetTheorems, SequenceTheorems, TLAPS

-----------------------------------------------------------------------------
(* Queues of requests.                                                     *)

Elems(q) == {q[i] : i \in 1..Len(q)}
Once(q) == \A i, j \in 1..Len(q) : q[i] = q[j] => i = j

LEMMA QueueIn == \A S : \A q \in Seq(S) : Elems(q) \subseteq S
  BY ElementOfSeq, LenProperties DEF Elems

LEMMA QueueAppend ==
    ASSUME NEW S, NEW q \in Seq(S), NEW x \in S
    PROVE  /\ Append(q, x) \in Seq(S)
           /\ Elems(Append(q, x)) = Elems(q) \cup {x}
           /\ Once(q) /\ x \notin Elems(q) => Once(Append(q, x))
  <1>1. /\ Append(q, x) \in Seq(S) /\ Len(Append(q, x)) = Len(q) + 1
        /\ \A i \in 1..Len(q) : Append(q, x)[i] = q[i]
        /\ Append(q, x)[Len(q) + 1] = x
    BY AppendProperties
  <1>2. Len(q) \in Nat
    BY LenProperties
  <1>3. Elems(Append(q, x)) = Elems(q) \cup {x}
    <2>1. 1..(Len(q) + 1) = 1..Len(q) \cup {Len(q) + 1}
      BY <1>2
    <2> QED BY <1>1, <1>2, <2>1 DEF Elems
  <1>4. ASSUME Once(q), x \notin Elems(q) PROVE Once(Append(q, x))
    BY <1>1, <1>2, <1>4 DEF Once, Elems
  <1> QED BY <1>1, <1>3, <1>4

LEMMA QueueTail ==
    ASSUME NEW S, NEW q \in Seq(S), q # <<>>, Once(q)
    PROVE  /\ Head(q) \in S /\ Head(q) \in Elems(q)
           /\ Tail(q) \in Seq(S) /\ Once(Tail(q))
           /\ Elems(Tail(q)) = Elems(q) \ {Head(q)}
  <1>1. /\ Head(q) \in S /\ Tail(q) \in Seq(S) /\ Len(Tail(q)) = Len(q) - 1
        /\ \A i \in 1..Len(Tail(q)) : Tail(q)[i] = q[i + 1]
    BY HeadTailProperties
  <1>2. Len(q) \in Nat \ {0} /\ Head(q) = q[1]
    BY LenProperties, EmptySeq
  <1>3. Once(Tail(q))
    BY <1>1, <1>2 DEF Once
  <1>4. Elems(Tail(q)) = Elems(q) \ {Head(q)}
    <2>1. ASSUME NEW y \in Elems(Tail(q)) PROVE y \in Elems(q) \ {Head(q)}
      <3>1. PICK i \in 1..Len(Tail(q)) : y = Tail(q)[i]
        BY DEF Elems
      <3> QED BY <1>1, <1>2, <3>1 DEF Elems, Once
    <2>2. ASSUME NEW y \in Elems(q), y # Head(q) PROVE y \in Elems(Tail(q))
      <3>1. PICK i \in 1..Len(q) : y = q[i]
        BY DEF Elems
      <3>2. i # 1 /\ i - 1 \in 1..Len(Tail(q)) /\ Tail(q)[i - 1] = y
        BY <1>1, <1>2, <2>2, <3>1
      <3> QED BY <3>2 DEF Elems
    <2> QED BY <2>1, <2>2
  <1>5. Head(q) \in Elems(q)
    BY <1>2 DEF Elems
  <1> QED BY <1>1, <1>3, <1>4, <1>5

LEMMA QueueEmpty == Elems(<<>>) = {} /\ Once(<<>>) /\ \A S : <<>> \in Seq(S)
  BY EmptySeq DEF Elems, Once

-----------------------------------------------------------------------------
(* The inductive invariant.  A lookup that has not ended has its request   *)
(* in exactly one place: new_reqs, the to_process of its server, a write   *)
(* to its server, or the in_process of its server.                         *)

Pending == {t \in Targets : outcome[t] = "pending"}
Writing(s) == {r \in writes : req[r].curr_server = s}

NewOK ==
    /\ Once(new_reqs)
    /\ \A t \in Elems(new_reqs) :
          /\ t \notin writes /\ req[t].curr_server = NoServer
          /\ req[t].tries = 0 /\ req[t].servers_tried = 0

QueuesOK ==
    \A s \in Servers :
        /\ Once(serv[s].to_process)
        /\ \A t \in Elems(serv[s].to_process) :
              /\ t \notin writes /\ t \notin serv[s].in_process
              /\ req[t].curr_server = s /\ req[t].first_server \in Servers
              /\ req[t].tries < TriesPerServer /\ req[t].servers_tried < SERVERS_TO_TRY

Sent(t) ==
    /\ req[t].first_server \in Servers
    /\ req[t].tries > 0 /\ req[t].servers_tried < SERVERS_TO_TRY

WritesOK ==
    /\ \A t \in writes : Sent(t) /\ req[t].curr_server \in Servers
    /\ \A t, u \in writes : req[t].curr_server = req[u].curr_server => t = u

InProcessOK ==
    \A s \in Servers : \A t \in serv[s].in_process :
        t \notin writes /\ Sent(t) /\ req[t].curr_server = s

Placed(t) ==
    \/ t \in Elems(new_reqs) \/ t \in writes
    \/ \E s \in Servers : t \in Elems(serv[s].to_process) \/ t \in serv[s].in_process
PlacedOnce == \A t \in Targets : outcome[t] = "pending" <=> Placed(t)

\* total_reqs counts the lookups that have not ended; only when there is none left are the
\* deferred ones looked at.
LeftOK ==
    /\ total_reqs = Cardinality(Pending)
    /\ deferred_reqs = {t \in Targets : outcome[t] = "deferred"}
    /\ phase \in {"deferred", "done"} => total_reqs = 0

\* What deal_with_timedout_reads() has yet to look at is still in process.
VisitOK ==
    /\ \A t \in visit : \E s \in Servers : t \in serv[s].in_process
    /\ phase # "timeouts" => visit = {}

LookupInv ==
    /\ TypeOK /\ OnWireExact
    /\ NewOK /\ QueuesOK /\ WritesOK /\ InProcessOK /\ PlacedOnce /\ LeftOK /\ VisitOK

\* The records point to requests in process.
RecordsLive ==
    \A i \in Ids : records[i] # NoRecord =>
        /\ records[i].tpreq \in serv[records[i].server].in_process
        /\ req[records[i].tpreq].id = i /\ req[records[i].tpreq].curr_server = records[i].server

-----------------------------------------------------------------------------
LEMMA Tries == TriesPerServer \in 2..3
  BY DnsAssumption DEF TriesPerServer, read_timeouts

LEMMA Bounded == \A c \in Int : check_capacities(c) \in CAPACITY_MIN..CAPACITY_MAX
  BY DnsAssumption DEF check_capacities

LEMMA Down ==
    \A c \in CAPACITY_MIN..CAPACITY_MAX :
        MinorDown(c) \in CAPACITY_MIN..CAPACITY_MAX /\ MajorDown(c) \in CAPACITY_MIN..CAPACITY_MAX
  BY Bounded, DnsAssumption DEF MinorDown, MajorDown

LEMMA FiniteTargets ==
    /\ IsFiniteSet(Targets)
    /\ \A S \in SUBSET Targets : IsFiniteSet(S) /\ Cardinality(S) \in Nat
  <1>1. IsFiniteSet(Targets)
    BY DnsAssumption, FS_Interval DEF Targets
  <1>2. ASSUME NEW S \in SUBSET Targets PROVE IsFiniteSet(S) /\ Cardinality(S) \in Nat
    BY <1>1, FS_Subset, FS_CardinalityType
  <1> QED BY <1>1, <1>2

LEMMA Servers0 == NoServer \notin Servers /\ (\A s \in Servers : NextServer(s) \in Servers) /\ 1 \in Servers
  BY DnsAssumption DEF NoServer, Servers, NextServer

-----------------------------------------------------------------------------
(* The fields, as the type invariant gives them.                           *)
LEMMA ServFields ==
    ASSUME TypeOK, NEW s \in Servers
    PROVE  /\ serv[s].connected \in BOOLEAN /\ serv[s].reqs_on_wire \in Nat
           /\ serv[s].capacity \in CAPACITY_MIN..CAPACITY_MAX /\ serv[s].write_busy \in BOOLEAN
           /\ serv[s].to_process \in Seq(Targets) /\ serv[s].in_process \in SUBSET Targets
           /\ serv[s] = [connected |-> serv[s].connected, reqs_on_wire |-> serv[s].reqs_on_wire,
                         capacity |-> serv[s].capacity, write_busy |-> serv[s].write_busy,
                         to_process |-> serv[s].to_process, in_process |-> serv[s].in_process]
  BY DEF TypeOK, Server

LEMMA ReqFields ==
    ASSUME TypeOK, NEW r \in Targets
    PROVE  /\ req[r].tries \in 0..TriesPerServer /\ req[r].servers_tried \in 0..SERVERS_TO_TRY
           /\ req[r].first_server \in Servers \cup {NoServer}
           /\ req[r].curr_server \in Servers \cup {NoServer}
           /\ req[r].id \in Ids /\ req[r].due \in BOOLEAN
  BY Tries DEF TypeOK, Request

LEMMA WritingSet == TypeOK => \A s \in Servers : Writing(s) \in SUBSET Targets
  BY DEF TypeOK, Writing

LEMMA CountRemove ==
    ASSUME NEW S \in SUBSET Targets, NEW r \in S
    PROVE  Cardinality(S \ {r}) = Cardinality(S) - 1 /\ Cardinality(S) \in Nat /\ Cardinality(S) > 0
  <1>1. IsFiniteSet(S) /\ Cardinality(S) \in Nat
    BY FiniteTargets
  <1>2. Cardinality(S \ {r}) = Cardinality(S) - 1
    BY <1>1, FS_RemoveElement
  <1>3. Cardinality(S \ {r}) \in Nat
    BY FiniteTargets
  <1> QED BY <1>1, <1>2, <1>3

LEMMA CountAdd ==
    ASSUME NEW S \in SUBSET Targets, NEW r \in Targets, r \notin S
    PROVE  Cardinality(S \cup {r}) = Cardinality(S) + 1
  BY FiniteTargets, FS_AddElement

\* The invariant in terms of Writing.
LEMMA OnWireWriting ==
    OnWireExact <=> \A s \in Servers :
        /\ serv[s].reqs_on_wire = Cardinality(serv[s].in_process) + Cardinality(Writing(s))
        /\ serv[s].write_busy <=> Writing(s) # {}
        /\ serv[s].reqs_on_wire <= CAPACITY_MAX
  BY DEF OnWireExact, Writing

-----------------------------------------------------------------------------
(* Request r leaves the in_process of server s: its time is over, or it is *)
(* answered.  The new value of the server is given by its fields.          *)
TakenOff(r, s) ==
    /\ s \in Servers /\ r \in serv[s].in_process
    /\ serv' \in [Servers -> Server]
    /\ \A u \in Servers :
          /\ serv'[u].in_process = serv[u].in_process \ {r}
          /\ serv'[u].reqs_on_wire = serv[u].reqs_on_wire - (IF u = s THEN 1 ELSE 0)
          /\ serv'[u].write_busy = serv[u].write_busy
    /\ UNCHANGED writes
    /\ \A t \in Targets : t # r => req'[t] = req[t]

LEMMA TakenOffCounts ==
    ASSUME LookupInv, NEW r \in Targets, NEW s, TakenOff(r, s)
    PROVE  OnWireExact'
  <1>1. TypeOK /\ OnWireExact /\ InProcessOK
    BY DEF LookupInv
  <1>2. r \notin writes
    BY <1>1 DEF InProcessOK, TakenOff
  <1> SUFFICES ASSUME NEW u \in Servers
               PROVE  /\ serv'[u].reqs_on_wire = Cardinality(serv'[u].in_process) + Cardinality(Writing(u)')
                      /\ serv'[u].write_busy <=> Writing(u)' # {}
                      /\ serv'[u].reqs_on_wire <= CAPACITY_MAX
    BY DEF OnWireExact, Writing
  <1>3. Writing(u)' = Writing(u)
    BY <1>1, <1>2 DEF Writing, TakenOff, TypeOK
  <1>4. Cardinality(serv'[u].in_process) = Cardinality(serv[u].in_process) - (IF u = s THEN 1 ELSE 0)
    <2>1. CASE u = s
      BY <1>1, <2>1, ServFields, CountRemove, ZenonT(40) DEF TakenOff
    <2>2. CASE u # s
      <3>1. r \notin serv[u].in_process
        BY <1>1, <2>2 DEF InProcessOK, TakenOff
      <3>2. serv'[u].in_process = serv[u].in_process
        BY <3>1, ZenonT(40) DEF TakenOff
      <3>3. Cardinality(serv[u].in_process) \in Nat
        BY <1>1, ServFields, FiniteTargets
      <3> QED BY <2>2, <3>2, <3>3
    <2> QED BY <2>1, <2>2
  <1>5. Cardinality(Writing(u)) \in Nat /\ Cardinality(serv[u].in_process) \in Nat
    BY <1>1, WritingSet, FiniteTargets, ServFields
  <1>6. /\ serv[u].reqs_on_wire = Cardinality(serv[u].in_process) + Cardinality(Writing(u))
        /\ serv[u].write_busy <=> Writing(u) # {}
        /\ serv[u].reqs_on_wire <= CAPACITY_MAX
    BY <1>1, OnWireWriting
  <1>7. serv'[u].write_busy = serv[u].write_busy
    BY DEF TakenOff
  <1>8. serv'[u].reqs_on_wire = serv[u].reqs_on_wire - (IF u = s THEN 1 ELSE 0)
    BY DEF TakenOff
  <1>9. serv'[u].reqs_on_wire = Cardinality(serv'[u].in_process) + Cardinality(Writing(u)')
    BY <1>3, <1>4, <1>5, <1>6, <1>8
  <1>10. serv'[u].reqs_on_wire <= CAPACITY_MAX
    BY <1>5, <1>6, <1>8, DnsAssumption
  <1> QED BY <1>3, <1>6, <1>7, <1>9, <1>10

LEMMA TakenOffRecords ==
    ASSUME LookupInv, RecordsLive, NEW r \in Targets, NEW s, TakenOff(r, s),
           records' = [records EXCEPT ![req[r].id] = NoRecord]
    PROVE  RecordsLive'
  <1>1. TypeOK /\ req[r].id \in Ids /\ records \in [Ids -> [tpreq : Targets, server : Servers] \cup {NoRecord}]
    BY ReqFields DEF LookupInv, TypeOK
  <1> SUFFICES ASSUME NEW i \in Ids, records'[i] # NoRecord
               PROVE  /\ records'[i].tpreq \in serv'[records'[i].server].in_process
                      /\ req'[records'[i].tpreq].id = i
                      /\ req'[records'[i].tpreq].curr_server = records'[i].server
    BY DEF RecordsLive
  <1>2. i # req[r].id /\ records'[i] = records[i]
    BY <1>1
  <1>3. /\ records[i].tpreq \in serv[records[i].server].in_process
        /\ req[records[i].tpreq].id = i /\ req[records[i].tpreq].curr_server = records[i].server
    BY <1>2 DEF RecordsLive
  <1>4. records[i].tpreq \in Targets /\ records[i].server \in Servers /\ records[i].tpreq # r
    BY <1>1, <1>2, <1>3
  <1> QED BY <1>2, <1>3, <1>4 DEF TakenOff

(* The request is queued again, at server n.                               *)
Requeued(r, s, n) ==
    /\ TakenOff(r, s) /\ n \in Servers
    /\ \A u \in Servers : serv'[u].to_process =
          IF u = n THEN Append(serv[u].to_process, r) ELSE serv[u].to_process
    /\ req'[r].curr_server = n /\ req'[r].first_server = req[r].first_server
    /\ req'[r].tries < TriesPerServer /\ req'[r].servers_tried < SERVERS_TO_TRY
    /\ visit' = visit \ {r}
    /\ UNCHANGED <<new_reqs, total_reqs, deferred_reqs, outcome, phase>>

LEMMA RequeuedPlaces ==
    ASSUME LookupInv, NEW r \in Targets, NEW s, NEW n, Requeued(r, s, n)
    PROVE  NewOK' /\ QueuesOK' /\ WritesOK' /\ InProcessOK' /\ PlacedOnce' /\ LeftOK' /\ VisitOK'
  <1>1. /\ TypeOK /\ NewOK /\ QueuesOK /\ WritesOK /\ InProcessOK /\ PlacedOnce /\ LeftOK /\ VisitOK
        /\ TakenOff(r, s) /\ s \in Servers /\ n \in Servers /\ r \in serv[s].in_process
    BY DEF LookupInv, Requeued, TakenOff
  <1>2. /\ r \notin writes /\ Sent(r) /\ req[r].curr_server = s
        /\ \A u \in Servers : r \notin Elems(serv[u].to_process)
        /\ r \notin Elems(new_reqs)
        /\ \A u \in Servers : u # s => r \notin serv[u].in_process
    BY <1>1, Servers0 DEF InProcessOK, QueuesOK, NewOK
  <1>3. \A t \in Targets : t # r => req'[t] = req[t]
    BY DEF Requeued, TakenOff
  <1>4. writes' = writes /\ new_reqs' = new_reqs /\ writes \subseteq Targets /\ Elems(new_reqs) \subseteq Targets
    BY <1>1, QueueIn DEF Requeued, TakenOff, TypeOK
  <1>5. \A u \in Servers : serv'[u].in_process = serv[u].in_process \ {r} /\ serv[u].in_process \subseteq Targets
    BY <1>1, ServFields DEF TakenOff
  <1>6. ASSUME NEW u \in Servers
        PROVE  /\ Once(serv'[u].to_process)
               /\ Elems(serv'[u].to_process) = Elems(serv[u].to_process) \cup (IF u = n THEN {r} ELSE {})
               /\ Elems(serv[u].to_process) \subseteq Targets
    <2>1. serv[u].to_process \in Seq(Targets) /\ Once(serv[u].to_process)
      BY <1>1, ServFields DEF QueuesOK
    <2>2. CASE u = n
      <3>1. serv'[u].to_process = Append(serv[u].to_process, r)
        BY <2>2 DEF Requeued
      <3> QED BY <1>2, <2>1, <2>2, <3>1, QueueAppend, QueueIn
    <2>3. CASE u # n
      BY <2>1, <2>3, QueueIn DEF Requeued
    <2> QED BY <2>2, <2>3
  <1>7. NewOK'
    BY <1>1, <1>2, <1>3, <1>4 DEF NewOK
  <1>8. QueuesOK'
    <2> SUFFICES ASSUME NEW u \in Servers, NEW t \in Elems(serv'[u].to_process)
                 PROVE  /\ t \notin writes' /\ t \notin serv'[u].in_process
                        /\ req'[t].curr_server = u /\ req'[t].first_server \in Servers
                        /\ req'[t].tries < TriesPerServer /\ req'[t].servers_tried < SERVERS_TO_TRY
      BY <1>6 DEF QueuesOK
    <2>1. CASE t = r
      BY <1>2, <1>4, <1>5, <1>6, <2>1 DEF Requeued, Sent
    <2>2. CASE t # r
      <3>1. t \in Elems(serv[u].to_process) /\ t \in Targets /\ req'[t] = req[t]
        BY <1>3, <1>6, <2>2
      <3> QED BY <1>1, <1>4, <1>5, <3>1 DEF QueuesOK
    <2> QED BY <2>1, <2>2
  <1>9. WritesOK'
    <2>1. \A t \in writes : t # r /\ req'[t] = req[t]
      BY <1>2, <1>3, <1>4
    <2> QED BY <1>1, <1>4, <2>1 DEF WritesOK, Sent
  <1>10. InProcessOK'
    <2>1. \A u \in Servers : \A t \in serv'[u].in_process : t \in serv[u].in_process /\ req'[t] = req[t]
      BY <1>3, <1>5
    <2> QED BY <1>1, <1>4, <2>1 DEF InProcessOK, Sent
  <1>11. PlacedOnce'
    <2> SUFFICES ASSUME NEW t \in Targets
                 PROVE  outcome'[t] = "pending" <=> Placed(t)'
      BY DEF PlacedOnce
    <2>1. outcome'[t] = "pending" <=> Placed(t)
      BY <1>1 DEF PlacedOnce, Requeued
    <2>2. CASE t = r
      BY <1>1, <1>6, <2>1, <2>2 DEF Placed
    <2>3. CASE t # r
      BY <1>4, <1>5, <1>6, <2>1, <2>3 DEF Placed
    <2> QED BY <2>2, <2>3
  <1>12. LeftOK'
    BY <1>1 DEF LeftOK, Requeued, Pending
  <1>13. VisitOK'
    BY <1>1, <1>5 DEF VisitOK, Requeued
  <1> QED BY <1>7, <1>8, <1>9, <1>10, <1>11, <1>12, <1>13

(* The lookup of the request ends with verdict v.                          *)
Ended(r, s, v) ==
    /\ TakenOff(r, s)
    /\ \A u \in Servers : serv'[u].to_process = serv[u].to_process
    /\ v \in {"name", "nx", "dropped", "deferred"}
    /\ outcome' = [outcome EXCEPT ![r] = v]
    /\ total_reqs' = total_reqs - 1
    /\ deferred_reqs' = IF v = "deferred" THEN deferred_reqs \cup {r} ELSE deferred_reqs
    /\ visit' = visit \ {r}
    /\ phase \in {"timeouts", "nsock"} /\ phase' \in {phase, "writes"}
    /\ phase' = "writes" => visit = {}
    /\ UNCHANGED new_reqs

LEMMA EndedPlaces ==
    ASSUME LookupInv, NEW r \in Targets, NEW s, NEW v, Ended(r, s, v)
    PROVE  /\ NewOK' /\ QueuesOK' /\ WritesOK' /\ InProcessOK' /\ PlacedOnce' /\ LeftOK' /\ VisitOK'
           /\ total_reqs' \in Nat /\ outcome[r] = "pending"
  <1>1. /\ TypeOK /\ NewOK /\ QueuesOK /\ WritesOK /\ InProcessOK /\ PlacedOnce /\ LeftOK /\ VisitOK
        /\ TakenOff(r, s) /\ s \in Servers /\ r \in serv[s].in_process
    BY DEF LookupInv, Ended, TakenOff
  <1>2. /\ r \notin writes
        /\ \A u \in Servers : r \notin Elems(serv[u].to_process)
        /\ r \notin Elems(new_reqs)
        /\ \A u \in Servers : u # s => r \notin serv[u].in_process
    BY <1>1, Servers0 DEF InProcessOK, QueuesOK, NewOK
  <1>3. \A t \in Targets : t # r => req'[t] = req[t]
    BY DEF Ended, TakenOff
  <1>4. writes' = writes /\ new_reqs' = new_reqs /\ writes \subseteq Targets /\ Elems(new_reqs) \subseteq Targets
    BY <1>1, QueueIn DEF Ended, TakenOff, TypeOK
  <1>5. \A u \in Servers : serv'[u].in_process = serv[u].in_process \ {r} /\ serv[u].in_process \subseteq Targets
    BY <1>1, ServFields DEF TakenOff
  <1>6. \A u \in Servers : serv'[u].to_process = serv[u].to_process /\ Elems(serv[u].to_process) \subseteq Targets
    BY <1>1, ServFields, QueueIn DEF Ended
  <1>7. outcome[r] = "pending"
    BY <1>1 DEF PlacedOnce, Placed
  <1>8. NewOK'
    BY <1>1, <1>2, <1>3, <1>4 DEF NewOK
  <1>9. QueuesOK'
    <2>1. \A u \in Servers : \A t \in Elems(serv[u].to_process) : t # r /\ req'[t] = req[t]
      BY <1>2, <1>3, <1>6
    <2> QED BY <1>1, <1>4, <1>5, <1>6, <2>1 DEF QueuesOK
  <1>10. WritesOK'
    <2>1. \A t \in writes : t # r /\ req'[t] = req[t]
      BY <1>2, <1>3, <1>4
    <2> QED BY <1>1, <1>4, <2>1 DEF WritesOK, Sent
  <1>11. InProcessOK'
    <2>1. \A u \in Servers : \A t \in serv'[u].in_process : t \in serv[u].in_process /\ req'[t] = req[t]
      BY <1>3, <1>5
    <2> QED BY <1>1, <1>4, <2>1 DEF InProcessOK, Sent
  <1>12. outcome' = [outcome EXCEPT ![r] = v] /\ outcome \in [Targets -> Outcomes] /\ v # "pending"
    BY <1>1 DEF Ended, TypeOK
  <1>13. PlacedOnce'
    <2> SUFFICES ASSUME NEW t \in Targets
                 PROVE  outcome'[t] = "pending" <=> Placed(t)'
      BY DEF PlacedOnce
    <2>1. CASE t = r
      BY <1>2, <1>4, <1>5, <1>6, <1>12, <2>1 DEF Placed
    <2>2. CASE t # r
      <3>1. outcome'[t] = outcome[t]
        BY <1>12, <2>2
      <3>2. outcome[t] = "pending" <=> Placed(t)
        BY <1>1 DEF PlacedOnce
      <3> QED BY <1>4, <1>5, <1>6, <2>2, <3>1, <3>2 DEF Placed
    <2> QED BY <2>1, <2>2
  <1>14. Pending' = Pending \ {r} /\ r \in Pending /\ Pending \in SUBSET Targets
    BY <1>7, <1>12 DEF Pending
  <1>15. total_reqs' = Cardinality(Pending') /\ total_reqs' \in Nat /\ total_reqs > 0
    <2>1. Cardinality(Pending') \in Nat
      BY FiniteTargets, <1>14
    <2> QED BY <1>1, <1>14, <2>1, CountRemove DEF LeftOK, Ended
  <1>16. deferred_reqs' = {t \in Targets : outcome'[t] = "deferred"}
    BY <1>1, <1>7, <1>12 DEF LeftOK, Ended
  <1>17. LeftOK'
    BY <1>15, <1>16 DEF LeftOK, Ended
  <1>18. VisitOK'
    BY <1>1, <1>5 DEF VisitOK, Ended
  <1> QED BY <1>7, <1>8, <1>9, <1>10, <1>11, <1>13, <1>15, <1>17, <1>18

-----------------------------------------------------------------------------
(* The handlers.                                                           *)

LEMMA InVisit ==
    ASSUME LookupInv, NEW r \in visit
    PROVE  /\ r \in Targets /\ req[r].curr_server \in Servers
           /\ r \in serv[req[r].curr_server].in_process /\ phase = "timeouts" /\ Sent(r)
  BY DEF LookupInv, TypeOK, VisitOK, InProcessOK

LEMMA TakenOffPositive ==
    ASSUME LookupInv, NEW s \in Servers, NEW r \in serv[s].in_process
    PROVE  serv[s].reqs_on_wire - 1 \in Nat
  <1>1. TypeOK /\ OnWireExact
    BY DEF LookupInv
  <1>2. /\ Cardinality(serv[s].in_process) \in Nat /\ Cardinality(serv[s].in_process) > 0
    BY <1>1, ServFields, CountRemove
  <1>3. Cardinality(Writing(s)) \in Nat
    BY <1>1, WritingSet, FiniteTargets
  <1> QED BY <1>1, <1>2, <1>3, OnWireWriting

LEMMA OffTheWireIs ==
    ASSUME TypeOK, NEW s \in Servers, NEW r
    PROVE  OffTheWire(s, r) = [serv EXCEPT ![s] =
             [connected |-> serv[s].connected, reqs_on_wire |-> serv[s].reqs_on_wire - 1,
              capacity |-> MinorDown(serv[s].capacity), write_busy |-> serv[s].write_busy,
              to_process |-> serv[s].to_process, in_process |-> serv[s].in_process \ {r}]]
  <1> DEFINE off == [connected |-> serv[s].connected, reqs_on_wire |-> serv[s].reqs_on_wire - 1,
              capacity |-> MinorDown(serv[s].capacity), write_busy |-> serv[s].write_busy,
              to_process |-> serv[s].to_process, in_process |-> serv[s].in_process \ {r}]
  <1>1. serv \in [Servers -> Server]
    BY DEF TypeOK
  <1>2. DOMAIN OffTheWire(s, r) = Servers /\ OffTheWire(s, r) = [u \in Servers |-> OffTheWire(s, r)[u]]
    BY <1>1 DEF OffTheWire
  <1>3. \A u \in Servers : u # s => OffTheWire(s, r)[u] = serv[u]
    BY <1>1 DEF OffTheWire
  <1>4. OffTheWire(s, r)[s] = off
    <2>1. OffTheWire(s, r)[s] = [serv[s] EXCEPT !.in_process = serv[s].in_process \ {r},
                                   !.reqs_on_wire = serv[s].reqs_on_wire - 1,
                                   !.capacity = MinorDown(serv[s].capacity)]
      BY <1>1 DEF OffTheWire
    <2>2. serv[s] = [connected |-> serv[s].connected, reqs_on_wire |-> serv[s].reqs_on_wire,
                     capacity |-> serv[s].capacity, write_busy |-> serv[s].write_busy,
                     to_process |-> serv[s].to_process, in_process |-> serv[s].in_process]
      BY ServFields
    <2> QED BY <2>1, <2>2
  <1> HIDE DEF off
  <1>5. OffTheWire(s, r) = [serv EXCEPT ![s] = off]
    BY <1>1, <1>2, <1>3, <1>4
  <1> QED BY <1>5 DEF off

LEMMA RetryLookup ==
    ASSUME LookupInv, RecordsLive, NEW r, RetryServer(r)
    PROVE  LookupInv' /\ RecordsLive' /\ \E s : TakenOff(r, s)
  <1> DEFINE s == req[r].curr_server
  <1>1. r \in visit
    BY DEF RetryServer
  <1>2. TypeOK /\ r \in Targets /\ s \in Servers /\ r \in serv[s].in_process /\ Sent(r)
    BY <1>1, InVisit DEF LookupInv
  <1>3. /\ serv' = [OffTheWire(s, r) EXCEPT ![s].to_process = Append(@, r)]
        /\ req[r].tries < TriesPerServer
        /\ req' = [req EXCEPT ![r].due = FALSE] /\ visit' = visit \ {r}
        /\ records' = [records EXCEPT ![req[r].id] = NoRecord]
        /\ UNCHANGED <<new_reqs, total_reqs, deferred_reqs, progressiveId, writes, wire, outcome,
                       phase, at>>
    BY DEF RetryServer, Forget
  <1>4. /\ serv[s].reqs_on_wire - 1 \in Nat /\ Append(serv[s].to_process, r) \in Seq(Targets)
        /\ MinorDown(serv[s].capacity) \in CAPACITY_MIN..CAPACITY_MAX
    BY <1>2, TakenOffPositive, ServFields, QueueAppend, Down
  <1>5. /\ serv' = [serv EXCEPT ![s] =
             [connected |-> serv[s].connected, reqs_on_wire |-> serv[s].reqs_on_wire - 1,
              capacity |-> MinorDown(serv[s].capacity), write_busy |-> serv[s].write_busy,
              to_process |-> Append(serv[s].to_process, r),
              in_process |-> serv[s].in_process \ {r}]]
        /\ serv \in [Servers -> Server]
    <2> DEFINE off == [connected |-> serv[s].connected, reqs_on_wire |-> serv[s].reqs_on_wire - 1,
              capacity |-> MinorDown(serv[s].capacity), write_busy |-> serv[s].write_busy,
              to_process |-> serv[s].to_process, in_process |-> serv[s].in_process \ {r}]
    <2>1. serv \in [Servers -> Server] /\ s \in Servers
      BY <1>2 DEF TypeOK
    <2>2. OffTheWire(s, r) = [serv EXCEPT ![s] = off]
      BY <1>2, OffTheWireIs
    <2> HIDE DEF s
    <2>3. off.to_process = serv[s].to_process
      OBVIOUS
    <2> DEFINE q == Append(serv[s].to_process, r)
    <2> HIDE DEF q
    <2>4. [off EXCEPT !.to_process = q] =
             [connected |-> serv[s].connected, reqs_on_wire |-> serv[s].reqs_on_wire - 1,
              capacity |-> MinorDown(serv[s].capacity), write_busy |-> serv[s].write_busy,
              to_process |-> q, in_process |-> serv[s].in_process \ {r}]
      OBVIOUS
    <2>5. [off EXCEPT !.to_process = Append(off.to_process, r)] =
             [connected |-> serv[s].connected, reqs_on_wire |-> serv[s].reqs_on_wire - 1,
              capacity |-> MinorDown(serv[s].capacity), write_busy |-> serv[s].write_busy,
              to_process |-> Append(serv[s].to_process, r),
              in_process |-> serv[s].in_process \ {r}]
      BY <2>3, <2>4 DEF q
    <2> HIDE DEF off
    <2>6. [[serv EXCEPT ![s] = off] EXCEPT ![s].to_process = Append(@, r)]
             = [serv EXCEPT ![s] = [off EXCEPT !.to_process = Append(off.to_process, r)]]
      BY <2>1
    <2> QED BY <1>3, <2>1, <2>2, <2>5, <2>6
  <1>6. serv' \in [Servers -> Server]
    BY <1>2, <1>4, <1>5, ServFields DEF Server
  <1>7. /\ req' \in [Targets -> Request]
        /\ \A t \in Targets : req'[t].tries = req[t].tries
        /\ req'[r].curr_server = s /\ req'[r].tries = req[r].tries
        /\ req'[r].first_server = req[r].first_server
        /\ req'[r].servers_tried = req[r].servers_tried
        /\ \A t \in Targets : t # r => req'[t] = req[t]
    BY <1>2, <1>3 DEF TypeOK, Request
  <1>8. TypeOK'
    BY <1>2, <1>3, <1>6, <1>7, ReqFields DEF TypeOK
  <1>9. TakenOff(r, s)
    <2>1. \A u \in Servers : u # s => r \notin serv[u].in_process
      BY <1>2 DEF LookupInv, InProcessOK
    <2>2. UNCHANGED writes
      BY <1>3
    <2>3. \A u \in Servers :
          /\ serv'[u].in_process = serv[u].in_process \ {r}
          /\ serv'[u].reqs_on_wire = serv[u].reqs_on_wire - (IF u = s THEN 1 ELSE 0)
          /\ serv'[u].write_busy = serv[u].write_busy
      BY <1>2, <1>5, <2>1, ServFields
    <2> HIDE DEF s
    <2> QED BY <1>2, <1>6, <1>7, <2>2, <2>3 DEF TakenOff
  <1>10. Requeued(r, s, s)
    <2>1. \A u \in Servers : serv'[u].to_process =
              IF u = s THEN Append(serv[u].to_process, r) ELSE serv[u].to_process
      BY <1>2, <1>5
    <2> HIDE DEF s
    <2> QED BY <1>2, <1>3, <1>7, <1>9, <2>1 DEF Requeued, Sent
  <1> HIDE DEF s
  <1> QED BY <1>2, <1>3, <1>8, <1>9, <1>10, TakenOffCounts, RequeuedPlaces, TakenOffRecords DEF LookupInv

LEMMA MoveOnLookup ==
    ASSUME LookupInv, RecordsLive, NEW r, MoveOn(r)
    PROVE  /\ LookupInv' /\ RecordsLive'
           /\ \/ UNCHANGED <<outcome, total_reqs>>
              \/ Lookup!End(r, "dropped") /\ r \in Targets
           /\ r \in Targets /\ \E s : TakenOff(r, s)
  <1> DEFINE s == req[r].curr_server
             n == NextServer(s)
             queue == IF GivenUp(req[r], n) THEN serv[n].to_process ELSE Append(serv[n].to_process, r)
             off == [connected |-> serv[s].connected, reqs_on_wire |-> serv[s].reqs_on_wire - 1,
                     capacity |-> MajorDown(MinorDown(serv[s].capacity)),
                     write_busy |-> serv[s].write_busy,
                     to_process |-> serv[s].to_process, in_process |-> serv[s].in_process \ {r}]
  <1>1. r \in visit
    BY DEF MoveOn
  <1>2. /\ TypeOK /\ r \in Targets /\ s \in Servers /\ r \in serv[s].in_process /\ Sent(r)
        /\ n \in Servers /\ phase = "timeouts"
    BY <1>1, InVisit, Servers0 DEF LookupInv
  <1>3. /\ req' = [req EXCEPT ![r].curr_server = n, ![r].tries = 0,
                              ![r].servers_tried = @ + 1, ![r].due = FALSE]
        /\ visit' = visit \ {r}
        /\ records' = [records EXCEPT ![req[r].id] = NoRecord]
        /\ UNCHANGED <<new_reqs, deferred_reqs, progressiveId, writes, wire, phase, at>>
    BY DEF MoveOn, Forget
  <1>4. /\ serv[s].reqs_on_wire - 1 \in Nat
        /\ MajorDown(MinorDown(serv[s].capacity)) \in CAPACITY_MIN..CAPACITY_MAX
        /\ queue \in Seq(Targets)
    BY <1>2, TakenOffPositive, ServFields, QueueAppend, Down
  <1>5. [OffTheWire(s, r) EXCEPT ![s].capacity = MajorDown(@)] = [serv EXCEPT ![s] = off]
    <2> DEFINE first == [connected |-> serv[s].connected, reqs_on_wire |-> serv[s].reqs_on_wire - 1,
                         capacity |-> MinorDown(serv[s].capacity),
                         write_busy |-> serv[s].write_busy, to_process |-> serv[s].to_process,
                         in_process |-> serv[s].in_process \ {r}]
    <2>1. serv \in [Servers -> Server]
      BY <1>2 DEF TypeOK
    <2>2. OffTheWire(s, r) = [serv EXCEPT ![s] = first]
      BY <1>2, OffTheWireIs
    <2>3. OffTheWire(s, r)[s] = first
      BY <1>2, <2>1, <2>2
    <2>4. first.capacity = MinorDown(serv[s].capacity)
      OBVIOUS
    <2>5. [OffTheWire(s, r) EXCEPT ![s].capacity = MajorDown(@)]
            = [[serv EXCEPT ![s] = first] EXCEPT ![s] = [first EXCEPT !.capacity = MajorDown(first.capacity)]]
      BY <2>2, <2>3
    <2>6. [first EXCEPT !.capacity = MajorDown(first.capacity)] = off
      BY <2>4
    <2> HIDE DEF first, off, s
    <2> QED BY <1>2, <2>1, <2>5, <2>6
  <1>6. off \in Server
    BY <1>2, <1>4, ServFields DEF Server
  <1>7. /\ serv' \in [Servers -> Server]
        /\ \A u \in Servers :
              /\ serv'[u].in_process = (IF u = s THEN serv[u].in_process \ {r} ELSE serv[u].in_process)
              /\ serv'[u].reqs_on_wire = serv[u].reqs_on_wire - (IF u = s THEN 1 ELSE 0)
              /\ serv'[u].write_busy = serv[u].write_busy
              /\ serv'[u].to_process = IF u = n THEN queue ELSE serv[u].to_process
    <2>1. /\ off.in_process = serv[s].in_process \ {r} /\ off.reqs_on_wire = serv[s].reqs_on_wire - 1
          /\ off.write_busy = serv[s].write_busy /\ off.to_process = serv[s].to_process
      OBVIOUS
    <2>2. serv \in [Servers -> Server] /\ \A u \in Servers : serv[u].reqs_on_wire \in Nat
      BY <1>2, ServFields DEF TypeOK
    <2>3. CASE GivenUp(req[r], n)
      <3>1. serv' = [serv EXCEPT ![s] = off] /\ queue = serv[n].to_process
        BY <1>5, <2>3 DEF MoveOn
      <3> HIDE DEF off, queue, n, s
      <3>2. serv' \in [Servers -> Server] /\ serv'[s] = off /\ \A u \in Servers : u # s => serv'[u] = serv[u]
        BY <1>2, <1>6, <2>2, <3>1
      <3>3. ASSUME NEW u \in Servers PROVE serv'[u].to_process = serv[u].to_process
        BY <2>1, <3>2
      <3>4. ASSUME NEW u \in Servers
            PROVE  /\ serv'[u].in_process = (IF u = s THEN serv[u].in_process \ {r} ELSE serv[u].in_process)
                   /\ serv'[u].reqs_on_wire = serv[u].reqs_on_wire - (IF u = s THEN 1 ELSE 0)
                   /\ serv'[u].write_busy = serv[u].write_busy
        <4>1. CASE u = s
          BY <2>1, <3>2, <4>1
        <4>2. CASE u # s
          BY <2>2, <3>2, <4>2
        <4> QED BY <4>1, <4>2
      <3> QED BY <3>1, <3>2, <3>3, <3>4
    <2>4. CASE ~GivenUp(req[r], n)
      <3>1. serv' = [[serv EXCEPT ![s] = off] EXCEPT ![n].to_process = Append(@, r)]
        BY <1>5, <2>4 DEF MoveOn
      <3>2. queue = Append(serv[n].to_process, r)
        BY <2>4
      <3>3. [serv EXCEPT ![s] = off] \in [Servers -> Server]
        BY <1>6, <2>2
      <3>4. [serv EXCEPT ![s] = off][n].to_process = serv[n].to_process
        BY <1>2, <2>1, <2>2
      <3>5. serv' = [[serv EXCEPT ![s] = off] EXCEPT
                        ![n] = [[serv EXCEPT ![s] = off][n] EXCEPT !.to_process = queue]]
        BY <3>1, <3>2, <3>4
      <3> DEFINE mid == [serv EXCEPT ![s] = off]
      <3>6. /\ mid \in [Servers -> Server] /\ serv' = [mid EXCEPT ![n] = [mid[n] EXCEPT !.to_process = queue]]
            /\ mid[s] = off /\ \A u \in Servers : u # s => mid[u] = serv[u]
        BY <1>2, <2>2, <3>3, <3>5
      <3> HIDE DEF off, queue, n, s, mid
      <3>7. [mid[n] EXCEPT !.to_process = queue] \in Server
        BY <1>2, <1>4, <3>6 DEF Server
      <3>8. serv' \in [Servers -> Server]
        BY <1>2, <3>6, <3>7
      <3>9. ASSUME NEW u \in Servers
            PROVE  /\ serv'[u].in_process = mid[u].in_process /\ serv'[u].reqs_on_wire = mid[u].reqs_on_wire
                   /\ serv'[u].write_busy = mid[u].write_busy
                   /\ serv'[u].to_process = IF u = n THEN queue ELSE mid[u].to_process
        BY <1>2, <3>6 DEF Server
      <3>10. ASSUME NEW u \in Servers
             PROVE  /\ mid[u].in_process = (IF u = s THEN serv[u].in_process \ {r} ELSE serv[u].in_process)
                    /\ mid[u].reqs_on_wire = serv[u].reqs_on_wire - (IF u = s THEN 1 ELSE 0)
                    /\ mid[u].write_busy = serv[u].write_busy /\ mid[u].to_process = serv[u].to_process
        <4>1. CASE u = s
          BY <2>1, <3>6, <4>1
        <4>2. CASE u # s
          BY <2>2, <3>6, <4>2
        <4> QED BY <4>1, <4>2
      <3> QED BY <3>8, <3>9, <3>10
    <2> QED BY <2>3, <2>4
  <1> HIDE DEF off, queue
  <1>8. /\ req' \in [Targets -> Request]
        /\ \A t \in Targets : req'[t].tries <= TriesPerServer
        /\ req'[r].curr_server = n /\ req'[r].tries = 0
        /\ req'[r].first_server = req[r].first_server
        /\ req'[r].servers_tried = req[r].servers_tried + 1
        /\ \A t \in Targets : t # r => req'[t] = req[t]
    <2>1. /\ req[r].servers_tried + 1 \in 0..SERVERS_TO_TRY /\ req \in [Targets -> Request]
          /\ \A t \in Targets : req[t].tries <= TriesPerServer
      BY <1>2, ReqFields, DnsAssumption DEF Sent, TypeOK
    <2> HIDE DEF n
    <2>2. /\ req'[r].curr_server = n /\ req'[r].tries = 0
          /\ req'[r].first_server = req[r].first_server
          /\ req'[r].servers_tried = req[r].servers_tried + 1
          /\ \A t \in Targets : t # r => req'[t] = req[t]
      BY <1>2, <1>3, <2>1 DEF Request
    <2>3. req' \in [Targets -> Request]
      BY <1>2, <1>3, <2>1 DEF Request
    <2>4. \A t \in Targets : req'[t].tries <= TriesPerServer
      BY <2>1, <2>2, Tries
    <2> QED BY <2>2, <2>3, <2>4
  <1>9. TakenOff(r, s)
    <2>1. \A u \in Servers : u # s => r \notin serv[u].in_process
      BY <1>2 DEF LookupInv, InProcessOK
    <2>2. UNCHANGED writes
      BY <1>3
    <2>3. \A u \in Servers : serv'[u].in_process = serv[u].in_process \ {r}
      BY <1>7, <2>1
    <2> HIDE DEF s, n
    <2>4. \A u \in Servers :
              /\ serv'[u].in_process = serv[u].in_process \ {r}
              /\ serv'[u].reqs_on_wire = serv[u].reqs_on_wire - (IF u = s THEN 1 ELSE 0)
              /\ serv'[u].write_busy = serv[u].write_busy
      BY <1>7, <2>3
    <2>5. serv' \in [Servers -> Server] /\ \A t \in Targets : t # r => req'[t] = req[t]
      BY <1>7, <1>8
    <2> QED BY <1>2, <2>2, <2>4, <2>5 DEF TakenOff
  <1>10. CASE ~GivenUp(req[r], n)
    <2>1. UNCHANGED <<total_reqs, outcome>> /\ queue = Append(serv[n].to_process, r)
      BY <1>10 DEF MoveOn, queue
    <2>2. req[r].servers_tried + 1 < SERVERS_TO_TRY
      BY <1>2, <1>10, ReqFields, DnsAssumption DEF GivenUp, Sent
    <2>3. TypeOK'
      BY <1>2, <1>3, <1>7, <1>8, <2>1, ReqFields DEF TypeOK
    <2>4. Requeued(r, s, n)
      <3> HIDE DEF s, n
      <3>1. \A u \in Servers : serv'[u].to_process =
                IF u = n THEN Append(serv[u].to_process, r) ELSE serv[u].to_process
        BY <1>7, <2>1
      <3>2. /\ req'[r].tries < TriesPerServer /\ req'[r].servers_tried < SERVERS_TO_TRY
        BY <1>8, <2>2, Tries
      <3>3. UNCHANGED <<new_reqs, total_reqs, deferred_reqs, outcome, phase>>
        BY <1>3, <2>1
      <3> QED BY <1>2, <1>3, <1>8, <1>9, <3>1, <3>2, <3>3 DEF Requeued
    <2> HIDE DEF s, n
    <2> QED BY <1>2, <1>3, <1>9, <2>1, <2>3, <2>4, TakenOffCounts, RequeuedPlaces, TakenOffRecords DEF LookupInv
  <1>11. CASE GivenUp(req[r], n)
    <2>1. /\ total_reqs' = total_reqs - 1 /\ outcome' = [outcome EXCEPT ![r] = "dropped"]
          /\ queue = serv[n].to_process
      BY <1>11 DEF MoveOn, queue
    <2>2. Ended(r, s, "dropped")
      <3> HIDE DEF s, n
      <3> QED BY <1>2, <1>3, <1>7, <1>9, <2>1 DEF Ended
    <2> HIDE DEF s, n
    <2>3. /\ NewOK' /\ QueuesOK' /\ WritesOK' /\ InProcessOK' /\ PlacedOnce' /\ LeftOK' /\ VisitOK'
          /\ total_reqs' \in Nat /\ outcome[r] = "pending"
      BY <1>2, <2>2, EndedPlaces
    <2>4. TypeOK'
      BY <1>2, <1>3, <1>7, <1>8, <2>1, <2>3, ReqFields DEF TypeOK, Outcomes
    <2>5. OnWireExact' /\ RecordsLive'
      BY <1>2, <1>3, <1>9, TakenOffCounts, TakenOffRecords
    <2> QED BY <1>2, <1>9, <2>1, <2>3, <2>4, <2>5 DEF LookupInv, Lookup!End
  <1> QED BY <1>10, <1>11

LEMMA FinishLookup ==
    ASSUME LookupInv, RecordsLive, NEW id \in Ids, records[id] # NoRecord, phase = "nsock",
           NEW v \in {"name", "nx", "deferred"}, Finish(id, v)
    PROVE  /\ LookupInv' /\ RecordsLive'
           /\ \E r \in Targets : Lookup!End(r, v)
           /\ records[id].tpreq \in Targets /\ req[records[id].tpreq].id = id
           /\ \E s : TakenOff(records[id].tpreq, s)
  <1> DEFINE r == records[id].tpreq
             s == records[id].server
             off == [connected |-> serv[s].connected, reqs_on_wire |-> serv[s].reqs_on_wire - 1,
                     capacity |-> check_capacities(serv[s].capacity + CAPACITY_UP_STEP),
                     write_busy |-> serv[s].write_busy,
                     to_process |-> serv[s].to_process, in_process |-> serv[s].in_process \ {r}]
  <1>1. /\ TypeOK /\ InProcessOK /\ r \in Targets /\ s \in Servers
        /\ r \in serv[s].in_process /\ req[r].id = id
    BY DEF LookupInv, TypeOK, RecordsLive
  <1>2. /\ serv' = [serv EXCEPT ![s].capacity = check_capacities(@ + CAPACITY_UP_STEP),
                                ![s].in_process = @ \ {r}, ![s].reqs_on_wire = @ - 1]
        /\ records' = [records EXCEPT ![id] = NoRecord]
        /\ total_reqs' = total_reqs - 1
        /\ outcome' = [outcome EXCEPT ![r] = v]
        /\ deferred_reqs' = IF v = "deferred" THEN deferred_reqs \cup {r} ELSE deferred_reqs
        /\ phase' = "writes" /\ at' = 1
        /\ UNCHANGED <<req, new_reqs, progressiveId, writes, wire, visit>>
    BY DEF Finish, Forget
  <1>3. serv[s].reqs_on_wire - 1 \in Nat /\ check_capacities(serv[s].capacity + CAPACITY_UP_STEP) \in CAPACITY_MIN..CAPACITY_MAX
    <2>1. serv[s].reqs_on_wire - 1 \in Nat
      BY <1>1, TakenOffPositive
    <2>2. serv[s].capacity \in CAPACITY_MIN..CAPACITY_MAX
      BY <1>1, ServFields
    <2>3. serv[s].capacity + CAPACITY_UP_STEP \in Int
      BY <2>2, DnsAssumption
    <2> QED BY <2>1, <2>3, Bounded
  <1>4. serv' = [serv EXCEPT ![s] = off] /\ serv \in [Servers -> Server]
    BY <1>1, <1>2, ServFields DEF TypeOK, Server
  <1>5. off \in Server
    BY <1>1, <1>3, ServFields DEF Server
  <1>6. /\ off.in_process = serv[s].in_process \ {r} /\ off.reqs_on_wire = serv[s].reqs_on_wire - 1
        /\ off.write_busy = serv[s].write_busy /\ off.to_process = serv[s].to_process
    OBVIOUS
  <1>7. \A u \in Servers : serv[u].reqs_on_wire \in Nat /\ (u # s => r \notin serv[u].in_process)
    <2>1. \A u \in Servers : serv[u].reqs_on_wire \in Nat
      BY <1>1, ServFields
    <2> HIDE DEF r, s
    <2> QED BY <1>1, <2>1 DEF InProcessOK
  <1>8. visit = {} /\ visit' = visit \ {r}
    BY <1>2 DEF LookupInv, VisitOK
  <1> HIDE DEF off, r, s
  <1>9. serv' \in [Servers -> Server] /\ serv'[s] = off /\ \A u \in Servers : u # s => serv'[u] = serv[u]
    BY <1>1, <1>4, <1>5
  <1>10. TakenOff(r, s)
    <2>1. ASSUME NEW u \in Servers
          PROVE  /\ serv'[u].in_process = serv[u].in_process \ {r}
                 /\ serv'[u].reqs_on_wire = serv[u].reqs_on_wire - (IF u = s THEN 1 ELSE 0)
                 /\ serv'[u].write_busy = serv[u].write_busy
      <3>1. CASE u = s
        BY <1>6, <1>9, <3>1
      <3>2. CASE u # s
        BY <1>7, <1>9, <3>2
      <3> QED BY <3>1, <3>2
    <2>2. UNCHANGED writes /\ \A t \in Targets : t # r => req'[t] = req[t]
      BY <1>2
    <2> QED BY <1>1, <1>9, <2>1, <2>2 DEF TakenOff
  <1>11. Ended(r, s, v)
    <2>1. \A u \in Servers : serv'[u].to_process = serv[u].to_process
      BY <1>6, <1>9
    <2>2. UNCHANGED new_reqs
      BY <1>2
    <2> QED BY <1>2, <1>8, <1>10, <2>1, <2>2 DEF Ended
  <1>12. /\ NewOK' /\ QueuesOK' /\ WritesOK' /\ InProcessOK' /\ PlacedOnce' /\ LeftOK' /\ VisitOK'
         /\ total_reqs' \in Nat /\ outcome[r] = "pending"
    BY <1>1, <1>11, EndedPlaces
  <1>13. 1 \in 1..(NumServers + 1)
    BY DnsAssumption
  <1>14. TypeOK'
    BY <1>1, <1>2, <1>9, <1>12, <1>13 DEF TypeOK, Outcomes
  <1>15. OnWireExact' /\ RecordsLive'
    BY <1>1, <1>2, <1>10, TakenOffCounts, TakenOffRecords
  <1>16. Lookup!End(r, v)
    BY <1>2, <1>12 DEF Lookup!End
  <1>17. LookupInv' /\ RecordsLive' /\ (\E u \in Targets : Lookup!End(u, v)) /\ \E u : TakenOff(r, u)
    BY <1>1, <1>10, <1>12, <1>14, <1>15, <1>16 DEF LookupInv
  <1> QED BY <1>1, <1>17 DEF r

(* A waiting request is put on the wire to server s.                       *)
Put(r, s) ==
    /\ s \in Servers /\ r \in Targets /\ r \notin writes /\ Placed(r)
    /\ \A u \in Servers : r \notin serv[u].in_process
    /\ ~serv[s].write_busy /\ serv[s].reqs_on_wire < serv[s].capacity
    /\ serv' \in [Servers -> Server]
    /\ \A u \in Servers :
          /\ serv'[u].in_process = serv[u].in_process
          /\ serv'[u].reqs_on_wire = serv[u].reqs_on_wire + (IF u = s THEN 1 ELSE 0)
          /\ serv'[u].write_busy = (u = s \/ serv[u].write_busy)
          /\ Once(serv'[u].to_process)
          /\ Elems(serv'[u].to_process) = Elems(serv[u].to_process) \ {r}
    /\ Once(new_reqs') /\ Elems(new_reqs') = Elems(new_reqs) \ {r}
    /\ writes' = writes \cup {r}
    /\ \A t \in Targets : t # r => req'[t] = req[t]
    /\ req'[r].curr_server = s /\ req'[r].first_server \in Servers
    /\ req'[r].tries > 0 /\ req'[r].servers_tried < SERVERS_TO_TRY
    /\ UNCHANGED <<records, total_reqs, deferred_reqs, outcome, phase, visit>>

LEMMA PutKeeps ==
    ASSUME LookupInv, RecordsLive, NEW r, NEW s, Put(r, s), TypeOK'
    PROVE  LookupInv' /\ RecordsLive'
  <1>1. /\ TypeOK /\ OnWireExact /\ NewOK /\ QueuesOK /\ WritesOK /\ InProcessOK /\ PlacedOnce
        /\ LeftOK /\ VisitOK /\ s \in Servers /\ r \in Targets /\ r \notin writes
    BY DEF LookupInv, Put
  <1>2. /\ writes \subseteq Targets /\ Elems(new_reqs) \subseteq Targets
        /\ \A u \in Servers : Elems(serv[u].to_process) \subseteq Targets /\ serv[u].in_process \subseteq Targets
    BY <1>1, QueueIn, ServFields DEF TypeOK
  <1>3. Writing(s)' = {r} /\ Writing(s) = {} /\ \A u \in Servers : u # s => Writing(u)' = Writing(u)
    <2>1. Writing(s) = {}
      BY <1>1, OnWireWriting DEF Put
    <2>2. \A t \in writes : t # r /\ req'[t] = req[t]
      BY <1>1, <1>2 DEF Put
    <2> QED BY <1>1, <2>1, <2>2 DEF Writing, Put
  <1>4. OnWireExact'
    <2> SUFFICES ASSUME NEW u \in Servers
                 PROVE  /\ serv'[u].reqs_on_wire = Cardinality(serv'[u].in_process) + Cardinality(Writing(u)')
                        /\ serv'[u].write_busy <=> Writing(u)' # {}
                        /\ serv'[u].reqs_on_wire <= CAPACITY_MAX
      BY DEF OnWireExact, Writing
    <2>1. /\ serv[u].reqs_on_wire = Cardinality(serv[u].in_process) + Cardinality(Writing(u))
          /\ serv[u].write_busy <=> Writing(u) # {}
          /\ serv[u].reqs_on_wire <= CAPACITY_MAX
      BY <1>1, OnWireWriting
    <2>2. Cardinality(serv[u].in_process) \in Nat /\ Cardinality({}) = 0 /\ Cardinality({r}) = 1
      BY <1>1, ServFields, FiniteTargets, FS_EmptySet, FS_Singleton
    <2>3. /\ serv'[u].in_process = serv[u].in_process
          /\ serv'[u].reqs_on_wire = serv[u].reqs_on_wire + (IF u = s THEN 1 ELSE 0)
          /\ serv'[u].write_busy = (u = s \/ serv[u].write_busy)
          /\ serv[u].write_busy \in BOOLEAN /\ serv[u].reqs_on_wire \in Nat
      BY <1>1, ServFields DEF Put
    <2>4. CASE u = s
      <3>1. serv[u].reqs_on_wire < CAPACITY_MAX
        <4>1. serv[u].reqs_on_wire < serv[u].capacity
          BY <2>4 DEF Put
        <4>2. serv[u].capacity \in CAPACITY_MIN..CAPACITY_MAX
          BY <1>1, ServFields
        <4> QED BY <2>3, <4>1, <4>2, DnsAssumption
      <3>2. serv'[u].reqs_on_wire = Cardinality(serv'[u].in_process) + Cardinality(Writing(u)')
        <4>1. Cardinality(Writing(u)) = 0 /\ Cardinality(Writing(u)') = 1
          BY <1>3, <2>2, <2>4
        <4>2. serv'[u].reqs_on_wire = serv[u].reqs_on_wire + 1
          BY <2>3, <2>4
        <4>3. Cardinality(serv'[u].in_process) = Cardinality(serv[u].in_process)
          BY <2>3
        <4> QED BY <2>1, <2>2, <4>1, <4>2, <4>3
      <3>3. serv'[u].reqs_on_wire <= CAPACITY_MAX
        BY <2>3, <2>4, <3>1, DnsAssumption
      <3> QED BY <1>3, <2>3, <2>4, <3>2, <3>3
    <2>5. CASE u # s
      <3>1. serv'[u].reqs_on_wire = serv[u].reqs_on_wire
        BY <2>3, <2>5
      <3>2. serv'[u].write_busy = serv[u].write_busy
        BY <2>3, <2>5
      <3> QED BY <1>3, <2>1, <2>3, <2>5, <3>1, <3>2
    <2> QED BY <2>4, <2>5
  <1>5. NewOK'
    BY <1>1, <1>2 DEF NewOK, Put
  <1>6. QueuesOK'
    <2> SUFFICES ASSUME NEW u \in Servers, NEW t \in Elems(serv'[u].to_process)
                 PROVE  /\ t \notin writes' /\ t \notin serv'[u].in_process
                        /\ req'[t].curr_server = u /\ req'[t].first_server \in Servers
                        /\ req'[t].tries < TriesPerServer /\ req'[t].servers_tried < SERVERS_TO_TRY
      BY DEF QueuesOK, Put
    <2>1. t \in Elems(serv[u].to_process) /\ t # r
      BY SMTT(30) DEF Put
    <2>2. t \in Targets /\ req'[t] = req[t]
      BY <1>2, <2>1 DEF Put
    <2> QED BY <1>1, <2>1, <2>2 DEF QueuesOK, Put
  <1>7. WritesOK'
    <2>1. \A t \in writes : t # r /\ req'[t] = req[t] /\ req[t].curr_server # s
      BY <1>1, <1>2, <1>3 DEF Put, Writing
    <2>2. writes' = writes \cup {r} /\ req'[r].curr_server = s /\ req'[r].first_server \in Servers
          /\ req'[r].tries > 0 /\ req'[r].servers_tried < SERVERS_TO_TRY
      BY DEF Put
    <2> QED BY <1>1, <2>1, <2>2 DEF WritesOK, Sent
  <1>8. \A u \in Servers : \A t \in serv[u].in_process : t # r /\ req'[t] = req[t]
    BY <1>2 DEF Put
  <1>9. InProcessOK'
    BY <1>1, <1>8 DEF InProcessOK, Sent, Put
  <1>10. PlacedOnce'
    <2> SUFFICES ASSUME NEW t \in Targets
                 PROVE  outcome'[t] = "pending" <=> Placed(t)'
      BY DEF PlacedOnce
    <2>1. outcome'[t] = "pending" <=> Placed(t)
      BY <1>1 DEF PlacedOnce, Put
    <2>2. CASE t = r
      BY <2>1, <2>2 DEF Placed, Put
    <2>3. CASE t # r
      <3>1. /\ t \in Elems(new_reqs') <=> t \in Elems(new_reqs)
            /\ t \in writes' <=> t \in writes
        BY <2>3 DEF Put
      <3>2. \A u \in Servers :
                /\ t \in Elems(serv'[u].to_process) <=> t \in Elems(serv[u].to_process)
                /\ t \in serv'[u].in_process <=> t \in serv[u].in_process
        BY <2>3, SMTT(30) DEF Put
      <3> QED BY <2>1, <3>1, <3>2 DEF Placed
    <2> QED BY <2>2, <2>3
  <1>11. LeftOK' /\ VisitOK'
    BY <1>1 DEF LeftOK, VisitOK, Put, Pending
  <1>12. RecordsLive'
    <2> SUFFICES ASSUME NEW i \in Ids, records[i] # NoRecord
                 PROVE  /\ records[i].tpreq \in serv'[records[i].server].in_process
                        /\ req'[records[i].tpreq].id = i
                        /\ req'[records[i].tpreq].curr_server = records[i].server
      BY DEF RecordsLive, Put
    <2>1. records[i].server \in Servers
      BY <1>1 DEF TypeOK
    <2> QED BY <1>8, <2>1 DEF RecordsLive, Put
  <1> QED BY <1>4, <1>5, <1>6, <1>7, <1>9, <1>10, <1>11, <1>12 DEF LookupInv

\* Request r takes the next query id.
TakesId(r) ==
    /\ req[r].tries < TriesPerServer /\ req[r].servers_tried < SERVERS_TO_TRY
    /\ req'[r].tries = req[r].tries + 1 /\ req'[r].servers_tried = req[r].servers_tried
    /\ req'[r].id = progressiveId /\ progressiveId' = (progressiveId + 1) % IdSpace
    /\ wire' = wire \cup {[id |-> progressiveId, asks |-> r]}

LEMMA PutRequest ==
    ASSUME LookupInv, NEW r \in Targets, NEW s \in Servers, NEW first \in Servers,
           req[r].tries < TriesPerServer, req[r].servers_tried < SERVERS_TO_TRY,
           put_dns_packet_on_wire(r, s, first)
    PROVE  /\ req' \in [Targets -> Request] /\ \A t \in Targets : req'[t].tries <= TriesPerServer
           /\ \A t \in Targets : t # r => req'[t] = req[t]
           /\ req'[r].curr_server = s /\ req'[r].first_server = first /\ req'[r].id = progressiveId
           /\ req'[r].tries = req[r].tries + 1 /\ req'[r].servers_tried = req[r].servers_tried
           /\ progressiveId' \in Ids /\ wire' \subseteq [id : Ids, asks : Targets]
           /\ TakesId(r)
  <1>1. /\ TypeOK /\ req \in [Targets -> Request] /\ \A t \in Targets : req[t].tries <= TriesPerServer
        /\ progressiveId \in Ids
    BY DEF LookupInv, TypeOK
  <1>2. req[r].tries + 1 \in 0..3 /\ req[r].tries + 1 <= TriesPerServer
    BY <1>1, ReqFields, Tries
  <1>3. req' = [req EXCEPT ![r].id = progressiveId, ![r].tries = @ + 1,
                           ![r].first_server = first, ![r].curr_server = s]
    BY DEF put_dns_packet_on_wire
  <1>4. /\ \A t \in Targets : t # r => req'[t] = req[t]
        /\ req'[r].curr_server = s /\ req'[r].first_server = first /\ req'[r].id = progressiveId
        /\ req'[r].tries = req[r].tries + 1 /\ req'[r].servers_tried = req[r].servers_tried
    BY <1>1, <1>3 DEF Request
  <1>5. req' \in [Targets -> Request]
    BY <1>1, <1>2, <1>3 DEF Request
  <1>6. \A t \in Targets : req'[t].tries <= TriesPerServer
    BY <1>1, <1>2, <1>4
  <1>7. progressiveId' \in Ids
    BY <1>1, DnsAssumption DEF put_dns_packet_on_wire, Ids
  <1>8. wire' \subseteq [id : Ids, asks : Targets]
    BY <1>1 DEF put_dns_packet_on_wire, TypeOK
  <1>9. TakesId(r)
    BY <1>4 DEF TakesId, put_dns_packet_on_wire
  <1> QED BY <1>4, <1>5, <1>6, <1>7, <1>8, <1>9

LEMMA WriteQueuedLookup ==
    ASSUME LookupInv, RecordsLive, WriteQueued
    PROVE  /\ LookupInv' /\ RecordsLive' /\ UNCHANGED <<outcome, total_reqs>>
           /\ \E r, s : Put(r, s) /\ TakesId(r)
  <1> DEFINE q == serv[at].to_process
             r == Head(q)
             new == [serv[at] EXCEPT !.to_process = Tail(q), !.write_busy = TRUE,
                                     !.reqs_on_wire = serv[at].reqs_on_wire + 1]
  <1>1. /\ TypeOK /\ QueuesOK /\ NewOK /\ InProcessOK /\ at \in Servers /\ MayWrite(at) /\ q # <<>>
        /\ serv \in [Servers -> Server] /\ new_reqs \in Seq(Targets)
    BY DEF LookupInv, TypeOK, WriteQueued
  <1>2. q \in Seq(Targets) /\ Once(q)
    BY <1>1, ServFields DEF QueuesOK
  <1>3. /\ r \in Targets /\ r \in Elems(q) /\ Tail(q) \in Seq(Targets) /\ Once(Tail(q))
        /\ Elems(Tail(q)) = Elems(q) \ {r}
    BY <1>1, <1>2, QueueTail
  <1>4. /\ r \notin writes /\ req[r].curr_server = at /\ req[r].first_server \in Servers
        /\ req[r].tries < TriesPerServer /\ req[r].servers_tried < SERVERS_TO_TRY
        /\ r \notin serv[at].in_process
    BY <1>1, <1>3 DEF QueuesOK
  <1>5. /\ \A u \in Servers : r \notin serv[u].in_process
        /\ \A u \in Servers : u # at => r \notin Elems(serv[u].to_process)
        /\ r \notin Elems(new_reqs)
    <2> HIDE DEF r, q
    <2> QED BY <1>1, <1>4, Servers0 DEF QueuesOK, NewOK, InProcessOK
  <1>6. put_dns_packet_on_wire(r, at, req[r].first_server)
    BY DEF WriteQueued
  <1>7. /\ serv' = [serv EXCEPT ![at].to_process = Tail(@), ![at].write_busy = TRUE,
                            ![at].reqs_on_wire = @ + 1]
        /\ at' = at + 1
        /\ UNCHANGED <<new_reqs, records, total_reqs, deferred_reqs, outcome, phase, visit>>
    BY DEF WriteQueued
  <1>8. serv'[at] = new /\ (\A u \in Servers : u # at => serv'[u] = serv[u])
    BY <1>1, <1>7
  <1>9. /\ serv' \in [Servers -> Server]
        /\ serv'[at].in_process = serv[at].in_process /\ serv'[at].write_busy = TRUE
        /\ serv'[at].reqs_on_wire = serv[at].reqs_on_wire + 1 /\ serv'[at].to_process = Tail(q)
    <2> HIDE DEF q
    <2>1. new \in Server /\ new.in_process = serv[at].in_process /\ new.write_busy = TRUE
          /\ new.reqs_on_wire = serv[at].reqs_on_wire + 1 /\ new.to_process = Tail(q)
      <3>1. serv[at] \in Server /\ serv[at].reqs_on_wire + 1 \in Nat /\ Tail(q) \in Seq(Targets)
        BY <1>1, <1>3, ServFields
      <3> QED BY <3>1 DEF Server
    <2>2. serv' = [serv EXCEPT ![at] = new]
      BY <1>1, <1>7 DEF q
    <2> HIDE DEF new
    <2> QED BY <1>1, <2>1, <2>2
  <1> HIDE DEF r, q, new
  <1>10. /\ req' \in [Targets -> Request] /\ \A t \in Targets : req'[t].tries <= TriesPerServer
         /\ \A t \in Targets : t # r => req'[t] = req[t]
         /\ req'[r].curr_server = at /\ req'[r].first_server = req[r].first_server
         /\ req'[r].tries = req[r].tries + 1 /\ req'[r].servers_tried = req[r].servers_tried
         /\ progressiveId' \in Ids /\ wire' \subseteq [id : Ids, asks : Targets]
         /\ TakesId(r)
    BY <1>1, <1>3, <1>4, <1>6, PutRequest
  <1>11. writes' = writes \cup {r}
    BY <1>6 DEF put_dns_packet_on_wire
  <1>12. TypeOK'
    <2>1. at' \in 1..(NumServers + 1)
      BY <1>1, <1>7, DnsAssumption DEF Servers
    <2> QED BY <1>1, <1>3, <1>7, <1>9, <1>10, <1>11, <2>1 DEF TypeOK
  <1>13. Put(r, at)
    <2>1. req[r].tries \in Nat
      BY <1>1, <1>3, ReqFields, Tries
    <2>2. req'[r].tries > 0
      BY <1>10, <2>1
    <2>3. ASSUME NEW u \in Servers
          PROVE  /\ serv'[u].in_process = serv[u].in_process
                 /\ serv'[u].reqs_on_wire = serv[u].reqs_on_wire + (IF u = at THEN 1 ELSE 0)
                 /\ serv'[u].write_busy = (u = at \/ serv[u].write_busy)
                 /\ Once(serv'[u].to_process)
                 /\ Elems(serv'[u].to_process) = Elems(serv[u].to_process) \ {r}
      <3>1. serv[u].reqs_on_wire \in Nat /\ serv[u].write_busy \in BOOLEAN
        BY <1>1, ServFields
      <3>2. CASE u = at
        BY <1>3, <1>9, <3>1, <3>2 DEF q
      <3>3. CASE u # at
        BY <1>1, <1>5, <1>8, <3>1, <3>3 DEF QueuesOK
      <3> QED BY <3>2, <3>3
    <2>4. Once(new_reqs') /\ Elems(new_reqs') = Elems(new_reqs) \ {r}
      BY <1>1, <1>5, <1>7 DEF NewOK
    <2>5. Placed(r)
      BY <1>1, <1>3 DEF Placed, q
    <2>6. UNCHANGED <<records, total_reqs, deferred_reqs, outcome, phase, visit>>
      BY <1>7
    <2>7. ~serv[at].write_busy /\ serv[at].reqs_on_wire < serv[at].capacity
      BY <1>1 DEF MayWrite
    <2> QED BY <1>1, <1>3, <1>4, <1>5, <1>9, <1>10, <1>11, <2>2, <2>3, <2>4, <2>5, <2>6, <2>7 DEF Put
  <1> QED BY <1>7, <1>10, <1>12, <1>13, PutKeeps

LEMMA WriteNewLookup ==
    ASSUME LookupInv, RecordsLive, WriteNew
    PROVE  /\ LookupInv' /\ RecordsLive' /\ UNCHANGED <<outcome, total_reqs>>
           /\ \E r, s : Put(r, s) /\ TakesId(r)
  <1> DEFINE r == Head(new_reqs)
             new == [serv[at] EXCEPT !.write_busy = TRUE, !.reqs_on_wire = serv[at].reqs_on_wire + 1]
  <1>1. /\ TypeOK /\ QueuesOK /\ NewOK /\ InProcessOK /\ at \in Servers /\ MayWrite(at)
        /\ serv \in [Servers -> Server] /\ new_reqs \in Seq(Targets) /\ new_reqs # <<>> /\ Once(new_reqs)
    BY DEF LookupInv, TypeOK, WriteNew, NewOK
  <1>2. /\ r \in Targets /\ r \in Elems(new_reqs) /\ Tail(new_reqs) \in Seq(Targets) /\ Once(Tail(new_reqs))
        /\ Elems(Tail(new_reqs)) = Elems(new_reqs) \ {r}
    BY <1>1, QueueTail
  <1>3. /\ r \notin writes /\ req[r].curr_server = NoServer
        /\ req[r].tries = 0 /\ req[r].servers_tried = 0
        /\ req[r].tries < TriesPerServer /\ req[r].servers_tried < SERVERS_TO_TRY
    BY <1>1, <1>2, Tries, DnsAssumption DEF NewOK
  <1>4. /\ \A u \in Servers : r \notin serv[u].in_process /\ r \notin Elems(serv[u].to_process)
    <2> HIDE DEF r
    <2> QED BY <1>1, <1>3, Servers0 DEF QueuesOK, InProcessOK
  <1>5. put_dns_packet_on_wire(r, at, at)
    BY DEF WriteNew
  <1>6. /\ serv' = [serv EXCEPT ![at].write_busy = TRUE, ![at].reqs_on_wire = @ + 1]
        /\ at' = at + 1 /\ new_reqs' = Tail(new_reqs)
        /\ UNCHANGED <<records, total_reqs, deferred_reqs, outcome, phase, visit>>
    BY DEF WriteNew
  <1>7. serv'[at] = new /\ (\A u \in Servers : u # at => serv'[u] = serv[u])
    BY <1>1, <1>6
  <1>8. /\ serv' \in [Servers -> Server]
        /\ serv'[at].in_process = serv[at].in_process /\ serv'[at].write_busy = TRUE
        /\ serv'[at].reqs_on_wire = serv[at].reqs_on_wire + 1
        /\ serv'[at].to_process = serv[at].to_process
    <2>1. new \in Server /\ new.in_process = serv[at].in_process /\ new.write_busy = TRUE
          /\ new.reqs_on_wire = serv[at].reqs_on_wire + 1 /\ new.to_process = serv[at].to_process
      <3>1. serv[at] \in Server /\ serv[at].reqs_on_wire + 1 \in Nat
        BY <1>1, ServFields
      <3> QED BY <3>1 DEF Server
    <2>2. serv' = [serv EXCEPT ![at] = new]
      BY <1>1, <1>6
    <2> HIDE DEF new
    <2> QED BY <1>1, <2>1, <2>2
  <1> HIDE DEF r, new
  <1>9. /\ req' \in [Targets -> Request] /\ \A t \in Targets : req'[t].tries <= TriesPerServer
        /\ \A t \in Targets : t # r => req'[t] = req[t]
        /\ req'[r].curr_server = at /\ req'[r].first_server = at
        /\ req'[r].tries = req[r].tries + 1 /\ req'[r].servers_tried = req[r].servers_tried
        /\ progressiveId' \in Ids /\ wire' \subseteq [id : Ids, asks : Targets]
        /\ TakesId(r)
    BY <1>1, <1>2, <1>3, <1>5, PutRequest
  <1>10. writes' = writes \cup {r}
    BY <1>5 DEF put_dns_packet_on_wire
  <1>11. TypeOK'
    <2>1. at' \in 1..(NumServers + 1)
      BY <1>1, <1>6, DnsAssumption DEF Servers
    <2> QED BY <1>1, <1>2, <1>6, <1>8, <1>9, <1>10, <2>1 DEF TypeOK
  <1>12. Put(r, at)
    <2>1. req'[r].tries > 0
      BY <1>3, <1>9
    <2>2. ASSUME NEW u \in Servers
          PROVE  /\ serv'[u].in_process = serv[u].in_process
                 /\ serv'[u].reqs_on_wire = serv[u].reqs_on_wire + (IF u = at THEN 1 ELSE 0)
                 /\ serv'[u].write_busy = (u = at \/ serv[u].write_busy)
                 /\ Once(serv'[u].to_process)
                 /\ Elems(serv'[u].to_process) = Elems(serv[u].to_process) \ {r}
      <3>1. /\ serv[u].reqs_on_wire \in Nat /\ serv[u].write_busy \in BOOLEAN
            /\ Once(serv[u].to_process) /\ r \notin Elems(serv[u].to_process)
        BY <1>1, <1>4, ServFields DEF QueuesOK
      <3>2. CASE u = at
        BY <1>8, <3>1, <3>2
      <3>3. CASE u # at
        BY <1>7, <3>1, <3>3
      <3> QED BY <3>2, <3>3
    <2>3. Placed(r)
      BY <1>2 DEF Placed
    <2>4. UNCHANGED <<records, total_reqs, deferred_reqs, outcome, phase, visit>>
      BY <1>6
    <2>5. ~serv[at].write_busy /\ serv[at].reqs_on_wire < serv[at].capacity
      BY <1>1 DEF MayWrite
    <2> QED BY <1>1, <1>2, <1>3, <1>4, <1>6, <1>8, <1>9, <1>10, <2>1, <2>2, <2>3, <2>4, <2>5 DEF Put
  <1> QED BY <1>6, <1>9, <1>11, <1>12, PutKeeps

LEMMA WrittenLookup ==
    ASSUME LookupInv, RecordsLive, NEW r \in writes, write_evt_handler(r)
    PROVE  /\ LookupInv' /\ RecordsLive' /\ UNCHANGED <<outcome, total_reqs>>
           /\ InProcess' = InProcess \cup {r}
           /\ records' = [records EXCEPT ![req[r].id] = [tpreq |-> r, server |-> req[r].curr_server]]
  <1>0. PICK s : s = req[r].curr_server
    OBVIOUS
  <1> DEFINE new == [serv[s] EXCEPT !.write_busy = FALSE, !.in_process = serv[s].in_process \cup {r}]
  <1>1. /\ TypeOK /\ OnWireExact /\ NewOK /\ QueuesOK /\ WritesOK /\ InProcessOK /\ PlacedOnce
        /\ LeftOK /\ VisitOK /\ serv \in [Servers -> Server]
        /\ r \in Targets /\ s \in Servers /\ Sent(r) /\ req[r].id \in Ids
    <2>1. TypeOK /\ WritesOK /\ r \in Targets
      BY DEF LookupInv, TypeOK
    <2> QED BY <1>0, <2>1, ReqFields DEF LookupInv, WritesOK, TypeOK
  <1>2. /\ \A u \in Servers : r \notin serv[u].in_process /\ r \notin Elems(serv[u].to_process)
        /\ r \notin Elems(new_reqs)
    BY <1>1 DEF InProcessOK, QueuesOK, NewOK
  <1>3. /\ serv' = [serv EXCEPT ![s].write_busy = FALSE, ![s].in_process = @ \cup {r}]
        /\ records' = [records EXCEPT ![req[r].id] = [tpreq |-> r, server |-> s]]
        /\ writes' = writes \ {r} /\ phase' = "writes" /\ at' = 1 /\ phase = "nsock"
        /\ UNCHANGED <<req, new_reqs, total_reqs, deferred_reqs, progressiveId, wire, outcome, visit>>
    BY <1>0 DEF write_evt_handler
  <1>4. /\ serv' \in [Servers -> Server] /\ \A u \in Servers : u # s => serv'[u] = serv[u]
        /\ serv'[s].in_process = serv[s].in_process \cup {r} /\ serv'[s].write_busy = FALSE
        /\ serv'[s].reqs_on_wire = serv[s].reqs_on_wire
        /\ serv'[s].to_process = serv[s].to_process
    <2>1. serv[s] \in Server /\ serv[s].in_process \cup {r} \subseteq Targets
      BY <1>1, ServFields
    <2>2. new \in Server /\ new.in_process = serv[s].in_process \cup {r} /\ new.write_busy = FALSE
          /\ new.reqs_on_wire = serv[s].reqs_on_wire /\ new.to_process = serv[s].to_process
      BY <2>1 DEF Server
    <2>3. serv' = [serv EXCEPT ![s] = new]
      BY <1>1, <1>3
    <2> HIDE DEF new
    <2> QED BY <1>1, <2>2, <2>3
  <1> HIDE DEF new
  <1>5. /\ \A u \in Servers : serv'[u].to_process = serv[u].to_process
                              /\ serv'[u].reqs_on_wire = serv[u].reqs_on_wire
        /\ \A u \in Servers : serv'[u].in_process = serv[u].in_process \cup (IF u = s THEN {r} ELSE {})
    BY <1>4
  <1>6. \A u \in Servers : serv[u].in_process \subseteq Targets /\ Elems(serv[u].to_process) \subseteq Targets
    BY <1>1, ServFields, QueueIn
  <1>7. TypeOK'
    <2>1. 1 \in 1..(NumServers + 1)
      BY DnsAssumption
    <2>2. records' \in [Ids -> [tpreq : Targets, server : Servers] \cup {NoRecord}]
      BY <1>1, <1>3 DEF TypeOK
    <2> QED BY <1>1, <1>3, <1>4, <2>1, <2>2 DEF TypeOK
  <1>8. Writing(s) = {r} /\ Writing(s)' = {} /\ \A u \in Servers : u # s => Writing(u)' = Writing(u)
    <2>1. r \in Writing(s)
      BY <1>0 DEF Writing
    <2>2. ASSUME NEW t \in Writing(s) PROVE t = r
      BY <1>0, <1>1 DEF Writing, WritesOK
    <2>3. Writing(s) = {r}
      BY <2>1, <2>2
    <2>4. \A u \in Servers : Writing(u)' = Writing(u) \ {r}
      BY <1>3 DEF Writing
    <2>5. \A u \in Servers : u # s => r \notin Writing(u)
      BY <1>0 DEF Writing
    <2> QED BY <1>1, <2>3, <2>4, <2>5
  <1>9. OnWireExact'
    <2> SUFFICES ASSUME NEW u \in Servers
                 PROVE  /\ serv'[u].reqs_on_wire = Cardinality(serv'[u].in_process) + Cardinality(Writing(u)')
                        /\ serv'[u].write_busy <=> Writing(u)' # {}
                        /\ serv'[u].reqs_on_wire <= CAPACITY_MAX
      BY DEF OnWireExact, Writing
    <2>1. /\ serv[u].reqs_on_wire = Cardinality(serv[u].in_process) + Cardinality(Writing(u))
          /\ serv[u].write_busy <=> Writing(u) # {}
          /\ serv[u].reqs_on_wire <= CAPACITY_MAX
      BY <1>1, OnWireWriting
    <2>2. Cardinality(serv[u].in_process) \in Nat /\ Cardinality({}) = 0 /\ Cardinality({r}) = 1
      BY <1>1, ServFields, FiniteTargets, FS_EmptySet, FS_Singleton
    <2>3. CASE u = s
      <3>1. Cardinality(serv'[u].in_process) = Cardinality(serv[u].in_process) + 1
        BY <1>1, <1>2, <1>4, <1>6, <2>3, CountAdd
      <3>2. Cardinality(Writing(u)) = 1 /\ Cardinality(Writing(u)') = 0
        BY <1>8, <2>2, <2>3
      <3>3. serv'[u].reqs_on_wire = serv[u].reqs_on_wire
        BY <1>5
      <3>4. serv'[u].reqs_on_wire = Cardinality(serv'[u].in_process) + Cardinality(Writing(u)')
        BY <2>1, <2>2, <3>1, <3>2, <3>3
      <3> QED BY <1>4, <1>8, <2>1, <2>3, <3>3, <3>4
    <2>4. CASE u # s
      BY <1>4, <1>8, <2>1, <2>4
    <2> QED BY <2>3, <2>4
  <1>10. NewOK'
    BY <1>1, <1>3 DEF NewOK
  <1>11. QueuesOK'
    <2> SUFFICES ASSUME NEW u \in Servers
                 PROVE  /\ Once(serv[u].to_process)
                        /\ \A t \in Elems(serv[u].to_process) :
                              /\ t \notin writes' /\ t \notin serv'[u].in_process
                              /\ req[t].curr_server = u /\ req[t].first_server \in Servers
                              /\ req[t].tries < TriesPerServer /\ req[t].servers_tried < SERVERS_TO_TRY
      BY <1>3, <1>5 DEF QueuesOK
    <2> QED BY <1>1, <1>2, <1>3, <1>5 DEF QueuesOK
  <1>12. WritesOK' /\ InProcessOK'
    <2>1. WritesOK'
      BY <1>1, <1>3 DEF WritesOK, Sent
    <2> SUFFICES ASSUME NEW u \in Servers, NEW t \in serv'[u].in_process
                 PROVE  t \notin writes' /\ Sent(t)' /\ req[t].curr_server = u
      BY <1>3, <2>1 DEF InProcessOK
    <2>2. CASE t = r
      BY <1>0, <1>1, <1>2, <1>3, <1>5, <2>2 DEF Sent
    <2>3. CASE t # r
      <3>1. t \in serv[u].in_process
        BY <1>5, <2>3
      <3> QED BY <1>1, <1>3, <3>1 DEF InProcessOK, Sent
    <2> QED BY <2>2, <2>3
  <1>13. PlacedOnce'
    <2> SUFFICES ASSUME NEW t \in Targets
                 PROVE  outcome[t] = "pending" <=> Placed(t)'
      BY <1>3 DEF PlacedOnce
    <2>1. outcome[t] = "pending" <=> Placed(t)
      BY <1>1 DEF PlacedOnce
    <2>2. CASE t = r
      BY <1>1, <1>5, <2>1, <2>2 DEF Placed
    <2>3. CASE t # r
      <3>1. t \in writes' <=> t \in writes
        BY <1>3, <2>3
      <3>2. \A u \in Servers : t \in serv'[u].in_process <=> t \in serv[u].in_process
        BY <1>5, <2>3
      <3> QED BY <1>3, <1>5, <2>1, <3>1, <3>2 DEF Placed
    <2> QED BY <2>2, <2>3
  <1>14. LeftOK' /\ VisitOK'
    BY <1>1, <1>3, <1>5 DEF LeftOK, VisitOK, Pending
  <1>15. RecordsLive'
    <2> SUFFICES ASSUME NEW i \in Ids, records'[i] # NoRecord
                 PROVE  /\ records'[i].tpreq \in serv'[records'[i].server].in_process
                        /\ req[records'[i].tpreq].id = i
                        /\ req[records'[i].tpreq].curr_server = records'[i].server
      BY <1>3 DEF RecordsLive
    <2>1. records \in [Ids -> [tpreq : Targets, server : Servers] \cup {NoRecord}]
      BY <1>1 DEF TypeOK
    <2>2. CASE i = req[r].id
      <3>1. records'[i] = [tpreq |-> r, server |-> s]
        BY <1>3, <2>1, <2>2
      <3> QED BY <1>0, <1>1, <1>4, <2>2, <3>1
    <2>3. CASE i # req[r].id
      <3>1. records'[i] = records[i]
        BY <1>1, <1>3, <2>1, <2>3
      <3>2. records[i].server \in Servers
        BY <2>1, <3>1
      <3> QED BY <1>5, <3>1, <3>2 DEF RecordsLive
    <2> QED BY <2>2, <2>3
  <1>16. InProcess' = InProcess \cup {r}
    BY <1>1, <1>5 DEF InProcess
  <1>17. records' = [records EXCEPT ![req[r].id] = [tpreq |-> r, server |-> req[r].curr_server]]
    BY <1>0, <1>3
  <1> QED BY <1>3, <1>7, <1>9, <1>10, <1>11, <1>12, <1>13, <1>14, <1>15, <1>16, <1>17 DEF LookupInv

LEMMA InitLookup == Init => LookupInv /\ RecordsLive
  <1> SUFFICES ASSUME Init PROVE LookupInv /\ RecordsLive
    OBVIOUS
  <1>1. /\ outcome \in [Targets -> {"pending", "cached", "down"}]
        /\ new_reqs \in [1..Cardinality(Pending) -> Pending]
        /\ \A i, j \in DOMAIN new_reqs : i < j => new_reqs[i] < new_reqs[j]
        /\ total_reqs = Cardinality(Pending)
    BY DEF Init, Pending
  <1>2. Pending \in SUBSET Targets /\ IsFiniteSet(Pending) /\ Cardinality(Pending) \in Nat
    BY FiniteTargets DEF Pending
  <1>3. /\ new_reqs \in Seq(Targets) /\ Len(new_reqs) = Cardinality(Pending)
        /\ DOMAIN new_reqs = 1..Cardinality(Pending)
    <2>1. new_reqs \in Seq(Targets)
      BY <1>1, <1>2, IsASeq
    <2>2. DOMAIN new_reqs = 1..Cardinality(Pending) /\ DOMAIN new_reqs = 1..Len(new_reqs) /\ Len(new_reqs) \in Nat
      BY <1>1, <2>1, LenProperties
    <2> QED BY <1>2, <2>1, <2>2
  <1>4. Once(new_reqs)
    <2> SUFFICES ASSUME NEW i \in 1..Len(new_reqs), NEW j \in 1..Len(new_reqs), new_reqs[i] = new_reqs[j]
                 PROVE  i = j
      BY DEF Once
    <2>1. new_reqs[i] \in Int /\ new_reqs[j] \in Int
      BY <1>1, <1>2, <1>3, DnsAssumption DEF Targets
    <2>2. ~(i < j) /\ ~(j < i)
      BY <1>1, <1>3, <2>1
    <2> QED BY <1>2, <1>3, <2>2
  <1>5. Elems(new_reqs) = Pending
    <2>1. new_reqs \in Injection(1..Cardinality(Pending), Pending)
      BY <1>1, <1>3, <1>4 DEF Injection, IsInjective, Once
    <2>2. Cardinality(1..Cardinality(Pending)) = Cardinality(Pending)
      BY <1>2, FS_Interval
    <2>3. new_reqs \in Surjection(1..Cardinality(Pending), Pending)
      BY <1>2, <2>1, <2>2, FS_Injection
    <2> QED BY <1>1, <1>3, <2>3 DEF Surjection, Elems
  <1>6. /\ req = [t \in Targets |-> [tries |-> 0, servers_tried |-> 0, first_server |-> NoServer,
                                     curr_server |-> NoServer, id |-> 0, due |-> FALSE]]
        /\ serv = [s \in Servers |-> [connected |-> TRUE, reqs_on_wire |-> 0,
                                      capacity |-> CAPACITY_MIN, write_busy |-> FALSE,
                                      to_process |-> <<>>, in_process |-> {}]]
        /\ records = [i \in Ids |-> NoRecord]
        /\ deferred_reqs = {} /\ writes = {} /\ wire = {} /\ visit = {} /\ progressiveId = FirstId
        /\ phase = (IF total_reqs = 0 THEN "done" ELSE "timeouts") /\ at = 1
    BY DEF Init
  <1>7. TypeOK
    <2>1. serv \in [Servers -> Server]
      BY <1>6, DnsAssumption, QueueEmpty DEF Server
    <2>2. req \in [Targets -> Request] /\ \A t \in Targets : req[t].tries <= TriesPerServer
      BY <1>6, DnsAssumption, Tries DEF Request, Ids
    <2>3. /\ records \in [Ids -> [tpreq : Targets, server : Servers] \cup {NoRecord}]
          /\ progressiveId \in Ids /\ at \in 1..(NumServers + 1)
      BY <1>6, DnsAssumption DEF Ids
    <2>4. outcome \in [Targets -> Outcomes]
      BY <1>1 DEF Outcomes
    <2> QED BY <1>1, <1>2, <1>3, <1>6, <2>1, <2>2, <2>3, <2>4 DEF TypeOK
  <1>8. /\ \A s \in Servers : /\ serv[s].in_process = {} /\ Elems(serv[s].to_process) = {}
                              /\ Once(serv[s].to_process)
    BY <1>6, QueueEmpty
  <1>9. OnWireExact
    <2> SUFFICES ASSUME NEW s \in Servers
                 PROVE  /\ serv[s].reqs_on_wire = Cardinality(serv[s].in_process) + Cardinality(Writing(s))
                        /\ serv[s].write_busy <=> Writing(s) # {}
                        /\ serv[s].reqs_on_wire <= CAPACITY_MAX
      BY OnWireWriting
    <2>1. Writing(s) = {} /\ Cardinality({}) = 0
      BY <1>6, FS_EmptySet DEF Writing
    <2>2. serv[s].in_process = {} /\ serv[s].reqs_on_wire = 0 /\ serv[s].write_busy = FALSE
      BY <1>6
    <2> QED BY <2>1, <2>2, DnsAssumption
  <1>10. NewOK
    BY <1>2, <1>4, <1>5, <1>6 DEF NewOK
  <1>11. QueuesOK /\ WritesOK /\ InProcessOK /\ VisitOK
    BY <1>6, <1>8 DEF QueuesOK, WritesOK, InProcessOK, VisitOK
  <1>12. PlacedOnce
    BY <1>5, <1>6, <1>8 DEF PlacedOnce, Placed, Pending
  <1>13. LeftOK
    BY <1>1, <1>6 DEF LeftOK
  <1>14. RecordsLive
    BY <1>6 DEF RecordsLive
  <1> QED BY <1>7, <1>9, <1>10, <1>11, <1>12, <1>13, <1>14 DEF LookupInv

\* Nothing is left when the servers are closed.
LEMMA NothingLeft ==
    ASSUME LookupInv, total_reqs = 0
    PROVE  /\ Pending = {} /\ writes = {}
           /\ \A s \in Servers : Elems(serv[s].to_process) = {} /\ serv[s].in_process = {}
  <1>1. TypeOK /\ PlacedOnce /\ LeftOK
    BY DEF LookupInv
  <1>2. Pending = {}
    BY <1>1, FiniteTargets, FS_EmptySet DEF LeftOK, Pending
  <1>3. \A t \in Targets : ~Placed(t)
    BY <1>1, <1>2 DEF PlacedOnce, Pending
  <1>4. writes \subseteq Targets
    BY <1>1 DEF TypeOK
  <1>5. \A s \in Servers : Elems(serv[s].to_process) \subseteq Targets /\ serv[s].in_process \subseteq Targets
    BY <1>1, ServFields, QueueIn
  <1> QED BY <1>2, <1>3, <1>4, <1>5 DEF Placed

LEMMA EndWritesLookup ==
    ASSUME LookupInv, RecordsLive, EndWrites
    PROVE  LookupInv' /\ RecordsLive' /\ UNCHANGED <<outcome, total_reqs>>
  <1>1. /\ TypeOK /\ OnWireExact /\ NewOK /\ QueuesOK /\ WritesOK /\ InProcessOK /\ PlacedOnce
        /\ LeftOK /\ VisitOK /\ phase = "writes"
        /\ UNCHANGED <<req, new_reqs, records, total_reqs, deferred_reqs, progressiveId, wire,
                       outcome, visit, at>>
    BY DEF LookupInv, EndWrites
  <1> total_reqs \in Nat
    BY <1>1 DEF TypeOK
  <1>2. CASE total_reqs > 0
    <2>1. UNCHANGED <<serv, writes>> /\ phase' = "nsock"
      <3>1. total_reqs # 0
        BY <1>2
      <3> QED BY <3>1, Zenon DEF EndWrites
    <2>2. TypeOK' /\ OnWireExact' /\ NewOK'
      BY <1>1, <2>1 DEF TypeOK, OnWireExact, NewOK
    <2>3. QueuesOK' /\ WritesOK' /\ InProcessOK'
      BY <1>1, <2>1 DEF QueuesOK, WritesOK, InProcessOK, Sent
    <2>4. PlacedOnce' /\ LeftOK' /\ VisitOK' /\ RecordsLive'
      BY <1>1, <2>1 DEF PlacedOnce, Placed, LeftOK, Pending, VisitOK, RecordsLive
    <2> QED BY <1>1, <2>2, <2>3, <2>4 DEF LookupInv
  <1>3. CASE total_reqs = 0
    <2>1. /\ serv' = [s \in Servers |-> [serv[s] EXCEPT !.connected = FALSE,
                                                        !.to_process = <<>>, !.in_process = {}]]
          /\ writes' = {} /\ phase' = "deferred"
      <3>1. ~(total_reqs > 0)
        BY <1>3
      <3> QED BY <3>1, Zenon DEF EndWrites
    <2>2. writes = {} /\ \A s \in Servers : Elems(serv[s].to_process) = {} /\ serv[s].in_process = {}
      BY <1>3, NothingLeft
    <2>3. /\ serv' \in [Servers -> Server]
          /\ \A s \in Servers : /\ serv'[s].to_process = <<>> /\ serv'[s].in_process = {}
                                /\ serv'[s].reqs_on_wire = serv[s].reqs_on_wire
                                /\ serv'[s].write_busy = serv[s].write_busy
      BY <1>1, <2>1, QueueEmpty, ZenonT(40) DEF TypeOK, Server
    <2>4. TypeOK'
      BY <1>1, <2>1, <2>3 DEF TypeOK
    <2>5. OnWireExact'
      <3>1. \A s \in Servers : Writing(s)' = {} /\ Writing(s) = {}
        BY <2>1, <2>2 DEF Writing
      <3>2. \A s \in Servers :
              /\ serv[s].reqs_on_wire = Cardinality(serv[s].in_process) + Cardinality(Writing(s))
              /\ serv[s].write_busy <=> Writing(s) # {}
              /\ serv[s].reqs_on_wire <= CAPACITY_MAX
        BY <1>1, OnWireWriting
      <3>3. \A s \in Servers :
              /\ serv'[s].reqs_on_wire = Cardinality(serv'[s].in_process) + Cardinality(Writing(s)')
              /\ serv'[s].write_busy <=> Writing(s)' # {}
              /\ serv'[s].reqs_on_wire <= CAPACITY_MAX
        BY <2>2, <2>3, <3>1, <3>2
      <3> QED BY <3>3 DEF OnWireExact, Writing
    <2>6. NewOK' /\ QueuesOK' /\ WritesOK' /\ InProcessOK'
      BY <1>1, <2>1, <2>3, QueueEmpty DEF NewOK, QueuesOK, WritesOK, InProcessOK
    <2>7. PlacedOnce'
      BY <1>1, <2>1, <2>2, <2>3, QueueEmpty DEF PlacedOnce, Placed
    <2>8. LeftOK' /\ VisitOK'
      BY <1>1, <1>3, <2>1 DEF LeftOK, Pending, VisitOK
    <2>9. RecordsLive'
      BY <1>1, <2>2 DEF RecordsLive, TypeOK
    <2> QED BY <1>1, <2>4, <2>5, <2>6, <2>7, <2>8, <2>9 DEF LookupInv
  <1> QED BY <1>2, <1>3

\* Steps that leave the requests where they are and may start or end a walk over them.
LEMMA QuietLookup ==
    ASSUME LookupInv, RecordsLive, TypeOK', LeftOK', VisitOK',
           UNCHANGED <<serv, new_reqs, records, writes>>,
           \A t \in Targets : /\ req'[t].curr_server = req[t].curr_server
                              /\ req'[t].first_server = req[t].first_server
                              /\ req'[t].tries = req[t].tries /\ req'[t].id = req[t].id
                              /\ req'[t].servers_tried = req[t].servers_tried,
           \A t \in Targets : outcome'[t] = "pending" <=> outcome[t] = "pending"
    PROVE  LookupInv' /\ RecordsLive'
  <1>1. /\ TypeOK /\ OnWireExact /\ NewOK /\ QueuesOK /\ WritesOK /\ InProcessOK /\ PlacedOnce
    BY DEF LookupInv
  <1>2. /\ writes \subseteq Targets /\ Elems(new_reqs) \subseteq Targets
        /\ \A u \in Servers : Elems(serv[u].to_process) \subseteq Targets /\ serv[u].in_process \subseteq Targets
    BY <1>1, QueueIn, ServFields DEF TypeOK
  <1>3. \A u \in Servers : Writing(u)' = Writing(u)
    BY <1>2 DEF Writing
  <1>4. OnWireExact'
    BY <1>1, <1>3 DEF OnWireExact, Writing
  <1>5. NewOK'
    BY <1>1, <1>2 DEF NewOK
  <1>6. QueuesOK'
    BY <1>1, <1>2 DEF QueuesOK
  <1>7. WritesOK'
    BY <1>1, <1>2 DEF WritesOK, Sent
  <1>8. InProcessOK'
    BY <1>1, <1>2 DEF InProcessOK, Sent
  <1>9. PlacedOnce'
    BY <1>1 DEF PlacedOnce, Placed
  <1>10. RecordsLive'
    BY <1>1 DEF RecordsLive, TypeOK
  <1> QED BY <1>4, <1>5, <1>6, <1>7, <1>8, <1>9, <1>10 DEF LookupInv

-----------------------------------------------------------------------------
(* The steps together.  Every step is a step of the abstract lookup or     *)
(* leaves its variables alone.                                             *)
LookupStep == [Lookup!Next]_<<outcome, total_reqs>>

LEMMA NextLookup ==
    ASSUME LookupInv, RecordsLive, [Next]_vars
    PROVE  LookupInv' /\ RecordsLive' /\ LookupStep
  <1>1. TypeOK /\ LeftOK /\ VisitOK /\ total_reqs \in Nat /\ InProcess \subseteq Targets
    <2>1. TypeOK /\ LeftOK /\ VisitOK
      BY DEF LookupInv
    <2> QED BY <2>1, ServFields DEF InProcess, TypeOK
  <1>2. ASSUME NEW r \in Targets, StillWaiting(r) PROVE LookupInv' /\ RecordsLive' /\ LookupStep
    <2>1. /\ visit' = visit \ {r}
          /\ UNCHANGED <<req, serv, new_reqs, records, total_reqs, deferred_reqs, progressiveId,
                         writes, wire, outcome, phase, at>>
      BY <1>2 DEF StillWaiting
    <2>2. TypeOK' /\ LeftOK' /\ VisitOK'
      BY <1>1, <2>1 DEF TypeOK, LeftOK, Pending, VisitOK
    <2> QED BY <2>1, <2>2, QuietLookup DEF LookupStep
  <1>3. ASSUME NEW r \in Targets, RetryServer(r) PROVE LookupInv' /\ RecordsLive' /\ LookupStep
    BY <1>3, RetryLookup DEF LookupStep, RetryServer
  <1>4. ASSUME NEW r \in Targets, MoveOn(r) PROVE LookupInv' /\ RecordsLive' /\ LookupStep
    BY <1>4, MoveOnLookup DEF LookupStep, Lookup!Next, Lookup!Verdicts
  <1>5. ASSUME EndTimeouts PROVE LookupInv' /\ RecordsLive' /\ LookupStep
    <2>1. /\ visit = {} /\ phase' = "writes" /\ at' = 1
          /\ UNCHANGED <<req, serv, new_reqs, records, total_reqs, deferred_reqs, progressiveId,
                         writes, wire, outcome, visit>>
      BY <1>5 DEF EndTimeouts
    <2>2. TypeOK' /\ LeftOK' /\ VisitOK'
      BY <1>1, <2>1, DnsAssumption DEF TypeOK, LeftOK, Pending, VisitOK
    <2> QED BY <2>1, <2>2, QuietLookup DEF LookupStep
  <1>6. ASSUME WriteQueued \/ WriteNew PROVE LookupInv' /\ RecordsLive' /\ LookupStep
    BY <1>6, WriteQueuedLookup, WriteNewLookup DEF LookupStep
  <1>7. ASSUME SkipServer PROVE LookupInv' /\ RecordsLive' /\ LookupStep
    <2>1. /\ at \in Servers /\ at' = at + 1
          /\ UNCHANGED <<req, serv, new_reqs, records, total_reqs, deferred_reqs, progressiveId,
                         writes, wire, outcome, phase, visit>>
      BY <1>7 DEF SkipServer
    <2>2. at' \in 1..(NumServers + 1)
      BY <2>1, DnsAssumption DEF Servers
    <2>3. TypeOK' /\ LeftOK' /\ VisitOK'
      BY <1>1, <2>1, <2>2 DEF TypeOK, LeftOK, Pending, VisitOK
    <2> QED BY <2>1, <2>3, QuietLookup DEF LookupStep
  <1>8. ASSUME EndWrites PROVE LookupInv' /\ RecordsLive' /\ LookupStep
    BY <1>8, EndWritesLookup DEF LookupStep
  <1>9. ASSUME NEW r \in writes, write_evt_handler(r) PROVE LookupInv' /\ RecordsLive' /\ LookupStep
    BY <1>9, WrittenLookup DEF LookupStep
  <1>10. ASSUME NEW q \in wire, PtrAnswer(q) \/ NxDomain(q) \/ SystemResolve(q)
         PROVE  LookupInv' /\ RecordsLive' /\ LookupStep
    <2>1. q.id \in Ids /\ records[q.id] # NoRecord /\ phase = "nsock"
      BY <1>1, <1>10 DEF TypeOK, PtrAnswer, NxDomain, SystemResolve, Known
    <2>2. PICK v \in {"name", "nx", "deferred"} : Finish(q.id, v)
      BY <1>10 DEF PtrAnswer, NxDomain, SystemResolve
    <2>3. LookupInv' /\ RecordsLive' /\ \E r \in Targets : Lookup!End(r, v)
      BY <2>1, <2>2, FinishLookup
    <2> QED BY <2>3 DEF LookupStep, Lookup!Next, Lookup!Verdicts
  <1>11. ASSUME NEW q \in wire, ServFail(q) PROVE LookupInv' /\ RecordsLive' /\ LookupStep
    <2>1. /\ req' = [req EXCEPT ![records[q.id].tpreq].due = TRUE]
          /\ phase' = "timeouts" /\ visit' = InProcess
          /\ UNCHANGED <<serv, new_reqs, records, total_reqs, deferred_reqs, progressiveId, writes,
                         wire, outcome, at>>
      BY <1>11 DEF ServFail
    <2>2. PICK x \in Targets : x = records[q.id].tpreq
      BY <1>1, <1>11 DEF ServFail, Known, TypeOK
    <2> req' = [req EXCEPT ![x].due = TRUE]
      BY <2>1, <2>2
    <2> req \in [Targets -> Request]
      BY <1>1 DEF TypeOK
    <2>3. /\ req' \in [Targets -> Request]
          /\ \A t \in Targets : /\ req'[t].curr_server = req[t].curr_server
                                /\ req'[t].first_server = req[t].first_server
                                /\ req'[t].tries = req[t].tries /\ req'[t].id = req[t].id
                                /\ req'[t].servers_tried = req[t].servers_tried
      BY DEF Request
    <2>4. TypeOK'
      BY <1>1, <2>1, <2>3 DEF TypeOK
    <2>5. LeftOK' /\ VisitOK'
      BY <1>1, <2>1 DEF LeftOK, Pending, VisitOK, InProcess
    <2> QED BY <2>1, <2>3, <2>4, <2>5, QuietLookup DEF LookupStep
  <1>12. ASSUME LoopTimeout PROVE LookupInv' /\ RecordsLive' /\ LookupStep
    <2>1. /\ phase' = "timeouts" /\ visit' = InProcess
          /\ UNCHANGED <<req, serv, new_reqs, records, total_reqs, deferred_reqs, progressiveId, writes,
                         wire, outcome, at>>
      BY <1>12 DEF LoopTimeout
    <2>2. TypeOK'
      BY <1>1, <2>1 DEF TypeOK
    <2>3. LeftOK' /\ VisitOK'
      BY <1>1, <2>1 DEF LeftOK, Pending, VisitOK, InProcess
    <2> QED BY <2>1, <2>2, <2>3, QuietLookup DEF LookupStep
  <1>13. ASSUME NEW r \in Targets, NEW v \in {"name", "noname"}, SystemDns(r, v)
         PROVE  LookupInv' /\ RecordsLive' /\ LookupStep
    <2>1. /\ phase = "deferred" /\ r \in deferred_reqs /\ deferred_reqs' = deferred_reqs \ {r}
          /\ outcome' = [outcome EXCEPT ![r] = v]
          /\ UNCHANGED <<req, serv, new_reqs, records, total_reqs, progressiveId, writes, wire,
                         phase, visit, at>>
      BY <1>13 DEF SystemDns
    <2>2. outcome[r] = "deferred" /\ total_reqs = 0 /\ outcome \in [Targets -> Outcomes]
      BY <1>1, <2>1 DEF LeftOK, TypeOK
    <2>3. /\ outcome' \in [Targets -> Outcomes] /\ Pending' = Pending
          /\ \A t \in Targets : outcome'[t] = "pending" <=> outcome[t] = "pending"
      BY <2>1, <2>2 DEF Outcomes, Pending
    <2>4. TypeOK'
      BY <1>1, <2>1, <2>3 DEF TypeOK
    <2>5. deferred_reqs' = {t \in Targets : outcome'[t] = "deferred"}
      BY <1>1, <2>1, <2>2 DEF LeftOK
    <2>6. LeftOK' /\ VisitOK'
      BY <1>1, <2>1, <2>2, <2>3, <2>5 DEF LeftOK, VisitOK
    <2>7. Lookup!EndDeferred(r, v)
      BY <2>1, <2>2 DEF Lookup!EndDeferred
    <2>8. LookupStep
      BY <2>7 DEF LookupStep, Lookup!Next, Lookup!SystemVerdicts
    <2> QED BY <2>1, <2>3, <2>4, <2>6, <2>8, QuietLookup
  <1>14. ASSUME EndDeferred PROVE LookupInv' /\ RecordsLive' /\ LookupStep
    <2>1. /\ phase = "deferred" /\ phase' = "done"
          /\ UNCHANGED <<req, serv, new_reqs, records, total_reqs, deferred_reqs, progressiveId,
                         writes, wire, outcome, visit, at>>
      BY <1>14 DEF EndDeferred
    <2>2. TypeOK' /\ LeftOK' /\ VisitOK'
      BY <1>1, <2>1 DEF TypeOK, LeftOK, Pending, VisitOK
    <2> QED BY <2>1, <2>2, QuietLookup DEF LookupStep
  <1>15. ASSUME UNCHANGED vars PROVE LookupInv' /\ RecordsLive' /\ LookupStep
    <2>1. UNCHANGED <<req, serv, new_reqs, records, total_reqs, deferred_reqs, progressiveId,
                      writes, wire, outcome, phase, visit, at>>
      BY <1>15 DEF vars
    <2>2. TypeOK' /\ LeftOK' /\ VisitOK'
      BY <1>1, <2>1 DEF TypeOK, LeftOK, Pending, VisitOK
    <2> QED BY <2>1, <2>2, QuietLookup DEF LookupStep
  <1> QED
    BY <1>2, <1>3, <1>4, <1>5, <1>6, <1>7, <1>8, <1>9, <1>10, <1>11, <1>12, <1>13, <1>14, <1>15
       DEF Next, Terminating

-----------------------------------------------------------------------------
LEMMA LookupInvariant == Spec => [](LookupInv /\ RecordsLive)
  <1>1. Init => LookupInv /\ RecordsLive
    BY InitLookup
  <1>2. (LookupInv /\ RecordsLive) /\ [Next]_vars => (LookupInv /\ RecordsLive)'
    BY NextLookup
  <1> QED BY <1>1, <1>2, PTL DEF Spec

(* For any batch and any number of servers, reqs_on_wire and write_busy,   *)
(* which put_dns_packet_on_wire, deal_with_timedout_reads, process_result  *)
(* and write_evt_handler keep by hand, are exact, and no server has more   *)
(* than CAPACITY_MAX requests on the wire.                                 *)
THEOREM WireCountsExact == Spec => []OnWireExact
  <1>1. LookupInv => OnWireExact
    BY DEF LookupInv
  <1> QED BY <1>1, LookupInvariant, PTL

(* For any batch and any number of servers, the loop of                    *)
(* nmap_mass_rdns_core() implements the abstract lookup: each address ends *)
(* once, total_reqs is the number that have not ended, and the system      *)
(* resolver is asked only when it is zero.                                 *)
THEOREM DnsRefinesLookup == Spec => ImplementsLookup
  <1>1. Init => Lookup!Init
    <2>1. Init => LeftOK
      BY InitLookup DEF LookupInv
    <2>2. Init => outcome \in [Targets -> {"pending", "cached", "down"}]
      BY DEF Init
    <2>3. Lookup!Pending = Pending
      BY DEF Pending, Lookup!Pending
    <2>4. \A S : Lookup!Cardinality(S) = Cardinality(S)
      BY DEF Cardinality, Lookup!Cardinality
    <2> QED BY <2>1, <2>2, <2>3, <2>4 DEF LeftOK, Lookup!Init
  <1>2. (LookupInv /\ RecordsLive) /\ [Next]_vars => [Lookup!Next]_(Lookup!vars)
    BY NextLookup DEF LookupStep, Lookup!vars
  <1> QED BY <1>1, <1>2, LookupInvariant, PTL DEF Spec, ImplementsLookup, Lookup!Spec

-----------------------------------------------------------------------------
(* Query ids.  A request may send TriesPerServer queries to each of at     *)
(* most SERVERS_TO_TRY servers; Used are the ones that were sent.  If the  *)
(* ids suffice for all, no two queries of the batch share one.  With the   *)
(* program's values, 2^16 ids and at most 9 queries for an address, that   *)
(* is a batch of up to 7281 addresses; PING_GROUP_SZ is 4096.              *)

IdsSuffice == NumTargets * (SERVERS_TO_TRY * TriesPerServer) <= IdSpace

Queries == Targets \X ((0..(SERVERS_TO_TRY - 1)) \X (1..TriesPerServer))
Used == {x \in Queries :
            \/ x[2][1] < req[x[1]].servers_tried
            \/ x[2][1] = req[x[1]].servers_tried /\ x[2][2] <= req[x[1]].tries}

\* The id of the query sent after k others.
Nth(k) == IF FirstId + k < IdSpace THEN FirstId + k ELSE FirstId + k - IdSpace

IdsInOrder ==
    /\ progressiveId = Nth(Cardinality(Used))
    /\ \A q \in wire : \E k \in 0..(Cardinality(Used) - 1) : q.id = Nth(k)
IdsDistinct == \A p, q \in wire : p.id = q.id => p = q
IdInv == IdsInOrder /\ IdsDistinct

\* However many ids there are, a request that was sent has its query on the wire, and a
\* request in process loses its record only to one that was sent with the same id.
IdsOnWire ==
    \A t \in Targets : t \in writes \/ t \in InProcess => [id |-> req[t].id, asks |-> t] \in wire
RecordsKept == \A r \in InProcess : ~IdShared(r) => records[req[r].id].tpreq = r

OwnInv == IdsOnWire /\ RecordsKept

\* What every step keeps.
IdsStep == OwnInv' /\ (IdsSuffice /\ IdInv => IdInv')

\* Every request in process is found by the id of its last query.
RecordsComplete == \A r \in InProcess : records[req[r].id].tpreq = r

LEMMA FiniteQueries ==
    /\ IsFiniteSet(Queries) /\ Cardinality(Queries) = NumTargets * (SERVERS_TO_TRY * TriesPerServer)
    /\ \A S \in SUBSET Queries : IsFiniteSet(S) /\ Cardinality(S) \in Nat /\ Cardinality(S) <= Cardinality(Queries)
  <1>1. IsFiniteSet(Targets) /\ Cardinality(Targets) = NumTargets
    BY DnsAssumption, FS_Interval DEF Targets
  <1> DEFINE A == 0..(SERVERS_TO_TRY - 1)
             B == 1..TriesPerServer
             P == A \X B
  <1>2. IsFiniteSet(A) /\ Cardinality(A) = SERVERS_TO_TRY
    BY DnsAssumption, FS_Interval
  <1>3. IsFiniteSet(B) /\ Cardinality(B) = TriesPerServer
    BY Tries, FS_Interval
  <1> HIDE DEF A, B
  <1>4. IsFiniteSet(P) /\ Cardinality(P) = SERVERS_TO_TRY * TriesPerServer
    BY <1>2, <1>3, FS_Product
  <1> HIDE DEF P
  <1>5. IsFiniteSet(Targets \X P) /\ Cardinality(Targets \X P) = NumTargets * (SERVERS_TO_TRY * TriesPerServer)
    BY <1>1, <1>4, FS_Product
  <1>6. Queries = Targets \X P
    BY DEF Queries, P, A, B
  <1>7. ASSUME NEW S \in SUBSET Queries
        PROVE  IsFiniteSet(S) /\ Cardinality(S) \in Nat /\ Cardinality(S) <= Cardinality(Queries)
    BY <1>5, <1>6, FS_Subset, FS_CardinalityType
  <1> QED BY <1>5, <1>6, <1>7

LEMMA QueryParts ==
    \A x \in Queries : x = <<x[1], <<x[2][1], x[2][2]>>>> /\ x[1] \in Targets
                       /\ x[2][1] \in 0..(SERVERS_TO_TRY - 1) /\ x[2][2] \in 1..TriesPerServer
  BY DEF Queries

LEMMA NthDistinct ==
    ASSUME NEW k \in Nat, NEW j \in Nat, k < j, j < IdSpace
    PROVE  Nth(k) # Nth(j) /\ Nth(j) \in Ids
  BY DnsAssumption DEF Nth, Ids

LEMMA NthNext ==
    ASSUME NEW k \in Nat, k < IdSpace
    PROVE  (Nth(k) + 1) % IdSpace = Nth(k + 1)
  <1>1. Nth(k) \in 0..(IdSpace - 1) /\ IdSpace \in Nat \ {0}
    BY DnsAssumption DEF Nth
  <1>2. CASE Nth(k) + 1 < IdSpace
    <2>1. (Nth(k) + 1) % IdSpace = Nth(k) + 1
      BY <1>1, <1>2
    <2>2. Nth(k + 1) = Nth(k) + 1
      BY <1>2, DnsAssumption DEF Nth
    <2> QED BY <2>1, <2>2
  <1>3. CASE Nth(k) + 1 = IdSpace
    <2>1. (Nth(k) + 1) % IdSpace = 0
      BY <1>1, <1>3
    <2>2. Nth(k + 1) = 0
      BY <1>3, DnsAssumption DEF Nth
    <2> QED BY <2>1, <2>2
  <1> QED BY <1>1, <1>2, <1>3

LEMMA UsedSame ==
    ASSUME \A t \in Targets : req'[t].tries = req[t].tries /\ req'[t].servers_tried = req[t].servers_tried
    PROVE  Used' = Used
  BY QueryParts DEF Used

LEMMA InitIds == Init => OwnInv /\ IdInv
  <1> SUFFICES ASSUME Init PROVE OwnInv /\ IdInv
    OBVIOUS
  <1>1. /\ wire = {} /\ writes = {} /\ progressiveId = FirstId
        /\ \A t \in Targets : req[t].tries = 0 /\ req[t].servers_tried = 0
        /\ InProcess = {}
    BY DEF Init, InProcess
  <1>2. Used = {}
    BY <1>1, QueryParts, Tries DEF Used
  <1>3. progressiveId = Nth(Cardinality(Used))
    <2>1. Cardinality(Used) = 0
      BY <1>2, FS_EmptySet
    <2> QED BY <1>1, <2>1, DnsAssumption DEF Nth
  <1> QED BY <1>1, <1>3 DEF OwnInv, IdInv, IdsInOrder, IdsDistinct, IdsOnWire, RecordsKept

\* Two requests on the wire with one id share it.
LEMMA IdsOwned ==
    ASSUME OwnInv, NEW t \in Targets, NEW r \in Targets, t # r,
           r \in writes \/ r \in InProcess, ~IdShared(t)
    PROVE  req[t].id # req[r].id
  <1> DEFINE q == [id |-> req[r].id, asks |-> r]
  <1>1. q \in wire /\ q.id = req[r].id /\ q.asks = r
    BY DEF OwnInv, IdsOnWire
  <1> QED BY <1>1 DEF IdShared

LEMMA TakenOffIds ==
    ASSUME LookupInv, OwnInv, NEW r \in Targets, NEW s, TakenOff(r, s),
           records' = [records EXCEPT ![req[r].id] = NoRecord],
           UNCHANGED <<progressiveId, wire>>, Used' = Used
    PROVE  IdsStep
  <1>1. TypeOK /\ req[r].id \in Ids /\ r \in InProcess /\ InProcess \subseteq Targets /\ writes \subseteq Targets
    <2>1. TypeOK
      BY DEF LookupInv
    <2> QED BY <2>1, ReqFields, ServFields, SMTT(30) DEF TakenOff, InProcess, TypeOK
  <1>2. InProcess' = InProcess \ {r} /\ r \notin writes /\ writes' = writes
    BY DEF InProcess, TakenOff, LookupInv, InProcessOK
  <1>3. IdInv => IdInv'
    BY DEF IdInv, IdsInOrder, IdsDistinct
  <1>4. IdsOnWire'
    BY <1>1, <1>2 DEF OwnInv, IdsOnWire, TakenOff
  <1>5. RecordsKept'
    <2> SUFFICES ASSUME NEW t \in InProcess', ~IdShared(t)' PROVE records'[req'[t].id].tpreq = t
      BY DEF RecordsKept
    <2>1. t \in InProcess /\ t # r /\ t \in Targets /\ req'[t] = req[t]
      BY <1>1, <1>2 DEF TakenOff
    <2>2. ~IdShared(t)
      BY <2>1 DEF IdShared
    <2>3. req[t].id # req[r].id
      BY <1>1, <2>1, <2>2, IdsOwned
    <2>4. req[t].id \in Ids /\ records \in [Ids -> [tpreq : Targets, server : Servers] \cup {NoRecord}]
      BY <1>1, <2>1, ReqFields DEF TypeOK
    <2>5. records'[req[t].id] = records[req[t].id]
      BY <2>3, <2>4
    <2> QED BY <2>1, <2>2, <2>5 DEF OwnInv, RecordsKept
  <1> QED BY <1>3, <1>4, <1>5 DEF IdsStep, OwnInv

\* A query takes the next id, which no earlier one has if the ids suffice.
LEMMA PutInOrder ==
    ASSUME IdsSuffice, LookupInv, IdInv, NEW r, NEW s, Put(r, s), TakesId(r)
    PROVE  IdInv'
  <1> DEFINE n == Cardinality(Used)
             x == <<r, <<req[r].servers_tried, req[r].tries + 1>>>>
  <1>1. TypeOK /\ r \in Targets /\ r \notin InProcess /\ InProcess \subseteq Targets /\ writes \subseteq Targets
    <2>1. TypeOK
      BY DEF LookupInv
    <2> QED BY <2>1, ServFields, SMTT(30) DEF Put, InProcess, TypeOK
  <1>2. /\ req[r].tries \in Nat /\ req[r].servers_tried \in Nat
        /\ req[r].tries < TriesPerServer /\ req[r].servers_tried < SERVERS_TO_TRY
        /\ req'[r].tries = req[r].tries + 1 /\ req'[r].servers_tried = req[r].servers_tried
        /\ \A t \in Targets : t # r => req'[t] = req[t]
    BY <1>1, ReqFields, Tries, DnsAssumption DEF TakesId, Put
  <1>3. x \in Queries /\ x \notin Used
    BY <1>1, <1>2, Tries, DnsAssumption DEF Queries, Used
  <1>4. Used' = Used \cup {x}
    <2> SUFFICES ASSUME NEW y \in Queries PROVE y \in Used' <=> y \in Used \/ y = x
      BY <1>3 DEF Used
    <2>1. y = <<y[1], <<y[2][1], y[2][2]>>>> /\ y[1] \in Targets
          /\ y[2][1] \in 0..(SERVERS_TO_TRY - 1) /\ y[2][2] \in 1..TriesPerServer
      BY QueryParts
    <2>2. CASE y[1] # r
      <3>1. y # x
        BY <2>2
      <3>2. y \in Used' <=> y \in Used
        BY <1>2, <2>1, <2>2 DEF Used
      <3> QED BY <3>1, <3>2
    <2>3. CASE y[1] = r
      <3>1. y \in Used <=> \/ y[2][1] < req[r].servers_tried
                           \/ y[2][1] = req[r].servers_tried /\ y[2][2] <= req[r].tries
        BY <2>3 DEF Used
      <3>2. y \in Used' <=> \/ y[2][1] < req[r].servers_tried
                            \/ y[2][1] = req[r].servers_tried /\ y[2][2] <= req[r].tries + 1
        BY <1>2, <2>3 DEF Used
      <3>3. y = x <=> y[2][1] = req[r].servers_tried /\ y[2][2] = req[r].tries + 1
        BY <2>1, <2>3
      <3> HIDE DEF x
      <3> QED BY <1>2, <2>1, <3>1, <3>2, <3>3, Tries
    <2> QED BY <2>2, <2>3
  <1>5. n \in Nat /\ Cardinality(Used') = n + 1 /\ n < IdSpace
    <2> HIDE DEF x
    <2>1. Used \in SUBSET Queries /\ Used' \in SUBSET Queries
      BY <1>3, <1>4 DEF Used
    <2>2. IsFiniteSet(Used) /\ n \in Nat /\ Cardinality(Used') \in Nat /\ Cardinality(Used') <= Cardinality(Queries)
      BY <2>1, FiniteQueries
    <2>3. Cardinality(Used \cup {x}) = n + 1
      BY <1>3, <2>2, FS_AddElement
    <2>4. Cardinality(Queries) <= IdSpace /\ Cardinality(Queries) \in Nat
      BY FiniteQueries, FS_CardinalityType DEF IdsSuffice
    <2> QED BY <1>4, <2>2, <2>3, <2>4, DnsAssumption
  <1> HIDE DEF x
  <1>6. /\ progressiveId = Nth(n) /\ progressiveId' = Nth(n + 1)
        /\ wire' = wire \cup {[id |-> Nth(n), asks |-> r]} /\ req'[r].id = Nth(n)
    BY <1>5, NthNext DEF IdInv, IdsInOrder, TakesId
  <1>7. \A q \in wire : \E k \in 0..(n - 1) : q.id = Nth(k)
    BY DEF IdInv, IdsInOrder
  <1> HIDE DEF n
  <1>8. \A q \in wire : q.id # Nth(n)
    BY <1>5, <1>7, NthDistinct
  <1>9. IdsInOrder'
    <2> SUFFICES ASSUME NEW q \in wire' PROVE \E k \in 0..n : q.id = Nth(k)
      BY <1>5, <1>6 DEF IdsInOrder
    <2>1. CASE q \in wire
      BY <1>5, <1>7, <2>1
    <2>2. CASE q \notin wire
      BY <1>5, <1>6, <2>2
    <2> QED BY <2>1, <2>2
  <1>10. IdsDistinct'
    <2>1. [id |-> Nth(n), asks |-> r].id = Nth(n)
      OBVIOUS
    <2> QED BY <1>6, <1>8, <2>1 DEF IdInv, IdsDistinct
  <1> QED BY <1>9, <1>10 DEF IdInv

LEMMA PutIds ==
    ASSUME LookupInv, OwnInv, NEW r, NEW s, Put(r, s), TakesId(r)
    PROVE  IdsStep
  <1>1. TypeOK /\ r \in Targets /\ r \notin InProcess /\ InProcess \subseteq Targets /\ writes \subseteq Targets
    <2>1. TypeOK
      BY DEF LookupInv
    <2> QED BY <2>1, ServFields, SMTT(30) DEF Put, InProcess, TypeOK
  <1>2. /\ \A t \in Targets : t # r => req'[t] = req[t]
        /\ wire \subseteq wire' /\ [id |-> req'[r].id, asks |-> r] \in wire'
    BY <1>1 DEF TakesId, Put
  <1>3. InProcess' = InProcess /\ writes' = writes \cup {r} /\ records' = records
    BY DEF InProcess, Put
  <1>4. IdsOnWire'
    BY <1>1, <1>2, <1>3 DEF OwnInv, IdsOnWire
  <1>5. RecordsKept'
    <2> SUFFICES ASSUME NEW t \in InProcess, ~IdShared(t)' PROVE records[req'[t].id].tpreq = t
      BY <1>3 DEF RecordsKept
    <2>1. req'[t] = req[t]
      BY <1>1, <1>2
    <2>2. ~IdShared(t)
      BY <1>2, <2>1 DEF IdShared
    <2> QED BY <2>1, <2>2 DEF OwnInv, RecordsKept
  <1>6. IdsSuffice /\ IdInv => IdInv'
    BY PutInOrder
  <1> QED BY <1>4, <1>5, <1>6 DEF IdsStep, OwnInv

LEMMA WrittenIds ==
    ASSUME LookupInv, RecordsLive, OwnInv, NEW r \in writes, write_evt_handler(r)
    PROVE  IdsStep
  <1>1. /\ InProcess' = InProcess \cup {r}
        /\ records' = [records EXCEPT ![req[r].id] = [tpreq |-> r, server |-> req[r].curr_server]]
    BY WrittenLookup
  <1>2. UNCHANGED <<req, progressiveId, wire>> /\ writes' = writes \ {r}
    BY DEF write_evt_handler
  <1>3. TypeOK /\ r \in Targets /\ InProcess \subseteq Targets /\ req[r].id \in Ids
    <2>1. TypeOK /\ r \in Targets
      BY DEF LookupInv, TypeOK
    <2> QED BY <2>1, ServFields, ReqFields DEF InProcess
  <1>4. Used' = Used
    BY <1>2, UsedSame
  <1>5. IdInv => IdInv'
    BY <1>2, <1>4 DEF IdInv, IdsInOrder, IdsDistinct
  <1>6. IdsOnWire'
    BY <1>1, <1>2 DEF OwnInv, IdsOnWire
  <1>7. RecordsKept'
    <2> SUFFICES ASSUME NEW t \in InProcess', ~IdShared(t) PROVE records'[req[t].id].tpreq = t
      BY <1>2 DEF RecordsKept, IdShared
    <2>1. t \in Targets /\ req[t].id \in Ids /\ records \in [Ids -> [tpreq : Targets, server : Servers] \cup {NoRecord}]
      BY <1>1, <1>3, ReqFields DEF TypeOK
    <2>2. CASE t = r
      BY <1>1, <2>1, <2>2
    <2>3. CASE t # r
      <3>1. t \in InProcess
        BY <1>1, <2>3
      <3>2. req[t].id # req[r].id
        BY <1>3, <2>1, <2>3, IdsOwned
      <3>3. records'[req[t].id] = records[req[t].id]
        BY <1>1, <2>1, <3>2
      <3> QED BY <3>1, <3>3 DEF OwnInv, RecordsKept
    <2> QED BY <2>2, <2>3
  <1> QED BY <1>5, <1>6, <1>7 DEF IdsStep, OwnInv

\* Steps that leave the requests and the records where they are.
LEMMA QuietIds ==
    ASSUME LookupInv, OwnInv,
           \A t \in Targets : /\ req'[t].tries = req[t].tries /\ req'[t].id = req[t].id
                              /\ req'[t].servers_tried = req[t].servers_tried,
           UNCHANGED <<records, wire, progressiveId>>, writes' \subseteq writes,
           \A s \in Servers : serv'[s].in_process \subseteq serv[s].in_process
    PROVE  IdsStep
  <1>1. InProcess' \subseteq InProcess
    BY DEF InProcess
  <1>2. InProcess \subseteq Targets
    BY ServFields DEF InProcess, LookupInv
  <1>3. Used' = Used
    BY UsedSame
  <1>4. IdInv => IdInv'
    BY <1>3 DEF IdInv, IdsInOrder, IdsDistinct
  <1>5. IdsOnWire'
    BY <1>1 DEF OwnInv, IdsOnWire
  <1>6. RecordsKept'
    BY <1>1, <1>2 DEF OwnInv, RecordsKept, IdShared
  <1> QED BY <1>4, <1>5, <1>6 DEF IdsStep, OwnInv

LEMMA NextIds ==
    ASSUME LookupInv, RecordsLive, OwnInv, [Next]_vars
    PROVE  IdsStep
  <1>1. TypeOK /\ req \in [Targets -> Request] /\ records \in [Ids -> [tpreq : Targets, server : Servers] \cup {NoRecord}]
    BY DEF LookupInv, TypeOK
  <1>2. ASSUME NEW r \in Targets, RetryServer(r) PROVE IdsStep
    <2>1. PICK s : TakenOff(r, s)
      BY <1>2, RetryLookup
    <2>2. /\ req' = [req EXCEPT ![r].due = FALSE]
          /\ records' = [records EXCEPT ![req[r].id] = NoRecord] /\ UNCHANGED <<progressiveId, wire>>
      BY <1>2 DEF RetryServer, Forget
    <2>3. \A t \in Targets : req'[t].tries = req[t].tries /\ req'[t].servers_tried = req[t].servers_tried
      BY <1>1, <2>2 DEF Request
    <2>4. Used' = Used
      BY <2>3, UsedSame
    <2> QED BY <2>1, <2>2, <2>4, TakenOffIds
  <1>3. ASSUME NEW r \in Targets, MoveOn(r) PROVE IdsStep
    <2>1. PICK s : TakenOff(r, s)
      BY <1>3, MoveOnLookup
    <2>2. PICK n : req' = [req EXCEPT ![r].curr_server = n, ![r].tries = 0,
                                      ![r].servers_tried = @ + 1, ![r].due = FALSE]
      BY <1>3 DEF MoveOn
    <2>3. /\ req[r].tries = TriesPerServer
          /\ records' = [records EXCEPT ![req[r].id] = NoRecord] /\ UNCHANGED <<progressiveId, wire>>
      BY <1>3 DEF MoveOn, Forget
    <2>4. /\ req'[r].tries = 0 /\ req'[r].servers_tried = req[r].servers_tried + 1
          /\ \A t \in Targets : t # r => req'[t] = req[t]
      BY <1>1, <2>2 DEF Request
    <2>5. req[r].servers_tried \in Nat
      BY <1>1, ReqFields, DnsAssumption
    <2>6. Used' = Used
      <3> SUFFICES ASSUME NEW y \in Queries PROVE y \in Used' <=> y \in Used
        BY DEF Used
      <3>1. y[1] \in Targets /\ y[2][1] \in Nat /\ y[2][2] \in 1..TriesPerServer
        BY QueryParts, DnsAssumption
      <3>2. CASE y[1] # r
        BY <2>4, <3>1, <3>2 DEF Used
      <3>3. CASE y[1] = r
        <4>1. y \in Used <=> \/ y[2][1] < req[r].servers_tried
                             \/ y[2][1] = req[r].servers_tried /\ y[2][2] <= req[r].tries
          BY <3>3 DEF Used
        <4>2. y \in Used' <=> \/ y[2][1] < req[r].servers_tried + 1
                              \/ y[2][1] = req[r].servers_tried + 1 /\ y[2][2] <= 0
          BY <2>4, <3>3 DEF Used
        <4> QED BY <2>3, <2>5, <3>1, <4>1, <4>2, Tries
      <3> QED BY <3>2, <3>3
    <2> QED BY <2>1, <2>3, <2>6, TakenOffIds
  <1>4. ASSUME WriteQueued \/ WriteNew PROVE IdsStep
    <2>1. PICK r, s : Put(r, s) /\ TakesId(r)
      BY <1>4, WriteQueuedLookup, WriteNewLookup
    <2> QED BY <2>1, PutIds
  <1>5. ASSUME NEW r \in writes, write_evt_handler(r) PROVE IdsStep
    BY <1>5, WrittenIds
  <1>6. ASSUME NEW q \in wire, PtrAnswer(q) \/ NxDomain(q) \/ SystemResolve(q) PROVE IdsStep
    <2>1. q.id \in Ids /\ records[q.id] # NoRecord /\ phase = "nsock"
      BY <1>6 DEF LookupInv, TypeOK, PtrAnswer, NxDomain, SystemResolve, Known
    <2>2. PICK v \in {"name", "nx", "deferred"} : Finish(q.id, v)
      BY <1>6 DEF PtrAnswer, NxDomain, SystemResolve
    <2>3. PICK r \in Targets : r = records[q.id].tpreq
      BY <2>1, <2>2, FinishLookup
    <2>4. PICK s : TakenOff(r, s)
      BY <2>1, <2>2, <2>3, FinishLookup
    <2>5. req[r].id = q.id
      BY <2>1, <2>2, <2>3, FinishLookup
    <2>6. records' = [records EXCEPT ![q.id] = NoRecord] /\ UNCHANGED <<req, progressiveId, wire>>
      BY <2>2 DEF Finish, Forget
    <2>7. Used' = Used
      BY <2>6, UsedSame
    <2> QED BY <2>4, <2>5, <2>6, <2>7, TakenOffIds
  <1>7. ASSUME NEW q \in wire, ServFail(q) PROVE IdsStep
    <2>1. PICK x \in Targets : x = records[q.id].tpreq
      BY <1>1, <1>7 DEF ServFail, Known, LookupInv, TypeOK
    <2>2. req' = [req EXCEPT ![x].due = TRUE] /\ UNCHANGED <<serv, records, progressiveId, writes, wire>>
      BY <1>7, <2>1 DEF ServFail
    <2>3. \A t \in Targets : /\ req'[t].tries = req[t].tries /\ req'[t].id = req[t].id
                             /\ req'[t].servers_tried = req[t].servers_tried
      BY <1>1, <2>2 DEF Request
    <2> QED BY <2>2, <2>3, QuietIds
  <1>8. ASSUME EndWrites PROVE IdsStep
    <2>1. UNCHANGED <<req, records, progressiveId, wire>>
      BY <1>8 DEF EndWrites
    <2>2. writes' \subseteq writes /\ \A s \in Servers : serv'[s].in_process \subseteq serv[s].in_process
      <3>1. CASE UNCHANGED <<serv, writes>>
        BY <3>1
      <3>2. CASE serv' = [s \in Servers |-> [serv[s] EXCEPT !.connected = FALSE,
                                    !.to_process = <<>>, !.in_process = {}]] /\ writes' = {}
        <4>1. \A s \in Servers : serv'[s].in_process = {}
          BY <1>1, <3>2 DEF TypeOK, Server
        <4> QED BY <3>2, <4>1
      <3> QED BY <1>8, <3>1, <3>2, Zenon DEF EndWrites
    <2> QED BY <2>1, <2>2, QuietIds
  <1>9. ASSUME UNCHANGED <<req, serv, records, progressiveId, writes, wire>> PROVE IdsStep
    BY <1>9, QuietIds
  <1>10. ASSUME NEW r \in Targets, StillWaiting(r) PROVE IdsStep
    BY <1>9, <1>10 DEF StillWaiting
  <1>11. ASSUME NEW r \in Targets, NEW v, SystemDns(r, v) PROVE IdsStep
    BY <1>9, <1>11 DEF SystemDns
  <1>12. ASSUME EndTimeouts \/ SkipServer \/ LoopTimeout \/ EndDeferred \/ UNCHANGED vars PROVE IdsStep
    BY <1>9, <1>12 DEF EndTimeouts, SkipServer, LoopTimeout, EndDeferred, vars
  <1> QED
    BY <1>2, <1>3, <1>4, <1>5, <1>6, <1>7, <1>8, <1>10, <1>11, <1>12 DEF Next, Terminating

LEMMA IdsInvariant == Spec => [](OwnInv /\ (IdsSuffice => IdInv))
  <1> DEFINE I == LookupInv /\ RecordsLive /\ OwnInv /\ (IdsSuffice => IdInv)
  <1>1. Init => I
    BY InitLookup, InitIds
  <1>2. I /\ [Next]_vars => I'
    <2> SUFFICES ASSUME I, [Next]_vars PROVE I'
      OBVIOUS
    <2>1. LookupInv' /\ RecordsLive'
      BY NextLookup
    <2>2. OwnInv' /\ (IdsSuffice /\ IdInv => IdInv')
      BY NextIds DEF IdsStep
    <2> QED BY <2>1, <2>2
  <1>3. I => OwnInv /\ (IdsSuffice => IdInv)
    OBVIOUS
  <1> QED BY <1>1, <1>2, <1>3, PTL DEF Spec

(* For any batch and any number of servers and ids, also when ids wrap to  *)
(* queries that are still outstanding, the map from ids to requests, which *)
(* write_evt_handler fills and process_result and deal_with_timedout_reads *)
(* clear, leads only to requests in process, by the ids of their last      *)
(* queries: an answer to an earlier try cannot end a request.  And it      *)
(* leads to each of them whose id was not also sent for another address.   *)
THEOREM RecordsExact == Spec => []RecordsMatch
  <1>1. RecordsLive /\ OwnInv => RecordsMatch
    BY DEF RecordsLive, OwnInv, RecordsKept, RecordsMatch
  <1> QED BY <1>1, LookupInvariant, IdsInvariant, PTL

(* For any batch for which the query ids suffice, no id is shared: the     *)
(* answer to the last query of a request in process finds its request.     *)
THEOREM AnswersFindRequests ==
    ASSUME IdsSuffice
    PROVE  Spec => []RecordsComplete
  <1>1. LookupInv /\ OwnInv /\ IdInv => RecordsComplete
    <2> SUFFICES ASSUME LookupInv, OwnInv, IdInv, NEW r \in InProcess
                 PROVE  records[req[r].id].tpreq = r
      BY DEF RecordsComplete
    <2> DEFINE own == [id |-> req[r].id, asks |-> r]
    <2>1. r \in Targets
      BY ServFields DEF InProcess, LookupInv
    <2>2. own \in wire /\ own.id = req[r].id /\ own.asks = r
      BY <2>1 DEF OwnInv, IdsOnWire
    <2>3. ~IdShared(r)
      BY <2>2 DEF IdShared, IdInv, IdsDistinct
    <2> QED BY <2>3 DEF OwnInv, RecordsKept
  <1> QED BY <1>1, LookupInvariant, IdsInvariant, PTL
=============================================================================
