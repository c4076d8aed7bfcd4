------------------------ MODULE ScanProgress_proofs ------------------------
(***************************************************************************)
(* What a scan makes of its ports.  The tries of a port are numbered one   *)
(* after the other, its state is the best of its answers, and until it has *)
(* been answered or tried often enough it stays in some place from which   *)
(* it will be tried again; so a host whose probes are all accounted for    *)
(* and gone leaves no port behind.  The group's counters are the sums of   *)
(* its hosts' lists.                                                       *)
(***************************************************************************)
EXTENDS UltraScan_proofs

\* What answers can mean in this scan.
Answerable == IF ConnectScan THEN {"open", "closed", "filtered"} ELSE Responses

\* "unfiltered" is the answer of an ACK scan, which gives no other but "filtered".
Comparable == "unfiltered" \in Answerable => ~NorespOpen /\ "closed" \notin Answerable

\* Every port has the best state its answers gave it.
Told(s) == \A q \in Ports :
    /\ s.seen[q] \subseteq Answerable
    /\ IF s.seen[q] = {} THEN s.port_state[q] = "default"
       ELSE /\ s.port_state[q] \in s.seen[q]
            /\ \A r \in s.seen[q] : Rank(r) <= Rank(s.port_state[q])

\* Every listed, benched or stacked port carries the number of its last try; probes
\* with the key of one in X are exempt (retransmitProbe's old probe).
Numbered(s, X) ==
    /\ \A q \in s.fresh : s.tries[q] = 0
    /\ \A p \in s.probes_outstanding : p.pingseq = 0 =>
          /\ p.tryno < s.tries[p.port]
          /\ \/ p.retransmitted \/ p.tryno = s.tries[p.port] - 1
             \/ \E x \in X : SameKey(x, p)
    /\ \A i \in DOMAIN s.probe_bench : s.tries[s.probe_bench[i]] = s.bench_tryno + 1
    /\ \A i \in DOMAIN s.retry_stack :
          s.tries[s.retry_stack[i].port] = s.retry_stack[i].tries + 1

\* A port that has not been tried is fresh, but for those in Y (between the choice of
\* a port and the send).
Untried(s, Y) == \A q \in Ports \ Y : s.tries[q] = 0 => q \in s.fresh

\* The tries a silent port gets at least.
Enough == IF TrynoCap = 0 THEN 1 ELSE 2

\* Nothing more needs to be asked of port q.
Decided(s, q) ==
    IF PingScan THEN s.flags # "unknown" ELSE s.seen[q] # {} \/ s.tries[q] >= Enough

\* A probe from which a port will be tried again.
Holds(p) == p.pingseq = 0 /\ ~p.retransmitted

Held(s, q) ==
    \/ q \in s.fresh
    \/ \E p \in s.probes_outstanding : p.port = q /\ Holds(p)
    \/ \E i \in DOMAIN s.probe_bench : s.probe_bench[i] = q
    \/ \E i \in DOMAIN s.retry_stack : s.retry_stack[i].port = q

Covered(s, Y) == \A q \in Ports \ Y : Decided(s, q) \/ Held(s, q)

\* The try numbers on the retry stack ascend, and the bench is above them.
Sorted(s) == \A i, j \in DOMAIN s.retry_stack :
    i < j => s.retry_stack[i].tries <= s.retry_stack[j].tries

BenchAbove(s) == s.probe_bench # <<>> =>
    \A i \in DOMAIN s.retry_stack : s.retry_stack[i].tries < s.bench_tryno

\* A connect() that fails at once in a way the code does not expect destroys its
\* probe and tells nothing of the port (handleConnectResult's default case), and so
\* does a refused one that --discovery-ignore-rst ignores.
Tracked == ConnectScan /\ ImmediateConnect =>
    "strange" \notin Errnos /\ ~(PingScan /\ DiscoveryIgnoreRst /\ "refused" \in Errnos)

Journal(s, X, Y) ==
    /\ Numbered(s, X) /\ Untried(s, Y) /\ Sorted(s) /\ BenchAbove(s)
    /\ Tracked => Covered(s, Y)
    /\ Comparable => Told(s)

-----------------------------------------------------------------------------
(* What an answer or a timeout leaves of the history.                       *)

\* What is decided stays decided.
Later(s, t) ==
    /\ s.timedOut => t.timedOut
    /\ \A q \in Ports : Decided(s, q) => Decided(t, q)

\* Nothing was sent; answers may have come.
Hears(s, t) ==
    /\ t.tries = s.tries /\ t.timedOut = s.timedOut
    /\ \A q \in Ports : s.seen[q] # {} => t.seen[q] # {}
    /\ s.flags # "unknown" => t.flags # "unknown"
    /\ Comparable /\ Told(s) => Told(t)

\* Every listed probe was listed before, and one that held its port is still there
\* unless the port is decided.
Passes(s, t) ==
    /\ \A p \in t.probes_outstanding : \E o \in s.probes_outstanding :
          SameKey(o, p) /\ (o.retransmitted => p.retransmitted)
    /\ Tracked => \A o \in s.probes_outstanding : Holds(o) =>
          \/ Decided(t, o.port)
          \/ \E p \in t.probes_outstanding : SameKey(o, p) /\ Holds(p)

\* The group's counts without this host's share.
OtherActive(u) == u.g.num_probes_active - u.hss.num_probes_active
OtherSockets(u) == u.g.numSDs - Cardinality(Watched(u.hss.probes_outstanding))

Balanced(u, v) == OtherActive(v) = OtherActive(u) /\ OtherSockets(v) = OtherSockets(u)

Follows(u, v) ==
    /\ u.hss \in HostScanStats /\ v.hss \in HostScanStats
    /\ Kept(u.hss, v.hss) /\ Hears(u.hss, v.hss) /\ Passes(u.hss, v.hss)
    /\ Balanced(u, v)

\* Hearing undecides nothing.
LEMMA HearsLater ==
    ASSUME NEW s, NEW t, Hears(s, t)
    PROVE  Later(s, t)
  BY DEF Hears, Later, Decided

\* A view follows itself.
LEMMA FollowsSelf ==
    ASSUME NEW u, u.hss \in HostScanStats
    PROVE  Follows(u, u)
  <1>1. u.hss.max_successful_tryno \in Int
    BY HostFields
  <1>2. Kept(u.hss, u.hss)
    BY <1>1 DEF Kept
  <1>3. Hears(u.hss, u.hss)
    BY DEF Hears
  <1>4. Passes(u.hss, u.hss)
    BY DEF Passes, SameKey
  <1> QED BY <1>2, <1>3, <1>4 DEF Follows, Balanced

\* One step after the other.
LEMMA FollowsTrans ==
    ASSUME NEW u, NEW v, NEW w, Follows(u, v), Follows(v, w)
    PROVE  Follows(u, w)
  <1> DEFINE r == u.hss
             s == v.hss
             t == w.hss
  <1>0. /\ r \in HostScanStats /\ s \in HostScanStats /\ t \in HostScanStats
        /\ Kept(r, s) /\ Hears(r, s) /\ Passes(r, s)
        /\ Kept(s, t) /\ Hears(s, t) /\ Passes(s, t)
        /\ Balanced(u, v) /\ Balanced(v, w)
    BY DEF Follows
  <1> HIDE DEF r, s, t
  <1>1. Kept(r, t)
    <2>1. /\ r.max_successful_tryno \in Int /\ s.max_successful_tryno \in Int
          /\ t.max_successful_tryno \in Int
      BY <1>0, HostFields
    <2> QED BY <1>0, <2>1 DEF Kept
  <1>2. Hears(r, t)
    BY <1>0 DEF Hears
  <1>3. Later(s, t)
    BY <1>0, HearsLater
  <1>4. \A p \in r.probes_outstanding : p.port \in Ports
    BY <1>0, BookTypes
  <1>5. ASSUME NEW p \in t.probes_outstanding
        PROVE  \E o \in r.probes_outstanding :
                 SameKey(o, p) /\ (o.retransmitted => p.retransmitted)
    <2>1. PICK m \in s.probes_outstanding :
            SameKey(m, p) /\ (m.retransmitted => p.retransmitted)
      BY <1>0 DEF Passes
    <2>2. PICK o \in r.probes_outstanding :
            SameKey(o, m) /\ (o.retransmitted => m.retransmitted)
      BY <1>0 DEF Passes
    <2> QED BY <2>1, <2>2 DEF SameKey
  <1>6. ASSUME Tracked, NEW o \in r.probes_outstanding, Holds(o), ~Decided(t, o.port)
        PROVE  \E p \in t.probes_outstanding : SameKey(o, p) /\ Holds(p)
    <2>1. ~Decided(s, o.port)
      BY <1>3, <1>4, <1>6 DEF Later
    <2>2. PICK m \in s.probes_outstanding : SameKey(o, m) /\ Holds(m)
      BY <1>0, <1>6, <2>1 DEF Passes
    <2>3. PICK p \in t.probes_outstanding : SameKey(m, p) /\ Holds(p)
      BY <1>0, <1>6, <2>2 DEF Passes, SameKey
    <2> QED BY <2>2, <2>3 DEF SameKey
  <1>7. Passes(r, t)
    BY <1>5, <1>6 DEF Passes
  <1>8. Balanced(u, w)
    BY <1>0 DEF Balanced
  <1> QED BY <1>0, <1>1, <1>2, <1>7, <1>8 DEF Follows, r, t

\* An answer or a timeout leaves the journal right.
LEMMA FollowsJournal ==
    ASSUME NEW u, NEW v, Follows(u, v), NEW X, NEW Y, Journal(u.hss, X, Y)
    PROVE  Journal(v.hss, X, Y) /\ Later(u.hss, v.hss)
  <1> DEFINE s == u.hss
             t == v.hss
  <1>0. /\ s \in HostScanStats /\ t \in HostScanStats
        /\ Kept(s, t) /\ Hears(s, t) /\ Passes(s, t) /\ Journal(s, X, Y)
    BY DEF Follows
  <1> HIDE DEF s, t
  <1>1. Later(s, t)
    BY <1>0, HearsLater
  <1>2. /\ t.fresh = s.fresh /\ t.probe_bench = s.probe_bench
        /\ t.bench_tryno = s.bench_tryno /\ t.retry_stack = s.retry_stack
        /\ t.tries = s.tries
    BY <1>0 DEF Kept, Hears
  <1>3. ASSUME NEW p \in t.probes_outstanding, p.pingseq = 0
        PROVE  /\ p.tryno < t.tries[p.port]
               /\ \/ p.retransmitted \/ p.tryno = t.tries[p.port] - 1
                  \/ \E x \in X : SameKey(x, p)
    <2>1. PICK o \in s.probes_outstanding : SameKey(o, p) /\ (o.retransmitted => p.retransmitted)
      BY <1>0 DEF Passes
    <2>2. o.pingseq = 0 /\ o.port = p.port /\ o.tryno = p.tryno
      BY <1>3, <2>1 DEF SameKey
    <2>3. /\ o.tryno < s.tries[o.port]
          /\ \/ o.retransmitted \/ o.tryno = s.tries[o.port] - 1
             \/ \E x \in X : SameKey(x, o)
      BY <1>0, <2>2 DEF Journal, Numbered
    <2>4. \A x \in X : SameKey(x, o) => SameKey(x, p)
      BY <2>1 DEF SameKey
    <2> QED BY <1>2, <2>1, <2>2, <2>3, <2>4
  <1>4. Numbered(t, X) /\ Untried(t, Y) /\ Sorted(t) /\ BenchAbove(t)
    BY <1>0, <1>2, <1>3 DEF Journal, Numbered, Untried, Sorted, BenchAbove
  <1>5. ASSUME Tracked, NEW q \in Ports \ Y, ~Decided(t, q)
        PROVE  Held(t, q)
    <2>1. ~Decided(s, q)
      BY <1>1, <1>5 DEF Later
    <2>2. Held(s, q)
      BY <1>0, <1>5, <2>1 DEF Journal, Covered
    <2>3. ASSUME NEW o \in s.probes_outstanding, o.port = q, Holds(o)
          PROVE  \E p \in t.probes_outstanding : p.port = q /\ Holds(p)
      BY <1>0, <1>5, <2>3 DEF Passes, SameKey
    <2> QED BY <1>2, <2>2, <2>3 DEF Held
  <1>6. Tracked => Covered(t, Y)
    BY <1>5 DEF Covered
  <1>7. Comparable => Told(t)
    BY <1>0 DEF Journal, Hears
  <1> QED BY <1>1, <1>4, <1>6, <1>7 DEF Journal, s, t

-----------------------------------------------------------------------------
(* The answers and timeouts of HostScanStats, one by one.                   *)

\* Taking a probe off the list closes its socket; adding one may open one.
LEMMA WatchedRemove ==
    ASSUME NEW P, IsFiniteSet(P), NEW p \in P
    PROVE  /\ Cardinality(Watched(P \ {p})) = Cardinality(Watched(P)) - One(p.sd # "none")
           /\ IsFiniteSet(Watched(P)) /\ Cardinality(Watched(P)) \in Nat
  <1> DEFINE W == Watched(P)
  <1>1. Watched(P \ {p}) = W \ {p} /\ (p \in W <=> p.sd # "none") /\ W \in SUBSET P
    BY DEF Watched
  <1>2. IsFiniteSet(W) /\ Cardinality(W) \in Nat
    BY <1>1, FS_Subset, FS_CardinalityType
  <1> HIDE DEF W
  <1>3. Cardinality(W \ {p}) = IF p \in W THEN Cardinality(W) - 1 ELSE Cardinality(W)
    BY <1>2, FS_RemoveElement
  <1>4. Cardinality(W \ {p}) = Cardinality(W) - One(p.sd # "none")
    BY <1>1, <1>2, <1>3 DEF One
  <1> QED BY <1>1, <1>2, <1>4 DEF W

\* A probe added to a list, and the sockets it watches.
LEMMA WatchedAdd ==
    ASSUME NEW P, IsFiniteSet(P), NEW p, p \notin P
    PROVE  /\ Cardinality(Watched(P \cup {p})) = Cardinality(Watched(P)) + One(p.sd # "none")
           /\ Cardinality(Watched(P)) \in Nat
  <1> DEFINE W == Watched(P)
  <1>1. /\ Watched(P \cup {p}) = (IF p.sd # "none" THEN W \cup {p} ELSE W)
        /\ p \notin W /\ W \in SUBSET P
    BY DEF Watched
  <1>2. IsFiniteSet(W) /\ Cardinality(W) \in Nat
    BY <1>1, FS_Subset, FS_CardinalityType
  <1> HIDE DEF W
  <1>3. Cardinality(W \cup {p}) = Cardinality(W) + 1
    BY <1>1, <1>2, FS_AddElement
  <1>4. Cardinality(Watched(P \cup {p})) = Cardinality(W) + One(p.sd # "none")
    BY <1>1, <1>2, <1>3 DEF One
  <1> QED BY <1>2, <1>4 DEF W

\* What was not written was not heard either.
LEMMA HearsSame ==
    ASSUME NEW s, NEW t, t.tries = s.tries, t.timedOut = s.timedOut, t.seen = s.seen,
           t.port_state = s.port_state, s.flags # "unknown" => t.flags # "unknown"
    PROVE  Hears(s, t)
  BY DEF Hears, Told

\* A step that leaves list and counters alone.
LEMMA QuietFollows ==
    ASSUME NEW u, NEW v, u.hss \in HostScanStats, v.hss \in HostScanStats,
           Books(u.hss, v.hss, u.hss.probes_outstanding, u.hss.num_probes_active,
                 u.hss.num_probes_waiting_retransmit),
           Hears(u.hss, v.hss),
           v.g.num_probes_active = u.g.num_probes_active, v.g.numSDs = u.g.numSDs
    PROVE  Follows(u, v)
  <1>1. Kept(u.hss, v.hss) /\ v.hss.probes_outstanding = u.hss.probes_outstanding
        /\ v.hss.num_probes_active = u.hss.num_probes_active
    BY DEF Books
  <1>2. Passes(u.hss, v.hss)
    BY <1>1 DEF Passes, SameKey
  <1>3. Balanced(u, v)
    BY <1>1 DEF Balanced, OtherActive, OtherSockets
  <1> QED BY <1>1, <1>2, <1>3 DEF Follows

\* Congestion control.
LEMMA AdjustFollows ==
    ASSUME NEW u \in Views, NEW p \in UltraProbe, NEW rcvd \in BOOLEAN,
           NEW v \in AdjustedTiming(u, p, rcvd)
    PROVE  Follows(u, v) /\ v \in Views
  <1>1. /\ v \in Views
        /\ Books(u.hss, v.hss, u.hss.probes_outstanding, u.hss.num_probes_active,
                 u.hss.num_probes_waiting_retransmit)
        /\ v.g.numSDs = u.g.numSDs
    BY AdjustSpec
  <1>2. \E c, d : v = [hss |-> [u.hss EXCEPT !.cwnd = c], g |-> [u.g EXCEPT !.cwnd = d]]
    BY DEF AdjustedTiming
  <1> PICK c, d : v = [hss |-> [u.hss EXCEPT !.cwnd = c], g |-> [u.g EXCEPT !.cwnd = d]]
    BY <1>2
  <1>3. v.hss = [u.hss EXCEPT !.cwnd = c] /\ v.g = [u.g EXCEPT !.cwnd = d]
    OBVIOUS
  <1>4. u.hss \in HostScanStats /\ v.hss \in HostScanStats /\ u.g \in GroupStats
    BY <1>1, ViewParts
  <1>5. /\ v.hss.tries = u.hss.tries /\ v.hss.timedOut = u.hss.timedOut
        /\ v.hss.seen = u.hss.seen /\ v.hss.port_state = u.hss.port_state
        /\ v.hss.flags = u.hss.flags
    BY <1>3, <1>4 DEF HostScanStats
  <1>6. v.g.num_probes_active = u.g.num_probes_active
    BY <1>3, <1>4 DEF GroupStats
  <1>7. Hears(u.hss, v.hss)
    BY <1>5, HearsSame
  <1> QED BY <1>1, <1>4, <1>6, <1>7, QuietFollows

\* destroyOutstandingProbe, of a probe that no longer holds its port.
LEMMA DestroyFollows ==
    ASSUME NEW u, Sound(u), NEW p \in u.hss.probes_outstanding,
           Tracked /\ Holds(p) => Decided(u.hss, p.port)
    PROVE  Follows(u, destroyOutstandingProbe(u, p))
  <1> DEFINE s == u.hss
             v == destroyOutstandingProbe(u, p)
             t == v.hss
             P == s.probes_outstanding
  <1>1. s \in HostScanStats /\ u.g \in GroupStats /\ u \in Views /\ IsFiniteSet(P)
    BY ViewParts DEF Sound
  <1>2. p \in UltraProbe
    BY <1>1, BookTypes
  <1>3. Destroyed(u, v, p)
    BY <1>1, <1>2, DestroySpec
  <1>4. /\ t.tries = s.tries /\ t.timedOut = s.timedOut /\ t.seen = s.seen
        /\ t.port_state = s.port_state /\ t.flags = s.flags
        /\ v.g.num_probes_active = u.g.num_probes_active - One(~p.timedout)
        /\ v.g.numSDs = u.g.numSDs - One(p.sd # "none")
    BY <1>1 DEF destroyOutstandingProbe, HostScanStats, GroupStats
  <1> HIDE DEF v
  <1>5. /\ t \in HostScanStats /\ Kept(s, t)
        /\ t.probes_outstanding = P \ {p}
        /\ t.num_probes_active = s.num_probes_active - One(~p.timedout)
    BY <1>3, ViewParts DEF Destroyed, Books
  <1>6. Hears(s, t)
    BY <1>4, HearsSame
  <1>7. Tracked /\ Holds(p) => Decided(t, p.port)
    BY <1>4 DEF Decided
  <1>8. Passes(s, t)
    BY <1>5, <1>7 DEF Passes, SameKey
  <1>9. Balanced(u, v)
    <2>1. /\ u.g.num_probes_active \in Int /\ u.g.numSDs \in Int
          /\ s.num_probes_active \in Int
      BY <1>1, HostFields DEF GroupStats
    <2>2. One(~p.timedout) \in Int /\ One(p.sd # "none") \in Int
      BY DEF One
    <2>3. /\ Cardinality(Watched(P \ {p})) = Cardinality(Watched(P)) - One(p.sd # "none")
          /\ Cardinality(Watched(P)) \in Nat
      BY <1>1, WatchedRemove
    <2>4. OtherActive(v) = OtherActive(u)
      BY <1>4, <1>5, <2>1, <2>2 DEF OtherActive
    <2>5. OtherSockets(v) = OtherSockets(u)
      BY <1>4, <1>5, <2>1, <2>2, <2>3 DEF OtherSockets
    <2> QED BY <2>4, <2>5 DEF Balanced
  <1> QED BY <1>1, <1>5, <1>6, <1>8, <1>9 DEF Follows, v

\* markProbeTimedout.
LEMMA MarkFollows ==
    ASSUME NEW u, Sound(u), NEW p \in u.hss.probes_outstanding,
           NEW v \in markProbeTimedout(u, p)
    PROVE  Follows(u, v)
  <1> DEFINE s == u.hss
             P == s.probes_outstanding
             q == TimedOutProbe(p)
             i == s.num_probes_active - 1
             j == s.num_probes_waiting_retransmit + One(~isPing(p))
             k == u.g.num_probes_active - 1
             l == u.g.numSDs - One(p.sd # "none")
             W == (P \ {p}) \cup {q}
             w == [hss |-> [s EXCEPT !.probes_outstanding = W, !.num_probes_active = i,
                              !.num_probes_waiting_retransmit = j],
                   g   |-> [u.g EXCEPT !.num_probes_active = k, !.numSDs = l]]
             t == w.hss
  <1>1. s \in HostScanStats /\ u.g \in GroupStats /\ u \in Views /\ IsFiniteSet(P)
    BY ViewParts DEF Sound
  <1>2. p \in UltraProbe
    BY <1>1, BookTypes
  <1>3. v \in AdjustedTiming(w, p, FALSE)
    BY DEF markProbeTimedout
  <1>4. /\ q \in UltraProbe /\ SameKey(p, q) /\ q.retransmitted = p.retransmitted
        /\ q.sd = "none" /\ (Holds(p) => Holds(q))
    BY <1>2 DEF TimedOutProbe, UltraProbe, SameKey, Holds
  <1> HIDE DEF q
  <1>5. W \in SUBSET UltraProbe /\ i \in Int /\ j \in Int
    BY <1>1, <1>4, HostFields DEF One
  <1>6. k \in Int /\ l \in Int /\ u.g.num_probes_active \in Int /\ u.g.numSDs \in Int
    BY <1>1 DEF GroupStats, One
  <1>7. /\ t.tries = s.tries /\ t.timedOut = s.timedOut /\ t.seen = s.seen
        /\ t.port_state = s.port_state /\ t.flags = s.flags
        /\ w.g.num_probes_active = k /\ w.g.numSDs = l
        /\ t = [s EXCEPT !.probes_outstanding = W, !.num_probes_active = i,
                         !.num_probes_waiting_retransmit = j]
    BY <1>1 DEF HostScanStats, GroupStats
  <1>8. w = [hss |-> t, g |-> w.g] /\ w.g \in GroupStats
    BY <1>1, <1>6 DEF GroupStats
  <1> HIDE DEF w, j
  <1>9. t \in HostScanStats /\ Books(s, t, W, i, j)
    BY <1>1, <1>5, <1>7, BooksUpdate
  <1>10. w \in Views
    BY <1>8, <1>9 DEF Views
  <1>11. Hears(s, t)
    BY <1>7, HearsSame, ZenonT(40)
  <1>12. Kept(s, t) /\ t.probes_outstanding = W /\ t.num_probes_active = i
    BY <1>9 DEF Books
  <1>13. Passes(s, t)
    BY <1>4, <1>12 DEF Passes, SameKey
  <1>14. Balanced(u, w)
    <2>1. Watched(W) = Watched(P \ {p})
      BY <1>4 DEF Watched
    <2>2. /\ Cardinality(Watched(P \ {p})) = Cardinality(Watched(P)) - One(p.sd # "none")
          /\ Cardinality(Watched(P)) \in Nat
      BY <1>1, WatchedRemove
    <2>3. s.num_probes_active \in Int /\ One(p.sd # "none") \in Int
      BY <1>1, HostFields DEF One
    <2>4. OtherActive(w) = OtherActive(u)
      BY <1>6, <1>7, <1>12, <2>3 DEF OtherActive
    <2>5. OtherSockets(w) = OtherSockets(u)
      BY <1>6, <1>7, <1>12, <2>1, <2>2, <2>3 DEF OtherSockets
    <2> QED BY <2>4, <2>5 DEF Balanced
  <1>15. Follows(u, w)
    BY <1>1, <1>9, <1>11, <1>12, <1>13, <1>14 DEF Follows
  <1>16. Follows(w, v)
    BY <1>2, <1>3, <1>10, AdjustFollows
  <1> QED BY <1>15, <1>16, FollowsTrans

\* destroyAllOutstandingProbes, when every port is decided.
LEMMA ClearFollows ==
    ASSUME NEW u, Sound(u), Tracked => \A q \in Ports : Decided(u.hss, q)
    PROVE  Follows(u, destroyAllOutstandingProbes(u))
  <1> DEFINE s == u.hss
             v == destroyAllOutstandingProbes(u)
             t == v.hss
             P == s.probes_outstanding
             a == Cardinality(Active(P))
             d == Cardinality(Watched(P))
  <1>1. s \in HostScanStats /\ u.g \in GroupStats /\ u \in Views /\ IsFiniteSet(P)
    BY ViewParts DEF Sound
  <1>3. Cleared(u, v)
    BY <1>1, DestroyAllSpec
  <1>4. /\ t.tries = s.tries /\ t.timedOut = s.timedOut /\ t.seen = s.seen
        /\ t.port_state = s.port_state /\ t.flags = s.flags
        /\ v.g.num_probes_active = u.g.num_probes_active - a
        /\ v.g.numSDs = u.g.numSDs - d
    BY <1>1 DEF destroyAllOutstandingProbes, HostScanStats, GroupStats
  <1> HIDE DEF v
  <1>5. /\ t \in HostScanStats /\ Kept(s, t)
        /\ t.probes_outstanding = {}
        /\ t.num_probes_active = s.num_probes_active - a
    BY <1>3, ViewParts DEF Cleared, Books
  <1>6. Hears(s, t)
    BY <1>4, HearsSame
  <1>7. Tracked => \A q \in Ports : Decided(t, q)
    BY <1>4 DEF Decided
  <1>8. Passes(s, t)
    BY <1>1, <1>5, <1>7, BookTypes DEF Passes
  <1>9. Balanced(u, v)
    <2>1. /\ u.g.num_probes_active \in Int /\ u.g.numSDs \in Int
          /\ s.num_probes_active \in Int
      BY <1>1, HostFields DEF GroupStats
    <2>2. a \in Nat
      BY <1>1, CountNat
    <2>3. d \in Nat
      BY <1>1, FS_Subset, FS_CardinalityType DEF Watched
    <2>4. Cardinality(Watched({})) = 0
      <3>1. Watched({}) = {}
        BY DEF Watched
      <3> QED BY <3>1, FS_EmptySet
    <2>7. OtherSockets(u) = u.g.numSDs - d /\ OtherSockets(v) = v.g.numSDs - Cardinality(Watched({}))
      BY <1>5 DEF OtherSockets
    <2> HIDE DEF a, d
    <2>5. OtherActive(v) = OtherActive(u)
      BY <1>4, <1>5, <2>1, <2>2 DEF OtherActive
    <2>6. OtherSockets(v) = OtherSockets(u)
      BY <1>4, <2>1, <2>3, <2>4, <2>7
    <2> QED BY <2>5, <2>6 DEF Balanced
  <1> QED BY <1>1, <1>5, <1>6, <1>8, <1>9 DEF Follows, v

\* What follows is sound.
LEMMA AdjustSound ==
    ASSUME NEW u, Sound(u), NEW p \in UltraProbe, NEW rcvd \in BOOLEAN,
           NEW v \in AdjustedTiming(u, p, rcvd)
    PROVE  Follows(u, v) /\ Sound(v) /\ v.hss.probes_outstanding = u.hss.probes_outstanding
  BY AdjustFollows, AdjustSpec DEF Sound, Books

\* ultrascan_ping_update: a ping holds no port.
LEMMA PingUpdateFollows ==
    ASSUME NEW u, Sound(u), NEW p \in u.hss.probes_outstanding, isPing(p), NEW rcvd \in BOOLEAN,
           NEW v \in ultrascan_ping_update(u, p, rcvd)
    PROVE  Follows(u, v)
  <1>1. p \in UltraProbe /\ ~Holds(p)
    <2>1. p \in UltraProbe
      BY ViewParts, BookTypes DEF Sound
    <2>2. p.pingseq # 0
      BY <2>1, ProbeFields, ScanAssumption DEF isPing
    <2> QED BY <2>1, <2>2 DEF Holds
  <1>2. PICK w \in AdjustedTiming(u, p, rcvd) : v = destroyOutstandingProbe(w, p)
    BY DEF ultrascan_ping_update
  <1>3. Follows(u, w) /\ Sound(w) /\ w.hss.probes_outstanding = u.hss.probes_outstanding
    BY <1>1, AdjustSound
  <1>4. Follows(w, v)
    BY <1>1, <1>2, <1>3, DestroyFollows
  <1> QED BY <1>3, <1>4, FollowsTrans

\* The answers are port states.
LEMMA AnswersArePortStates == Answerable \subseteq PortStates
  BY ScanAssumption DEF Answerable, PortStates

\* The rule picks the better of two answers.
LEMMA PspecBest ==
    ASSUME Comparable, NEW old \in Answerable, NEW new \in Answerable
    PROVE  /\ ultrascan_port_pspec_update(old, new) \in {old, new}
           /\ Rank(old) <= Rank(ultrascan_port_pspec_update(old, new))
           /\ Rank(new) <= Rank(ultrascan_port_pspec_update(old, new))
  <1>1. old \in PortStates /\ new \in PortStates /\ NorespOpen \in BOOLEAN
    BY AnswersArePortStates, ScanAssumption
  <1>2. CASE NorespOpen
    <2>1. old \in {"open", "closed", "filtered"} /\ new \in {"open", "closed", "filtered"}
      BY <1>1, <1>2 DEF Comparable, PortStates
    <2> QED BY <1>2, <2>1 DEF ultrascan_port_pspec_update, Rank
  <1>3. CASE ~NorespOpen
    <2>1. "unfiltered" \in {old, new} => "closed" \notin {old, new}
      BY DEF Comparable
    <2> QED BY <1>1, <1>3, <2>1 DEF ultrascan_port_pspec_update, Rank, PortStates
  <1> QED BY <1>1, <1>2, <1>3

\* A rank is a number.
LEMMA RankInt == \A r \in PortStates : Rank(r) \in Int
  BY DEF PortStates, Rank

\* Recording an answer keeps the best.
LEMMA AnswerTold ==
    ASSUME NEW s \in HostScanStats, NEW q \in Ports, NEW r \in Answerable, Comparable, Told(s),
           NEW t,
           t.port_state = [s.port_state EXCEPT ![q] = ultrascan_port_pspec_update(@, r)],
           t.seen = [s.seen EXCEPT ![q] = @ \cup {r}]
    PROVE  Told(t)
  <1>1. /\ s.port_state \in [Ports -> PortStates \cup {"default"}]
        /\ s.seen \in [Ports -> SUBSET PortStates]
    BY HostFields
  <1>2. /\ t.port_state[q] = ultrascan_port_pspec_update(s.port_state[q], r)
        /\ t.seen[q] = s.seen[q] \cup {r}
        /\ \A k \in Ports : k # q => t.port_state[k] = s.port_state[k] /\ t.seen[k] = s.seen[k]
    BY <1>1
  <1>3. ASSUME NEW k \in Ports, k # q
        PROVE  /\ t.seen[k] \subseteq Answerable
               /\ IF t.seen[k] = {} THEN t.port_state[k] = "default"
                  ELSE /\ t.port_state[k] \in t.seen[k]
                       /\ \A x \in t.seen[k] : Rank(x) <= Rank(t.port_state[k])
    BY <1>2, <1>3 DEF Told
  <1>4. /\ t.seen[q] \subseteq Answerable /\ t.port_state[q] \in t.seen[q]
        /\ \A x \in t.seen[q] : Rank(x) <= Rank(t.port_state[q])
    <2>1. s.seen[q] \subseteq Answerable /\ r \in PortStates /\ Rank(r) \in Int
      BY AnswersArePortStates, RankInt DEF Told
    <2>2. CASE s.seen[q] = {}
      <3>1. t.port_state[q] = r
        BY <1>2, <2>2 DEF Told, ultrascan_port_pspec_update
      <3> QED BY <1>2, <2>1, <2>2, <3>1
    <2>3. CASE s.seen[q] # {}
      <3> DEFINE old == s.port_state[q]
                 b == ultrascan_port_pspec_update(old, r)
      <3>1. old \in s.seen[q] /\ \A x \in s.seen[q] : Rank(x) <= Rank(old)
        BY <2>3 DEF Told
      <3>2. b \in {old, r} /\ Rank(old) <= Rank(b) /\ Rank(r) <= Rank(b)
        BY <2>1, <3>1, PspecBest
      <3>3. \A x \in s.seen[q] \cup {r} : Rank(x) \in Int
        BY <2>1, AnswersArePortStates, RankInt
      <3>4. t.port_state[q] = b
        BY <1>2
      <3> HIDE DEF old, b
      <3>5. \A x \in s.seen[q] : Rank(x) <= Rank(b)
        BY <3>1, <3>2, <3>3
      <3> QED BY <1>2, <2>1, <3>1, <3>2, <3>4, <3>5
    <2> QED BY <2>2, <2>3
  <1>5. r \in t.seen[q]
    BY <1>2
  <1> QED BY <1>3, <1>4, <1>5 DEF Told

\* A view with other statistics, and then without a probe that holds nothing by them.
LEMMA UpdatedFollows ==
    ASSUME NEW u, Sound(u), NEW p \in u.hss.probes_outstanding, NEW t \in HostScanStats,
           Books(u.hss, t, u.hss.probes_outstanding, u.hss.num_probes_active,
                 u.hss.num_probes_waiting_retransmit),
           Hears(u.hss, t), Decided(t, p.port),
           NEW v, v = destroyOutstandingProbe([u EXCEPT !.hss = t], p)
    PROVE  Follows(u, v) /\ Sound(v)
  <1> DEFINE w == [u EXCEPT !.hss = t]
  <1>1. w \in Views /\ w.hss = t /\ w.g = u.g /\ u.hss \in HostScanStats
    BY ViewParts DEF Views, Sound
  <1>2. v = destroyOutstandingProbe(w, p)
    OBVIOUS
  <1> HIDE DEF w
  <1>3. t.probes_outstanding = u.hss.probes_outstanding
    BY DEF Books
  <1>4. Sound(w) /\ p \in w.hss.probes_outstanding
    BY <1>1, <1>3 DEF Sound
  <1>5. Follows(u, w)
    BY <1>1, QuietFollows
  <1>6. Follows(w, v)
    BY <1>1, <1>2, <1>4, DestroyFollows
  <1>7. p \in UltraProbe
    BY <1>1, BookTypes
  <1>8. Destroyed(w, v, p)
    BY <1>1, <1>2, <1>7, DestroySpec
  <1>9. Sound(v)
    BY <1>4, <1>7, <1>8, OutcomeSound DEF Outcome
  <1> QED BY <1>5, <1>6, <1>9, FollowsTrans

\* ultrascan_port_probe_update decides the port.
LEMMA PortUpdateFollows ==
    ASSUME ~PingScan, NEW u, Sound(u), NEW p \in u.hss.probes_outstanding, NEW r \in Answerable,
           NEW v \in ultrascan_port_probe_update(u, p, r)
    PROVE  Follows(u, v)
  <1> DEFINE s  == u.hss
             adjust == ~(RateLimited(r) /\ p.tryno > 0)
             f  == [s.port_state EXCEPT ![p.port] = ultrascan_port_pspec_update(@, r)]
             n  == [s.seen EXCEPT ![p.port] = @ \cup {r}]
             m  == IF adjust /\ p.tryno > s.max_successful_tryno
                   THEN p.tryno ELSE s.max_successful_tryno
             pp == IF RateLimited(r) THEN s.pingprobe ELSE BetterPing(s, p, r)
             t  == [s EXCEPT !.port_state = f, !.seen = n, !.max_successful_tryno = m,
                             !.pingprobe = pp]
             w  == destroyOutstandingProbe([u EXCEPT !.hss = t], p)
  <1>1. s \in HostScanStats /\ r \in PortStates
    BY ViewParts, AnswersArePortStates DEF Sound
  <1>2. v = w \/ v \in AdjustedTiming(w, p, TRUE)
    BY DEF ultrascan_port_probe_update
  <1>0. p \in UltraProbe /\ p \in s.probes_outstanding
    BY <1>1, BookTypes
  <1> HIDE DEF s
  <1>3. f \in [Ports -> PortStates \cup {"default"}]
    BY <1>0, <1>1, HostFields, ProbeFields, PspecType
  <1>4. n \in [Ports -> SUBSET PortStates]
    BY <1>0, <1>1, HostFields, ProbeFields
  <1>5. m \in 0..TrynoCap /\ m >= s.max_successful_tryno
    BY <1>0, <1>1, HostFields, ProbeFields, ScanAssumption
  <1>6. pp \in PingProbes
    BY <1>0, <1>1, HostFields, BetterPingType
  <1> HIDE DEF m, pp
  <1>7. /\ t \in HostScanStats
        /\ Books(s, t, s.probes_outstanding, s.num_probes_active,
                 s.num_probes_waiting_retransmit)
    <2> HIDE DEF f, n
    <2> QED BY <1>1, <1>3, <1>4, <1>5, <1>6, AnswerUpdate
  <1>8. /\ t.port_state = f /\ t.seen = n /\ t.tries = s.tries /\ t.timedOut = s.timedOut
        /\ t.flags = s.flags
    BY <1>1 DEF HostScanStats
  <1> HIDE DEF t
  <1>9. p.port \in Ports /\ s.seen \in [Ports -> SUBSET PortStates]
    BY <1>0, <1>1, ProbeFields, HostFields
  <1>10. t.seen[p.port] # {} /\ \A q \in Ports : s.seen[q] # {} => t.seen[q] # {}
    BY <1>8, <1>9
  <1>11. Comparable /\ Told(s) => Told(t)
    BY <1>1, <1>8, <1>9, AnswerTold
  <1>12. Hears(s, t) /\ Decided(t, p.port)
    BY <1>8, <1>10, <1>11 DEF Hears, Decided
  <1>13. Follows(u, w) /\ Sound(w)
    BY <1>0, <1>7, <1>12, UpdatedFollows DEF s
  <1> HIDE DEF w
  <1>14. CASE v \in AdjustedTiming(w, p, TRUE)
    BY <1>0, <1>13, <1>14, AdjustSound, FollowsTrans
  <1> QED BY <1>2, <1>13, <1>14

\* ultrascan_host_probe_update decides the host.
LEMMA HostUpdateFollows ==
    ASSUME PingScan, NEW u, Sound(u), NEW p \in u.hss.probes_outstanding,
           NEW r \in {"up", "down"}, NEW rcvd \in BOOLEAN,
           NEW v \in ultrascan_host_probe_update(u, p, r, rcvd)
    PROVE  Follows(u, v) /\ Sound(v) /\ v.hss.flags # "unknown"
  <1> DEFINE s  == u.hss
             f  == IF s.flags = "up" THEN s.flags ELSE r
             pp == IF rcvd /\ r = "up" THEN BetterPing(s, p, "unknown") ELSE s.pingprobe
             t  == [s EXCEPT !.flags = f, !.pingprobe = pp]
             w  == destroyOutstandingProbe([u EXCEPT !.hss = t], p)
  <1>1. s \in HostScanStats
    BY ViewParts DEF Sound
  <1>2. v = w \/ v \in AdjustedTiming(w, p, rcvd)
    BY DEF ultrascan_host_probe_update
  <1>0. p \in UltraProbe /\ p \in s.probes_outstanding
    BY <1>1, BookTypes
  <1> HIDE DEF s
  <1>3. f \in {"up", "down"} /\ f \in {"unknown", "up", "down"}
    BY <1>1, HostFields
  <1>6. pp \in PingProbes
    BY <1>0, <1>1, HostFields, BetterPingType
  <1> HIDE DEF f, pp
  <1>7. /\ t \in HostScanStats
        /\ Books(s, t, s.probes_outstanding, s.num_probes_active,
                 s.num_probes_waiting_retransmit)
    BY <1>1, <1>3, <1>6, VerdictUpdate
  <1>8. /\ t.port_state = s.port_state /\ t.seen = s.seen /\ t.tries = s.tries
        /\ t.timedOut = s.timedOut /\ t.flags = f
    BY <1>1 DEF HostScanStats
  <1> HIDE DEF t
  <1>12. Hears(s, t) /\ Decided(t, p.port)
    BY <1>3, <1>8, HearsSame DEF Decided
  <1>13. Follows(u, w) /\ Sound(w)
    BY <1>0, <1>7, <1>12, UpdatedFollows DEF s
  <1>14. [u EXCEPT !.hss = t].hss = t
    BY DEF Sound, Views
  <1>15. w.hss.flags = t.flags
    BY <1>7, <1>14 DEF destroyOutstandingProbe, HostScanStats
  <1> HIDE DEF w
  <1>16. CASE v \in AdjustedTiming(w, p, rcvd)
    <2>1. Follows(w, v) /\ Sound(v)
      BY <1>0, <1>13, <1>16, AdjustSound
    <2>2. v.hss.flags # "unknown"
      BY <1>3, <1>8, <1>15, <2>1 DEF Follows, Hears
    <2> QED BY <1>13, <2>1, <2>2, FollowsTrans
  <1> QED BY <1>2, <1>3, <1>8, <1>13, <1>15, <1>16

\* An answer that settles a host.
LEMMA HostAnswerFollows ==
    ASSUME PingScan, NEW u, Sound(u), NEW p \in u.hss.probes_outstanding,
           NEW r \in {"up", "down"}, NEW v \in HostAnswer(u, p, r)
    PROVE  Follows(u, v)
  <1>1. PICK w \in ultrascan_host_probe_update(u, p, r, TRUE) :
          v = IF r = "up" THEN destroyAllOutstandingProbes(w) ELSE w
    BY DEF HostAnswer
  <1>2. Follows(u, w) /\ Sound(w) /\ w.hss.flags # "unknown"
    BY HostUpdateFollows
  <1>3. Follows(w, destroyAllOutstandingProbes(w))
    BY <1>2, ClearFollows DEF Decided
  <1> QED BY <1>1, <1>2, <1>3, FollowsTrans

\* Every outcome of connect().
LEMMA ConnectResultFollows ==
    ASSUME ConnectScan, NEW u, Sound(u), NEW p \in u.hss.probes_outstanding,
           NEW e \in Errnos \cup {"accept"}, NEW destroy \in BOOLEAN,
           destroy => ImmediateConnect /\ e \in Errnos \ {"eagain"},
           NEW v \in handleConnectResult(u, p, e, destroy)
    PROVE  Follows(u, v)
  <1>0. e \in ConnectErrnos
    BY ScanAssumption DEF ConnectErrnos
  <1>1. NewHostState(e) \in {"up", "down", "unknown"}
    BY <1>0 DEF NewHostState, ConnectErrnos
  <1>2. NewPortState(e) \in {"open", "closed", "filtered", "unknown"}
    BY <1>0 DEF NewPortState, ConnectErrnos
  <1>3. p \in UltraProbe /\ isPing(p) \in BOOLEAN /\ PingScan \in BOOLEAN /\ u \in Views
        /\ u.hss \in HostScanStats
    BY ViewParts, BookTypes, ProbeFields, ScanAssumption DEF Sound
  <1>4. \/ isPing(p) /\ v \in ultrascan_ping_update(u, p, TRUE)
        \/ PingScan /\ NewHostState(e) # "unknown" /\ v \in HostAnswer(u, p, NewHostState(e))
        \/ v \in markProbeTimedout(u, p)
        \/ ~PingScan /\ NewPortState(e) # "unknown"
             /\ v \in ultrascan_port_probe_update(u, p, NewPortState(e))
        \/ /\ destroy /\ v = destroyOutstandingProbe(u, p)
           /\ \/ isPing(p) \/ (PingScan /\ NewHostState(e) = "unknown")
              \/ ~PingScan /\ NewPortState(e) = "unknown"
        \/ v = u
    BY <1>3, Zenon DEF handleConnectResult
  <1>5. CASE isPing(p) /\ v \in ultrascan_ping_update(u, p, TRUE)
    BY <1>5, PingUpdateFollows
  <1>6. CASE PingScan /\ NewHostState(e) # "unknown" /\ v \in HostAnswer(u, p, NewHostState(e))
    BY <1>1, <1>6, HostAnswerFollows
  <1>7. CASE v \in markProbeTimedout(u, p)
    BY <1>7, MarkFollows
  <1>8. CASE ~PingScan /\ NewPortState(e) # "unknown"
               /\ v \in ultrascan_port_probe_update(u, p, NewPortState(e))
    <2>1. NewPortState(e) \in Answerable
      BY <1>2, <1>8 DEF Answerable
    <2> QED BY <1>8, <2>1, PortUpdateFollows
  <1>9. CASE /\ destroy /\ v = destroyOutstandingProbe(u, p)
             /\ \/ isPing(p) \/ (PingScan /\ NewHostState(e) = "unknown")
                \/ ~PingScan /\ NewPortState(e) = "unknown"
    <2>1. isPing(p) => ~Holds(p)
      BY <1>3, ProbeFields, ScanAssumption DEF isPing, Holds
    <2>2. PingScan /\ NewHostState(e) = "unknown" =>
             e = "strange" \/ (e = "refused" /\ DiscoveryIgnoreRst)
      BY <1>0 DEF NewHostState, ConnectErrnos
    <2>3. ~PingScan /\ NewPortState(e) = "unknown" => e \in {"eagain", "strange"}
      BY <1>0 DEF NewPortState, ConnectErrnos
    <2>4. Tracked => ~Holds(p)
      BY <1>9, <2>1, <2>2, <2>3 DEF Tracked
    <2> QED BY <1>9, <2>4, DestroyFollows
  <1>10. CASE v = u
    BY <1>3, <1>10, FollowsSelf
  <1> QED BY <1>4, <1>5, <1>6, <1>7, <1>8, <1>9, <1>10

-----------------------------------------------------------------------------
(* Sends.                                                                   *)

\* A probe as it is listed: raw, with a socket, or answered by connect() at once.
AsSent(n, r) ==
    /\ r \in UltraProbe /\ SameKey(r, n)
    /\ r.retransmitted = n.retransmitted /\ r.timedout = n.timedout

\* Sending is listing the probe, and for a connect() that ends at once its answer.
LEMMA SendFollows ==
    ASSUME NEW u, Sound(u), NEW n \in UltraProbe, NEW v \in sendScanProbe(u, n)
    PROVE  \E r : /\ AsSent(n, r) /\ Sound(Enqueue(u, r)) /\ Follows(Enqueue(u, r), v)
                  /\ Enqueued(u, Enqueue(u, r), r)
  <1>1. u \in Views
    BY DEF Sound
  <1>2. ASSUME NEW r \in UltraProbe
        PROVE  /\ Sound(Enqueue(u, r)) /\ Follows(Enqueue(u, r), Enqueue(u, r))
               /\ r \in Enqueue(u, r).hss.probes_outstanding
               /\ Enqueued(u, Enqueue(u, r), r)
    <2>1. Enqueued(u, Enqueue(u, r), r)
      BY <1>1, EnqueueSpec
    <2>2. Sound(Enqueue(u, r))
      BY <2>1, EnqueuedSound
    <2>3. Follows(Enqueue(u, r), Enqueue(u, r))
      BY <2>2, ViewParts, FollowsSelf DEF Sound
    <2> QED BY <2>1, <2>2, <2>3 DEF Enqueued, Books
  <1>3. AsSent(n, n)
    BY DEF AsSent, SameKey
  <1>4. AsSent(n, [n EXCEPT !.sd = "watched"])
    BY DEF AsSent, SameKey, UltraProbe
  <1>5. CASE v = Enqueue(u, n)
    BY <1>2, <1>3, <1>5
  <1>6. CASE v = Enqueue(u, [n EXCEPT !.sd = "watched"])
    <2>1. [n EXCEPT !.sd = "watched"] \in UltraProbe
      BY <1>4 DEF AsSent
    <2> QED BY <1>2, <1>4, <1>6, <2>1
  <1>7. CASE /\ ConnectScan /\ ImmediateConnect
             /\ \E e \in Errnos \ {"eagain"} : v \in handleConnectResult(Enqueue(u, n), n, e, TRUE)
    <2>1. PICK e \in Errnos \ {"eagain"} : v \in handleConnectResult(Enqueue(u, n), n, e, TRUE)
      BY <1>7
    <2>2. Follows(Enqueue(u, n), v)
      BY <1>2, <1>7, <2>1, ConnectResultFollows
    <2> QED BY <1>2, <1>3, <2>2
  <1> QED BY <1>5, <1>6, <1>7 DEF sendScanProbe

\* The group counts the new probe as its host does.
LEMMA EnqueueBalanced ==
    ASSUME NEW u, Sound(u), NEW r \in UltraProbe, r \notin u.hss.probes_outstanding,
           Sound(Enqueue(u, r))
    PROVE  Balanced(u, Enqueue(u, r))
  <1> DEFINE s == u.hss
             v == Enqueue(u, r)
             P == s.probes_outstanding
  <1>1. s \in HostScanStats /\ u.g \in GroupStats /\ IsFiniteSet(P)
    BY ViewParts DEF Sound
  <1>2. /\ v.hss.probes_outstanding = P \cup {r}
        /\ v.hss.num_probes_active = s.num_probes_active + 1
        /\ v.g.num_probes_active = u.g.num_probes_active + 1
        /\ v.g.numSDs = u.g.numSDs + One(r.sd # "none")
    BY <1>1 DEF Enqueue, HostScanStats, GroupStats
  <1> HIDE DEF v
  <1>3. /\ u.g.num_probes_active \in Int /\ u.g.numSDs \in Int /\ s.num_probes_active \in Int
        /\ One(r.sd # "none") \in Int
    BY <1>1, HostFields DEF GroupStats, One
  <1>4. /\ Cardinality(Watched(P \cup {r})) = Cardinality(Watched(P)) + One(r.sd # "none")
        /\ Cardinality(Watched(P)) \in Nat
    BY <1>1, WatchedAdd
  <1>5. OtherActive(v) = OtherActive(u)
    BY <1>2, <1>3 DEF OtherActive
  <1>6. OtherSockets(v) = OtherSockets(u)
    BY <1>2, <1>3, <1>4 DEF OtherSockets
  <1> QED BY <1>5, <1>6 DEF Balanced, v

\* The probe is the next try of its port, or a ping.
NextTry(s, n, X, Y) ==
    /\ ~n.retransmitted
    /\ IF n.pingseq = 0
       THEN /\ Y \subseteq {n.port} /\ n.tryno = s.tries[n.port]
            /\ n.port \notin s.fresh
            /\ \A i \in DOMAIN s.probe_bench : s.probe_bench[i] # n.port
            /\ \A i \in DOMAIN s.retry_stack : s.retry_stack[i].port # n.port
            /\ \A q \in s.probes_outstanding : TryOf(q, n.port) =>
                  q.retransmitted \/ \E x \in X : SameKey(x, q)
       ELSE Y = {}

\* What is stacked is a port.
LEMMA StackPorts ==
    ASSUME NEW s \in HostScanStats, NEW i \in DOMAIN s.retry_stack
    PROVE  s.retry_stack[i].port \in Ports
  <1> DEFINE R == s.retry_stack
             E == [port: Ports, tries: 0..TrynoCap - 1]
  <1>1. R \in Seq(E) /\ i \in DOMAIN R
    BY HostFields
  <1>2. \A e \in E : e.port \in Ports
    OBVIOUS
  <1> HIDE DEF R, E
  <1>3. R[i] \in E
    BY <1>1
  <1> QED BY <1>2, <1>3 DEF R

\* Listing it keeps the journal, and leaves no port on its way.
LEMMA EnqueueJournal ==
    ASSUME NEW u \in Views, NEW X, NEW Y, Journal(u.hss, {}, Y), NEW n \in UltraProbe,
           NextTry(u.hss, n, X, Y)
    PROVE  Journal(Enqueue(u, n).hss, X, {}) /\ Later(u.hss, Enqueue(u, n).hss)
  <1> DEFINE s == u.hss
             t == Enqueue(u, n).hss
             T == [s.tries EXCEPT ![n.port] = IF isPing(n) THEN @ ELSE @ + 1]
  <1>1. s \in HostScanStats /\ n.port \in Ports /\ n.pingseq \in Nat /\ n.tryno \in Int
    BY ViewParts, ProbeFields, ScanAssumption
  <1>2. /\ t.probes_outstanding = s.probes_outstanding \cup {n} /\ t.tries = T
        /\ t.fresh = s.fresh /\ t.probe_bench = s.probe_bench
        /\ t.bench_tryno = s.bench_tryno /\ t.retry_stack = s.retry_stack
        /\ SameHistory([s EXCEPT !.tries = T], t)
    BY <1>1 DEF Enqueue, HostScanStats, SameHistory
  <1>3. s.tries \in [Ports -> Nat]
    BY <1>1, HostFields
  <1>4. /\ \A q \in Ports : q # n.port => T[q] = s.tries[q]
        /\ T[n.port] = IF n.pingseq = 0 THEN s.tries[n.port] + 1 ELSE s.tries[n.port]
        /\ \A q \in Ports : s.tries[q] \in Nat /\ T[q] \in Nat
    BY <1>1, <1>3 DEF isPing
  <1>5. /\ t.seen = s.seen /\ t.port_state = s.port_state /\ t.flags = s.flags
        /\ t.timedOut = s.timedOut
    BY <1>1, <1>2 DEF SameHistory, HostScanStats
  <1> HIDE DEF s, t, T
  <1>0. Journal(s, {}, Y) /\ NextTry(s, n, X, Y)
    BY DEF s
  <1>6. Later(s, t)
    <2>1. \A q \in Ports : t.tries[q] >= s.tries[q] /\ t.tries[q] \in Nat /\ s.tries[q] \in Nat
      BY <1>2, <1>4
    <2>2. Enough \in Nat
      BY DEF Enough
    <2> QED BY <1>5, <2>1, <2>2 DEF Later, Decided
  <1>7. \A p \in s.probes_outstanding : p.port \in Ports /\ p.tryno \in Int /\ p.pingseq \in Nat
    BY <1>1, BookTypes
  <1>8. ASSUME NEW p \in t.probes_outstanding, p.pingseq = 0
        PROVE  /\ p.tryno < t.tries[p.port]
               /\ \/ p.retransmitted \/ p.tryno = t.tries[p.port] - 1
                  \/ \E x \in X : SameKey(x, p)
    <2>1. CASE p = n
      <3>1. n.tryno = s.tries[n.port] /\ T[n.port] = s.tries[n.port] + 1
        BY <1>0, <1>4, <1>8, <2>1 DEF NextTry
      <3> QED BY <1>1, <1>2, <1>4, <2>1, <3>1
    <2>2. CASE p \in s.probes_outstanding
      <3>1. p.tryno < s.tries[p.port] /\ (p.retransmitted \/ p.tryno = s.tries[p.port] - 1)
        BY <1>0, <1>8, <2>2 DEF Journal, Numbered
      <3>2. CASE p.port # n.port \/ n.pingseq # 0
        <4>1. T[p.port] = s.tries[p.port]
          BY <1>4, <1>7, <2>2, <3>2
        <4> QED BY <1>2, <3>1, <4>1
      <3>3. CASE p.port = n.port /\ n.pingseq = 0
        <4>1. p.retransmitted \/ \E x \in X : SameKey(x, p)
          BY <1>0, <1>8, <2>2, <3>3 DEF NextTry, TryOf
        <4>2. T[p.port] = s.tries[p.port] + 1
          BY <1>4, <3>3
        <4> QED BY <1>1, <1>2, <1>4, <1>7, <2>2, <3>1, <3>3, <4>1, <4>2
      <3> QED BY <3>2, <3>3
    <2> QED BY <1>2, <2>1, <2>2
  <1>9. Numbered(t, X)
    <2>1. \A q \in s.fresh : T[q] = 0
      <3>1. \A q \in s.fresh : q \in Ports /\ s.tries[q] = 0
        BY <1>0, <1>1, HostFields DEF Journal, Numbered
      <3> QED BY <1>0, <1>4, <3>1 DEF NextTry
    <2>2. \A i \in DOMAIN s.probe_bench : T[s.probe_bench[i]] = s.bench_tryno + 1
      <3>1. \A i \in DOMAIN s.probe_bench : /\ s.probe_bench[i] \in Ports
                                           /\ s.tries[s.probe_bench[i]] = s.bench_tryno + 1
        BY <1>0, <1>1, HostFields DEF Journal, Numbered
      <3> QED BY <1>0, <1>4, <3>1 DEF NextTry
    <2>3. \A i \in DOMAIN s.retry_stack : T[s.retry_stack[i].port] = s.retry_stack[i].tries + 1
      <3> DEFINE R == s.retry_stack
      <3>1. \A i \in DOMAIN R : R[i].port \in Ports
        BY <1>1, StackPorts
      <3>2. \A i \in DOMAIN R : s.tries[R[i].port] = R[i].tries + 1
        BY <1>0 DEF Journal, Numbered
      <3> QED BY <1>0, <1>4, <3>1, <3>2 DEF NextTry
    <2> QED BY <1>2, <1>8, <2>1, <2>2, <2>3 DEF Numbered
  <1>10. Untried(t, {})
    <2> SUFFICES ASSUME NEW q \in Ports, T[q] = 0 PROVE q \in s.fresh
      BY <1>2 DEF Untried
    <2>1. s.tries[q] = 0 /\ (q # n.port \/ n.pingseq # 0)
      BY <1>4
    <2>2. q \notin Y
      BY <1>0, <2>1 DEF NextTry
    <2> QED BY <1>0, <2>1, <2>2 DEF Journal, Untried
  <1>11. ASSUME Tracked PROVE Covered(t, {})
    <2> SUFFICES ASSUME NEW q \in Ports, ~Decided(t, q) PROVE Held(t, q)
      BY DEF Covered
    <2>1. ~Decided(s, q)
      BY <1>6 DEF Later
    <2>2. CASE q \in Y
      <3>1. n.pingseq = 0 /\ q = n.port /\ ~n.retransmitted
        BY <1>0, <2>2 DEF NextTry
      <3> QED BY <1>2, <3>1 DEF Held, Holds
    <2>3. CASE q \notin Y
      <3>1. Held(s, q)
        BY <1>0, <1>11, <2>1, <2>3 DEF Journal, Covered
      <3> QED BY <1>2, <3>1 DEF Held
    <2> QED BY <2>2, <2>3
  <1>12. Sorted(t) /\ BenchAbove(t) /\ (Comparable => Told(t))
    BY <1>0, <1>2, <1>5 DEF Journal, Sorted, BenchAbove, Told
  <1> QED BY <1>6, <1>9, <1>10, <1>11, <1>12 DEF Journal, s, t

\* A probe that may join the list is the next try of its port.
LEMMA JoinsNext ==
    ASSUME NEW s, NEW n, NEW X, NEW Y, Joins(s, n, X), n.pingseq = 0, n.tryno = s.tries[n.port],
           Y \subseteq {n.port}
    PROVE  NextTry(s, n, X, Y)
  BY DEF Joins, NextTry, SameKey

\* What a send makes of a journal.
LEMMA SendProgress ==
    ASSUME TypeInv, NEW h \in Hosts, NEW t, NEW n, NEW X, NEW v, Sends(h, t, n, X, v),
           NEW Y, Journal(t, {}, Y), NextTry(t, n, X, Y)
    PROVE  /\ Journal(v.hss, X, {}) /\ Later(t, v.hss) /\ Balanced(View(h), v)
           /\ Tracked /\ n.pingseq = 0 =>
                 \/ Decided(v.hss, n.port)
                 \/ \E q \in v.hss.probes_outstanding : SameKey(n, q) /\ Holds(q)
  <1> DEFINE u == [View(h) EXCEPT !.hss = t]
  <1>1. u.hss = t /\ u.g = gstats /\ u = [hss |-> t, g |-> gstats]
    BY DEF View
  <1>2. v \in sendScanProbe(u, n) /\ n \in UltraProbe /\ Joins(t, n, X)
    BY DEF Sends
  <1>3. /\ t \in HostScanStats /\ t.probes_outstanding = hss[h].probes_outstanding
        /\ t.num_probes_active = hss[h].num_probes_active
    BY DEF Sends
  <1> HIDE DEF u
  <1>4. Sound(u) /\ u \in Views
    BY <1>1, <1>3, TypeParts DEF Sound, Views
  <1>5. PICK r : /\ AsSent(n, r) /\ Sound(Enqueue(u, r)) /\ Follows(Enqueue(u, r), v)
                 /\ Enqueued(u, Enqueue(u, r), r)
    BY <1>2, <1>4, SendFollows
  <1>6. r \in UltraProbe /\ NextTry(t, r, X, Y)
    BY <1>5 DEF AsSent, NextTry, SameKey, TryOf
  <1>7. Journal(Enqueue(u, r).hss, X, {}) /\ Later(t, Enqueue(u, r).hss)
    BY <1>1, <1>4, <1>6, EnqueueJournal
  <1>8. Journal(v.hss, X, {}) /\ Later(Enqueue(u, r).hss, v.hss)
    BY <1>5, <1>7, FollowsJournal
  <1>9. Later(t, v.hss)
    BY <1>7, <1>8 DEF Later
  <1>10. r \notin u.hss.probes_outstanding
    BY <1>1, <1>2, <1>5 DEF Joins, AsSent, SameKey
  <1>11. Balanced(u, Enqueue(u, r)) /\ Balanced(Enqueue(u, r), v)
    BY <1>4, <1>5, <1>6, <1>10, EnqueueBalanced DEF Follows
  <1>12. OtherActive(View(h)) = OtherActive(u) /\ OtherSockets(View(h)) = OtherSockets(u)
    BY <1>1, <1>3 DEF View, OtherActive, OtherSockets
  <1>13. ASSUME Tracked, n.pingseq = 0
         PROVE  \/ Decided(v.hss, n.port)
                \/ \E q \in v.hss.probes_outstanding : SameKey(n, q) /\ Holds(q)
    <2>1. r \in Enqueue(u, r).hss.probes_outstanding
      BY <1>5 DEF Enqueued, Books
    <2>2. Holds(r) /\ SameKey(n, r)
      BY <1>5, <1>6, <1>13 DEF AsSent, SameKey, Holds, NextTry
    <2>3. Passes(Enqueue(u, r).hss, v.hss)
      BY <1>5 DEF Follows
    <2> QED BY <1>13, <2>1, <2>2, <2>3 DEF Passes, SameKey
  <1> QED BY <1>8, <1>9, <1>11, <1>12, <1>13 DEF Balanced

-----------------------------------------------------------------------------
(* The loop.                                                                *)

\* Host h made progress, and no other did.
Moves(h) ==
    /\ \A k \in Hosts : k # h => hss'[k] = hss[k]
    /\ Journal(hss'[h], {}, {}) /\ Later(hss[h], hss'[h])
    /\ Balanced([hss |-> hss[h], g |-> gstats], [hss |-> hss'[h], g |-> gstats'])

\* What is committed.
LEMMA CommitMoves ==
    ASSUME TypeInv, NEW h \in Hosts, NEW v, Commit(h, v), Journal(v.hss, {}, {}),
           Later(hss[h], v.hss), Balanced(View(h), v)
    PROVE  Moves(h)
  <1>1. hss' = [hss EXCEPT ![h] = v.hss] /\ gstats' = v.g /\ hss \in [Hosts -> HostScanStats]
    BY TypeParts DEF Commit
  <1>2. hss'[h] = v.hss /\ \A k \in Hosts : k # h => hss'[k] = hss[k]
    BY <1>1
  <1>3. Balanced([hss |-> hss[h], g |-> gstats], [hss |-> hss'[h], g |-> gstats'])
    BY <1>1, <1>2 DEF Balanced, OtherActive, OtherSockets, View
  <1> QED BY <1>2, <1>3 DEF Moves

\* A host whose new statistics follow the old, with the group's counts balanced, has moved.
LEMMA FollowsMoves ==
    ASSUME TypeInv, NEW h \in Hosts, NEW v, Commit(h, v), Journal(hss[h], {}, {}),
           Follows(View(h), v)
    PROVE  Moves(h)
  <1>1. View(h).hss = hss[h]
    BY DEF View
  <1>2. Journal(v.hss, {}, {}) /\ Later(hss[h], v.hss)
    BY <1>1, FollowsJournal
  <1> QED BY <1>2, CommitMoves DEF Follows

\* Being made ready to send changes no decision.
LEMMA SameLater ==
    ASSUME NEW s, NEW t, SameHistory(s, t)
    PROVE  Later(s, t)
  BY DEF SameHistory, Later, Decided

\* Being later is transitive.
LEMMA LaterTrans ==
    ASSUME NEW r, NEW s, NEW t, Later(r, s), Later(s, t)
    PROVE  Later(r, t)
  BY DEF Later

\* A journal says nothing of pings, windows and clocks.
LEMMA SameJournal ==
    ASSUME NEW s, NEW t, NEW X, NEW Y, SameHistory(s, t), SamePlaces(s, t),
           t.probes_outstanding = s.probes_outstanding, Journal(s, X, Y)
    PROVE  Journal(t, X, Y)
  BY DEF Journal, SameHistory, SamePlaces, Numbered, Untried, Sorted, BenchAbove, Covered, Held,
         Told, Decided

\* sendPingProbe.
LEMMA PingMoves ==
    ASSUME TypeInv, HostsGood, NEW h \in Hosts, SendPing(h), Journal(hss[h], {}, {})
    PROVE  Moves(h)
  <1>1. PICK t, n, v : /\ Sends(h, t, n, {}, v) /\ Commit(h, v)
                       /\ SamePlaces(hss[h], t) /\ n.pingseq # 0
    BY PingSends
  <1>2. Journal(t, {}, {}) /\ Later(hss[h], t) /\ ~n.retransmitted
    BY <1>1, SameJournal, SameLater DEF Sends, Joins
  <1>3. NextTry(t, n, {}, {})
    BY <1>1, <1>2 DEF NextTry
  <1>4. Journal(v.hss, {}, {}) /\ Later(t, v.hss) /\ Balanced(View(h), v)
    BY <1>1, <1>2, <1>3, SendProgress
  <1> QED BY <1>1, <1>2, <1>4, LaterTrans, CommitMoves

\* sendNextScanProbe.
LEMMA NewMoves ==
    ASSUME TypeInv, HostsGood, NEW h \in Hosts, SendNew(h), Journal(hss[h], {}, {})
    PROVE  Moves(h)
  <1> DEFINE s == hss[h]
  <1>1. PICK t, n, v : /\ Sends(h, t, n, {}, v) /\ Commit(h, v)
                       /\ SamePlaces([s EXCEPT !.fresh = @ \ {n.port}], t)
                       /\ n.port \in s.fresh /\ n.pingseq = 0 /\ n.tryno = 0
    BY NewSends
  <1>2. s \in HostScanStats
    BY TypeParts
  <1>3. /\ t.fresh = s.fresh \ {n.port} /\ t.probe_bench = s.probe_bench
        /\ t.bench_tryno = s.bench_tryno /\ t.retry_stack = s.retry_stack
        /\ SameHistory(s, t) /\ t.probes_outstanding = s.probes_outstanding
        /\ Joins(t, n, {})
    BY <1>1, <1>2 DEF SamePlaces, HostScanStats, Sends
  <1> HIDE DEF s
  <1>0. Journal(s, {}, {})
    BY DEF s
  <1>4. Numbered(t, {}) /\ Sorted(t) /\ BenchAbove(t) /\ (Comparable => Told(t))
    BY <1>0, <1>3 DEF Journal, Numbered, Sorted, BenchAbove, Told, SameHistory
  <1>5. Untried(t, {n.port})
    BY <1>0, <1>3 DEF Journal, Untried, SameHistory
  <1>6. Tracked => Covered(t, {n.port})
    <2>1. \A q \in Ports : Decided(s, q) => Decided(t, q)
      BY <1>3 DEF SameHistory, Decided
    <2>2. \A q \in Ports : q # n.port /\ Held(s, q) => Held(t, q)
      BY <1>3 DEF Held
    <2> QED BY <1>0, <2>1, <2>2 DEF Journal, Covered
  <1>7. Journal(t, {}, {n.port})
    BY <1>4, <1>5, <1>6 DEF Journal
  <1>8. n.tryno = t.tries[n.port]
    BY <1>0, <1>1, <1>3 DEF Journal, Numbered, SameHistory
  <1>9. NextTry(t, n, {}, {n.port})
    BY <1>1, <1>3, <1>8, JoinsNext
  <1>10. Journal(v.hss, {}, {}) /\ Later(t, v.hss) /\ Balanced(View(h), v)
    BY <1>1, <1>7, <1>9, SendProgress
  <1>11. Later(s, t)
    BY <1>3, SameLater
  <1> QED BY <1>1, <1>10, <1>11, LaterTrans, CommitMoves DEF s

\* sendNextRetryStackProbe.
LEMMA RetryMoves ==
    ASSUME TypeInv, HostsGood, NEW h \in Hosts, SendRetry(h), Journal(hss[h], {}, {})
    PROVE  Moves(h)
  <1> DEFINE s == hss[h]
             R == s.retry_stack
  <1>1. PICK t, n, v :
             /\ Sends(h, t, n, {}, v) /\ Commit(h, v)
             /\ SamePlaces([s EXCEPT !.retry_stack = t.retry_stack], t)
             /\ Len(R) \in DOMAIN R /\ n.pingseq = 0
             /\ n.port = R[Len(R)].port /\ n.tryno = R[Len(R)].tries + 1
             /\ DOMAIN t.retry_stack = DOMAIN R \ {Len(R)}
             /\ \A i \in DOMAIN t.retry_stack : t.retry_stack[i] = R[i]
    BY RetrySends
  <1>2. s \in HostScanStats
    BY TypeParts
  <1>3. /\ t.fresh = s.fresh /\ t.probe_bench = s.probe_bench
        /\ t.bench_tryno = s.bench_tryno
        /\ SameHistory(s, t) /\ t.probes_outstanding = s.probes_outstanding
        /\ Joins(t, n, {})
    BY <1>1, <1>2 DEF SamePlaces, HostScanStats, Sends
  <1> HIDE DEF s
  <1>0. Journal(s, {}, {})
    BY DEF s
  <1>4. Numbered(t, {}) /\ Sorted(t) /\ BenchAbove(t) /\ (Comparable => Told(t))
    BY <1>0, <1>1, <1>3 DEF Journal, Numbered, Sorted, BenchAbove, Told, SameHistory
  <1>5. Untried(t, {n.port})
    BY <1>0, <1>3 DEF Journal, Untried, SameHistory
  <1>6. Tracked => Covered(t, {n.port})
    <2>1. \A q \in Ports : Decided(s, q) => Decided(t, q)
      BY <1>3 DEF SameHistory, Decided
    <2>2. \A q \in Ports : q # n.port /\ Held(s, q) => Held(t, q)
      BY <1>1, <1>3 DEF Held
    <2> QED BY <1>0, <2>1, <2>2 DEF Journal, Covered
  <1>7. Journal(t, {}, {n.port})
    BY <1>4, <1>5, <1>6 DEF Journal
  <1>8. n.tryno = t.tries[n.port]
    BY <1>0, <1>1, <1>3 DEF Journal, Numbered, SameHistory
  <1>9. NextTry(t, n, {}, {n.port})
    BY <1>1, <1>3, <1>8, JoinsNext
  <1>10. Journal(v.hss, {}, {}) /\ Later(t, v.hss) /\ Balanced(View(h), v)
    BY <1>1, <1>7, <1>9, SendProgress
  <1>11. Later(s, t)
    BY <1>3, SameLater
  <1> QED BY <1>1, <1>10, <1>11, LaterTrans, CommitMoves DEF s

\* The last lines of retransmitProbe, once the new probe is listed: the journal no
\* longer makes an exception of the old one.
LEMMA RetransmittedProgress ==
    ASSUME NEW v, Sound(v), NEW p \in Awaiting(v.hss.probes_outstanding), Good(v.hss, {p}),
           Journal(v.hss, {p}, {}), NEW n, n.port = p.port, n.tryno # p.tryno,
           Tracked => \/ Decided(v.hss, n.port)
                      \/ \E q \in v.hss.probes_outstanding : SameKey(n, q) /\ Holds(q)
    PROVE  /\ Journal(Retransmitted(v, p).hss, {}, {})
           /\ Later(v.hss, Retransmitted(v, p).hss)
           /\ Balanced(v, Retransmitted(v, p))
  <1> DEFINE s == v.hss
             w == Retransmitted(v, p)
             t == w.hss
             P == s.probes_outstanding
             r == [p EXCEPT !.retransmitted = TRUE]
  <1>1. s \in HostScanStats /\ IsFiniteSet(P) /\ v \in Views
    BY ViewParts DEF Sound
  <1>2. p \in P /\ p.timedout /\ ~p.retransmitted /\ ~isPing(p)
    BY DEF Awaiting
  <1>3. p \in UltraProbe
    BY <1>1, <1>2, BookTypes
  <1>4. /\ r.retransmitted /\ r.sd = p.sd /\ r.port = p.port /\ r.tryno = p.tryno
        /\ r.pingseq = p.pingseq
    BY <1>3 DEF UltraProbe
  <1>5. /\ w.g = v.g
        /\ Books(s, t, (P \ {p}) \cup {r}, s.num_probes_active,
                 s.num_probes_waiting_retransmit - 1)
    BY <1>1, <1>3, RetransmittedSpec
  <1>6. SameHistory(s, t)
    BY <1>1 DEF Retransmitted, HostScanStats, SameHistory
  <1>7. Keyed(s) /\ p.sd = "none"
    BY <1>2 DEF Good, ListInv, FlagsOK
  <1>0. /\ Journal(s, {p}, {})
        /\ Tracked => \/ Decided(s, n.port)
                      \/ \E q \in P : SameKey(n, q) /\ Holds(q)
    OBVIOUS
  <1> HIDE DEF s, w, r
  <1>8. /\ Kept(s, t) /\ t.probes_outstanding = (P \ {p}) \cup {r}
        /\ t.num_probes_active = s.num_probes_active
    BY <1>5 DEF Books
  <1>9. Later(s, t)
    BY <1>6, SameLater
  <1>10. Numbered(t, {})
    <2>1. ASSUME NEW o \in t.probes_outstanding, o.pingseq = 0
          PROVE  o.tryno < t.tries[o.port] /\ (o.retransmitted \/ o.tryno = t.tries[o.port] - 1)
      <3>1. CASE o = r
        <4>1. p.tryno < s.tries[p.port]
          BY <1>0, <1>2, <1>4, <2>1, <3>1 DEF Journal, Numbered
        <4> QED BY <1>4, <1>6, <3>1, <4>1 DEF SameHistory
      <3>2. CASE o \in P /\ o # p
        <4>1. ~SameKey(p, o)
          BY <1>2, <1>7, <3>2 DEF Keyed
        <4> QED BY <1>0, <1>6, <2>1, <3>2, <4>1 DEF Journal, Numbered, SameHistory
      <3> QED BY <1>8, <2>1, <3>1, <3>2
    <2> QED BY <1>0, <1>6, <1>8, <2>1 DEF Journal, Numbered, SameHistory, Kept
  <1>11. Untried(t, {}) /\ Sorted(t) /\ BenchAbove(t) /\ (Comparable => Told(t))
    BY <1>0, <1>6, <1>8 DEF Journal, Untried, Sorted, BenchAbove, Told, SameHistory, Kept
  <1>12. ASSUME Tracked PROVE Covered(t, {})
    <2> SUFFICES ASSUME NEW q \in Ports, ~Decided(t, q) PROVE Held(t, q)
      BY DEF Covered
    <2>1. ~Decided(s, q)
      BY <1>9 DEF Later
    <2>2. Held(s, q)
      BY <1>0, <1>12, <2>1 DEF Journal, Covered
    <2>3. ASSUME NEW o \in P, o.port = q, Holds(o)
          PROVE  \E x \in t.probes_outstanding : x.port = q /\ Holds(x)
      <3>1. CASE o # p
        BY <1>8, <2>3, <3>1
      <3>2. CASE o = p
        <4>1. PICK x \in P : SameKey(n, x) /\ Holds(x)
          BY <1>0, <1>12, <2>1, <2>3, <3>2
        <4>2. x # p /\ x.port = q
          BY <2>3, <3>2, <4>1 DEF SameKey
        <4> QED BY <1>8, <4>1, <4>2
      <3> QED BY <3>1, <3>2
    <2> QED BY <1>8, <2>2, <2>3 DEF Held, Kept
  <1>13. Balanced(v, w)
    <2>1. Watched((P \ {p}) \cup {r}) = Watched(P)
      BY <1>4, <1>7 DEF Watched
    <2>2. OtherActive(w) = OtherActive(v)
      BY <1>5, <1>8 DEF OtherActive, s
    <2>3. OtherSockets(w) = OtherSockets(v)
      BY <1>5, <1>8, <2>1 DEF OtherSockets, s
    <2> QED BY <2>2, <2>3 DEF Balanced
  <1> QED BY <1>9, <1>10, <1>11, <1>12, <1>13 DEF Journal, s, w

\* retransmitProbe.
LEMMA RetransmitMoves ==
    ASSUME TypeInv, HostsGood, NEW h \in Hosts, Retransmit(h), Journal(hss[h], {}, {})
    PROVE  Moves(h)
  <1>1. PICK t, n, v, p :
             /\ Sends(h, t, n, {p}, v) /\ SamePlaces(hss[h], t)
             /\ p \in hss[h].probes_outstanding /\ p.pingseq = 0 /\ ~p.retransmitted
             /\ n.pingseq = 0 /\ n.port = p.port /\ n.tryno = p.tryno + 1
             /\ \/ v.hss.probes_outstanding = {} /\ Commit(h, v)
                \/ /\ p \in Awaiting(v.hss.probes_outstanding)
                   /\ Commit(h, Retransmitted(v, p))
    BY RetransmitSends
  <1>2. Journal(t, {}, {}) /\ Later(hss[h], t)
    BY <1>1, SameJournal, SameLater DEF Sends
  <1>3. t \in HostScanStats /\ p \in t.probes_outstanding /\ Joins(t, n, {p})
    BY <1>1 DEF Sends
  <1>4. p.tryno \in Int /\ p.port \in Ports /\ t.tries[p.port] \in Int
    BY <1>3, BookTypes, HostFields
  <1>5. p.tryno = t.tries[p.port] - 1
    BY <1>1, <1>2, <1>3 DEF Journal, Numbered
  <1>6. n.tryno = t.tries[n.port] /\ n.tryno # p.tryno
    BY <1>1, <1>4, <1>5
  <1>7. NextTry(t, n, {p}, {})
    BY <1>1, <1>3, <1>6, JoinsNext
  <1>8. /\ Journal(v.hss, {p}, {}) /\ Later(t, v.hss) /\ Balanced(View(h), v)
        /\ Tracked => \/ Decided(v.hss, n.port)
                      \/ \E q \in v.hss.probes_outstanding : SameKey(n, q) /\ Holds(q)
    BY <1>1, <1>2, <1>7, SendProgress
  <1>9. Later(hss[h], v.hss)
    BY <1>2, <1>8, LaterTrans
  <1>10. Sound(v) /\ Good(v.hss, {p})
    BY <1>1, SendsGood
  <1>11. CASE v.hss.probes_outstanding = {} /\ Commit(h, v)
    <2>1. Numbered(v.hss, {})
      BY <1>8, <1>11 DEF Journal, Numbered
    <2>2. Journal(v.hss, {}, {})
      BY <1>8, <2>1 DEF Journal
    <2> QED BY <1>8, <1>9, <1>11, <2>2, CommitMoves
  <1>12. CASE p \in Awaiting(v.hss.probes_outstanding) /\ Commit(h, Retransmitted(v, p))
    <2>1. /\ Journal(Retransmitted(v, p).hss, {}, {})
          /\ Later(v.hss, Retransmitted(v, p).hss)
          /\ Balanced(v, Retransmitted(v, p))
      BY <1>1, <1>6, <1>8, <1>10, <1>12, RetransmittedProgress
    <2>2. Balanced(View(h), Retransmitted(v, p))
      BY <1>8, <2>1 DEF Balanced
    <2> QED BY <1>9, <1>12, <2>1, <2>2, LaterTrans, CommitMoves
  <1> QED BY <1>1, <1>11, <1>12

\* The packet handlers of waitForResponses.
LEMMA AnswersMoves ==
    ASSUME TypeInv, HostsGood, NEW h \in Hosts, Journal(hss[h], {}, {}),
           PingAnswer(h) \/ PortAnswer(h) \/ DiscoveryAnswer(h) \/ ArpAnswer(h)
    PROVE  Moves(h)
  <1> DEFINE P == hss[h].probes_outstanding
  <1>1. Sound(View(h)) /\ View(h).hss = hss[h]
    BY ViewGood
  <1>2. ASSUME NEW v, Commit(h, v), Follows(View(h), v)
        PROVE  Moves(h)
    BY <1>2, FollowsMoves
  <1>3. CASE PingAnswer(h)
    <2>1. PICK v \in UNION {ultrascan_ping_update(View(h), p, TRUE) : p \in Pings(hss[h])} :
            Commit(h, v)
      BY <1>3 DEF PingAnswer, Answered
    <2>2. PICK p \in Pings(hss[h]) : v \in ultrascan_ping_update(View(h), p, TRUE)
      BY <2>1
    <2>3. p \in P /\ isPing(p)
      BY DEF Pings
    <2>4. Follows(View(h), v)
      BY <1>1, <2>2, <2>3, PingUpdateFollows
    <2> QED BY <1>2, <2>1, <2>4
  <1>4. CASE PortAnswer(h)
    <2>1. PICK v \in UNION {ultrascan_port_probe_update(View(h), p, r) :
                              p \in ScanProbes(hss[h]), r \in Responses} : Commit(h, v)
      BY <1>4 DEF PortAnswer, Answered
    <2>2. PICK p \in ScanProbes(hss[h]), r \in Responses :
            v \in ultrascan_port_probe_update(View(h), p, r)
      BY <2>1
    <2>3. p \in P /\ r \in Answerable /\ ~PingScan
      BY <1>4 DEF ScanProbes, Answerable, PortAnswer, Answered
    <2>4. Follows(View(h), v)
      BY <1>1, <2>2, <2>3, PortUpdateFollows
    <2> QED BY <1>2, <2>1, <2>4
  <1>5. CASE DiscoveryAnswer(h)
    <2>1. PICK v \in UNION {HostAnswer(View(h), p, r) :
                              p \in ScanProbes(hss[h]), r \in {"up", "down"}} : Commit(h, v)
      BY <1>5 DEF DiscoveryAnswer, Answered
    <2>2. PICK p \in ScanProbes(hss[h]), r \in {"up", "down"} : v \in HostAnswer(View(h), p, r)
      BY <2>1
    <2>3. p \in P /\ PingScan
      BY <1>5 DEF ScanProbes, DiscoveryAnswer
    <2>4. Follows(View(h), v)
      BY <1>1, <2>2, <2>3, HostAnswerFollows
    <2> QED BY <1>2, <2>1, <2>4
  <1>6. CASE ArpAnswer(h)
    <2>1. PICK v \in UNION {HostAnswer(View(h), p, "up") : p \in P} : Commit(h, v)
      BY <1>6 DEF ArpAnswer, Answered
    <2>2. PICK p \in P : v \in HostAnswer(View(h), p, "up")
      BY <2>1
    <2>3. PingScan
      BY <1>6, ScanAssumption DEF ArpAnswer
    <2>4. Follows(View(h), v)
      BY <1>1, <2>2, <2>3, HostAnswerFollows
    <2> QED BY <1>2, <2>1, <2>4
  <1> QED BY <1>3, <1>4, <1>5, <1>6

\* A probe whose socket's error has been read is the same to the journal.
LEMMA DrainedFollows ==
    ASSUME NEW u, Sound(u), NEW p \in u.hss.probes_outstanding, p.sd # "none",
           NEW q, q = [p EXCEPT !.sd = "drained"],
           NEW v, v = [hss |-> [u.hss EXCEPT !.probes_outstanding = (@ \ {p}) \cup {q}],
                       g |-> u.g],
           Keyed(u.hss)
    PROVE  Follows(u, v) /\ Sound(v) /\ q \in v.hss.probes_outstanding
  <1> DEFINE s == u.hss
             P == s.probes_outstanding
             t == v.hss
             W == (P \ {p}) \cup {q}
  <1>1. s \in HostScanStats /\ u.g \in GroupStats /\ IsFiniteSet(P) /\ u \in Views
    BY ViewParts DEF Sound
  <1>2. p \in UltraProbe /\ p \in P
    BY <1>1, BookTypes
  <1>3. /\ q \in UltraProbe /\ SameKey(p, q) /\ q.sd # "none"
        /\ q.retransmitted = p.retransmitted /\ (Holds(p) => Holds(q))
    BY <1>2 DEF UltraProbe, SameKey, Holds
  <1>4. v.g = u.g /\ t = [s EXCEPT !.probes_outstanding = W] /\ v = [hss |-> t, g |-> u.g]
    OBVIOUS
  <1>5. /\ t.tries = s.tries /\ t.timedOut = s.timedOut /\ t.seen = s.seen
        /\ t.port_state = s.port_state /\ t.flags = s.flags
        /\ t.probes_outstanding = W /\ t.num_probes_active = s.num_probes_active
        /\ t.fresh = s.fresh /\ t.probe_bench = s.probe_bench
        /\ t.bench_tryno = s.bench_tryno /\ t.retry_stack = s.retry_stack
        /\ t.nxtpseq = s.nxtpseq /\ t.max_successful_tryno = s.max_successful_tryno
    BY <1>1, <1>4 DEF HostScanStats
  <1>6. W \in SUBSET UltraProbe
    BY <1>1, <1>3, HostFields
  <1>7. t \in HostScanStats
    BY <1>1, <1>4, <1>6 DEF HostScanStats
  <1>8. v \in Views
    BY <1>1, <1>4, <1>7 DEF Views
  <1>9. IsFiniteSet(W)
    BY <1>1, SwapFinite
  <1>10. s.max_successful_tryno \in Int
    BY <1>1, HostFields
  <1>13. p.sd # "none" /\ Keyed(s)
    OBVIOUS
  <1> HIDE DEF t, s
  <1>11. Kept(s, t)
    BY <1>5, <1>10 DEF Kept
  <1>12. Hears(s, t)
    BY <1>5, HearsSame
  <1>14. Passes(s, t)
    BY <1>2, <1>3, <1>5 DEF Passes, SameKey
  <1>15. Cardinality(Watched(W)) = Cardinality(Watched(P))
    <2>1. CASE q \in P
      <3>1. q = p
        BY <1>2, <1>3, <1>13, <2>1 DEF Keyed
      <3>2. W = P
        BY <1>2, <3>1
      <3> QED BY <3>2
    <2>2. CASE q \notin P
      <3>1. IsFiniteSet(P \ {p}) /\ q \notin P \ {p}
        BY <1>1, <2>2, FS_RemoveElement
      <3>2. /\ Cardinality(Watched(W)) = Cardinality(Watched(P \ {p})) + One(q.sd # "none")
            /\ Cardinality(Watched(P \ {p})) \in Nat
        BY <3>1, WatchedAdd
      <3>3. /\ Cardinality(Watched(P \ {p})) = Cardinality(Watched(P)) - One(p.sd # "none")
            /\ Cardinality(Watched(P)) \in Nat
        BY <1>1, <1>2, WatchedRemove
      <3>4. One(q.sd # "none") = 1 /\ One(p.sd # "none") = 1
        BY <1>3, <1>13 DEF One
      <3> QED BY <3>2, <3>3, <3>4
    <2> QED BY <2>1, <2>2
  <1>16. Balanced(u, v)
    BY <1>4, <1>5, <1>15 DEF Balanced, OtherActive, OtherSockets, s, t
  <1>17. Follows(u, v)
    BY <1>1, <1>7, <1>11, <1>12, <1>14, <1>16 DEF Follows, s, t
  <1> QED BY <1>5, <1>8, <1>9, <1>17 DEF Sound, t

\* do_one_select_round.
LEMMA SelectMoves ==
    ASSUME TypeInv, HostsGood, NEW h \in Hosts, Journal(hss[h], {}, {}), SelectAnswer(h)
    PROVE  Moves(h)
  <1>1. PICK p \in Watched(hss[h].probes_outstanding) :
         \E e \in (IF p.sd = "drained" THEN {"accept"} ELSE Errnos) :
         LET q == [p EXCEPT !.sd = "drained"]
             s == [hss[h] EXCEPT !.probes_outstanding = (@ \ {p}) \cup {q}]
             u == [View(h) EXCEPT !.hss = s]
         IN  \E v \in handleConnectResult(u, q, e, FALSE) : Commit(h, v)
    BY DEF SelectAnswer
  <1> DEFINE r == hss[h]
             q == [p EXCEPT !.sd = "drained"]
             s == [r EXCEPT !.probes_outstanding = (@ \ {p}) \cup {q}]
             u == [View(h) EXCEPT !.hss = s]
             w == View(h)
  <1>2. PICK e \in (IF p.sd = "drained" THEN {"accept"} ELSE Errnos) :
          \E v \in handleConnectResult(u, q, e, FALSE) : Commit(h, v)
    BY <1>1
  <1>3. PICK v \in handleConnectResult(u, q, e, FALSE) : Commit(h, v)
    BY <1>2
  <1>4. /\ Sound(w) /\ w.hss = r /\ w.g = gstats /\ Keyed(r) /\ p \in r.probes_outstanding
        /\ p.sd # "none" /\ ConnectScan /\ e \in Errnos \cup {"accept"}
    BY ViewGood DEF Good, ListInv, View, Watched, SelectAnswer
  <1>5. u = [hss |-> [w.hss EXCEPT !.probes_outstanding = (@ \ {p}) \cup {q}], g |-> w.g]
    BY <1>4 DEF View
  <1> HIDE DEF u, w, q
  <1>6. Follows(w, u) /\ Sound(u) /\ q \in u.hss.probes_outstanding
    BY <1>4, <1>5, DrainedFollows DEF q
  <1>7. Follows(u, v)
    BY <1>3, <1>4, <1>6, ConnectResultFollows
  <1>8. Follows(w, v)
    BY <1>6, <1>7, FollowsTrans
  <1> QED BY <1>3, <1>8, FollowsMoves DEF w

\* Only flags and clocks changed, and those did not go back.
Light(s, t) ==
    /\ SamePlaces(s, t)
    /\ t.probes_outstanding = s.probes_outstanding
    /\ t.num_probes_active = s.num_probes_active
    /\ t.tries = s.tries /\ t.seen = s.seen /\ t.port_state = s.port_state
    /\ s.flags # "unknown" => t.flags # "unknown"
    /\ s.timedOut => t.timedOut

\* A change that touches no list and no history keeps the journal.
LEMMA LightJournal ==
    ASSUME NEW s, NEW t, Light(s, t), NEW X, NEW Y, Journal(s, X, Y)
    PROVE  Journal(t, X, Y) /\ Later(s, t)
  <1>1. Later(s, t)
    BY DEF Light, Later, Decided
  <1>2. /\ t.fresh = s.fresh /\ t.probe_bench = s.probe_bench
        /\ t.bench_tryno = s.bench_tryno /\ t.retry_stack = s.retry_stack
        /\ t.probes_outstanding = s.probes_outstanding
        /\ t.tries = s.tries /\ t.seen = s.seen /\ t.port_state = s.port_state
    BY DEF Light, SamePlaces
  <1>3. Numbered(t, X) /\ Untried(t, Y) /\ Sorted(t) /\ BenchAbove(t) /\ (Comparable => Told(t))
    BY <1>2 DEF Journal, Numbered, Untried, Sorted, BenchAbove, Told
  <1>4. Tracked => Covered(t, Y)
    BY <1>1, <1>2 DEF Journal, Covered, Held, Later
  <1> QED BY <1>1, <1>3, <1>4 DEF Journal

\* Nothing changed is a light change.
LEMMA LightSelf == \A s : Light(s, s)
  BY DEF Light, SamePlaces

\* allowedTryno().
LEMMA AfterAllowedLight ==
    ASSUME NEW s \in HostScanStats
    PROVE  Light(s, AfterAllowedTryno(s))
  <1> DEFINE t == AfterAllowedTryno(s)
             b == MayIncrease(s)
  <1>1. t = [s EXCEPT !.tryno_mayincrease = b]
    BY DEF AfterAllowedTryno
  <1> HIDE DEF t, b
  <1>2. Light(s, t)
    BY <1>1 DEF HostScanStats, Light, SamePlaces
  <1> QED BY <1>2 DEF t

\* No probe was sent, answered or expired, and nothing was decided otherwise.
Still ==
    /\ gstats'.num_probes_active = gstats.num_probes_active /\ gstats'.numSDs = gstats.numSDs
    /\ \A k \in Hosts :
          /\ hss'[k].probes_outstanding = hss[k].probes_outstanding
          /\ Journal(hss'[k], {}, {}) /\ Later(hss[k], hss'[k])

Journals == \A h \in Hosts : Journal(hss[h], {}, {})

\* Light steps.
LEMMA LightStill ==
    ASSUME Journals, gstats' = gstats, \A k \in Hosts : Light(hss[k], hss'[k])
    PROVE  Still
  <1>1. \A k \in Hosts : Journal(hss'[k], {}, {}) /\ Later(hss[k], hss'[k])
    BY LightJournal DEF Journals
  <1> QED BY <1>1 DEF Still, Light

\* A light change of one host leaves the scan where it was.
LEMMA OneLightStill ==
    ASSUME TypeInv, Journals, gstats' = gstats, NEW h \in Hosts, NEW t, Light(hss[h], t),
           hss' = [hss EXCEPT ![h] = t]
    PROVE  Still
  <1>1. hss \in [Hosts -> HostScanStats]
    BY TypeParts
  <1>2. \A k \in Hosts : hss'[k] = IF k = h THEN t ELSE hss[k]
    BY <1>1
  <1>3. \A k \in Hosts : Light(hss[k], hss'[k])
    BY <1>2, LightSelf
  <1> QED BY <1>3, LightStill

\* The steps that only lower a flag, a clock or a count of pings.
LEMMA LightStepsStill ==
    ASSUME TypeInv, Journals, NEW h \in Hosts,
           \/ NothingToRetransmit(h) \/ BeginRateLimitWait(h) \/ UnsolicitedReply(h)
           \/ RateLimitWaitOver(h) \/ HostClockExpires(h)
    PROVE  Still
  <1> DEFINE r == hss[h]
             s == AfterAllowedTryno(r)
  <1>1. r \in HostScanStats
    BY TypeParts
  <1>2. Light(r, s) /\ s \in HostScanStats
    BY <1>1, AllowedTrynoType, AfterAllowedLight
  <1>3. CASE NothingToRetransmit(h)
    <2>1. hss' = [hss EXCEPT ![h] = s] /\ gstats' = gstats
      BY <1>3 DEF NothingToRetransmit
    <2> HIDE DEF s
    <2> QED BY <1>2, <2>1, OneLightStill
  <1>4. CASE BeginRateLimitWait(h)
    <2>1. PICK p \in Retransmittable(r) :
            hss' = [hss EXCEPT ![h] = [AfterAllowedTryno(@) EXCEPT
                      !.rld_max_tryno_sent = p.tryno + 1, !.rld = "waiting"]]
      BY <1>4 DEF BeginRateLimitWait
    <2> DEFINE n == p.tryno + 1
               t == [s EXCEPT !.rld_max_tryno_sent = n, !.rld = "waiting"]
    <2>2. hss' = [hss EXCEPT ![h] = t] /\ gstats' = gstats
      BY <1>4, <2>1 DEF BeginRateLimitWait
    <2> HIDE DEF s, n, r
    <2>3. Light(r, t)
      BY <1>2 DEF HostScanStats, Light, SamePlaces
    <2> HIDE DEF t
    <2> QED BY <2>2, <2>3, OneLightStill DEF r
  <1>5. CASE UnsolicitedReply(h)
    <2> DEFINE t == [r EXCEPT !.flags = "up"]
    <2>1. hss' = [hss EXCEPT ![h] = t] /\ gstats' = gstats
      BY <1>5 DEF UnsolicitedReply
    <2> HIDE DEF r
    <2>2. Light(r, t)
      BY <1>1 DEF HostScanStats, Light, SamePlaces
    <2> HIDE DEF t
    <2> QED BY <2>1, <2>2, OneLightStill DEF r
  <1>6. CASE RateLimitWaitOver(h)
    <2> DEFINE t == [r EXCEPT !.rld = "over"]
    <2>1. hss' = [hss EXCEPT ![h] = t] /\ gstats' = gstats
      BY <1>6 DEF RateLimitWaitOver
    <2> HIDE DEF r
    <2>2. Light(r, t)
      BY <1>1 DEF HostScanStats, Light, SamePlaces
    <2> HIDE DEF t
    <2> QED BY <2>1, <2>2, OneLightStill DEF r
  <1>7. CASE HostClockExpires(h)
    <2> DEFINE t == [r EXCEPT !.timedOut = TRUE]
    <2>1. hss' = [hss EXCEPT ![h] = t] /\ gstats' = gstats
      BY <1>7 DEF HostClockExpires
    <2> HIDE DEF r
    <2>2. Light(r, t)
      BY <1>1 DEF HostScanStats, Light, SamePlaces
    <2> HIDE DEF t
    <2> QED BY <2>1, <2>2, OneLightStill DEF r
  <1> QED BY <1>3, <1>4, <1>5, <1>6, <1>7

\* removeCompletedHosts stops clocks.
LEMMA RemoveLight ==
    ASSUME TypeInv, removeCompletedHosts, NEW h \in Hosts
    PROVE  Light(hss[h], hss'[h])
  <1> DEFINE r == hss[h]
             t == [r EXCEPT !.clock = "stopped"]
  <1>1. r \in HostScanStats
    BY TypeParts
  <1>2. hss'[h] = r \/ hss'[h] = t
    BY DEF removeCompletedHosts
  <1> HIDE DEF r
  <1>3. Light(r, t)
    BY <1>1 DEF HostScanStats, Light, SamePlaces
  <1> HIDE DEF t
  <1> QED BY <1>2, <1>3, LightSelf DEF r

\* printAnyStats() calls allowedTryno().
LEMMA EndNewStill ==
    ASSUME TypeInv, Journals, EndNew
    PROVE  Still
  <1>1. ASSUME NEW h \in Hosts PROVE Light(hss[h], hss'[h])
    <2>1. hss'[h] = hss[h] \/ hss'[h] = AfterAllowedTryno(hss[h])
      BY DEF EndNew
    <2>2. hss[h] \in HostScanStats
      BY TypeParts
    <2> QED BY <2>1, <2>2, AfterAllowedLight, LightSelf
  <1>2. gstats' = gstats
    BY DEF EndNew
  <1> QED BY <1>1, <1>2, LightStill

\* The global ping, and its expiry.
LEMMA GlobalPingMoves ==
    ASSUME TypeInv, HostsGood, Journals, GlobalPing \/ ExpireGlobalPing
    PROVE  pinghost \in Hosts /\ Moves(pinghost)
  <1>1. pinghost \in Hosts
    BY TypeParts DEF TypeInv, TypeOK, GlobalPing, ExpireGlobalPing
  <1>2. Journal(hss[pinghost], {}, {})
    BY <1>1 DEF Journals
  <1>3. CASE GlobalPing
    BY <1>1, <1>2, <1>3, PingMoves DEF GlobalPing
  <1>4. CASE ExpireGlobalPing
    <2>1. PICK p \in hss[pinghost].probes_outstanding :
             isPing(p) /\ \E v \in ultrascan_ping_update(View(pinghost), p, FALSE) :
                              Commit(pinghost, v)
      BY <1>4 DEF ExpireGlobalPing
    <2>2. PICK v \in ultrascan_ping_update(View(pinghost), p, FALSE) : Commit(pinghost, v)
      BY <2>1
    <2>3. Sound(View(pinghost)) /\ View(pinghost).hss = hss[pinghost]
      BY <1>1, ViewGood
    <2>4. Follows(View(pinghost), v)
      BY <2>1, <2>2, <2>3, PingUpdateFollows
    <2> QED BY <1>1, <1>2, <2>2, <2>4, FollowsMoves
  <1> QED BY <1>1, <1>3, <1>4

\* The tries allowed are those a silent port gets, at least.
LEMMA AllowedEnough ==
    ASSUME NEW s \in HostScanStats
    PROVE  allowedTryno(s) \in Int /\ allowedTryno(s) >= Enough - 1
  <1>1. s.max_successful_tryno \in Nat
    BY HostFields, ScanAssumption
  <1> QED BY <1>1, ScanAssumption DEF allowedTryno, Enough

\* What processData makes of a bench: its ports are stacked above the others, or have
\* been tried often enough.
LEMMA BenchJournal ==
    ASSUME NEW s \in HostScanStats, Good(s, {}), Journal(s, {}, {})
    PROVE  Journal(AfterBench(s), {}, {}) /\ Later(s, AfterBench(s))
  <1>0. /\ Numbered(s, {}) /\ Untried(s, {}) /\ Sorted(s) /\ BenchAbove(s)
        /\ Tracked => Covered(s, {})
        /\ Comparable => Told(s)
    BY DEF Journal
  <1>1. ASSUME NEW t, t = dismissBench(s), s.probe_bench # <<>>, allowedTryno(s) = s.bench_tryno
        PROVE  Journal(t, {}, {}) /\ Later(s, t)
    <2>1. /\ t.probe_bench = <<>> /\ t.probes_outstanding = s.probes_outstanding
          /\ t.fresh = s.fresh /\ t.retry_stack = s.retry_stack
          /\ t.tries = s.tries /\ t.seen = s.seen /\ t.port_state = s.port_state
          /\ t.timedOut = s.timedOut
          /\ PingScan => t.flags \in {"up", "down"}
          /\ ~PingScan => t.flags = s.flags
      <3> DEFINE f == IF PingScan /\ s.flags # "up" THEN "down" ELSE s.flags
      <3>1. t = [s EXCEPT !.flags = f, !.probe_bench = <<>>, !.bench_tryno = 0]
        BY <1>1 DEF dismissBench
      <3>2. (PingScan => f \in {"up", "down"}) /\ (~PingScan => f = s.flags)
        OBVIOUS
      <3> HIDE DEF f
      <3> QED BY <3>1, <3>2 DEF HostScanStats
    <2>2. DOMAIN t.probe_bench = {}
      BY <2>1
    <2>3. Later(s, t)
      BY <2>1 DEF Later, Decided
    <2>4. Numbered(t, {}) /\ Untried(t, {}) /\ Sorted(t) /\ BenchAbove(t) /\ (Comparable => Told(t))
      BY <1>0, <2>1, <2>2 DEF Numbered, Untried, Sorted, BenchAbove, Told
    <2>5. ASSUME NEW i \in DOMAIN s.probe_bench
          PROVE  Decided(t, s.probe_bench[i])
      <3>1. s.tries[s.probe_bench[i]] = allowedTryno(s) + 1
        BY <1>0, <1>1 DEF Numbered
      <3>2. s.tries[s.probe_bench[i]] >= Enough
        BY <3>1, AllowedEnough DEF Enough
      <3> QED BY <2>1, <3>2 DEF Decided
    <2>6. ASSUME Tracked PROVE Covered(t, {})
      <3> SUFFICES ASSUME NEW q \in Ports, ~Decided(t, q) PROVE Held(t, q)
        BY DEF Covered
      <3>1. Held(s, q)
        BY <1>0, <2>3, <2>6 DEF Covered, Later
      <3> QED BY <2>1, <2>5, <3>1 DEF Held
    <2> QED BY <2>3, <2>4, <2>6 DEF Journal
  <1>2. ASSUME NEW t, t = retransmitBench(s), s.probe_bench # <<>>,
               allowedTryno(s) > s.bench_tryno
        PROVE  Journal(t, {}, {}) /\ Later(s, t)
    <2> DEFINE R == s.retry_stack
               B == s.probe_bench
               S == t.retry_stack
    <2> PICK m : m = Len(R)
      OBVIOUS
    <2>1. /\ t.probe_bench = <<>> /\ t.probes_outstanding = s.probes_outstanding
          /\ t.fresh = s.fresh /\ SameHistory(s, t)
          /\ m \in Nat /\ DOMAIN S \subseteq Int
          /\ \A i \in DOMAIN R : i \in 1..m /\ i \in DOMAIN S /\ S[i] = R[i]
          /\ \A j \in DOMAIN B : j > 0 /\ m + j \in DOMAIN S /\ S[m + j].port = B[j]
      BY <1>2, RetryFields
    <2>2. \A i \in DOMAIN S :
              \/ i \in DOMAIN R /\ S[i] = R[i]
              \/ i - m \in DOMAIN B /\ S[i].port = B[i - m] /\ S[i].tries = s.bench_tryno
      BY <1>2, RetryFields
    <2>3. DOMAIN t.probe_bench = {}
      BY <2>1
    <2>4. Later(s, t)
      BY <2>1, SameLater
    <2>5. \A i \in DOMAIN R : R[i].tries < s.bench_tryno
      BY <1>0, <1>2 DEF BenchAbove
    <2>6. s.bench_tryno \in Int /\ \A i \in DOMAIN R : R[i].tries \in Int
      BY BookTypes
    <2> HIDE DEF S, B
    <2>7. \A i \in DOMAIN S : s.tries[S[i].port] = S[i].tries + 1
      BY <1>0, <2>2 DEF Numbered, B
    <2>8. Numbered(t, {})
      BY <1>0, <2>1, <2>3, <2>7 DEF Numbered, SameHistory, S
    <2>9. Sorted(t)
      <3>1. ASSUME NEW i \in DOMAIN S, NEW j \in DOMAIN S, i < j
            PROVE  S[i].tries <= S[j].tries
        <4>1. CASE i \in DOMAIN R /\ S[i] = R[i]
          <5>1. CASE j \in DOMAIN R /\ S[j] = R[j]
            BY <1>0, <3>1, <4>1, <5>1 DEF Sorted
          <5>2. CASE S[j].tries = s.bench_tryno
            BY <2>5, <2>6, <4>1, <5>2
          <5> QED BY <2>2, <5>1, <5>2
        <4>2. CASE i - m \in DOMAIN B /\ S[i].tries = s.bench_tryno
          <5>1. i > m
            BY <2>1, <4>2
          <5>2. j \notin DOMAIN R
            BY <2>1, <3>1, <5>1
          <5> QED BY <2>2, <2>6, <4>2, <5>2
        <4> QED BY <2>2, <4>1, <4>2
      <3> QED BY <3>1 DEF Sorted, S
    <2>10. Untried(t, {}) /\ BenchAbove(t) /\ (Comparable => Told(t))
      BY <1>0, <2>1 DEF Untried, BenchAbove, Told, SameHistory
    <2>11. ASSUME Tracked PROVE Covered(t, {})
      <3> SUFFICES ASSUME NEW q \in Ports, ~Decided(t, q) PROVE Held(t, q)
        BY DEF Covered
      <3>1. Held(s, q)
        BY <1>0, <2>4, <2>11 DEF Covered, Later
      <3>2. CASE \E i \in DOMAIN B : B[i] = q
        BY <2>1, <3>2 DEF Held, S
      <3>3. CASE \E i \in DOMAIN R : R[i].port = q
        BY <2>1, <3>3 DEF Held, S
      <3>4. CASE q \in s.fresh \/ \E p \in s.probes_outstanding : p.port = q /\ Holds(p)
        BY <2>1, <3>4 DEF Held
      <3> QED BY <3>1, <3>2, <3>3, <3>4 DEF Held, B
    <2> QED BY <2>4, <2>8, <2>9, <2>10, <2>11 DEF Journal
  <1>3. CASE AfterBench(s) = s
    BY <1>3 DEF Later
  <1>4. \/ s.probe_bench # <<>> /\ allowedTryno(s) = s.bench_tryno /\ AfterBench(s) = dismissBench(s)
        \/ s.probe_bench # <<>> /\ AfterBench(s) = retransmitBench(s)
             /\ allowedTryno(s) > s.bench_tryno
        \/ AfterBench(s) = s
    BY DEF AfterBench
  <1> QED BY <1>1, <1>2, <1>3, <1>4

\* While processData visits a host, the tries it allows are enough, and those of the
\* stack are below them.
CurNext == cur # NoCur =>
    /\ cur.maxtries >= Enough - 1
    /\ \A i \in DOMAIN hss[cur.host].retry_stack :
          hss[cur.host].retry_stack[i].tries < cur.maxtries

\* processData turns to a host.
LEMMA VisitStill ==
    ASSUME TypeInv, HostsGood, Journals, NEW h \in Hosts, VisitHost(h)
    PROVE  Still /\ CurNext'
  <1> DEFINE r == hss[h]
             s == AfterAllowedTryno(r)
             t == AfterBench(s)
  <1>1. r \in HostScanStats /\ Good(r, {}) /\ hss \in [Hosts -> HostScanStats]
    BY TypeParts DEF HostsGood
  <1>2. s \in HostScanStats /\ SameBooks(r, s) /\ Light(r, s)
    BY <1>1, AllowedTrynoType, AfterAllowedBooks, AfterAllowedLight
  <1>3. /\ hss' = [hss EXCEPT ![h] = t] /\ gstats' = gstats
        /\ cur'.host = h /\ cur'.maxtries = allowedTryno(s)
    BY DEF VisitHost
  <1> HIDE DEF s
  <1>4. Good(s, {})
    BY <1>1, <1>2, GoodKept DEF SameBooks
  <1>5. Journal(s, {}, {}) /\ Later(r, s)
    BY <1>2, LightJournal DEF Journals
  <1>6. /\ Good(t, {}) /\ t.probes_outstanding = s.probes_outstanding
        /\ Journal(t, {}, {}) /\ Later(s, t)
    BY <1>2, <1>4, <1>5, AfterBenchGood, BenchSpec, BenchJournal
  <1>7. allowedTryno(t) = allowedTryno(s)
    <2>1. dismissBench(s).max_successful_tryno = s.max_successful_tryno
          /\ retransmitBench(s).max_successful_tryno = s.max_successful_tryno
      BY <1>2 DEF dismissBench, retransmitBench, HostScanStats
    <2>2. AfterBench(s) \in {s, dismissBench(s), retransmitBench(s)}
      BY DEF AfterBench
    <2>3. t.max_successful_tryno = s.max_successful_tryno
      BY <2>1, <2>2
    <2> QED BY <2>3 DEF allowedTryno
  <1> HIDE DEF t, r
  <1>8. \A k \in Hosts : hss'[k] = IF k = h THEN t ELSE hss[k]
    BY <1>1, <1>3
  <1>9. t.probes_outstanding = r.probes_outstanding /\ Later(r, t)
    BY <1>2, <1>5, <1>6, LaterTrans DEF Light
  <1>10. \A k \in Hosts : k # h => Journal(hss'[k], {}, {}) /\ Later(hss[k], hss'[k])
    BY <1>8, LightSelf, LightJournal DEF Journals
  <1>11. Still
    BY <1>3, <1>6, <1>8, <1>9, <1>10 DEF Still, r
  <1>12. \A i \in DOMAIN t.retry_stack : t.retry_stack[i].tries < allowedTryno(s)
    BY <1>6, <1>7 DEF Good, ListInv, WithinAllowed
  <1>13. CurNext'
    BY <1>2, <1>3, <1>8, <1>12, AllowedEnough DEF CurNext
  <1> QED BY <1>11, <1>13

\* moveProbeToBench: the port waits on the bench with the number of its last try.
LEMMA MoveJournal ==
    ASSUME NEW s \in HostScanStats, Journal(s, {}, {}), NEW p \in s.probes_outstanding,
           Holds(p), s.probe_bench # <<>> => s.bench_tryno = p.tryno,
           s.probe_bench = <<>> =>
              \A i \in DOMAIN s.retry_stack : s.retry_stack[i].tries < p.tryno
    PROVE  Journal(moveProbeToBench(s, p), {}, {}) /\ Later(s, moveProbeToBench(s, p))
  <1> DEFINE t == moveProbeToBench(s, p)
             B == s.probe_bench
  <1>0. /\ Numbered(s, {}) /\ Untried(s, {}) /\ Sorted(s) /\ BenchAbove(s)
        /\ Tracked => Covered(s, {})
        /\ Comparable => Told(s)
    BY DEF Journal
  <1>1. /\ t.bench_tryno = (IF B = <<>> THEN p.tryno ELSE s.bench_tryno)
        /\ t.probe_bench = Append(B, p.port)
        /\ t.probes_outstanding = s.probes_outstanding \ {p}
        /\ t.fresh = s.fresh /\ t.retry_stack = s.retry_stack
    BY MoveFields
  <1>2. SameHistory(s, t)
    BY DEF moveProbeToBench, HostScanStats, SameHistory
  <1>3. p \in UltraProbe /\ p.port \in Ports /\ p.tryno \in Int /\ p.pingseq = 0
        /\ ~p.retransmitted /\ B \in Seq(Ports) /\ s.tries[p.port] \in Int
    BY BookTypes, HostFields, ProbeFields DEF Holds
  <1>4. t.bench_tryno = p.tryno
    BY <1>1
  <1> HIDE DEF t
  <1>5. /\ DOMAIN t.probe_bench = 1..Len(B) + 1 /\ DOMAIN B = 1..Len(B) /\ Len(B) \in Nat
        /\ \A i \in DOMAIN B : t.probe_bench[i] = B[i]
        /\ t.probe_bench[Len(B) + 1] = p.port
    BY <1>1, <1>3, AppendProperties, LenProperties
  <1>6. \A i \in DOMAIN t.probe_bench : i \in DOMAIN B \/ i = Len(B) + 1
    BY <1>5
  <1>7. Later(s, t)
    BY <1>2, SameLater
  <1>8. s.tries[p.port] = p.tryno + 1
    BY <1>0, <1>3 DEF Numbered
  <1>9. \A i \in DOMAIN B : B # <<>> /\ s.tries[B[i]] = p.tryno + 1
    <2>1. \A i \in DOMAIN B : B # <<>>
      BY <1>5
    <2> QED BY <1>0, <2>1 DEF Numbered
  <1>10. \A i \in DOMAIN t.probe_bench : t.tries[t.probe_bench[i]] = t.bench_tryno + 1
    BY <1>2, <1>4, <1>5, <1>6, <1>8, <1>9 DEF SameHistory
  <1>11. Numbered(t, {})
    BY <1>0, <1>1, <1>2, <1>10 DEF Numbered, SameHistory
  <1>12. Untried(t, {}) /\ Sorted(t) /\ (Comparable => Told(t))
    BY <1>0, <1>1, <1>2 DEF Untried, Sorted, Told, SameHistory
  <1>13. BenchAbove(t)
    BY <1>0, <1>1, <1>4 DEF BenchAbove
  <1>14. ASSUME Tracked PROVE Covered(t, {})
    <2> SUFFICES ASSUME NEW q \in Ports, ~Decided(t, q) PROVE Held(t, q)
      BY DEF Covered
    <2>1. Held(s, q)
      BY <1>0, <1>7, <1>14 DEF Covered, Later
    <2>2. CASE \E i \in DOMAIN B : B[i] = q
      <3>1. \A i \in DOMAIN B : i \in DOMAIN t.probe_bench
        BY <1>5
      <3> QED BY <1>5, <2>2, <3>1 DEF Held
    <2>3. CASE p.port = q
      <3>1. Len(B) + 1 \in DOMAIN t.probe_bench
        BY <1>5
      <3> QED BY <1>5, <2>3, <3>1 DEF Held
    <2>4. CASE \/ q \in s.fresh \/ \E o \in s.probes_outstanding \ {p} : o.port = q /\ Holds(o)
               \/ \E i \in DOMAIN s.retry_stack : s.retry_stack[i].port = q
      BY <1>1, <2>4 DEF Held
    <2> QED BY <2>1, <2>2, <2>3, <2>4 DEF Held
  <1> QED BY <1>7, <1>11, <1>12, <1>13, <1>14 DEF Journal, t

\* The inner loop of processData.
LEMMA ExpireMoves ==
    ASSUME TypeInv, HostsGood, CurOK, CurNext, Journals, NEW p \in cur.rest, NEW age \in Ages,
           ExpireProbe(p, age)
    PROVE  /\ CurNext'
           /\ (cur.host \in Hosts /\ Moves(cur.host)) \/ Still
  <1> DEFINE h == cur.host
             s == hss[h]
             m == moveProbeToBench(s, p)
             u == View(h)
  <1>1. /\ cur # NoCur /\ h \in Hosts /\ p \in UltraProbe /\ cur.maxtries \in Int
        /\ cur \in [host: Hosts, maxtries: 0..TrynoCap,
                    mayincrease: BOOLEAN, rest: SUBSET UltraProbe]
    BY ScanAssumption DEF TypeInv, TypeOK, NoCur
  <1>2. /\ Sound(u) /\ Good(s, {}) /\ u.hss = s /\ u.g = gstats /\ s \in HostScanStats
        /\ Journal(s, {}, {}) /\ hss \in [Hosts -> HostScanStats]
    BY <1>1, ViewGood, TypeParts DEF HostsGood, Journals, View
  <1>3. /\ p \in s.probes_outstanding
        /\ ~p.retransmitted /\ p.pingseq = 0 => p.tryno <= cur.maxtries
        /\ cur.mayincrease /\ s.probe_bench # <<>> => s.bench_tryno = cur.maxtries
        /\ cur.maxtries >= Enough - 1
        /\ \A i \in DOMAIN s.retry_stack : s.retry_stack[i].tries < cur.maxtries
    BY <1>1 DEF CurOK, CurNext
  <1>4. cur' = [cur EXCEPT !.rest = @ \ {p}]
    BY DEF ExpireProbe
  <1>5. cur'.host = h /\ cur'.maxtries = cur.maxtries
    BY <1>1, <1>4
  <1>6. \/ UNCHANGED <<hss, gstats>>
        \/ \E v \in markProbeTimedout(u, p) : Commit(h, v)
        \/ PingScan /\ \E v \in ultrascan_host_probe_update(u, p, "down", FALSE) : Commit(h, v)
        \/ /\ ~PingScan /\ Waits(p) /\ p.tryno >= cur.maxtries
           /\ Commit(h, destroyOutstandingProbe(u, p))
        \/ p.timedout /\ ~Waits(p) /\ Commit(h, destroyOutstandingProbe(u, p))
        \/ /\ Waits(p) /\ cur.mayincrease /\ p.tryno >= cur.maxtries
           /\ Commit(h, [u EXCEPT !.hss = moveProbeToBench(@, p)])
    BY Zenon DEF ExpireProbe
  <1>7. p.tryno \in Int /\ p.port \in Ports /\ p.pingseq \in Nat
        /\ (Waits(p) => Holds(p) /\ p.timedout)
    <2>1. p.tryno \in Int /\ p.port \in Ports /\ p.pingseq \in Nat
      BY <1>2, <1>3, BookTypes
    <2> QED BY <2>1 DEF Waits, Holds, isPing
  <1> HIDE DEF h, s, u
  <1>8. ASSUME hss'[h].retry_stack = s.retry_stack
        PROVE  CurNext'
    BY <1>3, <1>5, <1>8 DEF CurNext
  <1>9. ASSUME NEW v, Follows(u, v), Commit(h, v)
        PROVE  CurNext' /\ Moves(h)
    <2>1. hss'[h] = v.hss
      BY <1>1, <1>2, <1>9 DEF Commit
    <2>2. v.hss.retry_stack = s.retry_stack
      BY <1>2, <1>9 DEF Follows, Kept
    <2>3. Follows(View(h), v) /\ Journal(hss[h], {}, {})
      BY <1>2, <1>9 DEF u, s
    <2>4. Moves(h)
      BY <1>1, <1>9, <2>3, FollowsMoves
    <2> QED BY <1>8, <2>1, <2>2, <2>4
  <1>10. CASE UNCHANGED <<hss, gstats>>
    <2>1. CurNext'
      BY <1>8, <1>10 DEF s
    <2>2. \A k \in Hosts : Light(hss[k], hss'[k])
      BY <1>10, LightSelf
    <2>3. Still
      BY <1>10, <2>2, LightStill
    <2> QED BY <2>1, <2>3
  <1>11. CASE \E v \in markProbeTimedout(u, p) : Commit(h, v)
    BY <1>1, <1>2, <1>3, <1>9, <1>11, MarkFollows DEF h
  <1>12. CASE PingScan /\ \E v \in ultrascan_host_probe_update(u, p, "down", FALSE) : Commit(h, v)
    BY <1>1, <1>2, <1>3, <1>9, <1>12, HostUpdateFollows DEF h
  <1>13. CASE /\ ~PingScan /\ Waits(p) /\ p.tryno >= cur.maxtries
              /\ Commit(h, destroyOutstandingProbe(u, p))
    <2>1. p.tryno < s.tries[p.port] /\ s.tries[p.port] \in Int
      <3>1. p.tryno < s.tries[p.port]
        BY <1>2, <1>3, <1>7, <1>13 DEF Journal, Numbered, Holds
      <3>2. s.tries[p.port] \in Int
        BY <1>2, <1>7, HostFields
      <3> QED BY <3>1, <3>2
    <2>2. s.tries[p.port] >= Enough
      BY <1>1, <1>3, <1>7, <1>13, <2>1 DEF Enough
    <2>3. Decided(u.hss, p.port)
      BY <1>2, <1>13, <2>2 DEF Decided
    <2>4. Follows(u, destroyOutstandingProbe(u, p))
      BY <1>2, <1>3, <2>3, DestroyFollows
    <2> QED BY <1>1, <1>9, <1>13, <2>4 DEF h
  <1>14. CASE p.timedout /\ ~Waits(p) /\ Commit(h, destroyOutstandingProbe(u, p))
    <2>1. ~Holds(p)
      BY <1>14, <1>7 DEF Waits, Holds, isPing
    <2>2. Follows(u, destroyOutstandingProbe(u, p))
      BY <1>2, <1>3, <2>1, DestroyFollows
    <2> QED BY <1>1, <1>9, <1>14, <2>2 DEF h
  <1>15. CASE /\ Waits(p) /\ cur.mayincrease /\ p.tryno >= cur.maxtries
              /\ Commit(h, [u EXCEPT !.hss = moveProbeToBench(@, p)])
    <2>1. Holds(p) /\ p.tryno = cur.maxtries
      BY <1>1, <1>3, <1>7, <1>15 DEF Holds
    <2>2. Journal(m, {}, {}) /\ Later(s, m)
      BY <1>2, <1>3, <1>15, <2>1, MoveJournal
    <2> DEFINE v == [u EXCEPT !.hss = moveProbeToBench(@, p)]
    <2>3. v.hss = m /\ v.g = gstats
      BY <1>2 DEF Sound, Views
    <2>4. /\ m.probes_outstanding = s.probes_outstanding \ {p}
          /\ m.num_probes_active = s.num_probes_active
          /\ m.retry_stack = s.retry_stack
      BY <1>2, MoveFields
    <2>5. Commit(h, v)
      BY <1>15
    <2> HIDE DEF v, m
    <2>6. p.sd = "none"
      BY <1>2, <1>3, <1>7, <1>15 DEF Good, ListInv, FlagsOK
    <2>7. Watched(s.probes_outstanding \ {p}) = Watched(s.probes_outstanding)
      BY <2>6 DEF Watched
    <2>8. Balanced(u, v)
      BY <1>2, <2>3, <2>4, <2>7 DEF Balanced, OtherActive, OtherSockets
    <2>9. Journal(v.hss, {}, {}) /\ Later(hss[h], v.hss) /\ Balanced(View(h), v)
      BY <1>2, <2>2, <2>3, <2>8 DEF u, s
    <2>10. Moves(h)
      BY <1>1, <2>5, <2>9, CommitMoves
    <2>11. hss'[h] = m
      BY <1>1, <1>2, <2>3, <2>5 DEF Commit
    <2>12. CurNext'
      BY <1>8, <2>4, <2>11
    <2> QED BY <1>1, <2>10, <2>12 DEF h
  <1> QED BY <1>6, <1>10, <1>11, <1>12, <1>13, <1>14, <1>15

-----------------------------------------------------------------------------
(* The group's counts.                                                      *)

\* The pairs of a host of S and a member of its set in F.
Pairs(S, F) == UNION {{k} \X F[k] : k \in S}

\* One host's share of the pairs is its set.
LEMMA PairsSplit ==
    ASSUME NEW S, IsFiniteSet(S), NEW F, \A k \in S : IsFiniteSet(F[k]), NEW h \in S
    PROVE  /\ Cardinality(Pairs(S, F)) = Cardinality(Pairs(S \ {h}, F)) + Cardinality(F[h])
           /\ Cardinality(Pairs(S \ {h}, F)) \in Nat /\ Cardinality(F[h]) \in Nat
  <1> DEFINE R == S \ {h}
             T == {{k} \X F[k] : k \in R}
             g == [k \in R |-> {k} \X F[k]]
             A == Pairs(R, F)
             B == {h} \X F[h]
  <1>1. IsFiniteSet(R)
    BY FS_RemoveElement
  <1>2. g \in Surjection(R, T)
    BY DEF Surjection
  <1>3. IsFiniteSet(T)
    BY <1>1, <1>2, FS_Surjection
  <1>4. ASSUME NEW k \in S
        PROVE  IsFiniteSet({k} \X F[k]) /\ Cardinality({k} \X F[k]) = Cardinality(F[k])
    <2>1. IsFiniteSet({k}) /\ Cardinality({k}) = 1
      BY FS_Singleton
    <2>2. IsFiniteSet(F[k]) /\ Cardinality(F[k]) \in Nat
      BY FS_CardinalityType
    <2>3. /\ IsFiniteSet({k} \X F[k])
          /\ Cardinality({k} \X F[k]) = Cardinality({k}) * Cardinality(F[k])
      BY <2>1, <2>2, FS_Product
    <2>4. Cardinality({k} \X F[k]) = 1 * Cardinality(F[k])
      BY <2>1, <2>3
    <2> QED BY <2>2, <2>3, <2>4
  <1>5. A = UNION T
    BY DEF Pairs
  <1>6. IsFiniteSet(A)
    <2>1. \A t \in T : IsFiniteSet(t)
      BY <1>4
    <2> HIDE DEF T
    <2> QED BY <1>3, <1>5, <2>1, FS_UNION
  <1>7. Pairs(S, F) = A \cup B
    BY DEF Pairs
  <1>8. A \cap B = {}
    BY DEF Pairs
  <1>9. IsFiniteSet(B) /\ Cardinality(B) = Cardinality(F[h])
    BY <1>4
  <1> HIDE DEF A, B
  <1>10. /\ Cardinality(A \cup B) = Cardinality(A) + Cardinality(B) - Cardinality(A \cap B)
         /\ Cardinality(A) \in Nat /\ Cardinality(B) \in Nat
    BY <1>6, <1>9, FS_Union, FS_CardinalityType
  <1>11. Cardinality(A \cap B) = 0
    BY <1>8, FS_EmptySet
  <1> QED BY <1>7, <1>9, <1>10, <1>11 DEF A

\* The sets AllOf collects.
ActiveOf == [k \in Hosts |-> Active(hss[k].probes_outstanding)]
WatchedOf == [k \in Hosts |-> Watched(hss[k].probes_outstanding)]

\* The group's counters count pairs of a host and a probe.
LEMMA GroupPairs ==
    /\ GroupCountersExact <=>
         /\ gstats.num_probes_active = Cardinality(Pairs(Hosts, ActiveOf))
         /\ gstats.numSDs = Cardinality(Pairs(Hosts, WatchedOf))
    /\ GroupCountersExact' <=>
         /\ gstats'.num_probes_active = Cardinality(Pairs(Hosts, ActiveOf'))
         /\ gstats'.numSDs = Cardinality(Pairs(Hosts, WatchedOf'))
  <1>1. /\ AllOf(Active) = Pairs(Hosts, ActiveOf)
        /\ AllOf(Watched) = Pairs(Hosts, WatchedOf)
    BY DEF AllOf, Pairs, ActiveOf, WatchedOf
  <1>2. /\ AllOf(Active)' = Pairs(Hosts, ActiveOf')
        /\ AllOf(Watched)' = Pairs(Hosts, WatchedOf')
    BY DEF AllOf, Pairs, ActiveOf, WatchedOf
  <1> QED BY <1>1, <1>2 DEF GroupCountersExact

\* The other hosts' pairs depend on the other hosts only.
LEMMA PairsSame ==
    ASSUME NEW S, NEW F, NEW G, \A k \in S : F[k] = G[k]
    PROVE  Pairs(S, F) = Pairs(S, G)
  BY DEF Pairs

\* A host's move changes the group's counts as it changes its own.
LEMMA MovesExact ==
    ASSUME TypeInv, TypeInv', HostsGood, HostsGood', GroupCountersExact,
           NEW h \in Hosts, Moves(h)
    PROVE  GroupCountersExact'
  <1>1. /\ IsFiniteSet(Hosts)
        /\ \A k \in Hosts : IsFiniteSet(hss[k].probes_outstanding)
        /\ \A k \in Hosts : IsFiniteSet(hss'[k].probes_outstanding)
    BY UltraScanAssumption DEF TypeInv, ListsFinite
  <1>2. \A P : IsFiniteSet(P) => IsFiniteSet(Active(P)) /\ IsFiniteSet(Watched(P))
    BY FS_Subset DEF Active, Watched
  <1>3. /\ \A k \in Hosts : IsFiniteSet(ActiveOf[k]) /\ IsFiniteSet(WatchedOf[k])
        /\ \A k \in Hosts : IsFiniteSet((ActiveOf')[k]) /\ IsFiniteSet((WatchedOf')[k])
    BY <1>1, <1>2 DEF ActiveOf, WatchedOf
  <1> DEFINE F == ActiveOf
             G == ActiveOf'
             V == WatchedOf
             W == WatchedOf'
             R == Hosts \ {h}
  <1>4. /\ F[h] = Active(hss[h].probes_outstanding) /\ G[h] = Active(hss'[h].probes_outstanding)
        /\ V[h] = Watched(hss[h].probes_outstanding) /\ W[h] = Watched(hss'[h].probes_outstanding)
        /\ \A k \in R : F[k] = G[k] /\ V[k] = W[k]
    BY DEF ActiveOf, WatchedOf, Moves
  <1>5. /\ gstats.num_probes_active = Cardinality(Pairs(Hosts, F))
        /\ gstats.numSDs = Cardinality(Pairs(Hosts, V))
    BY GroupPairs
  <1> HIDE DEF F, G, V, W
  <1>6. Pairs(R, F) = Pairs(R, G) /\ Pairs(R, V) = Pairs(R, W)
    BY <1>4, PairsSame
  <1>7. /\ Cardinality(Pairs(Hosts, F)) = Cardinality(Pairs(R, F)) + Cardinality(F[h])
        /\ Cardinality(Pairs(R, F)) \in Nat /\ Cardinality(F[h]) \in Nat
    BY <1>1, <1>3, PairsSplit DEF F
  <1>8. /\ Cardinality(Pairs(Hosts, G)) = Cardinality(Pairs(R, G)) + Cardinality(G[h])
        /\ Cardinality(G[h]) \in Nat
    BY <1>1, <1>3, PairsSplit DEF G
  <1>9. /\ Cardinality(Pairs(Hosts, V)) = Cardinality(Pairs(R, V)) + Cardinality(V[h])
        /\ Cardinality(Pairs(R, V)) \in Nat /\ Cardinality(V[h]) \in Nat
    BY <1>1, <1>3, PairsSplit DEF V
  <1>10. /\ Cardinality(Pairs(Hosts, W)) = Cardinality(Pairs(R, W)) + Cardinality(W[h])
         /\ Cardinality(W[h]) \in Nat
    BY <1>1, <1>3, PairsSplit DEF W
  <1>11. /\ hss[h].num_probes_active = Cardinality(F[h])
         /\ hss'[h].num_probes_active = Cardinality(G[h])
    BY <1>4 DEF HostsGood, Good, Counted
  <1>12. gstats' \in GroupStats /\ gstats'.num_probes_active \in Int /\ gstats'.numSDs \in Int
    BY DEF TypeInv, TypeOK, GroupStats
  <1>13. /\ gstats'.num_probes_active - hss'[h].num_probes_active
              = gstats.num_probes_active - hss[h].num_probes_active
         /\ gstats'.numSDs - Cardinality(W[h]) = gstats.numSDs - Cardinality(V[h])
    BY <1>4 DEF Moves, Balanced, OtherActive, OtherSockets
  <1>14. gstats'.num_probes_active = Cardinality(Pairs(Hosts, G))
    BY <1>5, <1>6, <1>7, <1>8, <1>11, <1>12, <1>13
  <1>15. gstats'.numSDs = Cardinality(Pairs(Hosts, W))
    BY <1>5, <1>6, <1>9, <1>10, <1>12, <1>13
  <1> QED BY <1>14, <1>15, GroupPairs DEF G, W

\* A quiet step changes none of them.
LEMMA StillExact ==
    ASSUME GroupCountersExact, Still
    PROVE  GroupCountersExact'
  <1>1. \A k \in Hosts : ActiveOf[k] = (ActiveOf')[k] /\ WatchedOf[k] = (WatchedOf')[k]
    BY DEF Still, ActiveOf, WatchedOf
  <1>2. /\ Pairs(Hosts, ActiveOf) = Pairs(Hosts, ActiveOf')
        /\ Pairs(Hosts, WatchedOf) = Pairs(Hosts, WatchedOf')
    BY <1>1, PairsSame
  <1> QED BY <1>2, GroupPairs DEF Still

-----------------------------------------------------------------------------
(* The end of a host's scan.                                                *)

\* A completed host whose probes are accounted for has no undecided port.
LEMMA CompletedDecides ==
    ASSUME NEW s \in HostScanStats, IsFiniteSet(s.probes_outstanding), Good(s, {}),
           Journal(s, {}, {}), completed(s), Tracked, NEW q \in Ports
    PROVE  Decided(s, q)
  <1> DEFINE P == s.probes_outstanding
  <1>1. CASE PingScan /\ s.flags \in {"up", "down"}
    BY <1>1 DEF Decided
  <1>2. CASE s.fresh = {}
    <2>1. Cardinality(Active(P)) = 0 /\ Cardinality(Awaiting(P)) = 0
      BY DEF completed, Good, Counted
    <2>2. Active(P) = {} /\ Awaiting(P) = {}
      BY <2>1, CountNat, FS_EmptySet
    <2>3. \A p \in P : ~Holds(p)
      <3> SUFFICES ASSUME NEW p \in P, Holds(p) PROVE FALSE
        OBVIOUS
      <3>1. p.timedout
        BY <2>2 DEF Active
      <3>2. p \in Awaiting(P)
        BY <3>1 DEF Awaiting, Holds, isPing
      <3> QED BY <2>2, <3>2
    <2>4. DOMAIN s.probe_bench = {} /\ DOMAIN s.retry_stack = {}
      BY DEF completed
    <2>5. ~Held(s, q)
      BY <1>2, <2>3, <2>4 DEF Held
    <2> QED BY <2>5 DEF Journal, Covered
  <1> QED BY <1>1, <1>2 DEF completed

\* A host that is done, and was not given up, has no undecided port.
DoneDecided == Tracked =>
    \A h \in Hosts : Finished(h) => \A q \in Ports : Decided(hss[h], q)

\* It stays so while no host leaves.
LEMMA DoneStays ==
    ASSUME DoneDecided, incompleteHosts' = incompleteHosts,
           \A k \in Hosts : Later(hss[k], hss'[k])
    PROVE  DoneDecided'
  BY DEF DoneDecided, Finished, Later

\* removeCompletedHosts.
LEMMA RemoveDone ==
    ASSUME TypeInv, HostsGood, Journals, DoneDecided, removeCompletedHosts
    PROVE  DoneDecided'
  <1> SUFFICES ASSUME Tracked, NEW h \in Hosts, h \notin incompleteHosts', ~hss'[h].timedOut,
                      NEW q \in Ports
               PROVE  Decided(hss'[h], q)
    BY DEF DoneDecided, Finished
  <1>1. hss[h] \in HostScanStats /\ IsFiniteSet(hss[h].probes_outstanding)
        /\ Good(hss[h], {}) /\ Journal(hss[h], {}, {})
    BY TypeParts DEF HostsGood, Journals
  <1>2. Light(hss[h], hss'[h]) /\ Later(hss[h], hss'[h])
    BY <1>1, RemoveLight, LightJournal
  <1>3. ~hss[h].timedOut
    BY <1>2 DEF Light
  <1>4. CASE h \in Leaving
    <2>1. completed(hss[h])
      BY <1>3, <1>4 DEF Leaving
    <2> QED BY <1>1, <1>2, <2>1, CompletedDecides DEF Later
  <1>5. CASE h \notin Leaving
    <2>1. h \notin incompleteHosts
      BY <1>5 DEF removeCompletedHosts
    <2> QED BY <1>2, <1>3, <2>1 DEF DoneDecided, Finished, Later
  <1> QED BY <1>4, <1>5

-----------------------------------------------------------------------------
(* The invariant.                                                           *)

ProgressInv == BooksInv /\ Journals /\ CurNext /\ DoneDecided /\ GroupCountersExact

\* A new host has everything ahead of it.
LEMMA InitProgress == Init => ProgressInv
  <1> SUFFICES ASSUME Init PROVE Journals /\ CurNext /\ DoneDecided /\ GroupCountersExact
    BY InitBooks DEF ProgressInv
  <1>1. CurNext /\ DoneDecided
    BY DEF Init, CurNext, DoneDecided, Finished
  <1>2. ASSUME NEW h \in Hosts
        PROVE  Journal(hss[h], {}, {}) /\ hss[h].probes_outstanding = {}
    <2>1. PICK pp \in StartPings : hss[h] = HostInit(pp)
      BY DEF Init
    <2> DEFINE s == HostInit(pp)
    <2>2. /\ s.fresh = Ports /\ s.probes_outstanding = {}
          /\ s.probe_bench = <<>> /\ s.retry_stack = <<>>
          /\ \A q \in Ports : s.port_state[q] = "default" /\ s.seen[q] = {} /\ s.tries[q] = 0
      BY DEF HostInit
    <2> HIDE DEF s
    <2>3. DOMAIN s.probe_bench = {} /\ DOMAIN s.retry_stack = {}
      BY <2>2
    <2>4. Journal(s, {}, {})
      BY <2>2, <2>3 DEF Journal, Numbered, Untried, Sorted, BenchAbove, Covered, Held, Told
    <2> QED BY <2>1, <2>2, <2>4 DEF s
  <1>3. GroupCountersExact
    <2>1. \A k \in Hosts : ActiveOf[k] = {} /\ WatchedOf[k] = {}
      BY <1>2 DEF ActiveOf, WatchedOf, Active, Watched
    <2>2. Pairs(Hosts, ActiveOf) = {} /\ Pairs(Hosts, WatchedOf) = {}
      BY <2>1 DEF Pairs
    <2>3. gstats.num_probes_active = 0 /\ gstats.numSDs = 0
      BY DEF Init, GroupInit
    <2> QED BY <2>2, <2>3, FS_EmptySet, GroupPairs
  <1> QED BY <1>1, <1>2, <1>3 DEF Journals

\* The steps of a host leave the list of incomplete hosts alone.
LEMMA ListsStay ==
    ASSUME NEW h \in Hosts,
           \/ HostPing(h) \/ Retransmit(h) \/ SendRetry(h) \/ SendNew(h)
           \/ PingAnswer(h) \/ PortAnswer(h) \/ DiscoveryAnswer(h) \/ ArpAnswer(h)
           \/ SelectAnswer(h) \/ NothingToRetransmit(h) \/ BeginRateLimitWait(h)
           \/ UnsolicitedReply(h) \/ RateLimitWaitOver(h) \/ HostClockExpires(h)
           \/ VisitHost(h)
    PROVE  incompleteHosts' = incompleteHosts
  <1>1. \A S : Answered(h, S) => incompleteHosts' = incompleteHosts
    BY DEF Answered, Lists
  <1>2. CASE PingAnswer(h) \/ PortAnswer(h) \/ DiscoveryAnswer(h) \/ ArpAnswer(h)
    <2> HIDE DEF Answered
    <2>1. \E S : Answered(h, S)
      BY <1>2 DEF PingAnswer, PortAnswer, DiscoveryAnswer, ArpAnswer
    <2> QED BY <1>1, <2>1
  <1>3. CASE HostPing(h) \/ SendRetry(h) \/ SendNew(h)
    BY <1>3 DEF HostPing, SendRetry, SendNew, Lists
  <1>4. CASE Retransmit(h) \/ NothingToRetransmit(h) \/ BeginRateLimitWait(h)
    BY <1>4 DEF Retransmit, NothingToRetransmit, BeginRateLimitWait, Lists
  <1>5. CASE SelectAnswer(h) \/ UnsolicitedReply(h) \/ RateLimitWaitOver(h)
             \/ HostClockExpires(h) \/ VisitHost(h)
    BY <1>5 DEF SelectAnswer, UnsolicitedReply, RateLimitWaitOver, HostClockExpires, VisitHost,
                Lists
  <1> QED BY <1>2, <1>3, <1>4, <1>5

\* What a step of one host, or a quiet step, makes of the invariant.
LEMMA MovesProgress ==
    ASSUME ProgressInv, BooksInv', NEW h \in Hosts, Moves(h), incompleteHosts' = incompleteHosts
    PROVE  Journals' /\ DoneDecided' /\ GroupCountersExact'
  <1>1. ASSUME NEW k \in Hosts
        PROVE  Journal(hss'[k], {}, {}) /\ Later(hss[k], hss'[k])
    <2>1. CASE k = h
      BY <2>1 DEF Moves
    <2>2. CASE k # h
      BY <2>2, LightSelf, LightJournal DEF Moves, ProgressInv, Journals
    <2> QED BY <2>1, <2>2
  <1>2. DoneDecided'
    BY <1>1, DoneStays DEF ProgressInv
  <1>3. GroupCountersExact'
    BY MovesExact DEF ProgressInv, BooksInv
  <1>4. Journals'
    BY <1>1 DEF Journals
  <1> QED BY <1>2, <1>3, <1>4

\* A step that leaves the scan where it was keeps the invariant.
LEMMA StillProgress ==
    ASSUME ProgressInv, Still
    PROVE  /\ Journals' /\ GroupCountersExact'
           /\ incompleteHosts' = incompleteHosts => DoneDecided'
  <1>1. \A k \in Hosts : Journal(hss'[k], {}, {}) /\ Later(hss[k], hss'[k])
    BY DEF Still
  <1>2. incompleteHosts' = incompleteHosts => DoneDecided'
    BY <1>1, DoneStays DEF ProgressInv
  <1>3. GroupCountersExact'
    BY StillExact DEF ProgressInv
  <1>4. Journals'
    BY <1>1 DEF Journals
  <1> QED BY <1>2, <1>3, <1>4

\* Every step of the loop keeps the scan's journals.
LEMMA StepProgress == ProgressInv /\ [Next]_vars => ProgressInv'
  <1> SUFFICES ASSUME ProgressInv, [Next]_vars
               PROVE  Journals' /\ CurNext' /\ DoneDecided' /\ GroupCountersExact'
    BY StepBooks DEF ProgressInv
  <1>1. /\ ProgressInv /\ TypeInv /\ HostsGood /\ CurOK /\ Journals /\ CurNext
        /\ DoneDecided /\ BooksInv'
        /\ \A h \in Hosts : Journal(hss[h], {}, {})
    BY StepBooks DEF ProgressInv, BooksInv, Journals
  <1> DEFINE Goal == Journals' /\ CurNext' /\ DoneDecided' /\ GroupCountersExact'
  <1>2. ASSUME phase # "expire", cur' = cur
        PROVE  CurNext'
    BY <1>1, <1>2 DEF CurNext, CurOK
  <1>3. ASSUME NEW h \in Hosts, Moves(h), incompleteHosts' = incompleteHosts,
               phase # "expire", cur' = cur
        PROVE  Goal
    BY <1>1, <1>2, <1>3, MovesProgress
  <1>4. ASSUME Still, incompleteHosts' = incompleteHosts, phase # "expire", cur' = cur
        PROVE  Goal
    BY <1>1, <1>2, <1>4, StillProgress
  <1>5. ASSUME hss' = hss, gstats' = gstats PROVE Still
    BY <1>1, <1>5, LightSelf, LightStill
  <1>6. ASSUME NEW h \in Hosts, HostPing(h)
        PROVE  Goal
    <2>1. Moves(h)
      BY <1>1, <1>6, PingMoves DEF HostPing
    <2> QED BY <1>3, <1>6, <2>1, OtherPhases, ListsStay
  <1>7. ASSUME NEW h \in Hosts, Retransmit(h)
        PROVE  Goal
    BY <1>1, <1>3, <1>7, RetransmitMoves, OtherPhases, ListsStay
  <1>8. ASSUME NEW h \in Hosts, SendRetry(h)
        PROVE  Goal
    BY <1>1, <1>3, <1>8, RetryMoves, OtherPhases, ListsStay
  <1>9. ASSUME NEW h \in Hosts, SendNew(h)
        PROVE  Goal
    BY <1>1, <1>3, <1>9, NewMoves, OtherPhases, ListsStay
  <1>10. ASSUME NEW h \in Hosts,
                PingAnswer(h) \/ PortAnswer(h) \/ DiscoveryAnswer(h) \/ ArpAnswer(h)
         PROVE  Goal
    BY <1>1, <1>3, <1>10, AnswersMoves, OtherPhases, ListsStay
  <1>11. ASSUME NEW h \in Hosts, SelectAnswer(h)
         PROVE  Goal
    BY <1>1, <1>3, <1>11, SelectMoves, OtherPhases, ListsStay
  <1>12. ASSUME NEW h \in Hosts,
                \/ NothingToRetransmit(h) \/ BeginRateLimitWait(h) \/ UnsolicitedReply(h)
                \/ RateLimitWaitOver(h) \/ HostClockExpires(h)
         PROVE  Goal
    BY <1>1, <1>4, <1>12, LightStepsStill, OtherPhases, ListsStay
  <1>13. ASSUME NEW h \in Hosts, VisitHost(h)
         PROVE  Goal
    BY <1>1, <1>13, VisitStill, StillProgress, ListsStay
  <1>14. ASSUME NEW p \in cur.rest, NEW age \in Ages, ExpireProbe(p, age)
         PROVE  Goal
    <2>1. CurNext' /\ ((cur.host \in Hosts /\ Moves(cur.host)) \/ Still)
      BY <1>1, <1>14, ExpireMoves
    <2>2. incompleteHosts' = incompleteHosts
      BY <1>14 DEF ExpireProbe, Lists
    <2> QED BY <1>1, <2>1, <2>2, MovesProgress, StillProgress
  <1>15. ASSUME GlobalPing \/ ExpireGlobalPing
         PROVE  Goal
    <2>1. phase # "expire" /\ cur' = cur /\ incompleteHosts' = incompleteHosts
      BY <1>15 DEF GlobalPing, ExpireGlobalPing, Lists
    <2> QED BY <1>1, <1>3, <1>15, <2>1, GlobalPingMoves
  <1>16. ASSUME EndPings \/ EndRetransmits \/ EndRetries \/ EndWait \/ EndRound
         PROVE  Goal
    <2>1. /\ hss' = hss /\ gstats' = gstats /\ phase # "expire" /\ cur' = cur
          /\ incompleteHosts' = incompleteHosts
      BY <1>16 DEF EndPings, EndRetransmits, EndRetries, EndWait, EndRound, Lists
    <2> QED BY <1>4, <1>5, <2>1
  <1>17. ASSUME FinishHost
         PROVE  Goal
    <2>1. hss' = hss /\ gstats' = gstats /\ cur' = NoCur /\ incompleteHosts' = incompleteHosts
      BY <1>17 DEF FinishHost, Lists
    <2>2. CurNext'
      BY <2>1 DEF CurNext
    <2> QED BY <1>1, <1>5, <2>1, <2>2, StillProgress
  <1>18. ASSUME EndNew
         PROVE  Goal
    <2>1. phase # "expire" /\ cur' = cur /\ incompleteHosts' = incompleteHosts
      BY <1>18 DEF EndNew, Lists
    <2> QED BY <1>1, <1>4, <1>18, <2>1, EndNewStill
  <1>19. ASSUME StartProcess \/ FinishHosts
         PROVE  Goal
    <2>1. /\ removeCompletedHosts /\ gstats' = gstats /\ cur' = cur
          /\ phase # "expire" \/ cur = NoCur
      BY <1>19 DEF StartProcess, FinishHosts
    <2>2. Still
      BY <1>1, <2>1, RemoveLight, LightStill
    <2>3. CurNext'
      BY <1>2, <2>1 DEF CurNext
    <2> QED BY <1>1, <2>1, <2>2, <2>3, StillProgress, RemoveDone
  <1>20. ASSUME UNCHANGED vars
         PROVE  Goal
    <2>1. hss' = hss /\ gstats' = gstats /\ cur' = cur /\ incompleteHosts' = incompleteHosts
      BY <1>20 DEF vars
    <2>2. CurNext'
      BY <1>1, <2>1 DEF CurNext
    <2> QED BY <1>1, <1>5, <2>1, <2>2, StillProgress
  <1> HIDE DEF Goal
  <1>21. Goal
    BY <1>6, <1>7, <1>8, <1>9, <1>10, <1>11, <1>12, <1>13, <1>14, <1>15, <1>16, <1>17, <1>18,
       <1>19, <1>20 DEF Next, Terminating
  <1> QED BY <1>21 DEF Goal

-----------------------------------------------------------------------------
(* The assertion of retransmitProbe.                                        *)

\* Whether connect() may settle a host, in host discovery, before it returns.
SettlesAtOnce ==
    /\ PingScan /\ ConnectScan /\ ImmediateConnect
    /\ \E e \in Errnos \ {"eagain"} : NewHostState(e) = "up"

\* Unless connect() settles the host, a send leaves the other probes on the list.
LEMMA SendKeeps ==
    ASSUME ~SettlesAtOnce, NEW u, Sound(u), NEW n \in UltraProbe,
           NEW v \in sendScanProbe(u, n)
    PROVE  u.hss.probes_outstanding \ {n} \subseteq v.hss.probes_outstanding
  <1> DEFINE w == Enqueue(u, n)
             m == [n EXCEPT !.sd = "watched"]
  <1>1. /\ m \in UltraProbe /\ u \in Views
        /\ PingScan \in BOOLEAN /\ ConnectScan \in BOOLEAN /\ ImmediateConnect \in BOOLEAN
    BY ScanAssumption DEF UltraProbe, Sound
  <1>2. CASE v \in {w, Enqueue(u, m)}
    <2>1. Enqueued(u, v, n) \/ Enqueued(u, v, m)
      BY <1>1, <1>2, EnqueueSpec
    <2> QED BY <2>1 DEF Enqueued, Books
  <1>3. CASE v \notin {w, Enqueue(u, m)}
    <2>1. /\ ConnectScan /\ ImmediateConnect
          /\ \E e \in Errnos \ {"eagain"} : v \in handleConnectResult(w, n, e, TRUE)
      BY <1>1, <1>3 DEF sendScanProbe
    <2>2. PICK e \in Errnos \ {"eagain"} : v \in handleConnectResult(w, n, e, TRUE)
      BY <2>1
    <2>3. PingScan => NewHostState(e) # "up"
      BY <2>1 DEF SettlesAtOnce
    <2>4. Enqueued(u, w, n)
      BY <1>1, EnqueueSpec
    <2> HIDE DEF w
    <2>5. w \in Views /\ w.hss.probes_outstanding = u.hss.probes_outstanding \cup {n}
      BY <2>4 DEF Enqueued, Books
    <2>6. e \in ConnectErrnos
      BY ScanAssumption
    <2>7. /\ NewHostState(e) \in {"up", "down", "unknown"}
          /\ NewPortState(e) \in {"open", "closed", "filtered", "unknown"}
      BY <2>6 DEF NewHostState, NewPortState, ConnectErrnos
    <2>8. isPing(n) \in BOOLEAN
      BY ProbeFields
    <2>9. \/ v \in ultrascan_ping_update(w, n, TRUE)
          \/ PingScan /\ NewHostState(e) # "unknown" /\ v \in HostAnswer(w, n, NewHostState(e))
          \/ v \in markProbeTimedout(w, n)
          \/ NewPortState(e) # "unknown"
               /\ v \in ultrascan_port_probe_update(w, n, NewPortState(e))
          \/ v = destroyOutstandingProbe(w, n)
      BY <1>1, <2>2, <2>8, ZenonT(30) DEF handleConnectResult
    <2>10. Destroyed(w, v, n) \/ Marked(w, v, n)
      <3>1. CASE v \in ultrascan_ping_update(w, n, TRUE)
        BY <2>5, <3>1, PingUpdateSpec
      <3>2. CASE PingScan /\ NewHostState(e) # "unknown"
                   /\ v \in HostAnswer(w, n, NewHostState(e))
        <4>1. NewHostState(e) = "down"
          BY <2>3, <2>7, <3>2
        <4>2. v \in ultrascan_host_probe_update(w, n, "down", TRUE)
          BY <3>2, <4>1 DEF HostAnswer
        <4> QED BY <2>5, <4>2, HostUpdateSpec
      <3>3. CASE v \in markProbeTimedout(w, n)
        BY <2>5, <3>3, MarkSpec
      <3>4. CASE NewPortState(e) # "unknown"
                   /\ v \in ultrascan_port_probe_update(w, n, NewPortState(e))
        BY <2>5, <2>7, <3>4, PortUpdateSpec DEF PortStates
      <3>5. CASE v = destroyOutstandingProbe(w, n)
        BY <2>5, <3>5, DestroySpec
      <3> QED BY <2>9, <3>1, <3>2, <3>3, <3>4, <3>5
    <2> QED BY <2>5, <2>10 DEF Destroyed, Marked, Books
  <1> QED BY <1>2, <1>3

\* So retransmitProbe finds its old probe still waiting.
LEMMA RetransmitGoesOn ==
    ASSUME ~SettlesAtOnce, TypeInv, HostsGood, NEW h \in Hosts, Retransmit(h)
    PROVE  phase' = phase
  <1>1. PICK t, n, v, p :
          /\ Sends(h, t, n, {p}, v) /\ p \in hss[h].probes_outstanding
          /\ \/ v.hss.probes_outstanding = {}
             \/ phase' = phase
    BY RetransmitSends, Zenon
  <1> DEFINE u == [View(h) EXCEPT !.hss = t]
  <1>2. u.hss = t /\ u = [hss |-> t, g |-> gstats]
    BY DEF View
  <1>3. /\ t \in HostScanStats /\ t.probes_outstanding = hss[h].probes_outstanding
        /\ n \in UltraProbe /\ ~SameKey(p, n) /\ v \in sendScanProbe(u, n)
    BY <1>1 DEF Sends
  <1> HIDE DEF u
  <1>4. Sound(u)
    BY <1>2, <1>3, TypeParts DEF Sound, Views
  <1>5. u.hss.probes_outstanding \ {n} \subseteq v.hss.probes_outstanding
    BY <1>3, <1>4, SendKeeps
  <1>6. p # n
    BY <1>3 DEF SameKey
  <1>7. p \in v.hss.probes_outstanding
    BY <1>1, <1>2, <1>3, <1>5, <1>6
  <1> QED BY <1>1, <1>7

\* No step stops the program.
LEMMA NoStepAborts ==
    ASSUME ~SettlesAtOnce, ProgressInv, NoAbort, [Next]_vars
    PROVE  NoAbort'
  <1>1. ASSUME NEW h \in Hosts, Retransmit(h)
        PROVE  NoAbort'
    BY <1>1, RetransmitGoesOn DEF ProgressInv, BooksInv, NoAbort
  <1>2. ASSUME NEW h \in Hosts,
               PingAnswer(h) \/ PortAnswer(h) \/ DiscoveryAnswer(h) \/ ArpAnswer(h)
        PROVE  NoAbort'
    <2>1. ASSUME NEW S, Answered(h, S) PROVE NoAbort'
      BY <2>1 DEF Answered, WaitOn, NoAbort
    <2> HIDE DEF Answered
    <2> QED BY <1>2, <2>1 DEF PingAnswer, PortAnswer, DiscoveryAnswer, ArpAnswer
  <1>3. ASSUME NEW h \in Hosts,
               \/ HostPing(h) \/ NothingToRetransmit(h) \/ BeginRateLimitWait(h)
               \/ SendRetry(h) \/ SendNew(h) \/ UnsolicitedReply(h) \/ SelectAnswer(h)
               \/ RateLimitWaitOver(h) \/ HostClockExpires(h) \/ VisitHost(h)
        PROVE  NoAbort'
    <2>1. phase' \in {phase, "wait", "process"}
      BY <1>3 DEF HostPing, NothingToRetransmit, BeginRateLimitWait, SendRetry, SendNew,
                  UnsolicitedReply, SelectAnswer, WaitOn, RateLimitWaitOver,
                  HostClockExpires, VisitHost
    <2> QED BY <2>1 DEF NoAbort
  <1>4. ASSUME NEW p \in cur.rest, NEW age \in Ages, ExpireProbe(p, age)
        PROVE  NoAbort'
    BY <1>4 DEF ExpireProbe, NoAbort
  <1>5. ASSUME \/ GlobalPing \/ EndPings \/ EndRetransmits \/ EndRetries \/ EndNew
               \/ EndWait \/ StartProcess \/ FinishHost \/ FinishHosts
               \/ ExpireGlobalPing \/ EndRound \/ UNCHANGED vars
        PROVE  NoAbort'
    <2>1. phase' \in {phase, "retransmits", "retries", "new", "wait", "process", "done",
                      "expire", "globalpings", "pings"}
      BY <1>5 DEF GlobalPing, EndPings, EndRetransmits, EndRetries, EndNew, EndWait,
                  StartProcess, FinishHost, FinishHosts, ExpireGlobalPing, EndRound, vars
    <2> QED BY <2>1 DEF NoAbort
  <1> QED BY <1>1, <1>2, <1>3, <1>4, <1>5 DEF Next, Terminating

-----------------------------------------------------------------------------
(* What the invariant says to a reader.                                     *)

\* A set without two members.
LEMMA AtMostOne ==
    ASSUME NEW S, IsFiniteSet(S), \A x, y \in S : x = y
    PROVE  Cardinality(S) \in {0, 1} /\ (S = {} => Cardinality(S) = 0)
  <1>1. CASE S = {}
    BY <1>1, FS_EmptySet
  <1>2. CASE S # {}
    <2>1. PICK x \in S : TRUE
      BY <1>2
    <2>2. S = {x}
      BY <2>1
    <2> QED BY <1>2, <2>2, FS_Singleton
  <1> QED BY <1>1, <1>2

\* A port has one place.
LEMMA OnePlace ==
    ASSUME NEW s \in HostScanStats, IsFiniteSet(s.probes_outstanding), ListInv(s, {}),
           NEW q \in Ports
    PROVE  Holders(s, q) <= 1
  <1> DEFINE A == {p \in s.probes_outstanding : p.port = q /\ ~isPing(p) /\ ~p.retransmitted}
             f == q \in s.fresh
             B == {i \in DOMAIN s.probe_bench : s.probe_bench[i] = q}
             C == {i \in DOMAIN s.retry_stack : s.retry_stack[i].port = q}
  <1>1. \A p \in s.probes_outstanding : p.tryno \in Int /\ (isPing(p) <=> p.pingseq # 0)
    BY BookTypes DEF isPing
  <1>2. ASSUME NEW p \in A
        PROVE  /\ ~f /\ B = {} /\ C = {}
               /\ \A o \in A : o = p
    <2>1. p \in s.probes_outstanding /\ p.port = q /\ p.pingseq = 0 /\ ~p.retransmitted
      BY <1>1
    <2> QED BY <1>1, <2>1, HolderUnique DEF TryOf
  <1>3. ASSUME NEW i \in B PROVE ~f /\ C = {} /\ \A j \in B : i = j
    BY DEF ListInv, BenchParked, Parked, Distinct
  <1>4. ASSUME NEW i \in C PROVE ~f /\ \A j \in C : i = j
    BY DEF ListInv, StackParked, Parked, Distinct
  <1>5. IsFiniteSet(A) /\ IsFiniteSet(B) /\ IsFiniteSet(C)
    <2>1. IsFiniteSet(DOMAIN s.probe_bench) /\ IsFiniteSet(DOMAIN s.retry_stack)
      <3>1. /\ Len(s.probe_bench) \in Nat /\ DOMAIN s.probe_bench = 1..Len(s.probe_bench)
            /\ Len(s.retry_stack) \in Nat /\ DOMAIN s.retry_stack = 1..Len(s.retry_stack)
        BY HostFields, LenProperties
      <3> QED BY <3>1, FS_Interval, SMTT(30)
    <2> QED BY <2>1, FS_Subset
  <1>6. Holders(s, q) = Cardinality(A) + One(f) + Cardinality(B) + Cardinality(C)
    BY DEF Holders
  <1> HIDE DEF A, B, C, f
  <1>7. /\ Cardinality(A) \in {0, 1} /\ (A = {} => Cardinality(A) = 0)
        /\ Cardinality(B) \in {0, 1} /\ (B = {} => Cardinality(B) = 0)
        /\ Cardinality(C) \in {0, 1} /\ (C = {} => Cardinality(C) = 0)
    BY <1>2, <1>3, <1>4, <1>5, AtMostOne
  <1>8. One(f) \in {0, 1} /\ (~f => One(f) = 0)
    BY DEF One
  <1>9. CASE A # {}
    BY <1>2, <1>6, <1>7, <1>8, <1>9
  <1>10. CASE A = {} /\ B # {}
    BY <1>3, <1>6, <1>7, <1>8, <1>10
  <1>11. CASE A = {} /\ B = {} /\ C # {}
    BY <1>4, <1>6, <1>7, <1>8, <1>11
  <1>12. CASE A = {} /\ B = {} /\ C = {}
    BY <1>6, <1>7, <1>8, <1>12
  <1> QED BY <1>9, <1>10, <1>11, <1>12

\* The invariant holds throughout.
LEMMA ProgressHolds == Spec => []ProgressInv
  BY InitProgress, StepProgress, PTL DEF Spec

\* A port is in one place at a time (fresh, in flight, awaiting its retransmission,
\* benched, on the retry stack), and what is there carries the number of its last try:
\* sendNextScanProbe, retransmitProbe and the retry stack use no try number twice and
\* skip none, whatever is answered, timed out or benched between them.
THEOREM TriesInSequence == Spec => []TriesAreSequential
  <1>1. ASSUME ProgressInv, NEW h \in Hosts, NEW q \in Ports
        PROVE  LET s == hss[h] IN
               /\ Holders(s, q) <= 1
               /\ q \in s.fresh <=> s.tries[q] = 0
               /\ q \in RangeOf(s.probe_bench) => s.bench_tryno = s.tries[q] - 1
               /\ \A r \in RangeOf(s.retry_stack) : r.port = q => r.tries = s.tries[q] - 1
               /\ \A p \in s.probes_outstanding : p.port = q /\ ~isPing(p) =>
                     p.tryno = s.tries[q] - 1 \/ (p.retransmitted /\ p.tryno < s.tries[q] - 1)
    <2> DEFINE s == hss[h]
    <2>1. /\ s \in HostScanStats /\ IsFiniteSet(s.probes_outstanding) /\ ListInv(s, {})
          /\ Numbered(s, {}) /\ Untried(s, {})
      BY <1>1, TypeParts DEF ProgressInv, BooksInv, HostsGood, Good, Journals, Journal
    <2> HIDE DEF s
    <2>2. s.tries[q] \in Int /\ s.bench_tryno \in Int
      BY <2>1, HostFields, BookTypes
    <2>3. Holders(s, q) <= 1
      BY <2>1, OnePlace
    <2>4. q \in s.fresh <=> s.tries[q] = 0
      BY <2>1 DEF Numbered, Untried
    <2>5. q \in RangeOf(s.probe_bench) => s.bench_tryno = s.tries[q] - 1
      BY <2>1, <2>2 DEF Numbered, RangeOf
    <2>6. ASSUME NEW r \in RangeOf(s.retry_stack), r.port = q
          PROVE  r.tries = s.tries[q] - 1
      <3>1. PICK i \in DOMAIN s.retry_stack : r = s.retry_stack[i]
        BY <2>6 DEF RangeOf
      <3>2. s.tries[q] = r.tries + 1
        BY <2>1, <2>6, <3>1 DEF Numbered
      <3>3. r.tries \in Int
        BY <2>1, <3>1, BookTypes
      <3> QED BY <2>2, <3>2, <3>3
    <2>7. ASSUME NEW p \in s.probes_outstanding, p.port = q, ~isPing(p)
          PROVE  p.tryno = s.tries[q] - 1 \/ (p.retransmitted /\ p.tryno < s.tries[q] - 1)
      <3>1. p.tryno \in Int /\ p.pingseq = 0
        BY <2>1, <2>7, BookTypes DEF isPing
      <3>2. p.tryno < s.tries[q] /\ (p.retransmitted \/ p.tryno = s.tries[q] - 1)
        BY <2>1, <2>7, <3>1 DEF Numbered
      <3> QED BY <2>2, <3>1, <3>2
    <2> QED BY <2>3, <2>4, <2>5, <2>6, <2>7 DEF s
  <1>2. ProgressInv => TriesAreSequential
    BY <1>1 DEF TriesAreSequential
  <1> QED BY <1>2, ProgressHolds, PTL

\* ultrascan_port_pspec_update leaves a port in the best state any of its answers
\* meant, in whatever order the answers to its several tries arrive, when the answers
\* of the scan type are ones its rule can compare.
THEOREM StateIsBest == ASSUME Comparable PROVE Spec => []PortStateIsBest
  <1>1. ProgressInv => PortStateIsBest
    <2> SUFFICES ASSUME ProgressInv, NEW h \in Hosts, NEW q \in Ports
                 PROVE  LET s == hss[h] IN
                        IF s.seen[q] = {} THEN s.port_state[q] = "default"
                        ELSE /\ s.port_state[q] \in s.seen[q]
                             /\ \A r \in s.seen[q] : Rank(r) <= Rank(s.port_state[q])
      BY DEF PortStateIsBest
    <2>1. Told(hss[h])
      BY DEF ProgressInv, Journals, Journal
    <2> QED BY <2>1 DEF Told
  <1> QED BY <1>1, ProgressHolds, PTL

\* A port scan moves a host to the completed ones, unless it timed out, only when each
\* of its ports has answered or has had the tries --max-retries allows it: nothing that
\* retransmitProbe, the bench, the retry stack or processData does loses a port.
THEOREM PortsRemembered == ASSUME Tracked PROVE Spec => []NoPortForgotten
  <1>1. ProgressInv => NoPortForgotten
    BY DEF ProgressInv, DoneDecided, NoPortForgotten, Decided, Enough
  <1> QED BY <1>1, ProgressHolds, PTL

\* Host discovery moves a host to the completed ones only with a verdict.
THEOREM HostsJudged == ASSUME Tracked, Ports # {} PROVE Spec => []EveryHostJudged
  <1>1. ProgressInv => EveryHostJudged
    BY DEF ProgressInv, DoneDecided, EveryHostJudged, Decided
  <1> QED BY <1>1, ProgressHolds, PTL

\* "It is kept sorted such that probes with highest retry counts are on top"
\* (scan_engine.h): retransmitBench, which appends, keeps the order.
THEOREM StackSorted == Spec => []RetryStackSorted
  <1>1. ProgressInv => RetryStackSorted
    BY DEF ProgressInv, Journals, Journal, Sorted, RetryStackSorted
  <1> QED BY <1>1, ProgressHolds, PTL

\* GroupScanStats::num_probes_active and ConnectScanInfo::numSDs are the sums over all
\* hosts of the active probes and of the watched sockets.
THEOREM GroupExact == Spec => []GroupCountersExact
  <1>1. ProgressInv => GroupCountersExact
    BY DEF ProgressInv
  <1> QED BY <1>1, ProgressHolds, PTL

\* assert(hss->num_probes_waiting_retransmit > 0) in retransmitProbe holds whenever no
\* connect() settles a host in host discovery before it returns; the hypothesis is
\* needed, as the run RetransmitAssert shows.
THEOREM NoAssertion == ASSUME ~SettlesAtOnce PROVE Spec => []NoAbort
  <1>1. Init => NoAbort
    BY DEF Init, NoAbort
  <1>2. ProgressInv /\ NoAbort /\ [Next]_vars => NoAbort'
    BY NoStepAborts
  <1> QED BY <1>1, <1>2, ProgressHolds, PTL DEF Spec
=============================================================================
