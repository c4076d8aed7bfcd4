-------------------------- MODULE UltraScan_proofs --------------------------
(***************************************************************************)
(* Theorems about UltraScan for any number of hosts and ports.             *)
(*                                                                         *)
(* The first half is about the operators of HostScanStats: what each does  *)
(* to the books of a host, which are its list of probes, the two counters  *)
(* kept beside it, and the sockets of the group.  Its lemmas hold for all  *)
(* ports, all settings and all limits that ScanAssumption allows.          *)
(***************************************************************************)
EXTENDS UltraScan, FiniteSetTheorems, SequenceTheorems, TLAPS


GroupStats == [num_probes_active: Int, numSDs: Int, cwnd: LowCwnd..MaxCwnd]

Views == [hss: HostScanStats, g: GroupStats]

\* The fields an answer or a timeout leaves alone; the allowed tries only grow.
Kept(s, t) ==
    /\ t.fresh = s.fresh /\ t.probe_bench = s.probe_bench
    /\ t.bench_tryno = s.bench_tryno /\ t.retry_stack = s.retry_stack
    /\ t.nxtpseq = s.nxtpseq
    /\ t.max_successful_tryno >= s.max_successful_tryno

\* t is s with the list of probes and its two counters replaced.
Books(s, t, P, active, waiting) ==
    /\ Kept(s, t)
    /\ t.probes_outstanding = P
    /\ t.num_probes_active = active
    /\ t.num_probes_waiting_retransmit = waiting

\* Whether v is u without the probe p.
Destroyed(u, v, p) ==
    /\ v \in Views
    /\ Books(u.hss, v.hss, u.hss.probes_outstanding \ {p},
             u.hss.num_probes_active - One(~p.timedout),
             u.hss.num_probes_waiting_retransmit
               - One(~isPing(p) /\ p.timedout /\ ~p.retransmitted))
    /\ v.g.numSDs <= u.g.numSDs

\* Whether v is u with the probe p marked as timed out.
Marked(u, v, p) ==
    /\ v \in Views
    /\ Books(u.hss, v.hss, (u.hss.probes_outstanding \ {p}) \cup {TimedOutProbe(p)},
             u.hss.num_probes_active - 1,
             u.hss.num_probes_waiting_retransmit + One(~isPing(p)))
    /\ v.g.numSDs <= u.g.numSDs

\* Whether v is u without its probes.
Cleared(u, v) ==
    /\ v \in Views
    /\ Books(u.hss, v.hss, {},
             u.hss.num_probes_active - Cardinality(Active(u.hss.probes_outstanding)),
             u.hss.num_probes_waiting_retransmit
               - Cardinality(Awaiting(u.hss.probes_outstanding)))
    /\ v.g.numSDs <= u.g.numSDs

\* Whether v is u without the probe p, or without any probe.
Settled(u, v, p) ==
    \/ Destroyed(u, v, p)
    \/ \E w : Destroyed(u, w, p) /\ Cleared(w, v)

\* What the answer to probe p, or its failure, can make of u.
Outcome(u, v, p) ==
    \/ v = u
    \/ Destroyed(u, v, p)
    \/ Marked(u, v, p)
    \/ \E w : Destroyed(u, w, p) /\ Cleared(w, v)

\* Whether v is u with one more probe.
Enqueued(u, v, p) ==
    /\ v \in Views
    /\ Books(u.hss, v.hss, u.hss.probes_outstanding \cup {p},
             u.hss.num_probes_active + 1, u.hss.num_probes_waiting_retransmit)
    /\ v.g.numSDs = u.g.numSDs + One(p.sd # "none")

\* A view whose list of probes is finite.
Sound(u) == u \in Views /\ IsFiniteSet(u.hss.probes_outstanding)

\* The two halves of a view.
LEMMA ViewParts ==
    ASSUME NEW u \in Views
    PROVE  u.hss \in HostScanStats /\ u.g \in GroupStats
  BY DEF Views

\* What is known of each field of a host's statistics.
LEMMA HostFields ==
    ASSUME NEW s \in HostScanStats
    PROVE  /\ s.fresh \in SUBSET Ports /\ s.probes_outstanding \in SUBSET UltraProbe
           /\ s.num_probes_active \in Int /\ s.num_probes_waiting_retransmit \in Int
           /\ s.probe_bench \in Seq(Ports) /\ s.bench_tryno \in 0..TrynoCap
           /\ s.retry_stack \in Seq([port: Ports, tries: 0..TrynoCap - 1])
           /\ s.max_successful_tryno \in 0..TrynoCap /\ s.tryno_mayincrease \in BOOLEAN
           /\ s.cwnd \in LowCwnd..MaxCwnd /\ s.pingprobe \in PingProbes
           /\ s.nxtpseq \in 1..MaxPings + 1
           /\ s.port_state \in [Ports -> PortStates \cup {"default"}]
           /\ s.seen \in [Ports -> SUBSET PortStates]
           /\ s.tries \in [Ports -> Nat]
           /\ s.flags \in {"unknown", "up", "down"}
  BY DEF HostScanStats

\* What is known of each field of a probe.
LEMMA ProbeFields ==
    ASSUME NEW p \in UltraProbe
    PROVE  /\ p.port \in Ports /\ p.tryno \in 0..TrynoCap /\ p.pingseq \in 0..MaxPings
           /\ p.timedout \in BOOLEAN /\ p.retransmitted \in BOOLEAN
           /\ p.sd \in {"none", "watched", "drained"}
           /\ isPing(p) \in BOOLEAN
  BY DEF UltraProbe, isPing

\* UltraProbe's constructor makes a probe without a socket.
LEMMA NewProbeOK ==
    \A q \in Ports, t \in 0..TrynoCap, n \in 0..MaxPings :
        NewProbe(q, t, n) \in UltraProbe /\ NewProbe(q, t, n).sd = "none"
  BY DEF NewProbe, UltraProbe

\* Replacing one element leaves a finite set finite.
LEMMA SwapFinite ==
    \A P, a, b : IsFiniteSet(P) => IsFiniteSet((P \ {a}) \cup {b})
  <1> SUFFICES ASSUME NEW P, NEW a, NEW b, IsFiniteSet(P)
               PROVE  IsFiniteSet((P \ {a}) \cup {b})
    OBVIOUS
  <1>1. IsFiniteSet(P \ {a})
    BY FS_RemoveElement
  <1> QED BY <1>1, FS_AddElement

\* Writing the list of probes and the two counters.
LEMMA BooksUpdate ==
    ASSUME NEW s \in HostScanStats, NEW P \in SUBSET UltraProbe,
           NEW i \in Int, NEW j \in Int, NEW t,
           t = [s EXCEPT !.probes_outstanding = P, !.num_probes_active = i,
                         !.num_probes_waiting_retransmit = j]
    PROVE  t \in HostScanStats /\ Books(s, t, P, i, j)
  <1>1. t \in HostScanStats
    BY DEF HostScanStats
  <1>2. Kept(s, t)
    <2>1. s.max_successful_tryno \in Int
      BY HostFields
    <2>2. t.max_successful_tryno = s.max_successful_tryno
      BY DEF HostScanStats
    <2> QED BY <2>1, <2>2 DEF Kept, HostScanStats
  <1> QED BY <1>1, <1>2 DEF Books, HostScanStats

\* What destroyOutstandingProbe does.
LEMMA DestroySpec ==
    ASSUME NEW u \in Views, NEW p \in UltraProbe
    PROVE  Destroyed(u, destroyOutstandingProbe(u, p), p)
  <1> DEFINE a == One(~p.timedout)
             w == One(~isPing(p) /\ p.timedout /\ ~p.retransmitted)
             d == One(p.sd # "none")
             P == u.hss.probes_outstanding \ {p}
             i == u.hss.num_probes_active - a
             j == u.hss.num_probes_waiting_retransmit - w
             k == u.g.num_probes_active - a
             l == u.g.numSDs - d
             v == destroyOutstandingProbe(u, p)
  <1>1. a \in Nat /\ w \in Nat /\ d \in Nat
    BY DEF One
  <1> HIDE DEF a, w, d
  <1>2. u.hss \in HostScanStats /\ u.g \in GroupStats
    BY ViewParts
  <1>3. P \in SUBSET UltraProbe /\ i \in Int /\ j \in Int
    BY <1>1, <1>2, HostFields
  <1>4. k \in Int /\ l \in Int
    BY <1>1, <1>2 DEF GroupStats
  <1>5. l <= u.g.numSDs
    BY <1>1, <1>2 DEF GroupStats
  <1>6. v.hss = [u.hss EXCEPT !.probes_outstanding = P, !.num_probes_active = i,
                              !.num_probes_waiting_retransmit = j]
    BY DEF destroyOutstandingProbe, a, w
  <1>7. v.g = [u.g EXCEPT !.num_probes_active = k, !.numSDs = l]
    BY DEF destroyOutstandingProbe, a, d
  <1>8. v = [hss |-> v.hss, g |-> v.g]
    BY DEF destroyOutstandingProbe
  <1> HIDE DEF v, P, i, j, k, l
  <1>9. v.hss \in HostScanStats /\ Books(u.hss, v.hss, P, i, j)
    BY <1>2, <1>3, <1>6, BooksUpdate
  <1>10. v.g \in GroupStats /\ v.g.numSDs = l
    BY <1>2, <1>4, <1>7 DEF GroupStats
  <1>11. v \in Views
    BY <1>8, <1>9, <1>10 DEF Views
  <1> QED BY <1>5, <1>9, <1>10, <1>11 DEF Destroyed, v, P, i, j, a, w

\* Writing the congestion window leaves the books alone.
LEMMA CwndUpdate ==
    ASSUME NEW s \in HostScanStats, NEW c \in LowCwnd..MaxCwnd, NEW t,
           t = [s EXCEPT !.cwnd = c]
    PROVE  /\ t \in HostScanStats
           /\ Books(s, t, s.probes_outstanding, s.num_probes_active,
                    s.num_probes_waiting_retransmit)
  <1>1. t \in HostScanStats
    BY DEF HostScanStats
  <1>2. Kept(s, t)
    <2>1. s.max_successful_tryno \in Int
      BY HostFields
    <2>2. t.max_successful_tryno = s.max_successful_tryno
      BY DEF HostScanStats
    <2> QED BY <2>1, <2>2 DEF Kept, HostScanStats
  <1> QED BY <1>1, <1>2 DEF Books, HostScanStats

\* Congestion control touches the two windows and nothing else.
LEMMA AdjustSpec ==
    ASSUME NEW u \in Views, NEW p \in UltraProbe, NEW rcvd \in BOOLEAN,
           NEW v \in AdjustedTiming(u, p, rcvd)
    PROVE  /\ v \in Views
           /\ Books(u.hss, v.hss, u.hss.probes_outstanding, u.hss.num_probes_active,
                    u.hss.num_probes_waiting_retransmit)
           /\ v.g.numSDs = u.g.numSDs
  <1> DEFINE dropped == (p.tryno > 0 /\ rcvd) \/ (isPing(p) /\ ~rcvd)
             lo(c) == IF dropped THEN LowCwnd ELSE c
             hi(c) == IF rcvd THEN MaxCwnd ELSE c
  <1>1. u.hss \in HostScanStats /\ u.g \in GroupStats
    BY ViewParts
  <1>2. PICK c \in lo(u.hss.cwnd)..hi(u.hss.cwnd), d \in lo(u.g.cwnd)..hi(u.g.cwnd) :
          v = [hss |-> [u.hss EXCEPT !.cwnd = c], g |-> [u.g EXCEPT !.cwnd = d]]
    BY DEF AdjustedTiming
  <1>3. \A e \in LowCwnd..MaxCwnd : lo(e)..hi(e) \subseteq LowCwnd..MaxCwnd
    BY ScanAssumption
  <1>4. c \in LowCwnd..MaxCwnd
    <2>1. u.hss.cwnd \in LowCwnd..MaxCwnd
      BY <1>1, HostFields
    <2> HIDE DEF lo, hi
    <2> QED BY <1>3, <2>1
  <1>5. d \in LowCwnd..MaxCwnd
    <2>1. u.g.cwnd \in LowCwnd..MaxCwnd
      BY <1>1 DEF GroupStats
    <2> HIDE DEF lo, hi
    <2> QED BY <1>3, <2>1
  <1> HIDE DEF dropped, lo, hi
  <1>6. v.hss = [u.hss EXCEPT !.cwnd = c] /\ v.g = [u.g EXCEPT !.cwnd = d]
        /\ v = [hss |-> v.hss, g |-> v.g]
    BY <1>2
  <1>7. /\ v.hss \in HostScanStats
        /\ Books(u.hss, v.hss, u.hss.probes_outstanding, u.hss.num_probes_active,
                 u.hss.num_probes_waiting_retransmit)
    BY <1>1, <1>4, <1>6, CwndUpdate
  <1>8. v.g \in GroupStats /\ v.g.numSDs = u.g.numSDs
    BY <1>1, <1>5, <1>6 DEF GroupStats
  <1>9. v \in Views
    BY <1>6, <1>7, <1>8 DEF Views
  <1> QED BY <1>7, <1>8, <1>9

\* Two updates in a row, the first of which only touches what Kept allows.
LEMMA BooksAfter ==
    ASSUME NEW r \in HostScanStats, NEW s \in HostScanStats, NEW t \in HostScanStats,
           NEW P, NEW i, NEW j, Kept(r, s), Books(s, t, P, i, j)
    PROVE  Books(r, t, P, i, j)
  <1>1. /\ r.max_successful_tryno \in Int /\ s.max_successful_tryno \in Int
        /\ t.max_successful_tryno \in Int
    BY HostFields
  <1> QED BY <1>1 DEF Books, Kept

\* Congestion control after a probe was destroyed or marked changes nothing of that.
LEMMA ThenAdjusted ==
    ASSUME NEW u \in Views, NEW p \in UltraProbe, NEW w,
           NEW q \in UltraProbe, NEW rcvd \in BOOLEAN, NEW v \in AdjustedTiming(w, q, rcvd)
    PROVE  /\ Destroyed(u, w, p) => Destroyed(u, v, p)
           /\ Marked(u, w, p) => Marked(u, v, p)
  <1> SUFFICES ASSUME Destroyed(u, w, p) \/ Marked(u, w, p)
               PROVE  /\ Destroyed(u, w, p) => Destroyed(u, v, p)
                      /\ Marked(u, w, p) => Marked(u, v, p)
    OBVIOUS
  <1>1. w \in Views /\ w.g.numSDs <= u.g.numSDs
    BY DEF Destroyed, Marked
  <1>2. /\ v \in Views
        /\ Books(w.hss, v.hss, w.hss.probes_outstanding, w.hss.num_probes_active,
                 w.hss.num_probes_waiting_retransmit)
        /\ v.g.numSDs = w.g.numSDs
    BY <1>1, AdjustSpec
  <1>3. u.hss \in HostScanStats /\ w.hss \in HostScanStats /\ v.hss \in HostScanStats
    BY <1>1, <1>2, ViewParts
  <1>4. Kept(u.hss, w.hss)
    BY DEF Destroyed, Marked, Books
  <1>5. Books(u.hss, v.hss, w.hss.probes_outstanding, w.hss.num_probes_active,
                 w.hss.num_probes_waiting_retransmit)
    BY <1>2, <1>3, <1>4, BooksAfter
  <1> QED BY <1>1, <1>2, <1>5 DEF Destroyed, Marked, Books

\* What markProbeTimedout does to the books.
LEMMA MarkSpec ==
    ASSUME NEW u \in Views, NEW p \in UltraProbe, NEW v \in markProbeTimedout(u, p)
    PROVE  Marked(u, v, p)
  <1> DEFINE a == One(~isPing(p))
             d == One(p.sd # "none")
             P == (u.hss.probes_outstanding \ {p}) \cup {TimedOutProbe(p)}
             i == u.hss.num_probes_active - 1
             j == u.hss.num_probes_waiting_retransmit + a
             k == u.g.num_probes_active - 1
             l == u.g.numSDs - d
             w == [hss |-> [u.hss EXCEPT !.probes_outstanding = P, !.num_probes_active = i,
                              !.num_probes_waiting_retransmit = j],
                   g   |-> [u.g EXCEPT !.num_probes_active = k, !.numSDs = l]]
  <1>1. a \in Nat /\ d \in Nat
    BY DEF One
  <1>2. u.hss \in HostScanStats /\ u.g \in GroupStats
    BY ViewParts
  <1>3. TimedOutProbe(p) \in UltraProbe
    BY DEF TimedOutProbe, UltraProbe
  <1>4. v \in AdjustedTiming(w, p, FALSE)
    BY DEF markProbeTimedout
  <1> HIDE DEF a, d
  <1>5. P \in SUBSET UltraProbe /\ i \in Int /\ j \in Int
    BY <1>1, <1>2, <1>3, HostFields
  <1>6. k \in Int /\ l \in Int /\ l <= u.g.numSDs
    BY <1>1, <1>2 DEF GroupStats
  <1> HIDE DEF P, i, j, k, l
  <1>7. w.hss = [u.hss EXCEPT !.probes_outstanding = P, !.num_probes_active = i,
                              !.num_probes_waiting_retransmit = j]
        /\ w.g = [u.g EXCEPT !.num_probes_active = k, !.numSDs = l]
        /\ w = [hss |-> w.hss, g |-> w.g]
    OBVIOUS
  <1> HIDE DEF w
  <1>8. w.hss \in HostScanStats /\ Books(u.hss, w.hss, P, i, j)
    BY <1>2, <1>5, <1>7, BooksUpdate
  <1>9. w.g \in GroupStats /\ w.g.numSDs = l
    BY <1>2, <1>6, <1>7 DEF GroupStats
  <1>10. w \in Views
    BY <1>7, <1>8, <1>9 DEF Views
  <1>11. Marked(u, w, p)
    BY <1>6, <1>8, <1>9, <1>10 DEF Marked, P, i, j, a
  <1> QED BY <1>4, <1>11, ThenAdjusted

\* What destroyAllOutstandingProbes does to the books.
LEMMA DestroyAllSpec ==
    ASSUME NEW u \in Views, IsFiniteSet(u.hss.probes_outstanding)
    PROVE  Cleared(u, destroyAllOutstandingProbes(u))
  <1> DEFINE a == Cardinality(Active(u.hss.probes_outstanding))
             w == Cardinality(Awaiting(u.hss.probes_outstanding))
             d == Cardinality(Watched(u.hss.probes_outstanding))
             P == {}
             i == u.hss.num_probes_active - a
             j == u.hss.num_probes_waiting_retransmit - w
             k == u.g.num_probes_active - a
             l == u.g.numSDs - d
             v == destroyAllOutstandingProbes(u)
  <1>1. a \in Nat /\ w \in Nat /\ d \in Nat
    BY FS_Subset, FS_CardinalityType DEF Active, Awaiting, Watched
  <1>2. u.hss \in HostScanStats /\ u.g \in GroupStats
    BY ViewParts
  <1>6. v.hss = [u.hss EXCEPT !.probes_outstanding = P, !.num_probes_active = i,
                              !.num_probes_waiting_retransmit = j]
    BY DEF destroyAllOutstandingProbes
  <1>7. v.g = [u.g EXCEPT !.num_probes_active = k, !.numSDs = l]
    BY DEF destroyAllOutstandingProbes
  <1>8. v = [hss |-> v.hss, g |-> v.g]
    BY DEF destroyAllOutstandingProbes
  <1> HIDE DEF a, w, d, v
  <1>3. P \in SUBSET UltraProbe /\ i \in Int /\ j \in Int
    BY <1>1, <1>2, HostFields
  <1>4. k \in Int /\ l \in Int
    BY <1>1, <1>2 DEF GroupStats
  <1>5. l <= u.g.numSDs
    BY <1>1, <1>2 DEF GroupStats
  <1> HIDE DEF P, i, j, k, l
  <1>9. v.hss \in HostScanStats /\ Books(u.hss, v.hss, P, i, j)
    BY <1>2, <1>3, <1>6, BooksUpdate
  <1>10. v.g \in GroupStats /\ v.g.numSDs = l
    BY <1>2, <1>4, <1>7 DEF GroupStats
  <1>11. v \in Views
    BY <1>8, <1>9, <1>10 DEF Views
  <1> QED BY <1>5, <1>9, <1>10, <1>11 DEF Cleared, v, P, i, j, a, w

\* Recording the answer of a port leaves the books alone.
LEMMA AnswerUpdate ==
    ASSUME NEW s \in HostScanStats,
           NEW f \in [Ports -> PortStates \cup {"default"}],
           NEW n \in [Ports -> SUBSET PortStates],
           NEW m \in 0..TrynoCap, m >= s.max_successful_tryno,
           NEW pp \in PingProbes, NEW t,
           t = [s EXCEPT !.port_state = f, !.seen = n, !.max_successful_tryno = m,
                         !.pingprobe = pp]
    PROVE  /\ t \in HostScanStats
           /\ Books(s, t, s.probes_outstanding, s.num_probes_active,
                    s.num_probes_waiting_retransmit)
  <1>1. t \in HostScanStats
    BY DEF HostScanStats
  <1>2. Kept(s, t)
    <2>1. t.max_successful_tryno = m
      BY DEF HostScanStats
    <2> QED BY <2>1 DEF Kept, HostScanStats
  <1> QED BY <1>1, <1>2 DEF Books, HostScanStats

\* Recording that a host is up or down leaves the books alone.
LEMMA VerdictUpdate ==
    ASSUME NEW s \in HostScanStats, NEW f \in {"unknown", "up", "down"},
           NEW pp \in PingProbes, NEW t,
           t = [s EXCEPT !.flags = f, !.pingprobe = pp]
    PROVE  /\ t \in HostScanStats
           /\ Books(s, t, s.probes_outstanding, s.num_probes_active,
                    s.num_probes_waiting_retransmit)
  <1>1. t \in HostScanStats
    BY DEF HostScanStats
  <1>2. Kept(s, t)
    <2>1. s.max_successful_tryno \in Int
      BY HostFields
    <2>2. t.max_successful_tryno = s.max_successful_tryno
      BY DEF HostScanStats
    <2> QED BY <2>1, <2>2 DEF Kept, HostScanStats
  <1> QED BY <1>1, <1>2 DEF Books, HostScanStats

\* The pingprobe an answer leaves is a pingprobe.
LEMMA BetterPingType ==
    ASSUME NEW s \in HostScanStats, NEW p \in UltraProbe,
           NEW r \in PortStates \cup {"unknown"}
    PROVE  BetterPing(s, p, r) \in PingProbes
  <1>1. s.pingprobe \in PingProbes /\ p.port \in Ports
    BY HostFields, ProbeFields
  <1>2. [port |-> p.port, state |-> r] \in PingProbes
    BY <1>1 DEF PingProbes
  <1> QED BY <1>1, <1>2 DEF BetterPing

\* The precedence rule yields one of the states it is given.
LEMMA PspecType ==
    ASSUME NEW old \in PortStates \cup {"default"}, NEW new \in PortStates
    PROVE  ultrascan_port_pspec_update(old, new) \in PortStates \cup {"default"}
  BY DEF ultrascan_port_pspec_update, PortStates

\* Destroying a probe after fields that Books does not cover have changed.
LEMMA ThenDestroyed ==
    ASSUME NEW u \in Views, NEW p \in UltraProbe, NEW t \in HostScanStats,
           Books(u.hss, t, u.hss.probes_outstanding, u.hss.num_probes_active,
                 u.hss.num_probes_waiting_retransmit)
    PROVE  Destroyed(u, destroyOutstandingProbe([u EXCEPT !.hss = t], p), p)
  <1> DEFINE w == [u EXCEPT !.hss = t]
             v == destroyOutstandingProbe(w, p)
  <1>1. w \in Views /\ w.hss = t /\ w.g = u.g
    BY DEF Views
  <1> HIDE DEF w
  <1>2. Destroyed(w, v, p)
    BY <1>1, DestroySpec
  <1> HIDE DEF v
  <1>3. u.hss \in HostScanStats /\ v.hss \in HostScanStats
    BY <1>2, ViewParts DEF Destroyed
  <1>4. Kept(u.hss, t)
    BY DEF Books
  <1>5. Books(t, v.hss, t.probes_outstanding \ {p},
               t.num_probes_active - One(~p.timedout),
               t.num_probes_waiting_retransmit
                 - One(~isPing(p) /\ p.timedout /\ ~p.retransmitted))
    BY <1>1, <1>2 DEF Destroyed
  <1>6. /\ t.probes_outstanding = u.hss.probes_outstanding
        /\ t.num_probes_active = u.hss.num_probes_active
        /\ t.num_probes_waiting_retransmit = u.hss.num_probes_waiting_retransmit
    BY DEF Books
  <1>7. Books(u.hss, v.hss, u.hss.probes_outstanding \ {p},
               u.hss.num_probes_active - One(~p.timedout),
               u.hss.num_probes_waiting_retransmit
                 - One(~isPing(p) /\ p.timedout /\ ~p.retransmitted))
    BY <1>3, <1>4, <1>5, <1>6, BooksAfter
  <1> QED BY <1>1, <1>2, <1>7 DEF Destroyed, v, w

\* ultrascan_ping_update removes the ping.
LEMMA PingUpdateSpec ==
    ASSUME NEW u \in Views, NEW p \in UltraProbe, NEW rcvd \in BOOLEAN,
           NEW v \in ultrascan_ping_update(u, p, rcvd)
    PROVE  Destroyed(u, v, p)
  <1>1. PICK w \in AdjustedTiming(u, p, rcvd) : v = destroyOutstandingProbe(w, p)
    BY DEF ultrascan_ping_update
  <1>2. /\ w \in Views
        /\ Books(u.hss, w.hss, u.hss.probes_outstanding, u.hss.num_probes_active,
                 u.hss.num_probes_waiting_retransmit)
        /\ w.g.numSDs = u.g.numSDs
    BY AdjustSpec
  <1>3. Destroyed(w, v, p)
    BY <1>1, <1>2, DestroySpec
  <1>4. u.hss \in HostScanStats /\ w.hss \in HostScanStats /\ v.hss \in HostScanStats
    BY <1>2, <1>3, ViewParts DEF Destroyed
  <1>5. Kept(u.hss, w.hss)
    BY <1>2 DEF Books
  <1>6. Books(u.hss, v.hss, w.hss.probes_outstanding \ {p},
               w.hss.num_probes_active - One(~p.timedout),
               w.hss.num_probes_waiting_retransmit
                 - One(~isPing(p) /\ p.timedout /\ ~p.retransmitted))
    BY <1>3, <1>4, <1>5, BooksAfter DEF Destroyed
  <1> QED BY <1>2, <1>3, <1>6 DEF Destroyed, Books

\* ultrascan_port_probe_update removes the probe that was answered.
LEMMA PortUpdateSpec ==
    ASSUME NEW u \in Views, NEW p \in UltraProbe, NEW r \in PortStates,
           NEW v \in ultrascan_port_probe_update(u, p, r)
    PROVE  Destroyed(u, v, p)
  <1> DEFINE s  == u.hss
             adjust == ~(RateLimited(r) /\ p.tryno > 0)
             f  == [s.port_state EXCEPT ![p.port] = ultrascan_port_pspec_update(@, r)]
             n  == [s.seen EXCEPT ![p.port] = @ \cup {r}]
             m  == IF adjust /\ p.tryno > s.max_successful_tryno
                   THEN p.tryno ELSE s.max_successful_tryno
             pp == IF RateLimited(r) THEN s.pingprobe ELSE BetterPing(s, p, r)
             t  == [s EXCEPT !.port_state = f, !.seen = n, !.max_successful_tryno = m,
                             !.pingprobe = pp]
             w  == destroyOutstandingProbe([u EXCEPT !.hss = t], p)
  <1>1. s \in HostScanStats
    BY ViewParts
  <1>2. v = w \/ v \in AdjustedTiming(w, p, TRUE)
    BY DEF ultrascan_port_probe_update
  <1> HIDE DEF s
  <1>3. f \in [Ports -> PortStates \cup {"default"}]
    BY <1>1, HostFields, ProbeFields, PspecType
  <1>4. n \in [Ports -> SUBSET PortStates]
    BY <1>1, HostFields, ProbeFields
  <1>5. m \in 0..TrynoCap /\ m >= s.max_successful_tryno
    BY <1>1, HostFields, ProbeFields, ScanAssumption
  <1>6. pp \in PingProbes
    BY <1>1, HostFields, BetterPingType
  <1> HIDE DEF f, n, m, pp
  <1>7. /\ t \in HostScanStats
        /\ Books(s, t, s.probes_outstanding, s.num_probes_active,
                 s.num_probes_waiting_retransmit)
    BY <1>1, <1>3, <1>4, <1>5, <1>6, AnswerUpdate
  <1> HIDE DEF t
  <1>8. Destroyed(u, w, p)
    BY <1>7, ThenDestroyed DEF s
  <1> HIDE DEF w
  <1> QED BY <1>2, <1>8, ThenAdjusted

\* ultrascan_host_probe_update removes the probe that was answered or given up.
LEMMA HostUpdateSpec ==
    ASSUME NEW u \in Views, NEW p \in UltraProbe, NEW r \in {"up", "down"},
           NEW rcvd \in BOOLEAN,
           NEW v \in ultrascan_host_probe_update(u, p, r, rcvd)
    PROVE  Destroyed(u, v, p)
  <1> DEFINE s  == u.hss
             f  == IF s.flags = "up" THEN s.flags ELSE r
             pp == IF rcvd /\ r = "up" THEN BetterPing(s, p, "unknown") ELSE s.pingprobe
             t  == [s EXCEPT !.flags = f, !.pingprobe = pp]
             w  == destroyOutstandingProbe([u EXCEPT !.hss = t], p)
  <1>1. s \in HostScanStats
    BY ViewParts
  <1>2. v = w \/ v \in AdjustedTiming(w, p, rcvd)
    BY DEF ultrascan_host_probe_update
  <1> HIDE DEF s
  <1>3. f \in {"unknown", "up", "down"}
    BY <1>1, HostFields
  <1>6. pp \in PingProbes
    BY <1>1, HostFields, BetterPingType
  <1> HIDE DEF f, pp
  <1>7. /\ t \in HostScanStats
        /\ Books(s, t, s.probes_outstanding, s.num_probes_active,
                 s.num_probes_waiting_retransmit)
    BY <1>1, <1>3, <1>6, VerdictUpdate
  <1> HIDE DEF t
  <1>8. Destroyed(u, w, p)
    BY <1>7, ThenDestroyed DEF s
  <1> HIDE DEF w
  <1> QED BY <1>2, <1>8, ThenAdjusted

\* An answer that settles a host removes its probe or all its probes.
LEMMA HostAnswerSettles ==
    ASSUME NEW u \in Views, IsFiniteSet(u.hss.probes_outstanding),
           NEW p \in UltraProbe, NEW r \in {"up", "down"}, NEW v \in HostAnswer(u, p, r)
    PROVE  Settled(u, v, p)
  <1>1. PICK w \in ultrascan_host_probe_update(u, p, r, TRUE) :
          v = IF r = "up" THEN destroyAllOutstandingProbes(w) ELSE w
    BY DEF HostAnswer
  <1>2. Destroyed(u, w, p)
    BY HostUpdateSpec
  <1>3. w \in Views /\ w.hss.probes_outstanding = u.hss.probes_outstanding \ {p}
    BY <1>2 DEF Destroyed, Books
  <1>4. IsFiniteSet(w.hss.probes_outstanding)
    BY <1>3, FS_RemoveElement
  <1>5. Cleared(w, destroyAllOutstandingProbes(w))
    BY <1>3, <1>4, DestroyAllSpec
  <1> QED BY <1>1, <1>2, <1>5 DEF Settled

\* That is an outcome.
LEMMA HostAnswerSpec ==
    ASSUME NEW u \in Views, IsFiniteSet(u.hss.probes_outstanding),
           NEW p \in UltraProbe, NEW r \in {"up", "down"}, NEW v \in HostAnswer(u, p, r)
    PROVE  Outcome(u, v, p)
  BY HostAnswerSettles DEF Settled, Outcome

\* Every outcome of connect() keeps, removes or times out its probe, or clears the list.
LEMMA ConnectResultSpec ==
    ASSUME NEW u \in Views, IsFiniteSet(u.hss.probes_outstanding),
           NEW p \in UltraProbe, NEW e \in ConnectErrnos, NEW destroy \in BOOLEAN,
           NEW v \in handleConnectResult(u, p, e, destroy)
    PROVE  Outcome(u, v, p)
  <1>1. NewHostState(e) \in {"up", "down", "unknown"}
    BY DEF NewHostState, ConnectErrnos
  <1>2. NewPortState(e) \in {"open", "closed", "filtered", "unknown"}
    BY DEF NewPortState, ConnectErrnos
  <1>3. isPing(p) \in BOOLEAN /\ PingScan \in BOOLEAN
    BY ProbeFields, ScanAssumption
  <1>4. \/ v \in ultrascan_ping_update(u, p, TRUE)
        \/ NewHostState(e) # "unknown" /\ v \in HostAnswer(u, p, NewHostState(e))
        \/ v \in markProbeTimedout(u, p)
        \/ NewPortState(e) # "unknown"
             /\ v \in ultrascan_port_probe_update(u, p, NewPortState(e))
        \/ v = destroyOutstandingProbe(u, p)
        \/ v = u
    BY <1>3, Zenon DEF handleConnectResult
  <1>5. CASE v \in ultrascan_ping_update(u, p, TRUE)
    BY <1>5, PingUpdateSpec DEF Outcome
  <1>6. CASE NewHostState(e) # "unknown" /\ v \in HostAnswer(u, p, NewHostState(e))
    BY <1>1, <1>6, HostAnswerSpec
  <1>7. CASE v \in markProbeTimedout(u, p)
    BY <1>7, MarkSpec DEF Outcome
  <1>8. CASE NewPortState(e) # "unknown"
               /\ v \in ultrascan_port_probe_update(u, p, NewPortState(e))
    BY <1>2, <1>8, PortUpdateSpec DEF Outcome, PortStates
  <1>9. CASE v = destroyOutstandingProbe(u, p)
    BY <1>9, DestroySpec DEF Outcome
  <1>10. CASE v = u
    BY <1>10 DEF Outcome
  <1> QED BY <1>4, <1>5, <1>6, <1>7, <1>8, <1>9, <1>10

\* Writing the list, the active count and the history of tries.
LEMMA TriesUpdate ==
    ASSUME NEW s \in HostScanStats, NEW n \in [Ports -> Nat], NEW P \in SUBSET UltraProbe,
           NEW i \in Int, NEW t,
           t = [s EXCEPT !.probes_outstanding = P, !.num_probes_active = i, !.tries = n]
    PROVE  /\ t \in HostScanStats
           /\ Books(s, t, P, i, s.num_probes_waiting_retransmit)
  <1>1. t \in HostScanStats
    BY DEF HostScanStats
  <1>2. Kept(s, t)
    <2>1. s.max_successful_tryno \in Int
      BY HostFields
    <2>2. t.max_successful_tryno = s.max_successful_tryno
      BY DEF HostScanStats
    <2> QED BY <2>1, <2>2 DEF Kept, HostScanStats
  <1> QED BY <1>1, <1>2 DEF Books, HostScanStats

\* What listing a new probe does to the books.
LEMMA EnqueueSpec ==
    ASSUME NEW u \in Views, NEW p \in UltraProbe
    PROVE  Enqueued(u, Enqueue(u, p), p)
  <1> DEFINE s == u.hss
             d == One(p.sd # "none")
             P == s.probes_outstanding \cup {p}
             i == s.num_probes_active + 1
             n == [s.tries EXCEPT ![p.port] = IF isPing(p) THEN @ ELSE @ + 1]
             k == u.g.num_probes_active + 1
             l == u.g.numSDs + d
             v == Enqueue(u, p)
  <1>1. d \in Nat
    BY DEF One
  <1>2. s \in HostScanStats /\ u.g \in GroupStats
    BY ViewParts
  <1>3. v.hss = [s EXCEPT !.probes_outstanding = P, !.num_probes_active = i, !.tries = n]
    BY DEF Enqueue
  <1>4. v.g = [u.g EXCEPT !.num_probes_active = k, !.numSDs = l]
    BY DEF Enqueue
  <1>5. v = [hss |-> v.hss, g |-> v.g]
    BY DEF Enqueue
  <1> HIDE DEF s, d, v
  <1>6. P \in SUBSET UltraProbe /\ i \in Int
    BY <1>2, HostFields
  <1>7. n \in [Ports -> Nat]
    BY <1>2, HostFields, ProbeFields
  <1>8. k \in Int /\ l \in Int
    BY <1>1, <1>2 DEF GroupStats
  <1> HIDE DEF P, i, n, k, l
  <1>9. /\ v.hss \in HostScanStats
        /\ Books(s, v.hss, P, i, s.num_probes_waiting_retransmit)
    BY <1>2, <1>3, <1>6, <1>7, TriesUpdate
  <1>10. v.g \in GroupStats /\ v.g.numSDs = l
    BY <1>2, <1>4, <1>8 DEF GroupStats
  <1>11. v \in Views
    BY <1>5, <1>9, <1>10 DEF Views
  <1> QED BY <1>9, <1>10, <1>11 DEF Enqueued, v, P, i, s, d, l

\* What sending a probe does: it is listed, and its connect() may finish at once.
LEMMA SendSpec ==
    ASSUME NEW u \in Views, IsFiniteSet(u.hss.probes_outstanding),
           NEW p \in UltraProbe, NEW v \in sendScanProbe(u, p)
    PROVE  \/ ~ConnectScan /\ Enqueued(u, v, p)
           \/ ConnectScan /\ Enqueued(u, v, [p EXCEPT !.sd = "watched"])
           \/ ConnectScan /\ \E w : Enqueued(u, w, p) /\ Outcome(w, v, p)
  <1>1. CASE ~ConnectScan
    <2>1. v = Enqueue(u, p)
      BY <1>1 DEF sendScanProbe
    <2> QED BY <1>1, <2>1, EnqueueSpec
  <1>2. CASE ConnectScan /\ v = Enqueue(u, [p EXCEPT !.sd = "watched"])
    <2>1. [p EXCEPT !.sd = "watched"] \in UltraProbe
      BY DEF UltraProbe
    <2> QED BY <1>2, <2>1, EnqueueSpec
  <1>3. CASE ConnectScan /\ v # Enqueue(u, [p EXCEPT !.sd = "watched"])
    <2> DEFINE w == Enqueue(u, p)
    <2>1. PICK e \in Errnos : v \in handleConnectResult(w, p, e, TRUE)
      BY <1>3 DEF sendScanProbe
    <2>2. e \in ConnectErrnos
      BY ScanAssumption
    <2>3. Enqueued(u, w, p)
      BY EnqueueSpec
    <2> HIDE DEF w
    <2>4. w \in Views /\ w.hss.probes_outstanding = u.hss.probes_outstanding \cup {p}
      BY <2>3 DEF Enqueued, Books
    <2>5. IsFiniteSet(w.hss.probes_outstanding)
      BY <2>4, FS_AddElement
    <2>6. Outcome(w, v, p)
      BY <2>1, <2>2, <2>4, <2>5, ConnectResultSpec
    <2> QED BY <1>3, <2>3, <2>6
  <1>4. ConnectScan \in BOOLEAN
    BY ScanAssumption
  <1> QED BY <1>1, <1>2, <1>3, <1>4

\* No answer makes the list of probes infinite or opens a socket.
LEMMA OutcomeSound ==
    ASSUME NEW u, Sound(u), NEW p \in UltraProbe, NEW v, Outcome(u, v, p)
    PROVE  Sound(v) /\ v.g.numSDs <= u.g.numSDs
  <1>1. u \in Views /\ u.g \in GroupStats /\ u.g.numSDs \in Int
    BY ViewParts DEF Sound, GroupStats
  <1>2. ASSUME NEW w, Destroyed(u, w, p)
        PROVE  Sound(w) /\ w.g.numSDs <= u.g.numSDs /\ w.g.numSDs \in Int
    <2>1. w.hss.probes_outstanding = u.hss.probes_outstanding \ {p}
      BY <1>2 DEF Destroyed, Books
    <2>2. w \in Views /\ w.g.numSDs \in Int /\ w.g.numSDs <= u.g.numSDs
      BY <1>2, ViewParts DEF Destroyed, GroupStats
    <2> QED BY <2>1, <2>2, FS_RemoveElement DEF Sound
  <1>3. CASE v = u
    BY <1>1, <1>3
  <1>4. CASE Destroyed(u, v, p)
    BY <1>2, <1>4
  <1>5. CASE Marked(u, v, p)
    <2>1. v.hss.probes_outstanding
            = (u.hss.probes_outstanding \ {p}) \cup {TimedOutProbe(p)}
      BY <1>5 DEF Marked, Books
    <2> DEFINE P == u.hss.probes_outstanding
               W == v.hss.probes_outstanding
               q == TimedOutProbe(p)
    <2>2. IsFiniteSet(P) /\ W = (P \ {p}) \cup {q}
      BY <2>1 DEF Sound
    <2> HIDE DEF P, W, q
    <2>3. IsFiniteSet(W)
      BY <2>2, SwapFinite
    <2> QED BY <1>5, <2>3 DEF Marked, Sound, W
  <1>6. CASE \E w : Destroyed(u, w, p) /\ Cleared(w, v)
    <2>1. PICK w : Destroyed(u, w, p) /\ Cleared(w, v)
      BY <1>6
    <2>2. w.g.numSDs <= u.g.numSDs /\ w.g.numSDs \in Int
      BY <1>2, <2>1
    <2>3. v \in Views /\ v.hss.probes_outstanding = {} /\ v.g.numSDs <= w.g.numSDs
      BY <2>1 DEF Cleared, Books
    <2>4. v.g.numSDs \in Int
      BY <2>3, ViewParts DEF GroupStats
    <2>5. Sound(v)
      BY <2>3, FS_EmptySet DEF Sound
    <2> QED BY <1>1, <2>2, <2>3, <2>4, <2>5
  <1> QED BY <1>3, <1>4, <1>5, <1>6 DEF Outcome

\* Listing a probe keeps the list finite.
LEMMA EnqueuedSound ==
    ASSUME NEW u, Sound(u), NEW p, NEW v, Enqueued(u, v, p)
    PROVE  Sound(v) /\ v.g.numSDs \in Int
  <1>1. v \in Views /\ v.hss.probes_outstanding = u.hss.probes_outstanding \cup {p}
    BY DEF Enqueued, Books
  <1>2. v.g.numSDs \in Int
    BY <1>1, ViewParts DEF GroupStats
  <1> QED BY <1>1, <1>2, FS_AddElement DEF Sound

\* A send opens at most one socket, and only a connect scan opens one.
LEMMA SendSound ==
    ASSUME NEW u, Sound(u), NEW p \in UltraProbe, p.sd = "none",
           NEW v \in sendScanProbe(u, p)
    PROVE  /\ Sound(v)
           /\ ConnectScan => v.g.numSDs <= u.g.numSDs + 1
           /\ ~ConnectScan => v.g.numSDs <= u.g.numSDs
  <1> DEFINE q == [p EXCEPT !.sd = "watched"]
  <1>1. u \in Views /\ IsFiniteSet(u.hss.probes_outstanding) /\ u.g.numSDs \in Int
    BY ViewParts DEF Sound, GroupStats
  <1>2. ASSUME NEW w, NEW r, Enqueued(u, w, r), r.sd = "none"
        PROVE  Sound(w) /\ w.g.numSDs = u.g.numSDs
    <2>1. Sound(w)
      BY <1>2, EnqueuedSound
    <2>2. w.g.numSDs = u.g.numSDs + 0
      BY <1>2 DEF Enqueued, One
    <2> QED BY <1>1, <2>1, <2>2
  <1>3. CASE ~ConnectScan /\ Enqueued(u, v, p)
    BY <1>1, <1>2, <1>3
  <1>4. CASE ConnectScan /\ Enqueued(u, v, q)
    <2>1. q.sd = "watched"
      BY DEF UltraProbe
    <2>2. v.g.numSDs = u.g.numSDs + 1 /\ Sound(v)
      BY <1>4, <2>1, EnqueuedSound DEF Enqueued, One
    <2> QED BY <1>1, <1>4, <2>2
  <1>5. CASE ConnectScan /\ \E w : Enqueued(u, w, p) /\ Outcome(w, v, p)
    <2>1. PICK w : Enqueued(u, w, p) /\ Outcome(w, v, p)
      BY <1>5
    <2>2. Sound(w) /\ w.g.numSDs = u.g.numSDs
      BY <1>2, <2>1
    <2>3. Sound(v) /\ v.g.numSDs <= w.g.numSDs
      BY <2>1, <2>2, OutcomeSound
    <2>4. v.g.numSDs \in Int
      BY <2>3, ViewParts DEF Sound, GroupStats
    <2> QED BY <1>1, <1>5, <2>2, <2>3, <2>4
  <1>6. \/ ~ConnectScan /\ Enqueued(u, v, p)
        \/ ConnectScan /\ Enqueued(u, v, q)
        \/ ConnectScan /\ \E w : Enqueued(u, w, p) /\ Outcome(w, v, p)
    BY <1>1, SendSpec
  <1> QED BY <1>3, <1>4, <1>5, <1>6

-----------------------------------------------------------------------------
(* The state machine.                                                        *)


\* What the induction carries beyond the types: destroyAllOutstandingProbes subtracts
\* the sizes of parts of the list, which are numbers because the list is finite.
ListsFinite == \A h \in Hosts : IsFiniteSet(hss[h].probes_outstanding)

TypeInv == TypeOK /\ ListsFinite /\ SocketsBounded

Fits(u) == Sound(u) /\ u.g.numSDs <= MaxSockets

\* What a step leaves behind when it writes one host's statistics.
Wrote == /\ hss' \in [Hosts -> HostScanStats]
         /\ gstats' \in GroupStats
         /\ ListsFinite' /\ SocketsBounded'

\* The parts of the invariant, field by field.
LEMMA TypeParts ==
    ASSUME TypeInv
    PROVE  /\ hss \in [Hosts -> HostScanStats] /\ gstats \in GroupStats
           /\ gstats.numSDs <= MaxSockets /\ gstats.numSDs \in Int
           /\ \A h \in Hosts : IsFiniteSet(hss[h].probes_outstanding)
           /\ incompleteHosts \subseteq Hosts /\ completedHosts \subseteq Hosts
           /\ pinghost \in Hosts \cup {NONE} /\ todo \subseteq Hosts
           /\ phase \in Phases
  BY DEF TypeInv, TypeOK, GroupStats, ListsFinite, SocketsBounded

\* The view of a host is within the limits.
LEMMA ViewFits ==
    ASSUME TypeInv, NEW h \in Hosts
    PROVE  /\ Fits(View(h)) /\ View(h) \in Views
           /\ View(h).hss = hss[h] /\ View(h).g = gstats
           /\ hss[h] \in HostScanStats
  <1>1. hss[h] \in HostScanStats /\ gstats \in GroupStats
    BY TypeParts
  <1>2. View(h).hss = hss[h] /\ View(h).g = gstats /\ View(h) \in Views
    BY <1>1 DEF View, Views
  <1> QED BY <1>1, <1>2, TypeParts DEF Fits, Sound

\* Committing a view within the limits keeps the invariant's share of the state.
LEMMA CommitWrites ==
    ASSUME TypeInv, NEW h \in Hosts, NEW u, Fits(u), Commit(h, u)
    PROVE  Wrote
  <1>1. u.hss \in HostScanStats /\ u.g \in GroupStats
        /\ IsFiniteSet(u.hss.probes_outstanding) /\ u.g.numSDs <= MaxSockets
    BY ViewParts DEF Fits, Sound
  <1>2. hss' = [hss EXCEPT ![h] = u.hss] /\ gstats' = u.g
    BY DEF Commit
  <1>3. hss' \in [Hosts -> HostScanStats]
    BY <1>1, <1>2, TypeParts
  <1>4. \A k \in Hosts : IsFiniteSet(hss'[k].probes_outstanding)
    BY <1>1, <1>2, TypeParts
  <1> QED BY <1>1, <1>2, <1>3, <1>4 DEF Wrote, ListsFinite, SocketsBounded

\* So does leaving both halves alone.
LEMMA Untouched ==
    ASSUME TypeInv, UNCHANGED <<hss, gstats>>
    PROVE  Wrote
  BY TypeParts DEF Wrote, ListsFinite, SocketsBounded

\* A probe that leaves through sendOK never takes a socket too many.
LEMMA SendFits ==
    ASSUME TypeInv, GroupSendOK, NEW u, Sound(u), u.g = gstats,
           NEW p \in UltraProbe, p.sd = "none", NEW v \in sendScanProbe(u, p)
    PROVE  Fits(v)
  <1>1. /\ Sound(v)
        /\ ConnectScan => v.g.numSDs <= u.g.numSDs + 1
        /\ ~ConnectScan => v.g.numSDs <= u.g.numSDs
    BY SendSound
  <1>2. v.g.numSDs \in Int
    BY <1>1, ViewParts DEF Sound, GroupStats
  <1>3. /\ MaxSockets \in Int /\ gstats.numSDs \in Int /\ gstats.numSDs <= MaxSockets
        /\ ConnectScan \in BOOLEAN
    BY TypeParts, UltraScanAssumption, ScanAssumption
  <1>4. ConnectScan => gstats.numSDs < MaxSockets
    BY DEF GroupSendOK
  <1> QED BY <1>1, <1>2, <1>3, <1>4 DEF Fits

\* An answer to a host's probe leaves a view within the limits.
LEMMA OutcomeFits ==
    ASSUME TypeInv, NEW h \in Hosts, NEW p \in UltraProbe, NEW v, Outcome(View(h), v, p)
    PROVE  Fits(v)
  <1>1. Fits(View(h)) /\ View(h).g = gstats
    BY ViewFits
  <1>2. Sound(v) /\ v.g.numSDs <= gstats.numSDs
    BY <1>1, OutcomeSound DEF Fits
  <1>3. v.g.numSDs \in Int
    BY <1>2, ViewParts DEF Sound, GroupStats
  <1> QED BY <1>2, <1>3, TypeParts, UltraScanAssumption DEF Fits

-----------------------------------------------------------------------------
(* Sending.                                                                 *)

\* A send from a host whose other fields were updated first stays within the limits.
LEMMA SendWrites ==
    ASSUME TypeInv, GroupSendOK, NEW h \in Hosts, NEW t \in HostScanStats,
           t.probes_outstanding = hss[h].probes_outstanding,
           NEW p \in UltraProbe, p.sd = "none",
           NEW v \in sendScanProbe([View(h) EXCEPT !.hss = t], p)
    PROVE  Fits(v)
  <1> DEFINE u == [View(h) EXCEPT !.hss = t]
  <1>1. u.hss = t /\ u.g = gstats /\ u = [hss |-> t, g |-> gstats]
    BY DEF View
  <1> HIDE DEF u
  <1>2. u \in Views
    BY <1>1, TypeParts DEF Views
  <1>3. Sound(u)
    BY <1>1, <1>2, TypeParts DEF Sound
  <1> QED BY <1>1, <1>3, SendFits DEF u

\* sendPingProbe.
LEMMA PingTyped ==
    ASSUME TypeInv, NEW h \in Hosts, GroupSendOK, SendPing(h)
    PROVE  Wrote
  <1> DEFINE s == hss[h]
             t == [s EXCEPT !.nxtpseq = @ + 1]
             p == NewProbe(s.pingprobe.port, 0, s.nxtpseq)
  <1>1. PICK v \in sendScanProbe([View(h) EXCEPT !.hss = t], p) : Commit(h, v)
    BY DEF SendPing
  <1>2. s \in HostScanStats
    BY TypeParts
  <1>3. s.pingprobe # NoPing /\ s.nxtpseq <= MaxPings
    BY DEF SendPing
  <1> HIDE DEF s
  <1>4. s.pingprobe.port \in Ports
    <2>1. s.pingprobe \in [port: Ports, state: PortStates \cup {"unknown"}]
      BY <1>2, <1>3, HostFields DEF PingProbes
    <2> QED BY <2>1
  <1>5. s.nxtpseq \in 0..MaxPings /\ 0 \in 0..TrynoCap /\ s.nxtpseq + 1 \in 1..MaxPings + 1
    BY <1>2, <1>3, HostFields, ScanAssumption
  <1>6. p \in UltraProbe /\ p.sd = "none"
    BY <1>4, <1>5, NewProbeOK, Zenon
  <1>7. t \in HostScanStats /\ t.probes_outstanding = s.probes_outstanding
    BY <1>2, <1>5 DEF HostScanStats
  <1> HIDE DEF t, p
  <1>8. Fits(v)
    BY <1>6, <1>7, SendWrites DEF s
  <1> QED BY <1>1, <1>8, CommitWrites

\* allowedTryno() is at most tryno_cap and writes only tryno_mayincrease.
LEMMA AllowedTrynoType ==
    ASSUME NEW s \in HostScanStats
    PROVE  /\ allowedTryno(s) \in 0..TrynoCap
           /\ AfterAllowedTryno(s) \in HostScanStats
           /\ AfterAllowedTryno(s).probes_outstanding = s.probes_outstanding
  <1>1. allowedTryno(s) \in 0..TrynoCap
    BY HostFields, ScanAssumption DEF allowedTryno
  <1>2. MayIncrease(s) \in BOOLEAN
    BY DEF MayIncrease
  <1> HIDE DEF MayIncrease
  <1>3. AfterAllowedTryno(s) \in HostScanStats
        /\ AfterAllowedTryno(s).probes_outstanding = s.probes_outstanding
    BY <1>2 DEF AfterAllowedTryno, HostScanStats
  <1> QED BY <1>1, <1>3

\* What the last lines of retransmitProbe() do to the books.
LEMMA RetransmittedSpec ==
    ASSUME NEW v \in Views, NEW p \in UltraProbe
    PROVE  /\ Retransmitted(v, p) \in Views /\ Retransmitted(v, p).g = v.g
           /\ Books(v.hss, Retransmitted(v, p).hss,
                    (v.hss.probes_outstanding \ {p})
                      \cup {[p EXCEPT !.retransmitted = TRUE]},
                    v.hss.num_probes_active, v.hss.num_probes_waiting_retransmit - 1)
  <1> DEFINE s == v.hss
             r == [p EXCEPT !.retransmitted = TRUE]
             P == (s.probes_outstanding \ {p}) \cup {r}
             i == s.num_probes_active
             j == s.num_probes_waiting_retransmit - 1
             t == [s EXCEPT !.probes_outstanding = P, !.num_probes_waiting_retransmit = j]
             w == Retransmitted(v, p)
  <1>1. w = [hss |-> t, g |-> v.g]
    BY DEF Retransmitted
  <1>2. s \in HostScanStats /\ v.g \in GroupStats
    BY ViewParts
  <1>3. r \in UltraProbe
    BY DEF UltraProbe
  <1> HIDE DEF s, r, w
  <1>4. P \in SUBSET UltraProbe
    BY <1>2, <1>3, HostFields
  <1>5. i \in Int /\ j \in Int
    BY <1>2, HostFields
  <1> HIDE DEF P, j
  <1>6. t = [s EXCEPT !.probes_outstanding = P, !.num_probes_active = i,
                      !.num_probes_waiting_retransmit = j]
    BY <1>2 DEF HostScanStats
  <1> HIDE DEF t, i
  <1>7. t \in HostScanStats /\ Books(s, t, P, i, j)
    BY <1>2, <1>4, <1>5, <1>6, BooksUpdate
  <1>8. w.hss = t /\ w.g = v.g /\ w \in Views
    BY <1>1, <1>2, <1>7 DEF Views
  <1> QED BY <1>7, <1>8 DEF w, P, i, j, r, s

\* retransmitProbe.
LEMMA RetransmitTyped ==
    ASSUME TypeInv, NEW h \in Hosts, Retransmit(h)
    PROVE  Wrote
  <1> DEFINE s == AfterAllowedTryno(hss[h])
             t == [s EXCEPT !.rld = "no"]
  <1>1. PICK p \in Retransmittable(hss[h]) :
          \E v \in sendScanProbe([View(h) EXCEPT !.hss = t],
                                 NewProbe(p.port, p.tryno + 1, 0)) :
             IF v.hss.num_probes_waiting_retransmit > 0
             THEN Commit(h, Retransmitted(v, p))
             ELSE Commit(h, v)
    BY DEF Retransmit
  <1> DEFINE n == NewProbe(p.port, p.tryno + 1, 0)
  <1>2. PICK v \in sendScanProbe([View(h) EXCEPT !.hss = t], n) :
             IF v.hss.num_probes_waiting_retransmit > 0
             THEN Commit(h, Retransmitted(v, p))
             ELSE Commit(h, v)
    BY <1>1
  <1>3. hss[h] \in HostScanStats
    BY TypeParts
  <1>4. s \in HostScanStats /\ s.probes_outstanding = hss[h].probes_outstanding
    BY <1>3, AllowedTrynoType
  <1> HIDE DEF s
  <1>5. t \in HostScanStats /\ t.probes_outstanding = s.probes_outstanding
    BY <1>4 DEF HostScanStats
  <1>6. p \in UltraProbe /\ p.tryno < allowedTryno(hss[h])
    BY <1>3, HostFields DEF Retransmittable, Awaiting
  <1>7. p.port \in Ports /\ p.tryno + 1 \in 0..TrynoCap /\ 0 \in 0..MaxPings
    BY <1>3, <1>6, AllowedTrynoType, ProbeFields, ScanAssumption
  <1>8. n \in UltraProbe /\ n.sd = "none"
    BY <1>7, NewProbeOK, Zenon
  <1> HIDE DEF t, n
  <1>10. GroupSendOK
    BY DEF Retransmit, MayRetransmit
  <1>9. Fits(v)
    BY <1>4, <1>5, <1>8, <1>10, SendWrites
  <1>11. Fits(Retransmitted(v, p))
    <2>1. v \in Views /\ IsFiniteSet(v.hss.probes_outstanding) /\ v.g.numSDs <= MaxSockets
      BY <1>9 DEF Fits, Sound
    <2>2. /\ Retransmitted(v, p) \in Views /\ Retransmitted(v, p).g = v.g
          /\ Retransmitted(v, p).hss.probes_outstanding
               = (v.hss.probes_outstanding \ {p}) \cup {[p EXCEPT !.retransmitted = TRUE]}
      BY <1>6, <2>1, RetransmittedSpec DEF Books
    <2> DEFINE W == Retransmitted(v, p).hss.probes_outstanding
               V == v.hss.probes_outstanding
               r == [p EXCEPT !.retransmitted = TRUE]
    <2>3. W = (V \ {p}) \cup {r} /\ IsFiniteSet(V)
      BY <2>1, <2>2
    <2> HIDE DEF W, V, r
    <2>4. IsFiniteSet(W)
      BY <2>3, SwapFinite
    <2> QED BY <2>1, <2>2, <2>4 DEF Fits, Sound, W
  <1> QED BY <1>2, <1>9, <1>11, CommitWrites

\* sendNextRetryStackProbe.
LEMMA RetryTyped ==
    ASSUME TypeInv, NEW h \in Hosts, SendRetry(h)
    PROVE  Wrote
  <1> DEFINE s == hss[h]
             R == s.retry_stack
             top == R[Len(R)]
             Q == SubSeq(R, 1, Len(R) - 1)
             t == [s EXCEPT !.retry_stack = Q]
             n == NewProbe(top.port, top.tries + 1, 0)
             Entry == [port: Ports, tries: 0..TrynoCap - 1]
  <1>1. PICK v \in sendScanProbe([View(h) EXCEPT !.hss = t], n) : Commit(h, v)
    BY DEF SendRetry
  <1>2. R # <<>> /\ GroupSendOK
    BY DEF SendRetry
  <1>3. s \in HostScanStats
    BY TypeParts
  <1> HIDE DEF s
  <1>4. R \in Seq(Entry)
    BY <1>3, HostFields
  <1> HIDE DEF R
  <1>5. top \in Entry /\ Q \in Seq(Entry)
    <2> HIDE DEF Entry
    <2>1. Len(R) \in Nat \ {0}
      BY <1>2, <1>4, EmptySeq, LenProperties
    <2>2. top \in Entry
      BY <1>4, <2>1, ElementOfSeq
    <2>3. Q \in Seq(Entry)
      BY <1>4, <2>1, SubSeqProperties
    <2> QED BY <2>2, <2>3
  <1> HIDE DEF top, Q
  <1>6. top.port \in Ports /\ top.tries + 1 \in 0..TrynoCap /\ 0 \in 0..MaxPings
    BY <1>5, ScanAssumption
  <1>7. n \in UltraProbe /\ n.sd = "none"
    BY <1>6, NewProbeOK, Zenon
  <1>8. t \in HostScanStats /\ t.probes_outstanding = s.probes_outstanding
    BY <1>3, <1>5 DEF HostScanStats
  <1> HIDE DEF t, n
  <1>9. Fits(v)
    BY <1>2, <1>7, <1>8, SendWrites DEF s
  <1> QED BY <1>1, <1>9, CommitWrites

\* sendNextScanProbe.
LEMMA NewTyped ==
    ASSUME TypeInv, NEW h \in Hosts, SendNew(h)
    PROVE  Wrote
  <1> DEFINE s == hss[h]
             c == IF s.clock = "idle" THEN "running" ELSE s.clock
  <1>1. PICK q \in s.fresh :
          \E v \in sendScanProbe([View(h) EXCEPT !.hss =
                       [s EXCEPT !.fresh = @ \ {q}, !.clock = c]], NewProbe(q, 0, 0)) :
            Commit(h, v)
    BY DEF SendNew
  <1> DEFINE F == s.fresh \ {q}
             t == [s EXCEPT !.fresh = F, !.clock = c]
             n == NewProbe(q, 0, 0)
  <1>2. PICK v \in sendScanProbe([View(h) EXCEPT !.hss = t], n) : Commit(h, v)
    BY <1>1
  <1>3. s \in HostScanStats
    BY TypeParts
  <1> HIDE DEF s
  <1>4. q \in Ports /\ F \in SUBSET Ports /\ 0 \in 0..TrynoCap /\ 0 \in 0..MaxPings
    BY <1>3, HostFields, ScanAssumption
  <1>5. c \in {"idle", "running", "stopped"}
    BY <1>3 DEF HostScanStats
  <1> HIDE DEF F, c
  <1>6. n \in UltraProbe /\ n.sd = "none"
    BY <1>4, NewProbeOK, Zenon
  <1>7. t \in HostScanStats /\ t.probes_outstanding = s.probes_outstanding
    BY <1>3, <1>4, <1>5 DEF HostScanStats
  <1> HIDE DEF t, n
  <1>8. GroupSendOK
    BY DEF SendNew
  <1>9. Fits(v)
    BY <1>6, <1>7, <1>8, SendWrites DEF s
  <1> QED BY <1>2, <1>9, CommitWrites

-----------------------------------------------------------------------------
(* Answers and expiry.                                                      *)

\* A listed probe is a probe.
LEMMA ListedProbe ==
    ASSUME TypeInv, NEW h \in Hosts, NEW p \in hss[h].probes_outstanding
    PROVE  p \in UltraProbe
  BY TypeParts, HostFields

\* The packet handlers of waitForResponses.
LEMMA AnswersTyped ==
    ASSUME TypeInv, NEW h \in Hosts,
           PingAnswer(h) \/ PortAnswer(h) \/ DiscoveryAnswer(h) \/ ArpAnswer(h)
    PROVE  Wrote
  <1>1. View(h) \in Views /\ IsFiniteSet(View(h).hss.probes_outstanding)
        /\ \A p \in hss[h].probes_outstanding : p \in UltraProbe
    BY ListedProbe, ViewFits DEF Fits, Sound
  <1>2. ASSUME NEW v, NEW p \in hss[h].probes_outstanding, Commit(h, v),
               Outcome(View(h), v, p)
        PROVE  Wrote
    <2>1. Fits(v)
      BY <1>1, <1>2, OutcomeFits
    <2> QED BY <1>2, <2>1, CommitWrites
  <1>3. CASE PingAnswer(h)
    <2>1. PICK v \in UNION {ultrascan_ping_update(View(h), p, TRUE) : p \in Pings(hss[h])} :
            Commit(h, v)
      BY <1>3 DEF PingAnswer, Answered
    <2>2. PICK p \in Pings(hss[h]) : v \in ultrascan_ping_update(View(h), p, TRUE)
      BY <2>1
    <2>3. p \in hss[h].probes_outstanding
      BY DEF Pings
    <2>4. Outcome(View(h), v, p)
      BY <1>1, <2>2, <2>3, PingUpdateSpec DEF Outcome
    <2> QED BY <1>2, <2>1, <2>3, <2>4
  <1>4. CASE PortAnswer(h)
    <2>1. PICK v \in UNION {ultrascan_port_probe_update(View(h), p, r) :
                              p \in ScanProbes(hss[h]), r \in Responses} : Commit(h, v)
      BY <1>4 DEF PortAnswer, Answered
    <2>2. PICK p \in ScanProbes(hss[h]), r \in Responses :
            v \in ultrascan_port_probe_update(View(h), p, r)
      BY <2>1
    <2>3. p \in hss[h].probes_outstanding /\ r \in PortStates
      BY ScanAssumption DEF ScanProbes
    <2>4. Outcome(View(h), v, p)
      BY <1>1, <2>2, <2>3, PortUpdateSpec DEF Outcome
    <2> QED BY <1>2, <2>1, <2>3, <2>4
  <1>5. CASE DiscoveryAnswer(h)
    <2>1. PICK v \in UNION {HostAnswer(View(h), p, r) :
                              p \in ScanProbes(hss[h]), r \in {"up", "down"}} : Commit(h, v)
      BY <1>5 DEF DiscoveryAnswer, Answered
    <2>2. PICK p \in ScanProbes(hss[h]), r \in {"up", "down"} :
            v \in HostAnswer(View(h), p, r)
      BY <2>1
    <2>3. p \in hss[h].probes_outstanding
      BY DEF ScanProbes
    <2>4. Outcome(View(h), v, p)
      BY <1>1, <2>2, <2>3, HostAnswerSpec
    <2> QED BY <1>2, <2>1, <2>3, <2>4
  <1>6. CASE ArpAnswer(h)
    <2>1. PICK v \in UNION {HostAnswer(View(h), p, "up") :
                              p \in hss[h].probes_outstanding} : Commit(h, v)
      BY <1>6 DEF ArpAnswer, Answered
    <2>2. PICK p \in hss[h].probes_outstanding : v \in HostAnswer(View(h), p, "up")
      BY <2>1
    <2>4. Outcome(View(h), v, p)
      BY <1>1, <2>2, HostAnswerSpec
    <2> QED BY <1>2, <2>1, <2>2, <2>4
  <1> QED BY <1>3, <1>4, <1>5, <1>6

\* do_one_select_round.
LEMMA SelectTyped ==
    ASSUME TypeInv, NEW h \in Hosts, SelectAnswer(h)
    PROVE  Wrote
  <1>1. PICK p \in Watched(hss[h].probes_outstanding) :
         \E e \in (IF p.sd = "drained" THEN {"accept"} ELSE Errnos) :
         LET q == [p EXCEPT !.sd = "drained"]
             s == [hss[h] EXCEPT !.probes_outstanding = (@ \ {p}) \cup {q}]
             u == [View(h) EXCEPT !.hss = s]
         IN  \E v \in handleConnectResult(u, q, e, FALSE) : Commit(h, v)
    BY DEF SelectAnswer
  <1> DEFINE q == [p EXCEPT !.sd = "drained"]
             P == (hss[h].probes_outstanding \ {p}) \cup {q}
             s == [hss[h] EXCEPT !.probes_outstanding = P]
             u == [View(h) EXCEPT !.hss = s]
  <1>0. PICK e \in (IF p.sd = "drained" THEN {"accept"} ELSE Errnos) :
          \E v \in handleConnectResult(u, q, e, FALSE) : Commit(h, v)
    BY <1>1
  <1>2. PICK v \in handleConnectResult(u, q, e, FALSE) : Commit(h, v)
    BY <1>0
  <1>3. e \in ConnectErrnos
    BY ScanAssumption DEF ConnectErrnos
  <1>4. p \in UltraProbe
    BY ListedProbe DEF Watched
  <1>5. q \in UltraProbe
    BY <1>4 DEF UltraProbe
  <1>6. hss[h] \in HostScanStats /\ gstats \in GroupStats
        /\ IsFiniteSet(hss[h].probes_outstanding)
    BY TypeParts
  <1> HIDE DEF q
  <1>7. P \in SUBSET UltraProbe
    BY <1>5, <1>6, HostFields
  <1>8. IsFiniteSet(P)
    BY <1>6, SwapFinite
  <1> HIDE DEF P
  <1>9. s \in HostScanStats /\ s.probes_outstanding = P
    BY <1>6, <1>7 DEF HostScanStats
  <1> HIDE DEF s
  <1>10. u.hss = s /\ u.g = gstats /\ u = [hss |-> s, g |-> gstats]
    BY DEF View
  <1> HIDE DEF u
  <1>11. u \in Views
    BY <1>6, <1>9, <1>10 DEF Views
  <1>12. Sound(u)
    BY <1>8, <1>9, <1>10, <1>11 DEF Sound
  <1>13. Outcome(u, v, q)
    BY <1>2, <1>3, <1>5, <1>11, <1>12, ConnectResultSpec DEF Sound
  <1>14. Sound(v) /\ v.g.numSDs <= gstats.numSDs
    BY <1>5, <1>10, <1>12, <1>13, OutcomeSound
  <1>15. v.g.numSDs \in Int
    BY <1>14, ViewParts DEF Sound, GroupStats
  <1>16. Fits(v)
    BY <1>14, <1>15, TypeParts, UltraScanAssumption DEF Fits
  <1> QED BY <1>2, <1>16, CommitWrites

\* moveProbeToBench.
LEMMA MoveSpec ==
    ASSUME NEW s \in HostScanStats, NEW p \in UltraProbe
    PROVE  /\ moveProbeToBench(s, p) \in HostScanStats
           /\ moveProbeToBench(s, p).probes_outstanding = s.probes_outstanding \ {p}
  <1> DEFINE b == IF s.probe_bench = <<>> THEN p.tryno ELSE s.bench_tryno
             B == Append(s.probe_bench, p.port)
             P == s.probes_outstanding \ {p}
             j == s.num_probes_waiting_retransmit - 1
             t == moveProbeToBench(s, p)
  <1>1. t = [s EXCEPT !.bench_tryno = b, !.probe_bench = B, !.probes_outstanding = P,
                      !.num_probes_waiting_retransmit = j]
    BY DEF moveProbeToBench
  <1>2. b \in 0..TrynoCap /\ P \in SUBSET UltraProbe /\ j \in Int
    BY HostFields, ProbeFields
  <1>3. B \in Seq(Ports)
    BY HostFields, ProbeFields, AppendProperties
  <1> HIDE DEF b, B, P, j
  <1>4. t \in HostScanStats /\ t.probes_outstanding = P
    BY <1>1, <1>2, <1>3, ZenonT(40) DEF HostScanStats
  <1> QED BY <1>4 DEF P

\* dismissBench and retransmitBench, as processData calls them.
LEMMA BenchSpec ==
    ASSUME NEW s \in HostScanStats
    PROVE  /\ AfterBench(s) \in HostScanStats
           /\ AfterBench(s).probes_outstanding = s.probes_outstanding
  <1>1. CASE AfterBench(s) = dismissBench(s)
    <2> DEFINE f == IF PingScan /\ s.flags # "up" THEN "down" ELSE s.flags
    <2>1. f \in {"unknown", "up", "down"} /\ 0 \in 0..TrynoCap /\ <<>> \in Seq(Ports)
      BY HostFields, ScanAssumption
    <2>2. dismissBench(s) = [s EXCEPT !.flags = f, !.retry_stack = s.retry_stack,
                                      !.probe_bench = <<>>, !.bench_tryno = 0]
      BY DEF dismissBench, HostScanStats
    <2> HIDE DEF f, dismissBench
    <2> DEFINE t == dismissBench(s)
               R == s.retry_stack
    <2>3. R \in Seq([port: Ports, tries: 0..TrynoCap - 1])
      BY HostFields
    <2>4. t = [s EXCEPT !.flags = f, !.retry_stack = R, !.probe_bench = <<>>,
                        !.bench_tryno = 0]
      BY <2>2
    <2> HIDE DEF t, R
    <2>5. t \in HostScanStats /\ t.probes_outstanding = s.probes_outstanding
      BY <2>1, <2>3, <2>4 DEF HostScanStats
    <2> QED BY <1>1, <2>5 DEF t
  <1>2. CASE AfterBench(s) = retransmitBench(s) /\ allowedTryno(s) > s.bench_tryno
    <2> DEFINE Entry == [port: Ports, tries: 0..TrynoCap - 1]
               B == [i \in 1..Len(s.probe_bench) |->
                       [port |-> s.probe_bench[i], tries |-> s.bench_tryno]]
               R == s.retry_stack \o B
    <2>1. s.bench_tryno \in 0..TrynoCap - 1
      BY <1>2, HostFields, AllowedTrynoType, ScanAssumption
    <2>2. s.probe_bench \in Seq(Ports) /\ Len(s.probe_bench) \in Nat
      BY HostFields, LenProperties
    <2>3. \A i \in 1..Len(s.probe_bench) : B[i] \in Entry
      BY <2>1, <2>2, ElementOfSeq
    <2>4. B \in [1..Len(s.probe_bench) -> Entry]
      BY <2>3
    <2> HIDE DEF B, Entry
    <2>5. B \in Seq(Entry)
      BY <2>2, <2>4, SeqDef
    <2>6. s.retry_stack \in Seq(Entry)
      BY HostFields DEF Entry
    <2>7. R \in Seq(Entry)
      BY <2>5, <2>6, ConcatProperties
    <2>8. retransmitBench(s)
            = [s EXCEPT !.flags = s.flags, !.retry_stack = R, !.probe_bench = <<>>,
                        !.bench_tryno = 0]
      BY DEF retransmitBench, B, HostScanStats
    <2> HIDE DEF R
    <2>9. 0 \in 0..TrynoCap /\ <<>> \in Seq(Ports) /\ s.flags \in {"unknown", "up", "down"}
      BY HostFields, ScanAssumption
    <2>10. R \in Seq([port: Ports, tries: 0..TrynoCap - 1])
      BY <2>7 DEF Entry
    <2> DEFINE t == retransmitBench(s)
               f == s.flags
    <2>13. f \in {"unknown", "up", "down"}
      BY <2>9
    <2>11. t = [s EXCEPT !.flags = f, !.retry_stack = R, !.probe_bench = <<>>,
                        !.bench_tryno = 0]
      BY <2>8
    <2> HIDE DEF t, f
    <2>12. t \in HostScanStats /\ t.probes_outstanding = s.probes_outstanding
      BY <2>9, <2>10, <2>11, <2>13 DEF HostScanStats
    <2> QED BY <1>2, <2>12 DEF t
  <1>3. CASE AfterBench(s) = s
    BY <1>3
  <1>4. \/ AfterBench(s) = dismissBench(s)
        \/ AfterBench(s) = retransmitBench(s) /\ allowedTryno(s) > s.bench_tryno
        \/ AfterBench(s) = s
    BY DEF AfterBench
  <1> QED BY <1>1, <1>2, <1>3, <1>4

\* A step that writes only host statistics.
LEMMA HostsWritten ==
    ASSUME TypeInv, NEW f \in [Hosts -> HostScanStats],
           \A h \in Hosts : f[h].probes_outstanding = hss[h].probes_outstanding,
           hss' = f, gstats' = gstats
    PROVE  Wrote
  BY TypeParts DEF Wrote, ListsFinite, SocketsBounded

\* A step that writes only the statistics of one host, and not its list.
LEMMA OneHostWritten ==
    ASSUME TypeInv, NEW h \in Hosts, NEW t \in HostScanStats,
           t.probes_outstanding = hss[h].probes_outstanding,
           hss' = [hss EXCEPT ![h] = t], gstats' = gstats
    PROVE  Wrote
  <1>1. hss \in [Hosts -> HostScanStats]
    BY TypeParts
  <1>2. [hss EXCEPT ![h] = t] \in [Hosts -> HostScanStats]
    BY <1>1
  <1>3. \A k \in Hosts : [hss EXCEPT ![h] = t][k].probes_outstanding = hss[k].probes_outstanding
    BY <1>1
  <1> QED BY <1>2, <1>3, HostsWritten

\* The steps that leave every list of probes alone.
LEMMA LightStepsTyped ==
    ASSUME TypeInv, NEW h \in Hosts,
           \/ NothingToRetransmit(h) \/ BeginRateLimitWait(h) \/ UnsolicitedReply(h)
           \/ RateLimitWaitOver(h) \/ HostClockExpires(h) \/ VisitHost(h)
    PROVE  Wrote
  <1>1. hss[h] \in HostScanStats
    BY TypeParts
  <1>2. AfterAllowedTryno(hss[h]) \in HostScanStats
        /\ AfterAllowedTryno(hss[h]).probes_outstanding = hss[h].probes_outstanding
    BY <1>1, AllowedTrynoType
  <1>3. CASE NothingToRetransmit(h)
    BY <1>2, <1>3, OneHostWritten DEF NothingToRetransmit
  <1>4. CASE BeginRateLimitWait(h)
    <2> DEFINE s == AfterAllowedTryno(hss[h])
    <2>1. PICK p \in Retransmittable(hss[h]) :
            hss' = [hss EXCEPT ![h] =
                      [s EXCEPT !.rld_max_tryno_sent = p.tryno + 1, !.rld = "waiting"]]
      BY <1>4 DEF BeginRateLimitWait
    <2>2. p.tryno + 1 \in 0..TrynoCap
      <3>1. p \in UltraProbe /\ p.tryno < allowedTryno(hss[h])
        BY <1>1, HostFields DEF Retransmittable, Awaiting
      <3> QED BY <1>1, <3>1, AllowedTrynoType, ProbeFields, ScanAssumption
    <2> DEFINE n == p.tryno + 1
               t == [s EXCEPT !.rld_max_tryno_sent = n, !.rld = "waiting"]
    <2> HIDE DEF s, n
    <2>3. t \in HostScanStats /\ t.probes_outstanding = s.probes_outstanding
      BY <1>2, <2>2 DEF HostScanStats, s, n
    <2>4. hss' = [hss EXCEPT ![h] = t] /\ gstats' = gstats
      BY <1>4, <2>1 DEF BeginRateLimitWait, s, n
    <2> HIDE DEF t
    <2> QED BY <1>2, <2>3, <2>4, OneHostWritten DEF s
  <1>5. CASE UnsolicitedReply(h)
    <2>1. [hss[h] EXCEPT !.flags = "up"] \in HostScanStats
          /\ [hss[h] EXCEPT !.flags = "up"].probes_outstanding = hss[h].probes_outstanding
      BY <1>1 DEF HostScanStats
    <2> QED BY <1>5, <2>1, OneHostWritten DEF UnsolicitedReply
  <1>6. CASE RateLimitWaitOver(h)
    <2>1. [hss[h] EXCEPT !.rld = "over"] \in HostScanStats
          /\ [hss[h] EXCEPT !.rld = "over"].probes_outstanding = hss[h].probes_outstanding
      BY <1>1 DEF HostScanStats
    <2> QED BY <1>6, <2>1, OneHostWritten DEF RateLimitWaitOver
  <1>7. CASE HostClockExpires(h)
    <2>1. [hss[h] EXCEPT !.timedOut = TRUE] \in HostScanStats
          /\ [hss[h] EXCEPT !.timedOut = TRUE].probes_outstanding = hss[h].probes_outstanding
      BY <1>1 DEF HostScanStats
    <2> QED BY <1>7, <2>1, OneHostWritten DEF HostClockExpires
  <1>8. CASE VisitHost(h)
    BY <1>2, <1>8, BenchSpec, OneHostWritten DEF VisitHost
  <1> QED BY <1>3, <1>4, <1>5, <1>6, <1>7, <1>8

\* The inner loop of processData.
LEMMA ExpireTyped ==
    ASSUME TypeInv, NEW p \in cur.rest, NEW age \in Ages, ExpireProbe(p, age)
    PROVE  Wrote
  <1> DEFINE h == cur.host
             s == moveProbeToBench(hss[h], p)
             m == [View(h) EXCEPT !.hss = s]
  <1>1. cur # NoCur /\ h \in Hosts /\ p \in UltraProbe
    BY DEF TypeInv, TypeOK, NoCur
  <1>2. View(h) \in Views /\ Sound(View(h)) /\ View(h).hss = hss[h] /\ View(h).g = gstats
        /\ hss[h] \in HostScanStats
    BY <1>1, ViewFits DEF Fits
  <1>3. \/ UNCHANGED <<hss, gstats>>
        \/ \E v \in markProbeTimedout(View(h), p) : Commit(h, v)
        \/ \E v \in ultrascan_host_probe_update(View(h), p, "down", FALSE) : Commit(h, v)
        \/ Commit(h, destroyOutstandingProbe(View(h), p))
        \/ Commit(h, [View(h) EXCEPT !.hss = moveProbeToBench(@, p)])
    BY Zenon DEF ExpireProbe
  <1> HIDE DEF h
  <1>4. CASE UNCHANGED <<hss, gstats>>
    BY <1>4, Untouched
  <1>5. CASE \E v \in markProbeTimedout(View(h), p) : Commit(h, v)
    <2>1. PICK v \in markProbeTimedout(View(h), p) : Commit(h, v)
      BY <1>5
    <2>2. Outcome(View(h), v, p)
      BY <1>1, <1>2, MarkSpec DEF Outcome
    <2>3. Fits(v)
      BY <1>1, <2>2, OutcomeFits
    <2> QED BY <1>1, <2>1, <2>3, CommitWrites
  <1>6. CASE \E v \in ultrascan_host_probe_update(View(h), p, "down", FALSE) : Commit(h, v)
    <2>1. PICK v \in ultrascan_host_probe_update(View(h), p, "down", FALSE) : Commit(h, v)
      BY <1>6
    <2>2. Outcome(View(h), v, p)
      BY <1>1, <1>2, HostUpdateSpec DEF Outcome
    <2>3. Fits(v)
      BY <1>1, <2>2, OutcomeFits
    <2> QED BY <1>1, <2>1, <2>3, CommitWrites
  <1>7. CASE Commit(h, destroyOutstandingProbe(View(h), p))
    <2>2. Outcome(View(h), destroyOutstandingProbe(View(h), p), p)
      BY <1>1, <1>2, DestroySpec DEF Outcome
    <2>3. Fits(destroyOutstandingProbe(View(h), p))
      BY <1>1, <2>2, OutcomeFits
    <2> QED BY <1>1, <1>7, <2>3, CommitWrites
  <1>8. CASE Commit(h, [View(h) EXCEPT !.hss = moveProbeToBench(@, p)])
    <2>1. m = [hss |-> s, g |-> gstats]
      BY DEF View
    <2>8. Commit(h, m)
      BY <1>2, <1>8
    <2>2. s \in HostScanStats /\ s.probes_outstanding = hss[h].probes_outstanding \ {p}
      BY <1>1, <1>2, MoveSpec
    <2>3. m.hss = s /\ m.g = gstats
      BY <2>1
    <2> HIDE DEF s, m
    <2>4. m \in Views
      BY <1>1, <2>1, <2>2, TypeParts DEF Views
    <2>5. IsFiniteSet(hss[h].probes_outstanding)
      BY <1>1, TypeParts
    <2>6. IsFiniteSet(s.probes_outstanding)
      BY <2>2, <2>5, FS_RemoveElement
    <2>7. Fits(m)
      BY <2>3, <2>4, <2>6, TypeParts DEF Fits, Sound
    <2> QED BY <1>1, <2>7, <2>8, CommitWrites
  <1> QED BY <1>3, <1>4, <1>5, <1>6, <1>7, <1>8

\* removeCompletedHosts.
LEMMA RemoveTyped ==
    ASSUME TypeInv, removeCompletedHosts, gstats' = gstats
    PROVE  /\ Wrote /\ pinghost' \in Hosts \cup {NONE}
           /\ incompleteHosts' \subseteq Hosts /\ completedHosts' \subseteq Hosts
  <1> DEFINE f == [h \in Hosts |-> IF h \in Leaving /\ hss[h].clock = "running"
                                   THEN [hss[h] EXCEPT !.clock = "stopped"]
                                   ELSE hss[h]]
  <1>1. hss' = f
    BY DEF removeCompletedHosts
  <1>2. ASSUME NEW h \in Hosts
        PROVE  f[h] \in HostScanStats /\ f[h].probes_outstanding = hss[h].probes_outstanding
    <2>1. hss[h] \in HostScanStats
      BY TypeParts
    <2>2. [hss[h] EXCEPT !.clock = "stopped"] \in HostScanStats
          /\ [hss[h] EXCEPT !.clock = "stopped"].probes_outstanding = hss[h].probes_outstanding
      BY <2>1 DEF HostScanStats
    <2> QED BY <2>1, <2>2
  <1>3. f \in [Hosts -> HostScanStats]
    BY <1>2
  <1> HIDE DEF f
  <1>4. Wrote
    BY <1>1, <1>2, <1>3, HostsWritten
  <1>5. pinghost' \in Hosts \cup {NONE}
    BY DEF removeCompletedHosts, NextPinghosts
  <1>6. incompleteHosts' \subseteq Hosts /\ completedHosts' \subseteq Hosts
    <2>1. Leaving \subseteq Hosts
      BY TypeParts DEF Leaving
    <2> QED BY <2>1, TypeParts DEF removeCompletedHosts
  <1> QED BY <1>4, <1>5, <1>6

\* printAnyStats.
LEMMA EndNewTyped ==
    ASSUME TypeInv, EndNew
    PROVE  Wrote
  <1> DEFINE f == [h \in Hosts |-> IF h \in incompleteHosts
                                   THEN AfterAllowedTryno(hss[h]) ELSE hss[h]]
  <1>1. gstats' = gstats /\ (hss' = hss \/ hss' = f)
    BY DEF EndNew
  <1>2. ASSUME NEW h \in Hosts
        PROVE  f[h] \in HostScanStats /\ f[h].probes_outstanding = hss[h].probes_outstanding
    BY TypeParts, AllowedTrynoType
  <1>3. f \in [Hosts -> HostScanStats]
    BY <1>2
  <1> HIDE DEF f
  <1>4. CASE hss' = hss
    BY <1>1, <1>4, Untouched
  <1>5. CASE hss' = f
    BY <1>1, <1>2, <1>3, <1>5, HostsWritten
  <1> QED BY <1>1, <1>4, <1>5

\* The expiry of global pings at the end of processData.
LEMMA GlobalPingExpiryTyped ==
    ASSUME TypeInv, ExpireGlobalPing
    PROVE  Wrote
  <1>1. pinghost \in Hosts
    BY TypeParts DEF ExpireGlobalPing
  <1>2. PICK p \in hss[pinghost].probes_outstanding :
          \E v \in ultrascan_ping_update(View(pinghost), p, FALSE) : Commit(pinghost, v)
    BY DEF ExpireGlobalPing
  <1>3. PICK v \in ultrascan_ping_update(View(pinghost), p, FALSE) : Commit(pinghost, v)
    BY <1>2
  <1>4. p \in UltraProbe /\ View(pinghost) \in Views
    BY <1>1, ListedProbe, ViewFits
  <1>5. Outcome(View(pinghost), v, p)
    BY <1>4, PingUpdateSpec DEF Outcome
  <1> QED BY <1>1, <1>3, <1>4, <1>5, OutcomeFits, CommitWrites

-----------------------------------------------------------------------------
\* The constructors establish the invariant.
LEMMA InitTyped == Init => TypeInv
  <1> SUFFICES ASSUME Init PROVE TypeInv
    OBVIOUS
  <1>1. InitialCwnd \in LowCwnd..MaxCwnd
    BY ScanAssumption DEF InitialCwnd
  <1>2. ASSUME NEW pp \in StartPings
        PROVE  HostInit(pp) \in HostScanStats /\ HostInit(pp).probes_outstanding = {}
    <2>1. pp \in PingProbes
      BY PingAssumption
    <2>2. 0 \in 0..TrynoCap /\ 1 \in 1..MaxPings + 1 /\ <<>> \in Seq(Ports)
          /\ <<>> \in Seq([port: Ports, tries: 0..TrynoCap - 1])
      BY ScanAssumption
    <2> HIDE DEF InitialCwnd
    <2> QED BY <1>1, <2>1, <2>2 DEF HostInit, HostScanStats
  <1>3. hss \in [Hosts -> HostScanStats]
        /\ \A h \in Hosts : hss[h].probes_outstanding = {}
    BY <1>2 DEF Init
  <1>4. gstats \in GroupStats /\ gstats.numSDs = 0
    BY <1>1 DEF Init, GroupInit, GroupStats
  <1>5. ListsFinite
    BY <1>3, FS_EmptySet DEF ListsFinite
  <1>6. SocketsBounded
    BY <1>4, UltraScanAssumption DEF SocketsBounded
  <1>7. TypeOK
    BY <1>3, <1>4 DEF Init, TypeOK, GroupStats, Phases
  <1> QED BY <1>5, <1>6, <1>7 DEF TypeInv

\* The types of the variables a Wrote step leaves to the loop.
LoopTyped ==
    /\ incompleteHosts \subseteq Hosts /\ completedHosts \subseteq Hosts
    /\ pinghost \in Hosts \cup {NONE}
    /\ phase \in Phases
    /\ todo \subseteq Hosts
    /\ cur = NoCur \/ cur \in [host: Hosts, maxtries: 0..TrynoCap,
                               mayincrease: BOOLEAN, rest: SUBSET UltraProbe]

\* Every step of the loop preserves it.
LEMMA StepTyped == TypeInv /\ [Next]_vars => TypeInv'
  <1> SUFFICES ASSUME TypeInv, [Next]_vars PROVE TypeInv'
    OBVIOUS
  <1>1. LoopTyped
    BY DEF TypeInv, TypeOK, LoopTyped
  <1>2. ASSUME Wrote, LoopTyped' PROVE TypeInv'
    BY <1>2 DEF Wrote, LoopTyped, TypeInv, TypeOK, GroupStats
  <1>3. ASSUME NEW h \in Hosts, HostPing(h)
        PROVE  Wrote /\ LoopTyped'
    <2>1. Wrote
      BY <1>3, PingTyped DEF HostPing
    <2> QED BY <1>1, <1>3, <2>1 DEF HostPing, LoopTyped, Lists
  <1>4. ASSUME NEW h \in Hosts, Retransmit(h)
        PROVE  Wrote /\ LoopTyped'
    <2>1. Wrote
      BY <1>4, RetransmitTyped
    <2>2. phase' \in Phases
      BY <1>1, <1>4, Zenon DEF Retransmit, LoopTyped, Phases
    <2> QED BY <1>1, <1>4, <2>1, <2>2 DEF Retransmit, LoopTyped, Lists
  <1>5. ASSUME NEW h \in Hosts, SendRetry(h)
        PROVE  Wrote /\ LoopTyped'
    <2>1. Wrote
      BY <1>5, RetryTyped
    <2> QED BY <1>1, <1>5, <2>1 DEF SendRetry, LoopTyped, Lists
  <1>6. ASSUME NEW h \in Hosts, SendNew(h)
        PROVE  Wrote /\ LoopTyped'
    <2>1. Wrote
      BY <1>6, NewTyped
    <2> QED BY <1>1, <1>6, <2>1 DEF SendNew, LoopTyped, Lists
  <1>7. ASSUME NEW h \in Hosts,
               PingAnswer(h) \/ PortAnswer(h) \/ DiscoveryAnswer(h) \/ ArpAnswer(h)
        PROVE  Wrote /\ LoopTyped'
    <2>1. Wrote
      BY <1>7, AnswersTyped
    <2>2. WaitOn /\ UNCHANGED <<Lists, todo, cur>>
      <3>1. \A S : Answered(h, S) => WaitOn /\ UNCHANGED <<Lists, todo, cur>>
        BY DEF Answered
      <3> HIDE DEF Answered
      <3>2. \E S : Answered(h, S)
        BY <1>7 DEF PingAnswer, PortAnswer, DiscoveryAnswer, ArpAnswer
      <3> QED BY <3>1, <3>2
    <2> QED BY <1>1, <2>1, <2>2 DEF WaitOn, LoopTyped, Lists, Phases
  <1>8. ASSUME NEW h \in Hosts, SelectAnswer(h)
        PROVE  Wrote /\ LoopTyped'
    <2>1. Wrote
      BY <1>8, SelectTyped
    <2>2. WaitOn /\ UNCHANGED <<Lists, todo, cur>>
      BY <1>8 DEF SelectAnswer
    <2> QED BY <1>1, <2>1, <2>2 DEF WaitOn, LoopTyped, Lists, Phases
  <1>9. ASSUME NEW h \in Hosts,
               \/ NothingToRetransmit(h) \/ BeginRateLimitWait(h) \/ UnsolicitedReply(h)
               \/ RateLimitWaitOver(h) \/ HostClockExpires(h)
        PROVE  Wrote /\ LoopTyped'
    <2>1. Wrote
      BY <1>9, LightStepsTyped
    <2> QED BY <1>1, <1>9, <2>1 DEF NothingToRetransmit, BeginRateLimitWait,
                 UnsolicitedReply, RateLimitWaitOver, HostClockExpires, LoopTyped, Lists
  <1>10. ASSUME NEW h \in Hosts, VisitHost(h)
         PROVE  Wrote /\ LoopTyped'
    <2>1. Wrote
      BY <1>10, LightStepsTyped
    <2> DEFINE s == AfterAllowedTryno(hss[h])
    <2>2. hss[h] \in HostScanStats
      BY TypeParts
    <2>3. s \in HostScanStats
      BY <2>2, AllowedTrynoType
    <2>4. cur' = [host |-> h, maxtries |-> allowedTryno(s),
                  mayincrease |-> s.tryno_mayincrease, rest |-> s.probes_outstanding]
      BY <1>10 DEF VisitHost
    <2> HIDE DEF s
    <2>5. allowedTryno(s) \in 0..TrynoCap /\ s.tryno_mayincrease \in BOOLEAN
          /\ s.probes_outstanding \in SUBSET UltraProbe
      BY <2>3, AllowedTrynoType, HostFields
    <2>6. cur' \in [host: Hosts, maxtries: 0..TrynoCap,
                    mayincrease: BOOLEAN, rest: SUBSET UltraProbe]
      BY <2>4, <2>5
    <2> QED BY <1>1, <1>10, <2>1, <2>6 DEF VisitHost, LoopTyped, Lists
  <1>11. ASSUME NEW p \in cur.rest, NEW age \in Ages, ExpireProbe(p, age)
         PROVE  Wrote /\ LoopTyped'
    <2>1. Wrote
      BY <1>11, ExpireTyped
    <2>2. cur' = [cur EXCEPT !.rest = @ \ {p}] /\ UNCHANGED <<Lists, phase, todo>>
      BY <1>11 DEF ExpireProbe
    <2>3. cur \in [host: Hosts, maxtries: 0..TrynoCap,
                   mayincrease: BOOLEAN, rest: SUBSET UltraProbe]
      BY <1>1 DEF LoopTyped, NoCur
    <2>4. cur' \in [host: Hosts, maxtries: 0..TrynoCap,
                    mayincrease: BOOLEAN, rest: SUBSET UltraProbe]
      BY <2>2, <2>3
    <2> QED BY <1>1, <2>1, <2>2, <2>4 DEF LoopTyped, Lists
  <1>12. ASSUME GlobalPing
         PROVE  Wrote /\ LoopTyped'
    <2>1. pinghost \in Hosts
      BY <1>12, TypeParts DEF GlobalPing
    <2>2. Wrote
      BY <1>12, <2>1, PingTyped DEF GlobalPing
    <2> QED BY <1>1, <1>12, <2>2 DEF GlobalPing, LoopTyped, Lists, Phases
  <1>13. ASSUME EndPings \/ EndRetransmits \/ EndRetries \/ EndWait \/ FinishHost
                \/ EndRound
         PROVE  Wrote /\ LoopTyped'
    <2>1. Wrote
      BY <1>13, Untouched DEF EndPings, EndRetransmits, EndRetries, EndWait, FinishHost,
                              EndRound
    <2> QED BY <1>1, <1>13, <2>1 DEF EndPings, EndRetransmits, EndRetries, EndWait,
                 FinishHost, EndRound, LoopTyped, Lists, Phases
  <1>14. ASSUME EndNew
         PROVE  Wrote /\ LoopTyped'
    <2>1. Wrote
      BY <1>14, EndNewTyped
    <2> QED BY <1>1, <1>14, <2>1 DEF EndNew, LoopTyped, Lists, Phases
  <1>15. ASSUME StartProcess \/ FinishHosts
         PROVE  Wrote /\ LoopTyped'
    <2>1. removeCompletedHosts /\ gstats' = gstats /\ cur' = cur
      BY <1>15 DEF StartProcess, FinishHosts
    <2>2. /\ Wrote /\ pinghost' \in Hosts \cup {NONE}
          /\ incompleteHosts' \subseteq Hosts /\ completedHosts' \subseteq Hosts
      BY <2>1, RemoveTyped
    <2>3. phase' \in Phases /\ todo' \subseteq Hosts
      BY <1>1, <1>15, <2>2 DEF StartProcess, FinishHosts, LoopTyped, Phases
    <2> QED BY <1>1, <2>1, <2>2, <2>3 DEF LoopTyped
  <1>16. ASSUME ExpireGlobalPing
         PROVE  Wrote /\ LoopTyped'
    <2>1. Wrote
      BY <1>16, GlobalPingExpiryTyped
    <2> QED BY <1>1, <1>16, <2>1 DEF ExpireGlobalPing, LoopTyped, Lists
  <1>17. ASSUME UNCHANGED vars
         PROVE  Wrote /\ LoopTyped'
    <2>1. Wrote
      BY <1>17, Untouched DEF vars
    <2> QED BY <1>1, <1>17, <2>1 DEF vars, LoopTyped
  <1> QED BY <1>2, <1>3, <1>4, <1>5, <1>6, <1>7, <1>8, <1>9, <1>10, <1>11, <1>12, <1>13,
             <1>14, <1>15, <1>16, <1>17 DEF Next, Terminating

\* Every field of ultra_scan()'s state keeps its type: in particular a try number
\* never passes tryno_cap, whatever the order of answers, benchings and retries.
THEOREM TypeCorrect == Spec => []TypeOK
  <1>1. TypeInv => TypeOK
    BY DEF TypeInv
  <1> QED BY <1>1, InitTyped, StepTyped, PTL DEF Spec

\* ConnectScanInfo::numSDs never passes maxSocketsAllowed, however many hosts and
\* ports there are: each of the four senders asks sendOK() first, a send opens at
\* most one socket, and no answer or timeout opens one.
THEOREM SocketLimit == Spec => []SocketsBounded
  <1>1. TypeInv => SocketsBounded
    BY DEF TypeInv
  <1> QED BY <1>1, InitTyped, StepTyped, PTL DEF Spec

-----------------------------------------------------------------------------
(***************************************************************************)
(* The books of every host are right: the counters kept beside its list of *)
(* probes equal what they count.  A counter is exact only as long as no    *)
(* probe is listed twice, so the invariant says what keeps two tries of a  *)
(* port apart: which tries are listed, fresh, benched or stacked, and that *)
(* at most one of them can still be retransmitted.                         *)
(***************************************************************************)

\* What the packet headers carry, by which an answer is matched to its probe.
SameKey(p, q) == p.port = q.port /\ p.tryno = q.tryno /\ p.pingseq = q.pingseq

\* A try of port q (and not a timing ping).
TryOf(p, q) == p.pingseq = 0 /\ p.port = q

\* The counters agree with the list.
Counted(s) ==
    /\ s.num_probes_active = Cardinality(Active(s.probes_outstanding))
    /\ s.num_probes_waiting_retransmit = Cardinality(Awaiting(s.probes_outstanding))

\* No probe is listed twice.
Keyed(s) == \A p, q \in s.probes_outstanding : SameKey(p, q) => p = q

\* Only a timed-out probe is retransmitted, and it has no socket left.
FlagsOK(s) == \A p \in s.probes_outstanding :
    (p.retransmitted => p.timedout) /\ (p.timedout => p.sd = "none")

\* A probe that can still be retransmitted is its port's last try; those in X are
\* exempt (retransmitProbe's old probe, between the send and the mark).
Newest(s, X) == \A p, q \in s.probes_outstanding :
    p \notin X /\ ~p.retransmitted /\ p.pingseq = 0 /\ TryOf(q, p.port) => q.tryno <= p.tryno

\* The next ping number has not been used.
PingsBelow(s) == \A p \in s.probes_outstanding : p.pingseq < s.nxtpseq

\* A fresh port has no try.
FreshUntried(s) == \A p \in s.probes_outstanding : p.pingseq = 0 => p.port \notin s.fresh

\* Port q, last tried with number k, has no probe that could be retransmitted.
Parked(s, q, k) ==
    /\ q \notin s.fresh
    /\ \A p \in s.probes_outstanding : TryOf(p, q) => p.retransmitted /\ p.tryno <= k

BenchParked(s) == \A i \in DOMAIN s.probe_bench : Parked(s, s.probe_bench[i], s.bench_tryno)

StackParked(s) == \A i \in DOMAIN s.retry_stack :
    Parked(s, s.retry_stack[i].port, s.retry_stack[i].tries)

\* A port is parked once.
Distinct(s) ==
    /\ \A i, j \in DOMAIN s.probe_bench : s.probe_bench[i] = s.probe_bench[j] => i = j
    /\ \A i, j \in DOMAIN s.retry_stack :
          s.retry_stack[i].port = s.retry_stack[j].port => i = j
    /\ \A i \in DOMAIN s.probe_bench, j \in DOMAIN s.retry_stack :
          s.probe_bench[i] # s.retry_stack[j].port

\* No try is past the allowed number, and a retry will not be either.
WithinAllowed(s) ==
    /\ \A p \in s.probes_outstanding :
          ~p.retransmitted /\ p.pingseq = 0 => p.tryno <= allowedTryno(s)
    /\ s.probe_bench # <<>> => s.bench_tryno <= allowedTryno(s)
    /\ \A i \in DOMAIN s.retry_stack : s.retry_stack[i].tries < allowedTryno(s)

ListInv(s, X) ==
    /\ Keyed(s) /\ FlagsOK(s) /\ Newest(s, X) /\ PingsBelow(s) /\ FreshUntried(s)
    /\ BenchParked(s) /\ StackParked(s) /\ Distinct(s) /\ WithinAllowed(s)

-----------------------------------------------------------------------------
(* Counting.                                                                *)

\* The counts are numbers.
LEMMA CountNat ==
    ASSUME NEW P, IsFiniteSet(P)
    PROVE  /\ IsFiniteSet(Active(P)) /\ IsFiniteSet(Awaiting(P))
           /\ Cardinality(Active(P)) \in Nat /\ Cardinality(Awaiting(P)) \in Nat
  <1>1. Active(P) \in SUBSET P /\ Awaiting(P) \in SUBSET P
    BY DEF Active, Awaiting
  <1>2. IsFiniteSet(Active(P)) /\ IsFiniteSet(Awaiting(P))
    BY <1>1, FS_Subset
  <1> QED BY <1>2, FS_CardinalityType

\* Taking one probe off the list changes each count by at most one.
LEMMA CountRemove ==
    ASSUME NEW P \in SUBSET UltraProbe, IsFiniteSet(P), NEW p \in P
    PROVE  /\ Cardinality(Active(P \ {p})) = Cardinality(Active(P)) - One(~p.timedout)
           /\ Cardinality(Awaiting(P \ {p})) = Cardinality(Awaiting(P))
                - One(~isPing(p) /\ p.timedout /\ ~p.retransmitted)
  <1> DEFINE A == Active(P)
             W == Awaiting(P)
  <1>1. Active(P \ {p}) = A \ {p} /\ Awaiting(P \ {p}) = W \ {p}
    BY DEF Active, Awaiting
  <1>2. (p \in A <=> ~p.timedout)
        /\ (p \in W <=> ~isPing(p) /\ p.timedout /\ ~p.retransmitted)
    BY DEF Active, Awaiting
  <1>3. IsFiniteSet(A) /\ IsFiniteSet(W) /\ Cardinality(A) \in Nat /\ Cardinality(W) \in Nat
    BY CountNat
  <1> HIDE DEF A, W
  <1>4. Cardinality(A \ {p}) = IF p \in A THEN Cardinality(A) - 1 ELSE Cardinality(A)
    BY <1>3, FS_RemoveElement
  <1>5. Cardinality(W \ {p}) = IF p \in W THEN Cardinality(W) - 1 ELSE Cardinality(W)
    BY <1>3, FS_RemoveElement
  <1>6. Cardinality(A \ {p}) = Cardinality(A) - One(p \in A)
    BY <1>3, <1>4 DEF One
  <1>7. Cardinality(W \ {p}) = Cardinality(W) - One(p \in W)
    BY <1>3, <1>5 DEF One
  <1>8. One(p \in A) = One(~p.timedout)
        /\ One(p \in W) = One(~isPing(p) /\ p.timedout /\ ~p.retransmitted)
    BY <1>2 DEF One
  <1> QED BY <1>1, <1>6, <1>7, <1>8 DEF A, W

\* So does adding one that is not listed.
LEMMA CountAdd ==
    ASSUME NEW P \in SUBSET UltraProbe, IsFiniteSet(P), NEW p \in UltraProbe, p \notin P
    PROVE  /\ Cardinality(Active(P \cup {p})) = Cardinality(Active(P)) + One(~p.timedout)
           /\ Cardinality(Awaiting(P \cup {p})) = Cardinality(Awaiting(P))
                + One(~isPing(p) /\ p.timedout /\ ~p.retransmitted)
  <1> DEFINE A == Active(P)
             W == Awaiting(P)
             a == ~p.timedout
             w == ~isPing(p) /\ p.timedout /\ ~p.retransmitted
  <1>1. Active(P \cup {p}) = (IF a THEN A \cup {p} ELSE A)
        /\ Awaiting(P \cup {p}) = (IF w THEN W \cup {p} ELSE W)
    BY DEF Active, Awaiting
  <1>2. p \notin A /\ p \notin W
    BY DEF Active, Awaiting
  <1>3. IsFiniteSet(A) /\ IsFiniteSet(W) /\ Cardinality(A) \in Nat /\ Cardinality(W) \in Nat
    BY CountNat
  <1> HIDE DEF A, W
  <1>4. Cardinality(A \cup {p}) = Cardinality(A) + 1
    BY <1>2, <1>3, FS_AddElement
  <1>5. Cardinality(W \cup {p}) = Cardinality(W) + 1
    BY <1>2, <1>3, FS_AddElement
  <1> HIDE DEF a, w
  <1>6. Cardinality(Active(P \cup {p})) = Cardinality(A) + One(a)
    BY <1>1, <1>3, <1>4 DEF One
  <1>7. Cardinality(Awaiting(P \cup {p})) = Cardinality(W) + One(w)
    BY <1>1, <1>3, <1>5 DEF One
  <1> QED BY <1>6, <1>7 DEF A, W, a, w

-----------------------------------------------------------------------------
(* The list of probes.                                                      *)

\* The number of tries a host is allowed never shrinks.
LEMMA AllowedMono ==
    ASSUME NEW s \in HostScanStats, NEW t \in HostScanStats, Kept(s, t)
    PROVE  /\ allowedTryno(s) \in Int /\ allowedTryno(t) \in Int
           /\ allowedTryno(s) <= allowedTryno(t)
  <1>1. /\ s.max_successful_tryno \in Int /\ t.max_successful_tryno \in Int
        /\ s.max_successful_tryno <= t.max_successful_tryno /\ TrynoCap \in Int
    BY HostFields, ScanAssumption DEF Kept
  <1> QED BY <1>1 DEF allowedTryno

\* The numbers a host's books hold.
LEMMA BookTypes ==
    ASSUME NEW s \in HostScanStats
    PROVE  /\ \A p \in s.probes_outstanding :
                 /\ p \in UltraProbe /\ p.tryno \in Int /\ p.pingseq \in Nat
                 /\ p.timedout \in BOOLEAN /\ p.retransmitted \in BOOLEAN
                 /\ p.port \in Ports
           /\ s.bench_tryno \in Int /\ s.nxtpseq \in Int /\ s.nxtpseq > 0
           /\ \A i \in DOMAIN s.retry_stack : s.retry_stack[i].tries \in Int
  <1>1. \A p \in s.probes_outstanding : p \in UltraProbe
    BY HostFields
  <1>2. \A p \in UltraProbe : /\ p.tryno \in Int /\ p.pingseq \in Nat
                 /\ p.timedout \in BOOLEAN /\ p.retransmitted \in BOOLEAN
                 /\ p.port \in Ports
    BY ScanAssumption DEF UltraProbe
  <1>3. s.bench_tryno \in Int /\ s.nxtpseq \in Int /\ s.nxtpseq > 0
    BY HostFields
  <1>4. \A i \in DOMAIN s.retry_stack : s.retry_stack[i].tries \in Int
    <2> DEFINE R == s.retry_stack
               E == [port: Ports, tries: 0..TrynoCap - 1]
    <2>1. R \in Seq(E)
      BY HostFields
    <2> HIDE DEF R
    <2>2. \A e \in E : e.tries \in Int
      BY ScanAssumption
    <2> HIDE DEF E
    <2>3. \A i \in DOMAIN R : R[i] \in E
      BY <2>1
    <2> QED BY <2>2, <2>3 DEF R
  <1> QED BY <1>1, <1>2, <1>3, <1>4

\* Removing probes keeps the list in order.
LEMMA ListShrinks ==
    ASSUME NEW s \in HostScanStats, NEW t \in HostScanStats, Kept(s, t), NEW X,
           t.probes_outstanding \subseteq s.probes_outstanding, ListInv(s, X)
    PROVE  ListInv(t, X)
  <1>1. Keyed(t) /\ FlagsOK(t) /\ Newest(t, X) /\ PingsBelow(t) /\ FreshUntried(t)
    BY DEF ListInv, Keyed, FlagsOK, Newest, PingsBelow, FreshUntried, Kept
  <1>2. BenchParked(t) /\ StackParked(t) /\ Distinct(t)
    BY DEF ListInv, BenchParked, StackParked, Distinct, Parked, Kept
  <1>3. WithinAllowed(t)
    BY AllowedMono, BookTypes DEF ListInv, WithinAllowed, Kept
  <1> QED BY <1>1, <1>2, <1>3 DEF ListInv

\* So does replacing a probe by a later stage of itself.
LEMMA ListReplaces ==
    ASSUME NEW s \in HostScanStats, NEW t \in HostScanStats, Kept(s, t), NEW X,
           NEW p \in s.probes_outstanding, NEW q \in UltraProbe, SameKey(p, q),
           p.retransmitted => q.retransmitted, p \in X => q.retransmitted,
           (q.retransmitted => q.timedout) /\ (q.timedout => q.sd = "none"),
           t.probes_outstanding = (s.probes_outstanding \ {p}) \cup {q}, ListInv(s, X)
    PROVE  ListInv(t, X \ {p})
  <1>1. Keyed(t)
    BY DEF ListInv, Keyed, SameKey
  <1>2. FlagsOK(t) /\ PingsBelow(t) /\ FreshUntried(t)
    BY DEF ListInv, FlagsOK, PingsBelow, FreshUntried, Kept, SameKey
  <1>3. Newest(t, X \ {p})
    BY DEF ListInv, Newest, SameKey, TryOf
  <1>4. \A k, m : Parked(s, k, m) => Parked(t, k, m)
    BY DEF Parked, Kept, TryOf, SameKey
  <1>5. BenchParked(t) /\ StackParked(t) /\ Distinct(t)
    BY <1>4 DEF ListInv, BenchParked, StackParked, Distinct, Kept
  <1>6. WithinAllowed(t)
    BY AllowedMono, BookTypes DEF ListInv, WithinAllowed, Kept, SameKey
  <1> QED BY <1>1, <1>2, <1>3, <1>5, <1>6 DEF ListInv

\* A probe that may join the list: the next ping, or the next try of a port that
\* has no other probe that could still be retransmitted, but for those in X.
Joins(s, n, X) ==
    /\ ~n.timedout /\ ~n.retransmitted /\ n.pingseq < s.nxtpseq
    /\ \A q \in s.probes_outstanding : ~SameKey(q, n)
    /\ n.pingseq = 0 =>
          /\ n.port \notin s.fresh /\ n.tryno <= allowedTryno(s)
          /\ \A i \in DOMAIN s.probe_bench : s.probe_bench[i] # n.port
          /\ \A i \in DOMAIN s.retry_stack : s.retry_stack[i].port # n.port
          /\ \A q \in s.probes_outstanding :
                TryOf(q, n.port) => q.tryno < n.tryno /\ (q.retransmitted \/ q \in X)

\* Such a probe leaves the list in order.
LEMMA ListGrows ==
    ASSUME NEW s \in HostScanStats, NEW t \in HostScanStats, Kept(s, t), NEW X,
           NEW n \in UltraProbe, Joins(s, n, X), n \notin X,
           t.probes_outstanding = s.probes_outstanding \cup {n}, ListInv(s, X)
    PROVE  ListInv(t, X)
  <1>0. n.tryno \in Int /\ n.pingseq \in Nat
    BY ProbeFields, ScanAssumption
  <1>1. Keyed(t)
    BY DEF ListInv, Keyed, SameKey, Joins
  <1>2. FlagsOK(t) /\ PingsBelow(t) /\ FreshUntried(t)
    BY DEF ListInv, FlagsOK, PingsBelow, FreshUntried, Kept, Joins
  <1>3. Newest(t, X)
    BY <1>0, BookTypes DEF ListInv, Newest, TryOf, Joins
  <1>4. BenchParked(t) /\ StackParked(t) /\ Distinct(t)
    BY DEF ListInv, BenchParked, StackParked, Distinct, Kept, Joins, Parked, TryOf
  <1>5. WithinAllowed(t)
    BY <1>0, AllowedMono, BookTypes DEF ListInv, WithinAllowed, Kept, Joins
  <1> QED BY <1>1, <1>2, <1>3, <1>4, <1>5 DEF ListInv

-----------------------------------------------------------------------------
(* The life of a probe, on the books.                                       *)

Good(s, X) == Counted(s) /\ ListInv(s, X)

\* A step that leaves list, counters and parked ports alone.
LEMMA GoodKept ==
    ASSUME NEW s \in HostScanStats, NEW t \in HostScanStats, NEW X, Good(s, X),
           Books(s, t, s.probes_outstanding, s.num_probes_active,
                 s.num_probes_waiting_retransmit)
    PROVE  Good(t, X)
  <1>1. ListInv(t, X)
    BY ListShrinks DEF Good, Books
  <1> QED BY <1>1 DEF Good, Counted, Books

\* Destroying a listed probe keeps the books right.
LEMMA DestroyedGood ==
    ASSUME NEW u, Sound(u), NEW X, Good(u.hss, X), NEW p \in u.hss.probes_outstanding,
           NEW v, Destroyed(u, v, p)
    PROVE  Good(v.hss, X)
  <1> DEFINE s == u.hss
             t == v.hss
             P == s.probes_outstanding
  <1>1. s \in HostScanStats /\ t \in HostScanStats /\ IsFiniteSet(P)
    BY ViewParts DEF Sound, Destroyed
  <1>2. P \in SUBSET UltraProbe
    BY <1>1, HostFields
  <1>3. Books(s, t, P \ {p}, s.num_probes_active - One(~p.timedout),
               s.num_probes_waiting_retransmit
                 - One(~isPing(p) /\ p.timedout /\ ~p.retransmitted))
    BY DEF Destroyed
  <1> HIDE DEF s, t
  <1>4. ListInv(t, X)
    BY <1>1, <1>3, ListShrinks DEF Good, Books, s
  <1>5. /\ s.num_probes_active = Cardinality(Active(P))
        /\ s.num_probes_waiting_retransmit = Cardinality(Awaiting(P))
    BY DEF Good, Counted, s
  <1>6. p \in P
    BY DEF s
  <1>7. Counted(t)
    BY <1>1, <1>2, <1>3, <1>5, <1>6, CountRemove DEF Counted, Books
  <1> QED BY <1>4, <1>7 DEF Good, t

\* Destroying all of them empties the list and its counters.
LEMMA ClearedGood ==
    ASSUME NEW u, Sound(u), NEW X, Good(u.hss, X), NEW v, Cleared(u, v)
    PROVE  Good(v.hss, X) /\ v.hss.probes_outstanding = {}
  <1> DEFINE s == u.hss
             t == v.hss
             P == s.probes_outstanding
             a == Cardinality(Active(P))
             w == Cardinality(Awaiting(P))
  <1>1. s \in HostScanStats /\ t \in HostScanStats /\ IsFiniteSet(P)
    BY ViewParts DEF Sound, Cleared
  <1>2. Books(s, t, {}, s.num_probes_active - a, s.num_probes_waiting_retransmit - w)
    BY DEF Cleared
  <1>3. s.num_probes_active = a /\ s.num_probes_waiting_retransmit = w
    BY DEF Good, Counted
  <1>4. a \in Nat /\ w \in Nat
    BY <1>1, CountNat
  <1> HIDE DEF a, w, s, t
  <1>5. ListInv(t, X)
    BY <1>1, <1>2, ListShrinks DEF Good, Books, s
  <1>6. Active({}) = {} /\ Awaiting({}) = {}
    BY DEF Active, Awaiting
  <1>7. Counted(t)
    BY <1>2, <1>3, <1>4, <1>6, FS_EmptySet DEF Counted, Books
  <1> QED BY <1>2, <1>5, <1>7 DEF Good, Books, t

\* Swapping a listed probe for one with its key and other marks.
LEMMA CountSwap ==
    ASSUME NEW s \in HostScanStats, IsFiniteSet(s.probes_outstanding), Keyed(s),
           NEW p \in s.probes_outstanding, NEW q \in UltraProbe, SameKey(p, q), NEW W,
           W = (s.probes_outstanding \ {p}) \cup {q}
    PROVE  /\ Cardinality(Active(W)) = Cardinality(Active(s.probes_outstanding))
                - One(~p.timedout) + One(~q.timedout)
           /\ Cardinality(Awaiting(W)) = Cardinality(Awaiting(s.probes_outstanding))
                - One(~isPing(p) /\ p.timedout /\ ~p.retransmitted)
                + One(~isPing(q) /\ q.timedout /\ ~q.retransmitted)
  <1> DEFINE P == s.probes_outstanding
             V == P \ {p}
  <1>1. P \in SUBSET UltraProbe
    BY HostFields
  <1>2. V \in SUBSET UltraProbe /\ IsFiniteSet(V)
    BY <1>1, FS_RemoveElement
  <1>3. q \notin V
    BY DEF Keyed, SameKey
  <1>4. /\ Cardinality(Active(V)) = Cardinality(Active(P)) - One(~p.timedout)
        /\ Cardinality(Awaiting(V)) = Cardinality(Awaiting(P))
             - One(~isPing(p) /\ p.timedout /\ ~p.retransmitted)
    BY <1>1, CountRemove
  <1>5. W = V \cup {q}
    OBVIOUS
  <1> HIDE DEF V
  <1>6. /\ Cardinality(Active(W)) = Cardinality(Active(V)) + One(~q.timedout)
        /\ Cardinality(Awaiting(W)) = Cardinality(Awaiting(V))
             + One(~isPing(q) /\ q.timedout /\ ~q.retransmitted)
    BY <1>2, <1>3, <1>5, CountAdd
  <1> QED BY <1>4, <1>6

\* Marking an active probe as timed out keeps the books right.
LEMMA MarkedGood ==
    ASSUME NEW u, Sound(u), NEW X, Good(u.hss, X), NEW p \in u.hss.probes_outstanding,
           ~p.timedout, p \notin X, NEW v, Marked(u, v, p)
    PROVE  /\ Good(v.hss, X)
           /\ u.hss.probes_outstanding \ {p} \subseteq v.hss.probes_outstanding
  <1> DEFINE s == u.hss
             t == v.hss
             P == s.probes_outstanding
             q == TimedOutProbe(p)
  <1>1. s \in HostScanStats /\ t \in HostScanStats /\ IsFiniteSet(P)
    BY ViewParts DEF Sound, Marked
  <1>2. p \in UltraProbe
    BY <1>1, BookTypes
  <1>3. /\ q \in UltraProbe /\ SameKey(p, q) /\ q.timedout /\ q.sd = "none"
        /\ q.retransmitted = p.retransmitted /\ q.pingseq = p.pingseq
    BY <1>2 DEF TimedOutProbe, UltraProbe, SameKey
  <1>4. Books(s, t, (P \ {p}) \cup {q}, s.num_probes_active - 1,
              s.num_probes_waiting_retransmit + One(~isPing(p)))
    BY DEF Marked
  <1>5. Keyed(s) /\ ~p.retransmitted
    BY DEF Good, ListInv, FlagsOK
  <1>6. /\ s.num_probes_active = Cardinality(Active(P))
        /\ s.num_probes_waiting_retransmit = Cardinality(Awaiting(P))
        /\ Cardinality(Active(P)) \in Nat /\ Cardinality(Awaiting(P)) \in Nat
    BY <1>1, CountNat DEF Good, Counted
  <1> HIDE DEF s, t, q
  <1>7. p \in P /\ ListInv(s, X) /\ Kept(s, t)
        /\ t.probes_outstanding = (P \ {p}) \cup {q}
    BY <1>4 DEF s, Good, Books
  <1>8. ListInv(t, X \ {p})
    BY <1>1, <1>3, <1>5, <1>7, ListReplaces
  <1>9. X \ {p} = X
    OBVIOUS
  <1>10. /\ Cardinality(Active(t.probes_outstanding)) = Cardinality(Active(P))
                - One(~p.timedout) + One(~q.timedout)
         /\ Cardinality(Awaiting(t.probes_outstanding)) = Cardinality(Awaiting(P))
                - One(~isPing(p) /\ p.timedout /\ ~p.retransmitted)
                + One(~isPing(q) /\ q.timedout /\ ~q.retransmitted)
    BY <1>1, <1>3, <1>5, <1>7, CountSwap
  <1>11. /\ One(~p.timedout) = 1 /\ One(~q.timedout) = 0
         /\ One(~isPing(p) /\ p.timedout /\ ~p.retransmitted) = 0
         /\ One(~isPing(q) /\ q.timedout /\ ~q.retransmitted) = One(~isPing(p))
         /\ One(~isPing(p)) \in Nat
    BY <1>3, <1>5 DEF One, isPing
  <1>12. Counted(t)
    BY <1>4, <1>6, <1>10, <1>11 DEF Counted, Books
  <1> QED BY <1>7, <1>8, <1>9, <1>12 DEF Good, t, s

\* Listing a probe that may join.
LEMMA EnqueuedGood ==
    ASSUME NEW u, Sound(u), NEW X, Good(u.hss, X), NEW n \in UltraProbe,
           Joins(u.hss, n, X), n \notin X, NEW v, Enqueued(u, v, n)
    PROVE  Good(v.hss, X)
  <1> DEFINE s == u.hss
             t == v.hss
             P == s.probes_outstanding
  <1>1. s \in HostScanStats /\ t \in HostScanStats /\ IsFiniteSet(P)
    BY ViewParts DEF Sound, Enqueued
  <1>2. P \in SUBSET UltraProbe
    BY <1>1, HostFields
  <1>3. Books(s, t, P \cup {n}, s.num_probes_active + 1, s.num_probes_waiting_retransmit)
    BY DEF Enqueued
  <1>4. n \notin P /\ ~n.timedout
    BY DEF Joins, SameKey
  <1>5. /\ s.num_probes_active = Cardinality(Active(P))
        /\ s.num_probes_waiting_retransmit = Cardinality(Awaiting(P))
        /\ Cardinality(Active(P)) \in Nat /\ Cardinality(Awaiting(P)) \in Nat
    BY <1>1, CountNat DEF Good, Counted
  <1> HIDE DEF s, t
  <1>6. ListInv(t, X)
    BY <1>1, <1>3, ListGrows DEF Good, Books, s
  <1>7. /\ Cardinality(Active(P \cup {n})) = Cardinality(Active(P)) + One(~n.timedout)
        /\ Cardinality(Awaiting(P \cup {n})) = Cardinality(Awaiting(P))
             + One(~isPing(n) /\ n.timedout /\ ~n.retransmitted)
    BY <1>1, <1>2, <1>4, CountAdd
  <1>8. One(~n.timedout) = 1 /\ One(~isPing(n) /\ n.timedout /\ ~n.retransmitted) = 0
    BY <1>4 DEF One
  <1>9. Counted(t)
    BY <1>3, <1>5, <1>7, <1>8 DEF Counted, Books
  <1> QED BY <1>6, <1>9 DEF Good, t

\* An answer that settles a probe, or the host, keeps the books right; what is left
\* of the list is all but the probe, or nothing.
LEMMA SettledGood ==
    ASSUME NEW u, Sound(u), NEW X, Good(u.hss, X), NEW p \in u.hss.probes_outstanding,
           NEW v, Settled(u, v, p)
    PROVE  /\ Good(v.hss, X)
           /\ \/ u.hss.probes_outstanding \ {p} \subseteq v.hss.probes_outstanding
              \/ v.hss.probes_outstanding = {}
  <1>1. CASE Destroyed(u, v, p)
    <2>1. v.hss.probes_outstanding = u.hss.probes_outstanding \ {p}
      BY <1>1 DEF Destroyed, Books
    <2> QED BY <1>1, <2>1, DestroyedGood
  <1>2. CASE \E w : Destroyed(u, w, p) /\ Cleared(w, v)
    <2>1. PICK w : Destroyed(u, w, p) /\ Cleared(w, v)
      BY <1>2
    <2>2. Good(w.hss, X)
      BY <2>1, DestroyedGood
    <2>3. p \in UltraProbe
      BY ViewParts, BookTypes DEF Sound
    <2>4. Sound(w)
      BY <2>1, <2>3, OutcomeSound DEF Outcome
    <2> QED BY <2>1, <2>2, <2>4, ClearedGood
  <1> QED BY <1>1, <1>2 DEF Settled

\* The outcome of connect() keeps the books right, if its probe is still active.
LEMMA OutcomeGood ==
    ASSUME NEW u, Sound(u), NEW X, Good(u.hss, X), NEW p \in u.hss.probes_outstanding,
           ~p.timedout, p \notin X, NEW v, Outcome(u, v, p)
    PROVE  /\ Good(v.hss, X)
           /\ \/ u.hss.probes_outstanding \ {p} \subseteq v.hss.probes_outstanding
              \/ v.hss.probes_outstanding = {}
  <1>1. CASE v = u
    BY <1>1
  <1>2. CASE Settled(u, v, p)
    BY <1>2, SettledGood
  <1>3. CASE Marked(u, v, p)
    BY <1>3, MarkedGood
  <1> QED BY <1>1, <1>2, <1>3 DEF Outcome, Settled

\* Sending a probe that may join keeps the books right, and the rest of the list
\* unless the answer came at once and cleared it.
LEMMA SendGood ==
    ASSUME NEW u, Sound(u), NEW X, Good(u.hss, X), NEW n \in UltraProbe,
           Joins(u.hss, n, X), \A x \in X : ~SameKey(x, n), NEW v \in sendScanProbe(u, n)
    PROVE  /\ Good(v.hss, X)
           /\ \/ u.hss.probes_outstanding \subseteq v.hss.probes_outstanding
              \/ v.hss.probes_outstanding = {}
  <1> DEFINE q == [n EXCEPT !.sd = "watched"]
  <1>1. u \in Views /\ IsFiniteSet(u.hss.probes_outstanding)
    BY DEF Sound
  <1>2. q \in UltraProbe /\ SameKey(n, q) /\ q.timedout = n.timedout
        /\ q.retransmitted = n.retransmitted
    BY DEF UltraProbe, SameKey
  <1>3. n \notin X /\ q \notin X
    BY <1>2 DEF SameKey
  <1> HIDE DEF q
  <1>4. Joins(u.hss, q, X)
    BY <1>2 DEF Joins, SameKey, TryOf
  <1>5. ASSUME NEW w, NEW r \in {n, q}, Enqueued(u, w, r)
        PROVE  /\ Good(w.hss, X) /\ Sound(w)
               /\ w.hss.probes_outstanding = u.hss.probes_outstanding \cup {r}
    <2>1. Good(w.hss, X)
      BY <1>2, <1>3, <1>4, <1>5, EnqueuedGood
    <2>2. Sound(w)
      BY <1>5, EnqueuedSound
    <2> QED BY <1>5, <2>1, <2>2 DEF Enqueued, Books
  <1>6. CASE Enqueued(u, v, n) \/ Enqueued(u, v, q)
    BY <1>5, <1>6
  <1>7. CASE \E w : Enqueued(u, w, n) /\ Outcome(w, v, n)
    <2>1. PICK w : Enqueued(u, w, n) /\ Outcome(w, v, n)
      BY <1>7
    <2>2. /\ Good(w.hss, X) /\ Sound(w)
          /\ w.hss.probes_outstanding = u.hss.probes_outstanding \cup {n}
      BY <1>5, <2>1
    <2>3. ~n.timedout /\ n \notin u.hss.probes_outstanding
      BY DEF Joins, SameKey
    <2>4. n \in w.hss.probes_outstanding
      BY <2>2
    <2>5. /\ Good(v.hss, X)
          /\ \/ w.hss.probes_outstanding \ {n} \subseteq v.hss.probes_outstanding
             \/ v.hss.probes_outstanding = {}
      BY <1>3, <2>1, <2>2, <2>3, <2>4, OutcomeGood
    <2> QED BY <2>2, <2>3, <2>5
  <1>8. \/ Enqueued(u, v, n) \/ Enqueued(u, v, q)
        \/ \E w : Enqueued(u, w, n) /\ Outcome(w, v, n)
    BY <1>1, SendSpec DEF q
  <1> QED BY <1>6, <1>7, <1>8

\* The last lines of retransmitProbe: the old probe, which has been in X since the
\* new one was sent, is marked retransmitted and leaves X.
LEMMA RetransmittedGood ==
    ASSUME NEW u, Sound(u), NEW p \in Awaiting(u.hss.probes_outstanding),
           Good(u.hss, {p})
    PROVE  Good(Retransmitted(u, p).hss, {})
  <1> DEFINE s == u.hss
             t == Retransmitted(u, p).hss
             P == s.probes_outstanding
             q == [p EXCEPT !.retransmitted = TRUE]
  <1>1. s \in HostScanStats /\ IsFiniteSet(P) /\ u \in Views
    BY ViewParts DEF Sound
  <1>2. p \in P /\ p.timedout /\ ~p.retransmitted /\ ~isPing(p)
    BY DEF Awaiting
  <1>3. p \in UltraProbe
    BY <1>1, <1>2, BookTypes
  <1>4. /\ q \in UltraProbe /\ SameKey(p, q) /\ q.timedout = p.timedout
        /\ q.sd = p.sd /\ q.retransmitted
    BY <1>3 DEF UltraProbe, SameKey
  <1>5. /\ Retransmitted(u, p) \in Views
        /\ Books(s, t, (P \ {p}) \cup {q}, s.num_probes_active,
                 s.num_probes_waiting_retransmit - 1)
    BY <1>1, <1>3, RetransmittedSpec
  <1>6. t \in HostScanStats
    BY <1>5, ViewParts
  <1>7. Keyed(s) /\ p.sd = "none"
    BY <1>2 DEF Good, ListInv, FlagsOK
  <1>8. /\ s.num_probes_active = Cardinality(Active(P))
        /\ s.num_probes_waiting_retransmit = Cardinality(Awaiting(P))
        /\ Cardinality(Active(P)) \in Nat /\ Cardinality(Awaiting(P)) \in Nat
    BY <1>1, CountNat DEF Good, Counted
  <1>9. ListInv(s, {p})
    BY DEF Good
  <1> HIDE DEF s, t, q
  <1>10. Kept(s, t) /\ t.probes_outstanding = (P \ {p}) \cup {q}
    BY <1>5 DEF Books
  <1>11. ListInv(t, {p} \ {p})
    BY <1>1, <1>2, <1>4, <1>6, <1>7, <1>9, <1>10, ListReplaces
  <1>12. {p} \ {p} = {}
    OBVIOUS
  <1>13. /\ Cardinality(Active(t.probes_outstanding)) = Cardinality(Active(P))
                - One(~p.timedout) + One(~q.timedout)
         /\ Cardinality(Awaiting(t.probes_outstanding)) = Cardinality(Awaiting(P))
                - One(~isPing(p) /\ p.timedout /\ ~p.retransmitted)
                + One(~isPing(q) /\ q.timedout /\ ~q.retransmitted)
    <2>1. p \in P /\ q \in UltraProbe /\ SameKey(p, q)
      BY <1>2, <1>4
    <2> QED BY <1>1, <1>7, <1>10, <2>1, CountSwap
  <1>14. /\ One(~p.timedout) = 0 /\ One(~q.timedout) = 0
         /\ One(~isPing(p) /\ p.timedout /\ ~p.retransmitted) = 1
         /\ One(~isPing(q) /\ q.timedout /\ ~q.retransmitted) = 0
    BY <1>2, <1>4 DEF One
  <1>15. Counted(t)
    BY <1>5, <1>8, <1>13, <1>14 DEF Counted, Books
  <1> QED BY <1>11, <1>12, <1>15 DEF Good, t

\* With no probe listed, nobody is owed a mark.
LEMMA EmptyGood ==
    ASSUME NEW s, NEW X, Good(s, X), s.probes_outstanding = {}
    PROVE  Good(s, {})
  BY DEF Good, ListInv, Newest

-----------------------------------------------------------------------------
(* The bench and the retry stack.                                           *)

\* The fields moveProbeToBench writes, and those it does not.
LEMMA MoveFields ==
    ASSUME NEW s \in HostScanStats, NEW p, NEW t, t = moveProbeToBench(s, p)
    PROVE  /\ t.bench_tryno = (IF s.probe_bench = <<>> THEN p.tryno ELSE s.bench_tryno)
           /\ t.probe_bench = Append(s.probe_bench, p.port)
           /\ t.probes_outstanding = s.probes_outstanding \ {p}
           /\ t.num_probes_waiting_retransmit = s.num_probes_waiting_retransmit - 1
           /\ t.num_probes_active = s.num_probes_active
           /\ t.fresh = s.fresh /\ t.retry_stack = s.retry_stack /\ t.nxtpseq = s.nxtpseq
           /\ t.max_successful_tryno = s.max_successful_tryno
  BY DEF moveProbeToBench, HostScanStats

\* The history of a host.
SameHistory(s, t) ==
    /\ t.tries = s.tries /\ t.seen = s.seen /\ t.port_state = s.port_state
    /\ t.flags = s.flags /\ t.timedOut = s.timedOut

\* A probe that can still be retransmitted is the only such probe of its port, the
\* port is neither fresh nor parked, and its other probes are of earlier tries.
LEMMA HolderUnique ==
    ASSUME NEW s \in HostScanStats, ListInv(s, {}), NEW p \in s.probes_outstanding,
           ~p.retransmitted, p.pingseq = 0
    PROVE  /\ p.port \notin s.fresh
           /\ \A i \in DOMAIN s.probe_bench : s.probe_bench[i] # p.port
           /\ \A i \in DOMAIN s.retry_stack : s.retry_stack[i].port # p.port
           /\ \A q \in s.probes_outstanding : q # p /\ TryOf(q, p.port) =>
                 q.retransmitted /\ q.tryno < p.tryno
  <1>1. p.port \notin s.fresh
    BY DEF ListInv, FreshUntried
  <1>2. TryOf(p, p.port)
    BY DEF TryOf
  <1>3. \A i \in DOMAIN s.probe_bench : s.probe_bench[i] # p.port
    BY <1>2 DEF ListInv, BenchParked, Parked
  <1>4. \A i \in DOMAIN s.retry_stack : s.retry_stack[i].port # p.port
    BY <1>2 DEF ListInv, StackParked, Parked
  <1>5. ASSUME NEW q \in s.probes_outstanding, q # p, TryOf(q, p.port)
        PROVE  q.retransmitted /\ q.tryno < p.tryno
    <2>1. q.tryno <= p.tryno
      BY <1>5 DEF ListInv, Newest
    <2>2. q.tryno # p.tryno
      BY <1>5 DEF ListInv, Keyed, SameKey, TryOf
    <2>3. q.tryno < p.tryno
      BY <2>1, <2>2, BookTypes
    <2>4. ~q.retransmitted => p.tryno <= q.tryno
      BY <1>2, <1>5 DEF ListInv, Newest, TryOf
    <2> QED BY <2>3, <2>4, BookTypes
  <1> QED BY <1>1, <1>3, <1>4, <1>5

\* moveProbeToBench, under its assertion on the try number, keeps the books right.
LEMMA MoveGood ==
    ASSUME NEW s \in HostScanStats, IsFiniteSet(s.probes_outstanding), Good(s, {}),
           NEW p \in Awaiting(s.probes_outstanding),
           s.probe_bench # <<>> => s.bench_tryno = p.tryno
    PROVE  Good(moveProbeToBench(s, p), {})
  <1> DEFINE t == moveProbeToBench(s, p)
             P == s.probes_outstanding
             B == s.probe_bench
  <1>1. p \in P /\ p.timedout /\ ~p.retransmitted /\ p.pingseq = 0 /\ p \in UltraProbe
    <2>1. p \in P /\ p.timedout /\ ~p.retransmitted /\ ~isPing(p)
      BY DEF Awaiting
    <2> QED BY <2>1, BookTypes DEF isPing
  <1>2. t \in HostScanStats
    BY <1>1, MoveSpec
  <1>3. /\ t.bench_tryno = p.tryno
        /\ t.probe_bench = Append(B, p.port)
        /\ t.probes_outstanding = P \ {p}
        /\ t.num_probes_waiting_retransmit = s.num_probes_waiting_retransmit - 1
        /\ t.num_probes_active = s.num_probes_active
        /\ t.fresh = s.fresh /\ t.retry_stack = s.retry_stack /\ t.nxtpseq = s.nxtpseq
        /\ t.max_successful_tryno = s.max_successful_tryno
    BY MoveFields
  <1> HIDE DEF t
  <1>4. /\ ListInv(s, {}) /\ Counted(s)
        /\ B \in Seq(Ports) /\ P \in SUBSET UltraProbe /\ p.port \in Ports
    BY <1>1, HostFields, ProbeFields DEF Good
  <1>5. /\ p.port \notin s.fresh
        /\ \A i \in DOMAIN B : B[i] # p.port
        /\ \A i \in DOMAIN s.retry_stack : s.retry_stack[i].port # p.port
        /\ \A q \in P : q # p /\ TryOf(q, p.port) => q.retransmitted /\ q.tryno < p.tryno
    BY <1>1, <1>4, HolderUnique
  <1>6. Counted(t)
    <2>1. /\ Cardinality(Active(P \ {p})) = Cardinality(Active(P)) - One(~p.timedout)
          /\ Cardinality(Awaiting(P \ {p})) = Cardinality(Awaiting(P))
               - One(~isPing(p) /\ p.timedout /\ ~p.retransmitted)
      BY <1>1, <1>4, CountRemove
    <2>2. One(~p.timedout) = 0 /\ One(~isPing(p) /\ p.timedout /\ ~p.retransmitted) = 1
      BY <1>1 DEF One, isPing
    <2>3. Cardinality(Active(P)) \in Nat
      BY CountNat
    <2> QED BY <1>3, <1>4, <2>1, <2>2, <2>3 DEF Counted
  <1>7. Keyed(t) /\ FlagsOK(t) /\ Newest(t, {}) /\ PingsBelow(t) /\ FreshUntried(t)
    BY <1>3, <1>4 DEF ListInv, Keyed, FlagsOK, Newest, PingsBelow, FreshUntried
  <1>8. /\ DOMAIN t.probe_bench = 1..Len(B) + 1 /\ DOMAIN B = 1..Len(B) /\ Len(B) \in Nat
        /\ \A i \in DOMAIN B : t.probe_bench[i] = B[i]
        /\ t.probe_bench[Len(B) + 1] = p.port
    BY <1>3, <1>4, AppendProperties, LenProperties
  <1>9. Parked(t, p.port, p.tryno)
    BY <1>1, <1>3, <1>5, BookTypes DEF Parked
  <1>10. ASSUME NEW i \in DOMAIN B
         PROVE  Parked(t, B[i], p.tryno)
    <2>1. Parked(s, B[i], s.bench_tryno) /\ B # <<>>
      BY <1>4, <1>8 DEF ListInv, BenchParked
    <2> QED BY <1>3, <2>1 DEF Parked
  <1>11. BenchParked(t)
    <2>1. \A i \in DOMAIN t.probe_bench : i \in DOMAIN B \/ i = Len(B) + 1
      BY <1>8
    <2> QED BY <1>3, <1>8, <1>9, <1>10, <2>1 DEF BenchParked
  <1>12. StackParked(t)
    BY <1>3, <1>4 DEF ListInv, StackParked, Parked
  <1>13. Distinct(t)
    <2>1. \A i \in DOMAIN t.probe_bench : i \in DOMAIN B \/ i = Len(B) + 1
      BY <1>8
    <2>2. Len(B) + 1 \notin DOMAIN B
      BY <1>8
    <2>3. \A i, j \in DOMAIN t.probe_bench : t.probe_bench[i] = t.probe_bench[j] => i = j
      BY <1>4, <1>5, <1>8, <2>1, <2>2 DEF ListInv, Distinct
    <2> QED BY <1>3, <1>4, <1>5, <1>8, <2>1, <2>3 DEF ListInv, Distinct
  <1>14. WithinAllowed(t)
    <2>1. allowedTryno(t) = allowedTryno(s)
      BY <1>3 DEF allowedTryno
    <2> QED BY <1>1, <1>3, <1>4, <2>1 DEF ListInv, WithinAllowed
  <1> QED BY <1>6, <1>7, <1>11, <1>12, <1>13, <1>14 DEF Good, ListInv, t

\* dismissBench keeps the books right.
LEMMA DismissGood ==
    ASSUME NEW s \in HostScanStats, Good(s, {})
    PROVE  Good(dismissBench(s), {}) /\ dismissBench(s).probe_bench = <<>>
  <1> DEFINE t == dismissBench(s)
  <1>1. /\ t.probe_bench = <<>> /\ t.probes_outstanding = s.probes_outstanding
        /\ t.num_probes_waiting_retransmit = s.num_probes_waiting_retransmit
        /\ t.num_probes_active = s.num_probes_active
        /\ t.fresh = s.fresh /\ t.retry_stack = s.retry_stack /\ t.nxtpseq = s.nxtpseq
        /\ t.max_successful_tryno = s.max_successful_tryno
    BY DEF dismissBench, HostScanStats
  <1> HIDE DEF t
  <1>2. DOMAIN t.probe_bench = {}
    BY <1>1
  <1>3. allowedTryno(t) = allowedTryno(s)
    BY <1>1 DEF allowedTryno
  <1>4. Counted(t)
    BY <1>1 DEF Good, Counted
  <1>5. Keyed(t) /\ FlagsOK(t) /\ Newest(t, {}) /\ PingsBelow(t) /\ FreshUntried(t)
    BY <1>1 DEF Good, ListInv, Keyed, FlagsOK, Newest, PingsBelow, FreshUntried
  <1>6. BenchParked(t) /\ StackParked(t) /\ Distinct(t) /\ WithinAllowed(t)
    BY <1>1, <1>2, <1>3 DEF Good, ListInv, BenchParked, StackParked, Parked, Distinct,
                            WithinAllowed
  <1> QED BY <1>1, <1>4, <1>5, <1>6 DEF Good, ListInv, t

\* retransmitBench puts the bench on top of the stack.
LEMMA RetryFields ==
    ASSUME NEW s \in HostScanStats, allowedTryno(s) > s.bench_tryno,
           NEW t, t = retransmitBench(s), NEW m, m = Len(s.retry_stack)
    PROVE  /\ t.probe_bench = <<>> /\ t.probes_outstanding = s.probes_outstanding
           /\ t.num_probes_waiting_retransmit = s.num_probes_waiting_retransmit
           /\ t.num_probes_active = s.num_probes_active
           /\ t.fresh = s.fresh /\ t.nxtpseq = s.nxtpseq
           /\ t.max_successful_tryno = s.max_successful_tryno
           /\ SameHistory(s, t)
           /\ m \in Nat /\ DOMAIN t.retry_stack \subseteq Int
           /\ \A i \in DOMAIN s.retry_stack :
                 /\ i \in 1..m /\ i \in DOMAIN t.retry_stack
                 /\ t.retry_stack[i] = s.retry_stack[i]
           /\ \A j \in DOMAIN s.probe_bench :
                 /\ j > 0 /\ m + j \in DOMAIN t.retry_stack
                 /\ t.retry_stack[m + j].port = s.probe_bench[j]
           /\ \A i \in DOMAIN t.retry_stack :
                 \/ i \in DOMAIN s.retry_stack /\ t.retry_stack[i] = s.retry_stack[i]
                 \/ /\ i - m \in DOMAIN s.probe_bench
                    /\ t.retry_stack[i].port = s.probe_bench[i - m]
                    /\ t.retry_stack[i].tries = s.bench_tryno
  <1> DEFINE B == s.probe_bench
             R == s.retry_stack
             E == [i \in 1..Len(B) |-> [port |-> B[i], tries |-> s.bench_tryno]]
             S == t.retry_stack
  <1>1. /\ t.probe_bench = <<>> /\ t.probes_outstanding = s.probes_outstanding
        /\ t.num_probes_waiting_retransmit = s.num_probes_waiting_retransmit
        /\ t.num_probes_active = s.num_probes_active
        /\ t.fresh = s.fresh /\ S = R \o E /\ t.nxtpseq = s.nxtpseq
        /\ t.max_successful_tryno = s.max_successful_tryno
        /\ SameHistory(s, t)
    BY DEF retransmitBench, HostScanStats, SameHistory
  <1>2. B \in Seq(Ports) /\ Len(B) \in Nat /\ DOMAIN B = 1..Len(B)
        /\ R \in Seq([port: Ports, tries: 0..TrynoCap - 1])
        /\ m = Len(R) /\ m \in Nat /\ DOMAIN R = 1..m
    BY HostFields, LenProperties
  <1> DEFINE Entry == [port: Ports, tries: 0..TrynoCap - 1]
  <1>3. \A i \in DOMAIN B : E[i].port = B[i] /\ E[i].tries = s.bench_tryno
    BY <1>2
  <1>4. E \in Seq(Entry) /\ Len(E) = Len(B)
    <2>1. s.bench_tryno \in 0..TrynoCap - 1
      BY HostFields, AllowedTrynoType, ScanAssumption
    <2>2. \A i \in 1..Len(B) : E[i] \in Entry
      BY <1>2, <2>1, ElementOfSeq
    <2>3. E \in [1..Len(B) -> Entry]
      BY <2>2
    <2> HIDE DEF E, Entry
    <2> QED BY <1>2, <2>3, SeqDef, LenProperties
  <1> HIDE DEF E, S, Entry, B, R
  <1>5. R \in Seq(Entry)
    BY <1>2 DEF Entry
  <1>6. DOMAIN S = 1..m + Len(B)
        /\ \A i \in 1..m + Len(B) : S[i] = IF i <= m THEN R[i] ELSE E[i - m]
    <2>1. S \in Seq(Entry) /\ Len(S) = Len(R) + Len(E)
          /\ \A i \in 1..Len(R) + Len(E) : S[i] = IF i <= Len(R) THEN R[i] ELSE E[i - Len(R)]
      <3>1. S = R \o E
        BY <1>1
      <3> QED BY <1>4, <1>5, <3>1, ConcatProperties, ZenonT(40)
    <2> QED BY <1>2, <1>4, <2>1, LenProperties
  <1>7. ASSUME NEW i \in DOMAIN S
        PROVE  \/ i \in DOMAIN R /\ S[i] = R[i]
               \/ /\ i - m \in DOMAIN B /\ S[i].port = B[i - m]
                  /\ S[i].tries = s.bench_tryno
    <2>1. CASE i <= m
      <3>1. i \in 1..m
        BY <1>2, <1>6, <2>1
      <3> QED BY <1>2, <1>6, <2>1, <3>1
    <2>2. CASE ~(i <= m)
      <3>1. i - m \in 1..Len(B)
        BY <1>2, <1>6, <2>2
      <3>2. S[i] = E[i - m]
        BY <1>6, <2>2
      <3> QED BY <1>2, <1>3, <3>1, <3>2
    <2> QED BY <2>1, <2>2
  <1>8. \A i \in DOMAIN R : i \in 1..m /\ i \in DOMAIN S /\ S[i] = R[i]
    BY <1>2, <1>6
  <1>9. ASSUME NEW j \in DOMAIN B
        PROVE  j > 0 /\ m + j \in DOMAIN S /\ S[m + j].port = B[j]
    <2>1. m + j \in 1..m + Len(B) /\ ~(m + j <= m) /\ m + j - m = j /\ j > 0
      BY <1>2
    <2>2. S[m + j] = E[j]
      BY <1>6, <2>1
    <2> QED BY <1>3, <1>6, <2>1, <2>2
  <1>10. DOMAIN S \subseteq Int
    BY <1>6
  <1> QED BY <1>1, <1>2, <1>7, <1>8, <1>9, <1>10 DEF S, B, R

\* retransmitBench, called when the bench's tries are below those allowed, too.
LEMMA RetryGood ==
    ASSUME NEW s \in HostScanStats, Good(s, {}), allowedTryno(s) > s.bench_tryno
    PROVE  Good(retransmitBench(s), {}) /\ retransmitBench(s).probe_bench = <<>>
  <1> DEFINE t == retransmitBench(s)
             B == s.probe_bench
             R == s.retry_stack
             S == t.retry_stack
             m == Len(R)
  <1>1. /\ t.probe_bench = <<>> /\ t.probes_outstanding = s.probes_outstanding
        /\ t.num_probes_waiting_retransmit = s.num_probes_waiting_retransmit
        /\ t.num_probes_active = s.num_probes_active
        /\ t.fresh = s.fresh /\ t.nxtpseq = s.nxtpseq
        /\ t.max_successful_tryno = s.max_successful_tryno
    BY RetryFields
  <1>2. m \in Nat /\ DOMAIN S \subseteq Int
    BY RetryFields
  <1>5. ASSUME NEW i \in DOMAIN S
        PROVE  \/ i \in DOMAIN R /\ S[i] = R[i]
               \/ /\ i - m \in DOMAIN B /\ S[i].port = B[i - m]
                  /\ S[i].tries = s.bench_tryno
    BY RetryFields
  <1> HIDE DEF t, S, m
  <1>6. DOMAIN t.probe_bench = {}
    BY <1>1
  <1>7. allowedTryno(t) = allowedTryno(s)
    BY <1>1 DEF allowedTryno
  <1>8. Counted(t)
    BY <1>1 DEF Good, Counted
  <1>9. Keyed(t) /\ FlagsOK(t) /\ Newest(t, {}) /\ PingsBelow(t) /\ FreshUntried(t)
        /\ BenchParked(t)
    BY <1>1, <1>6 DEF Good, ListInv, Keyed, FlagsOK, Newest, PingsBelow, FreshUntried,
                      BenchParked
  <1>10. StackParked(t)
    <2>1. \A q, k : Parked(s, q, k) => Parked(t, q, k)
      BY <1>1 DEF Parked
    <2>2. (\A i \in DOMAIN R : Parked(s, R[i].port, R[i].tries))
          /\ \A i \in DOMAIN B : Parked(s, B[i], s.bench_tryno)
      BY DEF Good, ListInv, BenchParked, StackParked
    <2>3. \A i \in DOMAIN S : Parked(s, S[i].port, S[i].tries)
      BY <1>5, <2>2
    <2> QED BY <2>1, <2>3 DEF StackParked, S
  <1>11. Distinct(t)
    <2>1. /\ \A i, j \in DOMAIN B : B[i] = B[j] => i = j
          /\ \A i, j \in DOMAIN R : R[i].port = R[j].port => i = j
          /\ \A i \in DOMAIN B, j \in DOMAIN R : B[i] # R[j].port
      BY DEF Good, ListInv, Distinct
    <2>2. ASSUME NEW i \in DOMAIN S, NEW j \in DOMAIN S, S[i].port = S[j].port
          PROVE  i = j
      <3>1. CASE i \in DOMAIN R /\ S[i] = R[i]
        BY <1>5, <2>1, <2>2, <3>1
      <3>2. CASE i - m \in DOMAIN B /\ S[i].port = B[i - m]
        <4>1. CASE j \in DOMAIN R /\ S[j] = R[j]
          BY <2>1, <2>2, <3>2, <4>1
        <4>2. CASE j - m \in DOMAIN B /\ S[j].port = B[j - m]
          <5>1. i - m = j - m
            BY <2>1, <2>2, <3>2, <4>2
          <5>2. i \in Int /\ j \in Int
            BY <1>2
          <5> QED BY <1>2, <5>1, <5>2
        <4> QED BY <1>5, <4>1, <4>2
      <3> QED BY <1>5, <3>1, <3>2
    <2> QED BY <1>1, <1>6, <2>2 DEF Distinct, S
  <1>12. WithinAllowed(t)
    <2>1. \A i \in DOMAIN R : R[i].tries < allowedTryno(s)
      BY DEF Good, ListInv, WithinAllowed
    <2>2. \A i \in DOMAIN S : S[i].tries < allowedTryno(s)
      BY <1>5, <2>1, BookTypes, AllowedTrynoType
    <2> QED BY <1>1, <1>7, <2>2 DEF Good, ListInv, WithinAllowed, S
  <1> QED BY <1>1, <1>8, <1>9, <1>10, <1>11, <1>12 DEF Good, ListInv, t

-----------------------------------------------------------------------------
(* The loop.                                                                *)

HostsGood == \A h \in Hosts : Good(hss[h], {})

\* While processData visits a host its copy of the list holds only listed probes,
\* none past the tries allowed, and who may join the bench has the bench's try number.
CurOK ==
    cur # NoCur =>
        /\ phase = "expire"
        /\ cur.rest \subseteq hss[cur.host].probes_outstanding
        /\ \A p \in cur.rest : ~p.retransmitted /\ p.pingseq = 0 => p.tryno <= cur.maxtries
        /\ cur.mayincrease /\ hss[cur.host].probe_bench # <<>> =>
              hss[cur.host].bench_tryno = cur.maxtries

\* Committing a host with the right books.
LEMMA CommitGood ==
    ASSUME TypeInv, HostsGood, NEW h \in Hosts, NEW u, Good(u.hss, {}), Commit(h, u)
    PROVE  HostsGood'
  <1>1. hss' = [hss EXCEPT ![h] = u.hss] /\ hss \in [Hosts -> HostScanStats]
    BY TypeParts DEF Commit
  <1>2. \A k \in Hosts : hss'[k] = IF k = h THEN u.hss ELSE hss[k]
    BY <1>1
  <1> QED BY <1>2 DEF HostsGood

\* Writing one host's statistics, with the right books.
LEMMA WriteGood ==
    ASSUME TypeInv, HostsGood, NEW h \in Hosts, NEW t, Good(t, {}),
           hss' = [hss EXCEPT ![h] = t]
    PROVE  HostsGood'
  <1>1. hss \in [Hosts -> HostScanStats]
    BY TypeParts
  <1>2. \A k \in Hosts : hss'[k] = IF k = h THEN t ELSE hss[k]
    BY <1>1
  <1> QED BY <1>2 DEF HostsGood

\* What a sender does before it sends: a fresh port or the top of the stack is
\* taken, or the next ping number.
LEMMA PreparedGood ==
    ASSUME NEW s \in HostScanStats, NEW t \in HostScanStats, Good(s, {}),
           t.probes_outstanding = s.probes_outstanding,
           t.num_probes_active = s.num_probes_active,
           t.num_probes_waiting_retransmit = s.num_probes_waiting_retransmit,
           t.probe_bench = s.probe_bench, t.bench_tryno = s.bench_tryno,
           t.max_successful_tryno = s.max_successful_tryno,
           t.fresh \subseteq s.fresh, t.nxtpseq >= s.nxtpseq,
           DOMAIN t.retry_stack \subseteq DOMAIN s.retry_stack,
           \A i \in DOMAIN t.retry_stack : t.retry_stack[i] = s.retry_stack[i]
    PROVE  Good(t, {})
  <1>1. allowedTryno(t) = allowedTryno(s)
    BY DEF allowedTryno
  <1>2. Counted(t)
    BY DEF Good, Counted
  <1>3. Keyed(t) /\ FlagsOK(t) /\ Newest(t, {}) /\ FreshUntried(t)
    BY DEF Good, ListInv, Keyed, FlagsOK, Newest, FreshUntried
  <1>4. PingsBelow(t)
    BY BookTypes DEF Good, ListInv, PingsBelow
  <1>5. BenchParked(t) /\ StackParked(t) /\ Distinct(t)
    BY DEF Good, ListInv, BenchParked, StackParked, Parked, Distinct
  <1>6. WithinAllowed(t)
    BY <1>1 DEF Good, ListInv, WithinAllowed
  <1> QED BY <1>2, <1>3, <1>4, <1>5, <1>6 DEF Good, ListInv

\* A send from a host so prepared.
LEMMA SendStep ==
    ASSUME TypeInv, NEW h \in Hosts, NEW t \in HostScanStats,
           t.probes_outstanding = hss[h].probes_outstanding, NEW X, Good(t, X),
           NEW n \in UltraProbe, n.sd = "none", Joins(t, n, X),
           \A x \in X : ~SameKey(x, n),
           NEW v \in sendScanProbe([View(h) EXCEPT !.hss = t], n)
    PROVE  /\ Good(v.hss, X) /\ Sound(v)
           /\ t.probes_outstanding \subseteq v.hss.probes_outstanding
              \/ v.hss.probes_outstanding = {}
  <1> DEFINE u == [View(h) EXCEPT !.hss = t]
  <1>1. u.hss = t /\ u.g = gstats /\ u = [hss |-> t, g |-> gstats]
    BY DEF View
  <1>0. v \in sendScanProbe(u, n)
    OBVIOUS
  <1> HIDE DEF u
  <1>2. u \in Views
    BY <1>1, TypeParts DEF Views
  <1>3. Sound(u)
    BY <1>1, <1>2, TypeParts DEF Sound
  <1>4. Sound(v)
    BY <1>0, <1>3, SendSound
  <1>5. Good(u.hss, X) /\ Joins(u.hss, n, X)
    BY <1>1
  <1>6. /\ Good(v.hss, X)
        /\ \/ u.hss.probes_outstanding \subseteq v.hss.probes_outstanding
           \/ v.hss.probes_outstanding = {}
    BY <1>0, <1>3, <1>5, SendGood
  <1> QED BY <1>1, <1>4, <1>6

\* Host h, whose statistics have become t, sends probe n, which leaves view v.
Sends(h, t, n, X, v) ==
    /\ t \in HostScanStats /\ SameHistory(hss[h], t) /\ Good(t, X)
    /\ t.probes_outstanding = hss[h].probes_outstanding
    /\ t.num_probes_active = hss[h].num_probes_active
    /\ n \in UltraProbe /\ n.sd = "none" /\ Joins(t, n, X)
    /\ \A x \in X : ~SameKey(x, n)
    /\ v \in sendScanProbe([View(h) EXCEPT !.hss = t], n)

\* Such a send keeps the books right.
LEMMA SendsGood ==
    ASSUME TypeInv, NEW h \in Hosts, NEW t, NEW n, NEW X, NEW v, Sends(h, t, n, X, v)
    PROVE  /\ Good(v.hss, X) /\ Sound(v)
           /\ t.probes_outstanding \subseteq v.hss.probes_outstanding
              \/ v.hss.probes_outstanding = {}
  BY SendStep DEF Sends

\* The places where ports wait are those of before.
SamePlaces(s, t) ==
    /\ t.fresh = s.fresh /\ t.probe_bench = s.probe_bench
    /\ t.bench_tryno = s.bench_tryno /\ t.retry_stack = s.retry_stack

\* sendPingProbe uses a ping number for the first time.
LEMMA PingSends ==
    ASSUME TypeInv, HostsGood, NEW h \in Hosts, SendPing(h)
    PROVE  \E t, n, v : /\ Sends(h, t, n, {}, v) /\ Commit(h, v)
                        /\ SamePlaces(hss[h], t) /\ n.pingseq # 0
  <1> DEFINE s == hss[h]
             t == [s EXCEPT !.nxtpseq = @ + 1]
             p == NewProbe(s.pingprobe.port, 0, s.nxtpseq)
  <1>1. PICK v \in sendScanProbe([View(h) EXCEPT !.hss = t], p) : Commit(h, v)
    BY DEF SendPing
  <1>2. s \in HostScanStats /\ Good(s, {})
    BY TypeParts DEF HostsGood
  <1>3. s.pingprobe # NoPing /\ s.nxtpseq <= MaxPings
    BY DEF SendPing
  <1> HIDE DEF s
  <1>4. s.pingprobe.port \in Ports
    <2>1. s.pingprobe \in [port: Ports, state: PortStates \cup {"unknown"}]
      BY <1>2, <1>3, HostFields DEF PingProbes
    <2> QED BY <2>1
  <1>5. s.nxtpseq \in 0..MaxPings /\ 0 \in 0..TrynoCap /\ s.nxtpseq + 1 \in 1..MaxPings + 1
        /\ s.nxtpseq \in Int /\ s.nxtpseq > 0
    BY <1>2, <1>3, HostFields, ScanAssumption
  <1>6. /\ p \in UltraProbe /\ p.sd = "none" /\ p.pingseq = s.nxtpseq
        /\ p.timedout = FALSE /\ p.retransmitted = FALSE
    <2>1. p \in UltraProbe /\ p.sd = "none"
      BY <1>4, <1>5, NewProbeOK, Zenon
    <2>2. /\ p.pingseq = s.nxtpseq
          /\ p.timedout = FALSE /\ p.retransmitted = FALSE
      BY DEF NewProbe
    <2> QED BY <2>1, <2>2
  <1>7. t \in HostScanStats
    BY <1>2, <1>5 DEF HostScanStats
  <1>8. /\ t.probes_outstanding = s.probes_outstanding
        /\ t.num_probes_active = s.num_probes_active
        /\ t.num_probes_waiting_retransmit = s.num_probes_waiting_retransmit
        /\ t.probe_bench = s.probe_bench /\ t.bench_tryno = s.bench_tryno
        /\ t.max_successful_tryno = s.max_successful_tryno
        /\ t.fresh = s.fresh /\ t.retry_stack = s.retry_stack
        /\ t.nxtpseq = s.nxtpseq + 1
        /\ SameHistory(s, t)
    BY <1>2 DEF HostScanStats, SameHistory
  <1> HIDE DEF t, p
  <1>9. Good(t, {})
    <2>1. t.nxtpseq >= s.nxtpseq
      BY <1>5, <1>8
    <2> QED BY <1>2, <1>7, <1>8, <2>1, PreparedGood
  <1>10. Joins(t, p, {})
    <2>1. \A q \in t.probes_outstanding : q.pingseq < p.pingseq /\ q.pingseq \in Int
      BY <1>2, <1>6, <1>8, BookTypes DEF Good, ListInv, PingsBelow
    <2>2. \A q \in t.probes_outstanding : ~SameKey(q, p)
      BY <1>5, <1>6, <2>1 DEF SameKey
    <2> QED BY <1>5, <1>6, <1>8, <2>2 DEF Joins
  <1>11. v \in sendScanProbe([View(h) EXCEPT !.hss = t], p)
    BY <1>1 DEF t, p, s
  <1>12. Sends(h, t, p, {}, v)
    BY <1>6, <1>7, <1>8, <1>9, <1>10, <1>11 DEF Sends, s
  <1>13. SamePlaces(hss[h], t) /\ p.pingseq # 0
    BY <1>5, <1>6, <1>8 DEF SamePlaces, s
  <1> QED BY <1>1, <1>12, <1>13

LEMMA PingGood ==
    ASSUME TypeInv, HostsGood, NEW h \in Hosts, SendPing(h)
    PROVE  HostsGood'
  BY PingSends, SendsGood, CommitGood

\* sendNextScanProbe takes a port that has no probe yet.
LEMMA NewSends ==
    ASSUME TypeInv, HostsGood, NEW h \in Hosts, SendNew(h)
    PROVE  \E t, n, v : /\ Sends(h, t, n, {}, v) /\ Commit(h, v)
                        /\ SamePlaces([hss[h] EXCEPT !.fresh = @ \ {n.port}], t)
                        /\ n.port \in hss[h].fresh /\ n.pingseq = 0 /\ n.tryno = 0
  <1> DEFINE s == hss[h]
             c == IF s.clock = "idle" THEN "running" ELSE s.clock
  <1>1. PICK q \in s.fresh :
          \E v \in sendScanProbe([View(h) EXCEPT !.hss =
                       [s EXCEPT !.fresh = @ \ {q}, !.clock = c]], NewProbe(q, 0, 0)) :
            Commit(h, v)
    BY DEF SendNew
  <1> DEFINE F == s.fresh \ {q}
             t == [s EXCEPT !.fresh = F, !.clock = c]
             n == NewProbe(q, 0, 0)
  <1>2. PICK v \in sendScanProbe([View(h) EXCEPT !.hss = t], n) : Commit(h, v)
    BY <1>1
  <1>3. s \in HostScanStats /\ Good(s, {})
    BY TypeParts DEF HostsGood
  <1> HIDE DEF s
  <1>4. q \in Ports /\ F \in SUBSET Ports /\ 0 \in 0..TrynoCap /\ 0 \in 0..MaxPings
    BY <1>3, HostFields, ScanAssumption
  <1>5. c \in {"idle", "running", "stopped"}
    BY <1>3 DEF HostScanStats
  <1> HIDE DEF c
  <1>6. /\ n \in UltraProbe /\ n.sd = "none" /\ n.pingseq = 0 /\ n.port = q /\ n.tryno = 0
        /\ n.timedout = FALSE /\ n.retransmitted = FALSE
    <2>1. n \in UltraProbe /\ n.sd = "none"
      BY <1>4, NewProbeOK, Zenon
    <2>2. /\ n.pingseq = 0 /\ n.port = q /\ n.tryno = 0
          /\ n.timedout = FALSE /\ n.retransmitted = FALSE
      BY DEF NewProbe
    <2> QED BY <2>1, <2>2
  <1>7. F \subseteq s.fresh /\ q \notin F
    OBVIOUS
  <1> HIDE DEF F
  <1>8. t \in HostScanStats
    BY <1>3, <1>4, <1>5 DEF HostScanStats
  <1>9. /\ t.probes_outstanding = s.probes_outstanding
        /\ t.num_probes_active = s.num_probes_active
        /\ t.num_probes_waiting_retransmit = s.num_probes_waiting_retransmit
        /\ t.probe_bench = s.probe_bench /\ t.bench_tryno = s.bench_tryno
        /\ t.max_successful_tryno = s.max_successful_tryno
        /\ t.fresh = F /\ t.retry_stack = s.retry_stack
        /\ t.nxtpseq = s.nxtpseq
        /\ SameHistory(s, t)
    BY <1>3 DEF HostScanStats, SameHistory
  <1> HIDE DEF t, n
  <1>10. Good(t, {})
    <2>1. t.nxtpseq >= s.nxtpseq
      BY <1>3, <1>9, BookTypes
    <2> QED BY <1>3, <1>7, <1>8, <1>9, <2>1, PreparedGood
  <1>11. Joins(t, n, {})
    <2>1. \A p \in t.probes_outstanding : ~TryOf(p, q)
      BY <1>1, <1>3, <1>9 DEF Good, ListInv, FreshUntried, TryOf
    <2>2. /\ \A i \in DOMAIN t.probe_bench : t.probe_bench[i] # q
          /\ \A i \in DOMAIN t.retry_stack : t.retry_stack[i].port # q
      BY <1>1, <1>3, <1>9 DEF Good, ListInv, BenchParked, StackParked, Parked
    <2>3. 0 <= allowedTryno(t)
      BY <1>8, AllowedTrynoType, ScanAssumption
    <2>4. 0 < t.nxtpseq
      BY <1>8, BookTypes
    <2> QED BY <1>6, <1>7, <1>9, <2>1, <2>2, <2>3, <2>4 DEF Joins, SameKey, TryOf
  <1>12. v \in sendScanProbe([View(h) EXCEPT !.hss = t], n) /\ Commit(h, v)
    BY <1>2 DEF t, n, s, F, c
  <1>13. Sends(h, t, n, {}, v)
    BY <1>6, <1>8, <1>9, <1>10, <1>11, <1>12 DEF Sends, s
  <1>14. SamePlaces([s EXCEPT !.fresh = @ \ {q}], t)
    BY <1>3, <1>9 DEF SamePlaces, HostScanStats, F
  <1>15. n.port \in hss[h].fresh /\ n.pingseq = 0 /\ n.tryno = 0 /\ n.port = q
    BY <1>1, <1>6 DEF s
  <1> QED BY <1>12, <1>13, <1>14, <1>15 DEF s

LEMMA NewGood ==
    ASSUME TypeInv, HostsGood, NEW h \in Hosts, SendNew(h)
    PROVE  HostsGood'
  BY NewSends, SendsGood, CommitGood

\* sendNextRetryStackProbe takes a port whose probes have all been retransmitted.
LEMMA RetrySends ==
    ASSUME TypeInv, HostsGood, NEW h \in Hosts, SendRetry(h)
    PROVE  \E t, n, v :
             LET R == hss[h].retry_stack IN
             /\ Sends(h, t, n, {}, v) /\ Commit(h, v)
             /\ SamePlaces([hss[h] EXCEPT !.retry_stack = t.retry_stack], t)
             /\ Len(R) \in DOMAIN R /\ n.pingseq = 0
             /\ n.port = R[Len(R)].port /\ n.tryno = R[Len(R)].tries + 1
             /\ DOMAIN t.retry_stack = DOMAIN R \ {Len(R)}
             /\ \A i \in DOMAIN t.retry_stack : t.retry_stack[i] = R[i]
  <1> DEFINE s == hss[h]
             R == s.retry_stack
             top == R[Len(R)]
             Q == SubSeq(R, 1, Len(R) - 1)
             t == [s EXCEPT !.retry_stack = Q]
             n == NewProbe(top.port, top.tries + 1, 0)
             Entry == [port: Ports, tries: 0..TrynoCap - 1]
  <1>1. PICK v \in sendScanProbe([View(h) EXCEPT !.hss = t], n) : Commit(h, v)
    BY DEF SendRetry
  <1>2. R # <<>>
    BY DEF SendRetry
  <1>3. s \in HostScanStats /\ Good(s, {})
    BY TypeParts DEF HostsGood
  <1> HIDE DEF s
  <1>4. R \in Seq(Entry)
    BY <1>3, HostFields
  <1> HIDE DEF R
  <1>5. /\ top \in Entry /\ Q \in Seq(Entry) /\ Len(R) \in Nat \ {0}
        /\ DOMAIN R = 1..Len(R) /\ DOMAIN Q = 1..Len(R) - 1
        /\ \A i \in 1..Len(R) - 1 : Q[i] = R[i]
    <2> HIDE DEF Entry
    <2>1. Len(R) \in Nat \ {0} /\ DOMAIN R = 1..Len(R)
      BY <1>2, <1>4, EmptySeq, LenProperties
    <2>2. top \in Entry
      BY <1>4, <2>1, ElementOfSeq
    <2>3. Q \in Seq(Entry) /\ Len(Q) = Len(R) - 1 /\ \A i \in 1..Len(R) - 1 : Q[i] = R[i]
      BY <1>4, <2>1, SubSeqProperties
    <2>4. DOMAIN Q = 1..Len(R) - 1
      BY <2>3, LenProperties
    <2> QED BY <2>1, <2>2, <2>3, <2>4
  <1> HIDE DEF Q
  <1>6. /\ top.port \in Ports /\ top.tries + 1 \in 0..TrynoCap /\ 0 \in 0..MaxPings
        /\ top.tries \in Int
    BY <1>5, ScanAssumption
  <1>7. /\ n \in UltraProbe /\ n.sd = "none"
        /\ n.pingseq = 0 /\ n.port = top.port /\ n.tryno = top.tries + 1
        /\ n.timedout = FALSE /\ n.retransmitted = FALSE
    <2> HIDE DEF top
    <2>1. n \in UltraProbe /\ n.sd = "none"
      BY <1>6, NewProbeOK, Zenon
    <2>2. /\ n.pingseq = 0 /\ n.port = top.port /\ n.tryno = top.tries + 1
          /\ n.timedout = FALSE /\ n.retransmitted = FALSE
      BY DEF NewProbe
    <2> QED BY <2>1, <2>2
  <1>8. t \in HostScanStats
    BY <1>3, <1>5 DEF HostScanStats
  <1>9. /\ t.probes_outstanding = s.probes_outstanding
        /\ t.num_probes_active = s.num_probes_active
        /\ t.num_probes_waiting_retransmit = s.num_probes_waiting_retransmit
        /\ t.probe_bench = s.probe_bench /\ t.bench_tryno = s.bench_tryno
        /\ t.max_successful_tryno = s.max_successful_tryno
        /\ t.fresh = s.fresh /\ t.retry_stack = Q
        /\ t.nxtpseq = s.nxtpseq
        /\ SameHistory(s, t)
    BY <1>3 DEF HostScanStats, SameHistory
  <1> HIDE DEF t, n
  <1>10. Good(t, {})
    <2>1. t.nxtpseq >= s.nxtpseq
      BY <1>3, <1>9, BookTypes
    <2>2. DOMAIN t.retry_stack \subseteq DOMAIN s.retry_stack
          /\ \A i \in DOMAIN t.retry_stack : t.retry_stack[i] = s.retry_stack[i]
      BY <1>5, <1>9 DEF R
    <2> QED BY <1>3, <1>8, <1>9, <2>1, <2>2, PreparedGood
  <1>11. Joins(t, n, {})
    <2>1. Len(R) \in DOMAIN R
      BY <1>5
    <2>2. /\ Parked(s, top.port, top.tries) /\ top.tries < allowedTryno(s)
          /\ \A i \in DOMAIN s.probe_bench : s.probe_bench[i] # top.port
          /\ \A i \in DOMAIN R : R[i].port = top.port => i = Len(R)
      BY <1>3, <2>1 DEF Good, ListInv, StackParked, WithinAllowed, Distinct, R
    <2>3. /\ n.port \notin t.fresh /\ n.tryno <= allowedTryno(t)
      <3>1. allowedTryno(t) = allowedTryno(s) /\ allowedTryno(s) \in Int
        BY <1>3, <1>9, AllowedTrynoType DEF allowedTryno
      <3> QED BY <1>6, <1>7, <1>9, <2>2, <3>1 DEF Parked
    <2>4. \A i \in DOMAIN t.retry_stack : t.retry_stack[i].port # n.port
      BY <1>5, <1>7, <1>9, <2>2
    <2>5. \A q \in t.probes_outstanding :
            TryOf(q, n.port) => q.tryno < n.tryno /\ q.retransmitted
      BY <1>3, <1>6, <1>7, <1>9, <2>2, BookTypes DEF Parked
    <2>6. \A q \in t.probes_outstanding : ~SameKey(q, n)
      BY <1>7, <1>8, <2>5, BookTypes DEF SameKey, TryOf
    <2>7. 0 < t.nxtpseq
      BY <1>8, BookTypes
    <2> QED BY <1>7, <1>9, <2>2, <2>3, <2>4, <2>5, <2>6, <2>7 DEF Joins
  <1>12. v \in sendScanProbe([View(h) EXCEPT !.hss = t], n)
    BY <1>1 DEF t, n, s, Q, R
  <1>13. Sends(h, t, n, {}, v)
    BY <1>7, <1>8, <1>9, <1>10, <1>11, <1>12 DEF Sends, s
  <1>14. SamePlaces([s EXCEPT !.retry_stack = t.retry_stack], t)
    BY <1>3, <1>9 DEF SamePlaces, HostScanStats
  <1>15. /\ Len(R) \in DOMAIN R /\ DOMAIN t.retry_stack = DOMAIN R \ {Len(R)}
         /\ \A i \in DOMAIN t.retry_stack : t.retry_stack[i] = R[i]
    BY <1>5, <1>9
  <1> QED BY <1>1, <1>7, <1>13, <1>14, <1>15 DEF s, R

LEMMA RetryStepGood ==
    ASSUME TypeInv, HostsGood, NEW h \in Hosts, SendRetry(h)
    PROVE  HostsGood'
  BY RetrySends, SendsGood, CommitGood

\* allowedTryno() leaves the books alone.
LEMMA AllowedBooks ==
    ASSUME NEW s \in HostScanStats, NEW t \in HostScanStats, NEW c \in {"no", "waiting", "over"},
           t = [AfterAllowedTryno(s) EXCEPT !.rld = c]
    PROVE  /\ Books(s, t, s.probes_outstanding, s.num_probes_active,
                    s.num_probes_waiting_retransmit)
           /\ SameHistory(s, t)
  <1>1. s.max_successful_tryno \in Int
    BY HostFields
  <1> HIDE DEF MayIncrease
  <1>2. /\ t.fresh = s.fresh /\ t.probe_bench = s.probe_bench
        /\ t.bench_tryno = s.bench_tryno /\ t.retry_stack = s.retry_stack
        /\ t.nxtpseq = s.nxtpseq
        /\ t.max_successful_tryno = s.max_successful_tryno
        /\ t.probes_outstanding = s.probes_outstanding
        /\ t.num_probes_active = s.num_probes_active
        /\ t.num_probes_waiting_retransmit = s.num_probes_waiting_retransmit
        /\ SameHistory(s, t)
    BY DEF AfterAllowedTryno, HostScanStats, SameHistory
  <1> QED BY <1>1, <1>2 DEF Books, Kept

\* retransmitProbe: between the send and the mark the old probe is in X.  If the
\* answer came at once and cleared the list, the assertion stops the program there.
LEMMA RetransmitSends ==
    ASSUME TypeInv, HostsGood, NEW h \in Hosts, Retransmit(h)
    PROVE  \E t, n, v, p :
             /\ Sends(h, t, n, {p}, v) /\ SamePlaces(hss[h], t)
             /\ p \in hss[h].probes_outstanding /\ p.pingseq = 0 /\ ~p.retransmitted
             /\ n.pingseq = 0 /\ n.port = p.port /\ n.tryno = p.tryno + 1
             /\ \/ /\ v.hss.probes_outstanding = {} /\ Commit(h, v)
                   /\ v.hss.num_probes_waiting_retransmit = 0
                \/ /\ p \in Awaiting(v.hss.probes_outstanding)
                   /\ Commit(h, Retransmitted(v, p)) /\ phase' = phase
  <1> DEFINE s == hss[h]
             t == [AfterAllowedTryno(s) EXCEPT !.rld = "no"]
  <1>1. PICK p \in Retransmittable(s) :
          \E v \in sendScanProbe([View(h) EXCEPT !.hss = t],
                                 NewProbe(p.port, p.tryno + 1, 0)) :
             IF v.hss.num_probes_waiting_retransmit > 0
             THEN Commit(h, Retransmitted(v, p)) /\ phase' = phase
             ELSE Commit(h, v)
    BY DEF Retransmit
  <1> DEFINE n == NewProbe(p.port, p.tryno + 1, 0)
  <1>2. PICK v \in sendScanProbe([View(h) EXCEPT !.hss = t], n) :
             IF v.hss.num_probes_waiting_retransmit > 0
             THEN Commit(h, Retransmitted(v, p)) /\ phase' = phase
             ELSE Commit(h, v)
    BY <1>1
  <1>3. s \in HostScanStats /\ Good(s, {})
    BY TypeParts DEF HostsGood
  <1> HIDE DEF s
  <1>4. t \in HostScanStats
    <2>1. AfterAllowedTryno(s) \in HostScanStats
      BY <1>3, AllowedTrynoType
    <2> QED BY <2>1 DEF HostScanStats
  <1>5. /\ Books(s, t, s.probes_outstanding, s.num_probes_active,
                 s.num_probes_waiting_retransmit)
        /\ SameHistory(s, t)
    BY <1>3, <1>4, AllowedBooks
  <1> HIDE DEF t
  <1>6. Good(t, {}) /\ Kept(s, t) /\ t.probes_outstanding = s.probes_outstanding
    BY <1>3, <1>4, <1>5, GoodKept DEF Books
  <1>7. /\ p \in s.probes_outstanding /\ p \in UltraProbe /\ p.tryno < allowedTryno(s)
        /\ p.timedout /\ ~p.retransmitted /\ p.pingseq = 0
    <2>1. p \in s.probes_outstanding /\ p.tryno < allowedTryno(s) /\ ~isPing(p)
          /\ p.timedout /\ ~p.retransmitted
      BY DEF Retransmittable, Awaiting
    <2> QED BY <1>3, <2>1, BookTypes DEF isPing
  <1>8. p.port \in Ports /\ p.tryno + 1 \in 0..TrynoCap /\ 0 \in 0..MaxPings /\ p.tryno \in Int
    BY <1>3, <1>7, AllowedTrynoType, ProbeFields, ScanAssumption
  <1>9. /\ n \in UltraProbe /\ n.sd = "none"
        /\ n.pingseq = 0 /\ n.port = p.port /\ n.tryno = p.tryno + 1
        /\ n.timedout = FALSE /\ n.retransmitted = FALSE
    <2>1. n \in UltraProbe /\ n.sd = "none"
      BY <1>8, NewProbeOK, Zenon
    <2>2. /\ n.pingseq = 0 /\ n.port = p.port /\ n.tryno = p.tryno + 1
          /\ n.timedout = FALSE /\ n.retransmitted = FALSE
      BY DEF NewProbe
    <2> QED BY <2>1, <2>2
  <1> HIDE DEF n
  <1>10. Good(t, {p})
    BY <1>6 DEF Good, ListInv, Newest
  <1>11. Joins(t, n, {p})
    <2>1. /\ p.port \notin t.fresh
          /\ \A i \in DOMAIN t.probe_bench : t.probe_bench[i] # p.port
          /\ \A i \in DOMAIN t.retry_stack : t.retry_stack[i].port # p.port
          /\ \A q \in t.probes_outstanding : q # p /\ TryOf(q, p.port) =>
                 q.retransmitted /\ q.tryno < p.tryno
      BY <1>4, <1>6, <1>7, HolderUnique DEF Good
    <2>2. n.tryno <= allowedTryno(t)
      BY <1>3, <1>4, <1>6, <1>7, <1>8, <1>9, AllowedMono
    <2>3. \A q \in t.probes_outstanding :
            TryOf(q, n.port) => q.tryno < n.tryno /\ (q.retransmitted \/ q \in {p})
      BY <1>4, <1>8, <1>9, <2>1, BookTypes
    <2>4. \A q \in t.probes_outstanding : ~SameKey(q, n)
      BY <1>4, <1>9, <2>3, BookTypes DEF SameKey, TryOf
    <2>5. 0 < t.nxtpseq
      BY <1>4, BookTypes
    <2> QED BY <1>9, <2>1, <2>2, <2>3, <2>4, <2>5 DEF Joins
  <1>12. \A x \in {p} : ~SameKey(x, n)
    BY <1>8, <1>9 DEF SameKey
  <1>13. v \in sendScanProbe([View(h) EXCEPT !.hss = t], n)
    BY <1>2 DEF t, n
  <1>14. Sends(h, t, n, {p}, v)
    BY <1>4, <1>5, <1>9, <1>10, <1>11, <1>12, <1>13 DEF Sends, s, Books
  <1>15. /\ Good(v.hss, {p}) /\ Sound(v)
         /\ \/ t.probes_outstanding \subseteq v.hss.probes_outstanding
            \/ v.hss.probes_outstanding = {}
    BY <1>14, SendsGood
  <1>16. /\ SamePlaces(hss[h], t) /\ p \in hss[h].probes_outstanding /\ p.pingseq = 0
         /\ ~p.retransmitted /\ n.pingseq = 0 /\ n.port = p.port /\ n.tryno = p.tryno + 1
    BY <1>5, <1>7, <1>9 DEF Books, Kept, SamePlaces, s
  <1>17. CASE v.hss.probes_outstanding = {}
    <2>1. Awaiting(v.hss.probes_outstanding) = {}
      BY <1>17 DEF Awaiting
    <2>2. v.hss.num_probes_waiting_retransmit = 0
      BY <1>15, <2>1, FS_EmptySet DEF Good, Counted
    <2>3. Commit(h, v)
      BY <1>2, <2>2
    <2> QED BY <1>17, <1>14, <1>16, <2>2, <2>3
  <1>18. CASE t.probes_outstanding \subseteq v.hss.probes_outstanding
    <2> DEFINE P == v.hss.probes_outstanding
    <2>1. p \in Awaiting(P)
      BY <1>6, <1>7, <1>18 DEF Awaiting, isPing
    <2>2. IsFiniteSet(P)
      BY <1>15 DEF Sound
    <2>3. v.hss.num_probes_waiting_retransmit = Cardinality(Awaiting(P))
      BY <1>15 DEF Good, Counted
    <2>4. Cardinality(Awaiting(P)) > 0
      <3>1. IsFiniteSet(Awaiting(P)) /\ Cardinality(Awaiting(P)) \in Nat
        BY <2>2, CountNat
      <3>2. Cardinality(Awaiting(P)) # 0
        BY <2>1, <3>1, FS_EmptySet
      <3> QED BY <3>1, <3>2
    <2>5. Commit(h, Retransmitted(v, p)) /\ phase' = phase
      BY <1>2, <2>3, <2>4
    <2> QED BY <1>14, <1>16, <2>1, <2>5
  <1> QED BY <1>15, <1>17, <1>18

LEMMA RetransmitGood ==
    ASSUME TypeInv, HostsGood, NEW h \in Hosts, Retransmit(h)
    PROVE  HostsGood'
  <1>1. PICK t, n, v, p :
          /\ Sends(h, t, n, {p}, v)
          /\ \/ v.hss.probes_outstanding = {} /\ Commit(h, v)
             \/ p \in Awaiting(v.hss.probes_outstanding) /\ Commit(h, Retransmitted(v, p))
    BY RetransmitSends
  <1>2. Good(v.hss, {p}) /\ Sound(v)
    BY <1>1, SendsGood
  <1>3. CASE v.hss.probes_outstanding = {} /\ Commit(h, v)
    BY <1>2, <1>3, EmptyGood, CommitGood
  <1>4. CASE p \in Awaiting(v.hss.probes_outstanding) /\ Commit(h, Retransmitted(v, p))
    <2>1. Good(Retransmitted(v, p).hss, {})
      BY <1>2, <1>4, RetransmittedGood
    <2> QED BY <1>4, <2>1, CommitGood
  <1> QED BY <1>1, <1>3, <1>4

\* The view of a host whose books are right.
LEMMA ViewGood ==
    ASSUME TypeInv, HostsGood, NEW h \in Hosts
    PROVE  /\ Sound(View(h)) /\ View(h) \in Views /\ Good(View(h).hss, {})
           /\ IsFiniteSet(View(h).hss.probes_outstanding)
           /\ View(h).hss = hss[h] /\ hss[h] \in HostScanStats
           /\ \A p \in hss[h].probes_outstanding : p \in UltraProbe
  <1>1. Fits(View(h)) /\ View(h) \in Views /\ View(h).hss = hss[h] /\ hss[h] \in HostScanStats
    BY ViewFits
  <1> QED BY <1>1, ListedProbe DEF HostsGood, Fits, Sound

\* The packet handlers of waitForResponses settle a listed probe.
LEMMA AnswersGood ==
    ASSUME TypeInv, HostsGood, NEW h \in Hosts,
           PingAnswer(h) \/ PortAnswer(h) \/ DiscoveryAnswer(h) \/ ArpAnswer(h)
    PROVE  HostsGood'
  <1> DEFINE P == hss[h].probes_outstanding
  <1>1. /\ Sound(View(h)) /\ View(h) \in Views /\ Good(View(h).hss, {})
        /\ IsFiniteSet(View(h).hss.probes_outstanding)
        /\ View(h).hss = hss[h]
        /\ \A p \in P : p \in UltraProbe
    BY ViewGood
  <1>2. ASSUME NEW v, NEW p \in P, Commit(h, v), Settled(View(h), v, p)
        PROVE  HostsGood'
    <2>1. Good(v.hss, {})
      BY <1>1, <1>2, SettledGood
    <2> QED BY <1>2, <2>1, CommitGood
  <1>3. CASE PingAnswer(h)
    <2>1. PICK v \in UNION {ultrascan_ping_update(View(h), p, TRUE) : p \in Pings(hss[h])} :
            Commit(h, v)
      BY <1>3 DEF PingAnswer, Answered
    <2>2. PICK p \in Pings(hss[h]) : v \in ultrascan_ping_update(View(h), p, TRUE)
      BY <2>1
    <2>3. p \in P
      BY DEF Pings
    <2>4. Settled(View(h), v, p)
      BY <1>1, <2>2, <2>3, PingUpdateSpec DEF Settled
    <2> QED BY <1>2, <2>1, <2>3, <2>4
  <1>4. CASE PortAnswer(h)
    <2>1. PICK v \in UNION {ultrascan_port_probe_update(View(h), p, r) :
                              p \in ScanProbes(hss[h]), r \in Responses} : Commit(h, v)
      BY <1>4 DEF PortAnswer, Answered
    <2>2. PICK p \in ScanProbes(hss[h]), r \in Responses :
            v \in ultrascan_port_probe_update(View(h), p, r)
      BY <2>1
    <2>3. p \in P /\ r \in PortStates
      BY ScanAssumption DEF ScanProbes
    <2>4. Settled(View(h), v, p)
      BY <1>1, <2>2, <2>3, PortUpdateSpec DEF Settled
    <2> QED BY <1>2, <2>1, <2>3, <2>4
  <1>5. CASE DiscoveryAnswer(h)
    <2>1. PICK v \in UNION {HostAnswer(View(h), p, r) :
                              p \in ScanProbes(hss[h]), r \in {"up", "down"}} : Commit(h, v)
      BY <1>5 DEF DiscoveryAnswer, Answered
    <2>2. PICK p \in ScanProbes(hss[h]), r \in {"up", "down"} : v \in HostAnswer(View(h), p, r)
      BY <2>1
    <2>3. p \in P
      BY DEF ScanProbes
    <2>4. Settled(View(h), v, p)
      BY <1>1, <2>2, <2>3, HostAnswerSettles
    <2> QED BY <1>2, <2>1, <2>3, <2>4
  <1>6. CASE ArpAnswer(h)
    <2>1. PICK v \in UNION {HostAnswer(View(h), p, "up") : p \in P} : Commit(h, v)
      BY <1>6 DEF ArpAnswer, Answered
    <2>2. PICK p \in P : v \in HostAnswer(View(h), p, "up")
      BY <2>1
    <2>4. Settled(View(h), v, p)
      BY <1>1, <2>2, HostAnswerSettles
    <2> QED BY <1>2, <2>1, <2>4
  <1> QED BY <1>3, <1>4, <1>5, <1>6

\* do_one_select_round: a watched socket belongs to an active probe, so that even a
\* connection to oneself, which times its probe out, finds it counted as active.
LEMMA SelectGood ==
    ASSUME TypeInv, HostsGood, NEW h \in Hosts, SelectAnswer(h)
    PROVE  HostsGood'
  <1>1. PICK p \in Watched(hss[h].probes_outstanding) :
         \E e \in (IF p.sd = "drained" THEN {"accept"} ELSE Errnos) :
         LET q == [p EXCEPT !.sd = "drained"]
             s == [hss[h] EXCEPT !.probes_outstanding = (@ \ {p}) \cup {q}]
             u == [View(h) EXCEPT !.hss = s]
         IN  \E v \in handleConnectResult(u, q, e, FALSE) : Commit(h, v)
    BY DEF SelectAnswer
  <1> DEFINE r == hss[h]
             q == [p EXCEPT !.sd = "drained"]
             P == (r.probes_outstanding \ {p}) \cup {q}
             s == [r EXCEPT !.probes_outstanding = P]
             u == [View(h) EXCEPT !.hss = s]
  <1>0. PICK e \in (IF p.sd = "drained" THEN {"accept"} ELSE Errnos) :
          \E v \in handleConnectResult(u, q, e, FALSE) : Commit(h, v)
    BY <1>1
  <1>2. PICK v \in handleConnectResult(u, q, e, FALSE) : Commit(h, v)
    BY <1>0
  <1>3. e \in ConnectErrnos
    BY ScanAssumption DEF ConnectErrnos
  <1>4. p \in UltraProbe /\ p \in r.probes_outstanding /\ p.sd # "none"
    BY ListedProbe DEF Watched
  <1>5. /\ q \in UltraProbe /\ SameKey(p, q) /\ q.timedout = p.timedout
        /\ q.retransmitted = p.retransmitted
    BY <1>4 DEF UltraProbe, SameKey
  <1>6. r \in HostScanStats /\ gstats \in GroupStats
        /\ IsFiniteSet(r.probes_outstanding) /\ Good(r, {})
    BY TypeParts DEF HostsGood
  <1> HIDE DEF q, r
  <1>7. P \in SUBSET UltraProbe
    BY <1>5, <1>6, HostFields
  <1>8. IsFiniteSet(P)
    BY <1>6, SwapFinite
  <1>9. q \in P /\ P = (r.probes_outstanding \ {p}) \cup {q}
    OBVIOUS
  <1> HIDE DEF P
  <1>10. s \in HostScanStats
    BY <1>6, <1>7 DEF HostScanStats
  <1>11. Books(r, s, P, r.num_probes_active, r.num_probes_waiting_retransmit)
    <2>1. r.max_successful_tryno \in Int
      BY <1>6, HostFields
    <2>2. s.max_successful_tryno = r.max_successful_tryno
      BY <1>6 DEF HostScanStats
    <2>3. Kept(r, s)
      BY <1>6, <2>1, <2>2 DEF Kept, HostScanStats
    <2> QED BY <1>6, <2>3 DEF Books, HostScanStats
  <1> HIDE DEF s
  <1>12. ~p.timedout /\ ~p.retransmitted /\ Keyed(r) /\ ListInv(r, {}) /\ Counted(r)
    BY <1>4, <1>6 DEF Good, ListInv, FlagsOK
  <1>13. ListInv(s, {})
    <2>1. Kept(r, s) /\ s.probes_outstanding = (r.probes_outstanding \ {p}) \cup {q}
      BY <1>9, <1>11 DEF Books
    <2>2. ListInv(s, {} \ {p})
      BY <1>4, <1>5, <1>6, <1>10, <1>12, <2>1, ListReplaces
    <2>3. {} \ {p} = {}
      OBVIOUS
    <2> QED BY <2>2, <2>3
  <1>14. Counted(s)
    <2>1. /\ Cardinality(Active(P)) = Cardinality(Active(r.probes_outstanding))
                - One(~p.timedout) + One(~q.timedout)
          /\ Cardinality(Awaiting(P)) = Cardinality(Awaiting(r.probes_outstanding))
                - One(~isPing(p) /\ p.timedout /\ ~p.retransmitted)
                + One(~isPing(q) /\ q.timedout /\ ~q.retransmitted)
      BY <1>4, <1>5, <1>6, <1>9, <1>12, CountSwap
    <2>2. /\ One(~p.timedout) = 1 /\ One(~q.timedout) = 1
          /\ One(~isPing(p) /\ p.timedout /\ ~p.retransmitted) = 0
          /\ One(~isPing(q) /\ q.timedout /\ ~q.retransmitted) = 0
      BY <1>5, <1>12 DEF One
    <2>3. /\ Cardinality(Active(r.probes_outstanding)) \in Nat
          /\ Cardinality(Awaiting(r.probes_outstanding)) \in Nat
      BY <1>6, CountNat
    <2> QED BY <1>11, <1>12, <2>1, <2>2, <2>3 DEF Counted, Books
  <1>15. u.hss = s /\ u.g = gstats /\ u = [hss |-> s, g |-> gstats]
    BY DEF View
  <1> HIDE DEF u
  <1>16. Sound(u) /\ u \in Views
    BY <1>6, <1>8, <1>10, <1>11, <1>15 DEF Views, Sound, Books
  <1>17. Good(u.hss, {}) /\ q \in u.hss.probes_outstanding /\ ~q.timedout
    BY <1>5, <1>9, <1>11, <1>12, <1>13, <1>14, <1>15 DEF Good, Books
  <1>18. Outcome(u, v, q)
    BY <1>2, <1>3, <1>5, <1>16, ConnectResultSpec DEF Sound
  <1>19. Good(v.hss, {})
    BY <1>16, <1>17, <1>18, OutcomeGood
  <1> QED BY <1>2, <1>19, CommitGood

\* Whether t has the books of s.
SameBooks(s, t) ==
    /\ t \in HostScanStats
    /\ Books(s, t, s.probes_outstanding, s.num_probes_active,
             s.num_probes_waiting_retransmit)

\* A record that differs from s in these fields only has its books.
LEMMA SameBooksFields ==
    ASSUME NEW s \in HostScanStats, NEW t \in HostScanStats,
           t.fresh = s.fresh, t.probe_bench = s.probe_bench,
           t.bench_tryno = s.bench_tryno, t.retry_stack = s.retry_stack,
           t.nxtpseq = s.nxtpseq, t.max_successful_tryno = s.max_successful_tryno,
           t.probes_outstanding = s.probes_outstanding,
           t.num_probes_active = s.num_probes_active,
           t.num_probes_waiting_retransmit = s.num_probes_waiting_retransmit
    PROVE  SameBooks(s, t)
  <1>1. s.max_successful_tryno \in Int
    BY HostFields
  <1> QED BY <1>1 DEF SameBooks, Books, Kept

\* allowedTryno(), which writes tryno_mayincrease, keeps them.
LEMMA AfterAllowedBooks ==
    ASSUME NEW s \in HostScanStats
    PROVE  SameBooks(s, AfterAllowedTryno(s))
  <1> DEFINE t == AfterAllowedTryno(s)
             b == MayIncrease(s)
  <1>1. t \in HostScanStats
    BY AllowedTrynoType
  <1>2. t = [s EXCEPT !.tryno_mayincrease = b]
    BY DEF AfterAllowedTryno
  <1> HIDE DEF t, b
  <1>3. /\ t.fresh = s.fresh /\ t.probe_bench = s.probe_bench
        /\ t.bench_tryno = s.bench_tryno /\ t.retry_stack = s.retry_stack
        /\ t.nxtpseq = s.nxtpseq
        /\ t.max_successful_tryno = s.max_successful_tryno
        /\ t.probes_outstanding = s.probes_outstanding
        /\ t.num_probes_active = s.num_probes_active
        /\ t.num_probes_waiting_retransmit = s.num_probes_waiting_retransmit
    BY <1>2 DEF HostScanStats
  <1> QED BY <1>1, <1>3, SameBooksFields DEF t

\* A step that leaves all books alone.
LEMMA SameBooksGood ==
    ASSUME TypeInv, HostsGood, \A h \in Hosts : SameBooks(hss[h], hss'[h])
    PROVE  HostsGood'
  <1> SUFFICES ASSUME NEW h \in Hosts PROVE Good(hss'[h], {})
    BY DEF HostsGood
  <1>1. hss[h] \in HostScanStats /\ Good(hss[h], {})
    BY TypeParts DEF HostsGood
  <1> QED BY <1>1, GoodKept DEF SameBooks

\* A host that is not written keeps its books.
LEMMA SameBooksSelf ==
    ASSUME NEW s \in HostScanStats
    PROVE  SameBooks(s, s)
  BY SameBooksFields

\* A step that writes one host and leaves its books alone.
LEMMA OneHostSameBooks ==
    ASSUME TypeInv, HostsGood, NEW h \in Hosts, NEW t, SameBooks(hss[h], t),
           hss' = [hss EXCEPT ![h] = t]
    PROVE  HostsGood'
  <1>1. hss \in [Hosts -> HostScanStats]
    BY TypeParts
  <1>2. \A k \in Hosts : hss'[k] = IF k = h THEN t ELSE hss[k]
    BY <1>1
  <1>3. \A k \in Hosts : SameBooks(hss[k], hss'[k])
    BY <1>1, <1>2, SameBooksSelf
  <1> QED BY <1>3, SameBooksGood

\* The steps that touch neither lists nor counters.
LEMMA LightStepsGood ==
    ASSUME TypeInv, HostsGood, NEW h \in Hosts,
           \/ NothingToRetransmit(h) \/ BeginRateLimitWait(h) \/ UnsolicitedReply(h)
           \/ RateLimitWaitOver(h) \/ HostClockExpires(h)
    PROVE  HostsGood'
  <1> DEFINE r == hss[h]
             s == AfterAllowedTryno(r)
  <1>1. r \in HostScanStats
    BY TypeParts
  <1>2. s \in HostScanStats /\ SameBooks(r, s)
    BY <1>1, AllowedTrynoType, AfterAllowedBooks
  <1>3. CASE NothingToRetransmit(h)
    <2>1. hss' = [hss EXCEPT ![h] = s]
      BY <1>3 DEF NothingToRetransmit
    <2> HIDE DEF s
    <2> QED BY <1>2, <2>1, OneHostSameBooks
  <1>4. CASE BeginRateLimitWait(h)
    <2>1. PICK p \in Retransmittable(r) :
            hss' = [hss EXCEPT ![h] = [AfterAllowedTryno(@) EXCEPT
                      !.rld_max_tryno_sent = p.tryno + 1, !.rld = "waiting"]]
      BY <1>4 DEF BeginRateLimitWait
    <2>2. p.tryno + 1 \in 0..TrynoCap
      <3>1. p \in UltraProbe /\ p.tryno < allowedTryno(r)
        BY <1>1, HostFields DEF Retransmittable, Awaiting
      <3> QED BY <1>1, <3>1, AllowedTrynoType, ProbeFields, ScanAssumption
    <2> DEFINE n == p.tryno + 1
               t == [s EXCEPT !.rld_max_tryno_sent = n, !.rld = "waiting"]
    <2>3. hss' = [hss EXCEPT ![h] = t]
      BY <2>1
    <2> HIDE DEF s, n, r
    <2>4. /\ t \in HostScanStats
          /\ t.fresh = s.fresh /\ t.probe_bench = s.probe_bench
          /\ t.bench_tryno = s.bench_tryno /\ t.retry_stack = s.retry_stack
          /\ t.nxtpseq = s.nxtpseq
          /\ t.max_successful_tryno = s.max_successful_tryno
          /\ t.probes_outstanding = s.probes_outstanding
          /\ t.num_probes_active = s.num_probes_active
          /\ t.num_probes_waiting_retransmit = s.num_probes_waiting_retransmit
      BY <1>2, <2>2 DEF HostScanStats, n
    <2> HIDE DEF t
    <2>5. SameBooks(r, t)
      BY <1>2, <2>4 DEF SameBooks, Books, Kept
    <2> QED BY <2>3, <2>5, OneHostSameBooks DEF r
  <1>5. CASE UnsolicitedReply(h)
    <2> DEFINE t == [r EXCEPT !.flags = "up"]
    <2>1. t \in HostScanStats /\ SameBooks(r, t)
      <3>1. t \in HostScanStats
        BY <1>1 DEF HostScanStats
      <3> QED BY <1>1, <3>1, SameBooksFields, ZenonT(40) DEF HostScanStats
    <2>2. hss' = [hss EXCEPT ![h] = t]
      BY <1>5 DEF UnsolicitedReply
    <2> HIDE DEF t
    <2> QED BY <2>1, <2>2, OneHostSameBooks
  <1>6. CASE RateLimitWaitOver(h)
    <2> DEFINE t == [r EXCEPT !.rld = "over"]
    <2>1. t \in HostScanStats /\ SameBooks(r, t)
      <3>1. t \in HostScanStats
        BY <1>1 DEF HostScanStats
      <3> QED BY <1>1, <3>1, SameBooksFields, ZenonT(40) DEF HostScanStats
    <2>2. hss' = [hss EXCEPT ![h] = t]
      BY <1>6 DEF RateLimitWaitOver
    <2> HIDE DEF t
    <2> QED BY <2>1, <2>2, OneHostSameBooks
  <1>7. CASE HostClockExpires(h)
    <2> DEFINE t == [r EXCEPT !.timedOut = TRUE]
    <2>1. t \in HostScanStats /\ SameBooks(r, t)
      <3>1. t \in HostScanStats
        BY <1>1 DEF HostScanStats
      <3> QED BY <1>1, <3>1, SameBooksFields, ZenonT(40) DEF HostScanStats
    <2>2. hss' = [hss EXCEPT ![h] = t]
      BY <1>7 DEF HostClockExpires
    <2> HIDE DEF t
    <2> QED BY <2>1, <2>2, OneHostSameBooks
  <1> QED BY <1>3, <1>4, <1>5, <1>6, <1>7

\* removeCompletedHosts stops clocks.
LEMMA RemoveGood ==
    ASSUME TypeInv, HostsGood, removeCompletedHosts
    PROVE  HostsGood'
  <1> SUFFICES ASSUME NEW h \in Hosts PROVE SameBooks(hss[h], hss'[h])
    BY SameBooksGood
  <1> DEFINE r == hss[h]
             t == [r EXCEPT !.clock = "stopped"]
  <1>1. r \in HostScanStats
    BY TypeParts
  <1>2. hss'[h] = r \/ hss'[h] = t
    BY DEF removeCompletedHosts
  <1>3. SameBooks(r, t)
    <2>1. t \in HostScanStats
      BY <1>1 DEF HostScanStats
    <2> QED BY <1>1, <2>1, SameBooksFields, ZenonT(40) DEF HostScanStats
  <1> HIDE DEF t
  <1> QED BY <1>1, <1>2, <1>3, SameBooksSelf

\* printAnyStats calls allowedTryno().
LEMMA EndNewGood ==
    ASSUME TypeInv, HostsGood, EndNew
    PROVE  HostsGood'
  <1> SUFFICES ASSUME NEW h \in Hosts PROVE SameBooks(hss[h], hss'[h])
    BY SameBooksGood
  <1>1. hss[h] \in HostScanStats
    BY TypeParts
  <1>2. hss'[h] = hss[h] \/ hss'[h] = AfterAllowedTryno(hss[h])
    BY DEF EndNew
  <1> QED BY <1>1, <1>2, SameBooksSelf, AfterAllowedBooks

\* Expiring a global ping destroys it.
LEMMA GlobalPingExpiryGood ==
    ASSUME TypeInv, HostsGood, ExpireGlobalPing
    PROVE  HostsGood'
  <1>1. pinghost \in Hosts
    BY TypeParts DEF ExpireGlobalPing
  <1>2. PICK p \in hss[pinghost].probes_outstanding :
          \E v \in ultrascan_ping_update(View(pinghost), p, FALSE) : Commit(pinghost, v)
    BY DEF ExpireGlobalPing
  <1>3. PICK v \in ultrascan_ping_update(View(pinghost), p, FALSE) : Commit(pinghost, v)
    BY <1>2
  <1>4. /\ p \in UltraProbe /\ View(pinghost) \in Views /\ Sound(View(pinghost))
        /\ Good(View(pinghost).hss, {}) /\ p \in View(pinghost).hss.probes_outstanding
    BY <1>1, ViewGood
  <1>5. Destroyed(View(pinghost), v, p)
    BY <1>4, PingUpdateSpec
  <1>6. Good(v.hss, {})
    BY <1>4, <1>5, DestroyedGood
  <1> QED BY <1>1, <1>3, <1>6, CommitGood

\* What processData does with a bench keeps the books right; a bench that stays has
\* the try number that is allowed.
LEMMA AfterBenchGood ==
    ASSUME NEW s \in HostScanStats, Good(s, {})
    PROVE  /\ Good(AfterBench(s), {})
           /\ AfterBench(s).probe_bench # <<>> =>
                AfterBench(s).bench_tryno = allowedTryno(s)
  <1>1. CASE AfterBench(s) = dismissBench(s)
    BY <1>1, DismissGood
  <1>2. CASE AfterBench(s) = retransmitBench(s) /\ allowedTryno(s) > s.bench_tryno
    BY <1>2, RetryGood
  <1>3. CASE AfterBench(s) = s /\ (s.probe_bench # <<>> => ~(allowedTryno(s) > s.bench_tryno))
    <2>1. s.probe_bench # <<>> => s.bench_tryno <= allowedTryno(s)
      BY DEF Good, ListInv, WithinAllowed
    <2>2. s.bench_tryno \in Int /\ allowedTryno(s) \in Int
      BY BookTypes, AllowedTrynoType
    <2> QED BY <1>3, <2>1, <2>2
  <1>4. \/ AfterBench(s) = dismissBench(s)
        \/ AfterBench(s) = retransmitBench(s) /\ allowedTryno(s) > s.bench_tryno
        \/ AfterBench(s) = s /\ (s.probe_bench # <<>> => ~(allowedTryno(s) > s.bench_tryno))
    BY DEF AfterBench
  <1> QED BY <1>1, <1>2, <1>3, <1>4

\* processData turns to a host.
LEMMA VisitGood ==
    ASSUME TypeInv, HostsGood, NEW h \in Hosts, VisitHost(h)
    PROVE  HostsGood' /\ CurOK'
  <1> DEFINE r == hss[h]
             s == AfterAllowedTryno(r)
             t == AfterBench(s)
  <1>1. r \in HostScanStats /\ Good(r, {}) /\ hss \in [Hosts -> HostScanStats]
    BY TypeParts DEF HostsGood
  <1>2. s \in HostScanStats /\ SameBooks(r, s)
    BY <1>1, AllowedTrynoType, AfterAllowedBooks
  <1>3. /\ hss' = [hss EXCEPT ![h] = t] /\ phase' = "expire"
        /\ cur' = [host |-> h, maxtries |-> allowedTryno(s),
                   mayincrease |-> s.tryno_mayincrease, rest |-> s.probes_outstanding]
    BY DEF VisitHost
  <1> HIDE DEF s
  <1>4. Good(s, {})
    BY <1>1, <1>2, GoodKept DEF SameBooks
  <1>5. /\ Good(t, {}) /\ t.probes_outstanding = s.probes_outstanding
        /\ t.probe_bench # <<>> => t.bench_tryno = allowedTryno(s)
    BY <1>2, <1>4, AfterBenchGood, BenchSpec
  <1> HIDE DEF t
  <1>6. HostsGood'
    BY <1>3, <1>5, WriteGood
  <1>7. hss'[h] = t
    BY <1>1, <1>3
  <1>8. /\ cur'.host = h /\ cur'.maxtries = allowedTryno(s)
        /\ cur'.rest = s.probes_outstanding
    BY <1>3
  <1>9. \A p \in s.probes_outstanding :
          ~p.retransmitted /\ p.pingseq = 0 => p.tryno <= allowedTryno(s)
    BY <1>4 DEF Good, ListInv, WithinAllowed
  <1> QED BY <1>3, <1>5, <1>6, <1>7, <1>8, <1>9 DEF CurOK

\* What an expiring probe does to its host: whoever else is on the list stays, and
\* the bench is the one it was or has the try number of those that may join it.
Expired(s, t, p) ==
    /\ Good(t, {})
    /\ s.probes_outstanding \ {p} \subseteq t.probes_outstanding
    /\ \/ t.probe_bench = s.probe_bench /\ t.bench_tryno = s.bench_tryno
       \/ t.bench_tryno = cur.maxtries

\* The inner loop of processData.
LEMMA ExpireGood ==
    ASSUME TypeInv, HostsGood, CurOK, NEW p \in cur.rest, NEW age \in Ages,
           ExpireProbe(p, age)
    PROVE  HostsGood' /\ CurOK'
  <1> DEFINE h == cur.host
             s == hss[h]
             m == moveProbeToBench(s, p)
  <1>1. cur # NoCur /\ h \in Hosts /\ p \in UltraProbe /\ cur.maxtries \in Int
        /\ cur \in [host: Hosts, maxtries: 0..TrynoCap,
                    mayincrease: BOOLEAN, rest: SUBSET UltraProbe]
    BY ScanAssumption DEF TypeInv, TypeOK, NoCur
  <1>2. /\ Sound(View(h)) /\ View(h) \in Views /\ Good(View(h).hss, {})
        /\ View(h).hss = s /\ s \in HostScanStats
        /\ IsFiniteSet(s.probes_outstanding) /\ Good(s, {})
    BY <1>1, ViewGood
  <1>3. /\ phase = "expire" /\ p \in s.probes_outstanding
        /\ cur.rest \subseteq s.probes_outstanding
        /\ \A q \in cur.rest : ~q.retransmitted /\ q.pingseq = 0 => q.tryno <= cur.maxtries
        /\ cur.mayincrease /\ s.probe_bench # <<>> => s.bench_tryno = cur.maxtries
    BY <1>1 DEF CurOK
  <1>4. cur' = [cur EXCEPT !.rest = @ \ {p}] /\ phase' = phase
    BY DEF ExpireProbe
  <1>5. \/ UNCHANGED <<hss, gstats>>
        \/ ~p.timedout /\ \E v \in markProbeTimedout(View(h), p) : Commit(h, v)
        \/ \E v \in ultrascan_host_probe_update(View(h), p, "down", FALSE) : Commit(h, v)
        \/ Commit(h, destroyOutstandingProbe(View(h), p))
        \/ /\ Waits(p) /\ cur.mayincrease /\ p.tryno >= cur.maxtries
           /\ Commit(h, [View(h) EXCEPT !.hss = moveProbeToBench(@, p)])
    BY Zenon DEF ExpireProbe
  <1>6. ASSUME NEW t, Expired(s, t, p), hss' = [hss EXCEPT ![h] = t]
        PROVE  HostsGood' /\ CurOK'
    <2>1. HostsGood'
      BY <1>1, <1>6, WriteGood DEF Expired
    <2>2. hss'[h] = t /\ hss \in [Hosts -> HostScanStats]
      BY <1>1, <1>6, TypeParts
    <2>3. /\ cur'.host = h /\ cur'.maxtries = cur.maxtries
          /\ cur'.mayincrease = cur.mayincrease /\ cur'.rest = cur.rest \ {p}
      BY <1>1, <1>4
    <2> HIDE DEF h, s
    <2>4. CurOK'
      BY <1>3, <1>4, <1>6, <2>2, <2>3 DEF CurOK, Expired
    <2> QED BY <2>1, <2>4
  <1>7. ASSUME NEW v, Destroyed(View(h), v, p), Commit(h, v)
        PROVE  HostsGood' /\ CurOK'
    <2>1. Good(v.hss, {})
      BY <1>2, <1>3, <1>7, DestroyedGood
    <2>2. Expired(s, v.hss, p)
      BY <1>2, <1>7, <2>1 DEF Destroyed, Books, Kept, Expired
    <2> QED BY <1>6, <1>7, <2>2 DEF Commit
  <1>8. CASE UNCHANGED <<hss, gstats>>
    <2>1. Expired(s, s, p)
      BY <1>2 DEF Expired
    <2>2. hss' = [hss EXCEPT ![h] = s]
      BY <1>1, <1>8, TypeParts
    <2> QED BY <1>6, <2>1, <2>2
  <1>9. CASE ~p.timedout /\ \E v \in markProbeTimedout(View(h), p) : Commit(h, v)
    <2>1. PICK v \in markProbeTimedout(View(h), p) : Commit(h, v)
      BY <1>9
    <2>2. Marked(View(h), v, p)
      BY <1>1, <1>2, MarkSpec
    <2>3. /\ Good(v.hss, {})
          /\ s.probes_outstanding \ {p} \subseteq v.hss.probes_outstanding
      <3> DEFINE u == View(h)
                 X == {}
      <3>1. /\ Sound(u) /\ Good(u.hss, X) /\ p \in u.hss.probes_outstanding
            /\ ~p.timedout /\ p \notin X /\ Marked(u, v, p) /\ u.hss = s
        BY <1>2, <1>3, <1>9, <2>2
      <3> HIDE DEF u, s, X
      <3>2. /\ Good(v.hss, X)
            /\ u.hss.probes_outstanding \ {p} \subseteq v.hss.probes_outstanding
        BY <3>1, MarkedGood
      <3> QED BY <3>1, <3>2 DEF X
    <2>4. Expired(s, v.hss, p)
      BY <1>2, <2>2, <2>3 DEF Marked, Books, Kept, Expired
    <2> QED BY <1>6, <2>1, <2>4 DEF Commit
  <1>10. CASE \E v \in ultrascan_host_probe_update(View(h), p, "down", FALSE) : Commit(h, v)
    <2>1. PICK v \in ultrascan_host_probe_update(View(h), p, "down", FALSE) : Commit(h, v)
      BY <1>10
    <2>2. Destroyed(View(h), v, p)
      BY <1>1, <1>2, HostUpdateSpec
    <2> QED BY <1>7, <2>1, <2>2
  <1>11. CASE Commit(h, destroyOutstandingProbe(View(h), p))
    BY <1>1, <1>2, <1>7, <1>11, DestroySpec
  <1>12. CASE /\ Waits(p) /\ cur.mayincrease /\ p.tryno >= cur.maxtries
              /\ Commit(h, [View(h) EXCEPT !.hss = moveProbeToBench(@, p)])
    <2>1. p \in Awaiting(s.probes_outstanding) /\ ~p.retransmitted /\ ~isPing(p)
      BY <1>3, <1>12 DEF Waits, Awaiting
    <2>2. p.tryno = cur.maxtries
      <3>1. p.pingseq = 0 /\ p.tryno \in Int
        BY <1>2, <1>3, <2>1, BookTypes DEF isPing
      <3> QED BY <1>1, <1>3, <1>12, <2>1, <3>1
    <2>3. Good(m, {})
      BY <1>2, <1>3, <1>12, <2>1, <2>2, MoveGood
    <2>4. /\ m.bench_tryno = (IF s.probe_bench = <<>> THEN p.tryno ELSE s.bench_tryno)
          /\ m.probes_outstanding = s.probes_outstanding \ {p}
      BY <1>2, MoveFields
    <2>5. hss' = [hss EXCEPT ![h] = m]
      <3>1. [View(h) EXCEPT !.hss = moveProbeToBench(@, p)].hss = m
        BY DEF View
      <3> QED BY <1>12, <3>1 DEF Commit
    <2> HIDE DEF m
    <2>6. Expired(s, m, p)
      BY <1>3, <1>12, <2>2, <2>3, <2>4 DEF Expired
    <2> QED BY <1>6, <2>5, <2>6
  <1> QED BY <1>5, <1>8, <1>9, <1>10, <1>11, <1>12

\* While no host is visited, none of the other steps matters to CurOK.
LEMMA CurIdle ==
    ASSUME CurOK, phase # "expire", cur' = cur
    PROVE  CurOK'
  BY DEF CurOK

\* What is left of a step's guard and of its effect on the loop.
LEMMA OtherPhases ==
    ASSUME NEW h \in Hosts,
           \/ HostPing(h) \/ Retransmit(h) \/ SendRetry(h) \/ SendNew(h)
           \/ PingAnswer(h) \/ PortAnswer(h) \/ DiscoveryAnswer(h) \/ ArpAnswer(h)
           \/ SelectAnswer(h) \/ NothingToRetransmit(h) \/ BeginRateLimitWait(h)
           \/ UnsolicitedReply(h) \/ RateLimitWaitOver(h) \/ HostClockExpires(h)
    PROVE  phase # "expire" /\ cur' = cur
  <1>1. \A S : Answered(h, S) => phase # "expire" /\ cur' = cur
    BY DEF Answered
  <1>2. CASE PingAnswer(h) \/ PortAnswer(h) \/ DiscoveryAnswer(h) \/ ArpAnswer(h)
    <2> HIDE DEF Answered
    <2>1. \E S : Answered(h, S)
      BY <1>2 DEF PingAnswer, PortAnswer, DiscoveryAnswer, ArpAnswer
    <2> QED BY <1>1, <2>1
  <1>3. CASE HostPing(h) \/ SendRetry(h) \/ SendNew(h)
    BY <1>3 DEF HostPing, SendRetry, SendNew
  <1>4. CASE Retransmit(h) \/ NothingToRetransmit(h) \/ BeginRateLimitWait(h)
    BY <1>4 DEF Retransmit, NothingToRetransmit, BeginRateLimitWait, MayRetransmit
  <1>5. CASE SelectAnswer(h) \/ UnsolicitedReply(h) \/ RateLimitWaitOver(h)
             \/ HostClockExpires(h)
    BY <1>5 DEF SelectAnswer, UnsolicitedReply, RateLimitWaitOver, HostClockExpires
  <1> QED BY <1>2, <1>3, <1>4, <1>5

BooksInv == TypeInv /\ HostsGood /\ CurOK

\* The books of a new host are in order.
LEMMA InitBooks == Init => BooksInv
  <1> SUFFICES ASSUME Init PROVE BooksInv
    OBVIOUS
  <1>1. TypeInv
    BY InitTyped
  <1>2. CurOK
    BY DEF Init, CurOK
  <1>3. ASSUME NEW h \in Hosts
        PROVE  Good(hss[h], {})
    <2>1. PICK pp \in StartPings : hss[h] = HostInit(pp)
      BY DEF Init
    <2> DEFINE s == hss[h]
    <2>2. /\ s.probes_outstanding = {} /\ s.num_probes_active = 0
          /\ s.num_probes_waiting_retransmit = 0
          /\ s.probe_bench = <<>> /\ s.retry_stack = <<>>
      BY <2>1 DEF HostInit
    <2> HIDE DEF s
    <2>3. Active({}) = {} /\ Awaiting({}) = {}
      BY DEF Active, Awaiting
    <2>4. Counted(s)
      BY <2>2, <2>3, FS_EmptySet DEF Counted
    <2>5. DOMAIN s.probe_bench = {} /\ DOMAIN s.retry_stack = {}
      BY <2>2
    <2>6. ListInv(s, {})
      BY <2>2, <2>5 DEF ListInv, Keyed, FlagsOK, Newest, PingsBelow, FreshUntried,
                        BenchParked, StackParked, Distinct, WithinAllowed
    <2> QED BY <2>4, <2>6 DEF Good, s
  <1> QED BY <1>1, <1>2, <1>3 DEF BooksInv, HostsGood

\* Every step of the loop keeps the books of every host in order.
LEMMA StepBooks == BooksInv /\ [Next]_vars => BooksInv'
  <1> SUFFICES ASSUME BooksInv, [Next]_vars PROVE HostsGood' /\ CurOK'
    BY StepTyped DEF BooksInv
  <1>1. TypeInv /\ HostsGood /\ CurOK
    BY DEF BooksInv
  <1>2. ASSUME NEW h \in Hosts, HostPing(h)
        PROVE  HostsGood' /\ CurOK'
    BY <1>1, <1>2, PingGood, OtherPhases, CurIdle DEF HostPing
  <1>3. ASSUME NEW h \in Hosts, Retransmit(h)
        PROVE  HostsGood' /\ CurOK'
    BY <1>1, <1>3, RetransmitGood, OtherPhases, CurIdle
  <1>4. ASSUME NEW h \in Hosts, SendRetry(h)
        PROVE  HostsGood' /\ CurOK'
    BY <1>1, <1>4, RetryStepGood, OtherPhases, CurIdle
  <1>5. ASSUME NEW h \in Hosts, SendNew(h)
        PROVE  HostsGood' /\ CurOK'
    BY <1>1, <1>5, NewGood, OtherPhases, CurIdle
  <1>6. ASSUME NEW h \in Hosts,
               PingAnswer(h) \/ PortAnswer(h) \/ DiscoveryAnswer(h) \/ ArpAnswer(h)
        PROVE  HostsGood' /\ CurOK'
    BY <1>1, <1>6, AnswersGood, OtherPhases, CurIdle
  <1>7. ASSUME NEW h \in Hosts, SelectAnswer(h)
        PROVE  HostsGood' /\ CurOK'
    BY <1>1, <1>7, SelectGood, OtherPhases, CurIdle
  <1>8. ASSUME NEW h \in Hosts,
               \/ NothingToRetransmit(h) \/ BeginRateLimitWait(h) \/ UnsolicitedReply(h)
               \/ RateLimitWaitOver(h) \/ HostClockExpires(h)
        PROVE  HostsGood' /\ CurOK'
    BY <1>1, <1>8, LightStepsGood, OtherPhases, CurIdle
  <1>9. ASSUME NEW h \in Hosts, VisitHost(h)
        PROVE  HostsGood' /\ CurOK'
    BY <1>1, <1>9, VisitGood
  <1>10. ASSUME NEW p \in cur.rest, NEW age \in Ages, ExpireProbe(p, age)
         PROVE  HostsGood' /\ CurOK'
    BY <1>1, <1>10, ExpireGood
  <1>11. ASSUME GlobalPing
         PROVE  HostsGood' /\ CurOK'
    <2>1. pinghost \in Hosts /\ SendPing(pinghost) /\ phase # "expire" /\ cur' = cur
      BY <1>1, <1>11, TypeParts DEF GlobalPing
    <2> QED BY <1>1, <2>1, PingGood, CurIdle
  <1>12. ASSUME EndPings \/ EndRetransmits \/ EndRetries \/ EndWait \/ EndRound
         PROVE  HostsGood' /\ CurOK'
    <2>1. hss' = hss /\ phase # "expire" /\ cur' = cur
      BY <1>12 DEF EndPings, EndRetransmits, EndRetries, EndWait, EndRound
    <2> QED BY <1>1, <2>1, CurIdle DEF HostsGood
  <1>13. ASSUME FinishHost
         PROVE  HostsGood' /\ CurOK'
    BY <1>1, <1>13 DEF FinishHost, HostsGood, CurOK
  <1>14. ASSUME EndNew
         PROVE  HostsGood' /\ CurOK'
    <2>1. phase # "expire" /\ cur' = cur
      BY <1>14 DEF EndNew
    <2> QED BY <1>1, <1>14, <2>1, EndNewGood, CurIdle
  <1>15. ASSUME StartProcess \/ FinishHosts
         PROVE  HostsGood' /\ CurOK'
    <2>1. removeCompletedHosts /\ cur' = cur /\ (phase # "expire" \/ cur = NoCur)
      BY <1>15 DEF StartProcess, FinishHosts
    <2> QED BY <1>1, <2>1, RemoveGood DEF CurOK
  <1>16. ASSUME ExpireGlobalPing
         PROVE  HostsGood' /\ CurOK'
    <2>1. phase # "expire" /\ cur' = cur
      BY <1>16 DEF ExpireGlobalPing
    <2> QED BY <1>1, <1>16, <2>1, GlobalPingExpiryGood, CurIdle
  <1>17. ASSUME UNCHANGED vars
         PROVE  HostsGood' /\ CurOK'
    BY <1>1, <1>17 DEF vars, HostsGood, CurOK
  <1> QED BY <1>2, <1>3, <1>4, <1>5, <1>6, <1>7, <1>8, <1>9, <1>10, <1>11, <1>12, <1>13,
             <1>14, <1>15, <1>16, <1>17 DEF Next, Terminating

\* The counters that destroyOutstandingProbe, markProbeTimedout, moveProbeToBench,
\* retransmitProbe and the send functions keep by hand beside a host's list of probes
\* equal what they count, for any number of hosts, ports and tries.
THEOREM CountersExact == Spec => []HostCountersExact
  <1>1. BooksInv => HostCountersExact
    BY DEF BooksInv, HostsGood, Good, Counted, HostCountersExact
  <1> QED BY <1>1, InitBooks, StepBooks, PTL DEF Spec

\* The assertions of moveProbeToBench and processData hold: no probe that waits is
\* past the allowed try number, and probes on the bench share theirs.
THEOREM BenchIsUniform == Spec => []BenchUniform
  <1>1. BooksInv => BenchUniform
    <2> SUFFICES ASSUME BooksInv, NEW h \in Hosts
                 PROVE  /\ \A p \in Awaiting(hss[h].probes_outstanding) :
                              p.tryno <= allowedTryno(hss[h])
                        /\ hss[h].probe_bench # <<>> =>
                              hss[h].bench_tryno <= allowedTryno(hss[h])
                        /\ cur.host = h /\ hss[h].probe_bench # <<>> /\ cur.mayincrease =>
                              hss[h].bench_tryno = cur.maxtries
      BY DEF BenchUniform
    <2>1. hss[h] \in HostScanStats /\ Good(hss[h], {}) /\ CurOK
      BY TypeParts DEF BooksInv, HostsGood
    <2>2. \A p \in Awaiting(hss[h].probes_outstanding) : p.tryno <= allowedTryno(hss[h])
      <3> SUFFICES ASSUME NEW p \in Awaiting(hss[h].probes_outstanding)
                   PROVE  p.tryno <= allowedTryno(hss[h])
        OBVIOUS
      <3>1. p \in hss[h].probes_outstanding /\ ~p.retransmitted /\ ~isPing(p)
        BY DEF Awaiting
      <3>2. p.pingseq = 0
        BY <2>1, <3>1, BookTypes DEF isPing
      <3> QED BY <2>1, <3>1, <3>2 DEF Good, ListInv, WithinAllowed
    <2>3. hss[h].probe_bench # <<>> => hss[h].bench_tryno <= allowedTryno(hss[h])
      BY <2>1 DEF Good, ListInv, WithinAllowed
    <2>4. cur.host = h => cur # NoCur
      BY UltraScanAssumption DEF NoCur
    <2> QED BY <2>1, <2>2, <2>3, <2>4 DEF CurOK
  <1> QED BY <1>1, InitBooks, StepBooks, PTL DEF Spec
=============================================================================
