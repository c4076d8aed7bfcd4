-------------------------- MODULE NsockCalm_proofs --------------------------
(***************************************************************************)
(* The event library counts the events of each iod right, so that deleting *)
(* an iod or the pool never ends the program, its lists and its heap are   *)
(* what its loops take them for, and the engine watches for exactly what   *)
(* some event waits for, for any clients whose handlers of cancelled       *)
(* events do not call the library.                                         *)
(*                                                                         *)
(* nevent_delete() calls the handler of an event whose struct is free      *)
(* already, from within nsock_iod_delete(), which has its place in a list  *)
(* meanwhile.  When such a handler calls the library no more, everything   *)
(* is as nsock_iod_delete() left it when the handler returns.              *)
(***************************************************************************)
EXTENDS Nsock_proofs

-----------------------------------------------------------------------------
(* nsock_iod_delete() and its place in a list.                              *)

IsCancel(f) == f.kind = "handler" /\ f.from = "cancel"

\* None of these calls ends events of the client's choice.
Quiet(q) == \A k \in DOMAIN q : ~IsCancel(q[k]) /\ q[k].kind # "delete"

\* Nothing runs inside the handler of a cancelled event, and only that handler inside
\* nsock_iod_delete().
Calm(u) ==
    /\ \A k \in DOMAIN u.stack :
          IsCancel(u.stack[k]) => k = Len(u.stack) /\ u.ev[u.stack[k].ev].done
    /\ \A k \in DOMAIN u.stack : u.stack[k].kind = "delete" =>
          \/ k = Len(u.stack)
          \/ k = Len(u.stack) - 1 /\ IsCancel(u.stack[k + 1])

\* The events of iod i that have not ended.
LiveOf(u, i) == {s \in Structs : Live(u, s) /\ u.ev[s].iod = i}

PendingExact(u) == \A i \in Iods : u.iod[i].pending = Cardinality(LiveOf(u, i))

\* The elements of L that q holds come no earlier than c, which is of iod i if there is one.
Ahead(E, q, c, L, i) ==
    \A m \in DOMAIN q : q[m] \in L => \E p \in DOMAIN q : q[p] = c /\ p <= m /\ E[c].iod = i

\* nsock_iod_delete() has ended the events of the lists before its place and will meet the others.
Walk(u, f) ==
    /\ \A k \in 1..3 : k > f.at => f.heads[k] = u.iod[f.iod].first[ListOrder[k]]
    /\ \A k \in 1..3 : k < f.at =>
          \A s \in ToSet(u.list[ListOrder[k]]) : s \notin LiveOf(u, f.iod)
    /\ f.cur = None \/ f.cur \in ToSet(u.list[ListOrder[f.at]])
    /\ Ahead(u.ev, u.list[ListOrder[f.at]], f.cur, LiveOf(u, f.iod), f.iod)

Walks(u) == \A k \in DOMAIN u.stack : u.stack[k].kind = "delete" => Walk(u, u.stack[k])

\* An event that is done leaves its list and the heap no later than its handler returns.
HeapLive(u) == \A s \in Structs : u.ev[s].done /\ (s \in u.expirables \/ Kept(u, s)) => Held(u, s)

\* What holds unless the client is Reentrant.
Settled(u) == PendingExact(u) /\ Calm(u) /\ Walks(u) /\ HeapLive(u)
Steady == Working /\ ~Reentrant /\ ~fatal /\ Settled(View)
Steadies == Settled(View') /\ ~fatal'

-----------------------------------------------------------------------------
(* One event list.                                                          *)

\* The names of the lists.
LEMMA ListOrderIs ==
    /\ \A k \in 1..3 : ListOrder[k] \in IoTypes /\ ListOrder[k] # "free" /\ ListOrder[k] # "timer"
    /\ \A j, k \in 1..3 : ListOrder[j] = ListOrder[k] => j = k
    /\ \A t \in IoTypes : \E k \in 1..3 : ListOrder[k] = t
  <1>1. ListOrder[1] = "connect" /\ ListOrder[2] = "read" /\ ListOrder[3] = "write" BY DEF ListOrder
  <1>2. \A k \in 1..3 : k = 1 \/ k = 2 \/ k = 3 OBVIOUS
  <1>3. 1 \in 1..3 /\ 2 \in 1..3 /\ 3 \in 1..3 OBVIOUS
  <1> QED BY <1>1, <1>2, <1>3 DEF IoTypes

\* A walk that begins at the first event of an iod meets them all.
LEMMA AheadFirst ==
    ASSUME NEW E, NEW q \in Seq(Structs), NEW i, NEW f, FirstIs(E, q, i, f),
           NEW L, \A s \in L : E[s].iod = i
    PROVE  Ahead(E, q, f, L, i) /\ (f = None \/ f \in ToSet(q))
  <1>1. CASE f = None /\ \A k \in DOMAIN q : E[q[k]].iod # i
    BY <1>1 DEF Ahead
  <1>2. CASE \E p \in DOMAIN q : q[p] = f /\ E[f].iod = i /\ \A k \in DOMAIN q : E[q[k]].iod = i => p <= k
    BY <1>2 DEF Ahead, ToSet
  <1> QED BY <1>1, <1>2 DEF FirstIs

\* A walk that goes past an element that is not in L misses none of L.
LEMMA AheadNext ==
    ASSUME NEW E, NEW q \in Seq(Structs), NEW p \in 1..Len(q), NEW i, NEW L,
           \A s \in L : E[s].iod = i, Distinct(q), Together(E, q), E[q[p]].iod = i, q[p] \notin L,
           Ahead(E, q, q[p], L, i)
    PROVE  Ahead(E, q, After(q, p), L, i)
  <1>1. DOMAIN q = 1..Len(q) /\ Len(q) \in Nat BY SeqIs
  <1> SUFFICES ASSUME NEW m \in DOMAIN q, q[m] \in L
               PROVE  \E j \in DOMAIN q : q[j] = After(q, p) /\ j <= m /\ E[After(q, p)].iod = i
    BY DEF Ahead
  <1>2. PICK j \in DOMAIN q : q[j] = q[p] /\ j <= m BY DEF Ahead
  <1>3. j = p BY <1>1, <1>2 DEF Distinct
  <1>4. m # p OBVIOUS
  <1>5. p + 1 \in DOMAIN q /\ p + 1 <= m /\ p <= p + 1 /\ p < Len(q) BY <1>1, <1>2, <1>3, <1>4
  <1>6. E[q[m]].iod = i OBVIOUS
  <1>7. E[q[p + 1]].iod = i BY <1>1, <1>5, <1>6 DEF Together
  <1> QED BY <1>5, <1>7 DEF After

\* A walk that takes the element it is at out of the list misses none of the others.
LEMMA AheadRemove ==
    ASSUME NEW E, NEW q \in Seq(Structs), NEW p \in 1..Len(q), NEW i, NEW L,
           \A s \in L : E[s].iod = i, Distinct(q), Together(E, q), E[q[p]].iod = i,
           Ahead(E, q, q[p], L, i)
    PROVE  Ahead(E, RemoveAt(q, p), After(q, p), L \ {q[p]}, i)
  <1> DEFINE r == RemoveAt(q, p)
             M == L \ {q[p]}
             d(k) == IF k < p THEN k ELSE k + 1
  <1>1. DOMAIN q = 1..Len(q) /\ Len(q) \in Nat BY SeqIs
  <1>2. /\ r \in Seq(Structs) /\ Len(r) = Len(q) - 1
        /\ \A k \in 1..(Len(q) - 1) : r[k] = IF k < p THEN q[k] ELSE q[k + 1]
    BY RemoveAtIs
  <1> HIDE DEF r
  <1>3. DOMAIN r = 1..(Len(q) - 1) BY <1>2, SeqIs
  <1>4. \A k \in DOMAIN r : d(k) \in DOMAIN q /\ r[k] = q[d(k)] /\ d(k) # p BY <1>1, <1>2, <1>3
  <1>5. Ahead(E, q, q[p], M, i) BY DEF Ahead
  <1>6. \A s \in M : E[s].iod = i OBVIOUS
  <1>7. Ahead(E, q, After(q, p), M, i) BY <1>5, <1>6, AheadNext
  <1>8. ASSUME NEW m \in DOMAIN r, r[m] \in M
        PROVE  \E j \in DOMAIN r : r[j] = After(q, p) /\ j <= m /\ E[After(q, p)].iod = i
    <2>1. d(m) \in DOMAIN q /\ q[d(m)] \in M BY <1>4, <1>8
    <2>2. PICK j \in DOMAIN q : q[j] = q[p] /\ j <= d(m) BY <2>1, <1>5 DEF Ahead
    <2>3. j = p BY <1>1, <2>2 DEF Distinct
    <2>4. p <= m /\ p < Len(q) /\ p \in DOMAIN r /\ d(p) = p + 1 BY <2>2, <2>3, <1>1, <1>3, <1>4
    <2>5. r[p] = After(q, p) BY <2>4, <1>4 DEF After
    <2>6. E[After(q, p)].iod = i BY <2>1, <1>7 DEF Ahead
    <2> QED BY <2>4, <2>5, <2>6
  <1> HIDE DEF M
  <1>9. Ahead(E, r, After(q, p), M, i) BY <1>8 DEF Ahead
  <1> QED BY <1>9 DEF r, M

\* A walk whose list and place stay.
LEMMA AheadKeep ==
    ASSUME NEW E, NEW F, NEW q, NEW c, NEW L, NEW M, NEW i, Ahead(E, q, c, L, i), M \subseteq L,
           \A s \in ToSet(q) : F[s].iod = E[s].iod
    PROVE  Ahead(F, q, c, M, i)
  <1> SUFFICES ASSUME NEW m \in DOMAIN q, q[m] \in M
               PROVE  \E p \in DOMAIN q : q[p] = c /\ p <= m /\ F[c].iod = i
    BY DEF Ahead
  <1>1. PICK p \in DOMAIN q : q[p] = c /\ p <= m /\ E[c].iod = i BY DEF Ahead
  <1>2. c \in ToSet(q) BY <1>1 DEF ToSet
  <1> QED BY <1>1, <1>2

-----------------------------------------------------------------------------
(* The counts of pending events.                                            *)

SameLive(u, v) == \A x \in Structs : (Live(v, x) <=> Live(u, x)) /\ v.ev[x].iod = u.ev[x].iod
SamePending(u, v) == \A i \in Iods : v.iod[i].pending = u.iod[i].pending

\* The structs other than s are live or not as before, and of the same iods.
SameLiveBut(u, v, s) ==
    \A x \in Structs : x # s => (Live(v, x) <=> Live(u, x)) /\ v.ev[x].iod = u.ev[x].iod

\* An iod has finitely many events.
LEMMA LiveFinite ==
    ASSUME NEW u, NEW i
    PROVE  IsFiniteSet(LiveOf(u, i)) /\ Cardinality(LiveOf(u, i)) \in Nat
  <1>1. IsFiniteSet(Structs) BY NsockAssumption, FS_Interval DEF Structs
  <1>2. LiveOf(u, i) \subseteq Structs BY DEF LiveOf
  <1> QED BY <1>1, <1>2, FS_Subset, FS_CardinalityType

\* No event begins or ends.
LEMMA PendingKeep ==
    ASSUME NEW u, NEW v, SameLive(u, v), SamePending(u, v)
    PROVE  /\ PendingExact(u) => PendingExact(v)
           /\ \A i : LiveOf(v, i) = LiveOf(u, i)
  <1>1. \A i : LiveOf(v, i) = LiveOf(u, i) BY DEF LiveOf, SameLive
  <1> QED BY <1>1 DEF PendingExact, SamePending

\* An event ends.
LEMMA PendingMinus ==
    ASSUME NEW u, NEW v, NEW s \in Structs, SameLiveBut(u, v, s), Live(u, s), ~Live(v, s),
           \A i \in Iods : v.iod[i].pending = IF u.ev[s].iod = i THEN u.iod[i].pending - 1
                                              ELSE u.iod[i].pending
    PROVE  /\ PendingExact(u) => PendingExact(v)
           /\ \A i : LiveOf(v, i) = LiveOf(u, i) \ {s}
  <1>1. \A i : LiveOf(v, i) = LiveOf(u, i) \ {s} BY DEF LiveOf, SameLiveBut
  <1>2. ASSUME PendingExact(u), NEW i \in Iods PROVE v.iod[i].pending = Cardinality(LiveOf(v, i))
    <2> DEFINE L == LiveOf(u, i)
    <2>1. IsFiniteSet(L) /\ u.iod[i].pending = Cardinality(L) BY <1>2, LiveFinite DEF PendingExact
    <2>2. u.ev[s].iod = i <=> s \in L BY DEF LiveOf
    <2>3. LiveOf(v, i) = L \ {s} BY <1>1
    <2> HIDE DEF L
    <2>4. CASE s \in L
      <3>1. Cardinality(L \ {s}) = Cardinality(L) - 1 BY <2>1, <2>4, FS_RemoveElement
      <3> QED BY <3>1, <2>1, <2>2, <2>3, <2>4
    <2>5. CASE s \notin L
      <3>1. L \ {s} = L BY <2>5
      <3> QED BY <3>1, <2>1, <2>2, <2>3, <2>5
    <2> QED BY <2>4, <2>5
  <1> QED BY <1>1, <1>2 DEF PendingExact

\* An event begins.
LEMMA PendingPlus ==
    ASSUME NEW u, NEW v, NEW s \in Structs, SameLiveBut(u, v, s), ~Live(u, s), Live(v, s),
           \A i \in Iods : v.iod[i].pending = IF v.ev[s].iod = i THEN u.iod[i].pending + 1
                                              ELSE u.iod[i].pending
    PROVE  PendingExact(u) => PendingExact(v)
  <1>1. ASSUME PendingExact(u), NEW i \in Iods PROVE v.iod[i].pending = Cardinality(LiveOf(v, i))
    <2> DEFINE L == LiveOf(u, i)
    <2>1. IsFiniteSet(L) /\ u.iod[i].pending = Cardinality(L) BY <1>1, LiveFinite DEF PendingExact
    <2>2. s \notin L BY DEF LiveOf
    <2>3. CASE v.ev[s].iod = i
      <3>1. LiveOf(v, i) = L \cup {s} BY <2>3 DEF LiveOf, SameLiveBut
      <3> HIDE DEF L
      <3>2. Cardinality(L \cup {s}) = Cardinality(L) + 1 BY <2>1, <2>2, FS_AddElement
      <3> QED BY <3>1, <3>2, <2>1, <2>3
    <2>4. CASE v.ev[s].iod # i
      <3>1. LiveOf(v, i) = L BY <2>4 DEF LiveOf, SameLiveBut
      <3> QED BY <3>1, <2>1, <2>4
    <2> QED BY <2>3, <2>4
  <1> QED BY <1>1 DEF PendingExact

\* An event is told at once that it failed: it begins and ends in one step.
LEMMA PendingBoth ==
    ASSUME NEW u, NEW v, NEW s \in Structs, SameLiveBut(u, v, s), ~Live(u, s), ~Live(v, s),
           SamePending(u, v)
    PROVE  PendingExact(u) => PendingExact(v)
  <1>1. \A i : LiveOf(v, i) = LiveOf(u, i) BY DEF LiveOf, SameLiveBut
  <1> QED BY <1>1 DEF PendingExact, SamePending
-----------------------------------------------------------------------------
(* The calls under way.                                                     *)

\* When nothing ends events, no walk is under way.
LEMMA QuietCalm ==
    ASSUME NEW u, Quiet(u.stack)
    PROVE  Calm(u) /\ Walks(u)
  <1> QED BY DEF Quiet, Calm, Walks

\* No call is under way, or only process_iod_events().
LEMMA QuietLoop ==
    ASSUME NEW q \in Seq(Frame), q = <<>> \/ (Len(q) = 1 /\ q[1].kind = "iod")
    PROVE  Quiet(q)
  <1>1. DOMAIN q = 1..Len(q) BY SeqIs
  <1>2. Len(q) = 0 \/ (Len(q) = 1 /\ q[1].kind = "iod") BY SeqIs
  <1>3. \A k \in DOMAIN q : k = 1 /\ q[1].kind = "iod" BY <1>1, <1>2
  <1> QED BY <1>3 DEF Quiet, IsCancel

\* The innermost call is a handler that may call the library.
LEMMA QuietCaller ==
    ASSUME NEW u \in Views, Calm(u), u.stack # <<>>, NEW h, h = u.stack[Len(u.stack)],
           h.kind = "handler", ~IsCancel(h)
    PROVE  Quiet(u.stack)
  <1>1. Len(u.stack) \in Nat /\ DOMAIN u.stack = 1..Len(u.stack) BY StackIs
  <1>2. \A k \in DOMAIN u.stack : ~IsCancel(u.stack[k]) BY DEF Calm
  <1>3. ASSUME NEW k \in DOMAIN u.stack, u.stack[k].kind = "delete" PROVE FALSE
    <2>1. k # Len(u.stack) BY <1>3
    <2>2. k = Len(u.stack) - 1 /\ IsCancel(u.stack[k + 1]) BY <1>3, <2>1 DEF Calm
    <2>3. k + 1 = Len(u.stack) BY <1>1, <2>2
    <2> QED BY <2>2, <2>3
  <1> QED BY <1>2, <1>3 DEF Quiet

\* The innermost call is nsock_iod_delete(): the others end no events.
LEMMA QuietBelow ==
    ASSUME NEW u \in Views, Calm(u), u.stack # <<>>, u.stack[Len(u.stack)].kind = "delete"
    PROVE  Quiet(Front(u.stack))
  <1> DEFINE n == Len(u.stack)
             q == Front(u.stack)
  <1>1. n \in Nat \ {0} /\ DOMAIN u.stack = 1..n /\ u.stack \in Seq(Frame) BY StackIs
  <1>2. q \in Seq(Frame) /\ Len(q) = n - 1 /\ \A k \in 1..(n - 1) : q[k] = u.stack[k]
    BY <1>1, FrontIs
  <1> HIDE DEF q
  <1>3. DOMAIN q = 1..(n - 1) BY <1>2, SeqIs
  <1>4. ~IsCancel(u.stack[n]) BY DEF IsCancel
  <1>5. ASSUME NEW k \in DOMAIN q PROVE ~IsCancel(q[k]) /\ q[k].kind # "delete"
    <2>1. k \in DOMAIN u.stack /\ q[k] = u.stack[k] /\ k # n /\ (k = n - 1 => k + 1 = n)
      BY <1>1, <1>2, <1>3
    <2>2. ~IsCancel(u.stack[k]) BY <2>1 DEF Calm
    <2>3. u.stack[k].kind # "delete" BY <2>1, <1>4 DEF Calm
    <2> QED BY <2>1, <2>2, <2>3
  <1>6. Quiet(q) BY <1>5 DEF Quiet
  <1> QED BY <1>6 DEF q

\* The handler of an event that ended otherwise is called.
LEMMA QuietAppend ==
    ASSUME NEW q \in Seq(Frame), NEW f \in Frame, Quiet(q), ~IsCancel(f), f.kind # "delete"
    PROVE  Quiet(Append(q, f))
  <1>1. DOMAIN q = 1..Len(q) /\ Len(q) \in Nat BY SeqIs
  <1> DEFINE r == Append(q, f)
  <1>2. /\ r \in Seq(Frame) /\ Len(r) = Len(q) + 1
        /\ \A k \in 1..(Len(q) + 1) : r[k] = IF k <= Len(q) THEN q[k] ELSE f
    BY AppendIs
  <1> HIDE DEF r
  <1>3. DOMAIN r = 1..(Len(q) + 1) BY <1>2, SeqIs
  <1>4. Quiet(r) BY <1>1, <1>2, <1>3 DEF Quiet
  <1> QED BY <1>4 DEF r

\* A handler returns.
LEMMA QuietFront ==
    ASSUME NEW q \in Seq(Frame), q # <<>>, Quiet(q)
    PROVE  Quiet(Front(q))
  <1> DEFINE r == Front(q)
  <1>1. DOMAIN q = 1..Len(q) /\ Len(q) \in Nat BY SeqIs
  <1>2. r \in Seq(Frame) /\ Len(r) = Len(q) - 1 /\ \A k \in 1..(Len(q) - 1) : r[k] = q[k] BY FrontIs
  <1> HIDE DEF r
  <1>3. DOMAIN r = 1..(Len(q) - 1) BY <1>2, SeqIs
  <1>4. Quiet(r) BY <1>1, <1>2, <1>3 DEF Quiet
  <1> QED BY <1>4 DEF r

\* The handler of a cancelled event is called.
LEMMA CalmCancel ==
    ASSUME NEW q \in Seq(Frame), Quiet(q), NEW f \in Frame, IsCancel(f),
           NEW v, v.stack = Append(q, f), v.ev[f.ev].done
    PROVE  Calm(v) /\ Walks(v)
  <1> DEFINE r == v.stack
  <1>1. DOMAIN q = 1..Len(q) /\ Len(q) \in Nat BY SeqIs
  <1>2. /\ r \in Seq(Frame) /\ Len(r) = Len(q) + 1
        /\ \A k \in 1..(Len(q) + 1) : r[k] = IF k <= Len(q) THEN q[k] ELSE f
    BY AppendIs
  <1> HIDE DEF r
  <1>3. DOMAIN r = 1..(Len(q) + 1) BY <1>2, SeqIs
  <1>4. f.kind # "delete" BY DEF IsCancel
  <1>5. \A k \in DOMAIN r : r[k].kind # "delete" BY <1>1, <1>2, <1>3, <1>4 DEF Quiet
  <1>6. \A k \in DOMAIN r : IsCancel(r[k]) => k = Len(r) /\ r[k] = f BY <1>1, <1>2, <1>3 DEF Quiet
  <1> QED BY <1>5, <1>6 DEF Calm, Walks, r

\* nsock_iod_delete() is called.
LEMMA CalmDelete ==
    ASSUME NEW q \in Seq(Frame), Quiet(q), NEW g \in Frame, g.kind = "delete",
           NEW v, v.stack = Append(q, g), Walk(v, g)
    PROVE  Calm(v) /\ Walks(v)
  <1> DEFINE r == v.stack
  <1>1. DOMAIN q = 1..Len(q) /\ Len(q) \in Nat BY SeqIs
  <1>2. /\ r \in Seq(Frame) /\ Len(r) = Len(q) + 1
        /\ \A k \in 1..(Len(q) + 1) : r[k] = IF k <= Len(q) THEN q[k] ELSE g
    BY AppendIs
  <1> HIDE DEF r
  <1>3. DOMAIN r = 1..(Len(q) + 1) BY <1>2, SeqIs
  <1>4. ~IsCancel(g) BY DEF IsCancel
  <1>5. \A k \in DOMAIN r : ~IsCancel(r[k]) BY <1>1, <1>2, <1>3, <1>4 DEF Quiet
  <1>6. \A k \in DOMAIN r : r[k].kind = "delete" => k = Len(r) /\ r[k] = g
    BY <1>1, <1>2, <1>3 DEF Quiet
  <1> QED BY <1>5, <1>6 DEF Calm, Walks, r

\* nsock_iod_delete() has called the handler of an event.
LEMMA CalmBoth ==
    ASSUME NEW q \in Seq(Frame), Quiet(q), NEW g \in Frame, g.kind = "delete",
           NEW f \in Frame, IsCancel(f),
           NEW v, v.stack = Append(Append(q, g), f), v.ev[f.ev].done, Walk(v, g)
    PROVE  Calm(v) /\ Walks(v)
  <1> DEFINE p == Append(q, g)
             r == v.stack
  <1>1. DOMAIN q = 1..Len(q) /\ Len(q) \in Nat BY SeqIs
  <1>2. /\ p \in Seq(Frame) /\ Len(p) = Len(q) + 1
        /\ \A k \in 1..(Len(q) + 1) : p[k] = IF k <= Len(q) THEN q[k] ELSE g
    BY AppendIs
  <1>3. r = Append(p, f) OBVIOUS
  <1> HIDE DEF p, r
  <1>4. /\ r \in Seq(Frame) /\ Len(r) = Len(p) + 1
        /\ \A k \in 1..(Len(p) + 1) : r[k] = IF k <= Len(p) THEN p[k] ELSE f
    BY <1>2, <1>3, AppendIs
  <1>5. DOMAIN r = 1..(Len(q) + 2) /\ Len(r) = Len(q) + 2 BY <1>1, <1>2, <1>4, SeqIs
  <1>6. \A k \in DOMAIN r : \/ k \in DOMAIN q /\ r[k] = q[k]
                            \/ k = Len(q) + 1 /\ r[k] = g
                            \/ k = Len(q) + 2 /\ r[k] = f
    BY <1>1, <1>2, <1>4, <1>5
  <1>7. ~IsCancel(g) /\ f.kind # "delete" BY DEF IsCancel
  <1>8. \A k \in DOMAIN r : IsCancel(r[k]) => k = Len(r) /\ r[k] = f BY <1>5, <1>6, <1>7 DEF Quiet
  <1>9. \A k \in DOMAIN r : r[k].kind = "delete" => k = Len(q) + 1 /\ r[k] = g
    BY <1>6, <1>7 DEF Quiet
  <1>10. Len(q) + 1 = Len(r) - 1 /\ Len(q) + 1 + 1 = Len(q) + 2 /\ Len(q) + 2 \in DOMAIN r
    BY <1>1, <1>5
  <1>11. r[Len(q) + 2] = f BY <1>1, <1>2, <1>4, <1>5
  <1>12. ASSUME NEW k \in DOMAIN r, r[k].kind = "delete"
         PROVE  k = Len(r) - 1 /\ IsCancel(r[k + 1])
    BY <1>9, <1>10, <1>11, <1>12
  <1> QED BY <1>8, <1>9, <1>12 DEF Calm, Walks, r

-----------------------------------------------------------------------------
(* What an operation leaves.                                                *)

\* No call that ends events is under way.
LEMMA SettledQuiet ==
    ASSUME NEW v, Quiet(v.stack), PendingExact(v), HeapLive(v)
    PROVE  Settled(v)
  <1> QED BY QuietCalm DEF Settled

\* The parts of a steady state.
LEMMA SteadyIs ==
    ASSUME Steady
    PROVE  /\ Working /\ ~Reentrant /\ ~fatal /\ Good(View, serials, allocated) /\ View \in Views
           /\ client \in Clients
           /\ PendingExact(View) /\ Calm(View) /\ Walks(View) /\ HeapLive(View)
  <1> QED BY WorkingIs DEF Steady, Settled, Working

\* The next state is what the step commits.
LEMMA SteadiesIs ==
    ASSUME Steady, NEW v \in Views, Commit(v), Settled(v), fatal' = fatal
    PROVE  Steadies
  <1>1. View' = v BY CommitIs
  <1> QED BY <1>1 DEF Steadies, Steady

\* The lists and the heap, when an event other than s is as before.
LEMMA HeapKeep ==
    ASSUME NEW u \in Views, NEW v, HeapLive(u), NEW s, Others(u, v, s),
           s \in v.expirables \/ Kept(v, s) => ~v.ev[s].done \/ Held(v, s),
           \A x \in Structs : x # s /\ Held(u, x) => Held(v, x)
    PROVE  HeapLive(v)
  <1> SUFFICES ASSUME NEW x \in Structs, v.ev[x].done, x \in v.expirables \/ Kept(v, x)
               PROVE  Held(v, x)
    BY DEF HeapLive
  <1>1. CASE x = s BY <1>1
  <1>2. CASE x # s
    <2>1. (x \in u.expirables \/ Kept(u, x)) /\ u.ev[x].done BY <1>2, KeptOthers DEF Others
    <2>2. Held(u, x) BY <2>1 DEF HeapLive
    <2> QED BY <1>2, <2>2
  <1> QED BY <1>1, <1>2

\* The lists and the heap, when no event ends and no handler returns.
LEMMA HeapSame ==
    ASSUME NEW u, NEW v, HeapLive(u), v.expirables = u.expirables,
           \A x \in Structs : v.ev[x].done => u.ev[x].done,
           \A x \in Structs : Kept(v, x) <=> Kept(u, x),
           \A x \in Structs : Held(u, x) => Held(v, x)
    PROVE  HeapLive(v)
  <1> QED BY DEF HeapLive

\* What event_dispatch_and_delete() leaves of the event that t has marked.
Ended(u, t, v, s, notify, from) ==
    /\ v \in Views /\ v.ev = t.ev /\ v.list = t.list /\ v.ev[s].done
    /\ \A i \in Iods : v.iod[i].first = t.iod[i].first
    /\ Call(t, s, from) \in Frame
    /\ v.stack = IF notify THEN Append(u.stack, Call(t, s, from)) ELSE u.stack
    /\ PendingExact(u) => PendingExact(v)
    /\ \A i : LiveOf(v, i) = LiveOf(u, i) \ {s}
    /\ HeapLive(u) => HeapLive(v)
    /\ \A x \in Structs : v.ev[x].iod = u.ev[x].iod /\ (x # s => v.ev[x] = u.ev[x])

\* event_dispatch_and_delete() of a live event: one event less of its iod.
LEMMA EndSettles ==
    ASSUME NEW u, NEW n, NEW a, Good(u, n, a), client \in Clients, NEW s \in Structs, Live(u, s),
           NEW t, Ready(u, t, s), SamePending(u, t), NEW notify \in BOOLEAN, NEW from \in Origins,
           CallIs(u, t, s, notify, from), s \in t.expirables => from = "iod",
           NEW v, v = event_dispatch_and_delete(t, s, notify, from)
    PROVE  Ended(u, t, v, s, notify, from)
  <1> DEFINE f == Call(t, s, from)
  <1>1. u \in Views /\ u.ev[s].id \in Ids /\ u.ev[s].iod \in Iods \cup {None} BY LiveIs DEF Good
  <1>2. /\ t \in Views /\ Others(u, t, s) /\ t.ev[s].id = u.ev[s].id /\ t.ev[s].iod = u.ev[s].iod
        /\ t.ev[s].done /\ t.stack = u.stack
    BY DEF Ready
  <1>3. ~notify => from = "cancel" BY DEF CallIs
  <1>4. PICK w \in {"told", "silent"} : w = IF notify THEN "told" ELSE "silent" OBVIOUS
  <1>5. f = Call(t, s, from) OBVIOUS
  <1> HIDE DEF f
  <1>6. /\ v \in Views /\ v.ev = t.ev /\ v.list = t.list /\ v.expirables = t.expirables
        /\ IodLess(t, v, s) /\ f \in Frame
        /\ v.stack = IF notify THEN Append(t.stack, f) ELSE t.stack
    <2>1. /\ t \in Views /\ t.ev[s].id \in Ids /\ t.ev[s].iod \in Iods \cup {None}
          /\ notify \/ (from = "cancel" /\ t.ev[s].done)
      BY <1>1, <1>2, <1>3
    <2>2. /\ v \in Views /\ v.ev = t.ev /\ v.list = t.list /\ v.expirables = t.expirables
          /\ v.outcome = [t.outcome EXCEPT ![t.ev[s].id] = w]
          /\ v.events_pending = t.events_pending - 1 /\ IodLess(t, v, s)
          /\ Call(t, s, from) \in Frame
          /\ v.stack = IF notify THEN Append(t.stack, Call(t, s, from)) ELSE t.stack
      BY <2>1, <1>4, DispatchIs
    <2> QED BY <2>2, <1>5
  <1>7. ~Live(v, s) /\ \A x \in Structs : x # s => (Live(v, x) <=> Live(u, x)) BY EndGood
  <1>8. f.kind = "handler" /\ f.ev = s /\ f.from = from BY <1>5 DEF Call
  <1>9. \A x \in Structs : v.ev[x].iod = u.ev[x].iod /\ (x # s => v.ev[x] = u.ev[x])
    BY <1>2, <1>6 DEF Others
  <1>10. \A x : Held(u, x) \/ (notify /\ from # "cancel" /\ x = s) => Held(v, x)
    <2>1. CASE notify
      <3>1. v.stack = Append(u.stack, f) BY <2>1, <1>2, <1>6
      <3> SUFFICES ASSUME NEW x, Held(u, x) \/ (from # "cancel" /\ x = s) PROVE Held(v, x) OBVIOUS
      <3>2. Held(v, x) <=> Held(u, x) \/ (f.kind = "handler" /\ f.from # "cancel" /\ f.ev = x)
        <4>1. u \in Views /\ v \in Views /\ f \in Frame BY <1>1, <1>6
        <4> QED BY <3>1, <4>1, HeldAppend
      <3> QED BY <3>2, <1>8
    <2>2. CASE ~notify
      <3>1. v.stack = u.stack BY <2>2, <1>2, <1>6
      <3> QED BY <3>1, <2>2 DEF Held, Holds
    <2> QED BY <2>1, <2>2
  <1>11. HeapLive(u) => HeapLive(v)
    <2>1. Others(u, v, s) BY <1>2, <1>6 DEF Others
    <2>2. Kept(v, s) <=> Kept(t, s) BY <1>6 DEF Kept
    <2>3. s \in v.expirables \/ Kept(v, s) => notify /\ from # "cancel" BY <2>2, <1>3, <1>6 DEF CallIs
    <2>4. s \in v.expirables \/ Kept(v, s) => Held(v, s) BY <2>3, <1>10
    <2> QED BY <2>1, <2>4, <1>1, <1>10, HeapKeep
  <1>12. SameLiveBut(u, v, s) BY <1>7, <1>9 DEF SameLiveBut
  <1>13. \A i \in Iods : v.iod[i].pending = IF u.ev[s].iod = i THEN u.iod[i].pending - 1 ELSE u.iod[i].pending
    BY <1>2, <1>6 DEF IodLess, SamePending
  <1>14. (PendingExact(u) => PendingExact(v)) /\ \A i : LiveOf(v, i) = LiveOf(u, i) \ {s}
    BY <1>7, <1>12, <1>13, PendingMinus
  <1>15. \A i \in Iods : v.iod[i].first = t.iod[i].first BY <1>6 DEF IodLess
  <1> QED BY <1>2, <1>5, <1>6, <1>9, <1>11, <1>14, <1>15 DEF Ended

\* The calls under way when the client calls the library.
LEMMA CallerQuiet ==
    ASSUME Steady, MayCall
    PROVE  Quiet(View.stack)
  <1>1. View \in Views /\ Calm(View) /\ View.stack = stack /\ Working BY SteadyIs, ViewFields
  <1>2. CASE stack = <<>>
    <2>1. View.stack \in Seq(Frame) BY <1>1, StackIs
    <2> QED BY <2>1, <1>1, <1>2, QuietLoop
  <1>3. CASE stack # <<>>
    <2>1. InHandler /\ (Reentrant \/ Top(View).from # "cancel") BY <1>3 DEF MayCall
    <2>2. Top(View).kind = "handler" /\ ~IsCancel(Top(View)) BY <2>1, SteadyIs DEF InHandler, IsCancel
    <2>3. Top(View) = View.stack[Len(View.stack)] BY <1>1, <1>3, TopIs
    <2> QED BY <2>2, <2>3, <1>1, <1>3, QuietCaller
  <1> QED BY <1>2, <1>3

\* Nothing is under way, or only process_iod_events().
LEMMA LoopQuiet ==
    ASSUME Steady, stack = <<>> \/ InProc
    PROVE  Quiet(View.stack)
  <1>1. View \in Views /\ View.stack = stack /\ Working BY SteadyIs, ViewFields
  <1>2. View.stack \in Seq(Frame) BY <1>1, StackIs
  <1>3. InProc => Len(View.stack) = 1 /\ View.stack[1].kind = "iod" BY <1>1, TopIs DEF InProc
  <1> QED BY <1>1, <1>2, <1>3, QuietLoop

-----------------------------------------------------------------------------
(* The client.                                                              *)

\* nsock_pool_add_event() changes no count of pending events.
LEMMA AddedPending ==
    ASSUME NEW u \in Views, NEW s \in Structs, Lists(u), Firsts(u), Heap(u), HasIod(u, s),
           \A t \in IoTypes \cup {"free"} : s \notin ToSet(u.list[t]),
           u.ev[s].type = "timer" => u.ev[s].timeout
    PROVE  SamePending(u, Added(u, s))
  <1>1. s \notin ToSet(u.list["free"]) OBVIOUS
  <1>2. Queued(u, s).iod = u.iod BY <1>1, QueuedIs
  <1>3. Touch(Queued(u, s), Wanting(u, s), s) BY <1>1, WantingIs
  <1>4. SameIods(Wanting(u, s), Added(u, s)) BY EnteredIs
  <1>5. \A i \in Iods : Wanting(u, s).iod[i].pending = Queued(u, s).iod[i].pending BY <1>3 DEF Touch
  <1>6. \A i \in Iods : Added(u, s).iod[i].pending = Wanting(u, s).iod[i].pending BY <1>4 DEF SameIods
  <1> QED BY <1>2, <1>5, <1>6 DEF SamePending

\* event_new() and nsock_pool_add_event().
LEMMA AddedSettles ==
    ASSUME Steady, MayCall, NEW type \in IoTypes \cup {"timer"}, NEW i \in Iods \cup {None},
           NEW timeout \in BOOLEAN, type = "timer" <=> i = None, type = "timer" => timeout,
           NEW new, new = event_new(type, i, timeout), NEW st,
           st = new.st \/ (i \in Iods /\ \E sd \in BOOLEAN : st = [new.st EXCEPT !.iod[i].sd = sd]),
           Request(new, Added(st, new.struct))
    PROVE  Steadies
  <1> DEFINE u == View
             s == new.struct
             e == Requested(type, i, timeout)
             b == IF new.fresh THEN allocated + 1 ELSE allocated
             x == Added(st, s)
  <1>1. /\ Good(u, serials, allocated) /\ client \in Clients /\ serials < MaxEvents
        /\ allocated <= serials /\ serials \in Nat /\ allocated \in Nat /\ u \in Views
        /\ PendingExact(u) /\ HeapLive(u) /\ serials + 1 \in Ids
    <2>1. serials < MaxEvents BY DEF Request
    <2>2. /\ serials \in 0..MaxEvents /\ allocated \in 0..serials /\ MaxEvents \in Nat
      BY SteadyIs, WorkingIs
    <2>3. serials + 1 \in Ids BY <2>1, <2>2 DEF Ids
    <2> QED BY <2>1, <2>2, <2>3, SteadyIs
  <1>2. b = IF new.fresh THEN allocated + 1 ELSE allocated OBVIOUS
  <1>3. Commit(x) /\ fatal' = fatal BY DEF Request
  <1> HIDE DEF b
  <1>4. /\ NewTo(u, new.st, s, e) /\ s <= b /\ b \in Nat /\ allocated <= b
        /\ IodMore(u, new.st, i)
    BY <1>1, <1>2, NewIs
  <1>5. e.id = serials + 1 /\ e.type = type /\ e.iod = i /\ ~e.done /\ e.timeout = timeout
    BY DEF Requested
  <1>6. Quiet(u.stack) /\ ~(Len(u.stack) = 1 /\ u.stack[1].kind = "iod")
    BY CallerQuiet, CallerIs, SteadyIs
  <1> HIDE DEF u, s, e, x
  <1>7. NewTo(u, st, s, e) /\ SamePending(new.st, st)
    <2>1. CASE st = new.st BY <2>1, <1>4 DEF SamePending
    <2>2. CASE i \in Iods /\ \E sd \in BOOLEAN : st = [new.st EXCEPT !.iod[i].sd = sd]
      <3>1. PICK sd \in BOOLEAN : st = [new.st EXCEPT !.iod[i].sd = sd] BY <2>2
      <3>2. NewTo(u, st, s, e) /\ \A j \in Iods : st.iod[j].pending = new.st.iod[j].pending
        BY <3>1, <2>2, <1>1, <1>4, NewSocket
      <3> QED BY <3>2 DEF SamePending
    <2> QED BY <2>1, <2>2
  <1>8. /\ st \in Views /\ st.ev[s] = e /\ s \in Structs /\ Lists(st) /\ Firsts(st) /\ Heap(st)
        /\ (\A t \in IoTypes \cup {"free"} : s \notin ToSet(st.list[t]))
        /\ Others(u, st, s) /\ ~Live(u, s)
        /\ st.outcome = [u.outcome EXCEPT ![serials + 1] = "pending"]
    BY <1>7 DEF NewTo
  <1>9. NewTo(u, st, s, st.ev[s]) BY <1>7, <1>8
  <1>10. HasIod(st, s) /\ (st.ev[s].type = "timer" => st.ev[s].timeout)
    BY <1>5, <1>8 DEF HasIod
  <1>11. Entered(st, x, s) /\ SamePending(st, x) BY <1>8, <1>10, EnteredIs, AddedPending DEF x
  <1>12. st.ev[s].id = serials + 1 /\ ~st.ev[s].done /\ (st.ev[s].type = "timer" => st.ev[s].iod = None)
    BY <1>5, <1>8
  <1>13. /\ Live(x, s) /\ x.stack = u.stack
         /\ \A y : Held(x, y) <=> Held(u, y)
         /\ \A y \in Structs : y # s => (Live(x, y) <=> Live(u, y))
    BY <1>1, <1>4, <1>6, <1>8, <1>9, <1>11, <1>12, RequestGood
  <1>14. Others(u, x, s) /\ x \in Views /\ ~x.ev[s].done /\ x.ev[s].iod = i
    BY <1>5, <1>8, <1>11, <1>12, OthersTrans DEF Entered
  <1>15. HeapLive(x) BY <1>1, <1>13, <1>14, HeapKeep
  <1>16. SameLiveBut(u, x, s) BY <1>13, <1>14 DEF SameLiveBut, Others
  <1>17. \A j \in Iods : x.iod[j].pending = IF x.ev[s].iod = j THEN u.iod[j].pending + 1
                                            ELSE u.iod[j].pending
    BY <1>4, <1>7, <1>11, <1>14 DEF SamePending, IodMore
  <1>18. PendingExact(x) BY <1>1, <1>8, <1>13, <1>16, <1>17, PendingPlus
  <1>19. Settled(x) BY <1>6, <1>13, <1>15, <1>18, SettledQuiet
  <1> QED BY <1>3, <1>14, <1>19, SteadiesIs

\* nsock_read(), nsock_write() and nsock_connect_*().
LEMMA StartIoSettles ==
    ASSUME Steady, NEW type \in IoTypes, NEW i \in Iods, NEW timeout \in client.timeouts,
           StartIo(type, i, timeout)
    PROVE  Steadies
  <1> DEFINE new == event_new(type, i, timeout)
             st == IF type = "connect" THEN [new.st EXCEPT !.iod[i].sd = TRUE] ELSE new.st
  <1>1. MayCall /\ Request(new, Added(st, new.struct)) BY DEF StartIo
  <1>2. timeout \in BOOLEAN
    <2>1. client \in ClientType BY SteadyIs, NoIod
    <2> QED BY <2>1 DEF ClientType
  <1>3. type # "timer" /\ i # None BY SteadyIs, NoIod DEF IoTypes
  <1>4. new = event_new(type, i, timeout) OBVIOUS
  <1>5. st = new.st \/ (i \in Iods /\ \E sd \in BOOLEAN : st = [new.st EXCEPT !.iod[i].sd = sd])
    <2> HIDE DEF new
    <2>1. CASE type = "connect" BY <2>1
    <2>2. CASE type # "connect" BY <2>2
    <2> QED BY <2>1, <2>2
  <1> HIDE DEF new, st
  <1> QED BY <1>1, <1>2, <1>3, <1>4, <1>5, AddedSettles

\* nsock_timer_create().
LEMMA TimerSettles ==
    ASSUME Steady, nsock_timer_create
    PROVE  Steadies
  <1> DEFINE new == event_new("timer", None, TRUE)
             st == new.st
  <1>1. MayCall /\ Request(new, Added(st, new.struct)) BY DEF nsock_timer_create
  <1>2. PICK type \in IoTypes \cup {"timer"}, i \in Iods \cup {None}, timeout \in BOOLEAN :
           type = "timer" /\ i = None /\ timeout = TRUE
    OBVIOUS
  <1>3. new = event_new(type, i, timeout) BY <1>2
  <1>4. st = new.st OBVIOUS
  <1> HIDE DEF new, st
  <1> QED BY <1>1, <1>2, <1>3, <1>4, AddedSettles

\* A connect that fails at once: its handler may call the library.
LEMMA ConnectFailsSettles ==
    ASSUME Steady, NEW i \in Iods, NEW sd \in BOOLEAN, ConnectFails(i, sd)
    PROVE  Steadies
  <1> DEFINE u == View
             new == event_new("connect", i, FALSE)
             s == new.struct
             st == [new.st EXCEPT !.iod[i].sd = sd]
             e == Requested("connect", i, FALSE)
             b == IF new.fresh THEN allocated + 1 ELSE allocated
             x == Failed(st, s)
  <1>1. MayCall /\ Request(new, x) BY DEF ConnectFails, Failed
  <1>2. /\ Good(u, serials, allocated) /\ client \in Clients /\ serials < MaxEvents
        /\ allocated <= serials /\ serials \in Nat /\ allocated \in Nat /\ u \in Views
        /\ PendingExact(u) /\ HeapLive(u) /\ serials + 1 \in Ids
    <2>1. serials < MaxEvents BY <1>1 DEF Request
    <2>2. /\ serials \in 0..MaxEvents /\ allocated \in 0..serials /\ MaxEvents \in Nat
      BY SteadyIs, WorkingIs
    <2>3. serials + 1 \in Ids BY <2>1, <2>2 DEF Ids
    <2> QED BY <2>1, <2>2, <2>3, SteadyIs
  <1>3. b = IF new.fresh THEN allocated + 1 ELSE allocated OBVIOUS
  <1>4. new = event_new("connect", i, FALSE) OBVIOUS
  <1> HIDE DEF new
  <1>5. Commit(x) /\ fatal' = fatal BY <1>1 DEF Request
  <1> HIDE DEF b
  <1>6. /\ NewTo(u, new.st, s, e) /\ s <= b /\ b \in Nat /\ allocated <= b
        /\ IodMore(u, new.st, i)
    <2>1. PICK type \in IoTypes \cup {"timer"}, j \in Iods \cup {None}, timeout \in BOOLEAN :
             type = "connect" /\ j = i /\ timeout = FALSE
      BY DEF IoTypes
    <2>2. new = event_new(type, j, timeout) /\ e = Requested(type, j, timeout) BY <2>1, <1>4
    <2> HIDE DEF e
    <2>3. /\ NewTo(u, new.st, s, e) /\ s <= b /\ b \in Nat /\ allocated <= b
          /\ IodMore(u, new.st, j)
      BY <2>2, <1>2, <1>3, NewIs
    <2> QED BY <2>1, <2>3
  <1>7. e.id = serials + 1 /\ e.type = "connect" /\ e.iod = i BY DEF Requested
  <1>8. x = Failed(st, s) /\ st = [new.st EXCEPT !.iod[i].sd = sd] OBVIOUS
  <1>9. Quiet(u.stack) /\ ~(Len(u.stack) = 1 /\ u.stack[1].kind = "iod")
    BY <1>1, CallerQuiet, CallerIs, SteadyIs
  <1> HIDE DEF u, s, e, x, st
  <1>10. NewTo(u, st, s, e) /\ \A j \in Iods : st.iod[j].pending = new.st.iod[j].pending
    BY <1>2, <1>6, <1>8, NewSocket
  <1>11. /\ st \in Views /\ st.ev[s] = e /\ s \in Structs /\ ~Live(u, s)
         /\ st.outcome = [u.outcome EXCEPT ![serials + 1] = "pending"]
    BY <1>10 DEF NewTo
  <1>12. NewTo(u, st, s, st.ev[s]) BY <1>10, <1>11
  <1>13. st.ev[s].id = serials + 1 /\ st.ev[s].type \in IoTypes /\ st.ev[s].iod = i
    BY <1>7, <1>11 DEF IoTypes
  <1>14. /\ ~Live(x, s) /\ \A y \in Structs : y # s => (Live(x, y) <=> Live(u, y))
         /\ Others(u, x, s) /\ s \notin x.expirables
         /\ \E f \in HandlerFrame : f.from = "add" /\ x.stack = Append(u.stack, f)
         /\ \A y : Held(x, y) <=> Held(u, y) \/ y = s
         /\ \A j \in Iods : x.iod[j].pending = IF i = j THEN st.iod[j].pending - 1
                                               ELSE st.iod[j].pending
    <2>1. x = Failed(st, s) BY <1>8
    <2>2. Good(u, serials, allocated) /\ client \in Clients BY <1>2
    <2>3. s \in Structs /\ b \in Nat /\ allocated <= b /\ s <= b BY <1>6, <1>11
    <2>4. st.outcome = [u.outcome EXCEPT ![serials + 1] = "pending"] BY <1>11
    <2>5. st.ev[s].iod \in Iods BY <1>13
    <2>6. FailedTo(u, st, x, s)
      BY <2>1, <2>2, <2>3, <2>4, <2>5, <1>2, <1>9, <1>12, <1>13, FailGood
    <2> QED BY <2>6, <1>13 DEF FailedTo
  <1>15. PICK f \in HandlerFrame : f.from = "add" /\ x.stack = Append(u.stack, f) BY <1>14
  <1>16. x \in Views BY <1>14 DEF Others
  <1>17. Quiet(x.stack)
    <2>1. f \in Frame /\ ~IsCancel(f) /\ f.kind # "delete" BY <1>15 DEF Frame, HandlerFrame, IsCancel
    <2>2. u.stack \in Seq(Frame) BY <1>2, StackIs
    <2> QED BY <2>1, <2>2, <1>9, <1>15, QuietAppend
  <1>18. HeapLive(x) BY <1>2, <1>14, HeapKeep
  <1>19. SameLiveBut(u, x, s) BY <1>14 DEF SameLiveBut, Others
  <1>20. SamePending(u, x)
    <2>1. ASSUME NEW j \in Iods PROVE x.iod[j].pending = u.iod[j].pending
      <3>1. u.iod[j].pending \in Int BY <1>2, IodIs
      <3>2. st.iod[j].pending = IF i = j THEN u.iod[j].pending + 1 ELSE u.iod[j].pending
        BY <1>6, <1>10 DEF IodMore
      <3>3. x.iod[j].pending = IF i = j THEN st.iod[j].pending - 1 ELSE st.iod[j].pending BY <1>14
      <3> QED BY <3>1, <3>2, <3>3
    <2> QED BY <2>1 DEF SamePending
  <1>21. PendingExact(x) BY <1>2, <1>11, <1>14, <1>19, <1>20, PendingBoth
  <1>22. Settled(x) BY <1>17, <1>18, <1>21, SettledQuiet
  <1> QED BY <1>5, <1>16, <1>22, SteadiesIs

\* nevent_delete() of a live event.
LEMMA CancelEnds ==
    ASSUME NEW u, NEW n, NEW a, Good(u, n, a), client \in Clients, NEW s \in Structs, Live(u, s),
           ~u.ev[s].done, NEW notify \in BOOLEAN, ~(Len(u.stack) = 1 /\ u.stack[1].kind = "iod")
    PROVE  Ended(u, Cancelled(u, s), nevent_delete(u, s, notify), s, notify, "cancel")
  <1> DEFINE t == Cancelled(u, s)
             v == nevent_delete(u, s, notify)
  <1>1. /\ Ready(u, t, s) /\ ~Kept(t, s) /\ Touch(u, Done(u, s, "CANCELLED"), s)
        /\ SameIods(Done(u, s, "CANCELLED"), t) /\ t.expirables = u.expirables \ {s}
    BY CancelledIs
  <1>2. v = event_dispatch_and_delete(t, s, notify, "cancel") BY DeleteIs
  <1> HIDE DEF t, v
  <1>3. SamePending(u, t) BY <1>1 DEF Touch, SameIods, SamePending
  <1>4. CallIs(u, t, s, notify, "cancel") BY <1>1 DEF CallIs
  <1>5. PICK from \in Origins : from = "cancel" BY DEF Origins
  <1>6. Ended(u, t, v, s, notify, from)
    <2>1. CallIs(u, t, s, notify, from) /\ v = event_dispatch_and_delete(t, s, notify, from)
      BY <1>2, <1>4, <1>5
    <2>2. s \in t.expirables => from = "iod" BY <1>1
    <2> QED BY <2>1, <2>2, <1>1, <1>3, EndSettles
  <1> QED BY <1>5, <1>6 DEF t, v

\* nsock_event_cancel(): the handler it calls does not call the library.
LEMMA CancelSettles ==
    ASSUME Steady, NEW id \in Ids, NEW notify \in BOOLEAN, nsock_event_cancel(id, notify)
    PROVE  Steadies
  <1>1. MayCall /\ fatal' = fatal BY DEF nsock_event_cancel
  <1>2. PICK s \in Found(id) : ~ev[s].done /\ Commit(nevent_delete(View, s, notify))
    BY DEF nsock_event_cancel
  <1> DEFINE u == View
             v == nevent_delete(u, s, notify)
             t == Cancelled(u, s)
             f == Call(t, s, "cancel")
  <1>3. s \in Structs /\ ~u.ev[s].done BY <1>2, ViewFields DEF Found
  <1>4. Good(u, serials, allocated) /\ client \in Clients /\ u \in Views /\ PendingExact(u) /\ HeapLive(u)
    BY SteadyIs
  <1>5. Live(u, s) BY <1>3, <1>4 DEF Good, Events
  <1>6. Quiet(u.stack) /\ ~(Len(u.stack) = 1 /\ u.stack[1].kind = "iod")
    BY <1>1, CallerQuiet, CallerIs, SteadyIs
  <1>7. Commit(v) BY <1>2
  <1> HIDE DEF u
  <1>8. Ended(u, t, v, s, notify, "cancel") BY <1>3, <1>4, <1>5, <1>6, CancelEnds
  <1>9. f.ev = s /\ IsCancel(f) BY DEF Call, IsCancel
  <1> HIDE DEF v, t, f
  <1>10. /\ v \in Views /\ v.ev[s].done /\ f \in Frame /\ PendingExact(v) /\ HeapLive(v)
         /\ v.stack = IF notify THEN Append(u.stack, f) ELSE u.stack
    BY <1>4, <1>8 DEF Ended, f
  <1>11. u.stack \in Seq(Frame) BY <1>4, StackIs
  <1>12. CASE notify
    <2>1. v.stack = Append(u.stack, f) /\ v.ev[f.ev].done BY <1>9, <1>10, <1>12
    <2>2. Calm(v) /\ Walks(v) BY <2>1, <1>6, <1>9, <1>10, <1>11, CalmCancel
    <2> QED BY <2>2, <1>1, <1>7, <1>10, SteadiesIs DEF Settled
  <1>13. CASE ~notify
    <2>1. Settled(v) BY <1>6, <1>10, <1>13, SettledQuiet
    <2> QED BY <2>1, <1>1, <1>7, <1>10, SteadiesIs
  <1> QED BY <1>12, <1>13

-----------------------------------------------------------------------------
(* nsock_iod_delete().                                                      *)

\* The parts of the state that the counts and the lists depend on.
SameParts(u, v) ==
    /\ v.ev = u.ev /\ v.list = u.list /\ v.expirables = u.expirables
    /\ \A i \in Iods : v.iod[i].pending = u.iod[i].pending /\ v.iod[i].first = u.iod[i].first

\* Nothing but the calls under way changes, and no event's handler among them.
LEMMA PartsKeep ==
    ASSUME NEW u, NEW v, SameParts(u, v), \A x : Held(v, x) <=> Held(u, x)
    PROVE  /\ PendingExact(u) => PendingExact(v)
           /\ \A i : LiveOf(v, i) = LiveOf(u, i)
           /\ HeapLive(u) => HeapLive(v)
  <1>1. \A x \in Structs : Kept(v, x) <=> Kept(u, x) BY DEF Kept, SameParts
  <1>2. SameLive(u, v) BY <1>1 DEF SameLive, Live, SameParts
  <1>3. SamePending(u, v) BY DEF SameParts, SamePending
  <1>4. HeapLive(u) => HeapLive(v) BY <1>1, HeapSame DEF SameParts
  <1> QED BY <1>2, <1>3, <1>4, PendingKeep

\* A new stack.
LEMMA StackParts ==
    ASSUME NEW u \in Views, NEW q, NEW v, v = [u EXCEPT !.stack = q]
    PROVE  SameParts(u, v) /\ v.stack = q /\ v.iod = u.iod
  <1> QED BY DEF SameParts, Views

\* What nsock_iod_delete() leaves of an iod is its lists and its count.
LEMMA DeletedParts ==
    ASSUME NEW u \in Views, NEW i \in Iods
    PROVE  /\ SameParts(u, Deleted(u, i)) /\ Deleted(u, i).stack = u.stack
           /\ \A x : Held(Deleted(u, i), x) <=> Held(u, x)
  <1> DEFINE r == [u.iod[i] EXCEPT !.state = "deleted", !.sd = FALSE, !.ssl = FALSE,
                      !.registered = FALSE, !.count = [b \in Bits |-> 0], !.watched = {}]
             d == [u.iod EXCEPT ![i] = r]
             v == [u EXCEPT !.iod = d]
  <1>1. Deleted(u, i) = v BY Zenon DEF Deleted
  <1>2. r.pending = u.iod[i].pending /\ r.first = u.iod[i].first
    <2>1. u.iod[i] \in IodShape BY IodIs
    <2> QED BY <2>1 DEF IodShape
  <1> HIDE DEF r
  <1>3. \A j \in Iods : d[j].pending = u.iod[j].pending /\ d[j].first = u.iod[j].first
    <2>1. u.iod \in [Iods -> IodShape] BY ViewIs
    <2> QED BY <2>1, <1>2
  <1> HIDE DEF d
  <1>4. /\ v.ev = u.ev /\ v.list = u.list /\ v.expirables = u.expirables
        /\ v.stack = u.stack /\ v.iod = d
    BY DEF Views
  <1> HIDE DEF v
  <1>5. SameParts(u, v) BY <1>3, <1>4 DEF SameParts
  <1>6. \A x : Held(v, x) <=> Held(u, x) BY <1>4 DEF Held, Holds
  <1> QED BY <1>1, <1>4, <1>5, <1>6

\* The first event of an iod is the head of its walk of a list.
LEMMA WalkBegins ==
    ASSUME NEW u \in Views, Firsts(u), NEW i \in Iods, NEW t \in IoTypes, NEW c, c = u.iod[i].first[t]
    PROVE  /\ Ahead(u.ev, u.list[t], c, LiveOf(u, i), i)
           /\ c = None \/ c \in ToSet(u.list[t])
  <1> DEFINE q == u.list[t]
             L == LiveOf(u, i)
  <1>1. q \in Seq(Structs) BY ViewIs
  <1>2. FirstIs(u.ev, q, i, c) BY DEF Firsts
  <1>3. \A s \in L : u.ev[s].iod = i BY DEF LiveOf
  <1> HIDE DEF q, L
  <1>4. Ahead(u.ev, q, c, L, i) /\ (c = None \/ c \in ToSet(q)) BY <1>1, <1>2, <1>3, AheadFirst
  <1> QED BY <1>4 DEF q, L

\* When the walk of a list has passed the events of its iod, none of them is live.
LEMMA WalkPassed ==
    ASSUME NEW u, NEW q \in Seq(Structs), NEW c, NEW L, NEW i, Ahead(u.ev, q, c, L, i),
           c = None \/ u.ev[c].iod # i
    PROVE  \A s \in ToSet(q) : s \notin L
  <1> SUFFICES ASSUME NEW s \in ToSet(q), s \in L PROVE FALSE OBVIOUS
  <1>1. PICK m \in DOMAIN q : q[m] = s BY DEF ToSet
  <1>2. PICK p \in DOMAIN q : q[p] = c /\ u.ev[c].iod = i BY <1>1 DEF Ahead
  <1>3. c \in Structs BY <1>2, SeqIs
  <1>4. c # None BY <1>3 DEF Structs, None
  <1> QED BY <1>2, <1>4

\* nsock_iod_delete() is called.
LEMMA IodDeleteSettles ==
    ASSUME Steady, NEW i \in Iods, NEW notify \in BOOLEAN, nsock_iod_delete(i, notify)
    PROVE  Steadies
  <1> DEFINE u == View
             h == [k \in 1..3 |-> iod[i].first[ListOrder[k]]]
             f == [kind |-> "delete", iod |-> i, notify |-> notify, at |-> 1,
                   heads |-> h, cur |-> iod[i].first["connect"]]
             v == IF iod[i].pending = 0 THEN Deleted(u, i) ELSE Push(u, f)
  <1>1. MayCall /\ Commit(v) /\ fatal' = fatal BY DEF nsock_iod_delete
  <1>2. /\ Good(u, serials, allocated) /\ u \in Views /\ PendingExact(u) /\ HeapLive(u) /\ Firsts(u)
        /\ u.iod = iod
    BY SteadyIs, ViewFields DEF Good
  <1>3. Quiet(u.stack) /\ ~(Len(u.stack) = 1 /\ u.stack[1].kind = "iod")
    BY <1>1, CallerQuiet, CallerIs, SteadyIs
  <1>4. f \in Frame /\ f.kind = "delete" /\ f.iod = i /\ f.at = 1 /\ f.heads = h
        /\ f.cur = u.iod[i].first[ListOrder[1]]
    <2>1. iod[i].first \in [IoTypes -> Structs \cup {None}] BY <1>2, IodIs
    <2>2. \A k \in 1..3 : ListOrder[k] \in IoTypes BY ListOrderIs
    <2>3. h \in [1..3 -> Structs \cup {None}] BY <2>1, <2>2
    <2>4. iod[i].first["connect"] \in Structs \cup {None} BY <2>1 DEF IoTypes
    <2>5. 1 \in 1..3 OBVIOUS
    <2>6. ListOrder[1] = "connect" BY DEF ListOrder
    <2> DEFINE c == iod[i].first["connect"]
    <2> HIDE DEF h, c
    <2>7. c \in Structs \cup {None} BY <2>4 DEF c
    <2>8. [kind |-> "delete", iod |-> i, notify |-> notify, at |-> 1, heads |-> h, cur |-> c] \in DeleteFrame
      BY <2>3, <2>5, <2>7 DEF DeleteFrame
    <2>9. f = [kind |-> "delete", iod |-> i, notify |-> notify, at |-> 1, heads |-> h, cur |-> c]
      BY DEF c
    <2> HIDE DEF f
    <2> QED BY <2>6, <2>8, <2>9, <1>2 DEF c, Frame
  <1> HIDE DEF f
  <1>5. CASE iod[i].pending = 0
    <2>1. Commit(Deleted(u, i)) BY <1>1, <1>5
    <2> HIDE DEF u, v
    <2>2. Deleted(u, i) \in Views BY <1>2, DeletedIs DEF Good
    <2>3. Settled(Deleted(u, i)) BY <1>2, <1>3, DeletedParts, PartsKeep, SettledQuiet
    <2> QED BY <2>1, <2>2, <2>3, <1>1, SteadiesIs
  <1>6. CASE iod[i].pending # 0
    <2> DEFINE w == Push(u, f)
    <2>1. Commit(w) BY <1>1, <1>6
    <2>2. \A k \in 1..3 : h[k] = u.iod[i].first[ListOrder[k]] BY <1>2
    <2> HIDE DEF u, v, h
    <2>3. Good(w, serials, allocated) /\ (\A x : Held(w, x) <=> Held(u, x))
          /\ w = [u EXCEPT !.stack = Append(u.stack, f)]
      BY <1>2, <1>3, <1>4, PushGood
    <2> HIDE DEF w
    <2>4. SameParts(u, w) /\ w.stack = Append(u.stack, f) /\ w.iod = u.iod /\ w \in Views
      <3>1. w \in Views BY <2>3 DEF Good
      <3> DEFINE q == Append(u.stack, f)
      <3>2. w = [u EXCEPT !.stack = q] BY <2>3
      <3> HIDE DEF q
      <3>3. SameParts(u, w) /\ w.stack = q /\ w.iod = u.iod BY <3>2, <1>2, StackParts
      <3> QED BY <3>1, <3>3 DEF q
    <2>5. PendingExact(w) /\ HeapLive(w) /\ \A j : LiveOf(w, j) = LiveOf(u, j)
      BY <2>3, <2>4, <1>2, PartsKeep
    <2>6. Walk(w, f)
      <3> DEFINE t == ListOrder[1]
                 c == f.cur
      <3>1. t \in IoTypes /\ c = u.iod[i].first[t] BY <1>4, ListOrderIs
      <3> HIDE DEF t, c
      <3>2. /\ Ahead(u.ev, u.list[t], c, LiveOf(u, i), i)
            /\ c = None \/ c \in ToSet(u.list[t])
        BY <3>1, <1>2, WalkBegins
      <3>3. w.ev = u.ev /\ w.list = u.list BY <2>4 DEF SameParts
      <3>4. \A k \in 1..3 : ~(k < 1) OBVIOUS
      <3> QED BY <3>2, <3>3, <3>4, <2>2, <2>4, <2>5, <1>4 DEF Walk, t, c
    <2>7. u.stack \in Seq(Frame) BY <1>2, StackIs
    <2>8. Calm(w) /\ Walks(w) BY <2>4, <2>6, <2>7, <1>3, <1>4, CalmDelete
    <2> QED BY <2>1, <2>4, <2>5, <2>8, <1>1, SteadiesIs DEF Settled
  <1> QED BY <1>5, <1>6

\* Where nsock_iod_delete() is.
LEMMA DeleteAt ==
    ASSUME Steady, stack # <<>>, Top(View).kind = "delete", NEW f, f = Top(View)
    PROVE  /\ f \in DeleteFrame /\ f.iod \in Iods /\ f.at \in 1..3 /\ f.notify \in BOOLEAN
           /\ f.cur \in Structs \cup {None} /\ f.heads \in [1..3 -> Structs \cup {None}]
           /\ Walk(View, f) /\ Quiet(Front(View.stack)) /\ Front(View.stack) \in Seq(Frame)
           /\ View.stack # <<>> /\ View.stack[Len(View.stack)] = f
           /\ OthersBegin(f) <=> f.cur = None \/ View.ev[f.cur].iod # f.iod
  <1> DEFINE u == View
  <1>1. /\ Working /\ u \in Views /\ Calm(u) /\ Walks(u) /\ u.stack = stack BY SteadyIs, ViewFields
  <1>2. f = u.stack[Len(u.stack)] /\ f \in DeleteFrame /\ Len(u.stack) \in DOMAIN u.stack BY <1>1, TopIs
  <1>3. OthersBegin(f) <=> f.cur = None \/ u.ev[f.cur].iod # f.iod BY ViewFields DEF OthersBegin
  <1>4. f.kind = "delete" OBVIOUS
  <1> HIDE DEF u
  <1>5. Walk(u, f) BY <1>1, <1>2, <1>4 DEF Walks
  <1>6. Quiet(Front(u.stack)) BY <1>1, <1>2, <1>4, QuietBelow
  <1>7. Front(u.stack) \in Seq(Frame)
    <2>1. u.stack \in Seq(Frame) BY <1>1, StackIs
    <2> QED BY <2>1, <1>1, FrontIs
  <1>8. /\ f.iod \in Iods /\ f.at \in 1..3 /\ f.notify \in BOOLEAN
        /\ f.cur \in Structs \cup {None} /\ f.heads \in [1..3 -> Structs \cup {None}]
    BY <1>2 DEF DeleteFrame
  <1> QED BY <1>1, <1>2, <1>3, <1>5, <1>6, <1>7, <1>8 DEF u

\* The innermost call, nsock_iod_delete(), moves on.
LEMMA DeleteMoves ==
    ASSUME Steady, stack # <<>>, Top(View).kind = "delete", NEW g \in DeleteFrame,
           NEW w, w = SetTop(View, g)
    PROVE  /\ Good(w, serials, allocated) /\ w \in Views
           /\ SameParts(View, w) /\ w.iod = View.iod /\ w.stack = Append(Front(View.stack), g)
           /\ \A x : Held(w, x) <=> Held(View, x)
           /\ \A x \in Structs : Live(w, x) <=> Live(View, x)
           /\ PendingExact(w) /\ HeapLive(w) /\ \A i : LiveOf(w, i) = LiveOf(View, i)
           /\ ~(Len(w.stack) = 1 /\ w.stack[1].kind = "iod")
  <1> DEFINE u == View
             q == Append(Front(u.stack), g)
  <1>1. /\ Good(u, serials, allocated) /\ u \in Views /\ PendingExact(u) /\ HeapLive(u) /\ Working
    BY SteadyIs
  <1>2. u.stack # <<>> /\ u.stack[Len(u.stack)].kind = "delete" BY <1>1, TopIs
  <1>3. g \in Frame /\ g.kind = "delete" BY DEF Frame, DeleteFrame
  <1>4. ~(Len(w.stack) = 1 /\ w.stack[1].kind = "iod") BY <1>1, DeleteTop
  <1> HIDE DEF u
  <1>5. w = SetTop(u, g) BY DEF u
  <1>6. /\ Good(w, serials, allocated) /\ (\A x : Held(w, x) <=> Held(u, x))
        /\ (\A x \in Structs : Live(w, x) <=> Live(u, x)) /\ w = [u EXCEPT !.stack = q]
    BY <1>1, <1>2, <1>3, <1>5, SetTopGood
  <1> HIDE DEF q
  <1>7. SameParts(u, w) /\ w.stack = q /\ w.iod = u.iod BY <1>1, <1>6, StackParts
  <1>8. PendingExact(w) /\ HeapLive(w) /\ \A i : LiveOf(w, i) = LiveOf(u, i)
    BY <1>1, <1>6, <1>7, PartsKeep
  <1>9. w \in Views BY <1>6 DEF Good
  <1> QED BY <1>4, <1>6, <1>7, <1>8, <1>9 DEF u, q

\* nsock_iod_delete() goes to the next list.
LEMMA DeleteNextListSettles ==
    ASSUME Steady, DeleteNextList
    PROVE  Steadies
  <1> DEFINE u == View
             f == Top(View)
             g == [f EXCEPT !.at = f.at + 1, !.cur = f.heads[f.at + 1]]
             w == SetTop(u, g)
  <1>1. /\ stack # <<>> /\ f.kind = "delete" /\ OthersBegin(f) /\ f.at < 3 /\ Commit(w)
        /\ fatal' = fatal
    BY DEF DeleteNextList
  <1>2. f = Top(View) OBVIOUS
  <1> HIDE DEF f
  <1>3. /\ f \in DeleteFrame /\ f.iod \in Iods /\ f.at \in 1..3 /\ f.heads \in [1..3 -> Structs \cup {None}]
        /\ Walk(u, f) /\ Quiet(Front(u.stack)) /\ Front(u.stack) \in Seq(Frame)
        /\ f.cur = None \/ u.ev[f.cur].iod # f.iod
    BY <1>1, <1>2, DeleteAt
  <1>4. /\ g \in DeleteFrame /\ g.kind = "delete" /\ g.iod = f.iod /\ g.at = f.at + 1
        /\ g.heads = f.heads /\ g.cur = f.heads[f.at + 1]
    <2> DEFINE k == f.at + 1
               c == f.heads[f.at + 1]
    <2>1. k \in 1..3 /\ c \in Structs \cup {None} BY <1>1, <1>3
    <2>2. g = [f EXCEPT !.at = k, !.cur = c] OBVIOUS
    <2> HIDE DEF k, c, g
    <2>3. /\ g \in DeleteFrame /\ g.kind = "delete" /\ g.iod = f.iod /\ g.at = k
          /\ g.heads = f.heads /\ g.cur = c
      BY <2>1, <2>2, <1>3 DEF DeleteFrame
    <2> QED BY <2>3 DEF k, c
  <1> HIDE DEF g
  <1>5. /\ w \in Views /\ SameParts(u, w) /\ w.iod = u.iod /\ w.stack = Append(Front(u.stack), g)
        /\ PendingExact(w) /\ HeapLive(w) /\ \A i : LiveOf(w, i) = LiveOf(u, i)
    BY <1>1, <1>2, <1>4, DeleteMoves
  <1>6. u \in Views /\ Firsts(u) BY SteadyIs DEF Good
  <1> HIDE DEF u, w
  <1> DEFINE i == f.iod
             L == LiveOf(u, i)
             t == ListOrder[f.at]
             r == ListOrder[f.at + 1]
             c == g.cur
  <1>7. t \in IoTypes /\ r \in IoTypes /\ f.at + 1 \in 1..3 /\ i \in Iods BY <1>1, <1>3, ListOrderIs
  <1>8. c = u.iod[i].first[r] BY <1>3, <1>4, <1>7 DEF Walk
  <1>9. \A s \in ToSet(u.list[t]) : s \notin L
    <2>1. u.list[t] \in Seq(Structs) BY <1>6, <1>7, ViewIs
    <2>2. Ahead(u.ev, u.list[t], f.cur, L, i) BY <1>3 DEF Walk
    <2> HIDE DEF L, t
    <2> QED BY <2>1, <2>2, <1>3, WalkPassed
  <1>10. /\ Ahead(u.ev, u.list[r], c, L, i)
         /\ c = None \/ c \in ToSet(u.list[r])
    <2> HIDE DEF c, r, i
    <2> QED BY <1>6, <1>7, <1>8, WalkBegins
  <1>11. Walk(w, g)
    <2>1. w.ev = u.ev /\ w.list = u.list /\ LiveOf(w, i) = L BY <1>5 DEF SameParts
    <2>2. \A k \in 1..3 : k > f.at + 1 => g.heads[k] = u.iod[i].first[ListOrder[k]]
      BY <1>3, <1>4 DEF Walk
    <2>3. \A k \in 1..3 : k < f.at + 1 => \A s \in ToSet(u.list[ListOrder[k]]) : s \notin L
      <3> SUFFICES ASSUME NEW k \in 1..3, k < f.at + 1
                   PROVE  \A s \in ToSet(u.list[ListOrder[k]]) : s \notin L
        OBVIOUS
      <3>1. k = f.at \/ k < f.at BY <1>3
      <3>2. k < f.at => \A s \in ToSet(u.list[ListOrder[k]]) : s \notin L BY <1>3 DEF Walk
      <3> QED BY <3>1, <3>2, <1>9
    <2> QED BY <2>1, <2>2, <2>3, <1>4, <1>5, <1>10 DEF Walk
  <1>12. Calm(w) /\ Walks(w)
    <2>1. g \in Frame BY <1>4 DEF Frame
    <2> QED BY <2>1, <1>3, <1>4, <1>5, <1>11, CalmDelete
  <1>13. Settled(w) BY <1>5, <1>12 DEF Settled
  <1> QED BY <1>1, <1>5, <1>13, SteadiesIs

\* nsock_iod_delete() has met all events of the iod when it ends.
LEMMA DeleteEndSettles ==
    ASSUME Steady, DeleteEnd
    PROVE  Steadies
  <1> DEFINE u == View
             f == Top(View)
             i == f.iod
             w == Pop(View)
             v == Deleted(w, i)
  <1>1. /\ stack # <<>> /\ f.kind = "delete" /\ OthersBegin(f) /\ (f.at = 3 \/ iod[i].pending = 0)
        /\ fatal' = (iod[i].pending # 0)
        /\ ~fatal' => Commit(v)
    BY DEF DeleteEnd
  <1>2. f = Top(View) /\ u.iod = iod BY ViewFields
  <1> HIDE DEF f
  <1>3. /\ i \in Iods /\ f.at \in 1..3
        /\ Walk(u, f) /\ Quiet(Front(u.stack)) /\ Front(u.stack) \in Seq(Frame)
        /\ f.cur = None \/ u.ev[f.cur].iod # i
        /\ u.stack # <<>> /\ u.stack[Len(u.stack)] = f
    BY <1>1, <1>2, DeleteAt
  <1>4. /\ Good(u, serials, allocated) /\ u \in Views /\ PendingExact(u) /\ HeapLive(u)
        /\ client \in Clients
    BY SteadyIs
  <1> HIDE DEF u
  <1>5. u.iod[i].pending = 0
    <2>1. CASE iod[i].pending = 0 BY <2>1, <1>2
    <2>2. CASE f.at = 3
      <3> DEFINE L == LiveOf(u, i)
      <3>1. \A k \in 1..3 : \A s \in ToSet(u.list[ListOrder[k]]) : s \notin L
        <4>1. \A k \in 1..3 : k < 3 => \A s \in ToSet(u.list[ListOrder[k]]) : s \notin L
          BY <2>2, <1>3 DEF Walk
        <4> DEFINE t == ListOrder[3]
        <4>2. u.list[t] \in Seq(Structs)
          <5>1. t \in IoTypes BY ListOrderIs
          <5> QED BY <5>1, <1>4, ViewIs
        <4>3. Ahead(u.ev, u.list[t], f.cur, L, i) BY <2>2, <1>3 DEF Walk
        <4> HIDE DEF L, t, i
        <4>4. \A s \in ToSet(u.list[t]) : s \notin L BY <4>2, <4>3, <1>3, WalkPassed
        <4>5. \A k \in 1..3 : k = 3 \/ k < 3 OBVIOUS
        <4> QED BY <4>1, <4>4, <4>5 DEF t
      <3>2. ASSUME NEW s \in L PROVE FALSE
        <4>1. s \in Structs /\ Live(u, s) /\ u.ev[s].iod = i BY <3>2 DEF LiveOf
        <4>2. Kept(u, s) /\ (u.ev[s].type = "timer" <=> u.ev[s].iod = None) BY <4>1, <1>4, LiveIs
        <4>3. u.ev[s].type # "timer" BY <4>1, <4>2, <1>3, <1>4, NoIod
        <4>4. s \in ToSet(u.list[u.ev[s].type]) BY <4>2, <4>3 DEF Kept
        <4>5. u.ev[s].type \in IoTypes BY <4>1, <4>3, <1>4, ViewIs DEF Event
        <4>6. PICK k \in 1..3 : ListOrder[k] = u.ev[s].type BY <4>5, ListOrderIs
        <4> HIDE DEF L
        <4> QED BY <4>4, <4>6, <3>1, <3>2
      <3>3. L = {} BY <3>2
      <3>4. Cardinality(L) = 0 BY <3>3, FS_EmptySet
      <3> QED BY <3>4, <1>3, <1>4 DEF PendingExact
    <2> QED BY <2>1, <2>2, <1>1
  <1>6. ~fatal' /\ Commit(v) BY <1>1, <1>2, <1>5
  <1>7. u.stack[Len(u.stack)].kind # "handler" BY <1>1, <1>3
  <1>8. /\ Good(w, serials, allocated) /\ (\A x : Held(w, x) <=> Held(u, x))
        /\ w = [u EXCEPT !.stack = Front(u.stack)]
    BY <1>3, <1>4, <1>7, PopGood DEF u
  <1> HIDE DEF w, i
  <1>9. SameParts(u, w) /\ w.stack = Front(u.stack) /\ w \in Views
    <2>1. w \in Views BY <1>8 DEF Good
    <2> DEFINE q == Front(u.stack)
    <2>2. w = [u EXCEPT !.stack = q] BY <1>8
    <2> HIDE DEF q
    <2>3. SameParts(u, w) /\ w.stack = q BY <2>2, <1>4, StackParts
    <2> QED BY <2>1, <2>3 DEF q
  <1>10. PendingExact(w) /\ HeapLive(w) BY <1>4, <1>8, <1>9, PartsKeep
  <1>11. v \in Views /\ SameParts(w, v) /\ v.stack = w.stack /\ \A x : Held(v, x) <=> Held(w, x)
    <2>1. v \in Views BY <1>3, <1>8, DeletedIs DEF Good
    <2> QED BY <2>1, <1>3, <1>9, DeletedParts
  <1> HIDE DEF v
  <1>12. PendingExact(v) /\ HeapLive(v) BY <1>10, <1>11, PartsKeep
  <1>13. Settled(v) BY <1>3, <1>9, <1>11, <1>12, SettledQuiet
  <1>14. ~fatal BY SteadyIs
  <1>15. fatal' = fatal
    <2>1. fatal \in BOOLEAN /\ fatal' \in BOOLEAN BY <1>1, SteadyIs, WorkingIs
    <2> QED BY <2>1, <1>6, <1>14
  <1> QED BY <1>6, <1>11, <1>13, <1>15, SteadiesIs

\* An event leaves its list, and no other list changes.
LEMMA GoneLists ==
    ASSUME NEW u \in Views, Lists(u), NEW s \in Structs, u.ev[s].type \in IoTypes,
           s \in ToSet(u.list[u.ev[s].type])
    PROVE  /\ Gone(u, s).list[u.ev[s].type] = RemoveAt(u.list[u.ev[s].type], At(u.list[u.ev[s].type], s))
           /\ \A x \in IoTypes : x # u.ev[s].type =>
                 /\ Gone(u, s).list[x] = u.list[x]
                 /\ \A j \in Iods : Gone(u, s).iod[j].first[x] = u.iod[j].first[x]
  <1> DEFINE v == Gone(u, s)
  <1> HIDE DEF v
  <1> DEFINE t == u.ev[s].type
             i == u.ev[s].iod
             q == u.list[t]
             r == RemoveAt(q, At(q, s))
  <1>1. t \in IoTypes /\ s \in ToSet(q) /\ i \in Iods /\ t # "free" BY ListedIs DEF IoTypes
  <1> HIDE DEF t, i, q, r
  <1>2. /\ v \in Views
        /\ v.list = [u.list EXCEPT ![t] = r, !["free"] = Append(u.list["free"], s)]
        /\ v.iod = [u.iod EXCEPT ![i] = [u.iod[i] EXCEPT !.first = [u.iod[i].first EXCEPT ![t] = FirstAfter(u, s)]]]
        /\ v.ev = u.ev /\ v.expirables = u.expirables
        /\ v.events_pending = u.events_pending
        /\ v.outcome = u.outcome /\ v.stack = u.stack
    BY <1>1, GoneIo DEF v, t, i, q, r
  <1>3. v.list[t] = r /\ \A x \in IoTypes : x # t => v.list[x] = u.list[x]
    BY <1>1, <1>2, ViewIs DEF IoTypes
  <1>4. u.iod[i] \in IodShape /\ u.iod[i].first \in [IoTypes -> Structs \cup {None}]
        /\ u.iod \in [Iods -> IodShape]
    BY <1>1, IodIs, ViewIs
  <1> DEFINE g == [u.iod[i].first EXCEPT ![t] = FirstAfter(u, s)]
  <1>5. \A x \in IoTypes : x # t => g[x] = u.iod[i].first[x] BY <1>4
  <1> HIDE DEF g
  <1>6. v.iod[i] = [u.iod[i] EXCEPT !.first = g] /\ \A j \in Iods : j # i => v.iod[j] = u.iod[j]
    BY <1>1, <1>2, <1>4 DEF g
  <1>7. v.iod[i].first = g BY <1>4, <1>6 DEF IodShape
  <1>8. \A j \in Iods, x \in IoTypes : x # t => v.iod[j].first[x] = u.iod[j].first[x]
    BY <1>5, <1>6, <1>7
  <1> QED BY <1>3, <1>8 DEF v, r, q, t

\* nevent_delete() takes the event out of its list and touches no other.
LEMMA CancelledList ==
    ASSUME NEW u, NEW n, NEW a, Good(u, n, a), client \in Clients, NEW s \in Structs, Live(u, s),
           NEW t \in IoTypes, s \in ToSet(u.list[t]), NEW z, z = Cancelled(u, s)
    PROVE  /\ z.list[t] = RemoveAt(u.list[t], At(u.list[t], s))
           /\ \A r \in IoTypes : r # t => z.list[r] = u.list[r]
           /\ \A i \in Iods, r \in IoTypes : r # t => z.iod[i].first[r] = u.iod[i].first[r]
  <1> DEFINE d == Done(u, s, "CANCELLED")
             x == Dropped(d, s)
  <1>1. u \in Views /\ Lists(u) /\ Firsts(u) /\ Heap(u) BY DEF Good
  <1>2. HasIod(u, s) BY LiveIs
  <1>3. Touch(u, d, s) BY <1>1, CancelledIs
  <1> HIDE DEF d
  <1>4. d \in Views /\ Lists(d) BY <1>1, <1>3, TouchKeeps
  <1>5. x \in Views /\ Lists(x) /\ x.ev = d.ev /\ x.list = d.list /\ x.iod = d.iod BY <1>4, DropIs
  <1>6. z = Gone(x, s) BY DEF Cancelled, d
  <1> HIDE DEF x
  <1>7. x.list = u.list /\ \A i \in Iods : x.iod[i].first = u.iod[i].first BY <1>3, <1>5 DEF Touch
  <1>8. s \in ToSet(x.list[t]) BY <1>7
  <1>9. s \in Structs /\ x.ev[s].type = t BY <1>5, <1>8, ListedIs
  <1> DEFINE g == Gone(x, s)
  <1>10. /\ g.list[t] = RemoveAt(x.list[t], At(x.list[t], s))
         /\ \A r \in IoTypes : r # t =>
               /\ g.list[r] = x.list[r]
               /\ \A j \in Iods : g.iod[j].first[r] = x.iod[j].first[r]
    BY <1>5, <1>8, <1>9, GoneLists
  <1>11. z = g BY <1>6
  <1> HIDE DEF g
  <1> QED BY <1>7, <1>10, <1>11

\* nsock_iod_delete() goes past an event that has ended.
LEMMA WalkSkips ==
    ASSUME NEW u \in Views, Lists(u), NEW f \in DeleteFrame, Walk(u, f), NEW t, t = ListOrder[f.at],
           NEW s \in ToSet(u.list[t]), s = f.cur, u.ev[s].iod = f.iod, ~Live(u, s),
           NEW g \in DeleteFrame, g.iod = f.iod, g.at = f.at, g.heads = f.heads, g.cur = NextOf(u, s),
           NEW v, SameParts(u, v), \A i : LiveOf(v, i) = LiveOf(u, i)
    PROVE  Walk(v, g)
  <1> DEFINE i == f.iod
             L == LiveOf(u, i)
             q == u.list[t]
             p == At(q, s)
             c == NextOf(u, s)
  <1>1. f.at \in 1..3 /\ i \in Iods BY DEF DeleteFrame
  <1>2. t \in IoTypes BY <1>1, ListOrderIs
  <1>3. q \in Seq(Structs) BY <1>2, ViewIs
  <1>4. p \in 1..Len(q) /\ q[p] = s
    <2> HIDE DEF q
    <2> QED BY <1>3, AtIs, SeqIs DEF q
  <1>5. c = After(q, p) /\ (c # None => c \in ToSet(q)) BY <1>2, NextIs
  <1>6. s \notin L /\ \A x \in L : u.ev[x].iod = i BY DEF LiveOf
  <1>7. Distinct(q) /\ Together(u.ev, q) BY <1>2 DEF Lists
  <1>8. Ahead(u.ev, q, s, L, i) BY DEF Walk
  <1> HIDE DEF q, p, c, L, i
  <1>9. u.ev[s].iod = i BY DEF i
  <1>10. Ahead(u.ev, q, c, L, i)
    <2>1. /\ p \in 1..Len(q) /\ u.ev[q[p]].iod = i /\ q[p] \notin L /\ Ahead(u.ev, q, q[p], L, i)
      BY <1>4, <1>6, <1>8, <1>9
    <2>2. Ahead(u.ev, q, After(q, p), L, i) BY <2>1, <1>3, <1>6, <1>7, AheadNext
    <2> QED BY <2>2, <1>5
  <1>11. /\ \A k \in 1..3 : k > f.at => f.heads[k] = u.iod[i].first[ListOrder[k]]
         /\ \A k \in 1..3 : k < f.at => \A x \in ToSet(u.list[ListOrder[k]]) : x \notin L
    BY DEF Walk, i, L
  <1>12. /\ v.ev = u.ev /\ v.list = u.list /\ LiveOf(v, i) = L
         /\ \A k \in 1..3 : v.iod[i].first[ListOrder[k]] = u.iod[i].first[ListOrder[k]]
    BY <1>1 DEF SameParts, L, i
  <1>13. c = None \/ c \in ToSet(q) BY <1>5
  <1>14. g.iod = i /\ g.cur = c /\ v.list[ListOrder[g.at]] = q BY <1>12 DEF i, c, q
  <1> QED BY <1>10, <1>11, <1>12, <1>13, <1>14 DEF Walk

\* nsock_iod_delete() ends the event it is at.
LEMMA WalkCancels ==
    ASSUME NEW u, NEW n, NEW a, Good(u, n, a), client \in Clients, NEW f \in DeleteFrame, Walk(u, f),
           NEW t, t = ListOrder[f.at],
           NEW s \in ToSet(u.list[t]), s = f.cur, u.ev[s].iod = f.iod, Live(u, s),
           NEW g \in DeleteFrame, g.iod = f.iod, g.at = f.at, g.heads = f.heads, g.cur = NextOf(u, s),
           NEW w, Good(w, n, a), SameParts(u, w), Live(w, s),
           \A i : LiveOf(w, i) = LiveOf(u, i),
           NEW v, NEW notify, Ended(w, Cancelled(w, s), v, s, notify, "cancel")
    PROVE  Walk(v, g)
  <1> DEFINE i == f.iod
             L == LiveOf(u, i)
             q == u.list[t]
             p == At(q, s)
             c == NextOf(u, s)
             z == Cancelled(w, s)
             r == RemoveAt(q, p)
  <1>1. f.at \in 1..3 /\ i \in Iods BY DEF DeleteFrame
  <1>2. t \in IoTypes /\ u \in Views /\ Lists(u) BY <1>1, ListOrderIs DEF Good
  <1>3. q \in Seq(Structs) BY <1>2, ViewIs
  <1>4. p \in 1..Len(q) /\ q[p] = s /\ s \in Structs
    <2> HIDE DEF q
    <2> QED BY <1>3, AtIs, SeqIs DEF q
  <1>5. c = After(q, p) /\ (c # None => c \in ToSet(q) /\ c # s) BY <1>2, NextIs
  <1>6. \A x \in L : u.ev[x].iod = i BY DEF LiveOf
  <1>7. Distinct(q) /\ Together(u.ev, q) BY <1>2 DEF Lists
  <1>8. Ahead(u.ev, q, s, L, i) BY DEF Walk
  <1>9. w.list = u.list /\ w.ev = u.ev /\ \A j \in Iods : w.iod[j].first = u.iod[j].first
    BY DEF SameParts
  <1>10. /\ z.list[t] = r
         /\ \A k \in IoTypes : k # t => z.list[k] = u.list[k]
         /\ \A j \in Iods, k \in IoTypes : k # t => z.iod[j].first[k] = u.iod[j].first[k]
    <2>1. s \in ToSet(w.list[t]) BY <1>9
    <2>2. /\ z.list[t] = RemoveAt(w.list[t], At(w.list[t], s))
          /\ \A k \in IoTypes : k # t => z.list[k] = w.list[k]
          /\ \A j \in Iods, k \in IoTypes : k # t => z.iod[j].first[k] = w.iod[j].first[k]
      BY <2>1, <1>2, <1>4, CancelledList
    <2> QED BY <2>2, <1>9
  <1> HIDE DEF q, p, c, L, i, z, r
  <1>11. /\ v.list = z.list /\ (\A j \in Iods : v.iod[j].first = z.iod[j].first)
         /\ LiveOf(v, i) = L \ {s} /\ \A x \in Structs : v.ev[x].iod = u.ev[x].iod
    BY <1>9 DEF Ended, z, L
  <1>12. /\ r \in Seq(Structs) /\ ToSet(r) = ToSet(q) \ {s} BY <1>3, <1>4, <1>7, RemoveAtIs, RemoveAtSet DEF r
  <1>13. Ahead(v.ev, r, c, L \ {s}, i)
    <2>1. /\ p \in 1..Len(q) /\ u.ev[q[p]].iod = i /\ Ahead(u.ev, q, q[p], L, i)
      BY <1>4, <1>8 DEF i
    <2>2. Ahead(u.ev, RemoveAt(q, p), After(q, p), L \ {q[p]}, i)
      BY <2>1, <1>3, <1>6, <1>7, AheadRemove
    <2>3. Ahead(u.ev, r, c, L \ {s}, i) BY <2>2, <1>4, <1>5 DEF r
    <2>4. \A x \in ToSet(r) : v.ev[x].iod = u.ev[x].iod BY <1>11, <1>12, SeqIs
    <2> DEFINE M == L \ {s}
    <2>5. M \subseteq M OBVIOUS
    <2> HIDE DEF M
    <2>6. Ahead(v.ev, r, c, M, i) BY <2>3, <2>4, <2>5, AheadKeep DEF M
    <2> QED BY <2>6 DEF M
  <1>14. c = None \/ c \in ToSet(r) BY <1>5, <1>12
  <1>15. \A k \in 1..3 : k # f.at => ListOrder[k] \in IoTypes /\ ListOrder[k] # t BY <1>1, ListOrderIs
  <1>16. \A k \in 1..3 : k > f.at => g.heads[k] = v.iod[i].first[ListOrder[k]]
    <2> SUFFICES ASSUME NEW k \in 1..3, k > f.at PROVE g.heads[k] = v.iod[i].first[ListOrder[k]]
      OBVIOUS
    <2>1. k # f.at BY <1>1
    <2>2. f.heads[k] = u.iod[i].first[ListOrder[k]] BY DEF Walk, i
    <2> DEFINE e == ListOrder[k]
    <2>3. e \in IoTypes /\ e # t BY <2>1, <1>15
    <2> HIDE DEF e
    <2>4. z.iod[i].first[e] = u.iod[i].first[e] BY <2>3, <1>1, <1>10
    <2>5. v.iod[i].first = z.iod[i].first BY <1>1, <1>11
    <2>6. v.iod[i].first[e] = u.iod[i].first[e] BY <2>4, <2>5
    <2> QED BY <2>2, <2>6 DEF e
  <1>17. \A k \in 1..3 : k < f.at => \A x \in ToSet(v.list[ListOrder[k]]) : x \notin L \ {s}
    <2> SUFFICES ASSUME NEW k \in 1..3, k < f.at, NEW x \in ToSet(v.list[ListOrder[k]])
                 PROVE  x \notin L \ {s}
      OBVIOUS
    <2>1. k # f.at BY <1>1
    <2>2. x \in ToSet(u.list[ListOrder[k]]) BY <2>1, <1>10, <1>11, <1>15
    <2>3. x \notin L BY <2>2 DEF Walk, i, L
    <2> QED BY <2>3
  <1>18. g.iod = i /\ g.cur = c /\ v.list[ListOrder[g.at]] = r BY <1>10, <1>11 DEF i, c
  <1> QED BY <1>11, <1>13, <1>14, <1>16, <1>17, <1>18 DEF Walk

\* nsock_iod_delete() takes an event of the list it walks.
LEMMA DeleteStepSettles ==
    ASSUME Steady, DeleteStep
    PROVE  Steadies
  <1> DEFINE u == View
             f == Top(View)
             s == f.cur
             g == [f EXCEPT !.cur = NextOf(u, s)]
             w == SetTop(u, g)
             v == nevent_delete(w, s, f.notify)
  <1>1. stack # <<>> /\ f.kind = "delete" /\ ~OthersBegin(f) /\ Commit(v) /\ fatal' = fatal
    BY DEF DeleteStep
  <1>2. f = Top(View) OBVIOUS
  <1> HIDE DEF f
  <1>3. /\ f \in DeleteFrame /\ f.iod \in Iods /\ f.at \in 1..3 /\ f.notify \in BOOLEAN
        /\ s \in Structs \cup {None}
        /\ Walk(u, f) /\ Quiet(Front(u.stack)) /\ Front(u.stack) \in Seq(Frame)
        /\ ~(s = None \/ u.ev[s].iod # f.iod)
    BY <1>1, <1>2, DeleteAt
  <1>4. /\ Good(u, serials, allocated) /\ client \in Clients /\ u \in Views /\ Lists(u) /\ HeapLive(u)
    BY SteadyIs DEF Good
  <1>5. /\ g \in DeleteFrame /\ g.kind = "delete" /\ g.iod = f.iod /\ g.at = f.at
        /\ g.heads = f.heads /\ g.cur = NextOf(u, s)
    <2> DEFINE c == NextOf(u, s)
    <2>1. c \in Structs \cup {None} BY <1>4, NextAny
    <2>2. g = [f EXCEPT !.cur = c] OBVIOUS
    <2> HIDE DEF c, g
    <2>3. /\ g \in DeleteFrame /\ g.kind = "delete" /\ g.iod = f.iod /\ g.at = f.at
          /\ g.heads = f.heads /\ g.cur = c
      BY <2>1, <2>2, <1>3 DEF DeleteFrame
    <2> QED BY <2>3 DEF c
  <1> HIDE DEF g
  <1>6. /\ Good(w, serials, allocated) /\ w \in Views
        /\ SameParts(u, w) /\ w.stack = Append(Front(u.stack), g)
        /\ \A x \in Structs : Live(w, x) <=> Live(u, x)
        /\ PendingExact(w) /\ HeapLive(w) /\ (\A i : LiveOf(w, i) = LiveOf(u, i))
        /\ ~(Len(w.stack) = 1 /\ w.stack[1].kind = "iod")
    BY <1>1, <1>2, <1>5, DeleteMoves
  <1>7. v = nevent_delete(w, s, f.notify) OBVIOUS
  <1> DEFINE t == ListOrder[f.at]
  <1> HIDE DEF u, w, v
  <1>8. t \in IoTypes /\ s \in Structs /\ u.ev[s].iod = f.iod /\ s \in ToSet(u.list[t])
    <2>1. s # None /\ u.ev[s].iod = f.iod BY <1>3
    <2>2. s \in Structs BY <2>1, <1>3
    <2>3. s = None \/ s \in ToSet(u.list[t]) BY <1>3 DEF Walk
    <2> QED BY <2>1, <2>2, <2>3, <1>3, ListOrderIs
  <1>9. t = ListOrder[f.at] /\ s = f.cur OBVIOUS
  <1> HIDE DEF t, s
  <1>10. g \in Frame BY <1>5 DEF Frame
  <1>11. u.ev[s].done <=> w.ev[s].done BY <1>6 DEF SameParts
  <1>12. CASE w.ev[s].done
    <2>1. v = w BY <1>7, <1>12, DeleteIs
    <2>2. ~Live(u, s)
      <3>1. u.ev[s].type = t /\ t # "timer" BY <1>4, <1>8, ListedIs
      <3>2. Kept(u, s) BY <3>1, <1>8 DEF Kept
      <3>3. Held(u, s) BY <3>2, <1>4, <1>8, <1>11, <1>12 DEF HeapLive
      <3> QED BY <3>3 DEF Live
    <2>3. Walk(w, g) BY <2>2, <1>3, <1>4, <1>5, <1>6, <1>8, <1>9, WalkSkips
    <2>4. Calm(w) /\ Walks(w) BY <2>3, <1>3, <1>5, <1>6, <1>10, CalmDelete
    <2>5. Settled(w) BY <2>4, <1>6 DEF Settled
    <2> QED BY <2>1, <2>5, <1>1, <1>6, SteadiesIs
  <1>13. CASE ~w.ev[s].done
    <2> DEFINE z == Cancelled(w, s)
               h == Call(z, s, "cancel")
    <2>1. Live(w, s) BY <1>6, <1>8, <1>13 DEF Good, Events
    <2>2. Live(u, s) BY <2>1, <1>6, <1>8
    <2>3. Ended(w, z, nevent_delete(w, s, f.notify), s, f.notify, "cancel")
      BY <2>1, <1>3, <1>4, <1>6, <1>8, <1>13, CancelEnds
    <2>4. Ended(w, z, v, s, f.notify, "cancel") BY <2>3, <1>7
    <2>5. Walk(v, g)
      <3> DEFINE b == f.notify
      <3> HIDE DEF b
      <3>1. Ended(w, Cancelled(w, s), v, s, b, "cancel") BY <2>4 DEF b
      <3> QED BY <3>1, <2>1, <2>2, <1>3, <1>4, <1>5, <1>6, <1>8, <1>9, WalkCancels
    <2>6. h.ev = s /\ IsCancel(h) BY DEF Call, IsCancel
    <2> HIDE DEF z, h
    <2>7. /\ v \in Views /\ v.ev[s].done /\ h \in Frame /\ PendingExact(v) /\ HeapLive(v)
          /\ v.stack = IF f.notify THEN Append(w.stack, h) ELSE w.stack
      BY <2>4, <1>6 DEF Ended, h
    <2>8. Calm(v) /\ Walks(v)
      <3>1. CASE f.notify
        <4>1. v.stack = Append(Append(Front(u.stack), g), h) /\ v.ev[h.ev].done
          BY <3>1, <2>6, <2>7, <1>6
        <4> QED BY <4>1, <2>5, <2>6, <2>7, <1>3, <1>5, <1>10, CalmBoth
      <3>2. CASE ~f.notify
        <4>1. v.stack = Append(Front(u.stack), g) BY <3>2, <2>7, <1>6
        <4> QED BY <4>1, <2>5, <1>3, <1>5, <1>10, CalmDelete
      <3> QED BY <3>1, <3>2
    <2>9. Settled(v) BY <2>7, <2>8 DEF Settled
    <2> QED BY <2>7, <2>9, <1>1, SteadiesIs
  <1> QED BY <1>12, <1>13

-----------------------------------------------------------------------------
(* A handler returns.                                                       *)

\* nsock_iod_delete() keeps its place.
LEMMA WalkKeep ==
    ASSUME NEW u \in Views, NEW f \in DeleteFrame, Walk(u, f), NEW v, v.list = u.list, v.iod = u.iod,
           \A i : LiveOf(v, i) = LiveOf(u, i), \A x \in Structs : v.ev[x].iod = u.ev[x].iod
    PROVE  Walk(v, f)
  <1> DEFINE t == ListOrder[f.at]
             q == u.list[t]
             L == LiveOf(u, f.iod)
             i == f.iod
  <1>1. t \in IoTypes
    <2>1. f.at \in 1..3 BY DEF DeleteFrame
    <2> QED BY <2>1, ListOrderIs
  <1>2. \A x \in ToSet(q) : v.ev[x].iod = u.ev[x].iod
    <2>1. q \in Seq(Structs) BY <1>1, ViewIs
    <2> HIDE DEF q
    <2> QED BY <2>1, SeqIs
  <1>3. Ahead(u.ev, q, f.cur, L, i) BY DEF Walk
  <1> HIDE DEF t, q, L, i
  <1>4. L \subseteq L OBVIOUS
  <1>5. Ahead(v.ev, q, f.cur, L, i) BY <1>2, <1>3, <1>4, AheadKeep
  <1> QED BY <1>5 DEF Walk, t, q, L, i

\* The handler of a cancelled event returns: nsock_iod_delete() goes on, or the one that cancelled.
LEMMA CancelReturns ==
    ASSUME NEW u \in Views, Calm(u), Walks(u), u.stack # <<>>, IsCancel(u.stack[Len(u.stack)]),
           NEW v, v.stack = Front(u.stack), v.list = u.list, v.iod = u.iod,
           \A i : LiveOf(v, i) = LiveOf(u, i), \A x \in Structs : v.ev[x].iod = u.ev[x].iod
    PROVE  Calm(v) /\ Walks(v)
  <1> DEFINE n == Len(u.stack)
             q == v.stack
  <1>1. n \in Nat \ {0} /\ DOMAIN u.stack = 1..n /\ u.stack \in Seq(Frame) BY StackIs
  <1>2. q \in Seq(Frame) /\ Len(q) = n - 1 /\ \A k \in 1..(n - 1) : q[k] = u.stack[k]
    BY <1>1, FrontIs
  <1>3. DOMAIN q = 1..(n - 1) BY <1>2, SeqIs
  <1>4. \A k \in DOMAIN q : k \in DOMAIN u.stack /\ q[k] = u.stack[k] /\ k # n
    BY <1>1, <1>2, <1>3
  <1>5. \A k \in DOMAIN q : ~IsCancel(q[k]) BY <1>4 DEF Calm
  <1>6. \A k \in DOMAIN q : q[k].kind = "delete" => k = Len(q) BY <1>2, <1>4 DEF Calm
  <1>7. ASSUME NEW k \in DOMAIN q, q[k].kind = "delete" PROVE Walk(v, q[k])
    <2> DEFINE f == u.stack[k]
    <2>1. Walk(u, f) /\ q[k] = f /\ f.kind = "delete" BY <1>4, <1>7 DEF Walks
    <2>2. f \in Frame BY <1>1, <1>4, StackIs
    <2> HIDE DEF f
    <2>3. f \in DeleteFrame BY <2>1, <2>2 DEF Frame, HandlerFrame, IodFrame
    <2> QED BY <2>1, <2>3, WalkKeep
  <1> QED BY <1>5, <1>6, <1>7 DEF Calm, Walks

\* A handler returns, and its event is deleted.
LEMMA HandlerReturnsSettles ==
    ASSUME Steady, HandlerReturns
    PROVE  Steadies
  <1> DEFINE u == View
             h == Top(View)
             v == Finish(Pop(u), h.ev, h.from)
  <1>1. stack # <<>> /\ h.kind = "handler" /\ Commit(v) /\ fatal' = fatal
    BY DEF HandlerReturns, InHandler
  <1>2. /\ Good(u, serials, allocated) /\ u \in Views /\ client \in Clients /\ Working
        /\ PendingExact(u) /\ Calm(u) /\ Walks(u) /\ HeapLive(u)
    BY SteadyIs
  <1>3. /\ u.stack # <<>> /\ h = u.stack[Len(u.stack)] /\ Len(u.stack) \in DOMAIN u.stack
    BY <1>1, <1>2, ViewFields, TopIs
  <1>4. v = Finish(Pop(u), h.ev, h.from) OBVIOUS
  <1> HIDE DEF u, h, v
  <1>5. CASE h.from = "cancel"
    <2> DEFINE s == h.ev
    <2>1. /\ Good(v, serials, allocated) /\ \A x \in Structs : Live(v, x) <=> Live(u, x)
          /\ v.stack = Front(u.stack) /\ v.iod = u.iod /\ v.list = u.list /\ v.expirables = u.expirables
          /\ \A x : Held(v, x) <=> Held(u, x)
          /\ \A x \in Structs : /\ v.ev[x].type = u.ev[x].type /\ v.ev[x].iod = u.ev[x].iod
                                /\ v.ev[x].done <=> u.ev[x].done \/ x = s
      BY <1>1, <1>2, <1>3, <1>4, <1>5, ReturnCancel
    <2>2. IsCancel(h) BY <1>1, <1>5 DEF IsCancel
    <2>3. u.ev[s].done BY <2>2, <1>2, <1>3 DEF Calm
    <2> HIDE DEF s
    <2>4. \A x \in Structs : v.ev[x].done => u.ev[x].done BY <2>1, <2>3
    <2>5. \A x \in Structs : Kept(v, x) <=> Kept(u, x) BY <2>1 DEF Kept
    <2>6. HeapLive(v) BY <2>1, <2>4, <2>5, <1>2, HeapSame
    <2>7. SameLive(u, v) /\ SamePending(u, v) BY <2>1 DEF SameLive, SamePending
    <2>8. PendingExact(v) /\ \A i : LiveOf(v, i) = LiveOf(u, i) BY <2>7, <1>2, PendingKeep
    <2>9. Calm(v) /\ Walks(v) BY <2>1, <2>2, <2>8, <1>2, <1>3, CancelReturns
    <2>10. v \in Views BY <2>1 DEF Good
    <2> QED BY <2>6, <2>8, <2>9, <2>10, <1>1, SteadiesIs DEF Settled
  <1>6. CASE h.from # "cancel"
    <2> DEFINE s == h.ev
    <2>1. /\ Good(v, serials, allocated) /\ SameIods(u, v) /\ v.ev = u.ev
          /\ Others(u, v, s) /\ ~Live(v, s) /\ ~Live(u, s) /\ s \in Structs
          /\ (\A x \in Structs : x # s => (Held(v, x) <=> Held(u, x)))
          /\ (\A x \in Structs : x # s => (Live(v, x) <=> Live(u, x)))
          /\ s \notin v.expirables
          /\ h.from # "iod" => v.stack = Front(u.stack)
          /\ h.from = "iod" => Len(v.stack) = 1 /\ v.stack[1].kind = "iod"
      <3>1. /\ Good(v, serials, allocated) /\ Delivers(u, v) /\ SameIods(u, v) /\ v.ev = u.ev
            /\ Others(u, v, h.ev) /\ ~Live(v, h.ev) /\ ~Live(u, h.ev) /\ h.ev \in Structs
            /\ \A x \in Structs : x # h.ev => (Held(v, x) <=> Held(u, x))
            /\ \A x \in Structs : x # h.ev => (Live(v, x) <=> Live(u, x))
            /\ h.ev \notin v.expirables /\ u.ev[h.ev].done
            /\ h.from # "iod" => v.stack = Front(u.stack)
            /\ h.from = "iod" => Len(v.stack) = 1 /\ v.stack[1].kind = "iod"
        <4> HIDE DEF s
        <4>1. /\ Good(u, serials, allocated) /\ client \in Clients /\ u.stack # <<>>
              /\ h = u.stack[Len(u.stack)] /\ h.kind = "handler" /\ h.from # "cancel"
              /\ v = Finish(Pop(u), h.ev, h.from)
          BY <1>1, <1>2, <1>3, <1>4, <1>6
        <4> QED BY <4>1, ReturnListed
      <3> HIDE DEF s
      <3>2. s = h.ev BY DEF s
      <3> QED BY <3>1, <3>2
    <2> HIDE DEF s
    <2>2. v \in Views BY <2>1 DEF Good
    <2>3. SameLive(u, v) BY <2>1 DEF SameLive
    <2>4. SamePending(u, v) BY <2>1 DEF SamePending, SameIods
    <2>5. PendingExact(v) BY <2>3, <2>4, <1>2, PendingKeep
    <2>6. Kept(v, s) => Held(v, s) BY <2>1 DEF Live
    <2>7. HeapLive(v) BY <2>1, <2>6, <1>2, HeapKeep
    <2>8. Quiet(v.stack)
      <3>1. ~IsCancel(h) BY <1>6 DEF IsCancel
      <3>2. Quiet(u.stack) BY <3>1, <1>1, <1>2, <1>3, QuietCaller
      <3>3. CASE h.from = "iod"
        <4>1. v.stack \in Seq(Frame) BY <2>2, StackIs
        <4> QED BY <4>1, <3>3, <2>1, QuietLoop
      <3>4. CASE h.from # "iod"
        <4>1. u.stack \in Seq(Frame) BY <1>2, StackIs
        <4> QED BY <4>1, <3>2, <3>4, <2>1, <1>3, QuietFront
      <3> QED BY <3>3, <3>4
    <2>9. Settled(v) BY <2>5, <2>7, <2>8, SettledQuiet
    <2> QED BY <2>2, <2>9, <1>1, SteadiesIs
  <1> QED BY <1>5, <1>6

-----------------------------------------------------------------------------
(* nsock_loop() and the engines.                                            *)

\* Only where nsock_loop() is changes.
LEMMA SameSettles ==
    ASSUME Steady, View' = View, fatal' = fatal
    PROVE  Steadies
  <1> QED BY DEF Steadies, Steady

\* nsock_loop() goes on.
LEMMA LoopSettles ==
    ASSUME Steady, LoopRound \/ IodsDone \/ RoundEnds
    PROVE  Steadies
  <1>1. View' = View /\ fatal' = fatal BY DEF LoopRound, IodsDone, RoundEnds, View
  <1> QED BY <1>1, SameSettles

\* process_iod_events() begins, goes to another event or list, or ends: no event does.
LEMMA PlaceSettles ==
    ASSUME Steady, NEW v \in Views, SameParts(View, v), Quiet(v.stack),
           \A x : Held(v, x) <=> Held(View, x), Commit(v), fatal' = fatal
    PROVE  Steadies
  <1>1. PendingExact(View) /\ HeapLive(View) BY SteadyIs
  <1>2. PendingExact(v) /\ HeapLive(v) BY <1>1, PartsKeep
  <1>3. Settled(v) BY <1>2, SettledQuiet
  <1> QED BY <1>3, SteadiesIs

\* The engine reports an iod.
LEMMA VisitIodSettles ==
    ASSUME Steady, NEW i \in Iods, NEW bits \in (SUBSET Bits) \cup {{"x"}}, VisitIod(i, bits)
    PROVE  Steadies
  <1> DEFINE u == View
             f == ProcFrame(View, i, 1, bits)
             v == Push(u, f)
             q == Append(u.stack, f)
  <1>1. stack = <<>> /\ Commit(v) /\ fatal' = fatal BY DEF VisitIod
  <1>2. /\ Good(u, serials, allocated) /\ u \in Views /\ u.stack = <<>> /\ Working
    BY <1>1, SteadyIs, ViewFields
  <1>3. f \in IodFrame /\ f.kind = "iod" /\ CurIs(u, f.cur)
    <2>1. bits \in SUBSET (Bits \cup {"x"}) /\ 1 \in 1..3 OBVIOUS
    <2> QED BY <2>1, <1>2, ProcFrameIs
  <1>4. f \in Frame /\ ~IsCancel(f) BY <1>3 DEF Frame, IsCancel
  <1>5. Quiet(u.stack) BY <1>1, LoopQuiet
  <1> HIDE DEF f, u
  <1>6. /\ Good(v, serials, allocated) /\ v = [u EXCEPT !.stack = q]
        /\ \A x : Held(v, x) <=> Held(u, x)
    <2>1. ~(Len(u.stack) = 1 /\ u.stack[1].kind = "iod")
      <3>1. Len(u.stack) = 0 BY <1>2
      <3> QED BY <3>1
    <2> QED BY <2>1, <1>2, <1>3, <1>4, PushGood
  <1>7. Quiet(q)
    <2>1. u.stack \in Seq(Frame) BY <1>2, StackIs
    <2> QED BY <2>1, <1>3, <1>4, <1>5, QuietAppend
  <1> HIDE DEF v, q
  <1>8. SameParts(u, v) /\ v.stack = q
    <2>1. u \in Views /\ v = [u EXCEPT !.stack = q] BY <1>2, <1>6
    <2> QED BY <2>1, StackParts
  <1>9. v \in Views BY <1>6 DEF Good
  <1> QED BY <1>1, <1>6, <1>7, <1>8, <1>9, PlaceSettles DEF u

\* process_iod_events() goes to the next list.
LEMMA NextListSettles ==
    ASSUME Steady, NextList
    PROVE  Steadies
  <1> DEFINE u == View
             f == Top(View)
             g == ProcFrame(View, f.iod, f.at + 1, f.bits)
             v == SetTop(u, g)
             q == Append(Front(u.stack), g)
  <1>1. /\ stack # <<>> /\ f.kind = "iod" /\ f.at < 3 /\ Commit(v) /\ fatal' = fatal /\ InProc
    BY DEF NextList, InProc
  <1>2. Good(u, serials, allocated) /\ u \in Views /\ Working BY SteadyIs
  <1>3. f \in IodFrame /\ Len(u.stack) = 1 /\ u.stack[1] = f /\ u.stack # <<>> BY <1>1, <1>2, TopIs
  <1>4. g \in IodFrame /\ g.kind = "iod" /\ CurIs(u, g.cur)
    <2> HIDE DEF f
    <2>1. f.iod \in Iods /\ f.at + 1 \in 1..3 /\ f.bits \in SUBSET (Bits \cup {"x"})
      BY <1>1, <1>3 DEF IodFrame
    <2> QED BY <2>1, <1>2, ProcFrameIs
  <1>5. g \in Frame BY <1>4 DEF Frame
  <1> HIDE DEF g, u, f
  <1>6. /\ Good(v, serials, allocated) /\ v = [u EXCEPT !.stack = q]
        /\ \A x : Held(v, x) <=> Held(u, x)
    <2>1. g.kind = u.stack[Len(u.stack)].kind /\ g.kind # "handler" BY <1>1, <1>3, <1>4
    <2> QED BY <2>1, <1>2, <1>3, <1>4, <1>5, SetTopGood
  <1>7. Quiet(q)
    <2>1. u.stack \in Seq(Frame) /\ Len(u.stack) = 1 /\ u.stack # <<>> BY <1>2, <1>3, StackIs
    <2>2. q \in Seq(Frame) /\ Len(q) = 1 /\ q[1] = g BY <2>1, <1>5, SwapIs
    <2> HIDE DEF q
    <2> QED BY <2>2, <1>4, QuietLoop
  <1> HIDE DEF v, q
  <1>8. SameParts(u, v) /\ v.stack = q BY <1>2, <1>6, StackParts
  <1>9. v \in Views BY <1>6 DEF Good
  <1> QED BY <1>1, <1>6, <1>7, <1>8, <1>9, PlaceSettles DEF u

\* process_iod_events() returns: an iod that was deleted keeps its lists and its count.
LEMMA VisitEndsSettles ==
    ASSUME Steady, VisitEnds
    PROVE  Steadies
  <1> DEFINE u == View
             f == Top(View)
             i == f.iod
             w == Pop(View)
             r == [w.iod[i] EXCEPT !.state = IF w.iod[i].state = "deleted" THEN "free" ELSE w.iod[i].state]
             d == [w.iod EXCEPT ![i] = r]
             v == [w EXCEPT !.iod = d]
             q == Front(u.stack)
  <1>1. /\ stack # <<>> /\ f.kind = "iod" /\ InProc
        /\ Commit([w EXCEPT !.iod[i].state = IF @ = "deleted" THEN "free" ELSE @])
        /\ fatal' = fatal
    BY DEF VisitEnds, InProc
  <1>2. Good(u, serials, allocated) /\ u \in Views /\ Working BY SteadyIs
  <1>3. f \in IodFrame /\ Len(u.stack) = 1 /\ u.stack[1] = f /\ u.stack # <<>> BY <1>1, <1>2, TopIs
  <1>4. i \in Iods
    <2> HIDE DEF f
    <2> QED BY <1>3 DEF IodFrame
  <1>5. Quiet(u.stack) BY <1>1, LoopQuiet
  <1> HIDE DEF u, f, i
  <1>6. Good(w, serials, allocated) /\ w = [u EXCEPT !.stack = q] /\ \A x : Held(w, x) <=> Held(u, x)
    <2>1. u.stack[Len(u.stack)].kind # "handler" BY <1>1, <1>3
    <2> QED BY <2>1, <1>2, <1>3, PopGood DEF u
  <1>7. Quiet(q)
    <2>1. u.stack \in Seq(Frame) BY <1>2, StackIs
    <2> QED BY <2>1, <1>3, <1>5, QuietFront
  <1> HIDE DEF w, q
  <1>8. SameParts(u, w) /\ w.stack = q /\ w.iod = u.iod BY <1>2, <1>6, StackParts
  <1>9. [w EXCEPT !.iod[i].state = IF @ = "deleted" THEN "free" ELSE @] = v OBVIOUS
  <1>10. Commit(v) BY <1>1, <1>9
  <1>11. r \in IodShape /\ r.first = w.iod[i].first /\ r.pending = w.iod[i].pending
    <2>1. w.iod[i] \in IodShape BY <1>4, <1>6, IodIs DEF Good
    <2> DEFINE z == IF w.iod[i].state = "deleted" THEN "free" ELSE w.iod[i].state
    <2>2. z \in {"initial", "deleted", "free"} BY <2>1 DEF IodShape
    <2>3. r = [w.iod[i] EXCEPT !.state = z] OBVIOUS
    <2> HIDE DEF z, r
    <2> QED BY <2>1, <2>2, <2>3 DEF IodShape
  <1> HIDE DEF r
  <1>12. w \in Views BY <1>6 DEF Good
  <1>13. \A j \in Iods : d[j].pending = w.iod[j].pending /\ d[j].first = w.iod[j].first
    <2>1. w.iod \in [Iods -> IodShape] BY <1>12, ViewIs
    <2> QED BY <2>1, <1>11
  <1>14. Good(v, serials, allocated) /\ \A x : Held(v, x) <=> Held(w, x)
    BY <1>4, <1>6, <1>11, IodGood
  <1> HIDE DEF d
  <1>15. v.ev = w.ev /\ v.list = w.list /\ v.expirables = w.expirables /\ v.stack = w.stack /\ v.iod = d
    BY <1>12 DEF Views
  <1> HIDE DEF v
  <1>16. SameParts(u, v) /\ v.stack = q BY <1>8, <1>13, <1>15 DEF SameParts
  <1>17. \A x : Held(v, x) <=> Held(u, x) BY <1>6, <1>14
  <1>18. v \in Views BY <1>14 DEF Good
  <1> QED BY <1>1, <1>7, <1>10, <1>16, <1>17, <1>18, PlaceSettles DEF u

\* process_iod_events() or process_expired_events() has ended an event and calls its handler.
LEMMA LoopEnds ==
    ASSUME Steady, stack = <<>> \/ InProc, NEW s \in Structs, Live(View, s), NEW t, Ready(View, t, s),
           SamePending(View, t), NEW from \in Origins, from # "cancel",
           CallIs(View, t, s, TRUE, from), s \in t.expirables => from = "iod",
           Commit(event_dispatch_and_delete(t, s, TRUE, from)), fatal' = fatal
    PROVE  Steadies
  <1> DEFINE u == View
             v == event_dispatch_and_delete(t, s, TRUE, from)
             f == Call(t, s, from)
  <1>1. /\ Good(u, serials, allocated) /\ client \in Clients /\ u \in Views
        /\ PendingExact(u) /\ HeapLive(u)
    BY SteadyIs
  <1>2. Quiet(u.stack) BY LoopQuiet
  <1>3. PICK b \in BOOLEAN : b = TRUE OBVIOUS
  <1>4. v = event_dispatch_and_delete(t, s, b, from) /\ CallIs(u, t, s, b, from) BY <1>3
  <1>5. f.kind = "handler" /\ f.from = from BY DEF Call
  <1>6. Commit(v) OBVIOUS
  <1> HIDE DEF u, v
  <1>7. Live(u, s) /\ Ready(u, t, s) /\ SamePending(u, t) BY DEF u
  <1>8. Ended(u, t, v, s, b, from) BY <1>1, <1>4, <1>7, EndSettles
  <1> HIDE DEF f
  <1>9. /\ v \in Views /\ f \in Frame /\ v.stack = Append(u.stack, f) /\ PendingExact(v) /\ HeapLive(v)
    BY <1>1, <1>3, <1>8 DEF Ended, f
  <1>10. u.stack \in Seq(Frame) BY <1>1, StackIs
  <1>11. ~IsCancel(f) /\ f.kind # "delete" BY <1>5 DEF IsCancel
  <1>12. Quiet(v.stack) BY <1>2, <1>9, <1>10, <1>11, QuietAppend
  <1>13. Settled(v) BY <1>9, <1>12, SettledQuiet
  <1> QED BY <1>6, <1>9, <1>13, SteadiesIs

\* process_iod_events() looks at an event.
LEMMA ProcessOneSettles ==
    ASSUME Steady, NEW late \in BOOLEAN, ProcessOne(late)
    PROVE  Steadies
  <1> DEFINE u == View
             f == Top(View)
             s == f.cur
  <1>1. InProc /\ ~OthersBegin(f) /\ fatal' = fatal BY DEF ProcessOne, ListEnds
  <1>2. PICK st \in process_event(View, s, f.bits, late) :
           Commit(IF st.ev[s].done THEN event_dispatch_and_delete(st, s, TRUE, "iod")
                  ELSE SetTop(st, [f EXCEPT !.cur = NextOf(st, s)]))
    BY DEF ProcessOne
  <1>3. /\ Good(u, serials, allocated) /\ client \in Clients /\ u \in Views /\ Lists(u) /\ Working
        /\ PendingExact(u) /\ HeapLive(u)
    BY SteadyIs DEF Good
  <1>4. /\ s \in Structs /\ Live(u, s) /\ (\E t \in IoTypes : s \in ToSet(u.list[t]))
        /\ Len(u.stack) = 1 /\ u.stack[1] = f /\ u.stack[1].cur = s /\ u.stack[1].kind = "iod"
    BY <1>1, <1>3, WalkAt
  <1>5. PICK bits : st \in process_event(u, s, bits, late) BY <1>2
  <1>6. f \in IodFrame
    <2>1. stack # <<>> /\ f.kind = "iod" BY <1>1 DEF InProc
    <2> QED BY <2>1, <1>3, TopIs
  <1> HIDE DEF u, f, s
  <1>7. PICK t \in IoTypes : s \in ToSet(u.list[t]) BY <1>4
  <1>8. u.ev[s].type = t /\ t # "timer" /\ HasIod(u, s)
    <2>1. u.ev[s].type = t /\ t # "timer" /\ u.ev[s].iod \in Iods BY <1>3, <1>7, <1>4, ListedIs
    <2> QED BY <2>1 DEF HasIod
  <1>9. Touch(u, st, s) BY <1>3, <1>4, <1>5, <1>8, ProcessIs
  <1>10. /\ Good(st, serials, allocated) /\ (\A x : Held(st, x) <=> Held(u, x))
         /\ \A x \in Structs : Live(st, x) <=> Live(u, x)
    BY <1>3, <1>4, <1>9, TouchGood
  <1>11. /\ st.list = u.list /\ st.stack = u.stack /\ st.expirables = u.expirables
         /\ st.outcome = u.outcome /\ st.events_pending = u.events_pending
         /\ st.ev[s].id = u.ev[s].id /\ st.ev[s].type = u.ev[s].type /\ st.ev[s].iod = u.ev[s].iod
         /\ \A x \in Structs : x # s => st.ev[x] = u.ev[x]
    BY <1>9 DEF Touch
  <1>12. SamePending(u, st) BY <1>9 DEF Touch, SamePending
  <1>13. CASE st.ev[s].done
    <2>1. Commit(event_dispatch_and_delete(st, s, TRUE, "iod")) BY <1>2, <1>13 DEF s
    <2>2. Others(u, st, s) BY <1>3, <1>4, <1>9, TouchKeeps
    <2>3. Ready(u, st, s) BY <2>2, <1>10, <1>11, <1>13 DEF Ready, Good
    <2>4. s \notin ToSet(u.list["free"]) /\ s \in ToSet(u.list[u.ev[s].type])
      BY <1>3, <1>4, <1>8, LiveIs DEF Kept
    <2>5. CallIs(u, st, s, TRUE, "iod") BY <2>4, <1>4, <1>8, <1>11 DEF CallIs
    <2>6. PICK from \in Origins : from = "iod" /\ from # "cancel" BY DEF Origins
    <2>7. CallIs(u, st, s, TRUE, from) /\ Commit(event_dispatch_and_delete(st, s, TRUE, from))
      BY <2>1, <2>5, <2>6
    <2> QED BY <2>3, <2>6, <2>7, <1>1, <1>4, <1>12, LoopEnds DEF u
  <1>14. CASE ~st.ev[s].done
    <2> DEFINE c == NextOf(st, s)
               g == [f EXCEPT !.cur = c]
               v == SetTop(st, g)
               q == Append(Front(st.stack), g)
    <2>1. Commit(v) BY <1>2, <1>14 DEF f, s
    <2>2. c \in Structs \cup {None} /\ CurIs(st, c)
      <3>1. st \in Views /\ Lists(st) /\ s \in ToSet(st.list[t]) BY <1>7, <1>10, <1>11 DEF Good
      <3>2. c \in Structs \cup {None} /\ (c # None => c \in ToSet(st.list[t])) BY <3>1, NextIs
      <3> QED BY <3>2 DEF CurIs
    <2> HIDE DEF c
    <2>3. g \in Frame /\ g.kind = "iod" /\ CurIs(st, g.cur)
      <3>1. g = [f EXCEPT !.cur = c] OBVIOUS
      <3> HIDE DEF g
      <3>2. g \in IodFrame /\ g.kind = "iod" /\ g.cur = c BY <3>1, <2>2, <1>6 DEF IodFrame
      <3> QED BY <3>2, <2>2 DEF Frame
    <2> HIDE DEF g
    <2>4. st \in Views /\ st.stack # <<>> /\ st.stack \in Seq(Frame) /\ Len(st.stack) = 1
      BY <1>4, <1>10, <1>11, StackIs DEF Good
    <2>5. /\ Good(v, serials, allocated) /\ v = [st EXCEPT !.stack = q]
          /\ \A x : Held(v, x) <=> Held(st, x)
      <3>1. st.stack[Len(st.stack)].kind = "iod" BY <2>4, <1>4, <1>11
      <3> QED BY <3>1, <2>3, <2>4, <1>10, SetTopGood
    <2>6. Quiet(q)
      <3>1. q \in Seq(Frame) /\ Len(q) = 1 /\ q[1] = g BY <2>3, <2>4, SwapIs
      <3> HIDE DEF q
      <3> QED BY <3>1, <2>3, QuietLoop
    <2> HIDE DEF v, q
    <2>7. SameParts(st, v) /\ v.stack = q
      <3>1. st \in Views /\ v = [st EXCEPT !.stack = q] BY <2>4, <2>5
      <3>2. SameParts(st, v) /\ v.stack = q /\ v.iod = st.iod BY <3>1, StackParts
      <3> QED BY <3>2
    <2>8. SameLive(u, st) BY <1>10, <1>11 DEF SameLive
    <2>9. PendingExact(st) BY <2>8, <1>3, <1>12, PendingKeep
    <2>10. HeapLive(st)
      <3>1. \A x \in Structs : st.ev[x].done => u.ev[x].done BY <1>11, <1>14
      <3>2. \A x \in Structs : Kept(st, x) <=> Kept(u, x) BY <1>11 DEF Kept
      <3> QED BY <3>1, <3>2, <1>3, <1>10, <1>11, HeapSame
    <2>11. PendingExact(v) /\ HeapLive(v) BY <2>5, <2>7, <2>9, <2>10, PartsKeep
    <2>12. Settled(v) BY <2>6, <2>7, <2>11, SettledQuiet
    <2>13. v \in Views BY <2>5 DEF Good
    <2> QED BY <2>1, <2>12, <2>13, <1>1, SteadiesIs
  <1> QED BY <1>13, <1>14

\* process_expired_events() takes an event from the heap.
LEMMA ExpireSettles ==
    ASSUME Steady, NEW s \in Structs, Expire(s)
    PROVE  Steadies
  <1> DEFINE u == View
             x == Dropped(u, s)
  <1>1. stack = <<>> /\ ~ev[s].done /\ fatal' = fatal BY DEF Expire, MayExpire
  <1>2. PICK t \in process_event(x, s, {}, TRUE) : Commit(event_dispatch_and_delete(t, s, TRUE, "expired"))
    BY DEF Expire, Dropped
  <1>3. /\ Good(u, serials, allocated) /\ client \in Clients /\ u.stack = <<>> /\ u \in Views
        /\ Lists(u) /\ Firsts(u) /\ Heap(u) /\ Events(u, serials, allocated)
    BY <1>1, ViewFields, SteadyIs DEF Good
  <1>4. Live(u, s)
    <2>1. ~u.ev[s].done BY <1>1, ViewFields
    <2> QED BY <2>1, <1>3 DEF Events
  <1> HIDE DEF u
  <1>5. /\ s \notin ToSet(u.list["free"]) /\ Kept(u, s) /\ HasIod(u, s) BY <1>3, <1>4, LiveIs
  <1>6. /\ x \in Views /\ Others(u, x, s) /\ x.ev = u.ev /\ x.list = u.list /\ x.iod = u.iod
        /\ x.outcome = u.outcome /\ x.stack = u.stack /\ x.events_pending = u.events_pending
        /\ x.expirables = u.expirables \ {s} /\ Lists(x) /\ Firsts(x) /\ Heap(x)
    BY <1>3, DropIs
  <1>7. t \in process_event(x, s, {}, TRUE) OBVIOUS
  <1> HIDE DEF x
  <1>8. Touch(x, t, s) /\ t.ev[s].done
    <2>1. HasIod(x, s) BY <1>5, <1>6 DEF HasIod
    <2> QED BY <2>1, <1>6, <1>7, ProcessIs
  <1>9. t \in Views /\ Others(x, t, s) /\ Lists(t) /\ Firsts(t) /\ Heap(t) BY <1>6, <1>8, TouchKeeps
  <1>10. Others(u, t, s) BY <1>6, <1>9, OthersTrans
  <1>11. /\ t.list = u.list /\ t.expirables = u.expirables \ {s} /\ t.outcome = u.outcome
         /\ t.stack = u.stack /\ t.events_pending = u.events_pending
         /\ t.ev[s].id = u.ev[s].id /\ t.ev[s].type = u.ev[s].type /\ t.ev[s].iod = u.ev[s].iod
    BY <1>6, <1>8 DEF Touch
  <1>12. Ready(u, t, s) BY <1>8, <1>9, <1>10, <1>11 DEF Ready
  <1>13. SamePending(u, t) BY <1>6, <1>8 DEF Touch, SamePending
  <1>14. /\ s \notin ToSet(t.list["free"]) /\ s \notin t.expirables
         /\ t.ev[s].type # "timer" => s \in ToSet(t.list[t.ev[s].type])
    BY <1>5, <1>11 DEF Kept
  <1>15. Len(u.stack) = 0 BY <1>3, StackIs
  <1>16. ~(Len(u.stack) = 1 /\ u.stack[1].kind = "iod") BY <1>15
  <1>17. CallIs(u, t, s, TRUE, "expired") BY <1>14, <1>16 DEF CallIs
  <1>18. PICK from \in Origins : from = "expired" /\ from # "cancel" BY DEF Origins
  <1>19. CallIs(u, t, s, TRUE, from) /\ Commit(event_dispatch_and_delete(t, s, TRUE, from))
    BY <1>2, <1>17, <1>18
  <1>20. s \in t.expirables => from = "iod" BY <1>14
  <1> QED BY <1>1, <1>4, <1>12, <1>13, <1>18, <1>19, <1>20, LoopEnds DEF u

-----------------------------------------------------------------------------
(* nsock_pool_delete().                                                     *)

\* A step while the library works.
LEMMA StepSettles ==
    ASSUME Steady, Client \/ HandlerReturns \/ LoopRound \/ Library
    PROVE  Steadies
  <1>1. CASE Client
    <2>1. CASE \E type \in IoTypes, i \in Iods, timeout \in client.timeouts : StartIo(type, i, timeout)
      BY <2>1, StartIoSettles
    <2>2. CASE nsock_timer_create BY <2>2, TimerSettles
    <2>3. CASE \E i \in Iods, sd \in BOOLEAN : ConnectFails(i, sd) BY <2>3, ConnectFailsSettles
    <2>4. CASE \E id \in Ids, notify \in BOOLEAN : nsock_event_cancel(id, notify)
      BY <2>4, CancelSettles
    <2>5. CASE \E i \in Iods, notify \in BOOLEAN : nsock_iod_delete(i, notify)
      BY <2>5, IodDeleteSettles
    <2> QED BY <1>1, <2>1, <2>2, <2>3, <2>4, <2>5 DEF Client
  <1>2. CASE HandlerReturns BY <1>2, HandlerReturnsSettles
  <1>3. CASE LoopRound BY <1>3, LoopSettles
  <1>4. CASE Library
    <2>1. CASE DeleteStep BY <2>1, DeleteStepSettles
    <2>2. CASE DeleteNextList BY <2>2, DeleteNextListSettles
    <2>3. CASE DeleteEnd BY <2>3, DeleteEndSettles
    <2>4. CASE \E i \in Iods, bits \in (SUBSET Bits) \cup {{"x"}} : VisitIod(i, bits)
      BY <2>4, VisitIodSettles
    <2>5. CASE \E late \in BOOLEAN : ProcessOne(late) BY <2>5, ProcessOneSettles
    <2>6. CASE NextList BY <2>6, NextListSettles
    <2>7. CASE VisitEnds BY <2>7, VisitEndsSettles
    <2>8. CASE IodsDone \/ RoundEnds BY <2>8, LoopSettles
    <2>9. CASE \E s \in Structs : Expire(s) BY <2>9, ExpireSettles
    <2> QED BY <1>4, <2>1, <2>2, <2>3, <2>4, <2>5, <2>6, <2>7, <2>8, <2>9 DEF Library
  <1> QED BY <1>1, <1>2, <1>3, <1>4

\* What holds of a client whose handlers of cancelled events do not call the library: the counts are
\* right also while the library is deleted.
CalmInv == ~Reentrant => ~fatal /\ PendingExact(View) /\ (~Killing => Settled(View))

\* What is said of the next state with this client holds of it with its client.
LEMMA SettledNext ==
    ASSUME client' = client
    PROVE  /\ PendingExact(View') => PendingExact(View)'
           /\ Settled(View') => Settled(View)'
  <1>1. Iods' = Iods BY ViewsNext
  <1>2. \A i : LiveOf(View, i)' = LiveOf(View', i) BY DEF LiveOf, Live, Kept, Held, Holds
  <1>3. PendingExact(View') => PendingExact(View)' BY <1>1, <1>2 DEF PendingExact
  <1>4. Calm(View') => Calm(View)' BY DEF Calm
  <1>5. Walks(View') => Walks(View)' BY <1>2 DEF Walks, Walk
  <1>6. HeapLive(View') => HeapLive(View)' BY DEF HeapLive, Kept, Held, Holds
  <1> QED BY <1>3, <1>4, <1>5, <1>6 DEF Settled

\* The counts are right when nsock_pool_delete() has ended an event.
LEMMA EndsOnlyExact ==
    ASSUME Ending, PendingExact(View), NEW v, NEW s, EndsOnly(v, s)
    PROVE  PendingExact(v)
  <1> DEFINE u == View
  <1>1. u \in Views /\ \A x : ~Held(u, x) BY EndingIs
  <1>2. /\ s \in Structs /\ Live(u, s) /\ ~Kept(v, s) /\ Others(u, v, s) /\ v.stack = <<>>
        /\ v.ev[s].iod = u.ev[s].iod
        /\ \A i \in Iods : v.iod[i].pending = IF u.ev[s].iod = i THEN u.iod[i].pending - 1
                                              ELSE u.iod[i].pending
    BY DEF EndsOnly, Ends
  <1>3. \A x : ~Held(v, x)
    <2>1. DOMAIN v.stack = {} BY <1>2
    <2> QED BY <2>1 DEF Held
  <1>4. PendingExact(u) OBVIOUS
  <1> HIDE DEF u
  <1>5. \A x \in Structs : x # s => (Kept(v, x) <=> Kept(u, x)) BY <1>1, <1>2, KeptOthers
  <1>6. SameLiveBut(u, v, s) BY <1>1, <1>2, <1>3, <1>5 DEF SameLiveBut, Live, Others
  <1>7. ~Live(v, s) BY <1>2 DEF Live
  <1> QED BY <1>2, <1>4, <1>6, <1>7, PendingMinus

\* A step of nsock_pool_delete() keeps the counts and does not end the program.
LEMMA KillExact ==
    ASSUME Ending, ~fatal, PendingExact(View), Kill
    PROVE  PendingExact(View') /\ ~fatal'
  <1> DEFINE u == View
  <1>1. /\ u \in Views /\ (\A y : ~Held(u, y)) /\ u.stack = <<>>
    BY EndingIs
  <1>2. u.ev = ev /\ u.list = list /\ u.expirables = expirables /\ u.iod = iod BY ViewFields
  <1>3. CASE \E k \in 1..3 : KillListed(k)
    <2>1. PICK k \in 1..3 : KillListed(k) BY <1>3
    <2> DEFINE v == KilledTo(ListOrder[k])
               s == Head(list[ListOrder[k]])
    <2>2. list[ListOrder[k]] # <<>> /\ Commit(v) /\ fatal' = fatal BY <2>1, KillListedIs
    <2>3. EndsOnly(v, s) BY <2>2, KilledToIs
    <2> HIDE DEF v, s
    <2>4. PendingExact(v) BY <2>3, EndsOnlyExact
    <2>5. View' = v BY <2>2, <2>3, CommitIs DEF EndsOnly, Ends
    <2> QED BY <2>2, <2>4, <2>5
  <1>4. CASE \E s \in Structs : KillExpirable(s)
    <2>1. PICK s \in Structs : KillExpirable(s) BY <1>4
    <2>2. /\ s \in expirables /\ \A t \in IoTypes : list[t] = <<>>
          /\ ev[s].type = "timer" => Commit(KilledTimer(s))
          /\ ev[s].type # "timer" => Commit(Dropped(View, s))
          /\ fatal' = fatal
      BY <2>1, KillExpirableIs
    <2>3. CASE ev[s].type = "timer"
      <3> DEFINE v == KilledTimer(s)
      <3>1. Live(u, s) BY <1>1, <1>2, <2>2, <2>3 DEF Live, Kept
      <3>2. Commit(v) /\ EndsOnly(v, s) BY <3>1, <1>2, <2>2, <2>3, KilledTimerIs
      <3> HIDE DEF v
      <3>3. PendingExact(v) BY <3>2, EndsOnlyExact
      <3>4. View' = v BY <3>2, CommitIs DEF EndsOnly, Ends
      <3> QED BY <2>2, <3>3, <3>4
    <2>4. CASE ev[s].type # "timer"
      <3> DEFINE v == Dropped(u, s)
      <3>1. Commit(v) BY <2>2, <2>4
      <3> HIDE DEF u
      <3>2. /\ v \in Views
            /\ v.ev = u.ev /\ v.list = u.list /\ v.iod = u.iod /\ v.stack = u.stack
            /\ v.expirables = u.expirables \ {s}
        BY <1>1, DropIs
      <3> HIDE DEF v
      <3>3. \A x \in Structs : Kept(v, x) <=> Kept(u, x) BY <3>2, <1>2, <2>4 DEF Kept
      <3>4. \A x : Held(v, x) <=> Held(u, x) BY <3>2 DEF Held, Holds
      <3>5. SameLive(u, v) BY <3>2, <3>3, <3>4 DEF SameLive, Live
      <3>6. SamePending(u, v) BY <3>2 DEF SamePending
      <3>7. PendingExact(u) BY DEF u
      <3>8. PendingExact(v) BY <3>5, <3>6, <3>7, PendingKeep
      <3>9. View' = v BY <3>1, <3>2, CommitIs
      <3> QED BY <2>2, <3>8, <3>9
    <2> QED BY <2>3, <2>4
  <1>5. CASE KillIods
    <2>1. /\ expirables = {} /\ \A t \in IoTypes : list[t] = <<>>
          /\ fatal' = (\E i \in Iods : iod[i].state = "initial" /\ iod[i].pending > 0)
          /\ View' = View
      BY <1>5 DEF KillIods, View
    <2>2. \A x \in Structs : ~Live(u, x)
      <3> SUFFICES ASSUME NEW x \in Structs, Kept(u, x) PROVE FALSE BY DEF Live
      <3>1. CASE u.ev[x].type = "timer" BY <3>1, <2>1, <1>2 DEF Kept
      <3>2. CASE u.ev[x].type # "timer"
        <4>1. u.ev[x].type \in IoTypes BY <3>2, <1>1, EventIs
        <4>2. u.list[u.ev[x].type] = <<>> BY <4>1, <2>1, <1>2
        <4> QED BY <3>2, <4>2 DEF Kept, ToSet
      <3> QED BY <3>1, <3>2
    <2>3. \A i : LiveOf(u, i) = {} BY <2>2 DEF LiveOf
    <2>4. \A i \in Iods : iod[i].pending = 0 BY <2>3, <1>2, FS_EmptySet DEF PendingExact
    <2> QED BY <2>1, <2>4
  <1> QED BY <1>3, <1>4, <1>5 DEF Kill

\* Every step keeps the invariant.
LEMMA CalmNext ==
    ASSUME DeliveryInv, CalmInv, [Next]_vars
    PROVE  CalmInv'
  <1> SUFFICES ASSUME ~Reentrant'
               PROVE  (~fatal /\ PendingExact(View) /\ (~Killing => Settled(View)))'
    BY DEF CalmInv
  <1>1. client' = client /\ ~Reentrant
    <2>1. client' = client BY DEF Next, vars
    <2> QED BY <2>1 DEF Reentrant
  <1>2. ~fatal /\ PendingExact(View) /\ (~Killing => Settled(View)) BY <1>1 DEF CalmInv
  <1>3. CASE UNCHANGED vars \/ Terminating
    <2>1. View' = View /\ fatal' = fatal /\ phase' = phase BY <1>3 DEF Terminating, vars, View
    <2>2. Killing' = Killing BY <2>1 DEF Killing
    <2> QED BY <2>1, <2>2, <1>1, <1>2, SettledNext
  <1>4. CASE Killing /\ (Client \/ HandlerReturns \/ LoopRound \/ Library \/ nsock_pool_delete \/ Kill)
    <2>1. Ending BY <1>4 DEF Ending
    <2>2. Kill BY <2>1, <1>4, OnlyKill
    <2>3. PendingExact(View') /\ ~fatal' BY <2>1, <2>2, <1>2, KillExact
    <2>4. Killing'
      <3>1. CASE \E k \in 1..3 : KillListed(k) BY <3>1, KillListedIs DEF Killing
      <3>2. CASE \E s \in Structs : KillExpirable(s) BY <3>2, KillExpirableIs DEF Killing
      <3>3. CASE KillIods BY <3>3 DEF KillIods, Killing
      <3> QED BY <3>1, <3>2, <3>3, <2>2 DEF Kill
    <2> QED BY <2>3, <2>4, <1>1, SettledNext
  <1>5. CASE ~Killing /\ (Client \/ HandlerReturns \/ LoopRound \/ Library \/ nsock_pool_delete \/ Kill)
    <2>1. Steady BY <1>1, <1>2, <1>5, WorkingFrom DEF Steady
    <2>2. ~Kill
      <3>1. phase # "kill" BY <1>5 DEF Killing
      <3>2. \A k \in 1..3 : ~KillListed(k) BY <3>1 DEF KillListed
      <3>3. \A s \in Structs : ~KillExpirable(s) BY <3>1 DEF KillExpirable
      <3>4. ~KillIods BY <3>1 DEF KillIods
      <3> QED BY <3>2, <3>3, <3>4 DEF Kill
    <2>3. Steadies
      <3>1. CASE nsock_pool_delete
        <4>1. View' = View /\ fatal' = fatal BY <3>1 DEF nsock_pool_delete, View
        <4> QED BY <4>1, <2>1, SameSettles
      <3>2. CASE Client \/ HandlerReturns \/ LoopRound \/ Library BY <3>2, <2>1, StepSettles
      <3> QED BY <3>1, <3>2, <2>2, <1>5
    <2> QED BY <2>3, <1>1, SettledNext DEF Steadies, Settled
  <1> QED BY <1>3, <1>4, <1>5 DEF Next

\* Nothing is requested yet.
LEMMA CalmInit ==
    ASSUME Init
    PROVE  CalmInv
  <1>1. /\ expirables = {} /\ stack = <<>> /\ fatal = FALSE
        /\ list = [t \in IoTypes \cup {"free"} |-> <<>>]
        /\ View \in Views
    BY DeliveryInit DEF Init, DeliveryInv
  <1>2. \A i \in Iods : iod[i].pending = 0 BY DEF Init
  <1>3. View.expirables = {} /\ View.stack = <<>> /\ View.iod = iod /\ View.list = list
    BY <1>1, ViewFields
  <1>4. \A x \in Structs : ~Kept(View, x)
    <2> SUFFICES ASSUME NEW x \in Structs, Kept(View, x) PROVE FALSE OBVIOUS
    <2>1. CASE View.ev[x].type = "timer" BY <2>1, <1>3 DEF Kept
    <2>2. CASE View.ev[x].type # "timer"
      <3>1. View.ev[x].type \in IoTypes BY <2>2, <1>1, EventIs
      <3>2. View.list[View.ev[x].type] = <<>> BY <3>1, <1>1, <1>3
      <3> QED BY <2>2, <3>2 DEF Kept, ToSet
    <2> QED BY <2>1, <2>2
  <1>5. \A i : LiveOf(View, i) = {} BY <1>4 DEF LiveOf, Live
  <1>6. PendingExact(View) BY <1>2, <1>3, <1>5, FS_EmptySet DEF PendingExact
  <1>7. HeapLive(View) BY <1>3, <1>4 DEF HeapLive
  <1>8. Quiet(View.stack) BY <1>3 DEF Quiet
  <1>9. Settled(View) BY <1>6, <1>7, <1>8, SettledQuiet
  <1> QED BY <1>1, <1>6, <1>9 DEF CalmInv

\* The counts of pending events, the lists and the calls under way are right at every moment for
\* a client whose handlers of cancelled events do not call the library (nevent_delete(),
\* nsock_iod_delete(), nsock_pool_delete(), event_dispatch_and_delete()).
THEOREM CalmRight == Spec => []CalmInv
  <1>1. Init => CalmInv BY CalmInit
  <1>2. DeliveryInv /\ CalmInv /\ [Next]_vars => CalmInv' BY CalmNext
  <1> QED BY <1>1, <1>2, BooksRight, PTL DEF Spec

\* nsock_iod_delete() finds all events of its iod and nsock_pool_delete() leaves none, so that
\* neither ends the program, for any client whose handlers of cancelled events do not call the
\* library.
THEOREM NeverFatal == Spec => [](~Reentrant => NoFatal)
  <1>1. CalmInv => (~Reentrant => NoFatal) BY DEF CalmInv, NoFatal
  <1> QED BY <1>1, CalmRight, PTL

-----------------------------------------------------------------------------
(* The lists as the library's loops see them.                               *)

\* A list without duplicates is as long as the set of its elements.
LEMMA DistinctCount ==
    ASSUME NEW q \in Seq(Structs), Distinct(q)
    PROVE  Cardinality(ToSet(q)) = Len(q)
  <1>1. Len(q) \in Nat /\ DOMAIN q = 1..Len(q) /\ q \in [1..Len(q) -> ToSet(q)]
    <2>1. Len(q) \in Nat /\ DOMAIN q = 1..Len(q) /\ \A k \in 1..Len(q) : q[k] \in ToSet(q) BY SeqIs
    <2>2. q = [k \in 1..Len(q) |-> q[k]] BY <2>1
    <2> QED BY <2>1, <2>2
  <1>2. q \in Injection(1..Len(q), ToSet(q)) BY <1>1 DEF Injection, IsInjective, Distinct
  <1>3. q \in Surjection(1..Len(q), ToSet(q)) BY <1>1 DEF Surjection, ToSet
  <1>4. ExistsBijection(1..Len(q), ToSet(q)) BY <1>2, <1>3 DEF ExistsBijection, Bijection
  <1> QED BY <1>1, <1>4, FS_CountingElements

\* The least number of a set is the one that none of its members is below.
LEMMA MinIs ==
    ASSUME NEW P, P \subseteq Int, NEW p \in P, \A k \in P : p <= k
    PROVE  Min(P) = p
  <1> DEFINE m == CHOOSE x \in P : \A y \in P : x <= y
  <1>1. \E x \in P : \A y \in P : x <= y OBVIOUS
  <1>2. m \in P /\ \A y \in P : m <= y BY <1>1, Zenon
  <1>3. Min(P) = m BY Zenon DEF Min
  <1> HIDE DEF m
  <1>4. m <= p /\ p <= m /\ m \in Int /\ p \in Int BY <1>2
  <1>5. m = p BY <1>4
  <1> QED BY <1>3, <1>5

\* What PlacesAre() says of the places P of an iod, of which the pool has the first event f.
PlacesRight(u, i, t, P) ==
    /\ \A j, k \in P : j..k \subseteq P
    /\ FirstIs(u.ev, u.list[t], i, u.iod[i].first[t]) =>
           u.iod[i].first[t] = (IF P = {} THEN None ELSE u.list[t][Min(P)])

\* The places of an iod in a list are together, and the first of them holds its first event.
LEMMA PlacesAre ==
    ASSUME NEW u \in Views, Lists(u), NEW i \in Iods, NEW t \in IoTypes,
           NEW P, P = {k \in DOMAIN u.list[t] : u.ev[u.list[t][k]].iod = i}
    PROVE  PlacesRight(u, i, t, P)
  <1> DEFINE q == u.list[t]
             f == u.iod[i].first[t]
  <1>1. q \in Seq(Structs) /\ Together(u.ev, q) BY ViewIs DEF Lists
  <1> HIDE DEF q, f
  <1>2. Len(q) \in Nat /\ DOMAIN q = 1..Len(q) BY <1>1, SeqIs
  <1>3. P = {k \in DOMAIN q : u.ev[q[k]].iod = i} BY DEF q
  <1>4. ASSUME NEW j \in P, NEW k \in P, NEW m \in j..k
        PROVE  m \in P
    <2>1. /\ j \in DOMAIN q /\ k \in DOMAIN q /\ u.ev[q[j]].iod = i /\ u.ev[q[k]].iod = i BY <1>3
    <2>2. m \in DOMAIN q /\ j <= m /\ m <= k BY <2>1, <1>2
    <2>3. u.ev[q[m]].iod = u.ev[q[j]].iod BY <2>1, <2>2, <1>1 DEF Together
    <2> QED BY <2>1, <2>2, <2>3, <1>3
  <1>5. ASSUME FirstIs(u.ev, q, i, f)
        PROVE  f = (IF P = {} THEN None ELSE q[Min(P)])
    <2>1. CASE f = None /\ \A k \in DOMAIN q : u.ev[q[k]].iod # i
      <3>1. P = {} BY <2>1, <1>3
      <3> QED BY <3>1, <2>1
    <2>2. CASE \E p \in DOMAIN q : /\ q[p] = f /\ u.ev[f].iod = i
                                   /\ \A k \in DOMAIN q : u.ev[q[k]].iod = i => p <= k
      <3>1. PICK p \in DOMAIN q : /\ q[p] = f /\ u.ev[f].iod = i
                                  /\ \A k \in DOMAIN q : u.ev[q[k]].iod = i => p <= k
        BY <2>2
      <3>2. p \in P /\ (\A k \in P : p <= k) /\ P \subseteq Int BY <3>1, <1>2, <1>3
      <3>3. Min(P) = p BY <3>2, MinIs
      <3> QED BY <3>1, <3>2, <3>3
    <2> QED BY <1>5, <2>1, <2>2 DEF FirstIs
  <1>6. /\ \A j, k \in P : j..k \subseteq P
        /\ FirstIs(u.ev, q, i, f) => f = (IF P = {} THEN None ELSE q[Min(P)])
    BY <1>4, <1>5
  <1> QED BY <1>6 DEF q, f, PlacesRight

\* An event that has not ended can be found, and no other is taken for it.
LEMMA FoundIs ==
    ASSUME DeliveryInv, NEW id \in Ids, outcome[id] = "pending"
    PROVE  Cardinality(Found(id)) = 1
  <1> DEFINE u == View
  <1>1. /\ u \in Views /\ Frames(u, allocated) /\ Events(u, serials, allocated) BY DEF DeliveryInv
  <1>2. /\ u.ev = ev /\ u.list = list /\ u.expirables = expirables /\ u.outcome = outcome
        /\ u.stack = stack
    BY ViewFields
  <1> HIDE DEF u
  <1>3. PICK s \in Structs : Live(u, s) /\ u.ev[s].id = id BY <1>1, <1>2 DEF Events
  <1>4. Found(id) = {x \in Structs : u.ev[x].id = id /\ Kept(u, x)} BY <1>2 DEF Found, Kept
  <1>5. ASSUME NEW x \in Structs, u.ev[x].id = id, Kept(u, x) PROVE x = s
    <2>1. CASE Held(u, x)
      <3>1. PICK k \in DOMAIN u.stack : Holds(u, k) /\ u.stack[k].ev = x BY <2>1 DEF Held
      <3>2. HeldIs(u, x, u.stack[k].from, allocated) BY <3>1, <1>1 DEF Frames
      <3>3. u.outcome[id] = "told" BY <3>2, <1>5 DEF HeldIs
      <3> QED BY <3>3, <1>2
    <2>2. CASE ~Held(u, x)
      <3>1. Live(u, x) BY <2>2, <1>5 DEF Live
      <3> QED BY <3>1, <1>1, <1>3, <1>5 DEF Events
    <2> QED BY <2>1, <2>2
  <1>6. Kept(u, s) BY <1>3 DEF Live
  <1>7. Found(id) = {s} BY <1>3, <1>4, <1>5, <1>6
  <1> QED BY <1>7, FS_Singleton

\* The invariants say what ListsExact says.
LEMMA ListsFollow ==
    ASSUME DeliveryInv, CalmInv, ~Reentrant
    PROVE  ListsExact
  <1> DEFINE u == View
  <1>1. /\ u \in Views /\ Lists(u) /\ Heap(u) /\ (~Killing => Firsts(u) /\ HeapLive(u))
    BY DEF DeliveryInv, CalmInv, Settled
  <1>2. /\ u.ev = ev /\ u.list = list /\ u.expirables = expirables /\ u.iod = iod /\ u.stack = stack
    BY ViewFields
  <1> HIDE DEF u
  <1>3. list \in [IoTypes \cup {"free"} -> Seq(Structs)] BY <1>1, <1>2, ViewIs
  <1>4. \A t \in DOMAIN list : Cardinality(ToSet(list[t])) = Len(list[t])
    <2> SUFFICES ASSUME NEW t \in IoTypes \cup {"free"}
                 PROVE  Cardinality(ToSet(list[t])) = Len(list[t])
      BY <1>3
    <2> DEFINE q == list[t]
    <2>1. q \in Seq(Structs) /\ Distinct(q) BY <1>1, <1>2, <1>3 DEF Lists
    <2> HIDE DEF q
    <2>2. Cardinality(ToSet(q)) = Len(q) BY <2>1, DistinctCount
    <2> QED BY <2>2 DEF q
  <1>5. \A t \in IoTypes : ToSet(list[t]) \cap ToSet(list["free"]) = {}
    BY <1>1, <1>2 DEF Lists
  <1>6. expirables \cap ToSet(list["free"]) = {} BY <1>1, <1>2 DEF Heap
  <1>7. ASSUME NEW i \in Iods, NEW t \in IoTypes
        PROVE  /\ ~Killing => iod[i].first[t] = (IF Places(i, t) = {} THEN None
                                                 ELSE list[t][Min(Places(i, t))])
               /\ \A j, k \in Places(i, t) : j..k \subseteq Places(i, t)
    <2> DEFINE P == Places(i, t)
    <2>1. P = {k \in DOMAIN u.list[t] : u.ev[u.list[t][k]].iod = i} BY <1>2 DEF Places
    <2> HIDE DEF P
    <2>2. PlacesRight(u, i, t, P)
      <3>1. u \in Views /\ Lists(u) BY <1>1
      <3> QED BY <2>1, <3>1, PlacesAre, Zenon
    <2>3. ~Killing => FirstIs(u.ev, u.list[t], i, u.iod[i].first[t]) BY <1>1 DEF Firsts
    <2>4. /\ ~Killing => iod[i].first[t] = (IF P = {} THEN None ELSE list[t][Min(P)])
          /\ \A j, k \in P : j..k \subseteq P
      BY <2>2, <2>3, <1>2 DEF PlacesRight
    <2> QED BY <2>4 DEF P
  <1>8. \A id \in Ids : outcome[id] = "pending" => Cardinality(Found(id)) = 1 BY FoundIs
  <1>9. \A s \in expirables : ~Killing /\ ev[s].done =>
            \E k \in DOMAIN stack : stack[k].kind = "handler" /\ stack[k].ev = s
    <2> SUFFICES ASSUME NEW s \in expirables, ~Killing, ev[s].done
                 PROVE  \E k \in DOMAIN stack : stack[k].kind = "handler" /\ stack[k].ev = s
      OBVIOUS
    <2>1. s \in Structs
      <3>1. u.expirables \subseteq Structs BY <1>1 DEF Views
      <3> QED BY <3>1, <1>2
    <2>2. Held(u, s) BY <2>1, <1>1, <1>2 DEF HeapLive
    <2> QED BY <2>2, <1>2 DEF Held, Holds
  <1> QED BY <1>4, <1>5, <1>6, <1>7, <1>8, <1>9 DEF ListsExact

\* The lists that process_iod_events(), nsock_iod_delete() and nsock_event_cancel() walk are what
\* these functions take them for, and an event that has ended is in the heap only while its handler
\* runs, for any client whose handlers of cancelled events do not call the library.
THEOREM ListsRight == Spec => [](~Reentrant => ListsExact)
  <1>1. DeliveryInv /\ CalmInv => (~Reentrant => ListsExact) BY ListsFollow
  <1> QED BY <1>1, CalmRight, BooksRight, PTL

-----------------------------------------------------------------------------
(* The counts of reads and writes.                                          *)

\* An event that waits for the descriptor of iod i to become readable ("r") or writable ("w").
Bears(e, i, b) ==
    e.iod = i /\ ~e.done /\ (e.type = "connect" \/ (e.type = "read" <=> b = "r"))

Waits(u, i, b) == {s \in Structs : Bears(u.ev[s], i, b)}

Tally(u, i, b) ==
    /\ u.iod[i].count[b] = Cardinality(Waits(u, i, b))
    /\ b \in u.iod[i].watched <=> u.iod[i].count[b] > 0

\* What the counts are without SSL; events wait only for iods that have a descriptor.
Tallied(u) ==
    /\ \A i \in Iods : ~u.iod[i].ssl
    /\ \A s \in Structs : ~u.ev[s].done => u.ev[s].desire = "none"
    /\ \A i \in Iods : u.iod[i].state = "initial" =>
          /\ \A s \in Structs : ~u.ev[s].done /\ u.ev[s].iod = i => u.iod[i].sd
          /\ \A b \in Bits : Tally(u, i, b)

\* One count of iod i, and whether the engine watches for it, before and after.
CountSame(u, v, i, b) ==
    v.iod[i].count[b] = u.iod[i].count[b] /\ (b \in v.iod[i].watched <=> b \in u.iod[i].watched)
CountLess(u, v, i, b) ==
    /\ v.iod[i].count[b] = u.iod[i].count[b] - 1
    /\ b \in v.iod[i].watched <=> b \in u.iod[i].watched /\ v.iod[i].count[b] # 0
CountMore(u, v, i, b) == v.iod[i].count[b] = u.iod[i].count[b] + 1 /\ b \in v.iod[i].watched

\* The iods but for their counts of pending events and their first_* fields.
SameCounts(u, v) ==
    \A i \in Iods : /\ v.iod[i].state = u.iod[i].state /\ v.iod[i].sd = u.iod[i].sd
                    /\ v.iod[i].ssl = u.iod[i].ssl /\ v.iod[i].count = u.iod[i].count
                    /\ v.iod[i].watched = u.iod[i].watched

\* The same events wait.
LEMMA TallySame ==
    ASSUME NEW u, NEW v, NEW i, NEW b, Tally(u, i, b), CountSame(u, v, i, b),
           \A x \in Structs : Bears(v.ev[x], i, b) <=> Bears(u.ev[x], i, b)
    PROVE  Tally(v, i, b)
  <1>1. Waits(v, i, b) = Waits(u, i, b) BY DEF Waits
  <1> QED BY <1>1 DEF Tally, CountSame

\* One event less waits.
LEMMA TallyMinus ==
    ASSUME NEW u, NEW v, NEW i, NEW b, Tally(u, i, b), CountLess(u, v, i, b),
           NEW s \in Structs, Bears(u.ev[s], i, b), ~Bears(v.ev[s], i, b),
           \A x \in Structs : x # s => (Bears(v.ev[x], i, b) <=> Bears(u.ev[x], i, b))
    PROVE  Tally(v, i, b)
  <1> DEFINE S == Waits(u, i, b)
             T == Waits(v, i, b)
  <1>1. T = S \ {s} /\ s \in S BY DEF Waits
  <1>2. IsFiniteSet(S)
    <2>1. IsFiniteSet(Structs) BY NsockAssumption, FS_Interval DEF Structs
    <2>2. S \subseteq Structs BY DEF Waits
    <2> QED BY <2>1, <2>2, FS_Subset
  <1> HIDE DEF S, T
  <1>3. Cardinality(T) = Cardinality(S) - 1 /\ Cardinality(S) \in Nat /\ Cardinality(T) \in Nat
    <2>1. IsFiniteSet(T) /\ Cardinality(T) = Cardinality(S) - 1 BY <1>1, <1>2, FS_RemoveElement
    <2> QED BY <2>1, <1>2, FS_CardinalityType
  <1>4. u.iod[i].count[b] = Cardinality(S) /\ (b \in u.iod[i].watched <=> u.iod[i].count[b] > 0)
    BY DEF Tally, S
  <1>5. /\ v.iod[i].count[b] = u.iod[i].count[b] - 1
        /\ b \in v.iod[i].watched <=> b \in u.iod[i].watched /\ v.iod[i].count[b] # 0
    BY DEF CountLess
  <1>6. v.iod[i].count[b] = Cardinality(T) BY <1>3, <1>4, <1>5
  <1>7. b \in v.iod[i].watched <=> v.iod[i].count[b] > 0 BY <1>3, <1>4, <1>5
  <1> QED BY <1>6, <1>7 DEF Tally, T

\* One event more waits.
LEMMA TallyPlus ==
    ASSUME NEW u, NEW v, NEW i, NEW b, Tally(u, i, b), CountMore(u, v, i, b),
           NEW s \in Structs, ~Bears(u.ev[s], i, b), Bears(v.ev[s], i, b),
           \A x \in Structs : x # s => (Bears(v.ev[x], i, b) <=> Bears(u.ev[x], i, b))
    PROVE  Tally(v, i, b)
  <1> DEFINE S == Waits(u, i, b)
             T == Waits(v, i, b)
  <1>1. T = S \cup {s} /\ s \notin S BY DEF Waits
  <1>2. IsFiniteSet(S)
    <2>1. IsFiniteSet(Structs) BY NsockAssumption, FS_Interval DEF Structs
    <2>2. S \subseteq Structs BY DEF Waits
    <2> QED BY <2>1, <2>2, FS_Subset
  <1> HIDE DEF S, T
  <1>3. Cardinality(T) = Cardinality(S) + 1 /\ Cardinality(S) \in Nat
    <2>1. Cardinality(T) = Cardinality(S) + 1 BY <1>1, <1>2, FS_AddElement
    <2> QED BY <2>1, <1>2, FS_CardinalityType
  <1>4. u.iod[i].count[b] = Cardinality(S) BY DEF Tally, S
  <1>5. v.iod[i].count[b] = u.iod[i].count[b] + 1 /\ b \in v.iod[i].watched BY DEF CountMore
  <1>6. v.iod[i].count[b] = Cardinality(T) /\ v.iod[i].count[b] > 0 BY <1>3, <1>4, <1>5
  <1> QED BY <1>5, <1>6 DEF Tally, T

\* Nothing that the counts depend on changes, but that an iod may get its descriptor.
LEMMA TallyKeep ==
    ASSUME NEW u, NEW v, Tallied(u),
           \A x \in Structs : v.ev[x].done <=> u.ev[x].done,
           \A x \in Structs : ~u.ev[x].done =>
               v.ev[x].type = u.ev[x].type /\ v.ev[x].iod = u.ev[x].iod /\ v.ev[x].desire = u.ev[x].desire,
           \A i \in Iods :
               /\ ~v.iod[i].ssl
               /\ v.iod[i].state = "initial" =>
                     /\ u.iod[i].state = "initial" /\ (u.iod[i].sd => v.iod[i].sd)
                     /\ v.iod[i].count = u.iod[i].count /\ v.iod[i].watched = u.iod[i].watched
    PROVE  Tallied(v)
  <1>1. \A x \in Structs : \A i, b : Bears(v.ev[x], i, b) <=> Bears(u.ev[x], i, b) BY DEF Bears
  <1>2. \A s \in Structs : ~v.ev[s].done => v.ev[s].desire = "none" BY DEF Tallied
  <1>3. ASSUME NEW i \in Iods, v.iod[i].state = "initial"
        PROVE  /\ \A s \in Structs : ~v.ev[s].done /\ v.ev[s].iod = i => v.iod[i].sd
               /\ \A b \in Bits : Tally(v, i, b)
    <2>1. u.iod[i].state = "initial" BY <1>3
    <2>2. \A b \in Bits : Tally(u, i, b) /\ CountSame(u, v, i, b)
      BY <2>1, <1>3 DEF Tallied, CountSame
    <2>3. \A b \in Bits : Tally(v, i, b) BY <1>1, <2>2, TallySame
    <2>4. \A s \in Structs : ~v.ev[s].done /\ v.ev[s].iod = i => v.iod[i].sd
      BY <2>1, <1>3 DEF Tallied
    <2> QED BY <2>3, <2>4
  <1> QED BY <1>2, <1>3 DEF Tallied

\* The events and the counts are the same.
LEMMA TallyStays ==
    ASSUME NEW u, NEW v, Tallied(u), v.ev = u.ev, SameCounts(u, v)
    PROVE  Tallied(v)
  <1>1. \A i \in Iods : /\ ~v.iod[i].ssl /\ v.iod[i].state = u.iod[i].state
                        /\ v.iod[i].sd = u.iod[i].sd
                        /\ v.iod[i].count = u.iod[i].count /\ v.iod[i].watched = u.iod[i].watched
    BY DEF Tallied, SameCounts
  <1> QED BY <1>1, TallyKeep

\* v is u with the counts of iod i in the bits of B one less, or one more.
Fewer(u, v, i, B) ==
    /\ v \in Views /\ v.ev = u.ev
    /\ \A j \in Iods : v.iod[j].state = u.iod[j].state /\ v.iod[j].sd = u.iod[j].sd
                       /\ v.iod[j].ssl = u.iod[j].ssl
    /\ \A j \in Iods : \A c \in Bits :
          IF j = i /\ c \in B THEN CountLess(u, v, j, c) ELSE CountSame(u, v, j, c)
More(u, v, i, B) ==
    /\ v \in Views /\ v.ev = u.ev
    /\ \A j \in Iods : v.iod[j].state = u.iod[j].state /\ v.iod[j].sd = u.iod[j].sd
                       /\ v.iod[j].ssl = u.iod[j].ssl
    /\ \A j \in Iods : \A c \in Bits :
          IF j = i /\ c \in B THEN CountMore(u, v, j, c) ELSE CountSame(u, v, j, c)

\* socket_count_*_dec() changes one count of one iod.
LEMMA DecCounts ==
    ASSUME NEW u \in Views, NEW i \in Iods, NEW b \in Bits, NEW v, v = Dec(u, i, b)
    PROVE  Fewer(u, v, i, {b})
  <1> DEFINE d == [u.iod[i].count EXCEPT ![b] = u.iod[i].count[b] - 1]
             w == IF u.iod[i].count[b] - 1 = 0 THEN u.iod[i].watched \ {b} ELSE u.iod[i].watched
  <1>1. u.iod[i].count \in [Bits -> Int] /\ u.iod[i].watched \in SUBSET Bits BY IodIs
  <1>2. d[b] = u.iod[i].count[b] - 1 /\ \A c \in Bits : c # b => d[c] = u.iod[i].count[c] BY <1>1
  <1>3. (b \in w <=> b \in u.iod[i].watched /\ d[b] # 0)
        /\ \A c \in Bits : c # b => (c \in w <=> c \in u.iod[i].watched)
    BY <1>2
  <1>4. Counted(u, v, i, d, w) BY DecIs
  <1> HIDE DEF d, w
  <1>5. v.ev = u.ev BY <1>4, CountedIs
  <1>6. /\ v \in Views /\ v.iod[i].count = d /\ v.iod[i].watched = w
        /\ \A j \in Iods : /\ j # i => v.iod[j] = u.iod[j]
                           /\ v.iod[j].state = u.iod[j].state /\ v.iod[j].sd = u.iod[j].sd
                           /\ v.iod[j].ssl = u.iod[j].ssl
    BY <1>4 DEF Counted
  <1>7. CountLess(u, v, i, b) BY <1>2, <1>3, <1>6 DEF CountLess
  <1>8. \A j \in Iods : \A c \in Bits : j # i \/ c # b => CountSame(u, v, j, c)
    BY <1>2, <1>3, <1>6 DEF CountSame
  <1>9. \A j \in Iods : \A c \in Bits :
           IF j = i /\ c \in {b} THEN CountLess(u, v, j, c) ELSE CountSame(u, v, j, c)
    BY <1>7, <1>8
  <1> QED BY <1>5, <1>6, <1>9 DEF Fewer

\* socket_count_*_inc() changes one count of one iod.
LEMMA IncCounts ==
    ASSUME NEW u \in Views, NEW i \in Iods, NEW b \in Bits, NEW v, v = Inc(u, i, b)
    PROVE  More(u, v, i, {b})
  <1> DEFINE d == [u.iod[i].count EXCEPT ![b] = @ + 1]
             w == u.iod[i].watched \cup {b}
  <1>1. u.iod[i].count \in [Bits -> Int] /\ u.iod[i].watched \in SUBSET Bits BY IodIs
  <1>2. d[b] = u.iod[i].count[b] + 1 /\ \A c \in Bits : c # b => d[c] = u.iod[i].count[c] BY <1>1
  <1>3. b \in w /\ \A c \in Bits : c # b => (c \in w <=> c \in u.iod[i].watched) OBVIOUS
  <1>4. Counted(u, v, i, d, w) BY IncIs
  <1> HIDE DEF d, w
  <1>5. v.ev = u.ev BY <1>4, CountedIs
  <1>6. /\ v \in Views /\ v.iod[i].count = d /\ v.iod[i].watched = w
        /\ \A j \in Iods : /\ j # i => v.iod[j] = u.iod[j]
                           /\ v.iod[j].state = u.iod[j].state /\ v.iod[j].sd = u.iod[j].sd
                           /\ v.iod[j].ssl = u.iod[j].ssl
    BY <1>4 DEF Counted
  <1>7. CountMore(u, v, i, b) BY <1>2, <1>3, <1>6 DEF CountMore
  <1>8. \A j \in Iods : \A c \in Bits : j # i \/ c # b => CountSame(u, v, j, c)
    BY <1>2, <1>3, <1>6 DEF CountSame
  <1>9. \A j \in Iods : \A c \in Bits :
           IF j = i /\ c \in {b} THEN CountMore(u, v, j, c) ELSE CountSame(u, v, j, c)
    BY <1>7, <1>8
  <1> QED BY <1>5, <1>6, <1>9 DEF More

\* Both counts of a connect that has ended.
LEMMA DecFewer ==
    ASSUME NEW u \in Views, NEW i \in Iods
    PROVE  Fewer(u, DecAll(u, i), i, Bits)
  <1>1. PICK r \in Bits, w \in Bits : r = "r" /\ w = "w" BY DEF Bits
  <1>2. r # w /\ \A c \in Bits : c = r \/ c = w BY <1>1 DEF Bits
  <1> DEFINE x == Dec(u, i, r)
             v == Dec(x, i, w)
  <1>3. DecAll(u, i) = v BY <1>1 DEF DecAll
  <1>4. Fewer(u, x, i, {r}) BY DecCounts
  <1> HIDE DEF x
  <1>5. x \in Views BY <1>4 DEF Fewer
  <1>6. Fewer(x, v, i, {w}) BY <1>5, DecCounts
  <1> HIDE DEF v
  <1>7. ASSUME NEW j \in Iods, NEW c \in Bits
        PROVE  IF j = i /\ c \in Bits THEN CountLess(u, v, j, c) ELSE CountSame(u, v, j, c)
    <2>1. CASE j # i
      <3>1. CountSame(u, x, j, c) /\ CountSame(x, v, j, c) BY <2>1, <1>4, <1>6 DEF Fewer
      <3> QED BY <2>1, <3>1 DEF CountSame
    <2>2. CASE j = i /\ c = r
      <3>1. CountLess(u, x, j, c) BY <2>2, <1>4 DEF Fewer
      <3>2. CountSame(x, v, j, c) BY <2>2, <1>2, <1>6 DEF Fewer
      <3>3. CountLess(u, v, j, c) BY <3>1, <3>2 DEF CountLess, CountSame
      <3> QED BY <2>2, <3>3
    <2>3. CASE j = i /\ c = w
      <3>1. CountSame(u, x, j, c) BY <2>3, <1>2, <1>4 DEF Fewer
      <3>2. CountLess(x, v, j, c) BY <2>3, <1>6 DEF Fewer
      <3>3. CountLess(u, v, j, c) BY <3>1, <3>2 DEF CountLess, CountSame
      <3> QED BY <2>3, <3>3
    <2> QED BY <1>2, <2>1, <2>2, <2>3
  <1>8. Fewer(u, v, i, Bits) BY <1>4, <1>6, <1>7 DEF Fewer
  <1> QED BY <1>3, <1>8

\* Both counts of a connect that begins.
LEMMA IncMore ==
    ASSUME NEW u \in Views, NEW i \in Iods
    PROVE  More(u, IncAll(u, i), i, Bits)
  <1>1. PICK r \in Bits, w \in Bits : r = "r" /\ w = "w" BY DEF Bits
  <1>2. r # w /\ \A c \in Bits : c = r \/ c = w BY <1>1 DEF Bits
  <1> DEFINE x == Inc(u, i, r)
             v == Inc(x, i, w)
  <1>3. IncAll(u, i) = v BY <1>1 DEF IncAll
  <1>4. More(u, x, i, {r}) BY IncCounts
  <1> HIDE DEF x
  <1>5. x \in Views BY <1>4 DEF More
  <1>6. More(x, v, i, {w}) BY <1>5, IncCounts
  <1> HIDE DEF v
  <1>7. ASSUME NEW j \in Iods, NEW c \in Bits
        PROVE  IF j = i /\ c \in Bits THEN CountMore(u, v, j, c) ELSE CountSame(u, v, j, c)
    <2>1. CASE j # i
      <3>1. CountSame(u, x, j, c) /\ CountSame(x, v, j, c) BY <2>1, <1>4, <1>6 DEF More
      <3> QED BY <2>1, <3>1 DEF CountSame
    <2>2. CASE j = i /\ c = r
      <3>1. CountMore(u, x, j, c) BY <2>2, <1>4 DEF More
      <3>2. CountSame(x, v, j, c) BY <2>2, <1>2, <1>6 DEF More
      <3>3. CountMore(u, v, j, c) BY <3>1, <3>2 DEF CountMore, CountSame
      <3> QED BY <2>2, <3>3
    <2>3. CASE j = i /\ c = w
      <3>1. CountSame(u, x, j, c) BY <2>3, <1>2, <1>4 DEF More
      <3>2. CountMore(x, v, j, c) BY <2>3, <1>6 DEF More
      <3>3. CountMore(u, v, j, c) BY <3>1, <3>2 DEF CountMore, CountSame
      <3> QED BY <2>3, <3>3
    <2> QED BY <1>2, <2>1, <2>2, <2>3
  <1>8. More(u, v, i, Bits) BY <1>4, <1>6, <1>7 DEF More
  <1> QED BY <1>3, <1>8

\* The bits that an event is counted for, if its iod has a descriptor.
BitsOf(e) == IF e.type = "connect" THEN Bits ELSE IF e.type = "read" THEN {"r"} ELSE {"w"}

\* An event waits for its bits.
LEMMA BearsIs ==
    ASSUME NEW u \in Views, NEW s \in Structs, ~u.ev[s].done, NEW i, NEW b \in Bits
    PROVE  Bears(u.ev[s], i, b) <=> u.ev[s].iod = i /\ b \in BitsOf(u.ev[s])
  BY DEF Bears, BitsOf, Bits

\* The end of a handle_*_result() takes the event off the counts of its iod.
LEMMA TallyDone ==
    ASSUME NEW u \in Views, client \in Clients, Tallied(u), NEW s \in Structs, ~u.ev[s].done, HasIod(u, s),
           u.ev[s].type = "timer" => u.ev[s].iod = None, NEW status \in Status,
           NEW v, v = Done(u, s, status)
    PROVE  Tallied(v) /\ v \in Views
  <1> DEFINE e == u.ev[s]
             m == Marked(u, s, status)
             B == IF e.type = "timer" \/ ~u.iod[e.iod].sd THEN {} ELSE BitsOf(e)
  <1>1. e.type \in {"connect", "read", "write", "timer"} /\ e.desire = "none" BY EventIs DEF Tallied
  <1>2. Touch(u, m, s) /\ m.ev[s].done /\ m.iod = u.iod BY MarkedIs
  <1>3. m = Marked(u, s, status) OBVIOUS
  <1> HIDE DEF m
  <1>4. m \in Views /\ (\A x \in Structs : x # s => m.ev[x] = u.ev[x]) BY <1>2 DEF Touch
  <1>5. ~SslConnecting(u, s) BY <1>1 DEF SslConnecting, Bits
  <1>6. e.iod \in Iods => ~u.iod[e.iod].ssl BY DEF Tallied
  <1>7. Fewer(m, v, e.iod, B)
    <2>1. CASE e.type = "timer" \/ ~u.iod[e.iod].sd
      <3>1. v = m /\ B = {} BY <2>1, <1>3 DEF Done
      <3> QED BY <3>1, <1>4 DEF Fewer, CountSame
    <2>2. CASE ~(e.type = "timer" \/ ~u.iod[e.iod].sd)
      <3>1. e.iod \in Iods /\ B = BitsOf(e) BY <2>2 DEF HasIod
      <3>2. CASE e.type = "connect"
        <4>1. v = DecAll(m, e.iod) BY <3>2, <2>2, <1>3, <1>5 DEF Done
        <4>2. B = Bits BY <3>1, <3>2 DEF BitsOf
        <4> QED BY <4>1, <4>2, <3>1, <1>4, DecFewer
      <3>3. CASE e.type = "read"
        <4>1. v = Dec(m, e.iod, "r") BY <3>1, <3>3, <2>2, <1>3, <1>5, <1>6 DEF Done
        <4>2. B = {"r"} BY <3>1, <3>3 DEF BitsOf
        <4>3. PICK b \in Bits : b = "r" BY DEF Bits
        <4> HIDE DEF B
        <4>4. Fewer(m, v, e.iod, {b}) BY <4>1, <4>3, <3>1, <1>4, DecCounts
        <4> QED BY <4>2, <4>3, <4>4
      <3>4. CASE e.type = "write"
        <4>1. v = Dec(m, e.iod, "w") BY <3>1, <3>4, <2>2, <1>3, <1>5, <1>6 DEF Done
        <4>2. B = {"w"} BY <3>1, <3>4 DEF BitsOf
        <4>3. PICK b \in Bits : b = "w" BY DEF Bits
        <4> HIDE DEF B
        <4>4. Fewer(m, v, e.iod, {b}) BY <4>1, <4>3, <3>1, <1>4, DecCounts
        <4> QED BY <4>2, <4>3, <4>4
      <3> QED BY <3>2, <3>3, <3>4, <2>2, <1>1
    <2> QED BY <2>1, <2>2
  <1>8. /\ v \in Views /\ v.ev = m.ev
        /\ \A j \in Iods : v.iod[j].state = u.iod[j].state /\ v.iod[j].sd = u.iod[j].sd
                           /\ v.iod[j].ssl = u.iod[j].ssl
        /\ \A j \in Iods : \A c \in Bits :
              IF j = e.iod /\ c \in B THEN CountLess(u, v, j, c) ELSE CountSame(u, v, j, c)
    BY <1>2, <1>7 DEF Fewer, CountLess, CountSame
  <1>9. \A x \in Structs : x # s => \A j, b : Bears(v.ev[x], j, b) <=> Bears(u.ev[x], j, b)
    BY <1>4, <1>8
  <1>10. \A j, b : ~Bears(v.ev[s], j, b) BY <1>2, <1>8 DEF Bears
  <1>11. \A x \in Structs : ~v.ev[x].done => ~u.ev[x].done /\ v.ev[x] = u.ev[x] BY <1>2, <1>4, <1>8
  <1>12. ASSUME NEW j \in Iods, v.iod[j].state = "initial"
         PROVE  /\ \A x \in Structs : ~v.ev[x].done /\ v.ev[x].iod = j => v.iod[j].sd
                /\ \A b \in Bits : Tally(v, j, b)
    <2>1. u.iod[j].state = "initial" BY <1>8, <1>12
    <2>2. \A x \in Structs : ~v.ev[x].done /\ v.ev[x].iod = j => v.iod[j].sd
      BY <2>1, <1>8, <1>11 DEF Tallied
    <2>3. ASSUME NEW b \in Bits PROVE Tally(v, j, b)
      <3>1. Tally(u, j, b) BY <2>1 DEF Tallied
      <3>2. CASE Bears(u.ev[s], j, b)
        <4>1. e.iod = j /\ b \in BitsOf(e) BY <3>2, BearsIs
        <4>2. e.type # "timer" /\ u.iod[j].sd BY <4>1, <2>1, NoIod DEF Tallied
        <4>3. b \in B BY <4>1, <4>2
        <4>4. CountLess(u, v, j, b) BY <4>1, <4>3, <1>8
        <4> QED BY <3>1, <3>2, <4>4, <1>9, <1>10, TallyMinus
      <3>3. CASE ~Bears(u.ev[s], j, b)
        <4>1. ~(e.iod = j /\ b \in BitsOf(e)) BY <3>3, BearsIs
        <4>2. ~(e.iod = j /\ b \in B) BY <4>1
        <4>3. CountSame(u, v, j, b) BY <4>2, <1>8
        <4>4. \A x \in Structs : Bears(v.ev[x], j, b) <=> Bears(u.ev[x], j, b)
          BY <3>3, <1>9, <1>10
        <4> QED BY <3>1, <4>3, <4>4, TallySame
      <3> QED BY <3>2, <3>3
    <2> QED BY <2>2, <2>3
  <1>13. \A x \in Structs : ~v.ev[x].done => v.ev[x].desire = "none" BY <1>11 DEF Tallied
  <1>14. \A j \in Iods : ~v.iod[j].ssl BY <1>8 DEF Tallied
  <1> QED BY <1>8, <1>12, <1>13, <1>14 DEF Tallied

\* Without SSL, process_event() ends the event or changes nothing.
LEMMA ProcessPlain ==
    ASSUME NEW u \in Views, ~Ssl, Tallied(u), NEW s \in Structs, HasIod(u, s),
           NEW bits, NEW late \in BOOLEAN, NEW t \in process_event(u, s, bits, late)
    PROVE  t = u \/ (~u.ev[s].done /\ t = Done(u, s, "RESULT"))
  <1> DEFINE d == Done(u, s, "RESULT")
             tried == IF ~Matches(u, s, bits) THEN {u}
                      ELSE IF u.ev[s].type = "connect" THEN Connected(u, s)
                      ELSE Transferred(u, s)
  <1>1. CASE u.ev[s].done
    <2>1. t = u BY <1>1 DEF process_event
    <2> QED BY <2>1
  <1>2. CASE ~u.ev[s].done
    <2>1. t \in {IF late /\ ~x.ev[s].done THEN Done(x, s, "RESULT") ELSE x : x \in tried}
      BY <1>2, Zenon DEF process_event
    <2>2. tried \subseteq {u, d}
      <3>1. CASE ~Matches(u, s, bits) BY <3>1
      <3>2. CASE Matches(u, s, bits)
        <4>1. u.ev[s].type # "timer"
          <5>1. u.ev[s].type = "timer" => ~Matches(u, s, bits) BY DEF Matches
          <5> QED BY <5>1, <3>2
        <4>2. ~u.iod[u.ev[s].iod].ssl BY <4>1 DEF HasIod, Tallied
        <4>3. u.ev[s].desire = "none" BY <1>2 DEF Tallied
        <4>4. ~SslConnecting(u, s) BY <4>3 DEF SslConnecting, Bits
        <4> HIDE DEF d
        <4>5. Connected(u, s) = {d} BY <4>4, Zenon DEF Connected, d
        <4>6. Transferred(u, s) = {u, d} BY <4>2, Zenon DEF Transferred, d
        <4> QED BY <4>5, <4>6
      <3> QED BY <3>1, <3>2
    <2> HIDE DEF tried
    <2>3. PICK x \in tried : t = IF late /\ ~x.ev[s].done THEN Done(x, s, "RESULT") ELSE x
      BY <2>1
    <2>4. x = u \/ x = d BY <2>2
    <2>5. d.ev[s].done
      <3>1. "RESULT" \in Status BY DEF Status
      <3> QED BY <3>1, DoneIs
    <2> HIDE DEF d
    <2>6. CASE x = d BY <2>3, <2>5, <2>6, <1>2 DEF d
    <2>7. CASE x = u BY <2>3, <2>7, <1>2 DEF d
    <2> QED BY <2>4, <2>6, <2>7
  <1> QED BY <1>1, <1>2

-----------------------------------------------------------------------------
(* Every step keeps the counts of reads and writes.                         *)

\* event_dispatch_and_delete() leaves the counts alone.
LEMMA TallyEnd ==
    ASSUME NEW t \in Views, client \in Clients, Tallied(t), NEW s \in Structs, t.ev[s].id \in Ids,
           t.ev[s].done, NEW notify \in BOOLEAN, NEW from \in Origins, ~notify => from = "cancel",
           NEW v, v = event_dispatch_and_delete(t, s, notify, from)
    PROVE  v \in Views /\ Tallied(v)
  <1>1. t.ev[s].iod \in Iods \cup {None} BY EventIs
  <1>2. PICK w \in {"told", "silent"} : w = IF notify THEN "told" ELSE "silent" OBVIOUS
  <1>3. v \in Views /\ v.ev = t.ev /\ IodLess(t, v, s)
    <2>1. notify \/ (from = "cancel" /\ t.ev[s].done) OBVIOUS
    <2>2. /\ v \in Views /\ v.ev = t.ev /\ v.list = t.list /\ v.expirables = t.expirables
          /\ v.outcome = [t.outcome EXCEPT ![t.ev[s].id] = w]
          /\ v.events_pending = t.events_pending - 1 /\ IodLess(t, v, s)
          /\ Call(t, s, from) \in Frame
          /\ v.stack = IF notify THEN Append(t.stack, Call(t, s, from)) ELSE t.stack
      BY <2>1, <1>1, <1>2, DispatchIs
    <2> QED BY <2>2
  <1>4. SameCounts(t, v) BY <1>3 DEF IodLess, SameCounts
  <1> QED BY <1>3, <1>4, TallyStays

\* nevent_delete() takes an event that waits off the counts.
LEMMA TallyCancel ==
    ASSUME NEW u, NEW n, NEW a, Good(u, n, a), client \in Clients, Tallied(u), NEW s \in Structs,
           ~u.ev[s].done => Live(u, s), NEW notify \in BOOLEAN, NEW v, v = nevent_delete(u, s, notify)
    PROVE  v \in Views /\ Tallied(v)
  <1>1. u \in Views BY DEF Good
  <1>2. CASE u.ev[s].done
    <2>1. v = u BY <1>2, DeleteIs
    <2> QED BY <2>1, <1>1
  <1>3. CASE ~u.ev[s].done
    <2> DEFINE d == Done(u, s, "CANCELLED")
               t == Cancelled(u, s)
    <2>1. HasIod(u, s) /\ (u.ev[s].type = "timer" => u.ev[s].iod = None) BY <1>3, LiveIs
    <2>2. PICK status \in Status : status = "CANCELLED" BY DEF Status
    <2>3. d = Done(u, s, status) BY <2>2
    <2>4. Ready(u, t, s) /\ SameIods(d, t) /\ t.ev = d.ev BY <1>3, CancelledIs
    <2>5. v = event_dispatch_and_delete(t, s, notify, "cancel") BY <1>3, DeleteIs
    <2>6. u.ev[s].id \in Ids BY <1>3, LiveIs
    <2> HIDE DEF d, t
    <2>7. d \in Views /\ Tallied(d) BY <2>1, <2>3, <1>1, <1>3, TallyDone
    <2>8. t \in Views /\ t.ev[s].done /\ t.ev[s].id \in Ids BY <2>4, <2>6 DEF Ready
    <2>9. SameCounts(d, t) BY <2>4 DEF SameIods, SameCounts
    <2>10. Tallied(t) BY <2>4, <2>7, <2>8, <2>9, TallyStays
    <2>11. PICK from \in Origins : from = "cancel" BY DEF Origins
    <2>12. v = event_dispatch_and_delete(t, s, notify, from) BY <2>5, <2>11
    <2> QED BY <2>8, <2>10, <2>11, <2>12, TallyEnd
  <1> QED BY <1>2, <1>3

\* Without SSL, nsock_pool_add_event() counts the event for its bits.
LEMMA WantingMore ==
    ASSUME NEW u \in Views, NEW s \in Structs, Lists(u), Firsts(u), Heap(u), s \notin ToSet(u.list["free"]),
           HasIod(u, s), \A i \in Iods : ~u.iod[i].ssl
    PROVE  More(Queued(u, s), Wanting(u, s), u.ev[s].iod,
                IF u.ev[s].type = "timer" THEN {} ELSE BitsOf(u.ev[s]))
  <1> DEFINE q == Queued(u, s)
             e == u.ev[s]
             w == Wanting(u, s)
             B == IF e.type = "timer" THEN {} ELSE BitsOf(e)
  <1>1. q \in Views BY QueuedIs
  <1>2. e.type \in {"connect", "read", "write", "timer"} BY EventIs
  <1>3. w = Watching(u, s) BY DEF Wanting, HasIod
  <1>4. CASE e.type = "timer"
    <2>1. w = q /\ B = {} BY <1>3, <1>4 DEF Watching
    <2> HIDE DEF q, w, B
    <2> QED BY <2>1, <1>1 DEF More, CountSame, q, w, B
  <1>5. CASE e.type = "connect"
    <2>1. w = IncAll(q, e.iod) /\ e.iod \in Iods /\ B = Bits
      BY <1>3, <1>5 DEF Watching, HasIod, BitsOf
    <2> HIDE DEF q, w, B
    <2>2. More(q, w, e.iod, B) BY <2>1, <1>1, IncMore
    <2> QED BY <2>2 DEF q, w, B
  <1>6. CASE e.type \notin {"timer", "connect"}
    <2>1. w = Inc(q, e.iod, Bit(e)) /\ e.iod \in Iods BY <1>3, <1>6 DEF Watching, HasIod
    <2>2. Bit(e) \in Bits /\ B = {Bit(e)} BY <1>2, <1>6 DEF Bit, Bits, BitsOf
    <2> HIDE DEF q, w, B
    <2> DEFINE b == Bit(e)
    <2> HIDE DEF b
    <2>3. More(q, w, e.iod, {b}) BY <2>1, <2>2, <1>1, IncCounts DEF b
    <2> QED BY <2>2, <2>3 DEF q, w, B, b
  <1> QED BY <1>2, <1>4, <1>5, <1>6

\* An event that begins to wait for an iod with a descriptor is counted for its bits.
Begins(u, v, s, i, B) ==
    /\ u.ev[s].done /\ ~v.ev[s].done /\ v.ev[s].desire = "none" /\ v.ev[s].iod = i
    /\ v.ev[s].type = "timer" <=> i = None
    /\ B = IF v.ev[s].type = "timer" THEN {} ELSE BitsOf(v.ev[s])
    /\ \A x \in Structs : x # s => v.ev[x] = u.ev[x]
    /\ \A j \in Iods : /\ v.iod[j].state = u.iod[j].state /\ v.iod[j].ssl = u.iod[j].ssl
                       /\ u.iod[j].sd => v.iod[j].sd
                       /\ j = i => v.iod[j].sd
    /\ \A j \in Iods : \A c \in Bits :
          IF j = i /\ c \in B THEN CountMore(u, v, j, c) ELSE CountSame(u, v, j, c)

LEMMA TallyBegin ==
    ASSUME NEW u \in Views, client \in Clients, Tallied(u), NEW s \in Structs, NEW v \in Views,
           NEW i, NEW B, Begins(u, v, s, i, B)
    PROVE  Tallied(v)
  <1>0. /\ u.ev[s].done /\ ~v.ev[s].done /\ v.ev[s].desire = "none" /\ v.ev[s].iod = i
        /\ v.ev[s].type = "timer" <=> i = None
        /\ B = IF v.ev[s].type = "timer" THEN {} ELSE BitsOf(v.ev[s])
        /\ \A x \in Structs : x # s => v.ev[x] = u.ev[x]
        /\ \A j \in Iods : /\ v.iod[j].state = u.iod[j].state /\ v.iod[j].ssl = u.iod[j].ssl
                           /\ u.iod[j].sd => v.iod[j].sd
                           /\ j = i => v.iod[j].sd
        /\ \A j \in Iods : \A c \in Bits :
              IF j = i /\ c \in B THEN CountMore(u, v, j, c) ELSE CountSame(u, v, j, c)
    BY DEF Begins
  <1> DEFINE e == v.ev[s]
  <1>1. \A j, b : ~Bears(u.ev[s], j, b) BY <1>0 DEF Bears
  <1>2. \A x \in Structs : x # s => \A j, b : Bears(v.ev[x], j, b) <=> Bears(u.ev[x], j, b) BY <1>0
  <1>3. None \notin Iods BY NoIod
  <1>4. ASSUME NEW j \in Iods, v.iod[j].state = "initial"
        PROVE  /\ \A x \in Structs : ~v.ev[x].done /\ v.ev[x].iod = j => v.iod[j].sd
               /\ \A b \in Bits : Tally(v, j, b)
    <2>1. u.iod[j].state = "initial" BY <1>0, <1>4
    <2>2. ASSUME NEW x \in Structs, ~v.ev[x].done, v.ev[x].iod = j PROVE v.iod[j].sd
      <3>1. CASE x = s BY <3>1, <2>2, <1>0
      <3>2. CASE x # s BY <3>2, <2>1, <2>2, <1>0 DEF Tallied
      <3> QED BY <3>1, <3>2
    <2>3. ASSUME NEW b \in Bits PROVE Tally(v, j, b)
      <3>1. Tally(u, j, b) BY <2>1 DEF Tallied
      <3>2. Bears(e, j, b) <=> e.iod = j /\ b \in BitsOf(e) BY <1>0, BearsIs
      <3>3. CASE Bears(e, j, b)
        <4>1. e.iod = j /\ e.type # "timer" BY <3>2, <3>3, <1>0, <1>3
        <4>2. CountMore(u, v, j, b) BY <4>1, <3>2, <3>3, <1>0
        <4> HIDE DEF e
        <4>3. Bears(v.ev[s], j, b) BY <3>3 DEF e
        <4> QED BY <4>2, <4>3, <3>1, <1>1, <1>2, TallyPlus
      <3>4. CASE ~Bears(e, j, b)
        <4>1. ~(j = i /\ b \in B) BY <3>2, <3>4, <1>0
        <4>2. CountSame(u, v, j, b) BY <4>1, <1>0
        <4>3. \A x \in Structs : Bears(v.ev[x], j, b) <=> Bears(u.ev[x], j, b)
          BY <3>4, <1>1, <1>2
        <4> QED BY <3>1, <4>2, <4>3, TallySame
      <3> QED BY <3>3, <3>4
    <2> QED BY <2>2, <2>3
  <1>5. \A x \in Structs : ~v.ev[x].done => v.ev[x].desire = "none"
    <2> SUFFICES ASSUME NEW x \in Structs, ~v.ev[x].done PROVE v.ev[x].desire = "none" OBVIOUS
    <2>1. CASE x = s BY <2>1, <1>0
    <2>2. CASE x # s BY <2>2, <1>0 DEF Tallied
    <2> QED BY <2>1, <2>2
  <1>6. \A j \in Iods : ~v.iod[j].ssl BY <1>0 DEF Tallied
  <1> QED BY <1>4, <1>5, <1>6 DEF Tallied

\* Without SSL, and with the counts right so far.
Tallying == Steady /\ ~Ssl /\ Tallied(View)

\* The counts are right after what the step commits.
LEMMA TalliesIs ==
    ASSUME NEW v \in Views, Commit(v), Tallied(v)
    PROVE  Tallied(View')
  <1> QED BY CommitIs

\* A struct that event_new() may take holds no event that waits.
LEMMA DoneBefore ==
    ASSUME NEW u, NEW n, NEW a, Good(u, n, a), NEW s \in Structs, ~Live(u, s)
    PROVE  u.ev[s].done
  <1> QED BY DEF Good, Events

\* A connect begins with a new socket, or with none; a read or a write needs one.
LEMMA SocketsRise ==
    ASSUME NEW type \in IoTypes, NEW i \in Iods, Usable(i, type)
    PROVE  /\ type = "connect" => ~View.iod[i].sd
           /\ type # "connect" => View.iod[i].sd
  <1> QED BY ViewFields DEF Usable

\* The state with a new socket of iod i, or without one.
WithSocket(u, i, y) == [u EXCEPT !.iod[i].sd = y]

\* A new socket changes nothing else of the iod.
LEMMA SocketIs ==
    ASSUME NEW u \in Views, NEW i \in Iods, NEW y \in BOOLEAN, NEW v, v = WithSocket(u, i, y)
    PROVE  \A j \in Iods : /\ v.iod[j].state = u.iod[j].state /\ v.iod[j].ssl = u.iod[j].ssl
                           /\ v.iod[j].count = u.iod[j].count /\ v.iod[j].watched = u.iod[j].watched
                           /\ i = j => v.iod[j].sd = y
                           /\ i # j => v.iod[j].sd = u.iod[j].sd
  <1> DEFINE r == [u.iod[i] EXCEPT !.sd = y]
  <1>1. /\ r.sd = y /\ r.state = u.iod[i].state /\ r.ssl = u.iod[i].ssl
        /\ r.count = u.iod[i].count /\ r.watched = u.iod[i].watched
    <2>1. u.iod[i] \in IodShape BY IodIs
    <2> QED BY <2>1 DEF IodShape
  <1>2. v = [u EXCEPT !.iod = [u.iod EXCEPT ![i] = r]] BY DEF WithSocket
  <1> HIDE DEF r
  <1> DEFINE d == [u.iod EXCEPT ![i] = r]
  <1>3. \A j \in Iods : d[j] = IF j = i THEN r ELSE u.iod[j] BY ViewIs
  <1>4. v.iod = d BY <1>2 DEF Views
  <1> HIDE DEF d
  <1>5. \A j \in Iods : IF j = i THEN v.iod[j] = r ELSE v.iod[j] = u.iod[j] BY <1>3, <1>4
  <1> QED BY <1>1, <1>5

\* The iods when event_new() has taken a struct, and a connect its socket.
Sockets(u, v, i) ==
    /\ i \in Iods => v.iod[i].sd
    /\ \A j \in Iods : /\ v.iod[j].state = u.iod[j].state /\ v.iod[j].ssl = u.iod[j].ssl
                       /\ v.iod[j].count = u.iod[j].count /\ v.iod[j].watched = u.iod[j].watched
                       /\ u.iod[j].sd => v.iod[j].sd

\* A connect that starts has a socket.
LEMMA SocketOpens ==
    ASSUME NEW u \in Views, NEW z, NEW s, NEW e, NewTo(u, z, s, e), NEW i \in Iods, IodMore(u, z, i),
           NEW y \in BOOLEAN, NEW v, v = WithSocket(z, i, y)
    PROVE  NewTo(u, v, s, e) /\ (y = TRUE => Sockets(u, v, i))
  <1>1. NewTo(u, v, s, e)
    <2>1. v = [z EXCEPT !.iod[i].sd = y] BY DEF WithSocket
    <2> QED BY <2>1, NewSocket
  <1>2. z \in Views BY DEF NewTo
  <1>3. \A j \in Iods : /\ v.iod[j].state = z.iod[j].state /\ v.iod[j].ssl = z.iod[j].ssl
                        /\ v.iod[j].count = z.iod[j].count /\ v.iod[j].watched = z.iod[j].watched
                        /\ i = j => v.iod[j].sd = y
                        /\ i # j => v.iod[j].sd = z.iod[j].sd
    BY <1>2, SocketIs
  <1>4. ASSUME y = TRUE PROVE Sockets(u, v, i)
    <2>1. \A j \in Iods : u.iod[j].sd => v.iod[j].sd
      <3> SUFFICES ASSUME NEW j \in Iods, u.iod[j].sd PROVE v.iod[j].sd OBVIOUS
      <3>1. CASE i = j BY <3>1, <1>3, <1>4
      <3>2. CASE i # j BY <3>2, <1>3 DEF IodMore
      <3> QED BY <3>1, <3>2
    <2>2. v.iod[i].sd BY <1>3, <1>4
    <2> QED BY <1>3, <2>1, <2>2 DEF Sockets, IodMore
  <1> QED BY <1>1, <1>4

\* event_new() and nsock_pool_add_event() of an event whose iod has a descriptor then.
LEMMA AddedTallies ==
    ASSUME Tallying, NEW type \in IoTypes \cup {"timer"}, NEW i \in Iods \cup {None},
           NEW timeout \in BOOLEAN, type = "timer" <=> i = None, type = "timer" => timeout,
           NEW new, new = event_new(type, i, timeout), NEW st,
           \/ st = new.st /\ (i \in Iods => View.iod[i].sd)
           \/ i \in Iods /\ \E sd \in BOOLEAN : sd = TRUE /\ st = WithSocket(new.st, i, sd),
           Request(new, Added(st, new.struct))
    PROVE  Tallied(View')
  <1> DEFINE u == View
             s == new.struct
             e == Requested(type, i, timeout)
             b == IF new.fresh THEN allocated + 1 ELSE allocated
             x == Added(st, s)
             q == Queued(st, s)
             w == Wanting(st, s)
             B == IF e.type = "timer" THEN {} ELSE BitsOf(e)
  <1>1. /\ Good(u, serials, allocated) /\ client \in Clients /\ serials < MaxEvents
        /\ allocated <= serials /\ serials \in Nat /\ allocated \in Nat /\ u \in Views /\ Tallied(u)
    <2>1. serials < MaxEvents BY DEF Request
    <2>2. Steady /\ Tallied(View) BY DEF Tallying
    <2>3. serials \in 0..MaxEvents /\ allocated \in 0..serials /\ MaxEvents \in Nat
      BY <2>2, SteadyIs, WorkingIs
    <2> QED BY <2>1, <2>2, <2>3, SteadyIs
  <1>2. b = IF new.fresh THEN allocated + 1 ELSE allocated OBVIOUS
  <1>3. Commit(x) BY DEF Request
  <1> HIDE DEF b
  <1>4. NewTo(u, new.st, s, e) /\ IodMore(u, new.st, i) BY <1>1, <1>2, NewIs
  <1>5. e.type = type /\ e.iod = i /\ ~e.done /\ e.timeout = timeout /\ e.desire = "none"
    BY DEF Requested
  <1> HIDE DEF u, s, e, x
  <1>6. NewTo(u, st, s, e) /\ Sockets(u, st, i)
    <2>1. CASE st = new.st /\ (i \in Iods => View.iod[i].sd)
      <3>1. i \in Iods => u.iod[i].sd BY <2>1 DEF u
      <3> QED BY <2>1, <3>1, <1>4 DEF IodMore, Sockets
    <2>2. CASE i \in Iods /\ \E sd \in BOOLEAN : sd = TRUE /\ st = WithSocket(new.st, i, sd)
      <3>1. PICK sd \in BOOLEAN : sd = TRUE /\ st = WithSocket(new.st, i, sd) BY <2>2
      <3>2. st = WithSocket(new.st, i, sd) BY <3>1
      <3>3. NewTo(u, st, s, e) /\ (sd = TRUE => Sockets(u, st, i))
        BY <3>2, <2>2, <1>1, <1>4, SocketOpens
      <3> QED BY <3>1, <3>3
    <2> QED BY <2>1, <2>2
  <1>7. /\ st \in Views /\ st.ev[s] = e /\ s \in Structs /\ Lists(st) /\ Firsts(st) /\ Heap(st)
        /\ (\A t \in IoTypes \cup {"free"} : s \notin ToSet(st.list[t]))
        /\ (\A y \in Structs : y # s => st.ev[y] = u.ev[y]) /\ ~Live(u, s)
    BY <1>6 DEF NewTo, Others
  <1>8. HasIod(st, s) /\ (st.ev[s].type = "timer" => st.ev[s].timeout)
    BY <1>5, <1>7 DEF HasIod
  <1>9. \A j \in Iods : ~st.iod[j].ssl BY <1>1, <1>6 DEF Tallied, Sockets
  <1>10. q.ev = st.ev /\ q.iod = st.iod BY <1>7, QueuedIs
  <1>11. x \in Views /\ x.ev = w.ev /\ SameIods(w, x) BY <1>7, <1>8, EnteredIs DEF x, Entered
  <1>12. More(q, w, i, B) BY <1>5, <1>7, <1>8, <1>9, WantingMore
  <1> HIDE DEF q, w, B
  <1>13. /\ x.ev = st.ev
         /\ \A j \in Iods : /\ x.iod[j].state = u.iod[j].state /\ x.iod[j].ssl = u.iod[j].ssl
                            /\ u.iod[j].sd => x.iod[j].sd
                            /\ j = i => x.iod[j].sd
         /\ \A j \in Iods : \A c \in Bits :
               IF j = i /\ c \in B THEN CountMore(u, x, j, c) ELSE CountSame(u, x, j, c)
    <2>1. x.ev = st.ev BY <1>10, <1>11, <1>12 DEF More
    <2>2. \A j \in Iods : /\ x.iod[j].state = u.iod[j].state /\ x.iod[j].ssl = u.iod[j].ssl
                          /\ u.iod[j].sd => x.iod[j].sd
                          /\ j = i => x.iod[j].sd
      BY <1>6, <1>10, <1>11, <1>12 DEF More, SameIods, Sockets
    <2>3. \A j \in Iods : /\ q.iod[j].count = u.iod[j].count /\ q.iod[j].watched = u.iod[j].watched
                          /\ x.iod[j].count = w.iod[j].count /\ x.iod[j].watched = w.iod[j].watched
      BY <1>6, <1>10, <1>11 DEF SameIods, Sockets
    <2>4. ASSUME NEW j \in Iods, NEW c \in Bits
          PROVE  IF j = i /\ c \in B THEN CountMore(u, x, j, c) ELSE CountSame(u, x, j, c)
      <3>1. CASE j = i /\ c \in B
        <4>1. CountMore(q, w, j, c) BY <3>1, <1>12 DEF More
        <4>2. CountMore(u, x, j, c) BY <4>1, <2>3 DEF CountMore
        <4> QED BY <3>1, <4>2
      <3>2. CASE ~(j = i /\ c \in B)
        <4>1. CountSame(q, w, j, c) BY <3>2, <1>12 DEF More
        <4>2. CountSame(u, x, j, c) BY <4>1, <2>3 DEF CountSame
        <4> QED BY <3>2, <4>2
      <3> QED BY <3>1, <3>2
    <2> QED BY <2>1, <2>2, <2>4
  <1>14. u.ev[s].done BY <1>1, <1>7, DoneBefore
  <1>15. /\ ~x.ev[s].done /\ x.ev[s].desire = "none" /\ x.ev[s].iod = i
         /\ x.ev[s].type = "timer" <=> i = None
         /\ \A y \in Structs : y # s => x.ev[y] = u.ev[y]
         /\ B = IF x.ev[s].type = "timer" THEN {} ELSE BitsOf(x.ev[s])
    BY <1>5, <1>7, <1>13 DEF B
  <1>16. Begins(u, x, s, i, B) BY <1>13, <1>14, <1>15 DEF Begins
  <1>17. Tallied(x) BY <1>1, <1>7, <1>11, <1>16, TallyBegin
  <1> QED BY <1>3, <1>11, <1>17, TalliesIs

\* nsock_read(), nsock_write() and nsock_connect_*().
LEMMA StartIoTallies ==
    ASSUME Tallying, NEW type \in IoTypes, NEW i \in Iods, NEW timeout \in client.timeouts,
           StartIo(type, i, timeout)
    PROVE  Tallied(View')
  <1> DEFINE new == event_new(type, i, timeout)
             st == IF type = "connect" THEN [new.st EXCEPT !.iod[i].sd = TRUE] ELSE new.st
  <1>1. Request(new, Added(st, new.struct)) /\ Usable(i, type) BY DEF StartIo
  <1>2. Steady BY DEF Tallying
  <1>3. timeout \in BOOLEAN
    <2>1. client \in ClientType BY <1>2, SteadyIs, NoIod
    <2> QED BY <2>1 DEF ClientType
  <1>4. type # "timer" /\ i # None BY <1>2, SteadyIs, NoIod DEF IoTypes
  <1>5. new = event_new(type, i, timeout) OBVIOUS
  <1>6. \/ st = new.st /\ (i \in Iods => View.iod[i].sd)
        \/ i \in Iods /\ \E sd \in BOOLEAN : sd = TRUE /\ st = WithSocket(new.st, i, sd)
    <2> HIDE DEF new
    <2>1. CASE type = "connect"
      <3>1. PICK sd \in BOOLEAN : sd = TRUE OBVIOUS
      <3>2. st = WithSocket(new.st, i, sd) BY <2>1, <3>1 DEF WithSocket
      <3> HIDE DEF st
      <3> QED BY <3>1, <3>2
    <2>2. CASE type # "connect"
      <3>1. st = new.st BY <2>2
      <3> HIDE DEF st
      <3> QED BY <3>1, <2>2, <1>1, SocketsRise
    <2> QED BY <2>1, <2>2
  <1> HIDE DEF new, st
  <1> QED BY <1>1, <1>3, <1>4, <1>5, <1>6, AddedTallies

\* nsock_timer_create().
LEMMA TimerTallies ==
    ASSUME Tallying, nsock_timer_create
    PROVE  Tallied(View')
  <1> DEFINE new == event_new("timer", None, TRUE)
             st == new.st
  <1>1. Request(new, Added(st, new.struct)) BY DEF nsock_timer_create
  <1>2. PICK type \in IoTypes \cup {"timer"}, i \in Iods \cup {None}, timeout \in BOOLEAN :
           type = "timer" /\ i = None /\ timeout = TRUE
    OBVIOUS
  <1>3. new = event_new(type, i, timeout) BY <1>2
  <1>4. st = new.st OBVIOUS
  <1>5. i \notin Iods BY <1>2, SteadyIs, NoIod DEF Tallying
  <1> HIDE DEF new, st
  <1> QED BY <1>1, <1>2, <1>3, <1>4, <1>5, AddedTallies

\* A connect that fails at once is never counted.
LEMMA ConnectFailsTallies ==
    ASSUME Tallying, NEW i \in Iods, NEW sd \in BOOLEAN, ConnectFails(i, sd)
    PROVE  Tallied(View')
  <1> DEFINE u == View
             new == event_new("connect", i, FALSE)
             s == new.struct
             st == WithSocket(new.st, i, sd)
             e == Requested("connect", i, FALSE)
             b == IF new.fresh THEN allocated + 1 ELSE allocated
             m == Marked(st, s, "RESULT")
             z == iod_add_event(m, s)
             x == event_dispatch_and_delete(z, s, TRUE, "add")
  <1>1. Usable(i, "connect") /\ Request(new, x) BY DEF ConnectFails, WithSocket
  <1>2. /\ Good(u, serials, allocated) /\ client \in Clients /\ serials < MaxEvents
        /\ allocated <= serials /\ serials \in Nat /\ allocated \in Nat /\ u \in Views
        /\ Tallied(u) /\ serials + 1 \in Ids
    <2>1. serials < MaxEvents BY <1>1 DEF Request
    <2>2. Steady /\ Tallied(View) BY DEF Tallying
    <2>3. /\ serials \in 0..MaxEvents /\ allocated \in 0..serials /\ MaxEvents \in Nat
      BY <2>2, SteadyIs, WorkingIs
    <2>4. serials + 1 \in Ids BY <2>1, <2>3 DEF Ids
    <2> QED BY <2>1, <2>2, <2>3, <2>4, SteadyIs
  <1>3. b = IF new.fresh THEN allocated + 1 ELSE allocated OBVIOUS
  <1>4. new = event_new("connect", i, FALSE) OBVIOUS
  <1>5. ~u.iod[i].sd
    <2>1. PICK type \in IoTypes : type = "connect" BY DEF IoTypes
    <2> QED BY <2>1, <1>1, SocketsRise
  <1> HIDE DEF new
  <1>6. Commit(x) BY <1>1 DEF Request
  <1> HIDE DEF b
  <1>7. NewTo(u, new.st, s, e) /\ IodMore(u, new.st, i)
    <2>1. PICK type \in IoTypes \cup {"timer"}, j \in Iods \cup {None}, timeout \in BOOLEAN :
             type = "connect" /\ j = i /\ timeout = FALSE
      BY DEF IoTypes
    <2>2. new = event_new(type, j, timeout) /\ e = Requested(type, j, timeout) BY <2>1, <1>4
    <2> HIDE DEF e
    <2>3. NewTo(u, new.st, s, e) /\ IodMore(u, new.st, j) BY <2>2, <1>2, <1>3, NewIs
    <2> QED BY <2>1, <2>3
  <1>8. e.id = serials + 1 /\ e.type = "connect" /\ e.iod = i BY DEF Requested
  <1> HIDE DEF u, s, e
  <1>9. NewTo(u, st, s, e)
    <2>1. st = [new.st EXCEPT !.iod[i].sd = sd] BY DEF WithSocket
    <2> HIDE DEF st
    <2> QED BY <2>1, <1>2, <1>7, NewSocket
  <1>10. \A j \in Iods : /\ st.iod[j].state = u.iod[j].state /\ st.iod[j].ssl = u.iod[j].ssl
                         /\ st.iod[j].count = u.iod[j].count /\ st.iod[j].watched = u.iod[j].watched
                         /\ u.iod[j].sd => st.iod[j].sd
    <2> HIDE DEF st
    <2>1. new.st \in Views BY <1>7 DEF NewTo
    <2>2. \A j \in Iods :
             /\ st.iod[j].state = new.st.iod[j].state /\ st.iod[j].ssl = new.st.iod[j].ssl
             /\ st.iod[j].count = new.st.iod[j].count /\ st.iod[j].watched = new.st.iod[j].watched
             /\ i = j => st.iod[j].sd = sd
             /\ i # j => st.iod[j].sd = new.st.iod[j].sd
      <3>1. st = WithSocket(new.st, i, sd) BY DEF st
      <3> QED BY <3>1, <2>1, SocketIs
    <2> QED BY <2>2, <1>5, <1>7 DEF IodMore
  <1> HIDE DEF st
  <1>11. /\ st \in Views /\ st.ev[s] = e /\ s \in Structs /\ ~Live(u, s)
         /\ Lists(st) /\ Firsts(st)
         /\ \A t \in IoTypes \cup {"free"} : s \notin ToSet(st.list[t])
         /\ \A y \in Structs : y # s => st.ev[y] = u.ev[y]
    BY <1>9 DEF NewTo, Others
  <1>12. u.ev[s].done BY <1>2, <1>11, DoneBefore
  <1>13. Touch(st, m, s) /\ m.ev[s].done /\ m.iod = st.iod
    <2>1. "RESULT" \in Status BY DEF Status
    <2> QED BY <2>1, <1>11, MarkedIs
  <1> HIDE DEF m
  <1>14. /\ m \in Views /\ Lists(m) /\ Firsts(m) /\ m.list = st.list
         /\ m.ev[s].id = e.id /\ m.ev[s].type = e.type /\ m.ev[s].iod = e.iod
         /\ \A y \in Structs : y # s => m.ev[y] = u.ev[y]
    <2>1. m \in Views /\ Lists(m) /\ Firsts(m) BY <1>11, <1>13, TouchKeeps
    <2> QED BY <2>1, <1>11, <1>13 DEF Touch
  <1>15. z \in Views /\ z.ev = m.ev /\ SameIods(m, z)
    <2>1. /\ m.ev[s].type \in IoTypes /\ m.ev[s].iod \in Iods
          /\ \A t \in IoTypes \cup {"free"} : s \notin ToSet(m.list[t])
      BY <1>8, <1>11, <1>14 DEF IoTypes
    <2> QED BY <2>1, <1>11, <1>14, AddIs
  <1> HIDE DEF z
  <1>16. Tallied(z)
    <2>1. \A y \in Structs : (z.ev[y].done <=> u.ev[y].done) /\ (~u.ev[y].done => z.ev[y] = u.ev[y])
      BY <1>12, <1>13, <1>14, <1>15
    <2>2. \A j \in Iods :
             /\ ~z.iod[j].ssl
             /\ z.iod[j].state = "initial" =>
                   /\ u.iod[j].state = "initial" /\ (u.iod[j].sd => z.iod[j].sd)
                   /\ z.iod[j].count = u.iod[j].count /\ z.iod[j].watched = u.iod[j].watched
      <3>1. \A j \in Iods : ~u.iod[j].ssl BY <1>2 DEF Tallied
      <3> QED BY <3>1, <1>10, <1>13, <1>15 DEF SameIods
    <2> QED BY <2>1, <2>2, <1>2, <1>15, TallyKeep
  <1>17. x \in Views /\ Tallied(x)
    <2>1. PICK notify \in BOOLEAN, from \in Origins : notify = TRUE /\ from = "add" BY DEF Origins
    <2>2. x = event_dispatch_and_delete(z, s, notify, from) /\ (~notify => from = "cancel") BY <2>1
    <2>3. z.ev[s].id \in Ids /\ z.ev[s].done BY <1>2, <1>8, <1>13, <1>14, <1>15
    <2> HIDE DEF x
    <2> QED BY <2>2, <2>3, <1>2, <1>11, <1>15, <1>16, TallyEnd
  <1> HIDE DEF x
  <1> QED BY <1>6, <1>17, TalliesIs

\* nsock_event_cancel() takes the event off the counts.
LEMMA CancelTallies ==
    ASSUME Tallying, NEW id \in Ids, NEW notify \in BOOLEAN, nsock_event_cancel(id, notify)
    PROVE  Tallied(View')
  <1>1. PICK s \in Found(id) : ~ev[s].done /\ Commit(nevent_delete(View, s, notify))
    BY DEF nsock_event_cancel
  <1> DEFINE u == View
             v == nevent_delete(u, s, notify)
  <1>2. s \in Structs /\ ~u.ev[s].done BY <1>1, ViewFields DEF Found
  <1>3. Good(u, serials, allocated) /\ client \in Clients /\ u \in Views /\ Tallied(u)
    BY SteadyIs DEF Tallying
  <1>4. Live(u, s) BY <1>2, <1>3 DEF Good, Events
  <1>5. Commit(v) BY <1>1
  <1> HIDE DEF u
  <1>6. v \in Views /\ Tallied(v) BY <1>2, <1>3, <1>4, TallyCancel
  <1> HIDE DEF v
  <1> QED BY <1>5, <1>6, TalliesIs

\* A deleted iod counts no more.
LEMMA DeletedTallies ==
    ASSUME NEW u \in Views, Tallied(u), NEW i \in Iods, NEW v, v = Deleted(u, i)
    PROVE  Tallied(v)
  <1> DEFINE r == [u.iod[i] EXCEPT !.state = "deleted", !.sd = FALSE, !.ssl = FALSE,
                      !.registered = FALSE, !.count = [b \in Bits |-> 0], !.watched = {}]
             d == [u.iod EXCEPT ![i] = r]
  <1>1. v = [u EXCEPT !.iod = d] BY Zenon DEF Deleted
  <1>2. r.state = "deleted" /\ ~r.ssl
    <2>1. u.iod[i] \in IodShape BY IodIs
    <2> QED BY <2>1 DEF IodShape
  <1> HIDE DEF r
  <1>3. \A j \in Iods : d[j] = IF j = i THEN r ELSE u.iod[j] BY ViewIs
  <1> HIDE DEF d
  <1>4. v.ev = u.ev /\ v.iod = d BY <1>1 DEF Views
  <1>5. \A j \in Iods : /\ ~v.iod[j].ssl
                        /\ v.iod[j].state = "initial" => v.iod[j] = u.iod[j]
    BY <1>2, <1>3, <1>4 DEF Tallied
  <1> QED BY <1>4, <1>5, TallyKeep

\* The events and the iods are the same.
LEMMA PlainTallies ==
    ASSUME Tallied(View), ev' = ev, iod' = iod
    PROVE  Tallied(View')
  <1>1. View'.ev = View.ev /\ View'.iod = View.iod BY DEF View
  <1>2. SameCounts(View, View') BY <1>1 DEF SameCounts
  <1> QED BY <1>1, <1>2, TallyStays

\* A step that changes only the calls under way.
LEMMA StackTallies ==
    ASSUME Tallied(View), NEW q, Commit([View EXCEPT !.stack = q])
    PROVE  Tallied(View')
  <1>1. ev' = ev /\ iod' = iod BY DEF Commit, View
  <1> QED BY <1>1, PlainTallies

\* nsock_iod_delete() is called.
LEMMA IodDeleteTallies ==
    ASSUME Tallying, NEW i \in Iods, NEW notify \in BOOLEAN, nsock_iod_delete(i, notify)
    PROVE  Tallied(View')
  <1> DEFINE u == View
             f == [kind |-> "delete", iod |-> i, notify |-> notify, at |-> 1,
                   heads |-> [k \in 1..3 |-> iod[i].first[ListOrder[k]]],
                   cur |-> iod[i].first["connect"]]
             v == IF iod[i].pending = 0 THEN Deleted(u, i) ELSE Push(u, f)
  <1>1. Steady /\ Tallied(u) /\ Commit(v) BY DEF Tallying, nsock_iod_delete
  <1>2. Good(u, serials, allocated) /\ u \in Views BY <1>1, SteadyIs
  <1> HIDE DEF f
  <1>3. CASE iod[i].pending = 0
    <2> DEFINE w == Deleted(u, i)
    <2>1. Commit(w) BY <1>1, <1>3
    <2> HIDE DEF u, v
    <2>2. w \in Views BY <1>2, DeletedIs DEF Good
    <2>3. Tallied(w) BY <1>1, <1>2, DeletedTallies
    <2> HIDE DEF w
    <2> QED BY <2>1, <2>2, <2>3, TalliesIs
  <1>4. CASE iod[i].pending # 0
    <2> DEFINE q == Append(View.stack, f)
    <2>1. Commit([View EXCEPT !.stack = q]) BY <1>1, <1>4 DEF Push
    <2> HIDE DEF q
    <2> QED BY <2>1, <1>1, StackTallies
  <1> QED BY <1>3, <1>4

\* nsock_iod_delete() takes an event of the list it walks.
LEMMA DeleteStepTallies ==
    ASSUME Tallying, DeleteStep
    PROVE  Tallied(View')
  <1> DEFINE u == View
             f == Top(View)
             s == f.cur
             g == [f EXCEPT !.cur = NextOf(u, s)]
             w == SetTop(u, g)
             v == nevent_delete(w, s, f.notify)
  <1>0. Steady /\ Tallied(u) BY DEF Tallying
  <1>1. stack # <<>> /\ f.kind = "delete" /\ ~OthersBegin(f) /\ Commit(v) BY DEF DeleteStep
  <1>2. f = Top(View) OBVIOUS
  <1> HIDE DEF f
  <1>3. /\ f \in DeleteFrame /\ f.notify \in BOOLEAN /\ s \in Structs \cup {None}
        /\ Walk(u, f) /\ ~(s = None \/ u.ev[s].iod # f.iod) /\ f.at \in 1..3
    BY <1>0, <1>1, <1>2, DeleteAt
  <1>4. /\ Good(u, serials, allocated) /\ client \in Clients /\ u \in Views /\ Lists(u)
    BY <1>0, SteadyIs DEF Good
  <1>5. g \in DeleteFrame
    <2> DEFINE t == ListOrder[f.at]
               c == NextOf(u, s)
    <2>1. t \in IoTypes /\ s \in ToSet(u.list[t])
      <3>1. f.cur = None \/ f.cur \in ToSet(u.list[ListOrder[f.at]]) BY <1>3 DEF Walk
      <3> QED BY <3>1, <1>3, ListOrderIs
    <2>2. c \in Structs \cup {None}
      <3> HIDE DEF t, c, u, s
      <3>1. c = NextOf(u, s) BY DEF c
      <3> QED BY <3>1, <2>1, <1>4, NextIs
    <2>3. g = [f EXCEPT !.cur = c] OBVIOUS
    <2> HIDE DEF c, g
    <2> QED BY <2>2, <2>3, <1>3 DEF DeleteFrame
  <1> HIDE DEF g
  <1>6. /\ Good(w, serials, allocated) /\ w \in Views /\ SameParts(u, w) /\ w.iod = u.iod
    BY <1>0, <1>1, <1>2, <1>5, DeleteMoves
  <1>7. v = nevent_delete(w, s, f.notify) OBVIOUS
  <1> HIDE DEF u, w, v
  <1>8. Tallied(w)
    <2>1. w.ev = u.ev /\ SameCounts(u, w) BY <1>6 DEF SameParts, SameCounts
    <2> QED BY <2>1, <1>0, TallyStays
  <1>9. s \in Structs BY <1>3
  <1>10. ~w.ev[s].done => Live(w, s) BY <1>6, <1>9 DEF Good, Events
  <1>11. v \in Views /\ Tallied(v)
    <2> DEFINE b == f.notify
    <2>1. b \in BOOLEAN /\ v = nevent_delete(w, s, b) BY <1>3, <1>7
    <2> HIDE DEF b, s
    <2> QED BY <2>1, <1>4, <1>6, <1>8, <1>9, <1>10, TallyCancel
  <1> QED BY <1>1, <1>11, TalliesIs DEF v

\* nsock_iod_delete() goes to the next list.
LEMMA DeleteNextListTallies ==
    ASSUME Tallying, DeleteNextList
    PROVE  Tallied(View')
  <1> DEFINE f == Top(View)
             g == [f EXCEPT !.at = f.at + 1, !.cur = f.heads[f.at + 1]]
             q == Append(Front(View.stack), g)
  <1>1. Commit(SetTop(View, g)) BY DEF DeleteNextList
  <1> HIDE DEF g
  <1>2. Commit([View EXCEPT !.stack = q]) BY <1>1 DEF SetTop
  <1> HIDE DEF q
  <1> QED BY <1>2, StackTallies DEF Tallying

\* nsock_iod_delete() ends.
LEMMA DeleteEndTallies ==
    ASSUME Tallying, DeleteEnd
    PROVE  Tallied(View')
  <1> DEFINE u == View
             i == Top(View).iod
             q == Front(View.stack)
             w == Pop(View)
             v == Deleted(w, i)
  <1>1. /\ stack # <<>> /\ Top(View).kind = "delete"
        /\ fatal' => Commit(View)
        /\ ~fatal' => Commit(v)
    BY DEF DeleteEnd
  <1>2. Steady /\ Tallied(u) BY DEF Tallying
  <1>3. CASE fatal'
    <2>1. ev' = ev /\ iod' = iod BY <1>1, <1>3 DEF Commit, View
    <2> QED BY <2>1, <1>2, PlainTallies
  <1>4. CASE ~fatal'
    <2>1. Commit(v) BY <1>1, <1>4
    <2>2. /\ i \in Iods /\ u.stack # <<>> /\ u.stack[Len(u.stack)].kind = "delete"
      BY <1>1, <1>2, DeleteAt
    <2>3. Good(u, serials, allocated) /\ u \in Views BY <1>2, SteadyIs
    <2> HIDE DEF i
    <2>4. Good(w, serials, allocated) /\ w = [u EXCEPT !.stack = Front(u.stack)]
      <3>1. u.stack[Len(u.stack)].kind # "handler" BY <2>2
      <3> HIDE DEF u
      <3> QED BY <3>1, <2>2, <2>3, PopGood DEF u
    <2> HIDE DEF u, w
    <2>5. w \in Views /\ w.ev = u.ev /\ w.iod = u.iod
      <3>1. w \in Views BY <2>4 DEF Good
      <3> DEFINE r == Front(u.stack)
      <3>2. w = [u EXCEPT !.stack = r] BY <2>4
      <3> HIDE DEF r
      <3>3. SameParts(u, w) /\ w.iod = u.iod BY <3>2, <2>3, StackParts
      <3> QED BY <3>1, <3>3 DEF SameParts
    <2>6. Tallied(w)
      <3>1. SameCounts(u, w) BY <2>5 DEF SameCounts
      <3> QED BY <3>1, <2>5, <1>2, TallyStays
    <2>7. v \in Views BY <2>2, <2>4, DeletedIs DEF Good
    <2>8. Tallied(v) BY <2>2, <2>5, <2>6, DeletedTallies
    <2> HIDE DEF v
    <2> QED BY <2>1, <2>7, <2>8, TalliesIs
  <1> QED BY <1>3, <1>4

\* process_iod_events() begins.
LEMMA VisitIodTallies ==
    ASSUME Tallying, NEW i \in Iods, NEW bits, VisitIod(i, bits)
    PROVE  Tallied(View')
  <1> DEFINE f == ProcFrame(View, i, 1, bits)
             q == Append(View.stack, f)
  <1>1. Commit(Push(View, f)) BY DEF VisitIod
  <1> HIDE DEF f
  <1>2. Commit([View EXCEPT !.stack = q]) BY <1>1 DEF Push
  <1> HIDE DEF q
  <1> QED BY <1>2, StackTallies DEF Tallying

\* process_iod_events() goes to the next list.
LEMMA NextListTallies ==
    ASSUME Tallying, NextList
    PROVE  Tallied(View')
  <1> DEFINE f == Top(View)
             g == ProcFrame(View, f.iod, f.at + 1, f.bits)
             q == Append(Front(View.stack), g)
  <1>1. Commit(SetTop(View, g)) BY DEF NextList
  <1> HIDE DEF g
  <1>2. Commit([View EXCEPT !.stack = q]) BY <1>1 DEF SetTop
  <1> HIDE DEF q
  <1> QED BY <1>2, StackTallies DEF Tallying

\* process_iod_events() returns: an iod that was deleted is free.
LEMMA VisitEndsTallies ==
    ASSUME Tallying, VisitEnds
    PROVE  Tallied(View')
  <1> DEFINE u == View
             i == Top(View).iod
             w == Pop(View)
             z == IF w.iod[i].state = "deleted" THEN "free" ELSE w.iod[i].state
             r == [w.iod[i] EXCEPT !.state = z]
             d == [w.iod EXCEPT ![i] = r]
  <1>1. Commit([w EXCEPT !.iod = d]) /\ InProc BY DEF VisitEnds
  <1>2. Steady /\ Tallied(u) /\ u \in Views /\ Working BY SteadyIs DEF Tallying
  <1>3. i \in Iods
    <2>1. stack # <<>> /\ Top(View).kind = "iod" BY <1>1 DEF InProc
    <2>2. Top(View) \in IodFrame BY <2>1, <1>2, TopIs
    <2> QED BY <2>2 DEF IodFrame
  <1>4. w.iod = u.iod BY DEF Pop, View
  <1> HIDE DEF i
  <1>5. /\ r.state = z /\ r.sd = u.iod[i].sd /\ r.ssl = u.iod[i].ssl
        /\ r.count = u.iod[i].count /\ r.watched = u.iod[i].watched
    <2>1. w.iod[i] \in IodShape BY <1>2, <1>3, <1>4, IodIs
    <2> HIDE DEF z
    <2> QED BY <2>1, <1>4 DEF IodShape
  <1>6. z = "initial" => u.iod[i].state = "initial" BY <1>4
  <1> HIDE DEF r, z
  <1>7. \A j \in Iods : d[j] = IF j = i THEN r ELSE u.iod[j] BY <1>2, <1>4, ViewIs
  <1> HIDE DEF d
  <1>8. ev' = ev /\ iod' = d BY <1>1 DEF Commit, Pop, View
  <1>9. View'.ev = u.ev /\ View'.iod = d BY <1>8 DEF View
  <1> DEFINE v == View'
  <1>10. \A j \in Iods :
            /\ ~v.iod[j].ssl
            /\ v.iod[j].state = "initial" =>
                  /\ u.iod[j].state = "initial" /\ (u.iod[j].sd => v.iod[j].sd)
                  /\ v.iod[j].count = u.iod[j].count /\ v.iod[j].watched = u.iod[j].watched
    <2> SUFFICES ASSUME NEW j \in Iods
                 PROVE  /\ ~d[j].ssl
                        /\ d[j].state = "initial" =>
                              /\ u.iod[j].state = "initial" /\ (u.iod[j].sd => d[j].sd)
                              /\ d[j].count = u.iod[j].count /\ d[j].watched = u.iod[j].watched
      BY <1>9
    <2>1. ~u.iod[j].ssl BY <1>2 DEF Tallied
    <2>2. CASE j = i
      <3>1. d[j] = r BY <2>2, <1>7
      <3> QED BY <2>1, <2>2, <3>1, <1>5, <1>6
    <2>3. CASE j # i
      <3>1. d[j] = u.iod[j] BY <2>3, <1>7
      <3> QED BY <2>1, <3>1
    <2> QED BY <2>2, <2>3
  <1>11. v.ev = u.ev BY <1>9
  <1> HIDE DEF u, v
  <1>12. Tallied(v) BY <1>2, <1>10, <1>11, TallyKeep
  <1> QED BY <1>12 DEF v

\* A handler returns: its event has ended before.
LEMMA HandlerReturnsTallies ==
    ASSUME Tallying, HandlerReturns
    PROVE  Tallied(View')
  <1> DEFINE u == View
             h == Top(View)
             v == Finish(Pop(u), h.ev, h.from)
  <1>1. stack # <<>> /\ h.kind = "handler" /\ Commit(v)
    BY DEF HandlerReturns, InHandler
  <1>2. /\ Good(u, serials, allocated) /\ u \in Views /\ client \in Clients /\ Working
        /\ Calm(u) /\ Tallied(u)
    BY SteadyIs DEF Tallying
  <1>3. /\ u.stack # <<>> /\ h = u.stack[Len(u.stack)] /\ Len(u.stack) \in DOMAIN u.stack
    BY <1>1, <1>2, ViewFields, TopIs
  <1>4. v = Finish(Pop(u), h.ev, h.from) OBVIOUS
  <1> HIDE DEF u, h, v
  <1>5. CASE h.from = "cancel"
    <2> DEFINE s == h.ev
    <2>1. /\ Good(v, serials, allocated) /\ v.iod = u.iod
          /\ \A x \in Structs : /\ x # s => v.ev[x] = u.ev[x]
                                /\ v.ev[x].type = u.ev[x].type /\ v.ev[x].iod = u.ev[x].iod
                                /\ v.ev[x].desire = u.ev[x].desire
                                /\ v.ev[x].done <=> u.ev[x].done \/ x = s
      BY <1>1, <1>2, <1>3, <1>4, <1>5, ReturnCancel
    <2>2. IsCancel(h) BY <1>1, <1>5 DEF IsCancel
    <2>3. u.ev[s].done BY <2>2, <1>2, <1>3 DEF Calm
    <2> HIDE DEF s
    <2>4. \A x \in Structs : v.ev[x].done <=> u.ev[x].done BY <2>1, <2>3
    <2>5. \A x \in Structs : ~u.ev[x].done =>
             v.ev[x].type = u.ev[x].type /\ v.ev[x].iod = u.ev[x].iod /\ v.ev[x].desire = u.ev[x].desire
      BY <2>1
    <2>6. \A j \in Iods :
             /\ ~v.iod[j].ssl
             /\ v.iod[j].state = "initial" =>
                   /\ u.iod[j].state = "initial" /\ (u.iod[j].sd => v.iod[j].sd)
                   /\ v.iod[j].count = u.iod[j].count /\ v.iod[j].watched = u.iod[j].watched
      BY <2>1, <1>2 DEF Tallied
    <2>7. Tallied(v) BY <2>4, <2>5, <2>6, <1>2, TallyKeep
    <2>8. v \in Views BY <2>1 DEF Good
    <2> QED BY <2>7, <2>8, <1>1, TalliesIs
  <1>6. CASE h.from # "cancel"
    <2>1. Good(v, serials, allocated) /\ SameIods(u, v) /\ v.ev = u.ev
      <3>1. /\ Good(v, serials, allocated) /\ Delivers(u, v) /\ SameIods(u, v) /\ v.ev = u.ev
            /\ Others(u, v, h.ev) /\ ~Live(v, h.ev) /\ ~Live(u, h.ev) /\ h.ev \in Structs
            /\ \A x \in Structs : x # h.ev => (Held(v, x) <=> Held(u, x))
            /\ \A x \in Structs : x # h.ev => (Live(v, x) <=> Live(u, x))
            /\ h.ev \notin v.expirables /\ u.ev[h.ev].done
            /\ h.from # "iod" => v.stack = Front(u.stack)
            /\ h.from = "iod" => Len(v.stack) = 1 /\ v.stack[1].kind = "iod"
        BY <1>1, <1>2, <1>3, <1>4, <1>6, ReturnListed
      <3> QED BY <3>1
    <2>2. SameCounts(u, v) BY <2>1 DEF SameIods, SameCounts
    <2>3. Tallied(v) BY <2>1, <2>2, <1>2, TallyStays
    <2>4. v \in Views BY <2>1 DEF Good
    <2> QED BY <2>3, <2>4, <1>1, TalliesIs
  <1> QED BY <1>5, <1>6

\* process_iod_events() looks at an event.
LEMMA ProcessOneTallies ==
    ASSUME Tallying, NEW late \in BOOLEAN, ProcessOne(late)
    PROVE  Tallied(View')
  <1> DEFINE u == View
             f == Top(View)
             s == f.cur
  <1>0. Steady /\ ~Ssl /\ Tallied(u) BY DEF Tallying
  <1>1. InProc /\ ~OthersBegin(f) BY DEF ProcessOne, ListEnds
  <1>2. PICK st \in process_event(View, s, f.bits, late) :
           Commit(IF st.ev[s].done THEN event_dispatch_and_delete(st, s, TRUE, "iod")
                  ELSE SetTop(st, [f EXCEPT !.cur = NextOf(st, s)]))
    BY DEF ProcessOne
  <1>3. /\ Good(u, serials, allocated) /\ client \in Clients /\ u \in Views /\ Lists(u) /\ Working
    BY <1>0, SteadyIs DEF Good
  <1>4. s \in Structs /\ Live(u, s) BY <1>1, <1>3, WalkAt
  <1>5. PICK bits : st \in process_event(u, s, bits, late) BY <1>2
  <1> HIDE DEF u, f, s
  <1>6. u.ev[s].id \in Ids /\ HasIod(u, s) /\ (u.ev[s].type = "timer" => u.ev[s].iod = None)
    BY <1>3, <1>4, LiveIs
  <1>7. st \in Views /\ st.ev[s].id = u.ev[s].id /\ Tallied(st)
    <2>1. Touch(u, st, s) BY <1>3, <1>4, <1>5, <1>6, ProcessIs
    <2>2. st = u \/ (~u.ev[s].done /\ st = Done(u, s, "RESULT"))
      BY <1>0, <1>3, <1>4, <1>5, <1>6, ProcessPlain
    <2>3. Tallied(st)
      <3>1. CASE st = u BY <3>1, <1>0
      <3>2. CASE ~u.ev[s].done /\ st = Done(u, s, "RESULT")
        <4>1. PICK status \in Status : status = "RESULT" BY DEF Status
        <4>2. st = Done(u, s, status) /\ ~u.ev[s].done BY <3>2, <4>1
        <4> QED BY <4>2, <1>0, <1>3, <1>4, <1>6, TallyDone
      <3> QED BY <2>2, <3>1, <3>2
    <2> QED BY <2>1, <2>3 DEF Touch
  <1>8. CASE st.ev[s].done
    <2>1. Commit(event_dispatch_and_delete(st, s, TRUE, "iod")) BY <1>2, <1>8 DEF s
    <2>2. PICK notify \in BOOLEAN, from \in Origins : notify = TRUE /\ from = "iod" BY DEF Origins
    <2> DEFINE v == event_dispatch_and_delete(st, s, notify, from)
    <2>3. Commit(v) BY <2>1, <2>2
    <2>4. st.ev[s].id \in Ids /\ (~notify => from = "cancel") BY <2>2, <1>6, <1>7
    <2>5. v \in Views /\ Tallied(v) BY <2>4, <1>3, <1>4, <1>7, <1>8, TallyEnd
    <2> HIDE DEF v
    <2> QED BY <2>3, <2>5, TalliesIs
  <1>9. CASE ~st.ev[s].done
    <2> DEFINE g == [f EXCEPT !.cur = NextOf(st, s)]
               q == Append(Front(st.stack), g)
    <2>1. Commit(SetTop(st, g)) BY <1>2, <1>9 DEF f, s
    <2> HIDE DEF g
    <2>2. Commit([st EXCEPT !.stack = q]) BY <2>1 DEF SetTop
    <2> HIDE DEF q
    <2>3. ev' = st.ev /\ iod' = st.iod BY <2>2, <1>7 DEF Commit, Views
    <2>4. View'.ev = st.ev /\ View'.iod = st.iod BY <2>3 DEF View
    <2>5. SameCounts(st, View') BY <2>4 DEF SameCounts
    <2> QED BY <2>4, <2>5, <1>7, TallyStays
  <1> QED BY <1>8, <1>9

\* process_expired_events() takes an event from the heap.
LEMMA ExpireTallies ==
    ASSUME Tallying, NEW s \in Structs, Expire(s)
    PROVE  Tallied(View')
  <1> DEFINE u == View
             x == Dropped(u, s)
  <1>0. Steady /\ ~Ssl /\ Tallied(u) BY DEF Tallying
  <1>1. ~ev[s].done BY DEF Expire, MayExpire
  <1>2. PICK t \in process_event(x, s, {}, TRUE) : Commit(event_dispatch_and_delete(t, s, TRUE, "expired"))
    BY DEF Expire, Dropped
  <1>3. /\ Good(u, serials, allocated) /\ client \in Clients /\ u \in Views
        /\ Events(u, serials, allocated)
    BY <1>0, SteadyIs DEF Good
  <1>4. Live(u, s) /\ ~u.ev[s].done
    <2>1. ~u.ev[s].done BY <1>1, ViewFields
    <2> QED BY <2>1, <1>3 DEF Events
  <1> HIDE DEF u
  <1>5. /\ u.ev[s].id \in Ids /\ HasIod(u, s) /\ (u.ev[s].type = "timer" => u.ev[s].iod = None)
    BY <1>3, <1>4, LiveIs
  <1>6. x \in Views /\ x.ev = u.ev /\ x.iod = u.iod BY <1>3, DropIs
  <1>7. PICK late \in BOOLEAN : late = TRUE /\ t \in process_event(x, s, {}, late)
    <2>1. PICK late \in BOOLEAN : late = TRUE OBVIOUS
    <2>2. t \in process_event(x, s, {}, late) BY <2>1
    <2> HIDE DEF x
    <2> QED BY <2>1, <2>2
  <1> HIDE DEF x
  <1>8. HasIod(x, s) /\ Tallied(x)
    <2>1. SameCounts(u, x) BY <1>6 DEF SameCounts
    <2>2. Tallied(x) BY <2>1, <1>0, <1>6, TallyStays
    <2> QED BY <2>2, <1>5, <1>6 DEF HasIod
  <1>9. Touch(x, t, s) /\ t.ev[s].done BY <1>6, <1>7, <1>8, ProcessIs
  <1>10. t \in Views /\ t.ev[s].id \in Ids BY <1>5, <1>6, <1>9 DEF Touch
  <1>11. Tallied(t)
    <2>1. t = x \/ (~x.ev[s].done /\ t = Done(x, s, "RESULT"))
      BY <1>0, <1>6, <1>7, <1>8, ProcessPlain
    <2>2. CASE t = x BY <2>2, <1>8
    <2>3. CASE ~x.ev[s].done /\ t = Done(x, s, "RESULT")
      <3>1. PICK status \in Status : status = "RESULT" BY DEF Status
      <3>2. t = Done(x, s, status) /\ ~x.ev[s].done BY <2>3, <3>1
      <3>3. x.ev[s].type = "timer" => x.ev[s].iod = None BY <1>5, <1>6
      <3> QED BY <3>2, <3>3, <1>3, <1>6, <1>8, TallyDone
    <2> QED BY <2>1, <2>2, <2>3
  <1>12. PICK notify \in BOOLEAN, from \in Origins : notify = TRUE /\ from = "expired" BY DEF Origins
  <1> DEFINE v == event_dispatch_and_delete(t, s, notify, from)
  <1>13. Commit(v) /\ (~notify => from = "cancel") BY <1>2, <1>12
  <1>14. v \in Views /\ Tallied(v) BY <1>3, <1>9, <1>10, <1>11, <1>13, TallyEnd
  <1> HIDE DEF v
  <1> QED BY <1>13, <1>14, TalliesIs

\* Every step of the library and its client keeps the counts.
LEMMA StepTallies ==
    ASSUME Tallying, Client \/ HandlerReturns \/ LoopRound \/ Library \/ nsock_pool_delete
    PROVE  Tallied(View')
  <1>0. ASSUME LoopRound \/ IodsDone \/ RoundEnds \/ nsock_pool_delete PROVE Tallied(View')
    <2>1. ev' = ev /\ iod' = iod BY <1>0 DEF LoopRound, IodsDone, RoundEnds, nsock_pool_delete
    <2> QED BY <2>1, PlainTallies DEF Tallying
  <1>1. CASE Client
    <2>1. CASE \E type \in IoTypes, i \in Iods, timeout \in client.timeouts : StartIo(type, i, timeout)
      BY <2>1, StartIoTallies
    <2>2. CASE nsock_timer_create BY <2>2, TimerTallies
    <2>3. CASE \E i \in Iods, sd \in BOOLEAN : ConnectFails(i, sd) BY <2>3, ConnectFailsTallies
    <2>4. CASE \E id \in Ids, notify \in BOOLEAN : nsock_event_cancel(id, notify)
      BY <2>4, CancelTallies
    <2>5. CASE \E i \in Iods, notify \in BOOLEAN : nsock_iod_delete(i, notify)
      BY <2>5, IodDeleteTallies
    <2> QED BY <1>1, <2>1, <2>2, <2>3, <2>4, <2>5 DEF Client
  <1>2. CASE HandlerReturns BY <1>2, HandlerReturnsTallies
  <1>3. CASE LoopRound \/ nsock_pool_delete BY <1>0, <1>3
  <1>4. CASE Library
    <2>1. CASE DeleteStep BY <2>1, DeleteStepTallies
    <2>2. CASE DeleteNextList BY <2>2, DeleteNextListTallies
    <2>3. CASE DeleteEnd BY <2>3, DeleteEndTallies
    <2>4. CASE \E i \in Iods, bits \in (SUBSET Bits) \cup {{"x"}} : VisitIod(i, bits)
      BY <2>4, VisitIodTallies
    <2>5. CASE \E late \in BOOLEAN : ProcessOne(late) BY <2>5, ProcessOneTallies
    <2>6. CASE NextList BY <2>6, NextListTallies
    <2>7. CASE VisitEnds BY <2>7, VisitEndsTallies
    <2>8. CASE IodsDone \/ RoundEnds BY <1>0, <2>8
    <2>9. CASE \E s \in Structs : Expire(s) BY <2>9, ExpireTallies
    <2> QED BY <1>4, <2>1, <2>2, <2>3, <2>4, <2>5, <2>6, <2>7, <2>8, <2>9 DEF Library
  <1> QED BY <1>1, <1>2, <1>3, <1>4

\* The counts are right for a client without SSL whose handlers of cancelled events do not call the
\* library, until it is deleted.
CountInv == ~Reentrant /\ ~Ssl /\ ~Killing => Tallied(View)

\* Every step keeps the invariant.
LEMMA CountNext ==
    ASSUME DeliveryInv, CalmInv, CountInv, [Next]_vars
    PROVE  CountInv'
  <1>1. client' = client BY DEF Next, vars
  <1> SUFFICES ASSUME ~Reentrant, ~Ssl, ~Killing'
               PROVE  Tallied(View)'
    BY <1>1 DEF CountInv, Reentrant, Ssl
  <1>2. Tallied(View') => Tallied(View)'
    <2>1. Iods' = Iods BY <1>1, ViewsNext
    <2> QED BY <2>1 DEF Tallied, Tally, Waits, Bears
  <1>3. CASE UNCHANGED vars \/ Terminating
    <2>1. ev' = ev /\ iod' = iod /\ phase' = phase BY <1>3 DEF Terminating, vars
    <2>2. Tallied(View) BY <2>1 DEF CountInv, Killing
    <2> QED BY <2>1, <2>2, <1>2, PlainTallies
  <1>4. CASE Client \/ HandlerReturns \/ LoopRound \/ Library \/ nsock_pool_delete \/ Kill
    <2>1. ~Killing
      <3> SUFFICES ASSUME Killing PROVE FALSE OBVIOUS
      <3>1. Ending BY DEF Ending
      <3>2. Kill BY <3>1, <1>4, OnlyKill
      <3>3. CASE \E k \in 1..3 : KillListed(k) BY <3>3, KillListedIs DEF Killing
      <3>4. CASE \E s \in Structs : KillExpirable(s) BY <3>4, KillExpirableIs DEF Killing
      <3>5. CASE KillIods BY <3>5 DEF KillIods, Killing
      <3> QED BY <3>2, <3>3, <3>4, <3>5 DEF Kill
    <2>2. ~Kill
      <3>1. phase # "kill" BY <2>1 DEF Killing
      <3>2. \A k \in 1..3 : ~KillListed(k) BY <3>1 DEF KillListed
      <3>3. \A s \in Structs : ~KillExpirable(s) BY <3>1 DEF KillExpirable
      <3>4. ~KillIods BY <3>1 DEF KillIods
      <3> QED BY <3>2, <3>3, <3>4 DEF Kill
    <2>3. Steady BY <2>1, WorkingFrom DEF Steady, CalmInv
    <2>4. Tallying BY <2>1, <2>3 DEF Tallying, CountInv
    <2>5. Tallied(View') BY <2>2, <2>4, <1>4, StepTallies
    <2> QED BY <2>5, <1>2
  <1> QED BY <1>3, <1>4 DEF Next

\* No event waits yet.
LEMMA CountInit ==
    ASSUME Init
    PROVE  CountInv
  <1>1. View.ev = ev /\ View.iod = iod BY DEF View
  <1>2. /\ \A s \in Structs : View.ev[s].done
        /\ \A i \in Iods : /\ ~View.iod[i].ssl /\ View.iod[i].watched = {}
                           /\ \A b \in Bits : View.iod[i].count[b] = 0
    BY <1>1 DEF Init
  <1>3. \A i, b : Waits(View, i, b) = {} BY <1>2 DEF Waits, Bears
  <1>4. ASSUME NEW i \in Iods, NEW b \in Bits PROVE Tally(View, i, b)
    <2>1. Cardinality(Waits(View, i, b)) = 0
      <3>1. Waits(View, i, b) = {} BY <1>3
      <3> QED BY <3>1, FS_EmptySet
    <2>2. View.iod[i].count[b] = 0 /\ View.iod[i].watched = {} BY <1>2
    <2> QED BY <2>1, <2>2 DEF Tally
  <1>5. Tallied(View) BY <1>2, <1>4 DEF Tallied
  <1> QED BY <1>5 DEF CountInv

\* What the engine watches and the counts of reads and writes of each iod are right.
LEMMA CountsFollow ==
    ASSUME DeliveryInv, CountInv, ~Reentrant
    PROVE  CountsExact
  <1> SUFFICES ASSUME ~Ssl, NEW i \in Iods, iod[i].state = "initial", ~Killing, NEW b \in Bits
               PROVE  /\ iod[i].count[b] = Cardinality(Waiting(i, b))
                      /\ b \in iod[i].watched <=> iod[i].count[b] > 0
    BY DEF CountsExact
  <1>1. Tallied(View) BY DEF CountInv
  <1>2. View.ev = ev /\ View.iod = iod /\ View \in Views BY DEF View, DeliveryInv
  <1>3. Tally(View, i, b) BY <1>1, <1>2 DEF Tallied
  <1>4. ASSUME NEW s \in Structs
        PROVE  s \in Waiting(i, b) <=> Bears(ev[s], i, b)
    <2>1. CASE ev[s].done BY <2>1 DEF Waiting, Bears
    <2>2. CASE ~ev[s].done
      <3>1. ev[s].desire = "none" /\ ~iod[i].ssl BY <2>2, <1>1, <1>2 DEF Tallied
      <3>2. ev[s].desire \notin Bits BY <3>1 DEF Bits
      <3>3. ev[s].type \in {"connect", "read", "write", "timer"} BY <1>2, EventIs
      <3>4. CASE ev[s].type = "connect" BY <2>2, <3>2, <3>4 DEF Waiting, Bears
      <3>5. CASE ev[s].type # "connect" BY <2>2, <3>1, <3>5 DEF Waiting, Bears
      <3> QED BY <3>4, <3>5
    <2> QED BY <2>1, <2>2
  <1>5. Waiting(i, b) = Waits(View, i, b)
    <2>1. Waiting(i, b) \subseteq Structs BY DEF Waiting
    <2>2. Waits(View, i, b) = {s \in Structs : Bears(ev[s], i, b)} BY <1>2 DEF Waits
    <2> QED BY <2>1, <2>2, <1>4
  <1> QED BY <1>2, <1>3, <1>5 DEF Tally

\* socket_count_*_inc() and socket_count_*_dec() keep the number of events that wait to read and to
\* write on each iod, and the engine watches for exactly those, for any client without SSL whose
\* handlers of cancelled events do not call the library.
THEOREM CountsRight == Spec => [](~Reentrant => CountsExact)
  <1>1. Init => CountInv BY CountInit
  <1>2. DeliveryInv /\ CalmInv /\ CountInv /\ [Next]_vars => CountInv' BY CountNext
  <1>3. DeliveryInv /\ CountInv => (~Reentrant => CountsExact) BY CountsFollow
  <1> QED BY <1>1, <1>2, <1>3, CalmRight, BooksRight, PTL DEF Spec
=============================================================================
