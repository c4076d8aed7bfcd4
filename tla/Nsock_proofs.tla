---------------------------- MODULE Nsock_proofs ----------------------------
(***************************************************************************)
(* The event library delivers every event exactly once, for any clients,   *)
(* any numbers of events and iods, and any engine.                         *)
(*                                                                         *)
(* DeliveryInv says that the library's books agree: an event that has not  *)
(* ended is on the list of its kind, or in the heap if it is a timer, and  *)
(* its handler has not been called.  The calls under way need their part   *)
(* of it, for an event whose handler runs stays on its list meanwhile, and *)
(* the handler may request, cancel and delete whatever it likes.           *)
(***************************************************************************)
EXTENDS Nsock, FiniteSetTheorems, SequenceTheorems, TLAPS

Status == {"NONE", "RESULT", "CANCELLED", "KILL"}
Verdict == {"unused", "pending", "told", "silent"}

\* As in TypeOK, but the counts kept by hand are only known to be integers.
IodShape == [state : {"initial", "deleted", "free"}, sd : BOOLEAN, ssl : BOOLEAN,
             registered : BOOLEAN, pending : Int, count : [Bits -> Int], watched : SUBSET Bits,
             first : [IoTypes -> Structs \cup {None}]]

HandlerFrame == [kind : {"handler"}, ev : Structs, from : {"iod", "expired", "add", "cancel"},
                 status : Status]
IodFrame == [kind : {"iod"}, iod : Iods, at : 1..3, bits : SUBSET (Bits \cup {"x"}),
             cur : Structs \cup {None}, last : Structs \cup {None}]
DeleteFrame == [kind : {"delete"}, iod : Iods, notify : BOOLEAN, at : 1..3,
                heads : [1..3 -> Structs \cup {None}], cur : Structs \cup {None}]
Frame == HandlerFrame \cup IodFrame \cup DeleteFrame

Views == [ev : [Structs -> Event], list : [IoTypes \cup {"free"} -> Seq(Structs)],
          expirables : SUBSET Structs, iod : [Iods -> IodShape], events_pending : Int,
          outcome : [Ids -> Verdict], stack : Seq(Frame)]

-----------------------------------------------------------------------------
(* The lists.                                                               *)

Distinct(q) == \A j, k \in DOMAIN q : q[j] = q[k] => j = k

\* The events of one iod are next to each other.
Together(E, q) ==
    \A j, m, k \in DOMAIN q :
        j <= m /\ m <= k /\ E[q[j]].iod = E[q[k]].iod => E[q[m]].iod = E[q[j]].iod

\* f is None and q holds no event of iod i, or it is the first that q holds.
FirstIs(E, q, i, f) ==
    \/ f = None /\ \A k \in DOMAIN q : E[q[k]].iod # i
    \/ \E p \in DOMAIN q : /\ q[p] = f /\ E[f].iod = i
                           /\ \A k \in DOMAIN q : E[q[k]].iod = i => p <= k

Lists(u) ==
    /\ \A t \in IoTypes \cup {"free"} : Distinct(u.list[t])
    /\ \A t \in IoTypes : /\ Together(u.ev, u.list[t])
                          /\ \A s \in ToSet(u.list[t]) : /\ u.ev[s].type = t /\ u.ev[s].iod \in Iods
                                                         /\ s \notin ToSet(u.list["free"])

Firsts(u) == \A i \in Iods, t \in IoTypes : FirstIs(u.ev, u.list[t], i, u.iod[i].first[t])

Heap(u) == u.expirables \cap ToSet(u.list["free"]) = {}

-----------------------------------------------------------------------------
(* The calls under way.                                                     *)

\* The k-th call runs the handler of an event that is still on its list.
Holds(u, k) == u.stack[k].kind = "handler" /\ u.stack[k].from # "cancel"
Held(u, s) == \E k \in DOMAIN u.stack : Holds(u, k) /\ u.stack[k].ev = s

Kept(u, s) == IF u.ev[s].type = "timer" THEN s \in u.expirables ELSE s \in ToSet(u.list[u.ev[s].type])
Live(u, s) == Kept(u, s) /\ ~Held(u, s)

\* An event whose handler runs has been accounted for and is still on its list.
HeldIs(u, s, from, a) ==
    /\ s <= a /\ u.ev[s].done /\ s \notin ToSet(u.list["free"])
    /\ u.ev[s].id \in Ids /\ u.outcome[u.ev[s].id] = "told"
    /\ from \in {"expired", "add"} => s \notin u.expirables
    /\ IF u.ev[s].type = "timer" THEN from = "expired" /\ u.ev[s].iod = None
       ELSE s \in ToSet(u.list[u.ev[s].type])

\* Where process_iod_events() goes on: an event on a list, if there is one.
CurIs(u, c) == c = None \/ \E t \in IoTypes : c \in ToSet(u.list[t])

\* The handlers of events that are still on their lists run for different events;
\* process_iod_events() is below all other calls, and waits at the event whose handler it called.
Frames(u, a) ==
    /\ \A k \in DOMAIN u.stack : u.stack[k].kind = "iod" => k = 1
    /\ \A k \in DOMAIN u.stack :
          Holds(u, k) /\ u.stack[k].from = "iod" =>
              k = 2 /\ u.stack[1].kind = "iod" /\ u.stack[1].cur = u.stack[k].ev
    /\ Len(u.stack) > 1 /\ u.stack[1].kind = "iod" =>
          u.stack[2].kind = "handler" /\ u.stack[2].from = "iod"
    /\ Len(u.stack) = 1 /\ u.stack[1].kind = "iod" => CurIs(u, u.stack[1].cur)
    /\ \A j, k \in DOMAIN u.stack : Holds(u, j) /\ Holds(u, k) /\ u.stack[j].ev = u.stack[k].ev => j = k
    /\ \A k \in DOMAIN u.stack : Holds(u, k) => HeldIs(u, u.stack[k].ev, u.stack[k].from, a)

\* The events that have not ended are the live structs.
Events(u, n, a) ==
    /\ \A s \in Structs : ~u.ev[s].done => Live(u, s)
    /\ \A s \in Structs : Live(u, s) =>
          /\ s <= a /\ u.ev[s].id \in Ids /\ u.outcome[u.ev[s].id] = "pending"
          /\ u.ev[s].type = "timer" => u.ev[s].iod = None
    /\ \A s, r \in Structs : Live(u, s) /\ Live(u, r) /\ u.ev[s].id = u.ev[r].id => s = r
    /\ \A id \in Ids : u.outcome[id] = "pending" => \E s \in Structs : Live(u, s) /\ u.ev[s].id = id
    /\ \A id \in Ids : u.outcome[id] = "unused" <=> id > n
    /\ \A s \in ToSet(u.list["free"]) \cup u.expirables : s <= a

PendingOf(u) == {id \in Ids : u.outcome[id] = "pending"}

Bookkeeping ==
    /\ serials \in 0..MaxEvents /\ allocated \in 0..serials
    /\ phase \in {"client", "iods", "expired", "kill", "deleted"}
    /\ Killing => stack = <<>>
    /\ todo \subseteq Iods /\ client \in Clients /\ fatal \in BOOLEAN
    /\ \A k \in DOMAIN stack : stack[k].kind = "iod" => phase = "iods"

DeliveryInv ==
    /\ View \in Views /\ Bookkeeping
    /\ Lists(View) /\ Heap(View) /\ (~Killing => Firsts(View))
    /\ Frames(View, allocated) /\ Events(View, serials, allocated)
    /\ ~Killing => events_pending = Cardinality(PendingIds)

-----------------------------------------------------------------------------
(* Sequences without duplicates.                                            *)

\* What a sequence of elements of S is, in the form the other proofs use.
LEMMA SeqIs ==
    ASSUME NEW S, NEW q \in Seq(S)
    PROVE  /\ Len(q) \in Nat /\ DOMAIN q = 1..Len(q)
           /\ \A k \in 1..Len(q) : q[k] \in S /\ q[k] \in ToSet(q)
           /\ \A x \in ToSet(q) : x \in S /\ \E k \in 1..Len(q) : q[k] = x
           /\ ToSet(q) \subseteq S
           /\ q = <<>> <=> Len(q) = 0
  <1>1. Len(q) \in Nat /\ DOMAIN q = 1..Len(q) BY LenProperties
  <1>2. \A k \in 1..Len(q) : q[k] \in S BY ElementOfSeq
  <1>3. q = <<>> <=> Len(q) = 0 BY EmptySeq
  <1> QED BY <1>1, <1>2, <1>3 DEF ToSet

\* The place that At() finds.
LEMMA AtIs ==
    ASSUME NEW q, NEW s \in ToSet(q)
    PROVE  At(q, s) \in DOMAIN q /\ q[At(q, s)] = s
  <1>1. \E k \in DOMAIN q : q[k] = s BY DEF ToSet
  <1> QED BY <1>1 DEF At

\* A sequence without its p-th element.
LEMMA RemoveAtIs ==
    ASSUME NEW S, NEW q \in Seq(S), NEW p \in 1..Len(q)
    PROVE  /\ RemoveAt(q, p) \in Seq(S) /\ Len(RemoveAt(q, p)) = Len(q) - 1
           /\ \A k \in 1..(Len(q) - 1) : RemoveAt(q, p)[k] = IF k < p THEN q[k] ELSE q[k + 1]
  <1> DEFINE a == SubSeq(q, 1, p - 1)
             b == SubSeq(q, p + 1, Len(q))
  <1>1. Len(q) \in Nat /\ \A k \in 1..Len(q) : q[k] \in S BY SeqIs
  <1>2. a \in Seq(S) /\ Len(a) = p - 1 /\ \A k \in 1..(p - 1) : a[k] = q[k]
    <2>1. \A k \in 1..(p - 1) : q[k] \in S BY <1>1
    <2> QED BY <1>1, <2>1, SubSeqProperties
  <1>3. b \in Seq(S) /\ Len(b) = Len(q) - p /\ \A k \in 1..(Len(q) - p) : b[k] = q[k + p]
    <2>1. \A k \in (p + 1)..Len(q) : q[k] \in S BY <1>1
    <2>2. /\ b \in Seq(S) /\ Len(b) = IF p + 1 <= Len(q) THEN Len(q) - (p + 1) + 1 ELSE 0
          /\ \A k \in 1..(Len(q) - (p + 1) + 1) : b[k] = q[p + 1 + k - 1]
      <3> HIDE DEF b
      <3>1. p + 1 \in Int /\ Len(q) \in Int BY <1>1
      <3> QED BY <3>1, <2>1, SubSeqProperties DEF b
    <2> HIDE DEF b
    <2> QED BY <1>1, <2>2
  <1>4. RemoveAt(q, p) = a \o b BY DEF RemoveAt
  <1> HIDE DEF a, b
  <1>5. /\ a \o b \in Seq(S) /\ Len(a \o b) = Len(a) + Len(b)
        /\ \A k \in 1..(Len(a) + Len(b)) : (a \o b)[k] = IF k <= Len(a) THEN a[k] ELSE b[k - Len(a)]
    BY <1>2, <1>3, ConcatProperties
  <1>6. ASSUME NEW k \in 1..(Len(q) - 1)
        PROVE  (a \o b)[k] = IF k < p THEN q[k] ELSE q[k + 1]
    <2>1. (a \o b)[k] = IF k <= p - 1 THEN a[k] ELSE b[k - (p - 1)]
      BY <1>1, <1>2, <1>3, <1>5
    <2>2. CASE k < p
      BY <2>1, <2>2, <1>1, <1>2
    <2>3. CASE ~(k < p)
      <3>1. k - (p - 1) \in 1..(Len(q) - p) /\ (k - (p - 1)) + p = k + 1 /\ ~(k <= p - 1)
        BY <2>3, <1>1
      <3>2. b[k - (p - 1)] = q[k + 1] BY <3>1, <1>3
      <3> QED BY <2>1, <2>3, <3>1, <3>2
    <2> QED BY <2>2, <2>3
  <1> QED BY <1>1, <1>2, <1>3, <1>4, <1>5, <1>6

\* r is q with s put before its p-th element.
Inserted(S, r, q, p, s) ==
    /\ r \in Seq(S) /\ Len(r) = Len(q) + 1
    /\ \A k \in 1..(Len(q) + 1) : r[k] = IF k < p THEN q[k] ELSE IF k = p THEN s ELSE q[k - 1]

\* A sequence with s put before its p-th element.
LEMMA InsertAtIs ==
    ASSUME NEW S, NEW q \in Seq(S), NEW p \in 1..Len(q), NEW s \in S
    PROVE  Inserted(S, InsertAt(q, p, s), q, p, s)
  <1> DEFINE a == SubSeq(q, 1, p - 1)
             b == SubSeq(q, p, Len(q))
             c == a \o <<s>>
  <1>1. Len(q) \in Nat /\ \A k \in 1..Len(q) : q[k] \in S BY SeqIs
  <1>2. a \in Seq(S) /\ Len(a) = p - 1 /\ \A k \in 1..(p - 1) : a[k] = q[k]
    <2>1. \A k \in 1..(p - 1) : q[k] \in S BY <1>1
    <2> QED BY <1>1, <2>1, SubSeqProperties
  <1>3. b \in Seq(S) /\ Len(b) = Len(q) - p + 1 /\ \A k \in 1..(Len(q) - p + 1) : b[k] = q[k + p - 1]
    <2>1. \A k \in p..Len(q) : q[k] \in S BY <1>1
    <2>2. /\ b \in Seq(S) /\ Len(b) = IF p <= Len(q) THEN Len(q) - p + 1 ELSE 0
          /\ \A k \in 1..(Len(q) - p + 1) : b[k] = q[p + k - 1]
      <3> HIDE DEF b
      <3>1. p \in Int /\ Len(q) \in Int BY <1>1
      <3> QED BY <3>1, <2>1, SubSeqProperties DEF b
    <2> HIDE DEF b
    <2> QED BY <1>1, <2>2
  <1>4. InsertAt(q, p, s) = c \o b BY DEF InsertAt
  <1>5. /\ c \in Seq(S) /\ Len(c) = p
        /\ \A k \in 1..p : c[k] = IF k < p THEN q[k] ELSE s
    <2> HIDE DEF a
    <2>1. <<s>> \in Seq(S) /\ Len(<<s>>) = 1 /\ <<s>>[1] = s OBVIOUS
    <2>2. /\ c \in Seq(S) /\ Len(c) = Len(a) + Len(<<s>>)
          /\ \A k \in 1..(Len(a) + Len(<<s>>)) : c[k] = IF k <= Len(a) THEN a[k] ELSE <<s>>[k - Len(a)]
      BY <1>2, <2>1, ConcatProperties
    <2> HIDE DEF c
    <2> DEFINE one == <<s>>
    <2>a. Len(one) = 1 /\ one[1] = s BY <2>1
    <2>b. \A k \in 1..(Len(a) + Len(one)) : c[k] = IF k <= Len(a) THEN a[k] ELSE one[k - Len(a)]
      BY <2>2
    <2> HIDE DEF one
    <2>c. Len(a) + Len(one) = p /\ Len(a) = p - 1 BY <2>a, <1>2
    <2>3. \A k \in 1..p : c[k] = IF k <= p - 1 THEN a[k] ELSE one[k - (p - 1)]
      BY <2>b, <2>c
    <2>4. \A k \in 1..p : k <= p - 1 => c[k] = q[k] BY <2>3, <1>2
    <2>5. c[p] = s
      <3>1. p - (p - 1) = 1 /\ ~(p <= p - 1) OBVIOUS
      <3> QED BY <2>a, <2>3, <3>1
    <2> QED BY <2>1, <2>2, <2>4, <2>5, <1>2
  <1> HIDE DEF a, b, c
  <1>6. /\ c \o b \in Seq(S) /\ Len(c \o b) = Len(c) + Len(b)
        /\ \A k \in 1..(Len(c) + Len(b)) : (c \o b)[k] = IF k <= Len(c) THEN c[k] ELSE b[k - Len(c)]
    BY <1>3, <1>5, ConcatProperties
  <1>7. ASSUME NEW k \in 1..(Len(q) + 1)
        PROVE  (c \o b)[k] = IF k < p THEN q[k] ELSE IF k = p THEN s ELSE q[k - 1]
    <2> DEFINE cb == c \o b
    <2>a. \A m \in 1..(Len(c) + Len(b)) : cb[m] = IF m <= Len(c) THEN c[m] ELSE b[m - Len(c)]
      BY <1>6
    <2> HIDE DEF cb
    <2>b. Len(c) = p /\ k \in 1..(Len(c) + Len(b)) BY <1>1, <1>3, <1>5
    <2>c. cb[k] = IF k <= p THEN c[k] ELSE b[k - p] BY <2>a, <2>b
    <2>1. (c \o b)[k] = IF k <= p THEN c[k] ELSE b[k - p] BY <2>c DEF cb
    <2>2. CASE k <= p
      BY <2>1, <2>2, <1>1, <1>5
    <2>3. CASE ~(k <= p)
      <3>1. k - p \in 1..(Len(q) - p + 1) /\ (k - p) + p - 1 = k - 1 BY <2>3, <1>1
      <3>2. b[k - p] = q[k - 1] BY <3>1, <1>3
      <3>3. ~(k < p) /\ k # p BY <2>3, <1>1
      <3> QED BY <2>1, <2>3, <3>2, <3>3
    <2> QED BY <2>2, <2>3
  <1>8. Len(c) + Len(b) = Len(q) + 1 BY <1>1, <1>3, <1>5
  <1> QED BY <1>4, <1>6, <1>7, <1>8 DEF Inserted

\* A sequence with s after its last element.
LEMMA AppendIs ==
    ASSUME NEW S, NEW q \in Seq(S), NEW s \in S
    PROVE  /\ Append(q, s) \in Seq(S) /\ Len(Append(q, s)) = Len(q) + 1
           /\ \A k \in 1..(Len(q) + 1) : Append(q, s)[k] = IF k <= Len(q) THEN q[k] ELSE s
           /\ ToSet(Append(q, s)) = ToSet(q) \cup {s}
           /\ Distinct(q) /\ s \notin ToSet(q) => Distinct(Append(q, s))
  <1>1. Len(q) \in Nat BY SeqIs
  <1>2. /\ Append(q, s) \in Seq(S) /\ Len(Append(q, s)) = Len(q) + 1
        /\ \A k \in 1..(Len(q) + 1) : Append(q, s)[k] = IF k <= Len(q) THEN q[k] ELSE s
    BY <1>1, AppendProperties
  <1>3. DOMAIN q = 1..Len(q) /\ DOMAIN Append(q, s) = 1..(Len(q) + 1) BY <1>2, SeqIs
  <1> DEFINE r == Append(q, s)
  <1> HIDE DEF r
  <1>4. ToSet(r) = ToSet(q) \cup {s}
    BY <1>1, <1>2, <1>3 DEF r, ToSet
  <1>5. Distinct(q) /\ s \notin ToSet(q) => Distinct(r)
    BY <1>1, <1>2, <1>3 DEF r, Distinct, ToSet
  <1> QED BY <1>2, <1>4, <1>5 DEF r

\* A sequence without the element at p.
LEMMA RemoveAtSet ==
    ASSUME NEW S, NEW q \in Seq(S), NEW p \in 1..Len(q), Distinct(q)
    PROVE  Distinct(RemoveAt(q, p)) /\ ToSet(RemoveAt(q, p)) = ToSet(q) \ {q[p]}
  <1> DEFINE r == RemoveAt(q, p)
  <1>1. /\ r \in Seq(S) /\ Len(r) = Len(q) - 1
        /\ \A k \in 1..(Len(q) - 1) : r[k] = IF k < p THEN q[k] ELSE q[k + 1]
    BY RemoveAtIs
  <1> HIDE DEF r
  <1>2. DOMAIN r = 1..(Len(q) - 1) /\ DOMAIN q = 1..Len(q) /\ Len(q) \in Nat
    BY <1>1, SeqIs
  <1>3. Distinct(r)
    <2>1. ASSUME NEW j \in 1..(Len(q) - 1), NEW k \in 1..(Len(q) - 1), r[j] = r[k] PROVE j = k
      <3>1. \A x, y \in 1..Len(q) : q[x] = q[y] => x = y BY <1>2 DEF Distinct
      <3> DEFINE d(k0) == IF k0 < p THEN k0 ELSE k0 + 1
      <3>2. \A x \in 1..(Len(q) - 1) : d(x) \in 1..Len(q) /\ r[x] = q[d(x)] BY <1>1, <1>2
      <3>3. d(j) = d(k) => j = k BY <1>2
      <3> HIDE DEF d
      <3> QED BY <2>1, <3>1, <3>2, <3>3
    <2> QED BY <2>1, <1>2 DEF Distinct
  <1>4. ASSUME NEW x \in ToSet(r) PROVE x \in ToSet(q) \ {q[p]}
    <2>1. PICK k \in 1..(Len(q) - 1) : r[k] = x BY <1>2 DEF ToSet
    <2>2. CASE k < p
      <3>1. k \in 1..Len(q) /\ x = q[k] /\ k # p BY <2>1, <2>2, <1>1, <1>2
      <3> QED BY <3>1, <1>2 DEF ToSet, Distinct
    <2>3. CASE ~(k < p)
      <3>1. k + 1 \in 1..Len(q) /\ x = q[k + 1] /\ k + 1 # p BY <2>1, <2>3, <1>1, <1>2
      <3> QED BY <3>1, <1>2 DEF ToSet, Distinct
    <2> QED BY <2>2, <2>3
  <1>5. ASSUME NEW x \in ToSet(q) \ {q[p]} PROVE x \in ToSet(r)
    <2>1. PICK k \in 1..Len(q) : q[k] = x /\ k # p BY <1>2 DEF ToSet
    <2>2. CASE k < p
      <3>1. k \in 1..(Len(q) - 1) /\ r[k] = x BY <2>1, <2>2, <1>1, <1>2
      <3> QED BY <3>1, <1>2 DEF ToSet
    <2>3. CASE ~(k < p)
      <3>1. k - 1 \in 1..(Len(q) - 1) /\ ~(k - 1 < p) /\ (k - 1) + 1 = k BY <2>1, <2>3, <1>2
      <3>2. r[k - 1] = x BY <2>1, <3>1, <1>1
      <3> QED BY <3>1, <3>2, <1>2 DEF ToSet
    <2> QED BY <2>2, <2>3
  <1> QED BY <1>3, <1>4, <1>5 DEF r

\* A sequence with a new element at p.
LEMMA InsertAtSet ==
    ASSUME NEW S, NEW q \in Seq(S), NEW p \in 1..Len(q), NEW s \in S, Distinct(q), s \notin ToSet(q)
    PROVE  Distinct(InsertAt(q, p, s)) /\ ToSet(InsertAt(q, p, s)) = ToSet(q) \cup {s}
  <1> DEFINE r == InsertAt(q, p, s)
  <1>1. /\ r \in Seq(S) /\ Len(r) = Len(q) + 1
        /\ \A k \in 1..(Len(q) + 1) : r[k] = IF k < p THEN q[k] ELSE IF k = p THEN s ELSE q[k - 1]
    <2>1. Inserted(S, r, q, p, s) BY InsertAtIs
    <2> HIDE DEF r
    <2> QED BY <2>1 DEF Inserted
  <1> HIDE DEF r
  <1>2. DOMAIN r = 1..(Len(q) + 1) /\ DOMAIN q = 1..Len(q) /\ Len(q) \in Nat
    BY <1>1, SeqIs
  <1>3. ASSUME NEW k \in 1..(Len(q) + 1)
        PROVE  \/ k = p /\ r[k] = s
               \/ k < p /\ k \in 1..Len(q) /\ r[k] = q[k]
               \/ k > p /\ k - 1 \in 1..Len(q) /\ r[k] = q[k - 1]
    BY <1>1, <1>2
  <1>4. \A k \in 1..Len(q) : q[k] # s BY <1>2 DEF ToSet
  <1>5. ASSUME NEW j \in 1..(Len(q) + 1), NEW k \in 1..(Len(q) + 1), r[j] = r[k] PROVE j = k
    <2>1. \A x, y \in 1..Len(q) : q[x] = q[y] => x = y BY <1>2 DEF Distinct
    <2> QED BY <2>1, <1>3, <1>4, <1>5, <1>2
  <1>6. Distinct(r) BY <1>2, <1>5 DEF Distinct
  <1>7. ToSet(r) \subseteq ToSet(q) \cup {s}
    <2>1. \A k \in DOMAIN r : r[k] \in ToSet(q) \cup {s} BY <1>2, <1>3 DEF ToSet
    <2> QED BY <2>1 DEF ToSet
  <1>8. ToSet(q) \subseteq ToSet(r)
    <2>1. ASSUME NEW k \in 1..Len(q) PROVE q[k] \in ToSet(r)
      <3>1. CASE k < p
        <4>1. k \in DOMAIN r /\ r[k] = q[k] BY <3>1, <1>1, <1>2
        <4> QED BY <4>1 DEF ToSet
      <3>2. CASE ~(k < p)
        <4>1. k + 1 \in DOMAIN r /\ ~(k + 1 < p) /\ k + 1 # p /\ (k + 1) - 1 = k BY <3>2, <1>2
        <4>2. r[k + 1] = q[k] BY <4>1, <1>1, <1>2
        <4> QED BY <4>1, <4>2 DEF ToSet
      <3> QED BY <3>1, <3>2
    <2> QED BY <2>1, <1>2 DEF ToSet
  <1>9. s \in ToSet(r)
    <2>1. p \in DOMAIN r /\ r[p] = s BY <1>1, <1>2
    <2> QED BY <2>1 DEF ToSet
  <1> QED BY <1>6, <1>7, <1>8, <1>9 DEF r

-----------------------------------------------------------------------------
(* One event list.                                                          *)

\* None is no struct.
LEMMA NoneOut == \A s \in Structs : s # None
  BY DEF Structs, None

\* Taking an element out keeps the events of each iod together.
LEMMA RemoveTogether ==
    ASSUME NEW E, NEW S, NEW q \in Seq(S), NEW p \in 1..Len(q), Together(E, q)
    PROVE  Together(E, RemoveAt(q, p))
  <1> DEFINE r == RemoveAt(q, p)
             d(k) == IF k < p THEN k ELSE k + 1
  <1>1. /\ r \in Seq(S) /\ Len(r) = Len(q) - 1
        /\ \A k \in 1..(Len(q) - 1) : r[k] = IF k < p THEN q[k] ELSE q[k + 1]
    BY RemoveAtIs
  <1> HIDE DEF r
  <1>2. DOMAIN r = 1..(Len(q) - 1) /\ DOMAIN q = 1..Len(q) /\ Len(q) \in Nat
    BY <1>1, SeqIs
  <1>3. \A k \in DOMAIN r : d(k) \in DOMAIN q /\ r[k] = q[d(k)]
    BY <1>1, <1>2
  <1>4. \A j, k \in DOMAIN r : j <= k => d(j) <= d(k)
    BY <1>2
  <1> HIDE DEF d
  <1>5. Together(E, r)
    BY <1>3, <1>4 DEF Together
  <1> QED BY <1>5 DEF r

\* Taking out an element that is not the first of iod i leaves the first.
LEMMA RemoveOther ==
    ASSUME NEW E, NEW S, NEW q \in Seq(S), NEW p \in 1..Len(q), NEW i, NEW f,
           FirstIs(E, q, i, f), f # q[p]
    PROVE  FirstIs(E, RemoveAt(q, p), i, f)
  <1> DEFINE r == RemoveAt(q, p)
             d(k) == IF k < p THEN k ELSE k + 1
  <1>1. /\ r \in Seq(S) /\ Len(r) = Len(q) - 1
        /\ \A k \in 1..(Len(q) - 1) : r[k] = IF k < p THEN q[k] ELSE q[k + 1]
    BY RemoveAtIs
  <1> HIDE DEF r
  <1>2. DOMAIN r = 1..(Len(q) - 1) /\ DOMAIN q = 1..Len(q) /\ Len(q) \in Nat
    BY <1>1, SeqIs
  <1>3. \A k \in DOMAIN r : d(k) \in DOMAIN q /\ r[k] = q[d(k)]
    BY <1>1, <1>2
  <1>4. CASE f = None /\ \A k \in DOMAIN q : E[q[k]].iod # i
    <2> HIDE DEF d
    <2>1. \A k \in DOMAIN r : E[r[k]].iod # i BY <1>3, <1>4
    <2> QED BY <2>1, <1>4 DEF FirstIs, r
  <1>5. CASE \E m \in DOMAIN q : /\ q[m] = f /\ E[f].iod = i
                                 /\ \A k \in DOMAIN q : E[q[k]].iod = i => m <= k
    <2>1. PICK m \in DOMAIN q : /\ q[m] = f /\ E[f].iod = i
                                /\ \A k \in DOMAIN q : E[q[k]].iod = i => m <= k
      BY <1>5
    <2>2. m # p BY <2>1
    <2> DEFINE c == IF m < p THEN m ELSE m - 1
    <2>3. c \in DOMAIN r /\ d(c) = m BY <2>2, <1>2
    <2>4. \A k \in DOMAIN r : m <= d(k) => c <= k BY <2>2, <1>2
    <2> HIDE DEF c, d
    <2>5. r[c] = f BY <2>1, <2>3, <1>3
    <2>6. \A k \in DOMAIN r : E[r[k]].iod = i => c <= k BY <2>1, <2>4, <1>3
    <2> QED BY <2>1, <2>3, <2>5, <2>6 DEF FirstIs, r
  <1> QED BY <1>4, <1>5 DEF FirstIs

\* The element after p.
After(q, p) == IF p < Len(q) THEN q[p + 1] ELSE None

\* Taking out the first of iod i makes the one after it the first, if it is of the same iod.
LEMMA RemoveTheFirst ==
    ASSUME NEW E, NEW q \in Seq(Structs), NEW p \in 1..Len(q), NEW i, NEW f,
           FirstIs(E, q, i, q[p]), Distinct(q), Together(E, q),
           f = IF After(q, p) # None /\ E[After(q, p)].iod = i THEN After(q, p) ELSE None
    PROVE  FirstIs(E, RemoveAt(q, p), i, f)
  <1> DEFINE r == RemoveAt(q, p)
             d(k) == IF k < p THEN k ELSE k + 1
  <1>1. /\ r \in Seq(Structs) /\ Len(r) = Len(q) - 1
        /\ \A k \in 1..(Len(q) - 1) : r[k] = IF k < p THEN q[k] ELSE q[k + 1]
    BY RemoveAtIs
  <1> HIDE DEF r
  <1>2. DOMAIN r = 1..(Len(q) - 1) /\ DOMAIN q = 1..Len(q) /\ Len(q) \in Nat
    BY <1>1, SeqIs
  <1>3. \A k \in DOMAIN r : d(k) \in DOMAIN q /\ r[k] = q[d(k)]
    BY <1>1, <1>2
  <1>4. \A k \in 1..Len(q) : q[k] \in Structs /\ q[k] # None BY SeqIs, NoneOut
  <1>5. E[q[p]].iod = i /\ \A k \in DOMAIN q : E[q[k]].iod = i => p <= k
    BY <1>2, <1>4 DEF FirstIs, Distinct
  <1> DEFINE more == p < Len(q) /\ E[q[p + 1]].iod = i
  <1>6. CASE more
    <2>1. p + 1 \in DOMAIN q /\ After(q, p) = q[p + 1] /\ q[p + 1] # None
      BY <1>2, <1>4, <1>6 DEF After
    <2>2. p \in DOMAIN r /\ d(p) = p + 1 /\ \A k \in DOMAIN r : p <= d(k) => p <= k
      BY <1>2, <1>6
    <2> HIDE DEF d
    <2>3. r[p] = q[p + 1] BY <2>2, <1>3
    <2>4. \A k \in DOMAIN r : E[r[k]].iod = i => p <= k BY <2>2, <1>3, <1>5
    <2>5. FirstIs(E, r, i, q[p + 1]) BY <2>2, <2>3, <2>4, <1>6 DEF FirstIs
    <2> QED BY <2>1, <2>5, <1>6 DEF r
  <1>7. CASE ~more
    <2>1. f = None
      BY <1>7 DEF After
    <2>2. ASSUME NEW k \in DOMAIN q, k # p, E[q[k]].iod = i PROVE FALSE
      <3>1. p < k /\ p + 1 \in DOMAIN q /\ p + 1 <= k /\ p < Len(q) /\ p <= p + 1
        BY <2>2, <1>2, <1>5
      <3>2. E[q[p + 1]].iod = i BY <3>1, <2>2, <1>2, <1>5 DEF Together
      <3> QED BY <3>1, <3>2, <1>7
    <2>3. \A k \in DOMAIN r : d(k) # p BY <1>2
    <2> HIDE DEF d
    <2>4. \A k \in DOMAIN r : E[r[k]].iod # i BY <2>2, <2>3, <1>3
    <2> QED BY <2>1, <2>4 DEF FirstIs, r
  <1> HIDE DEF more
  <1> QED BY <1>6, <1>7

\* Putting an event before the first of its iod.
LEMMA InsertFirst ==
    ASSUME NEW E, NEW q \in Seq(Structs), NEW p \in 1..Len(q), NEW s \in Structs,
           FirstIs(E, q, E[s].iod, q[p]), Distinct(q), Together(E, q), s \notin ToSet(q)
    PROVE  /\ Together(E, InsertAt(q, p, s)) /\ FirstIs(E, InsertAt(q, p, s), E[s].iod, s)
           /\ \A j, f : j # E[s].iod /\ FirstIs(E, q, j, f) => FirstIs(E, InsertAt(q, p, s), j, f)
  <1> DEFINE r == InsertAt(q, p, s)
             i == E[s].iod
             d(k) == IF k < p THEN k ELSE k - 1
  <1>1. /\ r \in Seq(Structs) /\ Len(r) = Len(q) + 1
        /\ \A k \in 1..(Len(q) + 1) : r[k] = IF k < p THEN q[k] ELSE IF k = p THEN s ELSE q[k - 1]
    <2>1. Inserted(Structs, r, q, p, s) BY InsertAtIs
    <2> HIDE DEF r
    <2> QED BY <2>1 DEF Inserted
  <1> HIDE DEF r
  <1>2. DOMAIN r = 1..(Len(q) + 1) /\ DOMAIN q = 1..Len(q) /\ Len(q) \in Nat
    BY <1>1, SeqIs
  <1>3. \A k \in DOMAIN r : k # p => d(k) \in DOMAIN q /\ r[k] = q[d(k)]
    BY <1>1, <1>2
  <1>4. p \in DOMAIN r /\ r[p] = s BY <1>1, <1>2
  <1>5. \A k \in 1..Len(q) : q[k] \in Structs /\ q[k] # None BY SeqIs, NoneOut
  <1>6. E[q[p]].iod = i /\ \A k \in DOMAIN q : E[q[k]].iod = i => p <= k
    BY <1>2, <1>5 DEF FirstIs, Distinct
  <1>7. \A j, k \in DOMAIN r : j <= k /\ j # p /\ k # p => d(j) <= d(k)
    BY <1>2
  <1>8. \A k \in DOMAIN r : (k < p => d(k) = k) /\ (k > p => p <= d(k))
    BY <1>2
  <1> HIDE DEF d, i
  \* At p, the new event stands for the one that was there.
  <1>9. Together(E, r)
    <2> DEFINE g(k) == IF k = p THEN p ELSE d(k)
    <2>1. \A k \in DOMAIN r : g(k) \in DOMAIN q /\ E[r[k]].iod = E[q[g(k)]].iod
      BY <1>2, <1>3, <1>4, <1>6 DEF i
    <2>2. \A j, k \in DOMAIN r : j <= k => g(j) <= g(k)
      <3> SUFFICES ASSUME NEW j \in DOMAIN r, NEW k \in DOMAIN r, j <= k PROVE g(j) <= g(k)
        OBVIOUS
      <3>1. CASE j # p /\ k # p BY <3>1, <1>7
      <3>2. CASE j = p /\ k # p
        <4>1. k > p BY <3>2, <1>2
        <4> QED BY <3>2, <4>1, <1>8
      <3>3. CASE j # p /\ k = p
        <4>1. j < p BY <3>3, <1>2
        <4> QED BY <3>3, <4>1, <1>8
      <3>4. CASE j = p /\ k = p BY <3>4
      <3> QED BY <3>1, <3>2, <3>3, <3>4
    <2> HIDE DEF g
    <2> QED BY <2>1, <2>2 DEF Together
  <1>10. FirstIs(E, r, i, s)
    <2>1. \A k \in DOMAIN r : E[r[k]].iod = i => p <= k
      <3> SUFFICES ASSUME NEW k \in DOMAIN r, E[r[k]].iod = i, k < p PROVE FALSE
        BY <1>2
      <3>1. k # p /\ d(k) = k /\ d(k) \in DOMAIN q /\ r[k] = q[k] BY <1>2, <1>3, <1>8
      <3> QED BY <3>1, <1>2, <1>6
    <2> QED BY <2>1, <1>4 DEF FirstIs, i
  <1>11. ASSUME NEW j, NEW f, j # i, FirstIs(E, q, j, f) PROVE FirstIs(E, r, j, f)
    <2>1. CASE f = None /\ \A k \in DOMAIN q : E[q[k]].iod # j
      <3>1. \A k \in DOMAIN r : E[r[k]].iod # j BY <2>1, <1>3, <1>4, <1>11 DEF i
      <3> QED BY <3>1, <2>1 DEF FirstIs
    <2>2. CASE \E m \in DOMAIN q : /\ q[m] = f /\ E[f].iod = j
                                   /\ \A k \in DOMAIN q : E[q[k]].iod = j => m <= k
      <3>1. PICK m \in DOMAIN q : /\ q[m] = f /\ E[f].iod = j
                                  /\ \A k \in DOMAIN q : E[q[k]].iod = j => m <= k
        BY <2>2
      <3> DEFINE c == IF m < p THEN m ELSE m + 1
      <3>2. c \in DOMAIN r /\ c # p /\ d(c) = m BY <1>2 DEF d
      <3>3. \A k \in DOMAIN r : k # p /\ m <= d(k) => c <= k BY <1>2 DEF d
      <3> HIDE DEF c
      <3>4. r[c] = f BY <3>1, <3>2, <1>3
      <3>5. \A k \in DOMAIN r : E[r[k]].iod = j => c <= k BY <3>1, <3>3, <1>3, <1>4, <1>11 DEF i
      <3> QED BY <3>1, <3>2, <3>4, <3>5 DEF FirstIs
    <2> QED BY <2>1, <2>2, <1>11 DEF FirstIs
  <1> QED BY <1>9, <1>10, <1>11 DEF r, i

\* Putting an event of an iod that has none at the end.
LEMMA AppendFirst ==
    ASSUME NEW E, NEW q \in Seq(Structs), NEW s \in Structs,
           FirstIs(E, q, E[s].iod, None), Together(E, q)
    PROVE  /\ Together(E, Append(q, s)) /\ FirstIs(E, Append(q, s), E[s].iod, s)
           /\ \A j, f : j # E[s].iod /\ FirstIs(E, q, j, f) => FirstIs(E, Append(q, s), j, f)
  <1> DEFINE r == Append(q, s)
             i == E[s].iod
             n == Len(q)
  <1>1. /\ r \in Seq(Structs) /\ Len(r) = n + 1
        /\ \A k \in 1..(n + 1) : r[k] = IF k <= n THEN q[k] ELSE s
    BY AppendIs
  <1> HIDE DEF r
  <1>2. DOMAIN r = 1..(n + 1) /\ DOMAIN q = 1..n /\ n \in Nat
    BY <1>1, SeqIs
  <1>3. \A k \in 1..n : q[k] \in Structs /\ q[k] # None BY SeqIs, NoneOut
  <1>4. \A k \in 1..n : E[q[k]].iod # i
    BY <1>2, <1>3 DEF FirstIs
  <1>5. r[n + 1] = s /\ (\A k \in 1..n : r[k] = q[k] /\ k \in 1..(n + 1))
        /\ \A k \in 1..(n + 1) : k = n + 1 \/ k \in 1..n
    BY <1>1, <1>2
  <1> HIDE DEF n, i
  <1>6. Together(E, r)
    <2> SUFFICES ASSUME NEW j \in 1..(n + 1), NEW m \in 1..(n + 1), NEW k \in 1..(n + 1),
                        j <= m, m <= k, E[r[j]].iod = E[r[k]].iod
                 PROVE  E[r[m]].iod = E[r[j]].iod
      BY <1>2 DEF Together
    <2>1. CASE k = n + 1
      <3>1. j = n + 1 BY <2>1, <1>4, <1>5 DEF i
      <3>2. m = n + 1 BY <3>1, <1>2
      <3> QED BY <3>1, <3>2
    <2>2. CASE k \in 1..n
      <3>1. j \in 1..n /\ m \in 1..n BY <2>2, <1>2
      <3> QED BY <3>1, <2>2, <1>2, <1>5 DEF Together
    <2> QED BY <2>1, <2>2, <1>5
  <1>7. FirstIs(E, r, i, s)
    <2>1. \A k \in DOMAIN r : E[r[k]].iod = i => n + 1 <= k BY <1>2, <1>4, <1>5
    <2>2. n + 1 \in DOMAIN r BY <1>2
    <2> QED BY <2>1, <2>2, <1>5 DEF FirstIs, i
  <1>8. ASSUME NEW j, NEW f, j # i, FirstIs(E, q, j, f) PROVE FirstIs(E, r, j, f)
    <2>1. CASE f = None /\ \A k \in DOMAIN q : E[q[k]].iod # j
      <3>1. \A k \in DOMAIN r : E[r[k]].iod # j BY <2>1, <1>2, <1>5, <1>8 DEF i
      <3> QED BY <3>1, <2>1 DEF FirstIs
    <2>2. CASE \E m \in DOMAIN q : /\ q[m] = f /\ E[f].iod = j
                                   /\ \A k \in DOMAIN q : E[q[k]].iod = j => m <= k
      <3>1. PICK m \in DOMAIN q : /\ q[m] = f /\ E[f].iod = j
                                  /\ \A k \in DOMAIN q : E[q[k]].iod = j => m <= k
        BY <2>2
      <3>2. m \in DOMAIN r /\ r[m] = f BY <3>1, <1>2, <1>5
      <3>3. \A k \in DOMAIN r : E[r[k]].iod = j => m <= k
        <4>1. E[r[n + 1]].iod # j BY <1>5, <1>8 DEF i
        <4>2. \A k \in 1..n : E[r[k]].iod = j => m <= k BY <3>1, <1>2, <1>5
        <4> QED BY <4>1, <4>2, <1>2, <1>5
      <3> QED BY <3>1, <3>2, <3>3 DEF FirstIs
    <2> QED BY <2>1, <2>2, <1>8 DEF FirstIs
  <1> QED BY <1>6, <1>7, <1>8 DEF r, i

-----------------------------------------------------------------------------
(* What the operators do to the library's state.                            *)

\* The fields of the library's state.
LEMMA ViewIs ==
    ASSUME NEW u \in Views
    PROVE  /\ u.ev \in [Structs -> Event] /\ u.expirables \subseteq Structs
           /\ u.list \in [IoTypes \cup {"free"} -> Seq(Structs)]
           /\ \A t \in IoTypes \cup {"free"} : u.list[t] \in Seq(Structs)
           /\ u.iod \in [Iods -> IodShape] /\ u.events_pending \in Int
           /\ u.outcome \in [Ids -> Verdict] /\ u.stack \in Seq(Frame)
  BY DEF Views

\* The fields of a struct nevent.
LEMMA EventIs ==
    ASSUME NEW u \in Views, NEW s \in Structs
    PROVE  /\ u.ev[s] \in Event /\ u.ev[s].id \in Ids \cup {None}
           /\ u.ev[s].type \in {"connect", "read", "write", "timer"}
           /\ u.ev[s].type # "timer" => u.ev[s].type \in IoTypes
           /\ u.ev[s].iod \in Iods \cup {None} /\ u.ev[s].done \in BOOLEAN
           /\ u.ev[s].status \in Status
           /\ u.ev[s].desire \in {"none", "connect", "r", "w"}
  <1>1. u.ev[s] \in Event BY ViewIs
  <1> QED BY <1>1 DEF Event, IoTypes, Bits, Status

\* The fields of a struct niod.
LEMMA IodIs ==
    ASSUME NEW u \in Views, NEW i \in Iods
    PROVE  /\ u.iod[i] \in IodShape /\ u.iod[i].pending \in Int
           /\ u.iod[i].state \in {"initial", "deleted", "free"}
           /\ u.iod[i].sd \in BOOLEAN /\ u.iod[i].ssl \in BOOLEAN /\ u.iod[i].registered \in BOOLEAN
           /\ u.iod[i].count \in [Bits -> Int] /\ u.iod[i].watched \in SUBSET Bits
           /\ u.iod[i].first \in [IoTypes -> Structs \cup {None}]
  <1>1. u.iod[i] \in IodShape BY ViewIs
  <1> QED BY <1>1 DEF IodShape

\* Iods are positive numbers, so that None is none of them.
LEMMA NoIod ==
    ASSUME client \in Clients
    PROVE  None \notin Iods /\ Iods \subseteq Nat /\ IsFiniteSet(Iods) /\ client \in ClientType
  BY NsockAssumption DEF None, Iods, ClientType

\* An event on an event list is on that one only.
LEMMA ListedIs ==
    ASSUME NEW u \in Views, Lists(u), NEW t \in IoTypes, NEW s \in ToSet(u.list[t])
    PROVE  /\ s \in Structs /\ u.ev[s].type = t /\ t # "timer" /\ t # "free" /\ u.ev[s].iod \in Iods
           /\ \A r \in IoTypes \cup {"free"} : s \in ToSet(u.list[r]) => r = t
  <1>1. u.list[t] \in Seq(Structs) BY ViewIs
  <1>2. s \in Structs BY <1>1, SeqIs
  <1>3. t # "timer" /\ t # "free" BY DEF IoTypes
  <1>4. u.ev[s].type = t /\ u.ev[s].iod \in Iods /\ s \notin ToSet(u.list["free"]) BY DEF Lists
  <1>5. ASSUME NEW r \in IoTypes \cup {"free"}, s \in ToSet(u.list[r]) PROVE r = t
    <2>1. r \in IoTypes BY <1>4, <1>5
    <2> QED BY <1>4, <1>5, <2>1 DEF Lists
  <1> QED BY <1>2, <1>3, <1>4, <1>5

\* gh_lnode_next() of a struct on an event list is the element after it.
LEMMA NextIs ==
    ASSUME NEW u \in Views, Lists(u), NEW t \in IoTypes, NEW s \in ToSet(u.list[t])
    PROVE  /\ NextOf(u, s) = After(u.list[t], At(u.list[t], s))
           /\ NextOf(u, s) \in Structs \cup {None}
           /\ NextOf(u, s) # None => /\ NextOf(u, s) \in ToSet(u.list[t]) /\ NextOf(u, s) # s
                                     /\ NextOf(u, s) \in Structs
  <1> DEFINE q == u.list[t]
             on == {r \in DOMAIN u.list : s \in ToSet(u.list[r])}
  <1>1. DOMAIN u.list = IoTypes \cup {"free"} BY ViewIs
  <1>2. on = {t}
    <2>1. \A r \in on : r = t BY <1>1, ListedIs
    <2> QED BY <1>1, <2>1
  <1>3. (CHOOSE r \in on : TRUE) = t
    <2> HIDE DEF on
    <2> QED BY <1>2
  <1>4. NextOf(u, s) = After(q, At(q, s))
    <2> HIDE DEF on
    <2>1. on # {} BY <1>2
    <2> QED BY <1>3, <2>1 DEF NextOf, After, on
  <1>5. q \in Seq(Structs) /\ Distinct(q) BY ViewIs DEF Lists
  <1>6. At(q, s) \in 1..Len(q) /\ q[At(q, s)] = s /\ Len(q) \in Nat /\ DOMAIN q = 1..Len(q)
    BY <1>5, AtIs, SeqIs
  <1> DEFINE p == At(q, s)
  <1> HIDE DEF p, q
  <1>7. CASE p < Len(q)
    <2>1. p + 1 \in 1..Len(q) /\ p + 1 # p BY <1>6, <1>7 DEF p
    <2>2. After(q, p) = q[p + 1] BY <1>7 DEF After
    <2>3. q[p + 1] \in Structs /\ q[p + 1] \in ToSet(q) BY <2>1, <1>5, SeqIs
    <2>4. q[p + 1] # s BY <2>1, <1>5, <1>6 DEF p, Distinct
    <2> QED BY <2>2, <2>3, <2>4, <1>4 DEF p, q
  <1>8. CASE ~(p < Len(q))
    <2>1. After(q, p) = None BY <1>8 DEF After
    <2> QED BY <2>1, <1>4 DEF p, q
  <1> QED BY <1>7, <1>8

\* update_first_events(), gh_list_remove() and the append to free_events, in one.
Gone(u, s) == Release(Unlink(update_first_events(u, s), s), s)

\* first_* of the iod afterwards.
FirstAfter(u, s) ==
    LET f == u.iod[u.ev[s].iod].first[u.ev[s].type]
        n == NextOf(u, s)
    IN  IF f # s THEN f ELSE IF n # None /\ u.ev[n].iod = u.ev[s].iod THEN n ELSE None

Removable(u, s) ==
    IF u.ev[s].type = "timer" THEN TRUE
    ELSE u.ev[s].iod \in Iods /\ s \in ToSet(u.list[u.ev[s].type])

\* The structs other than s are as they were.
Others(u, v, s) ==
    /\ v \in Views
    /\ \A x \in Structs : x # s =>
          /\ v.ev[x] = u.ev[x]
          /\ x \in v.expirables <=> x \in u.expirables
          /\ \A t \in IoTypes \cup {"free"} : x \in ToSet(v.list[t]) <=> x \in ToSet(u.list[t])

\* The iods but for their first_* fields.
SameIods(u, v) ==
    \A i \in Iods : /\ v.iod[i].state = u.iod[i].state /\ v.iod[i].sd = u.iod[i].sd
                    /\ v.iod[i].ssl = u.iod[i].ssl /\ v.iod[i].pending = u.iod[i].pending
                    /\ v.iod[i].count = u.iod[i].count /\ v.iod[i].watched = u.iod[i].watched

\* A timer is on no list but the free list.
LEMMA GoneTimer ==
    ASSUME NEW u \in Views, NEW s \in Structs, u.ev[s].type = "timer"
    PROVE  /\ Gone(u, s) \in Views
           /\ Gone(u, s) = [u EXCEPT !.list["free"] = Append(@, s)]
           /\ Gone(u, s).list = [u.list EXCEPT !["free"] = Append(@, s)]
           /\ Gone(u, s).ev = u.ev /\ Gone(u, s).expirables = u.expirables
           /\ Gone(u, s).iod = u.iod /\ Gone(u, s).events_pending = u.events_pending
           /\ Gone(u, s).outcome = u.outcome /\ Gone(u, s).stack = u.stack
  <1>1. Gone(u, s) = [u EXCEPT !.list["free"] = Append(@, s)]
    BY DEF Gone, Release, Unlink, update_first_events
  <1> DEFINE v == [u EXCEPT !.list["free"] = Append(@, s)]
  <1>2. Append(u.list["free"], s) \in Seq(Structs) BY ViewIs, AppendIs
  <1>3. v.list = [u.list EXCEPT !["free"] = Append(@, s)] BY DEF Views
  <1>4. v.list \in [IoTypes \cup {"free"} -> Seq(Structs)] BY <1>2, <1>3, ViewIs
  <1>5. v \in Views BY <1>4 DEF Views
  <1>6. /\ v.ev = u.ev /\ v.expirables = u.expirables /\ v.iod = u.iod
        /\ v.events_pending = u.events_pending /\ v.outcome = u.outcome /\ v.stack = u.stack
    BY DEF Views
  <1> HIDE DEF v
  <1> QED BY <1>1, <1>3, <1>5, <1>6 DEF v

\* What is left of the lists and of first_* when an event is taken off them.
LEMMA GoneIo ==
    ASSUME NEW u \in Views, Lists(u), NEW t \in IoTypes, NEW s \in ToSet(u.list[t]), NEW i, NEW q,
           i = u.ev[s].iod, q = u.list[t]
    PROVE  /\ Gone(u, s) \in Views
           /\ Gone(u, s).list =
                 [u.list EXCEPT ![t] = RemoveAt(q, At(q, s)), !["free"] = Append(u.list["free"], s)]
           /\ Gone(u, s).iod = [u.iod EXCEPT ![i] = [u.iod[i] EXCEPT !.first = [u.iod[i].first EXCEPT ![t] = FirstAfter(u, s)]]]
           /\ Gone(u, s).ev = u.ev /\ Gone(u, s).expirables = u.expirables
           /\ Gone(u, s).events_pending = u.events_pending
           /\ Gone(u, s).outcome = u.outcome /\ Gone(u, s).stack = u.stack
  <1>1. /\ s \in Structs /\ u.ev[s].type = t /\ t # "timer" /\ t # "free" /\ i \in Iods
    BY ListedIs
  <1>2. q \in Seq(Structs) /\ Distinct(q) /\ u.list["free"] \in Seq(Structs)
    BY ViewIs DEF Lists
  <1>3. At(q, s) \in 1..Len(q) BY <1>2, AtIs, SeqIs
  <1>4. RemoveAt(q, At(q, s)) \in Seq(Structs) BY <1>2, <1>3, RemoveAtIs
  <1>5. Append(u.list["free"], s) \in Seq(Structs) BY <1>1, <1>2, AppendIs
  <1>6. u.iod[i].first \in [IoTypes -> Structs \cup {None}] /\ u.iod[i] \in IodShape BY <1>1, IodIs
  <1>7. FirstAfter(u, s) \in Structs \cup {None}
    <2>1. NextOf(u, s) \in Structs \cup {None} BY NextIs
    <2>2. u.iod[i].first[t] \in Structs \cup {None} BY <1>6
    <2> QED BY <2>1, <2>2, <1>1 DEF FirstAfter
  \* first_*
  <1> DEFINE w == update_first_events(u, s)
             fs == [u.iod EXCEPT ![i] = [u.iod[i] EXCEPT !.first = [u.iod[i].first EXCEPT ![t] = FirstAfter(u, s)]]]
  <1>8. fs \in [Iods -> IodShape]
    <2>1. [u.iod[i].first EXCEPT ![t] = FirstAfter(u, s)] \in [IoTypes -> Structs \cup {None}]
      BY <1>6, <1>7
    <2> DEFINE g == [u.iod[i].first EXCEPT ![t] = FirstAfter(u, s)]
    <2> HIDE DEF g
    <2>2. [u.iod[i] EXCEPT !.first = g] \in IodShape BY <2>1, <1>6 DEF g, IodShape
    <2>3. u.iod \in [Iods -> IodShape] BY ViewIs
    <2>4. [u.iod EXCEPT ![i] = [u.iod[i] EXCEPT !.first = g]] \in [Iods -> IodShape] BY <2>2, <2>3
    <2>5. fs = [u.iod EXCEPT ![i] = [u.iod[i] EXCEPT !.first = g]]
      BY <2>3, <1>1 DEF g
    <2> QED BY <2>4, <2>5
  <1>9. w = [u EXCEPT !.iod = fs]
    <2>1. CASE u.iod[i].first[t] # s
      <3>1. FirstAfter(u, s) = u.iod[i].first[t] BY <2>1, <1>1 DEF FirstAfter
      <3>2. [u.iod[i].first EXCEPT ![t] = FirstAfter(u, s)] = u.iod[i].first BY <3>1, <1>6
      <3>3. [u.iod[i] EXCEPT !.first = u.iod[i].first] = u.iod[i] BY <1>6 DEF IodShape
      <3>4. u.iod \in [Iods -> IodShape] BY ViewIs
      <3>5. fs = [u.iod EXCEPT ![i] = u.iod[i]] BY <3>2, <3>3, <3>4, <1>1
      <3>6. fs = u.iod BY <3>4, <3>5, <1>1
      <3>7. w = u BY <2>1, <1>1 DEF update_first_events
      <3>8. [u EXCEPT !.iod = u.iod] = u BY DEF Views
      <3> QED BY <3>6, <3>7, <3>8
    <2>2. CASE u.iod[i].first[t] = s
      <3> DEFINE n == IF NextOf(u, s) # None /\ u.ev[NextOf(u, s)].iod = i THEN NextOf(u, s) ELSE None
      <3>1. FirstAfter(u, s) = n BY <2>2, <1>1 DEF FirstAfter
      <3>2. w = [u EXCEPT !.iod[i].first[t] = n]
        BY <2>2, <1>1 DEF update_first_events
      <3> HIDE DEF n, w
      <3>3. [u EXCEPT !.iod[i].first[t] = n]
            = [u EXCEPT !.iod = [u.iod EXCEPT ![i] = [u.iod[i] EXCEPT !.first = [u.iod[i].first EXCEPT ![t] = n]]]]
        OBVIOUS
      <3> QED BY <3>1, <3>2, <3>3
    <2> QED BY <2>1, <2>2
  <1> HIDE DEF fs
  <1>10. /\ w.ev = u.ev /\ w.list = u.list /\ w.expirables = u.expirables /\ w.iod = fs
         /\ w.events_pending = u.events_pending /\ w.outcome = u.outcome /\ w.stack = u.stack
         /\ w \in Views
    <2> HIDE DEF w
    <2> QED BY <1>8, <1>9 DEF Views
  <1> HIDE DEF w
  \* The event list.
  <1> DEFINE r == RemoveAt(q, At(q, s))
             x == Unlink(w, s)
             free == Append(u.list["free"], s)
  <1> HIDE DEF r, free
  <1>11. x = [w EXCEPT !.list[t] = r] BY <1>1, <1>10 DEF Unlink, r
  <1>12. x.list = [u.list EXCEPT ![t] = r] BY <1>10, <1>11 DEF Views
  <1>13. /\ x.ev = u.ev /\ x.expirables = u.expirables /\ x.iod = fs
         /\ x.events_pending = u.events_pending /\ x.outcome = u.outcome /\ x.stack = u.stack
         /\ x \in Views
    <2>1. x.list \in [IoTypes \cup {"free"} -> Seq(Structs)] BY <1>12, <1>4, ViewIs DEF r
    <2> HIDE DEF x
    <2>2. x \in Views
      <3>1. x = [w EXCEPT !.list = x.list] BY <1>11 DEF Views
      <3> HIDE DEF x
      <3> QED BY <2>1, <3>1, <1>10 DEF Views
    <2> QED BY <2>2, <1>10, <1>11 DEF Views
  <1> HIDE DEF x
  \* The free list.
  <1> DEFINE y == Release(x, s)
  <1>14. y = [x EXCEPT !.list["free"] = Append(@, s)] BY DEF Release
  <1>15. y.list = [u.list EXCEPT ![t] = r, !["free"] = free]
    <2>1. x.list["free"] = u.list["free"] BY <1>1, <1>12, ViewIs
    <2>2. y.list = [x.list EXCEPT !["free"] = Append(@, s)] BY <1>13, <1>14 DEF Views
    <2>3. y.list = [x.list EXCEPT !["free"] = free] BY <2>1, <2>2, <1>13, ViewIs DEF free
    <2> QED BY <2>3, <1>12
  <1>16. /\ y.ev = u.ev /\ y.expirables = u.expirables /\ y.iod = fs
         /\ y.events_pending = u.events_pending /\ y.outcome = u.outcome /\ y.stack = u.stack
         /\ y \in Views
    <2>1. y.list \in [IoTypes \cup {"free"} -> Seq(Structs)]
      BY <1>15, <1>4, <1>5, ViewIs DEF r, free
    <2> HIDE DEF y
    <2>2. y \in Views
      <3>1. y = [x EXCEPT !.list = y.list] BY <1>13, <1>14 DEF Views
      <3> QED BY <2>1, <3>1, <1>13 DEF Views
    <2> QED BY <2>2, <1>13, <1>14 DEF Views
  <1> HIDE DEF y
  <1>17. Gone(u, s) = y BY DEF Gone, y, x, w
  <1> QED BY <1>15, <1>16, <1>17 DEF r, free, fs

\* Afterwards the struct is on the free list and nowhere else, the other lists are as they were,
\* and the lists and the first_* fields are in order.
LEMMA GoneIs ==
    ASSUME NEW u \in Views, Lists(u), NEW s \in Structs, Removable(u, s),
           s \notin ToSet(u.list["free"]), client \in Clients
    PROVE  /\ Gone(u, s) \in Views
           /\ Gone(u, s).ev = u.ev /\ Gone(u, s).expirables = u.expirables
           /\ Gone(u, s).events_pending = u.events_pending
           /\ Gone(u, s).outcome = u.outcome /\ Gone(u, s).stack = u.stack
           /\ SameIods(u, Gone(u, s))
           /\ ToSet(Gone(u, s).list["free"]) = ToSet(u.list["free"]) \cup {s}
           /\ \A t \in IoTypes : ToSet(Gone(u, s).list[t]) = ToSet(u.list[t]) \ {s}
           /\ Lists(Gone(u, s)) /\ (Firsts(u) => Firsts(Gone(u, s)))
  <1> DEFINE v == Gone(u, s)
  <1> HIDE DEF v
  <1>1. u.list["free"] \in Seq(Structs) /\ Distinct(u.list["free"]) BY ViewIs DEF Lists
  <1>2. CASE u.ev[s].type = "timer"
    <2>1. /\ v \in Views /\ v.list = [u.list EXCEPT !["free"] = Append(@, s)]
          /\ v.ev = u.ev /\ v.expirables = u.expirables
          /\ v.iod = u.iod /\ v.events_pending = u.events_pending
          /\ v.outcome = u.outcome /\ v.stack = u.stack
      BY <1>2, GoneTimer DEF v
    <2>2. v.list["free"] = Append(u.list["free"], s) /\ \A t \in IoTypes : v.list[t] = u.list[t]
      BY <2>1, ViewIs DEF IoTypes
    <2>3. ToSet(v.list["free"]) = ToSet(u.list["free"]) \cup {s} /\ Distinct(v.list["free"])
      BY <1>1, <2>2, AppendIs
    <2>4. \A t \in IoTypes : s \notin ToSet(u.list[t]) BY <1>2, ListedIs
    <2>5. Lists(v)
      BY <2>1, <2>2, <2>3, <2>4 DEF Lists
    <2>6. Firsts(u) => Firsts(v)
      BY <2>1, <2>2 DEF Firsts
    <2>7. SameIods(u, v) BY <2>1 DEF SameIods
    <2> QED BY <2>1, <2>2, <2>3, <2>4, <2>5, <2>6, <2>7 DEF v
  <1>3. CASE u.ev[s].type # "timer"
    <2> DEFINE t == u.ev[s].type
               i == u.ev[s].iod
               q == u.list[t]
               r == RemoveAt(q, At(q, s))
    <2>1. t \in IoTypes /\ s \in ToSet(q) /\ i \in Iods /\ t # "free"
      BY <1>3, EventIs DEF Removable, IoTypes
    <2> HIDE DEF t, i, q, r
    <2>2. /\ v \in Views
          /\ v.list = [u.list EXCEPT ![t] = r, !["free"] = Append(u.list["free"], s)]
          /\ v.iod = [u.iod EXCEPT ![i] = [u.iod[i] EXCEPT !.first = [u.iod[i].first EXCEPT ![t] = FirstAfter(u, s)]]]
          /\ v.ev = u.ev /\ v.expirables = u.expirables
          /\ v.events_pending = u.events_pending
          /\ v.outcome = u.outcome /\ v.stack = u.stack
      BY <2>1, GoneIo DEF v, t, i, q, r
    <2>3. /\ v.list["free"] = Append(u.list["free"], s) /\ v.list[t] = r
          /\ \A x \in IoTypes : x # t => v.list[x] = u.list[x]
      BY <2>1, <2>2, ViewIs DEF IoTypes
    <2>4. ToSet(v.list["free"]) = ToSet(u.list["free"]) \cup {s} /\ Distinct(v.list["free"])
      BY <1>1, <2>3, AppendIs
    <2>5. q \in Seq(Structs) /\ Distinct(q) /\ Together(u.ev, q) BY <2>1, ViewIs DEF Lists, q
    <2> DEFINE p == At(q, s)
    <2>6. p \in 1..Len(q) /\ q[p] = s BY <2>1, <2>5, AtIs, SeqIs
    <2> HIDE DEF p
    <2>7. Distinct(r) /\ ToSet(r) = ToSet(q) \ {s} BY <2>5, <2>6, RemoveAtSet DEF r, p
    <2>8. Together(u.ev, r) BY <2>5, <2>6, RemoveTogether DEF r, p
    <2>9. \A x \in IoTypes : s \in ToSet(u.list[x]) => x = t BY <2>1, ListedIs DEF q
    <2>10. \A x \in IoTypes : ToSet(v.list[x]) = ToSet(u.list[x]) \ {s}
      BY <2>3, <2>7, <2>9 DEF q
    <2>11. Lists(v)
      <3>1. \A x \in IoTypes \cup {"free"} : Distinct(v.list[x]) BY <2>3, <2>4, <2>7 DEF Lists
      <3>2. \A x \in IoTypes : Together(v.ev, v.list[x]) BY <2>2, <2>3, <2>8 DEF Lists
      <3>3. \A x \in IoTypes : \A y \in ToSet(v.list[x]) :
               v.ev[y].type = x /\ v.ev[y].iod \in Iods /\ y \notin ToSet(v.list["free"])
        <4> SUFFICES ASSUME NEW x \in IoTypes, NEW y \in ToSet(v.list[x])
                     PROVE  v.ev[y].type = x /\ v.ev[y].iod \in Iods /\ y \notin ToSet(v.list["free"])
          OBVIOUS
        <4>1. y \in ToSet(u.list[x]) /\ y # s BY <2>10
        <4>2. u.ev[y].type = x /\ u.ev[y].iod \in Iods /\ y \notin ToSet(u.list["free"])
          BY <4>1 DEF Lists
        <4> QED BY <4>1, <4>2, <2>2, <2>4
      <3> QED BY <3>1, <3>2, <3>3 DEF Lists
    <2>12. u.iod[i] \in IodShape /\ u.iod[i].first \in [IoTypes -> Structs \cup {None}]
           /\ u.iod \in [Iods -> IodShape]
      BY <2>1, IodIs, ViewIs
    <2> DEFINE g == [u.iod[i].first EXCEPT ![t] = FirstAfter(u, s)]
    <2> HIDE DEF g
    <2>13. v.iod[i] = [u.iod[i] EXCEPT !.first = g] /\ \A j \in Iods : j # i => v.iod[j] = u.iod[j]
      BY <2>1, <2>2, <2>12 DEF g
    <2>14. v.iod[i].first = g BY <2>12, <2>13 DEF IodShape
    <2>15. SameIods(u, v)
      <3>1. /\ v.iod[i].state = u.iod[i].state /\ v.iod[i].sd = u.iod[i].sd
            /\ v.iod[i].ssl = u.iod[i].ssl /\ v.iod[i].pending = u.iod[i].pending
            /\ v.iod[i].count = u.iod[i].count /\ v.iod[i].watched = u.iod[i].watched
        BY <2>12, <2>13 DEF IodShape
      <3> QED BY <3>1, <2>13 DEF SameIods
    <2>16. ASSUME Firsts(u), NEW j \in Iods, NEW x \in IoTypes
           PROVE  FirstIs(v.ev, v.list[x], j, v.iod[j].first[x])
      <3>1. FirstIs(u.ev, u.list[x], j, u.iod[j].first[x]) BY <2>16 DEF Firsts
      <3>2. CASE x # t
        <4>1. v.list[x] = u.list[x] BY <3>2, <2>3
        <4>2. g[x] = u.iod[i].first[x] BY <3>2, <2>12 DEF g
        <4>3. v.iod[j].first[x] = u.iod[j].first[x] BY <4>2, <2>13, <2>14
        <4> QED BY <3>1, <4>1, <4>3, <2>2
      <3>3. CASE x = t /\ j # i
        <4>1. u.iod[j].first[t] # s
          <5> SUFFICES ASSUME u.iod[j].first[t] = s PROVE FALSE OBVIOUS
          <5>1. u.ev[s].iod = j BY <3>1, <3>3, NoneOut DEF FirstIs
          <5> QED BY <5>1, <3>3 DEF i
        <4>2. FirstIs(u.ev, r, j, u.iod[j].first[t])
          BY <3>1, <3>3, <4>1, <2>5, <2>6, RemoveOther DEF r, p, q
        <4> QED BY <3>3, <4>2, <2>2, <2>3, <2>13
      <3>4. CASE x = t /\ j = i
        <4>1. v.iod[i].first[t] = FirstAfter(u, s) BY <2>1, <2>12, <2>14 DEF g
        <4>2. CASE u.iod[i].first[t] # s
          <5>1. FirstAfter(u, s) = u.iod[i].first[t] BY <4>2 DEF FirstAfter, i, t
          <5>2. FirstIs(u.ev, r, i, u.iod[i].first[t])
            BY <3>1, <3>4, <4>2, <2>5, <2>6, RemoveOther DEF r, p, q
          <5> QED BY <3>4, <4>1, <5>1, <5>2, <2>2, <2>3
        <4>3. CASE u.iod[i].first[t] = s
          <5>1. NextOf(u, s) = After(q, p) BY <2>1, NextIs DEF q, p
          <5>2. FirstAfter(u, s) = IF After(q, p) # None /\ u.ev[After(q, p)].iod = i
                                   THEN After(q, p) ELSE None
            BY <4>3, <5>1 DEF FirstAfter, i, t
          <5>3. FirstIs(u.ev, q, i, q[p]) BY <3>1, <3>4, <4>3, <2>6 DEF q
          <5>4. FirstIs(u.ev, r, i, FirstAfter(u, s))
            BY <5>2, <5>3, <2>5, <2>6, RemoveTheFirst DEF r, p
          <5> QED BY <3>4, <4>1, <5>4, <2>2, <2>3
        <4> QED BY <4>2, <4>3
      <3> QED BY <3>2, <3>3, <3>4
    <2>17. Firsts(u) => Firsts(v) BY <2>16 DEF Firsts
    <2> QED BY <2>2, <2>4, <2>10, <2>11, <2>15, <2>17 DEF v
  <1> QED BY <1>2, <1>3 DEF v

\* iod_add_event() puts a struct that is on no list among the events of its iod.
LEMMA AddIs ==
    ASSUME NEW u \in Views, Lists(u), Firsts(u), NEW s \in Structs,
           u.ev[s].type \in IoTypes, u.ev[s].iod \in Iods,
           \A t \in IoTypes \cup {"free"} : s \notin ToSet(u.list[t])
    PROVE  /\ iod_add_event(u, s) \in Views
           /\ iod_add_event(u, s).ev = u.ev /\ iod_add_event(u, s).expirables = u.expirables
           /\ iod_add_event(u, s).events_pending = u.events_pending
           /\ iod_add_event(u, s).outcome = u.outcome /\ iod_add_event(u, s).stack = u.stack
           /\ SameIods(u, iod_add_event(u, s))
           /\ ToSet(iod_add_event(u, s).list[u.ev[s].type]) = ToSet(u.list[u.ev[s].type]) \cup {s}
           /\ \A t \in IoTypes \cup {"free"} :
                 t # u.ev[s].type => iod_add_event(u, s).list[t] = u.list[t]
           /\ Lists(iod_add_event(u, s)) /\ Firsts(iod_add_event(u, s))
  <1> DEFINE v == iod_add_event(u, s)
             t == u.ev[s].type
             i == u.ev[s].iod
             q == u.list[t]
             f == u.iod[i].first[t]
             r == IF f = None THEN Append(q, s) ELSE InsertAt(q, At(q, f), s)
             g == [u.iod[i].first EXCEPT ![t] = s]
  <1>1. v = [u EXCEPT !.list[t] = r, !.iod[i].first[t] = s] BY DEF iod_add_event
  <1>2. t \in IoTypes /\ i \in Iods /\ t # "free" BY DEF IoTypes
  <1>3. q \in Seq(Structs) /\ Distinct(q) /\ Together(u.ev, q) /\ s \notin ToSet(q)
        /\ FirstIs(u.ev, q, i, f)
    BY <1>2, ViewIs DEF Lists, Firsts
  <1>4. u.iod[i] \in IodShape /\ u.iod[i].first \in [IoTypes -> Structs \cup {None}]
        /\ u.iod \in [Iods -> IodShape]
    BY <1>2, IodIs, ViewIs
  <1> HIDE DEF v, t, i, q, f
  <1>5. /\ r \in Seq(Structs) /\ Distinct(r) /\ ToSet(r) = ToSet(q) \cup {s} /\ Together(u.ev, r)
        /\ FirstIs(u.ev, r, i, s)
        /\ \A j, h : j # i /\ FirstIs(u.ev, q, j, h) => FirstIs(u.ev, r, j, h)
    <2>1. CASE f = None
      <3>1. r = Append(q, s) BY <2>1
      <3>2. FirstIs(u.ev, q, u.ev[s].iod, None) BY <2>1, <1>3 DEF i
      <3>3. /\ Together(u.ev, Append(q, s)) /\ FirstIs(u.ev, Append(q, s), u.ev[s].iod, s)
            /\ \A j, h : j # u.ev[s].iod /\ FirstIs(u.ev, q, j, h) => FirstIs(u.ev, Append(q, s), j, h)
        BY <3>2, <1>3, AppendFirst
      <3>4. /\ Append(q, s) \in Seq(Structs) /\ Distinct(Append(q, s))
            /\ ToSet(Append(q, s)) = ToSet(q) \cup {s}
        BY <1>3, AppendIs
      <3> HIDE DEF r
      <3> QED BY <3>1, <3>3, <3>4 DEF i
    <2>2. CASE f # None
      <3> DEFINE p == At(q, f)
      <3>1. r = InsertAt(q, p, s) BY <2>2
      <3>2. \E k \in DOMAIN q : q[k] = f BY <2>2, <1>3 DEF FirstIs
      <3>3. f \in ToSet(q) BY <3>2 DEF ToSet
      <3>4. p \in 1..Len(q) /\ q[p] = f BY <3>3, <1>3, AtIs, SeqIs
      <3> HIDE DEF p
      <3>5. FirstIs(u.ev, q, u.ev[s].iod, q[p]) BY <3>4, <1>3 DEF i
      <3>6. /\ Together(u.ev, InsertAt(q, p, s)) /\ FirstIs(u.ev, InsertAt(q, p, s), u.ev[s].iod, s)
            /\ \A j, h : j # u.ev[s].iod /\ FirstIs(u.ev, q, j, h)
                            => FirstIs(u.ev, InsertAt(q, p, s), j, h)
        BY <3>4, <3>5, <1>3, InsertFirst
      <3>a. Inserted(Structs, InsertAt(q, p, s), q, p, s) BY <3>4, <1>3, InsertAtIs
      <3>7. InsertAt(q, p, s) \in Seq(Structs) BY <3>a DEF Inserted
      <3>8. Distinct(InsertAt(q, p, s)) /\ ToSet(InsertAt(q, p, s)) = ToSet(q) \cup {s}
        BY <3>4, <1>3, InsertAtSet
      <3> HIDE DEF r
      <3> QED BY <3>1, <3>6, <3>7, <3>8 DEF i
    <2> QED BY <2>1, <2>2
  <1> HIDE DEF r
  <1>6. g \in [IoTypes -> Structs \cup {None}] BY <1>2, <1>4
  <1> HIDE DEF g
  <1> DEFINE fs == [u.iod EXCEPT ![i] = [u.iod[i] EXCEPT !.first = g]]
             ls == [u.list EXCEPT ![t] = r]
  <1>7. fs \in [Iods -> IodShape]
    <2>1. [u.iod[i] EXCEPT !.first = g] \in IodShape BY <1>4, <1>6 DEF IodShape
    <2> QED BY <2>1, <1>4
  <1>8. ls \in [IoTypes \cup {"free"} -> Seq(Structs)] BY <1>5, ViewIs
  <1>9. v = [u EXCEPT !.list = ls, !.iod = fs] BY <1>1 DEF g
  <1> HIDE DEF fs, ls
  <1>10. /\ v \in Views /\ v.list = ls /\ v.iod = fs /\ v.ev = u.ev /\ v.expirables = u.expirables
         /\ v.events_pending = u.events_pending /\ v.outcome = u.outcome /\ v.stack = u.stack
    BY <1>7, <1>8, <1>9 DEF Views
  <1>11. v.list[t] = r /\ \A x \in IoTypes \cup {"free"} : x # t => v.list[x] = u.list[x]
    BY <1>2, <1>10, ViewIs DEF ls
  <1>12. v.iod[i] = [u.iod[i] EXCEPT !.first = g] /\ \A j \in Iods : j # i => v.iod[j] = u.iod[j]
    BY <1>2, <1>4, <1>10 DEF fs
  <1>13. v.iod[i].first = g BY <1>4, <1>12 DEF IodShape
  <1>14. SameIods(u, v)
    <2>1. /\ v.iod[i].state = u.iod[i].state /\ v.iod[i].sd = u.iod[i].sd
          /\ v.iod[i].ssl = u.iod[i].ssl /\ v.iod[i].pending = u.iod[i].pending
          /\ v.iod[i].count = u.iod[i].count /\ v.iod[i].watched = u.iod[i].watched
      BY <1>4, <1>12 DEF IodShape
    <2> QED BY <2>1, <1>12 DEF SameIods
  <1>15. Lists(v)
    <2>1. \A x \in IoTypes \cup {"free"} : Distinct(v.list[x]) BY <1>5, <1>11 DEF Lists
    <2>2. \A x \in IoTypes : Together(v.ev, v.list[x]) BY <1>5, <1>10, <1>11 DEF Lists
    <2>3. ASSUME NEW x \in IoTypes, NEW y \in ToSet(v.list[x])
          PROVE  v.ev[y].type = x /\ v.ev[y].iod \in Iods /\ y \notin ToSet(v.list["free"])
      <3>1. v.list["free"] = u.list["free"] /\ s \notin ToSet(u.list["free"]) BY <1>2, <1>11
      <3>2. CASE y = s
        <4>1. x = t
          <5> SUFFICES ASSUME x # t PROVE FALSE OBVIOUS
          <5>1. v.list[x] = u.list[x] BY <1>11
          <5> QED BY <5>1, <2>3, <3>2
        <4> QED BY <3>1, <3>2, <4>1, <1>2, <1>10 DEF t, i
      <3>3. CASE y # s
        <4>1. y \in ToSet(u.list[x]) BY <3>3, <2>3, <1>5, <1>11 DEF q
        <4>2. u.ev[y].type = x /\ u.ev[y].iod \in Iods /\ y \notin ToSet(u.list["free"])
          BY <4>1 DEF Lists
        <4> QED BY <4>2, <3>1, <1>10
      <3> QED BY <3>2, <3>3
    <2> QED BY <2>1, <2>2, <2>3 DEF Lists
  <1>16. ASSUME NEW j \in Iods, NEW x \in IoTypes
         PROVE  FirstIs(v.ev, v.list[x], j, v.iod[j].first[x])
    <2>1. FirstIs(u.ev, u.list[x], j, u.iod[j].first[x]) BY DEF Firsts
    <2>2. CASE x # t
      <3>1. v.list[x] = u.list[x] BY <2>2, <1>11
      <3>2. g[x] = u.iod[i].first[x] BY <2>2, <1>4 DEF g
      <3>3. v.iod[j].first[x] = u.iod[j].first[x] BY <3>2, <1>12, <1>13
      <3> QED BY <2>1, <3>1, <3>3, <1>10
    <2>3. CASE x = t /\ j # i
      <3>1. FirstIs(u.ev, r, j, u.iod[j].first[t]) BY <2>1, <2>3, <1>5 DEF q
      <3> QED BY <2>3, <3>1, <1>10, <1>11, <1>12
    <2>4. CASE x = t /\ j = i
      <3>1. v.iod[i].first[t] = s BY <1>2, <1>4, <1>13 DEF g
      <3> QED BY <2>4, <3>1, <1>5, <1>10, <1>11
    <2> QED BY <2>2, <2>3, <2>4
  <1>17. Firsts(v) BY <1>16 DEF Firsts
  <1> QED BY <1>5, <1>10, <1>11, <1>14, <1>15, <1>17 DEF v, t, q

-----------------------------------------------------------------------------
(* The handle_*_result() functions.                                         *)

\* v is u but for the counts of iods and for how far the event s has come.
Touch(u, v, s) ==
    /\ v \in Views
    /\ v.list = u.list /\ v.expirables = u.expirables /\ v.events_pending = u.events_pending
    /\ v.outcome = u.outcome /\ v.stack = u.stack
    /\ \A x \in Structs : x # s => v.ev[x] = u.ev[x]
    /\ v.ev[s].id = u.ev[s].id /\ v.ev[s].type = u.ev[s].type /\ v.ev[s].iod = u.ev[s].iod
    /\ v.ev[s].timeout = u.ev[s].timeout /\ (u.ev[s].done => v.ev[s].done)
    /\ \A i \in Iods : /\ v.iod[i].state = u.iod[i].state /\ v.iod[i].sd = u.iod[i].sd
                       /\ v.iod[i].pending = u.iod[i].pending /\ v.iod[i].first = u.iod[i].first

\* v is u with the counts of iod i replaced.
Counted(u, v, i, count, watched) ==
    /\ v \in Views /\ v = [u EXCEPT !.iod = v.iod]
    /\ \A j \in Iods : /\ j # i => v.iod[j] = u.iod[j]
                       /\ v.iod[j].state = u.iod[j].state /\ v.iod[j].sd = u.iod[j].sd
                       /\ v.iod[j].ssl = u.iod[j].ssl
                       /\ v.iod[j].pending = u.iod[j].pending /\ v.iod[j].first = u.iod[j].first
    /\ v.iod[i].count = count /\ v.iod[i].watched = watched

\* A change of one count of one iod touches nothing else.
LEMMA CountedIs ==
    ASSUME NEW u \in Views, NEW v, NEW i \in Iods, NEW c, NEW w, Counted(u, v, i, c, w)
    PROVE  /\ v.ev = u.ev /\ v.list = u.list /\ v.expirables = u.expirables
           /\ v.events_pending = u.events_pending /\ v.outcome = u.outcome /\ v.stack = u.stack
           /\ \A s \in Structs : Touch(u, v, s)
  <1> DEFINE f == v.iod
  <1> HIDE DEF f
  <1>1. v = [u EXCEPT !.iod = f] /\ v \in Views BY DEF Counted, f
  <1>2. /\ v.ev = u.ev /\ v.list = u.list /\ v.expirables = u.expirables
        /\ v.events_pending = u.events_pending /\ v.outcome = u.outcome /\ v.stack = u.stack
    BY <1>1 DEF Views
  <1> QED BY <1>1, <1>2 DEF Touch, Counted

\* socket_count_*_inc().
LEMMA IncIs ==
    ASSUME NEW u \in Views, NEW i \in Iods, NEW b \in Bits
    PROVE  Counted(u, Inc(u, i, b), i, [u.iod[i].count EXCEPT ![b] = @ + 1], u.iod[i].watched \cup {b})
  <1> DEFINE v == Inc(u, i, b)
             c == [u.iod[i].count EXCEPT ![b] = @ + 1]
             w == u.iod[i].watched \cup {b}
             r == [u.iod[i] EXCEPT !.count = c, !.watched = w, !.registered = TRUE]
             fs == [u.iod EXCEPT ![i] = r]
  <1>1. v = [u EXCEPT !.iod = fs] BY DEF Inc
  <1>2. u.iod[i] \in IodShape /\ u.iod[i].count \in [Bits -> Int] /\ u.iod[i].watched \in SUBSET Bits
        /\ u.iod \in [Iods -> IodShape]
    BY IodIs, ViewIs
  <1>3. c \in [Bits -> Int] /\ w \in SUBSET Bits BY <1>2
  <1> HIDE DEF c, w, v
  <1>4. r \in IodShape /\ r.count = c /\ r.watched = w /\ r.state = u.iod[i].state /\ r.sd = u.iod[i].sd
        /\ r.ssl = u.iod[i].ssl /\ r.pending = u.iod[i].pending /\ r.first = u.iod[i].first
    BY <1>2, <1>3 DEF IodShape
  <1> HIDE DEF r
  <1>5. fs \in [Iods -> IodShape] /\ fs[i] = r /\ \A j \in Iods : j # i => fs[j] = u.iod[j]
    BY <1>2, <1>4
  <1> HIDE DEF fs
  <1>6. v \in Views /\ v.iod = fs BY <1>1, <1>5 DEF Views
  <1>7. Counted(u, v, i, c, w) BY <1>1, <1>4, <1>5, <1>6 DEF Counted
  <1> QED BY <1>7 DEF v, c, w

\* An SSL event may count for nothing: its desire is then no key of the counts.
LEMMA DecIs ==
    ASSUME NEW u \in Views, NEW i \in Iods, NEW b
    PROVE  Counted(u, Dec(u, i, b), i, [u.iod[i].count EXCEPT ![b] = u.iod[i].count[b] - 1],
                   IF u.iod[i].count[b] - 1 = 0 THEN u.iod[i].watched \ {b} ELSE u.iod[i].watched)
  <1> DEFINE v == Dec(u, i, b)
             c == [u.iod[i].count EXCEPT ![b] = u.iod[i].count[b] - 1]
             w == IF u.iod[i].count[b] - 1 = 0 THEN u.iod[i].watched \ {b} ELSE u.iod[i].watched
             r == [u.iod[i] EXCEPT !.count = c, !.watched = w]
             fs == [u.iod EXCEPT ![i] = r]
  <1>1. v = [u EXCEPT !.iod = fs] BY DEF Dec
  <1>2. u.iod[i] \in IodShape /\ u.iod[i].count \in [Bits -> Int] /\ u.iod[i].watched \in SUBSET Bits
        /\ u.iod \in [Iods -> IodShape]
    BY IodIs, ViewIs
  <1>3. c \in [Bits -> Int] /\ w \in SUBSET Bits
    <2>1. CASE b \in Bits BY <1>2, <2>1
    <2>2. CASE b \notin Bits BY <1>2, <2>2
    <2> QED BY <2>1, <2>2
  <1> HIDE DEF c, w, v
  <1>4. r \in IodShape /\ r.count = c /\ r.watched = w /\ r.state = u.iod[i].state /\ r.sd = u.iod[i].sd
        /\ r.ssl = u.iod[i].ssl /\ r.pending = u.iod[i].pending /\ r.first = u.iod[i].first
    BY <1>2, <1>3 DEF IodShape
  <1> HIDE DEF r
  <1>5. fs \in [Iods -> IodShape] /\ fs[i] = r /\ \A j \in Iods : j # i => fs[j] = u.iod[j]
    BY <1>2, <1>4
  <1> HIDE DEF fs
  <1>6. v \in Views /\ v.iod = fs BY <1>1, <1>5 DEF Views
  <1>7. Counted(u, v, i, c, w) BY <1>1, <1>4, <1>5, <1>6 DEF Counted
  <1> QED BY <1>7 DEF v, c, w

\* Two changes of the same event are one.
LEMMA TouchTrans ==
    ASSUME NEW u, NEW v, NEW w, NEW s, Touch(u, v, s), Touch(v, w, s)
    PROVE  Touch(u, w, s)
  BY DEF Touch

\* No change is a change.
LEMMA TouchSelf ==
    ASSUME NEW u \in Views, NEW s PROVE Touch(u, u, s)
  BY DEF Touch

\* Replacing how far s has come.
LEMMA EventTouch ==
    ASSUME NEW u \in Views, NEW s \in Structs, NEW e \in Event,
           e.id = u.ev[s].id, e.type = u.ev[s].type, e.iod = u.ev[s].iod,
           e.timeout = u.ev[s].timeout, u.ev[s].done => e.done
    PROVE  /\ Touch(u, [u EXCEPT !.ev = [u.ev EXCEPT ![s] = e]], s)
           /\ [u EXCEPT !.ev = [u.ev EXCEPT ![s] = e]].ev[s] = e
           /\ [u EXCEPT !.ev = [u.ev EXCEPT ![s] = e]].iod = u.iod
  <1> DEFINE E == [u.ev EXCEPT ![s] = e]
             v == [u EXCEPT !.ev = E]
  <1>1. E \in [Structs -> Event] /\ E[s] = e /\ \A x \in Structs : x # s => E[x] = u.ev[x]
    BY ViewIs
  <1> HIDE DEF E
  <1>2. v = [u EXCEPT !.ev = E] OBVIOUS
  <1> HIDE DEF v
  <1>3. /\ v.ev = E /\ v.list = u.list /\ v.expirables = u.expirables /\ v.iod = u.iod
        /\ v.events_pending = u.events_pending /\ v.outcome = u.outcome /\ v.stack = u.stack
        /\ v \in Views
    BY <1>1, <1>2 DEF Views
  <1>4. Touch(u, v, s) /\ v.ev[s] = e /\ v.iod = u.iod BY <1>1, <1>3 DEF Touch
  <1> QED BY <1>4 DEF v, E

\* An event that is done stays where it is.
LEMMA MarkedIs ==
    ASSUME NEW u \in Views, NEW s \in Structs, NEW status \in Status
    PROVE  /\ Touch(u, Marked(u, s, status), s) /\ Marked(u, s, status).ev[s].done
           /\ Marked(u, s, status).iod = u.iod
           /\ Marked(u, s, status).ev[s].desire = u.ev[s].desire
           /\ Marked(u, s, status).ev[s].status = status
  <1> DEFINE e == [u.ev[s] EXCEPT !.done = TRUE, !.status = status]
  <1>1. u.ev[s] \in Event BY EventIs
  <1>2. e \in Event /\ e.id = u.ev[s].id /\ e.type = u.ev[s].type /\ e.iod = u.ev[s].iod
        /\ e.timeout = u.ev[s].timeout /\ e.done = TRUE /\ e.desire = u.ev[s].desire /\ e.status = status
    BY <1>1 DEF Event, Status
  <1>3. Marked(u, s, status) = [u EXCEPT !.ev = [u.ev EXCEPT ![s] = e]]
    BY DEF Marked
  <1> DEFINE v == Marked(u, s, status)
  <1> HIDE DEF e, v
  <1>4. u.ev[s].done => e.done BY <1>2
  <1>5. v = [u EXCEPT !.ev = [u.ev EXCEPT ![s] = e]] BY <1>3 DEF v
  <1>6. Touch(u, v, s) /\ v.ev[s] = e /\ v.iod = u.iod
    <2>1. e \in Event BY <1>2
    <2>2. e.id = u.ev[s].id /\ e.type = u.ev[s].type /\ e.iod = u.ev[s].iod /\ e.timeout = u.ev[s].timeout
      BY <1>2
    <2> QED BY <2>1, <2>2, <1>4, <1>5, EventTouch
  <1> QED BY <1>2, <1>6 DEF v

\* An event of which SSL wants something else.
LEMMA DesireIs ==
    ASSUME NEW u \in Views, NEW s \in Structs, NEW d \in {"none", "connect", "r", "w"}
    PROVE  /\ Touch(u, [u EXCEPT !.ev[s].desire = d], s)
           /\ [u EXCEPT !.ev[s].desire = d].ev[s].done = u.ev[s].done
           /\ [u EXCEPT !.ev[s].desire = d].iod = u.iod
  <1> DEFINE e == [u.ev[s] EXCEPT !.desire = d]
             v == [u EXCEPT !.ev[s].desire = d]
  <1>1. u.ev[s] \in Event BY EventIs
  <1>2. e \in Event /\ e.id = u.ev[s].id /\ e.type = u.ev[s].type /\ e.iod = u.ev[s].iod
        /\ e.timeout = u.ev[s].timeout /\ e.done = u.ev[s].done
    BY <1>1 DEF Event, Bits
  <1>3. v = [u EXCEPT !.ev = [u.ev EXCEPT ![s] = e]]
    OBVIOUS
  <1> HIDE DEF e, v
  <1>4. u.ev[s].done => e.done BY <1>2
  <1>5. v = [u EXCEPT !.ev = [u.ev EXCEPT ![s] = e]] BY <1>3
  <1>6. Touch(u, v, s) /\ v.ev[s] = e /\ v.iod = u.iod
    <2>1. e \in Event BY <1>2
    <2>2. e.id = u.ev[s].id /\ e.type = u.ev[s].type /\ e.iod = u.ev[s].iod /\ e.timeout = u.ev[s].timeout
      BY <1>2
    <2> QED BY <2>1, <2>2, <1>4, <1>5, EventTouch
  <1> QED BY <1>2, <1>6 DEF v

\* socket_count_*_inc() for an event.
LEMMA IncTouch ==
    ASSUME NEW u \in Views, NEW i \in Iods, NEW b \in Bits, NEW s \in Structs
    PROVE  Touch(u, Inc(u, i, b), s) /\ Inc(u, i, b).ev = u.ev
  <1> DEFINE v == Inc(u, i, b)
             c == [u.iod[i].count EXCEPT ![b] = @ + 1]
             w == u.iod[i].watched \cup {b}
  <1> HIDE DEF v, c, w
  <1>1. Counted(u, v, i, c, w) BY IncIs DEF v, c, w
  <1> QED BY <1>1, CountedIs DEF v

\* socket_count_*_dec() for an event.
LEMMA DecTouch ==
    ASSUME NEW u \in Views, NEW i \in Iods, NEW b, NEW s \in Structs
    PROVE  Touch(u, Dec(u, i, b), s) /\ Dec(u, i, b).ev = u.ev
  <1> DEFINE v == Dec(u, i, b)
             c == [u.iod[i].count EXCEPT ![b] = u.iod[i].count[b] - 1]
             w == IF u.iod[i].count[b] - 1 = 0 THEN u.iod[i].watched \ {b} ELSE u.iod[i].watched
  <1> HIDE DEF v, c, w
  <1>1. Counted(u, v, i, c, w) BY DecIs DEF v, c, w
  <1> QED BY <1>1, CountedIs DEF v

\* Both counts of a connect.
LEMMA DecAllTouch ==
    ASSUME NEW u \in Views, NEW i \in Iods, NEW s \in Structs
    PROVE  Touch(u, DecAll(u, i), s) /\ DecAll(u, i).ev = u.ev
  <1> DEFINE v == Dec(u, i, "r")
  <1> HIDE DEF v
  <1>1. Touch(u, v, s) /\ v.ev = u.ev BY DecTouch DEF v
  <1>2. v \in Views BY <1>1 DEF Touch
  <1>3. Touch(v, Dec(v, i, "w"), s) /\ Dec(v, i, "w").ev = v.ev BY <1>2, DecTouch
  <1>4. DecAll(u, i) = Dec(v, i, "w") BY DEF DecAll, v
  <1> QED BY <1>1, <1>3, <1>4, TouchTrans

\* Both counts of a connect.
LEMMA IncAllTouch ==
    ASSUME NEW u \in Views, NEW i \in Iods, NEW s \in Structs
    PROVE  Touch(u, IncAll(u, i), s) /\ IncAll(u, i).ev = u.ev
  <1> DEFINE v == Inc(u, i, "r")
  <1> HIDE DEF v
  <1>1. Touch(u, v, s) /\ v.ev = u.ev BY IncTouch DEF v, Bits
  <1>2. v \in Views BY <1>1 DEF Touch
  <1>3. Touch(v, Inc(v, i, "w"), s) /\ Inc(v, i, "w").ev = v.ev BY <1>2, IncTouch DEF Bits
  <1>4. IncAll(u, i) = Inc(v, i, "w") BY DEF IncAll, v
  <1> QED BY <1>1, <1>3, <1>4, TouchTrans

\* An event that process_event() or nevent_delete() is called for has an iod unless it is a timer.
HasIod(u, s) == u.ev[s].type # "timer" => u.ev[s].iod \in Iods

\* The end of a handle_*_result(): the event is done, and its iod counts it no more.
LEMMA DoneIs ==
    ASSUME NEW u \in Views, NEW s \in Structs, NEW status \in Status, HasIod(u, s)
    PROVE  /\ Touch(u, Done(u, s, status), s) /\ Done(u, s, status).ev[s].done
           /\ Done(u, s, status).ev[s].status = status
  <1> DEFINE e == u.ev[s]
             m == Marked(u, s, status)
             v == Done(u, s, status)
  <1> HIDE DEF m, v
  <1>1. /\ Touch(u, m, s) /\ m.ev[s].done /\ m.ev[s].status = status /\ m.iod = u.iod
    BY MarkedIs DEF m
  <1>2. m \in Views BY <1>1 DEF Touch
  <1>3. CASE e.type = "timer" \/ ~u.iod[e.iod].sd
    <2>1. v = m BY <1>3 DEF Done, v, m
    <2> QED BY <2>1, <1>1 DEF v
  <1>4. CASE ~(e.type = "timer" \/ ~u.iod[e.iod].sd)
    <2>1. e.iod \in Iods /\ e.type \in IoTypes BY <1>4, EventIs DEF HasIod
    <2>2. \/ v = m \/ v = DecAll(m, e.iod) \/ \E b \in {"r", "w", e.desire} : v = Dec(m, e.iod, b)
      <3>1. CASE e.type = "connect"
        <4>1. v = m \/ v = DecAll(m, e.iod)
          BY <1>4, <3>1 DEF Done, SslConnecting, v, m
        <4> QED BY <4>1
      <3>2. CASE e.type = "read"
        <4>1. ~SslConnecting(u, s) BY <3>2 DEF SslConnecting
        <4>2. CASE u.iod[e.iod].ssl
          <5>1. v = Dec(m, e.iod, e.desire) BY <1>4, <3>2, <4>1, <4>2 DEF Done, v, m
          <5> QED BY <5>1
        <4>3. CASE ~u.iod[e.iod].ssl
          <5>1. v = Dec(m, e.iod, "r") BY <1>4, <3>2, <4>1, <4>3 DEF Done, v, m
          <5> QED BY <5>1
        <4> QED BY <4>2, <4>3
      <3>3. CASE e.type = "write"
        <4>1. ~SslConnecting(u, s) BY <3>3 DEF SslConnecting
        <4>2. CASE u.iod[e.iod].ssl
          <5>1. v = Dec(m, e.iod, e.desire) BY <1>4, <3>3, <4>1, <4>2 DEF Done, v, m
          <5> QED BY <5>1
        <4>3. CASE ~u.iod[e.iod].ssl
          <5>1. v = Dec(m, e.iod, "w") BY <1>4, <3>3, <4>1, <4>3 DEF Done, v, m
          <5> QED BY <5>1
        <4> QED BY <4>2, <4>3
      <3> QED BY <3>1, <3>2, <3>3, <2>1 DEF IoTypes
    <2>3. Touch(m, v, s) /\ v.ev = m.ev
      <3>1. CASE v = m BY <3>1, <1>2, TouchSelf
      <3>2. CASE v = DecAll(m, e.iod) BY <3>2, <1>2, <2>1, DecAllTouch
      <3>3. CASE \E b \in {"r", "w", e.desire} : v = Dec(m, e.iod, b) BY <3>3, <1>2, <2>1, DecTouch
      <3> QED BY <2>2, <3>1, <3>2, <3>3
    <2>4. Touch(u, v, s) BY <2>3, <1>1, TouchTrans
    <2> QED BY <2>3, <2>4, <1>1 DEF v
  <1> QED BY <1>3, <1>4

\* SSL wants a descriptor to become readable or writable.
LEMMA WantsIs ==
    ASSUME NEW u \in Views, NEW s \in Structs, NEW b \in Bits, u.ev[s].iod \in Iods
    PROVE  Touch(u, Wants(u, s, b), s) /\ Wants(u, s, b).ev[s].done = u.ev[s].done
  <1> DEFINE m == [u EXCEPT !.ev[s].desire = b]
  <1>1. Touch(u, m, s) /\ m.ev[s].done = u.ev[s].done
    <2>1. b \in {"none", "connect", "r", "w"} BY DEF Bits
    <2> HIDE DEF m
    <2> QED BY <2>1, DesireIs DEF m
  <1> HIDE DEF m
  <1>2. m \in Views BY <1>1 DEF Touch
  <1>3. Touch(m, Inc(m, u.ev[s].iod, b), s) /\ Inc(m, u.ev[s].iod, b).ev = m.ev
    BY <1>2, IncTouch
  <1>4. Wants(u, s, b) = Inc(m, u.ev[s].iod, b) BY DEF Wants, m
  <1> QED BY <1>1, <1>3, <1>4, TouchTrans

\* The first step of an SSL connect.
LEMMA SslTouch ==
    ASSUME NEW u \in Views, NEW s \in Structs, NEW i \in Iods
    PROVE  /\ Touch(u, [u EXCEPT !.iod[i].ssl = TRUE, !.ev[s].desire = "connect"], s)
           /\ [u EXCEPT !.iod[i].ssl = TRUE, !.ev[s].desire = "connect"].ev[s].done = u.ev[s].done
  <1> DEFINE f == [u.iod[i] EXCEPT !.ssl = TRUE]
             F == [u.iod EXCEPT ![i] = f]
             v == [u EXCEPT !.iod = F]
             w == [v EXCEPT !.ev[s].desire = "connect"]
  <1>1. u.iod[i] \in IodShape /\ u.iod \in [Iods -> IodShape] BY IodIs, ViewIs
  <1>2. f \in IodShape /\ f.state = u.iod[i].state /\ f.sd = u.iod[i].sd
        /\ f.pending = u.iod[i].pending /\ f.first = u.iod[i].first
    BY <1>1 DEF IodShape
  <1> HIDE DEF f
  <1>3. F \in [Iods -> IodShape] /\ F[i] = f /\ \A j \in Iods : j # i => F[j] = u.iod[j]
    BY <1>1, <1>2
  <1> HIDE DEF F
  <1>4. /\ v \in Views /\ v.iod = F /\ v.ev = u.ev /\ v.list = u.list /\ v.expirables = u.expirables
        /\ v.events_pending = u.events_pending /\ v.outcome = u.outcome /\ v.stack = u.stack
    BY <1>3 DEF Views
  <1>5. [u EXCEPT !.iod[i].ssl = TRUE, !.ev[s].desire = "connect"] = w BY DEF F, f
  <1> HIDE DEF v
  <1>6. Touch(u, v, s) BY <1>2, <1>3, <1>4 DEF Touch
  <1>7. Touch(v, w, s) /\ w.ev[s].done = v.ev[s].done BY <1>4, DesireIs
  <1> HIDE DEF w
  <1>8. Touch(u, w, s) BY <1>6, <1>7, TouchTrans
  <1> QED BY <1>4, <1>5, <1>7, <1>8

\* handle_connect_result().
LEMMA ConnectedIs ==
    ASSUME NEW u \in Views, NEW s \in Structs, u.ev[s].iod \in Iods, NEW t \in Connected(u, s)
    PROVE  Touch(u, t, s)
  <1> DEFINE i == u.ev[s].iod
             start == [u EXCEPT !.iod[i].ssl = TRUE, !.ev[s].desire = "connect"]
             tls == IF SslConnecting(u, s) THEN Dec(u, i, u.ev[s].desire) ELSE DecAll(start, i)
  <1> HIDE DEF i, start
  <1>1. i \in Iods BY DEF i
  <1>2. Touch(u, tls, s)
    <2>1. CASE SslConnecting(u, s)
      <3>1. tls = Dec(u, i, u.ev[s].desire) BY <2>1
      <3> QED BY <3>1, <1>1, DecTouch
    <2>2. CASE ~SslConnecting(u, s)
      <3>1. tls = DecAll(start, i) BY <2>2
      <3>2. Touch(u, start, s) BY <1>1, SslTouch DEF start
      <3>3. start \in Views BY <3>2 DEF Touch
      <3>4. Touch(start, DecAll(start, i), s) BY <1>1, <3>3, DecAllTouch
      <3> QED BY <3>1, <3>2, <3>4, TouchTrans
    <2> QED BY <2>1, <2>2
  <1>3. t \in {Done(u, s, "RESULT")} \cup {Marked(tls, s, "RESULT")} \cup {Wants(tls, s, b) : b \in Bits}
    BY Zenon DEF Connected, i, start
  <1> HIDE DEF tls
  <1>4. tls \in Views /\ tls.ev[s].iod = i BY <1>2 DEF Touch, i
  <1>5. CASE t = Done(u, s, "RESULT")
    <2>1. HasIod(u, s) BY DEF HasIod
    <2> QED BY <1>5, <2>1, DoneIs DEF Status
  <1>6. CASE t = Marked(tls, s, "RESULT")
    <2>1. Touch(tls, t, s) BY <1>4, <1>6, MarkedIs DEF Status
    <2> QED BY <2>1, <1>2, TouchTrans
  <1>7. CASE t \in {Wants(tls, s, b) : b \in Bits}
    <2>1. Touch(tls, t, s) BY <1>1, <1>4, <1>7, WantsIs
    <2> QED BY <2>1, <1>2, TouchTrans
  <1> QED BY <1>3, <1>5, <1>6, <1>7

\* handle_read_result() and handle_write_result().
LEMMA TransferredIs ==
    ASSUME NEW u \in Views, NEW s \in Structs, u.ev[s].iod \in Iods, NEW t \in Transferred(u, s)
    PROVE  Touch(u, t, s)
  <1> DEFINE i == u.ev[s].iod
             x == Dec(u, i, u.ev[s].desire)
  <1> HIDE DEF i
  <1>1. t \in {u, Done(u, s, "RESULT")} \cup {Wants(x, s, b) : b \in Bits}
    BY Zenon DEF Transferred, i
  <1>2. Touch(u, x, s) BY DecTouch DEF i
  <1> HIDE DEF x
  <1>3. x \in Views /\ x.ev[s].iod = i BY <1>2 DEF Touch, i
  <1>4. CASE t = u BY <1>4, TouchSelf
  <1>5. CASE t = Done(u, s, "RESULT")
    <2>1. HasIod(u, s) BY DEF HasIod
    <2> QED BY <1>5, <2>1, DoneIs DEF Status
  <1>6. CASE t \in {Wants(x, s, b) : b \in Bits}
    <2>1. Touch(x, t, s) BY <1>3, <1>6, WantsIs DEF i
    <2> QED BY <2>1, <1>2, TouchTrans
  <1> QED BY <1>1, <1>4, <1>5, <1>6

\* process_event() changes the event, its iod's counts, and nothing else; if it is late, the event
\* is done.
LEMMA ProcessIs ==
    ASSUME NEW u \in Views, NEW s \in Structs, HasIod(u, s), NEW bits, NEW late \in BOOLEAN,
           NEW t \in process_event(u, s, bits, late)
    PROVE  Touch(u, t, s) /\ (late => t.ev[s].done)
  <1> DEFINE tried == IF ~Matches(u, s, bits) THEN {u}
                      ELSE IF u.ev[s].type = "connect" THEN Connected(u, s)
                      ELSE Transferred(u, s)
  <1>1. CASE u.ev[s].done
    <2>1. t = u BY <1>1 DEF process_event
    <2> QED BY <2>1, <1>1, TouchSelf
  <1>2. CASE ~u.ev[s].done
    <2>1. t \in {IF late /\ ~x.ev[s].done THEN Done(x, s, "RESULT") ELSE x : x \in tried}
      BY <1>2, Zenon DEF process_event
    <2> HIDE DEF tried
    <2>2. PICK x \in tried : t = IF late /\ ~x.ev[s].done THEN Done(x, s, "RESULT") ELSE x
      BY <2>1
    <2>3. Touch(u, x, s)
      <3>1. CASE ~Matches(u, s, bits)
        <4>1. x = u BY <3>1 DEF tried
        <4> QED BY <4>1, TouchSelf
      <3>2. CASE Matches(u, s, bits)
        <4>1. u.ev[s].type # "timer"
          <5>1. u.ev[s].type = "timer" => ~Matches(u, s, bits) BY DEF Matches
          <5> QED BY <5>1, <3>2
        <4>2. u.ev[s].iod \in Iods BY <4>1 DEF HasIod
        <4>3. x \in Connected(u, s) \/ x \in Transferred(u, s) BY <3>2, Zenon DEF tried
        <4> QED BY <4>2, <4>3, ConnectedIs, TransferredIs
      <3> QED BY <3>1, <3>2
    <2>4. CASE late /\ ~x.ev[s].done
      <3>1. t = Done(x, s, "RESULT") BY <2>2, <2>4
      <3>2. x \in Views /\ HasIod(x, s) BY <2>3 DEF Touch, HasIod
      <3>3. Touch(x, t, s) /\ t.ev[s].done BY <3>1, <3>2, DoneIs DEF Status
      <3> QED BY <2>3, <3>3, TouchTrans
    <2>5. CASE ~(late /\ ~x.ev[s].done)
      <3>1. t = x BY <2>2, <2>5
      <3> QED BY <3>1, <2>3, <2>5
    <2> QED BY <2>4, <2>5
  <1> QED BY <1>1, <1>2

\* What the lists, the heap and the first_* fields depend on is the same.
SameBooks(u, v) ==
    /\ v.list = u.list /\ v.expirables = u.expirables
    /\ \A x \in Structs : v.ev[x].type = u.ev[x].type /\ v.ev[x].iod = u.ev[x].iod
    /\ \A i \in Iods : v.iod[i].first = u.iod[i].first

\* The lists, the heap and the first_* fields stay in order when what they depend on stays.
LEMMA BooksKeep ==
    ASSUME NEW u \in Views, NEW v, SameBooks(u, v)
    PROVE  /\ Lists(u) => Lists(v)
           /\ Firsts(u) => Firsts(v)
           /\ Heap(u) => Heap(v)
  <1>1. /\ v.list = u.list /\ v.expirables = u.expirables
        /\ \A x \in Structs : v.ev[x].type = u.ev[x].type /\ v.ev[x].iod = u.ev[x].iod
        /\ \A i \in Iods : v.iod[i].first = u.iod[i].first
    BY DEF SameBooks
  <1>2. \A t \in IoTypes : \A k \in DOMAIN u.list[t] : u.list[t][k] \in Structs
    BY ViewIs, SeqIs
  <1>3. \A t \in IoTypes : \A x \in ToSet(u.list[t]) : x \in Structs
    BY ViewIs, SeqIs
  <1>5. Lists(u) => Lists(v)
    <2> SUFFICES ASSUME Lists(u) PROVE Lists(v) OBVIOUS
    <2>1. ASSUME NEW t \in IoTypes PROVE Together(v.ev, v.list[t])
      <3> DEFINE q == u.list[t]
      <3>1. Together(u.ev, q) /\ v.list[t] = q BY <1>1 DEF Lists
      <3>2. \A k \in DOMAIN q : q[k] \in Structs BY <1>2
      <3> HIDE DEF q
      <3>3. Together(v.ev, q) BY <3>1, <3>2, <1>1 DEF Together
      <3> QED BY <3>1, <3>3
    <2>2. \A t \in IoTypes \cup {"free"} : Distinct(v.list[t]) BY <1>1 DEF Lists
    <2>3. ASSUME NEW t \in IoTypes, NEW y \in ToSet(v.list[t])
          PROVE  v.ev[y].type = t /\ v.ev[y].iod \in Iods /\ y \notin ToSet(v.list["free"])
      <3>1. y \in ToSet(u.list[t]) BY <1>1
      <3>2. u.ev[y].type = t /\ u.ev[y].iod \in Iods /\ y \notin ToSet(u.list["free"])
        BY <3>1 DEF Lists
      <3> QED BY <3>1, <3>2, <1>1, <1>3
    <2> QED BY <2>1, <2>2, <2>3 DEF Lists
  <1>6. Firsts(u) => Firsts(v)
    <2> SUFFICES ASSUME Firsts(u), NEW i \in Iods, NEW t \in IoTypes
                 PROVE  FirstIs(v.ev, v.list[t], i, v.iod[i].first[t])
      BY DEF Firsts
    <2> DEFINE f == u.iod[i].first[t]
               q == u.list[t]
    <2>1. FirstIs(u.ev, q, i, f) BY DEF Firsts
    <2>2. v.list[t] = q /\ v.iod[i].first[t] = f BY <1>1
    <2>3. \A k \in DOMAIN q : q[k] \in Structs BY <1>2
    <2> HIDE DEF f, q
    <2>4. FirstIs(v.ev, q, i, f) BY <2>1, <2>3, <1>1 DEF FirstIs
    <2> QED BY <2>2, <2>4
  <1>7. Heap(u) => Heap(v) BY <1>1 DEF Heap
  <1> QED BY <1>5, <1>6, <1>7

\* Touching an event leaves the lists, the heap and the calls under way in order.
LEMMA TouchKeeps ==
    ASSUME NEW u \in Views, NEW s \in Structs, NEW v, Touch(u, v, s)
    PROVE  /\ v \in Views /\ Others(u, v, s)
           /\ Lists(u) => Lists(v)
           /\ Firsts(u) => Firsts(v)
           /\ Heap(u) => Heap(v)
  <1>1. /\ v \in Views /\ v.list = u.list /\ v.expirables = u.expirables
        /\ \A x \in Structs : v.ev[x].type = u.ev[x].type /\ v.ev[x].iod = u.ev[x].iod
        /\ \A i \in Iods : v.iod[i].first = u.iod[i].first
    BY DEF Touch
  <1>2. Others(u, v, s) BY <1>1 DEF Touch, Others
  <1>3. SameBooks(u, v) BY <1>1 DEF SameBooks
  <1> QED BY <1>1, <1>2, <1>3, BooksKeep

-----------------------------------------------------------------------------
(* The stack of calls and the events that have not ended.                   *)

\* A stack without its last frame.
LEMMA FrontIs ==
    ASSUME NEW S, NEW q \in Seq(S), q # <<>>
    PROVE  /\ Front(q) \in Seq(S) /\ Len(Front(q)) = Len(q) - 1
           /\ \A k \in 1..(Len(q) - 1) : Front(q)[k] = q[k]
           /\ Len(q) \in Nat \ {0} /\ q[Len(q)] \in S
  <1>1. Len(q) \in Nat \ {0} /\ DOMAIN q = 1..Len(q) /\ \A k \in 1..Len(q) : q[k] \in S
    BY SeqIs
  <1>2. \A k \in 1..(Len(q) - 1) : q[k] \in S BY <1>1
  <1>3. 1 \in Int /\ Len(q) - 1 \in Int BY <1>1
  <1> DEFINE r == SubSeq(q, 1, Len(q) - 1)
  <1>4. /\ r \in Seq(S) /\ Len(r) = IF 1 <= Len(q) - 1 THEN Len(q) - 1 - 1 + 1 ELSE 0
        /\ \A k \in 1..(Len(q) - 1 - 1 + 1) : r[k] = q[1 + k - 1]
    BY <1>2, <1>3, SubSeqProperties
  <1> HIDE DEF r
  <1>5. Len(q) - 1 - 1 + 1 = Len(q) - 1 /\ \A k \in 1..(Len(q) - 1) : 1 + k - 1 = k BY <1>1
  <1>6. Len(r) = Len(q) - 1
    <2>1. CASE 1 <= Len(q) - 1 BY <2>1, <1>4, <1>5
    <2>2. CASE ~(1 <= Len(q) - 1)
      <3>1. Len(q) - 1 = 0 BY <2>2, <1>1
      <3>2. Len(r) = 0 BY <2>2, <1>4
      <3> QED BY <3>1, <3>2
    <2> QED BY <2>1, <2>2
  <1>7. \A k \in 1..(Len(q) - 1) : r[k] = q[k]
    <2> SUFFICES ASSUME NEW k \in 1..(Len(q) - 1) PROVE r[k] = q[k] OBVIOUS
    <2>1. k \in 1..(Len(q) - 1 - 1 + 1) /\ 1 + k - 1 = k BY <1>1
    <2>2. r[k] = q[1 + k - 1] BY <2>1, <1>4
    <2> QED BY <2>1, <2>2
  <1> QED BY <1>1, <1>4, <1>6, <1>7 DEF Front, r

\* Replacing the last element.
LEMMA SwapIs ==
    ASSUME NEW S, NEW q \in Seq(S), q # <<>>, NEW f \in S
    PROVE  /\ Append(Front(q), f) \in Seq(S) /\ Len(Append(Front(q), f)) = Len(q)
           /\ \A k \in 1..(Len(q) - 1) : Append(Front(q), f)[k] = q[k]
           /\ Append(Front(q), f)[Len(q)] = f
  <1>1. Front(q) \in Seq(S) /\ Len(Front(q)) = Len(q) - 1 /\ Len(q) \in Nat \ {0}
        /\ \A k \in 1..(Len(q) - 1) : Front(q)[k] = q[k]
    BY FrontIs
  <1> DEFINE p == Front(q)
  <1> HIDE DEF p
  <1>2. /\ Append(p, f) \in Seq(S) /\ Len(Append(p, f)) = Len(p) + 1
        /\ \A k \in 1..(Len(p) + 1) : Append(p, f)[k] = IF k <= Len(p) THEN p[k] ELSE f
    BY <1>1, AppendIs DEF p
  <1> QED BY <1>1, <1>2 DEF p

\* The frames of the stack.
LEMMA StackIs ==
    ASSUME NEW u \in Views
    PROVE  /\ u.stack \in Seq(Frame) /\ Len(u.stack) \in Nat /\ DOMAIN u.stack = 1..Len(u.stack)
           /\ \A k \in 1..Len(u.stack) : u.stack[k] \in Frame
           /\ u.stack = <<>> <=> Len(u.stack) = 0
  BY ViewIs, SeqIs

\* Which structs are held after a call has begun.
LEMMA HeldAppend ==
    ASSUME NEW u \in Views, NEW v \in Views, NEW f \in Frame, v.stack = Append(u.stack, f), NEW x
    PROVE  Held(v, x) <=> Held(u, x) \/ (f.kind = "handler" /\ f.from # "cancel" /\ f.ev = x)
  <1>1. /\ Len(v.stack) = Len(u.stack) + 1 /\ Len(u.stack) \in Nat
        /\ DOMAIN u.stack = 1..Len(u.stack) /\ DOMAIN v.stack = 1..(Len(u.stack) + 1)
    BY StackIs, AppendIs
  <1>2. \A k \in 1..(Len(u.stack) + 1) : v.stack[k] = IF k <= Len(u.stack) THEN u.stack[k] ELSE f
    BY StackIs, AppendIs
  <1> DEFINE n == Len(u.stack)
  <1>3. v.stack[n + 1] = f /\ \A k \in 1..n : v.stack[k] = u.stack[k] BY <1>1, <1>2
  <1>4. \A k \in DOMAIN v.stack : k \in DOMAIN u.stack \/ k = n + 1 BY <1>1
  <1>5. n + 1 \in DOMAIN v.stack /\ \A k \in DOMAIN u.stack : k \in DOMAIN v.stack BY <1>1
  <1> HIDE DEF n
  <1> QED BY <1>1, <1>3, <1>4, <1>5 DEF Held, Holds

\* And after it has returned.
LEMMA HeldFront ==
    ASSUME NEW u \in Views, NEW v \in Views, u.stack # <<>>, v.stack = Front(u.stack), NEW x
    PROVE  Held(u, x) <=> Held(v, x) \/ (Holds(u, Len(u.stack)) /\ u.stack[Len(u.stack)].ev = x)
  <1>1. /\ Len(v.stack) = Len(u.stack) - 1 /\ Len(u.stack) \in Nat \ {0}
        /\ DOMAIN u.stack = 1..Len(u.stack) /\ DOMAIN v.stack = 1..(Len(u.stack) - 1)
        /\ \A k \in 1..(Len(u.stack) - 1) : v.stack[k] = u.stack[k]
    BY StackIs, FrontIs
  <1> DEFINE n == Len(u.stack)
  <1>2. \A k \in DOMAIN u.stack : k \in DOMAIN v.stack \/ k = n BY <1>1
  <1>3. n \in DOMAIN u.stack /\ \A k \in DOMAIN v.stack : k \in DOMAIN u.stack BY <1>1
  <1> HIDE DEF n
  <1> QED BY <1>1, <1>2, <1>3 DEF Held, Holds, n

\* A walk that moves on changes no handler.
LEMMA HeldSwap ==
    ASSUME NEW u \in Views, NEW v \in Views, u.stack # <<>>, NEW f \in Frame,
           v.stack = Append(Front(u.stack), f),
           u.stack[Len(u.stack)].kind # "handler", f.kind # "handler", NEW x
    PROVE  Held(v, x) <=> Held(u, x)
  <1>1. /\ Len(v.stack) = Len(u.stack) /\ Len(u.stack) \in Nat \ {0}
        /\ DOMAIN u.stack = 1..Len(u.stack) /\ DOMAIN v.stack = 1..Len(u.stack)
        /\ \A k \in 1..(Len(u.stack) - 1) : v.stack[k] = u.stack[k]
        /\ v.stack[Len(u.stack)] = f
    BY StackIs, FrontIs, SwapIs
  <1> DEFINE n == Len(u.stack)
  <1>2. \A k \in DOMAIN u.stack : k \in 1..(n - 1) \/ k = n BY <1>1
  <1> HIDE DEF n
  <1> QED BY <1>1, <1>2 DEF Held, Holds, n

\* Where the other structs are.
LEMMA KeptOthers ==
    ASSUME NEW u \in Views, NEW v, NEW s, Others(u, v, s), NEW x \in Structs, x # s
    PROVE  Kept(v, x) <=> Kept(u, x)
  <1>1. u.ev[x].type # "timer" => u.ev[x].type \in IoTypes \cup {"free"} BY EventIs
  <1> QED BY <1>1 DEF Others, Kept

\* An event ends.
LEMMA EndEvents ==
    ASSUME NEW u \in Views, NEW v, NEW s \in Structs, NEW n, NEW a, NEW w \in {"told", "silent"},
           Events(u, n, a), Live(u, s), Others(u, v, s), v.ev[s].done, ~Live(v, s),
           \A x \in Structs : x # s => (Held(v, x) <=> Held(u, x)),
           v.outcome[u.ev[s].id] = w, \A d \in Ids : d # u.ev[s].id => v.outcome[d] = u.outcome[d]
    PROVE  /\ Events(v, n, a)
           /\ u.ev[s].id \in PendingOf(u) /\ PendingOf(v) = PendingOf(u) \ {u.ev[s].id}
  <1> DEFINE id == u.ev[s].id
  <1>1. id \in Ids /\ u.outcome[id] = "pending" /\ s <= a BY DEF Events
  <1> HIDE DEF id
  <1>2. /\ v.outcome[id] = w /\ \A d \in Ids : d # id => v.outcome[d] = u.outcome[d]
    BY DEF id
  <1>3. \A x \in Structs : x # s => (Live(v, x) <=> Live(u, x)) /\ v.ev[x] = u.ev[x]
    BY KeptOthers DEF Live, Others
  <1>4. \A x \in Structs : x # s /\ Live(u, x) => u.ev[x].id # id
    BY DEF Events, id
  <1>5. \A x \in Structs : ~v.ev[x].done => Live(v, x) BY <1>3 DEF Events
  <1>6. ASSUME NEW x \in Structs, Live(v, x)
        PROVE  /\ x # s /\ Live(u, x) /\ x <= a /\ v.ev[x].id \in Ids /\ v.outcome[v.ev[x].id] = "pending"
               /\ v.ev[x].type = "timer" => v.ev[x].iod = None
    <2>1. x # s /\ Live(u, x) BY <1>3, <1>6
    <2>2. /\ x <= a /\ u.ev[x].id \in Ids /\ u.outcome[u.ev[x].id] = "pending"
          /\ u.ev[x].type = "timer" => u.ev[x].iod = None
      BY <2>1 DEF Events
    <2> QED BY <2>1, <2>2, <1>2, <1>3, <1>4
  <1>7. \A x, y \in Structs : Live(v, x) /\ Live(v, y) /\ v.ev[x].id = v.ev[y].id => x = y
    BY <1>3, <1>6 DEF Events
  <1>8. ASSUME NEW d \in Ids, v.outcome[d] = "pending"
        PROVE  \E x \in Structs : Live(v, x) /\ v.ev[x].id = d
    <2>1. d # id /\ u.outcome[d] = "pending" BY <1>2, <1>8
    <2>2. PICK x \in Structs : Live(u, x) /\ u.ev[x].id = d BY <2>1 DEF Events
    <2>3. x # s BY <2>1, <2>2 DEF id
    <2> QED BY <2>2, <2>3, <1>3
  <1>9. \A d \in Ids : v.outcome[d] = "unused" <=> d > n BY <1>1, <1>2 DEF Events
  <1>10. \A x \in ToSet(v.list["free"]) \cup v.expirables : x <= a
    <2> SUFFICES ASSUME NEW x \in ToSet(v.list["free"]) \cup v.expirables, x # s PROVE x <= a BY <1>1
    <2>1. v.list["free"] \in Seq(Structs) /\ v.expirables \subseteq Structs BY ViewIs DEF Others
    <2>2. x \in Structs BY <2>1, SeqIs
    <2>3. x \in ToSet(u.list["free"]) \cup u.expirables BY <2>2 DEF Others
    <2> QED BY <2>3 DEF Events
  <1>11. Events(v, n, a) BY <1>5, <1>6, <1>7, <1>8, <1>9, <1>10 DEF Events
  <1>12. id \in PendingOf(u) /\ PendingOf(v) = PendingOf(u) \ {id} BY <1>1, <1>2 DEF PendingOf
  <1> QED BY <1>11, <1>12 DEF id

\* No event begins or ends.
LEMMA KeepEvents ==
    ASSUME NEW u \in Views, NEW v, NEW s \in Structs, NEW n, NEW a,
           Events(u, n, a), Others(u, v, s),
           v.ev[s].id = u.ev[s].id, v.ev[s].type = u.ev[s].type, v.ev[s].iod = u.ev[s].iod,
           u.ev[s].done => v.ev[s].done, Live(v, s) <=> Live(u, s),
           \A x \in Structs : x # s => (Held(v, x) <=> Held(u, x)),
           v.outcome = u.outcome, s \in ToSet(v.list["free"]) \cup v.expirables => s <= a
    PROVE  Events(v, n, a)
  <1>1. \A x \in Structs : (Live(v, x) <=> Live(u, x)) /\ (~v.ev[x].done => ~u.ev[x].done)
    BY KeptOthers DEF Live, Others
  <1>2. \A x \in Structs : v.ev[x].id = u.ev[x].id /\ v.ev[x].type = u.ev[x].type
                           /\ v.ev[x].iod = u.ev[x].iod
    BY DEF Others
  <1>3. \A x \in ToSet(v.list["free"]) \cup v.expirables : x <= a
    <2> SUFFICES ASSUME NEW x \in ToSet(v.list["free"]) \cup v.expirables, x # s PROVE x <= a OBVIOUS
    <2>1. v.list["free"] \in Seq(Structs) /\ v.expirables \subseteq Structs BY ViewIs DEF Others
    <2>2. x \in Structs BY <2>1, SeqIs
    <2>3. x \in ToSet(u.list["free"]) \cup u.expirables BY <2>2 DEF Others
    <2> QED BY <2>3 DEF Events
  <1> QED BY <1>1, <1>2, <1>3 DEF Events

\* An event is requested; it may fail before it is added.
LEMMA BeginEvents ==
    ASSUME NEW u \in Views, NEW v, NEW s \in Structs, NEW n \in Nat, NEW a \in Nat, NEW b \in Nat,
           NEW w \in {"pending", "told"}, a <= b, n + 1 \in Ids, s <= b,
           Events(u, n, a), ~Live(u, s), Others(u, v, s), v.ev[s].id = n + 1,
           w = "pending" => ~v.ev[s].done, ~v.ev[s].done => Live(v, s),
           Live(v, s) => w = "pending",
           v.ev[s].type = "timer" => v.ev[s].iod = None,
           \A x \in Structs : x # s => (Held(v, x) <=> Held(u, x)),
           v.outcome[n + 1] = w, \A d \in Ids : d # n + 1 => v.outcome[d] = u.outcome[d]
    PROVE  Events(v, n + 1, b) /\ n + 1 \notin PendingOf(u) /\ u.outcome[n + 1] = "unused"
           /\ PendingOf(v) = IF w = "pending" THEN PendingOf(u) \cup {n + 1} ELSE PendingOf(u)
  <1> DEFINE id == n + 1
  <1>1. Ids \subseteq Nat /\ n < id BY DEF Ids
  <1>2. u.outcome[id] = "unused" /\ id \in Ids BY <1>1 DEF Events
  <1>3. /\ v.outcome[id] = w /\ \A d \in Ids : d # id => v.outcome[d] = u.outcome[d]
    OBVIOUS
  <1> HIDE DEF id
  <1>4. \A x \in Structs : x # s => (Live(v, x) <=> Live(u, x)) /\ v.ev[x] = u.ev[x]
    BY KeptOthers DEF Live, Others
  <1>5. v.ev[s].id = id BY DEF id
  <1>6. \A x \in Structs : Live(u, x) => u.ev[x].id # id /\ x # s
    BY <1>2 DEF Events
  <1>7. \A x \in Structs : ~v.ev[x].done => Live(v, x) BY <1>4 DEF Events
  <1>8. ASSUME NEW x \in Structs, Live(v, x)
        PROVE  /\ x <= b /\ v.ev[x].id \in Ids /\ v.outcome[v.ev[x].id] = "pending"
               /\ v.ev[x].type = "timer" => v.ev[x].iod = None
    <2>1. CASE x = s BY <2>1, <1>2, <1>3, <1>5, <1>8
    <2>2. CASE x # s
      <3>1. Live(u, x) /\ v.ev[x] = u.ev[x] BY <2>2, <1>4, <1>8
      <3>2. /\ x <= a /\ u.ev[x].id \in Ids /\ u.outcome[u.ev[x].id] = "pending"
            /\ u.ev[x].type = "timer" => u.ev[x].iod = None
        BY <3>1 DEF Events
      <3>3. x <= b BY <3>2 DEF Structs
      <3> QED BY <3>1, <3>2, <3>3, <1>3, <1>6
    <2> QED BY <2>1, <2>2
  <1>9. ASSUME NEW x \in Structs, NEW y \in Structs, Live(v, x), Live(v, y), v.ev[x].id = v.ev[y].id
        PROVE  x = y
    <2>1. CASE x # s /\ y # s BY <2>1, <1>4, <1>9 DEF Events
    <2>2. CASE x = s /\ y # s
      <3>1. Live(u, y) /\ v.ev[y] = u.ev[y] BY <2>2, <1>4, <1>9
      <3> QED BY <3>1, <2>2, <1>5, <1>6, <1>9
    <2>3. CASE x # s /\ y = s
      <3>1. Live(u, x) /\ v.ev[x] = u.ev[x] BY <2>3, <1>4, <1>9
      <3> QED BY <3>1, <2>3, <1>5, <1>6, <1>9
    <2>4. CASE x = s /\ y = s BY <2>4
    <2> QED BY <2>1, <2>2, <2>3, <2>4
  <1>10. ASSUME NEW d \in Ids, v.outcome[d] = "pending"
         PROVE  \E x \in Structs : Live(v, x) /\ v.ev[x].id = d
    <2>1. CASE d = id
      <3>1. w = "pending" BY <2>1, <1>3, <1>10
      <3> QED BY <3>1, <2>1, <1>5
    <2>2. CASE d # id
      <3>1. u.outcome[d] = "pending" BY <2>2, <1>3, <1>10
      <3>2. PICK x \in Structs : Live(u, x) /\ u.ev[x].id = d BY <3>1 DEF Events
      <3> QED BY <3>2, <1>4, <1>6
    <2> QED BY <2>1, <2>2
  <1>11. ASSUME NEW d \in Ids PROVE v.outcome[d] = "unused" <=> d > n + 1
    <2>1. CASE d = id
      <3>1. v.outcome[d] # "unused" BY <2>1, <1>3
      <3>2. ~(d > n + 1) BY <2>1 DEF id
      <3> QED BY <3>1, <3>2
    <2>2. CASE d # id
      <3>1. v.outcome[d] = u.outcome[d] BY <2>2, <1>3
      <3>2. u.outcome[d] = "unused" <=> d > n BY DEF Events
      <3>3. d > n <=> d > n + 1 BY <2>2, <1>1 DEF id
      <3> QED BY <3>1, <3>2, <3>3
    <2> QED BY <2>1, <2>2
  <1>12. \A x \in ToSet(v.list["free"]) \cup v.expirables : x <= b
    <2> SUFFICES ASSUME NEW x \in ToSet(v.list["free"]) \cup v.expirables, x # s PROVE x <= b OBVIOUS
    <2>1. v.list["free"] \in Seq(Structs) /\ v.expirables \subseteq Structs BY ViewIs DEF Others
    <2>2. x \in Structs BY <2>1, SeqIs
    <2>3. x \in ToSet(u.list["free"]) \cup u.expirables BY <2>2 DEF Others
    <2>4. x <= a BY <2>3 DEF Events
    <2> QED BY <2>2, <2>4 DEF Structs
  <1>13. Events(v, n + 1, b) BY <1>7, <1>8, <1>9, <1>10, <1>11, <1>12 DEF Events
  <1>14. id \notin PendingOf(u) BY <1>2 DEF PendingOf
  <1>15. PendingOf(v) = IF w = "pending" THEN PendingOf(u) \cup {id} ELSE PendingOf(u)
    BY <1>2, <1>3 DEF PendingOf
  <1> QED BY <1>2, <1>13, <1>14, <1>15 DEF id

\* The library is consistent between two steps of it: n events were requested, a structs allocated.
Good(u, n, a) ==
    /\ u \in Views /\ Lists(u) /\ Firsts(u) /\ Heap(u) /\ Frames(u, a) /\ Events(u, n, a)
    /\ u.events_pending = Cardinality(PendingOf(u)) /\ n \in Nat /\ a \in Nat

Origins == {"iod", "expired", "add", "cancel"}

\* What is known of the events whose handlers run stays known.
HeldStay(u, v, a, b) ==
    \A x \in Structs, from \in Origins :
        Held(u, x) /\ Held(v, x) /\ HeldIs(u, x, from, a) => HeldIs(v, x, from, b)

ToldStays(u, v) == \A d \in Ids : u.outcome[d] = "told" => v.outcome[d] = "told"

\* The events whose handlers run are not disturbed by a change of another one.
LEMMA StayOthers ==
    ASSUME NEW u \in Views, NEW v, NEW s, Others(u, v, s), ~Held(u, s) \/ ~Held(v, s),
           ToldStays(u, v), NEW a \in Nat, NEW b \in Nat, a <= b
    PROVE  HeldStay(u, v, a, b)
  <1> SUFFICES ASSUME NEW x \in Structs, NEW from \in Origins, x # s, HeldIs(u, x, from, a)
               PROVE  HeldIs(v, x, from, b)
    BY DEF HeldStay
  <1>1. /\ v.ev[x] = u.ev[x]
        /\ x \in v.expirables <=> x \in u.expirables
        /\ \A t \in IoTypes \cup {"free"} : x \in ToSet(v.list[t]) <=> x \in ToSet(u.list[t])
    BY DEF Others
  <1>2. x <= b BY DEF HeldIs, Structs
  <1>3. u.ev[x].type # "timer" => u.ev[x].type \in IoTypes \cup {"free"} BY EventIs
  <1>4. v.outcome[u.ev[x].id] = "told" /\ u.ev[x].id \in Ids BY DEF HeldIs, ToldStays
  <1>5. IF u.ev[x].type = "timer" THEN from = "expired" /\ u.ev[x].iod = None
        ELSE x \in ToSet(v.list[u.ev[x].type])
    BY <1>1, <1>3 DEF HeldIs
  <1>6. u.ev[x].done /\ x \notin ToSet(v.list["free"])
        /\ (from \in {"expired", "add"} => x \notin v.expirables)
    BY <1>1 DEF HeldIs
  <1> QED BY <1>1, <1>2, <1>4, <1>5, <1>6 DEF HeldIs

\* The events whose handlers run when the lists and the heap stay.
LEMMA StaySame ==
    ASSUME NEW u \in Views, NEW v, v.list = u.list, v.expirables = u.expirables, v.outcome = u.outcome,
           \A x \in Structs : /\ v.ev[x].id = u.ev[x].id /\ v.ev[x].type = u.ev[x].type
                              /\ v.ev[x].iod = u.ev[x].iod /\ (u.ev[x].done => v.ev[x].done),
           NEW a
    PROVE  HeldStay(u, v, a, a)
  BY DEF HeldStay, HeldIs

\* A call begins.
LEMMA PushFrames ==
    ASSUME NEW u \in Views, NEW v \in Views, NEW a, NEW b, Frames(u, a), HeldStay(u, v, a, b),
           NEW f \in Frame, v.stack = Append(u.stack, f),
           f.kind = "iod" => u.stack = <<>> /\ CurIs(v, f.cur),
           f.kind # "handler" \/ f.from # "iod" => ~(Len(u.stack) = 1 /\ u.stack[1].kind = "iod"),
           f.kind = "handler" /\ f.from # "cancel" => ~Held(u, f.ev) /\ HeldIs(v, f.ev, f.from, b),
           f.kind = "handler" /\ f.from = "iod" =>
               Len(u.stack) = 1 /\ u.stack[1].kind = "iod" /\ u.stack[1].cur = f.ev
    PROVE  Frames(v, b)
  <1> DEFINE n == Len(u.stack)
  <1>1. /\ Len(v.stack) = n + 1 /\ n \in Nat
        /\ DOMAIN u.stack = 1..n /\ DOMAIN v.stack = 1..(n + 1)
    BY StackIs, AppendIs
  <1>2. \A k \in 1..(n + 1) : v.stack[k] = IF k <= n THEN u.stack[k] ELSE f
    BY StackIs, AppendIs
  <1>3. v.stack[n + 1] = f /\ \A k \in 1..n : v.stack[k] = u.stack[k] BY <1>1, <1>2
  <1>4. u.stack = <<>> <=> n = 0 BY StackIs
  <1> HIDE DEF n
  <1>5. ASSUME NEW k \in 1..(n + 1), v.stack[k].kind = "iod" PROVE k = 1
    <2>1. CASE k = n + 1 BY <2>1, <1>1, <1>3, <1>4, <1>5
    <2>2. CASE k # n + 1
      <3>1. k \in 1..n BY <2>2, <1>1
      <3> QED BY <3>1, <1>1, <1>3, <1>5 DEF Frames
    <2> QED BY <2>1, <2>2
  <1>6. ASSUME NEW k \in 1..(n + 1), Holds(v, k), v.stack[k].from = "iod"
        PROVE  k = 2 /\ v.stack[1].kind = "iod" /\ v.stack[1].cur = v.stack[k].ev
    <2>1. CASE k = n + 1
      <3>1. n = 1 /\ u.stack[1].kind = "iod" /\ u.stack[1].cur = f.ev
        BY <2>1, <1>3, <1>6 DEF Holds, n
      <3> QED BY <2>1, <3>1, <1>3
    <2>2. CASE k # n + 1
      <3>1. k \in 1..n /\ 1 \in 1..n BY <2>2, <1>1
      <3>2. v.stack[k] = u.stack[k] /\ v.stack[1] = u.stack[1] BY <3>1, <1>3
      <3> QED BY <3>1, <3>2, <1>1, <1>6 DEF Frames, Holds
    <2> QED BY <2>1, <2>2
  <1>7. n + 1 > 1 /\ v.stack[1].kind = "iod" => v.stack[2].kind = "handler" /\ v.stack[2].from = "iod"
    <2> SUFFICES ASSUME n + 1 > 1, v.stack[1].kind = "iod"
                 PROVE  v.stack[2].kind = "handler" /\ v.stack[2].from = "iod"
      OBVIOUS
    <2>1. v.stack[1] = u.stack[1] BY <1>1, <1>3
    <2>2. CASE n = 1 BY <2>1, <2>2, <1>3 DEF n
    <2>3. CASE n # 1
      <3>1. n > 1 /\ 2 \in 1..n BY <2>3, <1>1
      <3> QED BY <2>1, <3>1, <1>3 DEF Frames, n
    <2> QED BY <2>2, <2>3
  <1>8. n + 1 = 1 /\ v.stack[1].kind = "iod" => CurIs(v, v.stack[1].cur)
    <2>1. n + 1 = 1 => v.stack[1] = f BY <1>3
    <2> QED BY <2>1
  <1>9. \A k \in 1..n : Holds(v, k) <=> Holds(u, k) BY <1>3 DEF Holds
  <1>10. Holds(v, n + 1) <=> f.kind = "handler" /\ f.from # "cancel" BY <1>3 DEF Holds
  <1>11. ASSUME NEW j \in 1..(n + 1), NEW k \in 1..(n + 1), Holds(v, j), Holds(v, k),
                v.stack[j].ev = v.stack[k].ev
         PROVE  j = k
    <2>1. j \in 1..n \/ j = n + 1 BY <1>1
    <2>2. k \in 1..n \/ k = n + 1 BY <1>1
    <2>3. \A m \in 1..n : Holds(v, m) => Held(u, v.stack[m].ev) BY <1>1, <1>3, <1>9 DEF Held
    <2>4. CASE j \in 1..n /\ k \in 1..n BY <2>4, <1>1, <1>3, <1>9, <1>11 DEF Frames
    <2>5. CASE j \in 1..n /\ k = n + 1 BY <2>5, <2>3, <1>3, <1>10, <1>11
    <2>6. CASE j = n + 1 /\ k \in 1..n BY <2>6, <2>3, <1>3, <1>10, <1>11
    <2> QED BY <2>1, <2>2, <2>4, <2>5, <2>6
  <1>12. ASSUME NEW k \in 1..(n + 1), Holds(v, k)
         PROVE  HeldIs(v, v.stack[k].ev, v.stack[k].from, b)
    <2>1. CASE k = n + 1 BY <2>1, <1>3, <1>10, <1>12
    <2>2. CASE k # n + 1
      <3>1. k \in 1..n BY <2>2, <1>1
      <3>2. v.stack[k] = u.stack[k] /\ Holds(u, k) BY <3>1, <1>3, <1>9, <1>12
      <3>3. HeldIs(u, u.stack[k].ev, u.stack[k].from, a) BY <3>1, <3>2, <1>1 DEF Frames
      <3>4. Held(u, u.stack[k].ev) BY <3>1, <3>2, <1>1 DEF Held
      <3>5. Held(v, u.stack[k].ev) BY <3>2, <1>1, <1>12 DEF Held
      <3>6. u.stack[k].ev \in Structs /\ u.stack[k].from \in Origins
        <4>1. u.stack[k] \in Frame BY <3>1, StackIs DEF n
        <4>2. u.stack[k].kind = "handler" BY <3>2 DEF Holds
        <4>3. u.stack[k] \in HandlerFrame BY <4>1, <4>2 DEF Frame, IodFrame, DeleteFrame
        <4> QED BY <4>3 DEF HandlerFrame, Origins
      <3> QED BY <3>2, <3>3, <3>4, <3>5, <3>6 DEF HeldStay
    <2> QED BY <2>1, <2>2
  <1> QED BY <1>1, <1>5, <1>6, <1>7, <1>8, <1>11, <1>12 DEF Frames

\* A handler's frame.
LEMMA HandlerIs ==
    ASSUME NEW u \in Views, NEW k \in DOMAIN u.stack, u.stack[k].kind = "handler"
    PROVE  /\ u.stack[k] \in HandlerFrame /\ u.stack[k].ev \in Structs
           /\ u.stack[k].from \in Origins /\ u.stack[k].status \in Status
  <1>1. u.stack[k] \in Frame BY StackIs
  <1>2. u.stack[k] \in HandlerFrame BY <1>1 DEF Frame, IodFrame, DeleteFrame
  <1> QED BY <1>2 DEF HandlerFrame, Origins

\* No call begins or ends.
LEMMA StayFrames ==
    ASSUME NEW u \in Views, NEW v \in Views, NEW a, NEW b, Frames(u, a), HeldStay(u, v, a, b),
           v.stack = u.stack,
           Len(u.stack) = 1 /\ u.stack[1].kind = "iod" => CurIs(v, u.stack[1].cur)
    PROVE  Frames(v, b)
  <1>1. \A k \in DOMAIN u.stack : Holds(v, k) <=> Holds(u, k) BY DEF Holds
  <1>2. ASSUME NEW k \in DOMAIN v.stack, Holds(v, k)
        PROVE  HeldIs(v, v.stack[k].ev, v.stack[k].from, b)
    <2>1. HeldIs(u, u.stack[k].ev, u.stack[k].from, a) BY <1>1, <1>2 DEF Frames
    <2>2. Held(u, u.stack[k].ev) /\ Held(v, u.stack[k].ev) BY <1>1, <1>2 DEF Held
    <2>3. u.stack[k].ev \in Structs /\ u.stack[k].from \in Origins
      BY <1>2, HandlerIs DEF Holds
    <2> QED BY <2>1, <2>2, <2>3 DEF HeldStay
  <1> QED BY <1>1, <1>2 DEF Frames

\* A walk moves on.
LEMMA SwapFrames ==
    ASSUME NEW u \in Views, NEW v \in Views, NEW a, NEW b, Frames(u, a), HeldStay(u, v, a, b),
           u.stack # <<>>, NEW f \in Frame, v.stack = Append(Front(u.stack), f),
           f.kind = u.stack[Len(u.stack)].kind, f.kind # "handler",
           f.kind = "iod" => CurIs(v, f.cur)
    PROVE  Frames(v, b)
  <1> DEFINE n == Len(u.stack)
  <1>1. /\ Len(v.stack) = n /\ n \in Nat \ {0} /\ DOMAIN u.stack = 1..n /\ DOMAIN v.stack = 1..n
        /\ \A k \in 1..(n - 1) : v.stack[k] = u.stack[k]
        /\ v.stack[n] = f
    BY StackIs, FrontIs, SwapIs
  <1>2. u.stack[n].kind = f.kind OBVIOUS
  <1> HIDE DEF n
  <1>3. \A k \in 1..n : v.stack[k].kind = u.stack[k].kind BY <1>1, <1>2
  <1>4. \A k \in 1..n : v.stack[k].kind = "handler" => k # n /\ v.stack[k] = u.stack[k] BY <1>1, <1>2
  <1>5. \A k \in 1..n : Holds(v, k) => Holds(u, k) /\ v.stack[k] = u.stack[k] BY <1>4 DEF Holds
  <1>6. \A k \in 1..n : v.stack[k].kind = "iod" => k = 1 BY <1>1, <1>3 DEF Frames
  <1>7. n > 1 => v.stack[1] = u.stack[1] BY <1>1
  <1>8. ASSUME NEW k \in 1..n, Holds(v, k), v.stack[k].from = "iod"
        PROVE  k = 2 /\ v.stack[1].kind = "iod" /\ v.stack[1].cur = v.stack[k].ev
    <2>1. k = 2 /\ u.stack[1].kind = "iod" /\ u.stack[1].cur = v.stack[k].ev
      BY <1>1, <1>5, <1>8 DEF Frames
    <2>2. n > 1 BY <2>1, <1>1
    <2> QED BY <2>1, <2>2, <1>7
  <1>9. n > 1 /\ v.stack[1].kind = "iod" => v.stack[2].kind = "handler" /\ v.stack[2].from = "iod"
    <2> SUFFICES ASSUME n > 1, v.stack[1].kind = "iod"
                 PROVE  v.stack[2].kind = "handler" /\ v.stack[2].from = "iod"
      OBVIOUS
    <2>1. u.stack[2].kind = "handler" /\ u.stack[2].from = "iod" BY <1>7 DEF Frames, n
    <2>2. 2 \in 1..n BY <1>1
    <2>3. v.stack[2].kind = "handler" BY <2>1, <2>2, <1>3
    <2> QED BY <2>1, <2>2, <2>3, <1>4
  <1>10. n = 1 /\ v.stack[1].kind = "iod" => CurIs(v, v.stack[1].cur) BY <1>1
  <1>11. ASSUME NEW k \in 1..n, Holds(v, k)
         PROVE  HeldIs(v, v.stack[k].ev, v.stack[k].from, b)
    <2>1. Holds(u, k) /\ v.stack[k] = u.stack[k] BY <1>5, <1>11
    <2>2. HeldIs(u, u.stack[k].ev, u.stack[k].from, a) BY <2>1, <1>1 DEF Frames
    <2>3. Held(u, u.stack[k].ev) /\ Held(v, u.stack[k].ev) BY <2>1, <1>1, <1>11 DEF Held
    <2>4. u.stack[k].ev \in Structs /\ u.stack[k].from \in Origins
      BY <2>1, <1>1, HandlerIs DEF Holds
    <2> QED BY <2>1, <2>2, <2>3, <2>4 DEF HeldStay
  <1>12. \A j, k \in 1..n : Holds(v, j) /\ Holds(v, k) /\ v.stack[j].ev = v.stack[k].ev => j = k
    BY <1>1, <1>5 DEF Frames
  <1> QED BY <1>1, <1>6, <1>8, <1>9, <1>10, <1>11, <1>12 DEF Frames

\* A call ends: not process_iod_events()'s own handler, after which the walk goes on.
LEMMA PopFrames ==
    ASSUME NEW u \in Views, NEW v \in Views, NEW a, NEW b, Frames(u, a), HeldStay(u, v, a, b),
           u.stack # <<>>, v.stack = Front(u.stack),
           ~(u.stack[Len(u.stack)].kind = "handler" /\ u.stack[Len(u.stack)].from = "iod")
    PROVE  Frames(v, b)
  <1> DEFINE n == Len(u.stack)
  <1>1. /\ Len(v.stack) = n - 1 /\ n \in Nat \ {0}
        /\ DOMAIN u.stack = 1..n /\ DOMAIN v.stack = 1..(n - 1)
        /\ \A k \in 1..(n - 1) : v.stack[k] = u.stack[k]
    BY StackIs, FrontIs
  <1>2. ~(u.stack[n].kind = "handler" /\ u.stack[n].from = "iod") OBVIOUS
  <1>3. /\ \A k \in 1..n : u.stack[k].kind = "iod" => k = 1
        /\ \A k \in 1..n : Holds(u, k) /\ u.stack[k].from = "iod" =>
              k = 2 /\ u.stack[1].kind = "iod" /\ u.stack[1].cur = u.stack[k].ev
        /\ n > 1 /\ u.stack[1].kind = "iod" => u.stack[2].kind = "handler" /\ u.stack[2].from = "iod"
        /\ \A j, k \in 1..n : Holds(u, j) /\ Holds(u, k) /\ u.stack[j].ev = u.stack[k].ev => j = k
        /\ \A k \in 1..n : Holds(u, k) => HeldIs(u, u.stack[k].ev, u.stack[k].from, a)
    BY <1>1 DEF Frames
  <1> HIDE DEF n
  <1>4. \A k \in 1..(n - 1) : k \in 1..n /\ (Holds(v, k) <=> Holds(u, k)) BY <1>1 DEF Holds
  <1>5. ASSUME NEW k \in 1..(n - 1), Holds(v, k)
        PROVE  HeldIs(v, v.stack[k].ev, v.stack[k].from, b)
    <2>1. Holds(u, k) /\ v.stack[k] = u.stack[k] /\ k \in 1..n BY <1>1, <1>4, <1>5
    <2>2. HeldIs(u, u.stack[k].ev, u.stack[k].from, a) BY <2>1, <1>3
    <2>3. Held(u, u.stack[k].ev) /\ Held(v, u.stack[k].ev) BY <2>1, <1>1, <1>5 DEF Held
    <2>4. u.stack[k].ev \in Structs /\ u.stack[k].from \in Origins
      BY <2>1, <1>1, HandlerIs DEF Holds
    <2> QED BY <2>1, <2>2, <2>3, <2>4 DEF HeldStay
  <1>6. \A k \in 1..(n - 1) : v.stack[k].kind = "iod" => k = 1 BY <1>1, <1>3, <1>4
  <1>7. \A k \in 1..(n - 1) : Holds(v, k) /\ v.stack[k].from = "iod" =>
              k = 2 /\ v.stack[1].kind = "iod" /\ v.stack[1].cur = v.stack[k].ev
    <2> SUFFICES ASSUME NEW k \in 1..(n - 1), Holds(v, k), v.stack[k].from = "iod"
                 PROVE  k = 2 /\ v.stack[1].kind = "iod" /\ v.stack[1].cur = v.stack[k].ev
      OBVIOUS
    <2>1. k = 2 /\ u.stack[1].kind = "iod" /\ u.stack[1].cur = u.stack[k].ev
      BY <1>1, <1>3, <1>4
    <2>2. 1 \in 1..(n - 1) BY <2>1, <1>1
    <2> QED BY <2>1, <2>2, <1>1
  <1>8. n - 1 > 1 /\ v.stack[1].kind = "iod" => v.stack[2].kind = "handler" /\ v.stack[2].from = "iod"
    <2>1. n - 1 > 1 => 1 \in 1..(n - 1) /\ 2 \in 1..(n - 1) /\ n > 1 BY <1>1
    <2> QED BY <2>1, <1>1, <1>3
  <1>9. ~(n - 1 = 1 /\ v.stack[1].kind = "iod")
    <2>1. n - 1 = 1 => 1 \in 1..(n - 1) /\ n > 1 /\ n = 2 BY <1>1
    <2> QED BY <2>1, <1>1, <1>2, <1>3
  <1>10. \A j, k \in 1..(n - 1) : Holds(v, j) /\ Holds(v, k) /\ v.stack[j].ev = v.stack[k].ev => j = k
    BY <1>1, <1>3, <1>4
  <1> QED BY <1>1, <1>5, <1>6, <1>7, <1>8, <1>9, <1>10 DEF Frames

\* Only process_iod_events() is under way.
LEMMA OneFrame ==
    ASSUME NEW v \in Views, NEW b, NEW f \in IodFrame, v.stack = <<f>>, CurIs(v, f.cur)
    PROVE  Frames(v, b) /\ \A x : ~Held(v, x)
  <1>1. f.kind = "iod" BY DEF IodFrame
  <1>2. Len(v.stack) = 1 /\ DOMAIN v.stack = 1..1 /\ v.stack[1] = f BY StackIs
  <1>3. \A k \in DOMAIN v.stack : k = 1 /\ v.stack[k] = f BY <1>2
  <1>4. \A k \in DOMAIN v.stack : ~Holds(v, k) BY <1>1, <1>3 DEF Holds
  <1> QED BY <1>1, <1>2, <1>3, <1>4 DEF Frames, Held

\* Nothing is under way.
LEMMA NoFrame ==
    ASSUME NEW v \in Views, NEW b, v.stack = <<>>
    PROVE  Frames(v, b) /\ \A x : ~Held(v, x)
  <1>1. DOMAIN v.stack = {} /\ Len(v.stack) = 0 BY StackIs
  <1> QED BY <1>1 DEF Frames, Held

-----------------------------------------------------------------------------
(* The operations keep what is Good.                                        *)

\* A step of the delivery that EventDelivery describes.
Delivers(u, v) ==
    \/ v.outcome = u.outcome /\ v.events_pending = u.events_pending
    \/ \E d \in Ids, w \in {"told", "silent"} :
          /\ u.outcome[d] = "pending" /\ v.outcome = [u.outcome EXCEPT ![d] = w]
          /\ v.events_pending = u.events_pending - 1
    \/ \E d \in Ids :
          /\ u.outcome[d] = "unused"
          /\ \/ /\ v.outcome = [u.outcome EXCEPT ![d] = "pending"]
                /\ v.events_pending = u.events_pending + 1
             \/ /\ v.outcome = [u.outcome EXCEPT ![d] = "told"]
                /\ v.events_pending = u.events_pending

\* There are finitely many events that have not ended.
LEMMA IdsFinite == ASSUME NEW u PROVE IsFiniteSet(PendingOf(u)) /\ Cardinality(PendingOf(u)) \in Nat
  <1>1. IsFiniteSet(Ids) BY NsockAssumption, FS_Interval DEF Ids
  <1>2. PendingOf(u) \subseteq Ids BY DEF PendingOf
  <1> QED BY <1>1, <1>2, FS_Subset, FS_CardinalityType

\* A live event's struct is in use.
LEMMA LiveIs ==
    ASSUME NEW u, NEW n, NEW a, Good(u, n, a), NEW s \in Structs, Live(u, s), client \in Clients
    PROVE  /\ ~Held(u, s) /\ Kept(u, s) /\ s <= a
           /\ u.ev[s].id \in Ids /\ u.outcome[u.ev[s].id] = "pending"
           /\ s \notin ToSet(u.list["free"])
           /\ Removable(u, s) /\ HasIod(u, s) /\ u.ev[s].iod \in Iods \cup {None}
           /\ u.ev[s].type = "timer" <=> u.ev[s].iod = None
  <1>1. u \in Views /\ Lists(u) /\ Heap(u) /\ Events(u, n, a) BY DEF Good
  <1>2. ~Held(u, s) /\ Kept(u, s) BY DEF Live
  <1>3. /\ s <= a /\ u.ev[s].id \in Ids /\ u.outcome[u.ev[s].id] = "pending"
        /\ u.ev[s].type = "timer" => u.ev[s].iod = None
    BY <1>1 DEF Events
  <1>4. CASE u.ev[s].type = "timer"
    <2>1. s \in u.expirables BY <1>2, <1>4 DEF Kept
    <2>2. s \notin ToSet(u.list["free"]) BY <2>1, <1>1 DEF Heap
    <2>3. u.ev[s].iod = None BY <1>3, <1>4
    <2> QED BY <1>2, <1>3, <1>4, <2>2, <2>3 DEF Removable, HasIod
  <1>5. CASE u.ev[s].type # "timer"
    <2>1. u.ev[s].type \in IoTypes BY <1>1, <1>5, EventIs
    <2>2. s \in ToSet(u.list[u.ev[s].type]) BY <1>2, <1>5 DEF Kept
    <2>3. u.ev[s].iod \in Iods BY <2>1, <2>2, <1>1, ListedIs
    <2>4. s \notin ToSet(u.list["free"]) BY <2>1, <2>2, <1>1 DEF Lists
    <2>5. None \notin Iods BY NoIod
    <2> QED BY <1>2, <1>3, <1>5, <2>2, <2>3, <2>4, <2>5 DEF Removable, HasIod
  <1> QED BY <1>4, <1>5

\* Touching a live event that no handler was called for keeps it live.
LEMMA TouchGood ==
    ASSUME NEW u, NEW v, NEW s \in Structs, NEW n, NEW a, Good(u, n, a), Touch(u, v, s)
    PROVE  /\ Good(v, n, a) /\ Delivers(u, v) /\ \A x : Held(v, x) <=> Held(u, x)
           /\ \A x \in Structs : Live(v, x) <=> Live(u, x)
  <1>1. /\ u \in Views /\ Lists(u) /\ Firsts(u) /\ Heap(u) /\ Frames(u, a) /\ Events(u, n, a)
        /\ u.events_pending = Cardinality(PendingOf(u)) /\ n \in Nat /\ a \in Nat
    BY DEF Good
  <1>2. v \in Views /\ Others(u, v, s) /\ Lists(v) /\ Firsts(v) /\ Heap(v)
    BY <1>1, TouchKeeps
  <1>3. /\ v.list = u.list /\ v.expirables = u.expirables /\ v.outcome = u.outcome /\ v.stack = u.stack
        /\ v.events_pending = u.events_pending
        /\ \A x \in Structs : /\ v.ev[x].id = u.ev[x].id /\ v.ev[x].type = u.ev[x].type
                              /\ v.ev[x].iod = u.ev[x].iod /\ (u.ev[x].done => v.ev[x].done)
    BY DEF Touch
  <1>4. \A x : Held(v, x) <=> Held(u, x) BY <1>3 DEF Held, Holds
  <1>5. \A x \in Structs : Live(v, x) <=> Live(u, x) BY <1>3, <1>4 DEF Live, Kept
  <1>6. HeldStay(u, v, a, a) BY <1>1, <1>3, StaySame
  <1>7. Frames(v, a)
    <2>1. \A c : CurIs(u, c) => CurIs(v, c) BY <1>3 DEF CurIs
    <2>2. Len(u.stack) = 1 /\ u.stack[1].kind = "iod" => CurIs(v, u.stack[1].cur)
      BY <2>1, <1>1 DEF Frames
    <2> QED BY <1>1, <1>2, <1>3, <1>6, <2>2, StayFrames
  <1>8. Events(v, n, a)
    <2>1. s \in ToSet(v.list["free"]) \cup v.expirables => s <= a BY <1>1, <1>3 DEF Events
    <2> QED BY <1>1, <1>2, <1>3, <1>4, <1>5, <2>1, KeepEvents
  <1>9. PendingOf(v) = PendingOf(u) BY <1>3 DEF PendingOf
  <1> QED BY <1>1, <1>2, <1>3, <1>4, <1>5, <1>7, <1>8, <1>9 DEF Good, Delivers

\* A step that neither moves an event nor calls or leaves a handler of a listed event.
LEMMA SameGood ==
    ASSUME NEW u, NEW v \in Views, NEW n, NEW a, Good(u, n, a),
           v.list = u.list, v.expirables = u.expirables, v.outcome = u.outcome,
           v.events_pending = u.events_pending,
           \A x \in Structs : /\ v.ev[x].id = u.ev[x].id /\ v.ev[x].type = u.ev[x].type
                              /\ v.ev[x].iod = u.ev[x].iod /\ (u.ev[x].done => v.ev[x].done),
           \A i \in Iods : v.iod[i].first = u.iod[i].first,
           \A x : Held(v, x) <=> Held(u, x), Frames(v, a)
    PROVE  Good(v, n, a) /\ Delivers(u, v) /\ \A x \in Structs : Live(v, x) <=> Live(u, x)
  <1>1. /\ u \in Views /\ Lists(u) /\ Firsts(u) /\ Heap(u) /\ Frames(u, a) /\ Events(u, n, a)
        /\ u.events_pending = Cardinality(PendingOf(u)) /\ n \in Nat /\ a \in Nat
    BY DEF Good
  <1>2. Lists(v) /\ Firsts(v) /\ Heap(v)
    <2>1. SameBooks(u, v) BY DEF SameBooks
    <2> QED BY <2>1, <1>1, BooksKeep
  <1>3. \A x \in Structs : Live(v, x) <=> Live(u, x) BY DEF Live, Kept
  <1>4. Events(v, n, a)
    <2>1. \A x \in Structs : ~v.ev[x].done => ~u.ev[x].done OBVIOUS
    <2> QED BY <1>1, <1>3, <2>1 DEF Events
  <1>5. PendingOf(v) = PendingOf(u) BY DEF PendingOf
  <1> QED BY <1>1, <1>2, <1>3, <1>4, <1>5 DEF Good, Delivers

\* The innermost call goes on.
LEMMA SetTopGood ==
    ASSUME NEW u, NEW n, NEW a, Good(u, n, a), u.stack # <<>>, NEW f \in Frame,
           f.kind = u.stack[Len(u.stack)].kind, f.kind # "handler", f.kind = "iod" => CurIs(u, f.cur)
    PROVE  /\ Good(SetTop(u, f), n, a) /\ Delivers(u, SetTop(u, f))
           /\ \A x : Held(SetTop(u, f), x) <=> Held(u, x)
           /\ \A x \in Structs : Live(SetTop(u, f), x) <=> Live(u, x)
           /\ SetTop(u, f).stack = Append(Front(u.stack), f)
           /\ SetTop(u, f) = [u EXCEPT !.stack = Append(Front(u.stack), f)]
  <1>1. u \in Views /\ Frames(u, a) BY DEF Good
  <1> DEFINE v == [u EXCEPT !.stack = Append(Front(u.stack), f)]
  <1>2. SetTop(u, f) = v BY DEF SetTop
  <1>3. Append(Front(u.stack), f) \in Seq(Frame) BY <1>1, ViewIs, SwapIs
  <1>4. /\ v \in Views /\ v.stack = Append(Front(u.stack), f)
        /\ v.ev = u.ev /\ v.list = u.list /\ v.expirables = u.expirables /\ v.iod = u.iod
        /\ v.outcome = u.outcome /\ v.events_pending = u.events_pending
    BY <1>1, <1>3 DEF Views
  <1>5. v = [u EXCEPT !.stack = Append(Front(u.stack), f)] OBVIOUS
  <1> HIDE DEF v
  <1>6. \A x : Held(v, x) <=> Held(u, x) BY <1>1, <1>4, HeldSwap
  <1>7. HeldStay(u, v, a, a) BY <1>1, <1>4, StaySame
  <1>8. f.kind = "iod" => CurIs(v, f.cur) BY <1>4 DEF CurIs
  <1>9. Frames(v, a) BY <1>1, <1>4, <1>7, <1>8, SwapFrames
  <1>10. Good(v, n, a) /\ Delivers(u, v) /\ \A x \in Structs : Live(v, x) <=> Live(u, x)
    BY <1>4, <1>6, <1>9, SameGood
  <1> QED BY <1>2, <1>4, <1>5, <1>6, <1>10

\* process_iod_events() and nsock_iod_delete() begin.
LEMMA PushGood ==
    ASSUME NEW u, NEW n, NEW a, Good(u, n, a), NEW f \in Frame, f.kind # "handler",
           f.kind = "iod" => u.stack = <<>> /\ CurIs(u, f.cur),
           ~(Len(u.stack) = 1 /\ u.stack[1].kind = "iod")
    PROVE  /\ Good(Push(u, f), n, a) /\ Delivers(u, Push(u, f))
           /\ \A x : Held(Push(u, f), x) <=> Held(u, x)
           /\ \A x \in Structs : Live(Push(u, f), x) <=> Live(u, x)
           /\ Push(u, f) = [u EXCEPT !.stack = Append(u.stack, f)]
  <1>1. u \in Views /\ Frames(u, a) BY DEF Good
  <1> DEFINE v == [u EXCEPT !.stack = Append(u.stack, f)]
  <1>2. Push(u, f) = v BY DEF Push
  <1>3. Append(u.stack, f) \in Seq(Frame) BY <1>1, ViewIs, AppendIs
  <1>4. /\ v \in Views /\ v.stack = Append(u.stack, f)
        /\ v.ev = u.ev /\ v.list = u.list /\ v.expirables = u.expirables /\ v.iod = u.iod
        /\ v.outcome = u.outcome /\ v.events_pending = u.events_pending
    BY <1>1, <1>3 DEF Views
  <1>5. v = [u EXCEPT !.stack = Append(u.stack, f)] OBVIOUS
  <1> HIDE DEF v
  <1>6. \A x : Held(v, x) <=> Held(u, x) BY <1>1, <1>4, HeldAppend
  <1>7. HeldStay(u, v, a, a) BY <1>1, <1>4, StaySame
  <1>8. f.kind = "iod" => CurIs(v, f.cur) BY <1>4 DEF CurIs
  <1>9. Frames(v, a) BY <1>1, <1>4, <1>7, <1>8, PushFrames
  <1>10. Good(v, n, a) /\ Delivers(u, v) /\ \A x \in Structs : Live(v, x) <=> Live(u, x)
    BY <1>4, <1>6, <1>9, SameGood
  <1> QED BY <1>2, <1>5, <1>6, <1>10

\* And they end.
LEMMA PopGood ==
    ASSUME NEW u, NEW n, NEW a, Good(u, n, a), u.stack # <<>>,
           u.stack[Len(u.stack)].kind # "handler"
    PROVE  /\ Good(Pop(u), n, a) /\ Delivers(u, Pop(u))
           /\ \A x : Held(Pop(u), x) <=> Held(u, x)
           /\ \A x \in Structs : Live(Pop(u), x) <=> Live(u, x)
           /\ Pop(u) = [u EXCEPT !.stack = Front(u.stack)]
  <1>1. u \in Views /\ Frames(u, a) BY DEF Good
  <1> DEFINE v == [u EXCEPT !.stack = Front(u.stack)]
  <1>2. Pop(u) = v BY DEF Pop
  <1>3. Front(u.stack) \in Seq(Frame) BY <1>1, ViewIs, FrontIs
  <1>4. /\ v \in Views /\ v.stack = Front(u.stack)
        /\ v.ev = u.ev /\ v.list = u.list /\ v.expirables = u.expirables /\ v.iod = u.iod
        /\ v.outcome = u.outcome /\ v.events_pending = u.events_pending
    BY <1>1, <1>3 DEF Views
  <1>5. v = [u EXCEPT !.stack = Front(u.stack)] OBVIOUS
  <1> HIDE DEF v
  <1>6. \A x : Held(v, x) <=> Held(u, x)
    <2>1. ~Holds(u, Len(u.stack)) BY DEF Holds
    <2> QED BY <2>1, <1>1, <1>4, HeldFront
  <1>7. HeldStay(u, v, a, a) BY <1>1, <1>4, StaySame
  <1>9. Frames(v, a) BY <1>1, <1>4, <1>7, PopFrames
  <1>10. Good(v, n, a) /\ Delivers(u, v) /\ \A x \in Structs : Live(v, x) <=> Live(u, x)
    BY <1>4, <1>6, <1>9, SameGood
  <1> QED BY <1>2, <1>5, <1>6, <1>10

\* What the client or the engine does to an iod but its events.
LEMMA IodGood ==
    ASSUME NEW u, NEW n, NEW a, Good(u, n, a), NEW i \in Iods, NEW r \in IodShape,
           r.first = u.iod[i].first
    PROVE  /\ Good([u EXCEPT !.iod = [u.iod EXCEPT ![i] = r]], n, a)
           /\ Delivers(u, [u EXCEPT !.iod = [u.iod EXCEPT ![i] = r]])
           /\ \A x : Held([u EXCEPT !.iod = [u.iod EXCEPT ![i] = r]], x) <=> Held(u, x)
           /\ \A x \in Structs : Live([u EXCEPT !.iod = [u.iod EXCEPT ![i] = r]], x) <=> Live(u, x)
  <1>1. u \in Views /\ Frames(u, a) BY DEF Good
  <1> DEFINE m == [u.iod EXCEPT ![i] = r]
             v == [u EXCEPT !.iod = m]
  <1>2. m \in [Iods -> IodShape] /\ \A j \in Iods : m[j] = IF j = i THEN r ELSE u.iod[j]
    BY <1>1, ViewIs
  <1> HIDE DEF m
  <1>3. /\ v \in Views /\ v.stack = u.stack
        /\ v.ev = u.ev /\ v.list = u.list /\ v.expirables = u.expirables /\ v.iod = m
        /\ v.outcome = u.outcome /\ v.events_pending = u.events_pending
    BY <1>1, <1>2 DEF Views
  <1> HIDE DEF v
  <1>4. \A x : Held(v, x) <=> Held(u, x) BY <1>3 DEF Held, Holds
  <1>5. HeldStay(u, v, a, a) BY <1>1, <1>3, StaySame
  <1>6. Frames(v, a)
    <2>1. \A c : CurIs(u, c) => CurIs(v, c) BY <1>3 DEF CurIs
    <2>2. Len(u.stack) = 1 /\ u.stack[1].kind = "iod" => CurIs(v, u.stack[1].cur)
      BY <2>1, <1>1 DEF Frames
    <2> QED BY <1>1, <1>3, <1>5, <2>2, StayFrames
  <1>7. \A j \in Iods : v.iod[j].first = u.iod[j].first BY <1>2, <1>3
  <1>8. Good(v, n, a) /\ Delivers(u, v) /\ \A x \in Structs : Live(v, x) <=> Live(u, x)
    BY <1>3, <1>4, <1>6, <1>7, SameGood
  <1> QED BY <1>4, <1>8 DEF v, m

\* The iod of s has one event less.
IodLess(u, v, s) ==
    \A i \in Iods : /\ v.iod[i].state = u.iod[i].state /\ v.iod[i].sd = u.iod[i].sd
                    /\ v.iod[i].ssl = u.iod[i].ssl /\ v.iod[i].count = u.iod[i].count
                    /\ v.iod[i].watched = u.iod[i].watched /\ v.iod[i].first = u.iod[i].first
                    /\ v.iod[i].pending = IF u.ev[s].iod = i THEN u.iod[i].pending - 1 ELSE u.iod[i].pending

\* The iod after a change of events_pending.
LEMMA PendingRecord ==
    ASSUME NEW r \in IodShape, NEW p \in Int
    PROVE  /\ [r EXCEPT !.pending = p] \in IodShape
           /\ [r EXCEPT !.pending = p].state = r.state /\ [r EXCEPT !.pending = p].sd = r.sd
           /\ [r EXCEPT !.pending = p].ssl = r.ssl /\ [r EXCEPT !.pending = p].count = r.count
           /\ [r EXCEPT !.pending = p].watched = r.watched
           /\ [r EXCEPT !.pending = p].first = r.first
           /\ [r EXCEPT !.pending = p].pending = p
  BY DEF IodShape

Call(u, s, from) == [kind |-> "handler", ev |-> s, from |-> from, status |-> u.ev[s].status]

\* event_dispatch_and_delete() calls the handler, or marks an event that was cancelled silently.
LEMMA DispatchIs ==
    ASSUME NEW u \in Views, NEW s \in Structs, u.ev[s].id \in Ids, u.ev[s].iod \in Iods \cup {None},
           client \in Clients, NEW notify \in BOOLEAN, NEW from \in Origins,
           notify \/ (from = "cancel" /\ u.ev[s].done), NEW w, w = IF notify THEN "told" ELSE "silent",
           NEW v, v = event_dispatch_and_delete(u, s, notify, from)
    PROVE  /\ v \in Views /\ v.ev = u.ev /\ v.list = u.list /\ v.expirables = u.expirables
           /\ v.outcome = [u.outcome EXCEPT ![u.ev[s].id] = w]
           /\ v.events_pending = u.events_pending - 1 /\ IodLess(u, v, s)
           /\ Call(u, s, from) \in Frame
           /\ v.stack = IF notify THEN Append(u.stack, Call(u, s, from)) ELSE u.stack
  <1> DEFINE i == u.ev[s].iod
             m == IF i = None THEN u.iod ELSE [u.iod EXCEPT ![i].pending = @ - 1]
             o == [u.outcome EXCEPT ![u.ev[s].id] = w]
             p == u.events_pending - 1
             less == [u EXCEPT !.events_pending = p, !.iod = m, !.outcome = o]
  <1>1. event_dispatch_and_delete(u, s, notify, from) =
            IF notify THEN Push(less, Call(u, s, from)) ELSE Finish(less, s, from)
    BY DEF event_dispatch_and_delete, Call
  <1>2. None \notin Iods BY NoIod
  <1>3. /\ m \in [Iods -> IodShape]
        /\ \A j \in Iods : /\ m[j].state = u.iod[j].state /\ m[j].sd = u.iod[j].sd
                           /\ m[j].ssl = u.iod[j].ssl /\ m[j].count = u.iod[j].count
                           /\ m[j].watched = u.iod[j].watched /\ m[j].first = u.iod[j].first
                           /\ m[j].pending = IF i = j THEN u.iod[j].pending - 1 ELSE u.iod[j].pending
    <2>1. CASE i = None
      <3>1. m = u.iod BY <2>1
      <3> QED BY <3>1, <2>1, <1>2, ViewIs
    <2>2. CASE i # None
      <3> DEFINE r == [u.iod[i] EXCEPT !.pending = u.iod[i].pending - 1]
      <3>1. i \in Iods BY <2>2
      <3>2. r \in IodShape /\ r.state = u.iod[i].state /\ r.sd = u.iod[i].sd
            /\ r.ssl = u.iod[i].ssl /\ r.count = u.iod[i].count
            /\ r.watched = u.iod[i].watched /\ r.first = u.iod[i].first
            /\ r.pending = u.iod[i].pending - 1
        <4>1. u.iod[i] \in IodShape /\ u.iod[i].pending - 1 \in Int BY <3>1, IodIs
        <4> QED BY <4>1, PendingRecord
      <3>3. m = [u.iod EXCEPT ![i] = r] BY <2>2
      <3>4. u.iod \in [Iods -> IodShape] BY ViewIs
      <3> HIDE DEF r, m, i
      <3>5. m \in [Iods -> IodShape] /\ \A j \in Iods : m[j] = IF j = i THEN r ELSE u.iod[j]
        BY <3>1, <3>2, <3>3, <3>4
      <3> QED BY <3>1, <3>2, <3>5
    <2> QED BY <2>1, <2>2
  <1>4. o \in [Ids -> Verdict] BY ViewIs DEF Verdict
  <1>5. p \in Int BY ViewIs
  <1>6. o = [u.outcome EXCEPT ![u.ev[s].id] = w] /\ p = u.events_pending - 1 OBVIOUS
  <1> HIDE DEF m, o, p
  <1>7. /\ less \in Views /\ less.ev = u.ev /\ less.list = u.list /\ less.expirables = u.expirables
        /\ less.outcome = o /\ less.events_pending = p /\ less.iod = m /\ less.stack = u.stack
    BY <1>3, <1>4, <1>5 DEF Views
  <1> HIDE DEF less
  <1>8. Call(u, s, from) \in Frame
    <2>1. u.ev[s].status \in Status BY EventIs
    <2> QED BY <2>1 DEF Call, Frame, HandlerFrame, Origins
  <1>9. IodLess(u, less, s) BY <1>3, <1>7 DEF IodLess, i
  <1>10. CASE notify
    <2>1. v = [less EXCEPT !.stack = Append(less.stack, Call(u, s, from))]
      BY <1>1, <1>10 DEF Push
    <2>2. Append(less.stack, Call(u, s, from)) \in Seq(Frame) BY <1>7, <1>8, ViewIs, AppendIs
    <2>3. /\ v \in Views /\ v.ev = u.ev /\ v.list = u.list /\ v.expirables = u.expirables
          /\ v.outcome = o /\ v.events_pending = p /\ v.iod = less.iod
          /\ v.stack = Append(u.stack, Call(u, s, from))
      BY <2>1, <2>2, <1>7 DEF Views
    <2>4. IodLess(u, v, s) BY <2>3, <1>9 DEF IodLess
    <2> QED BY <2>3, <2>4, <1>6, <1>8, <1>10
  <1>11. CASE ~notify
    <2>1. v = [less EXCEPT !.ev[s].done = TRUE] BY <1>1, <1>11 DEF Finish
    <2>2. [less.ev EXCEPT ![s].done = TRUE] = u.ev
      <3>1. u.ev \in [Structs -> Event] /\ u.ev[s] \in Event BY ViewIs, EventIs
      <3>2. [u.ev[s] EXCEPT !.done = TRUE] = u.ev[s] BY <3>1, <1>11 DEF Event
      <3>3. [u.ev EXCEPT ![s].done = TRUE] = [u.ev EXCEPT ![s] = u.ev[s]] BY <3>1, <3>2
      <3>4. [u.ev EXCEPT ![s] = u.ev[s]] = u.ev BY <3>1
      <3> QED BY <3>3, <3>4, <1>7
    <2>3. /\ v.ev = u.ev /\ v.list = u.list /\ v.expirables = u.expirables
          /\ v.outcome = o /\ v.events_pending = p /\ v.iod = less.iod
          /\ v.stack = u.stack /\ v \in Views
      BY <2>1, <2>2, <1>7 DEF Views
    <2>4. IodLess(u, v, s) BY <2>3, <1>9 DEF IodLess
    <2> QED BY <2>3, <2>4, <1>6, <1>8, <1>11
  <1> QED BY <1>10, <1>11

\* How the struct of an event that has just ended stands: t is u, but s is done.
Ready(u, t, s) ==
    /\ t \in Views /\ Others(u, t, s) /\ Lists(t) /\ Firsts(t) /\ Heap(t)
    /\ t.ev[s].id = u.ev[s].id /\ t.ev[s].type = u.ev[s].type /\ t.ev[s].iod = u.ev[s].iod
    /\ t.ev[s].done /\ t.outcome = u.outcome /\ t.events_pending = u.events_pending
    /\ t.stack = u.stack

\* Who calls the handler: for a cancelled event, once it is off its lists; process_iod_events() at
\* its place, or process_expired_events(), while it is still on its list.
CallIs(u, t, s, notify, from) ==
    /\ from = "cancel" => ~Kept(t, s)
    /\ ~notify => from = "cancel"
    /\ from # "iod" => ~(Len(u.stack) = 1 /\ u.stack[1].kind = "iod")
    /\ from = "iod" => Len(u.stack) = 1 /\ u.stack[1].kind = "iod" /\ u.stack[1].cur = s
    /\ from # "cancel" => /\ s \notin ToSet(t.list["free"])
                          /\ IF t.ev[s].type = "timer" THEN from = "expired"
                             ELSE s \in ToSet(t.list[t.ev[s].type])
    /\ from \in {"expired", "add"} => s \notin t.expirables

\* The engine visits an iod.
Walking(u) == \E k \in DOMAIN u.stack : u.stack[k].kind = "iod"

\* process_iod_events() is under way after a call if it was before.
LEMMA WalkingIs ==
    ASSUME NEW u \in Views, NEW v \in Views, NEW f \in Frame, f.kind # "iod",
           \/ v.stack = u.stack
           \/ v.stack = Append(u.stack, f)
           \/ u.stack # <<>> /\ v.stack = Front(u.stack)
           \/ u.stack # <<>> /\ v.stack = Append(Front(u.stack), f)
    PROVE  Walking(v) => Walking(u)
  <1>1. /\ u.stack \in Seq(Frame) /\ Len(u.stack) \in Nat /\ DOMAIN u.stack = 1..Len(u.stack)
        /\ v.stack \in Seq(Frame) /\ DOMAIN v.stack = 1..Len(v.stack)
    BY StackIs
  <1> SUFFICES ASSUME NEW k \in 1..Len(v.stack), v.stack[k].kind = "iod" PROVE Walking(u)
    BY <1>1 DEF Walking
  <1>2. CASE v.stack = u.stack BY <1>1, <1>2 DEF Walking
  <1>3. CASE v.stack = Append(u.stack, f)
    <2>1. /\ Len(v.stack) = Len(u.stack) + 1
          /\ \A j \in 1..(Len(u.stack) + 1) : v.stack[j] = IF j <= Len(u.stack) THEN u.stack[j] ELSE f
      BY <1>1, <1>3, AppendIs
    <2>2. k \in 1..Len(u.stack) /\ v.stack[k] = u.stack[k]
      <3>1. CASE k <= Len(u.stack) BY <3>1, <2>1, <1>1
      <3>2. CASE ~(k <= Len(u.stack))
        <4>1. v.stack[k] = f BY <3>2, <2>1
        <4> QED BY <4>1
      <3> QED BY <3>1, <3>2
    <2>3. k \in DOMAIN u.stack /\ u.stack[k].kind = "iod" BY <2>2, <1>1
    <2> QED BY <2>3 DEF Walking
  <1>4. CASE u.stack # <<>> /\ v.stack = Front(u.stack)
    <2>1. Len(v.stack) = Len(u.stack) - 1 /\ \A j \in 1..(Len(u.stack) - 1) : v.stack[j] = u.stack[j]
      BY <1>1, <1>4, FrontIs
    <2>2. k \in 1..(Len(u.stack) - 1) BY <2>1, <1>1
    <2>3. v.stack[k] = u.stack[k] BY <2>1, <2>2
    <2>4. k \in 1..Len(u.stack) BY <2>2, <1>1
    <2> QED BY <2>3, <2>4, <1>1 DEF Walking
  <1>5. CASE u.stack # <<>> /\ v.stack = Append(Front(u.stack), f)
    <2>1. /\ Len(v.stack) = Len(u.stack) /\ v.stack[Len(u.stack)] = f
          /\ \A j \in 1..(Len(u.stack) - 1) : v.stack[j] = u.stack[j]
      BY <1>1, <1>5, SwapIs
    <2>2. k # Len(u.stack) BY <2>1
    <2>3. k \in 1..(Len(u.stack) - 1) BY <2>1, <2>2, <1>1
    <2> QED BY <2>1, <2>3, <1>1 DEF Walking
  <1> QED BY <1>2, <1>3, <1>4, <1>5

\* The call of a handler, or a silent end, ends a live event.
LEMMA EndGood ==
    ASSUME NEW u, NEW n, NEW a, Good(u, n, a), client \in Clients, NEW s \in Structs, Live(u, s),
           NEW t, Ready(u, t, s), NEW notify \in BOOLEAN, NEW from \in Origins,
           CallIs(u, t, s, notify, from), NEW v, v = event_dispatch_and_delete(t, s, notify, from)
    PROVE  /\ Good(v, n, a) /\ Delivers(u, v) /\ ~Live(v, s)
           /\ \A x \in Structs : x # s => (Live(v, x) <=> Live(u, x))
           /\ Walking(v) => Walking(u)
  <1> DEFINE w == IF notify THEN "told" ELSE "silent"
             f == Call(t, s, from)
  <1>1. /\ u \in Views /\ Lists(u) /\ Firsts(u) /\ Heap(u) /\ Frames(u, a) /\ Events(u, n, a)
        /\ u.events_pending = Cardinality(PendingOf(u)) /\ n \in Nat /\ a \in Nat
    BY DEF Good
  <1>2. /\ ~Held(u, s) /\ s <= a /\ u.ev[s].id \in Ids /\ u.outcome[u.ev[s].id] = "pending"
        /\ u.ev[s].iod \in Iods \cup {None} /\ (u.ev[s].type = "timer" => u.ev[s].iod = None)
    BY LiveIs
  <1>3. /\ t \in Views /\ Others(u, t, s) /\ Lists(t) /\ Firsts(t) /\ Heap(t)
        /\ t.ev[s].id = u.ev[s].id /\ t.ev[s].type = u.ev[s].type /\ t.ev[s].iod = u.ev[s].iod
        /\ t.ev[s].done /\ t.outcome = u.outcome /\ t.events_pending = u.events_pending
        /\ t.stack = u.stack
    BY DEF Ready
  <1> USE DEF CallIs
  <1>4. w \in {"told", "silent"} /\ w = IF notify THEN "told" ELSE "silent" OBVIOUS
  <1>5. f = Call(t, s, from) OBVIOUS
  <1> HIDE DEF w, f
  <1>6. /\ v \in Views /\ v.ev = t.ev /\ v.list = t.list /\ v.expirables = t.expirables
        /\ v.outcome = [u.outcome EXCEPT ![u.ev[s].id] = w]
        /\ v.events_pending = u.events_pending - 1 /\ IodLess(t, v, s)
        /\ f \in Frame
        /\ v.stack = IF notify THEN Append(u.stack, f) ELSE u.stack
    BY <1>2, <1>3, <1>4, <1>5, DispatchIs
  <1>7. f.kind = "handler" /\ f.ev = s /\ f.from = from BY <1>5 DEF Call
  <1>8. \A x : Held(v, x) <=> Held(u, x) \/ (notify /\ from # "cancel" /\ x = s)
    <2>1. CASE notify
      <3> SUFFICES ASSUME NEW x
                   PROVE  Held(v, x) <=> Held(u, x) \/ (notify /\ from # "cancel" /\ x = s)
        OBVIOUS
      <3>1. v.stack = Append(u.stack, f) BY <2>1, <1>6
      <3>2. Held(v, x) <=> Held(u, x) \/ (f.kind = "handler" /\ f.from # "cancel" /\ f.ev = x)
        <4>1. u \in Views /\ v \in Views /\ f \in Frame BY <1>1, <1>6
        <4> QED BY <3>1, <4>1, HeldAppend
      <3> QED BY <3>2, <2>1, <1>7
    <2>2. CASE ~notify
      <3>1. v.stack = u.stack BY <2>2, <1>6
      <3> QED BY <3>1, <2>2 DEF Held, Holds
    <2> QED BY <2>1, <2>2
  <1>9. Lists(v) /\ Firsts(v) /\ Heap(v)
    <2>1. \A j \in Iods : v.iod[j].first = t.iod[j].first BY <1>6 DEF IodLess
    <2>2. SameBooks(t, v) BY <2>1, <1>6 DEF SameBooks
    <2> QED BY <2>2, <1>3, BooksKeep
  <1>10. Others(u, v, s) BY <1>3, <1>6 DEF Others
  <1>11. ~Live(v, s)
    <2>1. CASE from = "cancel" BY <2>1, <1>6 DEF Live, Kept
    <2>2. CASE from # "cancel" BY <2>2, <1>8 DEF Live
    <2> QED BY <2>1, <2>2
  <1>12. \A x \in Structs : x # s => (Held(v, x) <=> Held(u, x)) BY <1>8
  <1>13. v.outcome[u.ev[s].id] = w /\ \A d \in Ids : d # u.ev[s].id => v.outcome[d] = u.outcome[d]
    BY <1>1, <1>2, <1>6, ViewIs
  <1>14. Events(v, n, a) /\ u.ev[s].id \in PendingOf(u) /\ PendingOf(v) = PendingOf(u) \ {u.ev[s].id}
    <2>1. v.ev[s].done BY <1>3, <1>6
    <2>2. u \in Views /\ Events(u, n, a) /\ w \in {"told", "silent"} BY <1>1, <1>4
    <2> QED BY <2>1, <2>2, <1>10, <1>11, <1>12, <1>13, EndEvents
  <1>15. HeldStay(u, v, a, a)
    <2>1. ToldStays(u, v) BY <1>2, <1>13 DEF ToldStays
    <2> QED BY <2>1, <1>1, <1>2, <1>10, StayOthers
  <1>16. Frames(v, a)
    <2>1. CASE notify
      <3>1. v.stack = Append(u.stack, f) BY <2>1, <1>6
      <3>2. from # "cancel" => ~Held(u, f.ev) /\ HeldIs(v, f.ev, f.from, a)
        <4> SUFFICES ASSUME from # "cancel" PROVE HeldIs(v, s, from, a) BY <1>2, <1>7
        <4>1. v.outcome[v.ev[s].id] = "told"
          <5>1. w = "told" BY <2>1, <1>4
          <5>2. v.ev[s].id = u.ev[s].id BY <1>3, <1>6
          <5> QED BY <5>1, <5>2, <1>13
        <4> QED BY <4>1, <1>2, <1>3, <1>6 DEF HeldIs
      <3>3. f.kind # "handler" \/ f.from # "iod" => ~(Len(u.stack) = 1 /\ u.stack[1].kind = "iod")
        BY <1>7
      <3>4. f.kind = "handler" /\ f.from = "iod" =>
               Len(u.stack) = 1 /\ u.stack[1].kind = "iod" /\ u.stack[1].cur = f.ev
        BY <1>7
      <3>5. f.kind = "iod" => u.stack = <<>> /\ CurIs(v, f.cur) BY <1>7
      <3>6. f.kind = "handler" /\ f.from # "cancel" => ~Held(u, f.ev) /\ HeldIs(v, f.ev, f.from, a)
        BY <3>2, <1>7
      <3>7. u \in Views /\ v \in Views /\ f \in Frame /\ Frames(u, a) BY <1>1, <1>6
      <3> HIDE DEF CallIs
      <3> QED BY <3>1, <3>3, <3>4, <3>5, <3>6, <3>7, <1>15, PushFrames
    <2>2. CASE ~notify
      <3>1. v.stack = u.stack /\ ~(Len(u.stack) = 1 /\ u.stack[1].kind = "iod") BY <2>2, <1>6
      <3> QED BY <3>1, <1>1, <1>6, <1>15, StayFrames
    <2> QED BY <2>1, <2>2
  <1>17. v.events_pending = Cardinality(PendingOf(v))
    <2> DEFINE S == PendingOf(u)
               d == u.ev[s].id
    <2>1. IsFiniteSet(S) /\ d \in S /\ PendingOf(v) = S \ {d} BY <1>14, IdsFinite
    <2> HIDE DEF S, d
    <2>2. Cardinality(S \ {d}) = Cardinality(S) - 1 BY <2>1, FS_RemoveElement
    <2>3. Cardinality(PendingOf(v)) = Cardinality(PendingOf(u)) - 1 BY <2>1, <2>2 DEF S
    <2> QED BY <2>3, <1>1, <1>6
  <1>18. Good(v, n, a) BY <1>1, <1>6, <1>9, <1>14, <1>16, <1>17 DEF Good
  <1>19. Delivers(u, v) BY <1>2, <1>4, <1>6 DEF Delivers
  <1>20. \A x \in Structs : x # s => (Live(v, x) <=> Live(u, x))
    BY <1>1, <1>10, <1>12, KeptOthers DEF Live
  <1>21. Walking(v) => Walking(u)
    <2>1. f.kind # "iod" BY <1>7
    <2>2. v.stack = u.stack \/ v.stack = Append(u.stack, f) BY <1>6
    <2> QED BY <2>1, <2>2, <1>1, <1>6, WalkingIs
  <1> QED BY <1>11, <1>18, <1>19, <1>20, <1>21

\* Taking an event out of the heap of timeouts.
Dropped(u, s) == [u EXCEPT !.expirables = @ \ {s}]

\* gh_heap_remove() changes nothing but the heap.
LEMMA DropIs ==
    ASSUME NEW u \in Views, NEW s
    PROVE  /\ Dropped(u, s) \in Views /\ Others(u, Dropped(u, s), s)
           /\ Dropped(u, s).ev = u.ev /\ Dropped(u, s).list = u.list /\ Dropped(u, s).iod = u.iod
           /\ Dropped(u, s).outcome = u.outcome /\ Dropped(u, s).stack = u.stack
           /\ Dropped(u, s).events_pending = u.events_pending
           /\ Dropped(u, s).expirables = u.expirables \ {s}
           /\ Lists(u) => Lists(Dropped(u, s))
           /\ Firsts(u) => Firsts(Dropped(u, s))
           /\ Heap(u) => Heap(Dropped(u, s))
  <1> DEFINE v == Dropped(u, s)
  <1>1. /\ v \in Views /\ v.ev = u.ev /\ v.list = u.list /\ v.iod = u.iod
        /\ v.outcome = u.outcome /\ v.stack = u.stack
        /\ v.events_pending = u.events_pending /\ v.expirables = u.expirables \ {s}
    BY DEF Dropped, Views
  <1> HIDE DEF v
  <1>2. Lists(u) => Lists(v) BY <1>1 DEF Lists
  <1>3. Firsts(u) => Firsts(v) BY <1>1 DEF Firsts
  <1>4. Heap(u) => Heap(v) BY <1>1 DEF Heap
  <1>5. Others(u, v, s) BY <1>1 DEF Others
  <1> QED BY <1>1, <1>2, <1>3, <1>4, <1>5 DEF v

\* Two changes of one struct.
LEMMA OthersTrans ==
    ASSUME NEW u, NEW v, NEW w, NEW s, Others(u, v, s), Others(v, w, s)
    PROVE  Others(u, w, s)
  BY DEF Others

\* nevent_delete(), up to the call of the handler.
Cancelled(u, s) == Gone(Dropped(Done(u, s, "CANCELLED"), s), s)

\* nevent_delete() takes a live event off every list.
LEMMA CancelledIs ==
    ASSUME NEW u, NEW n, NEW a, Good(u, n, a), client \in Clients, NEW s \in Structs, Live(u, s)
    PROVE  /\ Ready(u, Cancelled(u, s), s) /\ ~Kept(Cancelled(u, s), s)
           /\ Touch(u, Done(u, s, "CANCELLED"), s)
           /\ SameIods(Done(u, s, "CANCELLED"), Cancelled(u, s))
           /\ Cancelled(u, s).ev = Done(u, s, "CANCELLED").ev
           /\ Cancelled(u, s).expirables = u.expirables \ {s}
           /\ \A t \in IoTypes : ToSet(Cancelled(u, s).list[t]) = ToSet(u.list[t]) \ {s}
  <1> DEFINE d == Done(u, s, "CANCELLED")
             x == Dropped(d, s)
             g == Gone(x, s)
  <1>1. u \in Views /\ Lists(u) /\ Firsts(u) /\ Heap(u) BY DEF Good
  <1>2. s \notin ToSet(u.list["free"]) /\ Removable(u, s) /\ HasIod(u, s) BY LiveIs
  <1>3. Touch(u, d, s) /\ d.ev[s].done BY <1>1, <1>2, DoneIs DEF Status
  <1>4. Cancelled(u, s) = g BY DEF Cancelled
  <1>5. d = Done(u, s, "CANCELLED") OBVIOUS
  <1> HIDE DEF d
  <1>6. d \in Views /\ Others(u, d, s) /\ Lists(d) /\ Firsts(d) /\ Heap(d) BY <1>1, <1>3, TouchKeeps
  <1>7. /\ x \in Views /\ Others(d, x, s) /\ x.ev = d.ev /\ x.list = d.list /\ x.iod = d.iod
        /\ x.outcome = d.outcome /\ x.stack = d.stack /\ x.events_pending = d.events_pending
        /\ x.expirables = d.expirables \ {s} /\ Lists(x) /\ Firsts(x) /\ Heap(x)
    BY <1>6, DropIs
  <1>8. /\ d.list = u.list /\ d.expirables = u.expirables /\ d.outcome = u.outcome /\ d.stack = u.stack
        /\ d.events_pending = u.events_pending /\ d.ev[s].id = u.ev[s].id
        /\ d.ev[s].type = u.ev[s].type /\ d.ev[s].iod = u.ev[s].iod
    BY <1>3 DEF Touch
  <1> HIDE DEF x
  <1>9. Removable(x, s) /\ s \notin ToSet(x.list["free"]) BY <1>2, <1>7, <1>8 DEF Removable
  <1>10. /\ g \in Views /\ g.ev = x.ev /\ g.expirables = x.expirables
         /\ g.events_pending = x.events_pending /\ g.outcome = x.outcome /\ g.stack = x.stack
         /\ SameIods(x, g) /\ ToSet(g.list["free"]) = ToSet(x.list["free"]) \cup {s}
         /\ \A t \in IoTypes : ToSet(g.list[t]) = ToSet(x.list[t]) \ {s}
         /\ Lists(g) /\ Firsts(g)
    BY <1>7, <1>9, GoneIs
  <1> HIDE DEF g
  <1>11. Others(x, g, s)
    <2>1. \A y \in Structs : y # s => \A t \in IoTypes \cup {"free"} :
             y \in ToSet(g.list[t]) <=> y \in ToSet(x.list[t])
      BY <1>10
    <2> QED BY <2>1, <1>10 DEF Others
  <1>12. Others(u, g, s) BY <1>6, <1>7, <1>11, OthersTrans
  <1>13. Heap(g) BY <1>7, <1>10 DEF Heap
  <1>14. Ready(u, g, s) BY <1>3, <1>7, <1>8, <1>10, <1>12, <1>13 DEF Ready
  <1>15. ~Kept(g, s)
    <2>1. CASE g.ev[s].type = "timer" BY <2>1, <1>7, <1>10 DEF Kept
    <2>2. CASE g.ev[s].type # "timer"
      <3>1. g.ev[s].type \in IoTypes BY <2>2, <1>10, EventIs
      <3> QED BY <3>1, <2>2, <1>10 DEF Kept
    <2> QED BY <2>1, <2>2
  <1>16. SameIods(d, g) BY <1>7, <1>10 DEF SameIods
  <1>17. /\ g.ev = d.ev /\ g.expirables = u.expirables \ {s}
         /\ \A t \in IoTypes : ToSet(g.list[t]) = ToSet(u.list[t]) \ {s}
    BY <1>7, <1>8, <1>10
  <1> QED BY <1>3, <1>4, <1>5, <1>14, <1>15, <1>16, <1>17

\* nevent_delete() of a live event.
LEMMA DeleteIs ==
    ASSUME NEW u, NEW s, NEW notify
    PROVE  nevent_delete(u, s, notify) =
               IF u.ev[s].done THEN u
               ELSE event_dispatch_and_delete(Cancelled(u, s), s, notify, "cancel")
  BY DEF nevent_delete, Cancelled, Gone, Dropped

\* nevent_delete() ends a live event and leaves the books right.
LEMMA CancelGood ==
    ASSUME NEW u, NEW n, NEW a, Good(u, n, a), client \in Clients, NEW s \in Structs,
           ~u.ev[s].done => Live(u, s), NEW notify \in BOOLEAN,
           ~(Len(u.stack) = 1 /\ u.stack[1].kind = "iod")
    PROVE  /\ Good(nevent_delete(u, s, notify), n, a) /\ Delivers(u, nevent_delete(u, s, notify))
           /\ Walking(nevent_delete(u, s, notify)) => Walking(u)
  <1>1. CASE u.ev[s].done
    <2>1. nevent_delete(u, s, notify) = u BY <1>1, DeleteIs
    <2> QED BY <2>1 DEF Delivers
  <1>2. CASE ~u.ev[s].done
    <2>1. Ready(u, Cancelled(u, s), s) /\ ~Kept(Cancelled(u, s), s) BY <1>2, CancelledIs
    <2>2. nevent_delete(u, s, notify) = event_dispatch_and_delete(Cancelled(u, s), s, notify, "cancel")
      BY <1>2, DeleteIs
    <2> DEFINE t == Cancelled(u, s)
    <2> HIDE DEF t
    <2>3. Ready(u, t, s) /\ ~Kept(t, s) BY <2>1 DEF t
    <2>4. "cancel" \in Origins BY DEF Origins
    <2>5. Live(u, s) /\ CallIs(u, t, s, notify, "cancel") BY <1>2, <2>3 DEF CallIs
    <2>6. /\ Good(event_dispatch_and_delete(t, s, notify, "cancel"), n, a)
          /\ Delivers(u, event_dispatch_and_delete(t, s, notify, "cancel"))
          /\ Walking(event_dispatch_and_delete(t, s, notify, "cancel")) => Walking(u)
      BY <2>3, <2>4, <2>5, EndGood
    <2> QED BY <2>2, <2>6 DEF t
  <1> QED BY <1>1, <1>2

\* process_event() has ended the event of the walk.
LEMMA WalkEnds ==
    ASSUME NEW u, NEW n, NEW a, Good(u, n, a), client \in Clients, NEW s \in Structs, Live(u, s),
           u.ev[s].done, u.ev[s].type # "timer",
           Len(u.stack) = 1, u.stack[1].kind = "iod", u.stack[1].cur = s
    PROVE  /\ Good(event_dispatch_and_delete(u, s, TRUE, "iod"), n, a)
           /\ Delivers(u, event_dispatch_and_delete(u, s, TRUE, "iod"))
  <1>1. Ready(u, u, s) BY DEF Ready, Good, Others
  <1>2. s \notin ToSet(u.list["free"]) /\ s \in ToSet(u.list[u.ev[s].type]) BY LiveIs DEF Kept
  <1>3. "iod" \in Origins BY DEF Origins
  <1> DEFINE v == event_dispatch_and_delete(u, s, TRUE, "iod")
  <1>b. PICK b \in BOOLEAN : b = TRUE OBVIOUS
  <1>4. v = event_dispatch_and_delete(u, s, b, "iod") BY <1>b
  <1> HIDE DEF v
  <1>5. CallIs(u, u, s, b, "iod") BY <1>b, <1>2 DEF CallIs
  <1>6. Good(v, n, a) /\ Delivers(u, v) BY <1>1, <1>3, <1>4, <1>5, EndGood
  <1> QED BY <1>6 DEF v

\* An event has timed out.
LEMMA ExpireGood ==
    ASSUME NEW u, NEW n, NEW a, Good(u, n, a), client \in Clients, NEW s \in Structs, Live(u, s),
           NEW t \in process_event(Dropped(u, s), s, {}, TRUE), u.stack = <<>>
    PROVE  /\ Good(event_dispatch_and_delete(t, s, TRUE, "expired"), n, a)
           /\ Delivers(u, event_dispatch_and_delete(t, s, TRUE, "expired"))
           /\ Walking(event_dispatch_and_delete(t, s, TRUE, "expired")) => Walking(u)
  <1> DEFINE x == Dropped(u, s)
  <1>1. u \in Views /\ Lists(u) /\ Firsts(u) /\ Heap(u) BY DEF Good
  <1>2. /\ s \notin ToSet(u.list["free"]) /\ Kept(u, s) /\ HasIod(u, s) BY LiveIs
  <1>3. /\ x \in Views /\ Others(u, x, s) /\ x.ev = u.ev /\ x.list = u.list
        /\ x.outcome = u.outcome /\ x.stack = u.stack /\ x.events_pending = u.events_pending
        /\ x.expirables = u.expirables \ {s} /\ Lists(x) /\ Firsts(x) /\ Heap(x)
    BY <1>1, DropIs
  <1>4. t \in process_event(x, s, {}, TRUE) OBVIOUS
  <1> HIDE DEF x
  <1>5. Touch(x, t, s) /\ t.ev[s].done
    <2>1. HasIod(x, s) BY <1>2, <1>3 DEF HasIod
    <2> QED BY <2>1, <1>3, <1>4, ProcessIs
  <1>6. t \in Views /\ Others(x, t, s) /\ Lists(t) /\ Firsts(t) /\ Heap(t) BY <1>3, <1>5, TouchKeeps
  <1>7. Others(u, t, s) BY <1>3, <1>6, OthersTrans
  <1>8. /\ t.list = u.list /\ t.expirables = u.expirables \ {s} /\ t.outcome = u.outcome
        /\ t.stack = u.stack /\ t.events_pending = u.events_pending
        /\ t.ev[s].id = u.ev[s].id /\ t.ev[s].type = u.ev[s].type /\ t.ev[s].iod = u.ev[s].iod
    BY <1>3, <1>5 DEF Touch
  <1>9. Ready(u, t, s) BY <1>5, <1>6, <1>7, <1>8 DEF Ready
  <1>10. /\ s \notin ToSet(t.list["free"])
         /\ t.ev[s].type # "timer" => s \in ToSet(t.list[t.ev[s].type]) /\ s \notin t.expirables
    BY <1>2, <1>8 DEF Kept
  <1>11. Len(u.stack) = 0 BY <1>1, StackIs
  <1>12. "expired" \in Origins /\ s \notin t.expirables BY <1>8 DEF Origins
  <1> DEFINE v == event_dispatch_and_delete(t, s, TRUE, "expired")
  <1>b. PICK b \in BOOLEAN : b = TRUE OBVIOUS
  <1>13. v = event_dispatch_and_delete(t, s, b, "expired") BY <1>b
  <1> HIDE DEF v
  <1>14. ~(Len(u.stack) = 1 /\ u.stack[1].kind = "iod") BY <1>11
  <1>15. CallIs(u, t, s, b, "expired") BY <1>b, <1>10, <1>12, <1>14 DEF CallIs
  <1>16. Good(v, n, a) /\ Delivers(u, v) /\ (Walking(v) => Walking(u))
    BY <1>9, <1>12, <1>13, <1>15, EndGood
  <1> QED BY <1>16 DEF v

\* The handler of a cancelled event returns.
LEMMA ReturnCancel ==
    ASSUME NEW u, NEW n, NEW a, Good(u, n, a), u.stack # <<>>, NEW h, h = u.stack[Len(u.stack)],
           h.kind = "handler", h.from = "cancel", NEW v, v = Finish(Pop(u), h.ev, h.from)
    PROVE  /\ Good(v, n, a) /\ Delivers(u, v) /\ \A x \in Structs : Live(v, x) <=> Live(u, x)
           /\ v.stack = Front(u.stack) /\ v.iod = u.iod /\ v.list = u.list /\ v.expirables = u.expirables
           /\ \A x : Held(v, x) <=> Held(u, x)
           /\ \A x \in Structs : /\ x # h.ev => v.ev[x] = u.ev[x]
                                 /\ v.ev[x].id = u.ev[x].id /\ v.ev[x].type = u.ev[x].type
                                 /\ v.ev[x].iod = u.ev[x].iod /\ v.ev[x].desire = u.ev[x].desire
                                 /\ v.ev[x].done <=> u.ev[x].done \/ x = h.ev
  <1> DEFINE s == h.ev
             e == [u.ev[s] EXCEPT !.done = TRUE]
             m == [u.ev EXCEPT ![s] = e]
             q == Front(u.stack)
  <1>1. u \in Views /\ Frames(u, a) BY DEF Good
  <1>2. s \in Structs
    <2>1. Len(u.stack) \in DOMAIN u.stack BY <1>1, StackIs
    <2> QED BY <2>1, <1>1, HandlerIs
  <1>3. /\ e \in Event /\ e.id = u.ev[s].id /\ e.type = u.ev[s].type /\ e.iod = u.ev[s].iod
        /\ e.desire = u.ev[s].desire /\ e.done = TRUE
    <2>1. u.ev[s] \in Event BY <1>1, <1>2, EventIs
    <2> QED BY <2>1 DEF Event
  <1>4. v = [u EXCEPT !.stack = q, !.ev = m]
    <2>1. v = [Pop(u) EXCEPT !.ev[s].done = TRUE] BY DEF Finish
    <2>2. Pop(u) = [u EXCEPT !.stack = q] BY DEF Pop
    <2>3. Pop(u).ev = u.ev BY <2>2, <1>1 DEF Views
    <2>4. [Pop(u) EXCEPT !.ev[s].done = TRUE] = [Pop(u) EXCEPT !.ev = m] BY <2>3
    <2> QED BY <2>1, <2>2, <2>4
  <1>5. m \in [Structs -> Event] /\ \A x \in Structs : m[x] = IF x = s THEN e ELSE u.ev[x]
    BY <1>1, <1>2, <1>3, ViewIs
  <1>6. q \in Seq(Frame) BY <1>1, ViewIs, FrontIs
  <1> HIDE DEF m, e, q, s
  <1>7. /\ v \in Views /\ v.stack = q /\ v.ev = m /\ v.list = u.list /\ v.iod = u.iod
        /\ v.expirables = u.expirables /\ v.outcome = u.outcome /\ v.events_pending = u.events_pending
    BY <1>1, <1>4, <1>5, <1>6 DEF Views
  <1>8. \A x \in Structs : /\ x # s => v.ev[x] = u.ev[x]
                           /\ v.ev[x].id = u.ev[x].id /\ v.ev[x].type = u.ev[x].type
                           /\ v.ev[x].iod = u.ev[x].iod /\ v.ev[x].desire = u.ev[x].desire
    BY <1>3, <1>5, <1>7
  <1>9. \A x \in Structs : v.ev[x].done <=> u.ev[x].done \/ x = s
    <2> SUFFICES ASSUME NEW x \in Structs PROVE v.ev[x].done <=> u.ev[x].done \/ x = s OBVIOUS
    <2>1. CASE x = s BY <2>1, <1>3, <1>5, <1>7
    <2>2. CASE x # s
      <3>1. u.ev[x].done \in BOOLEAN /\ v.ev[x] = u.ev[x] BY <1>1, <1>8, <2>2, EventIs
      <3> QED BY <3>1, <2>2
    <2> QED BY <2>1, <2>2
  <1>10. \A x \in Structs : /\ v.ev[x].id = u.ev[x].id /\ v.ev[x].type = u.ev[x].type
                            /\ v.ev[x].iod = u.ev[x].iod /\ (u.ev[x].done => v.ev[x].done)
    BY <1>8, <1>9
  <1>11. \A x : Held(v, x) <=> Held(u, x)
    <2>1. ~Holds(u, Len(u.stack)) BY DEF Holds
    <2> QED BY <2>1, <1>1, <1>7, HeldFront DEF q
  <1>12. HeldStay(u, v, a, a)
    <2>1. /\ v.list = u.list /\ v.expirables = u.expirables /\ v.outcome = u.outcome
          /\ u \in Views
      BY <1>1, <1>7
    <2> QED BY <2>1, <1>10, StaySame
  <1>13. Frames(v, a)
    <2>1. ~(u.stack[Len(u.stack)].kind = "handler" /\ u.stack[Len(u.stack)].from = "iod") OBVIOUS
    <2> QED BY <2>1, <1>1, <1>7, <1>12, PopFrames DEF q
  <1>14. \A i \in Iods : v.iod[i].first = u.iod[i].first BY <1>7
  <1>15. Good(v, n, a) /\ Delivers(u, v) /\ \A x \in Structs : Live(v, x) <=> Live(u, x)
    <2>1. /\ v.list = u.list /\ v.expirables = u.expirables /\ v.outcome = u.outcome
          /\ v.events_pending = u.events_pending /\ v \in Views
      BY <1>7
    <2> QED BY <2>1, <1>10, <1>11, <1>13, <1>14, SameGood
  <1>16. v.stack = Front(u.stack) BY <1>7 DEF q
  <1>17. \A x \in Structs : /\ x # h.ev => v.ev[x] = u.ev[x]
                            /\ v.ev[x].id = u.ev[x].id /\ v.ev[x].type = u.ev[x].type
                            /\ v.ev[x].iod = u.ev[x].iod /\ v.ev[x].desire = u.ev[x].desire
                            /\ v.ev[x].done <=> u.ev[x].done \/ x = h.ev
    BY <1>8, <1>9 DEF s
  <1>18. v.list = u.list /\ v.iod = u.iod /\ v.expirables = u.expirables BY <1>7
  <1> HIDE DEF s
  <1> QED BY <1>11, <1>15, <1>16, <1>17, <1>18, ZenonT(30)

\* What Finish() makes of an event that is still on its list.
Moved(u, s, from) ==
    LET deleted == [Pop(u) EXCEPT !.ev[s].done = TRUE]
    IN  IF from = "iod" THEN [deleted EXCEPT !.stack[Len(Pop(u).stack)].cur = NextOf(deleted, s)]
        ELSE deleted

\* event_delete(), but for a cancelled event.
LEMMA FinishIs ==
    ASSUME NEW u, NEW s, NEW from \in {"iod", "expired", "add"}
    PROVE  Finish(Pop(u), s, from) = IF from = "iod" THEN Dropped(Gone(Moved(u, s, from), s), s)
                                     ELSE Gone(Moved(u, s, from), s)
  BY DEF Finish, Moved, Gone, Dropped

\* The state from which Finish() takes the event off its list.
MovedTo(u, x, h) ==
    /\ x \in Views /\ x.ev = u.ev /\ x.list = u.list /\ x.expirables = u.expirables
    /\ x.iod = u.iod /\ x.outcome = u.outcome /\ x.events_pending = u.events_pending
    /\ h.from # "iod" => x.stack = Front(u.stack)
    /\ h.from = "iod" => \E f \in IodFrame :
          /\ x.stack = <<f>> /\ f.cur = NextOf(u, h.ev) /\ Len(u.stack) = 2
          /\ u.stack[1].kind = "iod" /\ u.stack[1] \in IodFrame
          /\ h.ev \in ToSet(u.list[u.ev[h.ev].type]) /\ u.ev[h.ev].type \in IoTypes

\* process_iod_events() moves on before the event it was at leaves the list.
LEMMA MovedIs ==
    ASSUME NEW u, NEW n, NEW a, Good(u, n, a), u.stack # <<>>, NEW h, h = u.stack[Len(u.stack)],
           h.kind = "handler", h.from # "cancel", NEW x, x = Moved(u, h.ev, h.from)
    PROVE  MovedTo(u, x, h)
  <1> DEFINE s == h.ev
             q == Front(u.stack)
             d == [u EXCEPT !.stack = q]
             k == Len(u.stack)
  <1>1. u \in Views /\ Frames(u, a) /\ Lists(u) BY DEF Good
  <1>2. k \in DOMAIN u.stack /\ Holds(u, k) BY <1>1, StackIs DEF Holds
  <1>3. s \in Structs /\ h.from \in Origins BY <1>1, <1>2, HandlerIs DEF Holds
  <1>4. HeldIs(u, s, h.from, a) BY <1>1, <1>2 DEF Frames
  <1>5. /\ q \in Seq(Frame) /\ Len(q) = k - 1 /\ \A j \in 1..(k - 1) : q[j] = u.stack[j]
        /\ k \in Nat \ {0}
    BY <1>1, ViewIs, FrontIs
  <1>6. /\ d \in Views /\ d.stack = q /\ d.ev = u.ev /\ d.list = u.list /\ d.iod = u.iod
        /\ d.expirables = u.expirables /\ d.outcome = u.outcome /\ d.events_pending = u.events_pending
    <2> HIDE DEF q
    <2> QED BY <1>1, <1>5 DEF Views
  <1>7. Pop(u) = d BY DEF Pop
  <1> HIDE DEF d, q
  <1>8. [d EXCEPT !.ev[s].done = TRUE] = d
    <2>1. u.ev \in [Structs -> Event] /\ u.ev[s] \in Event BY <1>1, <1>3, ViewIs, EventIs
    <2>2. u.ev[s].done = TRUE
      <3>1. u.ev[s].done /\ u.ev[s].done \in BOOLEAN BY <1>1, <1>3, <1>4, EventIs DEF HeldIs
      <3> QED BY <3>1
    <2>3. [u.ev[s] EXCEPT !.done = TRUE] = u.ev[s] BY <2>1, <2>2 DEF Event
    <2>4. [u.ev EXCEPT ![s].done = TRUE] = [u.ev EXCEPT ![s] = u.ev[s]] BY <2>1, <2>3
    <2>5. [u.ev EXCEPT ![s] = u.ev[s]] = u.ev BY <2>1
    <2>6. [d EXCEPT !.ev[s].done = TRUE] = [d EXCEPT !.ev = u.ev] BY <2>4, <2>5, <1>6
    <2>7. [d EXCEPT !.ev = u.ev] = d BY <1>6 DEF Views
    <2> QED BY <2>6, <2>7
  <1>9. x = IF h.from = "iod" THEN [d EXCEPT !.stack[Len(q)].cur = NextOf(d, s)] ELSE d
    <2> DEFINE y == [d EXCEPT !.ev[s].done = TRUE]
    <2>1. y = d BY <1>8
    <2>2. x = IF h.from = "iod" THEN [y EXCEPT !.stack[Len(d.stack)].cur = NextOf(y, s)] ELSE y
      BY <1>7, Zenon DEF Moved
    <2> HIDE DEF y
    <2>3. d.stack = q BY <1>6
    <2> QED BY <2>1, <2>2, <2>3
  <1>10. CASE h.from # "iod"
    <2>1. x = d BY <1>9, <1>10
    <2> QED BY <2>1, <1>6, <1>10 DEF q, MovedTo
  <1>11. CASE h.from = "iod"
    <2>1. k = 2 /\ u.stack[1].kind = "iod" /\ u.stack[1].cur = s
      BY <1>1, <1>2, <1>11 DEF Frames
    <2>2. Len(q) = 1 /\ q[1] = u.stack[1] /\ q \in Seq(Frame)
      <3>1. k - 1 = 1 /\ 1 \in 1..(k - 1) BY <2>1
      <3> QED BY <3>1, <1>5
    <2>3. q[1] \in IodFrame
      <3>1. q[1] \in Frame
        <4>1. \A j \in 1..Len(q) : q[j] \in Frame BY <2>2, SeqIs
        <4> QED BY <4>1, <2>2
      <3> QED BY <2>1, <2>2, <3>1 DEF Frame, HandlerFrame, DeleteFrame
    <2>4. u.ev[s].type # "timer" /\ s \in ToSet(u.list[u.ev[s].type])
      BY <1>4, <1>11 DEF HeldIs
    <2>5. u.ev[s].type \in IoTypes BY <2>4, <1>1, <1>3, EventIs
    <2>6. NextOf(u, s) \in Structs \cup {None} BY <2>4, <2>5, <1>1, NextIs
    <2>7. NextOf(d, s) = NextOf(u, s) BY <1>6 DEF NextOf
    <2> DEFINE c == NextOf(u, s)
               f == [q[1] EXCEPT !.cur = c]
    <2>8. x = [d EXCEPT !.stack = [q EXCEPT ![1].cur = c]]
      BY <1>6, <1>9, <1>11, <2>2, <2>7
    <2> HIDE DEF c
    <2>9. f \in IodFrame /\ f.cur = c BY <2>3, <2>6 DEF IodFrame, c
    <2>10. [q EXCEPT ![1].cur = c] = [q EXCEPT ![1] = f] OBVIOUS
    <2> HIDE DEF f
    <2>11. f \in Frame BY <2>9 DEF Frame
    <2>12. [q EXCEPT ![1] = f] = <<f>>
      <3>1. DOMAIN q = 1..1 /\ q = [j \in 1..1 |-> q[j]]
        <4>1. q \in [1..Len(q) -> Frame] BY <2>2, LenProperties
        <4> QED BY <4>1, <2>2
      <3>2. [q EXCEPT ![1] = f] = [j \in 1..1 |-> f] BY <3>1
      <3>3. <<f>> = [j \in 1..1 |-> f] OBVIOUS
      <3> QED BY <3>2, <3>3
    <2>13. <<f>> \in Seq(Frame) BY <2>11
    <2>14. x = [d EXCEPT !.stack = <<f>>] BY <2>8, <2>10, <2>12
    <2>15. /\ x \in Views /\ x.stack = <<f>> /\ x.ev = u.ev /\ x.list = u.list /\ x.iod = u.iod
           /\ x.expirables = u.expirables /\ x.outcome = u.outcome /\ x.events_pending = u.events_pending
      BY <1>6, <2>13, <2>14 DEF Views
    <2>16. u.stack[1] \in IodFrame BY <2>2, <2>3
    <2>17. \E g \in IodFrame :
              /\ x.stack = <<g>> /\ g.cur = NextOf(u, s) /\ k = 2
              /\ u.stack[1].kind = "iod" /\ u.stack[1] \in IodFrame
              /\ s \in ToSet(u.list[u.ev[s].type]) /\ u.ev[s].type \in IoTypes
      <3>1. /\ x.stack = <<f>> /\ f.cur = NextOf(u, s) /\ k = 2
            /\ u.stack[1].kind = "iod" /\ u.stack[1] \in IodFrame
            /\ s \in ToSet(u.list[u.ev[s].type]) /\ u.ev[s].type \in IoTypes
        <4>1. x.stack = <<f>> BY <2>15
        <4>2. f.cur = NextOf(u, s) BY <2>9 DEF c
        <4> HIDE DEF k, s
        <4> QED BY <4>1, <4>2, <2>1, <2>4, <2>5, <2>16
      <3>2. f \in IodFrame BY <2>9
      <3> WITNESS f \in IodFrame
      <3> QED BY <3>1
    <2>18. h.from # "iod" => x.stack = Front(u.stack) BY <1>11
    <2> QED BY <2>15, <2>17, <2>18, Zenon DEF k, s, MovedTo
  <1> QED BY <1>10, <1>11

\* The handler of an event that is still on its list returns, and the struct goes to the free list.
LEMMA ReturnListed ==
    ASSUME NEW u, NEW n, NEW a, Good(u, n, a), client \in Clients, u.stack # <<>>,
           NEW h, h = u.stack[Len(u.stack)],
           h.kind = "handler", h.from # "cancel", NEW v, v = Finish(Pop(u), h.ev, h.from)
    PROVE  /\ Good(v, n, a) /\ Delivers(u, v) /\ SameIods(u, v) /\ v.ev = u.ev
           /\ Others(u, v, h.ev) /\ ~Live(v, h.ev) /\ ~Live(u, h.ev) /\ h.ev \in Structs
           /\ \A x \in Structs : x # h.ev => (Held(v, x) <=> Held(u, x))
           /\ \A x \in Structs : x # h.ev => (Live(v, x) <=> Live(u, x))
           /\ h.ev \notin v.expirables /\ u.ev[h.ev].done
           /\ h.from # "iod" => v.stack = Front(u.stack)
           /\ h.from = "iod" => Len(v.stack) = 1 /\ v.stack[1].kind = "iod"
  <1> DEFINE s == h.ev
             k == Len(u.stack)
             x == Moved(u, h.ev, h.from)
             g == Gone(x, s)
  <1>1. u \in Views /\ Lists(u) /\ Firsts(u) /\ Heap(u) /\ Frames(u, a) /\ Events(u, n, a)
        /\ u.events_pending = Cardinality(PendingOf(u)) /\ n \in Nat /\ a \in Nat
    BY DEF Good
  <1>2. k \in DOMAIN u.stack /\ k \in Nat /\ Holds(u, k) BY <1>1, StackIs DEF Holds
  <1>3. s \in Structs /\ h.from \in {"iod", "expired", "add"} BY <1>1, <1>2, HandlerIs DEF Holds, Origins
  <1>4. HeldIs(u, s, h.from, a) /\ Held(u, s) BY <1>1, <1>2 DEF Frames, Held
  <1>a. x = Moved(u, h.ev, h.from) OBVIOUS
  <1> HIDE DEF x
  <1>5. /\ x \in Views /\ x.ev = u.ev /\ x.list = u.list /\ x.expirables = u.expirables
        /\ x.iod = u.iod /\ x.outcome = u.outcome /\ x.events_pending = u.events_pending
        /\ h.from # "iod" => x.stack = Front(u.stack)
        /\ h.from = "iod" => \E f \in IodFrame :
              /\ x.stack = <<f>> /\ f.cur = NextOf(u, s) /\ Len(u.stack) = 2
              /\ u.stack[1].kind = "iod" /\ u.stack[1] \in IodFrame
              /\ s \in ToSet(u.list[u.ev[s].type]) /\ u.ev[s].type \in IoTypes
    <2>1. MovedTo(u, x, h) BY <1>a, MovedIs
    <2> QED BY <2>1, Zenon DEF MovedTo, s
  <1>6. v = IF h.from = "iod" THEN Dropped(g, s) ELSE g BY <1>a, <1>3, FinishIs
  <1>7. Lists(x) /\ Firsts(x) /\ Heap(x)
    <2>1. SameBooks(u, x) BY <1>5 DEF SameBooks
    <2> QED BY <2>1, <1>1, BooksKeep
  <1>8. Removable(x, s) /\ s \notin ToSet(x.list["free"])
    <2>1. s \notin ToSet(u.list["free"]) BY <1>4 DEF HeldIs
    <2>2. CASE u.ev[s].type = "timer" BY <2>1, <2>2, <1>5 DEF Removable
    <2>3. CASE u.ev[s].type # "timer"
      <3>1. s \in ToSet(u.list[u.ev[s].type]) BY <2>3, <1>4 DEF HeldIs
      <3>2. u.ev[s].type \in IoTypes BY <2>3, <1>1, <1>3, EventIs
      <3>3. u.ev[s].iod \in Iods BY <3>1, <3>2, <1>1, ListedIs
      <3> QED BY <2>1, <3>1, <3>3, <1>5 DEF Removable
    <2> QED BY <2>2, <2>3
  <1>9. /\ g \in Views /\ g.ev = x.ev /\ g.expirables = x.expirables
        /\ g.events_pending = x.events_pending /\ g.outcome = x.outcome /\ g.stack = x.stack
        /\ SameIods(x, g)
        /\ ToSet(g.list["free"]) = ToSet(x.list["free"]) \cup {s}
        /\ \A t \in IoTypes : ToSet(g.list[t]) = ToSet(x.list[t]) \ {s}
        /\ Lists(g) /\ Firsts(g)
    BY <1>3, <1>5, <1>7, <1>8, GoneIs
  <1> HIDE DEF g
  <1>10. /\ v \in Views /\ v.ev = u.ev /\ v.list = g.list /\ v.iod = g.iod
         /\ v.events_pending = u.events_pending /\ v.outcome = u.outcome /\ v.stack = x.stack
         /\ v.expirables = u.expirables \ {s} /\ Lists(v) /\ Firsts(v)
    <2>1. CASE h.from = "iod"
      <3>1. v = Dropped(g, s) BY <2>1, <1>6
      <3>2. /\ v \in Views /\ v.ev = g.ev /\ v.list = g.list /\ v.iod = g.iod
            /\ v.outcome = g.outcome /\ v.stack = g.stack
            /\ v.events_pending = g.events_pending /\ v.expirables = g.expirables \ {s}
            /\ Lists(v) /\ Firsts(v)
        BY <3>1, <1>9, DropIs
      <3> QED BY <3>2, <1>5, <1>9
    <2>2. CASE h.from # "iod"
      <3>1. v = g BY <2>2, <1>6
      <3>2. s \notin u.expirables BY <2>2, <1>3, <1>4 DEF HeldIs
      <3>3. u.expirables \ {s} = u.expirables BY <3>2
      <3> QED BY <3>1, <3>3, <1>5, <1>9
    <2> QED BY <2>1, <2>2
  <1>b. u \in Views /\ v \in Views BY <1>1, <1>10
  <1>11. Others(u, v, s)
    <2>1. ASSUME NEW y \in Structs, y # s, NEW t \in IoTypes \cup {"free"}
          PROVE  y \in ToSet(v.list[t]) <=> y \in ToSet(u.list[t])
      BY <2>1, <1>5, <1>9, <1>10
    <2>2. ASSUME NEW y \in Structs, y # s PROVE y \in v.expirables <=> y \in u.expirables
      BY <2>2, <1>10
    <2> QED BY <2>1, <2>2, <1>10 DEF Others
  <1>12. Heap(v) BY <1>1, <1>5, <1>9, <1>10 DEF Heap
  <1>13. ~Kept(v, s)
    <2>1. CASE u.ev[s].type = "timer" BY <2>1, <1>10 DEF Kept
    <2>2. CASE u.ev[s].type # "timer"
      <3>1. u.ev[s].type \in IoTypes BY <2>2, <1>1, <1>3, EventIs
      <3> QED BY <3>1, <2>2, <1>9, <1>10 DEF Kept
    <2> QED BY <2>1, <2>2
  <1>14. Frames(v, a) /\ ~Held(v, s) /\ \A y \in Structs : y # s => (Held(v, y) <=> Held(u, y))
    <2>1. CASE h.from = "iod"
      <3>1. PICK f \in IodFrame :
              /\ x.stack = <<f>> /\ f.cur = NextOf(u, s) /\ Len(u.stack) = 2
              /\ u.stack[1].kind = "iod" /\ u.stack[1] \in IodFrame
              /\ s \in ToSet(u.list[u.ev[s].type]) /\ u.ev[s].type \in IoTypes
        BY <2>1, <1>5
      <3>2. CurIs(v, f.cur)
        <4>1. CASE f.cur = None BY <4>1 DEF CurIs
        <4>2. CASE f.cur # None
          <5> DEFINE t == u.ev[s].type
          <5>1. t \in IoTypes /\ s \in ToSet(u.list[t]) BY <3>1
          <5> HIDE DEF t
          <5>2. f.cur \in ToSet(u.list[t]) /\ f.cur # s
            <6>1. NextOf(u, s) # None => NextOf(u, s) \in ToSet(u.list[t]) /\ NextOf(u, s) # s
              BY ONLY <5>1, <1>1, NextIs
            <6> QED BY <6>1, <3>1, <4>2
          <5>3. f.cur \in ToSet(v.list[t]) BY <5>1, <5>2, <1>5, <1>9, <1>10
          <5> QED BY <5>1, <5>3 DEF CurIs
        <4> QED BY <4>1, <4>2
      <3>3. Frames(v, a) /\ \A y : ~Held(v, y)
        <4>1. v.stack = <<f>> BY <3>1, <1>10
        <4> QED BY <4>1, <3>2, <1>b, OneFrame
      <3>4. ASSUME NEW y \in Structs, y # s PROVE ~Held(u, y)
        <4>1. DOMAIN u.stack = 1..2 BY <3>1, <1>1, StackIs
        <4>2. ~Holds(u, 1) BY <3>1 DEF Holds
        <4>3. u.stack[2].ev = s BY <3>1
        <4> QED BY <4>1, <4>2, <4>3, <3>4 DEF Held
      <3> QED BY <3>3, <3>4
    <2>2. CASE h.from # "iod"
      <3>1. v.stack = Front(u.stack) BY <2>2, <1>5, <1>10
      <3>2. \A y : Held(u, y) <=> Held(v, y) \/ s = y
        <4>1. \A y : Held(u, y) <=> Held(v, y) \/ (Holds(u, Len(u.stack)) /\ u.stack[Len(u.stack)].ev = y)
          BY <3>1, <1>b, HeldFront
        <4> QED BY <4>1, <1>2
      <3>3. ~Held(v, s)
        <4> SUFFICES ASSUME NEW j \in DOMAIN v.stack, Holds(v, j), v.stack[j].ev = s PROVE FALSE
          BY DEF Held
        <4>1. DOMAIN v.stack = 1..(k - 1) /\ DOMAIN u.stack = 1..k
              /\ \A m \in 1..(k - 1) : v.stack[m] = u.stack[m]
          <5>1. u.stack \in Seq(Frame) /\ u.stack # <<>> /\ v.stack = Front(u.stack) BY <3>1, <1>b, StackIs
          <5>2. /\ Front(u.stack) \in Seq(Frame) /\ Len(Front(u.stack)) = k - 1
                /\ \A m \in 1..(k - 1) : Front(u.stack)[m] = u.stack[m]
            BY <5>1, FrontIs
          <5>3. DOMAIN u.stack = 1..k /\ DOMAIN Front(u.stack) = 1..Len(Front(u.stack))
            BY <5>1, <5>2, SeqIs
          <5> QED BY <5>1, <5>2, <5>3
        <4>2. j \in 1..(k - 1) /\ v.stack[j] = u.stack[j] BY <4>1
        <4>3. Holds(u, j) /\ u.stack[j].ev = s BY <4>2 DEF Holds
        <4>4. j \in DOMAIN u.stack /\ j # k BY <4>1, <4>2, <1>2
        <4> QED BY <4>3, <4>4, <1>1, <1>2 DEF Frames
      <3>4. HeldStay(u, v, a, a)
        <4>1. ToldStays(u, v) BY <1>10 DEF ToldStays
        <4> QED BY <4>1, <3>3, <1>1, <1>11, StayOthers
      <3>5. Frames(v, a)
        <4>1. ~(u.stack[Len(u.stack)].kind = "handler" /\ u.stack[Len(u.stack)].from = "iod") BY <2>2
        <4> QED BY <4>1, <3>1, <3>4, <1>1, <1>10, PopFrames
      <3> QED BY <3>2, <3>3, <3>5
    <2> QED BY <2>1, <2>2
  <1>15. ~Live(v, s) /\ ~Live(u, s) BY <1>4, <1>13 DEF Live
  <1>16. Events(v, n, a)
    <2>1. s \in ToSet(v.list["free"]) \cup v.expirables => s <= a BY <1>4 DEF HeldIs
    <2>2. v.ev[s] = u.ev[s] /\ v.outcome = u.outcome BY <1>10
    <2> QED BY <2>1, <2>2, <1>1, <1>3, <1>11, <1>14, <1>15, KeepEvents
  <1>17. PendingOf(v) = PendingOf(u) BY <1>10 DEF PendingOf
  <1>18. Good(v, n, a) /\ Delivers(u, v)
    BY <1>1, <1>10, <1>12, <1>14, <1>16, <1>17 DEF Good, Delivers
  <1>19. SameIods(u, v)
    <2>1. x.iod = u.iod BY <1>5
    <2>2. v.iod = g.iod BY <1>10
    <2>3. SameIods(x, g) BY <1>9
    <2> QED BY <2>1, <2>2, <2>3 DEF SameIods
  <1>20. \A y \in Structs : y # s => (Live(v, y) <=> Live(u, y))
    BY <1>1, <1>11, <1>14, KeptOthers DEF Live
  <1>21. s \notin v.expirables /\ u.ev[s].done BY <1>4, <1>10 DEF HeldIs
  <1>22. h.from = "iod" => Len(v.stack) = 1 /\ v.stack[1].kind = "iod"
    <2> SUFFICES ASSUME h.from = "iod" PROVE Len(v.stack) = 1 /\ v.stack[1].kind = "iod" OBVIOUS
    <2>1. PICK f \in IodFrame : x.stack = <<f>> BY <1>5
    <2>2. v.stack = <<f>> BY <2>1, <1>10
    <2>3. f.kind = "iod" BY DEF IodFrame
    <2>4. Len(<<f>>) = 1 /\ <<f>>[1] = f OBVIOUS
    <2> QED BY <2>2, <2>3, <2>4
  <1>23. h.from # "iod" => v.stack = Front(u.stack) BY <1>5, <1>10
  <1> QED BY <1>3, <1>10, <1>11, <1>14, <1>15, <1>18, <1>19, <1>20, <1>21, <1>22, <1>23

\* Structs that were not allocated are on no list.
LEMMA InUse ==
    ASSUME NEW u, NEW n, NEW a, Good(u, n, a)
    PROVE  /\ \A t \in IoTypes \cup {"free"} : \A x \in ToSet(u.list[t]) : x <= a
           /\ \A x \in u.expirables : x <= a
           /\ \A x \in Structs : Live(u, x) => x <= a /\ x \notin ToSet(u.list["free"])
           /\ \A x \in Structs : Held(u, x) => x <= a /\ x \notin ToSet(u.list["free"])
  <1>1. u \in Views /\ Lists(u) /\ Heap(u) /\ Frames(u, a) /\ Events(u, n, a) BY DEF Good
  <1>2. \A x \in Structs : Held(u, x) => x <= a /\ x \notin ToSet(u.list["free"])
    BY <1>1 DEF Frames, Held, HeldIs
  <1>3. \A x \in Structs : Live(u, x) => x <= a BY <1>1 DEF Events
  <1>4. ASSUME NEW x \in Structs, Live(u, x) PROVE x \notin ToSet(u.list["free"])
    <2>1. Kept(u, x) BY <1>4 DEF Live
    <2>2. CASE u.ev[x].type = "timer" BY <2>1, <2>2, <1>1 DEF Kept, Heap
    <2>3. CASE u.ev[x].type # "timer"
      <3>1. u.ev[x].type \in IoTypes BY <2>3, <1>1, EventIs
      <3>2. x \in ToSet(u.list[u.ev[x].type]) BY <2>1, <2>3 DEF Kept
      <3> QED BY <3>1, <3>2, <1>1 DEF Lists
    <2> QED BY <2>2, <2>3
  <1>5. ASSUME NEW t \in IoTypes, NEW x \in ToSet(u.list[t]) PROVE x <= a
    <2>1. x \in Structs /\ u.ev[x].type = t /\ t # "timer" BY <1>1, <1>5, ListedIs
    <2>2. Kept(u, x) BY <2>1, <1>5 DEF Kept
    <2> QED BY <2>1, <2>2, <1>2, <1>3 DEF Live
  <1>6. (\A x \in ToSet(u.list["free"]) : x <= a) /\ \A x \in u.expirables : x <= a
    BY <1>1 DEF Events
  <1> QED BY <1>2, <1>3, <1>4, <1>5, <1>6

\* Changing a struct that is on no list.
LEMMA BooksUnlisted ==
    ASSUME NEW u \in Views, NEW v \in Views, NEW s, Lists(u), Firsts(u), Heap(u),
           \A x \in Structs : x # s => v.ev[x] = u.ev[x],
           \A t \in IoTypes : v.list[t] = u.list[t] /\ s \notin ToSet(u.list[t]),
           Distinct(v.list["free"]), ToSet(v.list["free"]) \subseteq ToSet(u.list["free"]),
           v.expirables = u.expirables, \A i \in Iods : v.iod[i].first = u.iod[i].first
    PROVE  Lists(v) /\ Firsts(v) /\ Heap(v)
  <1>1. \A t \in IoTypes : \A k \in DOMAIN u.list[t] :
            u.list[t][k] \in Structs /\ v.ev[u.list[t][k]] = u.ev[u.list[t][k]]
    <2> SUFFICES ASSUME NEW t \in IoTypes, NEW k \in DOMAIN u.list[t]
                 PROVE  u.list[t][k] \in Structs /\ v.ev[u.list[t][k]] = u.ev[u.list[t][k]]
      OBVIOUS
    <2>1. u.list[t][k] \in Structs /\ u.list[t][k] \in ToSet(u.list[t]) BY ViewIs, SeqIs
    <2> QED BY <2>1
  <1>2. \A t \in IoTypes : \A x \in ToSet(u.list[t]) : x \in Structs /\ v.ev[x] = u.ev[x]
    <2> SUFFICES ASSUME NEW t \in IoTypes, NEW x \in ToSet(u.list[t])
                 PROVE  x \in Structs /\ v.ev[x] = u.ev[x]
      OBVIOUS
    <2>1. x \in Structs BY ViewIs, SeqIs
    <2> QED BY <2>1
  <1>3. Lists(v)
    <2>1. ASSUME NEW t \in IoTypes PROVE Together(v.ev, v.list[t])
      <3> DEFINE q == u.list[t]
      <3>1. Together(u.ev, q) /\ v.list[t] = q BY DEF Lists
      <3>2. \A k \in DOMAIN q : v.ev[q[k]] = u.ev[q[k]] BY <1>1
      <3> HIDE DEF q
      <3> QED BY <3>1, <3>2 DEF Together
    <2>2. \A t \in IoTypes \cup {"free"} : Distinct(v.list[t]) BY DEF Lists
    <2>3. ASSUME NEW t \in IoTypes, NEW x \in ToSet(v.list[t])
          PROVE  v.ev[x].type = t /\ v.ev[x].iod \in Iods /\ x \notin ToSet(v.list["free"])
      <3>1. x \in ToSet(u.list[t]) OBVIOUS
      <3>2. u.ev[x].type = t /\ u.ev[x].iod \in Iods /\ x \notin ToSet(u.list["free"])
        BY <3>1 DEF Lists
      <3> QED BY <3>1, <3>2, <1>2
    <2> QED BY <2>1, <2>2, <2>3 DEF Lists
  <1>4. Firsts(v)
    <2> SUFFICES ASSUME NEW i \in Iods, NEW t \in IoTypes
                 PROVE  FirstIs(v.ev, v.list[t], i, v.iod[i].first[t])
      BY DEF Firsts
    <2> DEFINE f == u.iod[i].first[t]
               q == u.list[t]
    <2>1. FirstIs(u.ev, q, i, f) BY DEF Firsts
    <2>2. v.list[t] = q /\ v.iod[i].first[t] = f OBVIOUS
    <2>3. \A k \in DOMAIN q : q[k] \in Structs /\ v.ev[q[k]] = u.ev[q[k]] BY <1>1
    <2> HIDE DEF f, q
    <2>4. FirstIs(v.ev, q, i, f) BY <2>1, <2>3 DEF FirstIs
    <2> QED BY <2>2, <2>4
  <1>5. Heap(v) BY DEF Heap
  <1> QED BY <1>3, <1>4, <1>5

\* The iod of s has one event more.
IodMore(u, v, i) ==
    \A j \in Iods : /\ v.iod[j].state = u.iod[j].state /\ v.iod[j].sd = u.iod[j].sd
                    /\ v.iod[j].ssl = u.iod[j].ssl /\ v.iod[j].count = u.iod[j].count
                    /\ v.iod[j].watched = u.iod[j].watched /\ v.iod[j].first = u.iod[j].first
                    /\ v.iod[j].pending = IF i = j THEN u.iod[j].pending + 1 ELSE u.iod[j].pending

Requested(type, i, timeout) ==
    [id |-> serials + 1, type |-> type, iod |-> i, done |-> FALSE, status |-> "NONE",
     timeout |-> timeout, desire |-> "none"]

\* What event_new() makes: a struct that nothing else refers to.
NewTo(u, v, s, e) ==
    /\ v \in Views /\ s \in Structs /\ Others(u, v, s) /\ v.ev[s] = e
    /\ v.expirables = u.expirables /\ v.stack = u.stack
    /\ s \notin u.expirables /\ ~Held(u, s) /\ ~Live(u, s)
    /\ \A t \in IoTypes \cup {"free"} : s \notin ToSet(v.list[t])
    /\ Lists(v) /\ Firsts(v) /\ Heap(v)
    /\ v.outcome = [u.outcome EXCEPT ![serials + 1] = "pending"]
    /\ v.events_pending = u.events_pending + 1

\* event_new().
LEMMA NewIs ==
    ASSUME Good(View, serials, allocated), client \in Clients, serials < MaxEvents,
           allocated <= serials, NEW type \in IoTypes \cup {"timer"}, NEW i \in Iods \cup {None},
           NEW timeout \in BOOLEAN, NEW new, new = event_new(type, i, timeout),
           NEW b, b = IF new.fresh THEN allocated + 1 ELSE allocated
    PROVE  /\ NewTo(View, new.st, new.struct, Requested(type, i, timeout))
           /\ IodMore(View, new.st, i)
           /\ new.struct <= b /\ b \in Nat /\ allocated <= b /\ b <= serials + 1
           /\ Requested(type, i, timeout) \in Event
  <1> DEFINE u == View
             q == list["free"]
             reuse == q # <<>>
             s == IF reuse THEN Head(q) ELSE allocated + 1
             e == Requested(type, i, timeout)
             m == [ev EXCEPT ![s] = e]
             f == IF reuse THEN Tail(q) ELSE q
             l == [list EXCEPT !["free"] = f]
             d == IF i = None THEN iod ELSE [iod EXCEPT ![i].pending = @ + 1]
             o == [outcome EXCEPT ![serials + 1] = "pending"]
             v == [ev |-> m, list |-> l, expirables |-> expirables, iod |-> d,
                   events_pending |-> events_pending + 1, outcome |-> o, stack |-> stack]
  <1>0. Good(u, serials, allocated) OBVIOUS
  <1>1. /\ u \in Views /\ Lists(u) /\ Firsts(u) /\ Heap(u) /\ Frames(u, allocated)
        /\ Events(u, serials, allocated) /\ serials \in Nat /\ allocated \in Nat
    BY DEF Good
  <1>2. /\ u.ev = ev /\ u.list = list /\ u.expirables = expirables /\ u.iod = iod
        /\ u.events_pending = events_pending /\ u.outcome = outcome /\ u.stack = stack
    BY DEF View
  <1>4. new.struct = s /\ new.st = v /\ (new.fresh <=> ~reuse)
    <2>1. new.struct = s /\ (new.fresh <=> ~reuse) BY DEF event_new
    <2>2. new.st = [View EXCEPT !.ev[s] = e, !.list["free"] = IF reuse THEN Tail(@) ELSE @,
                                !.iod = IF i = None THEN @ ELSE [iod EXCEPT ![i].pending = @ + 1],
                                !.events_pending = @ + 1, !.outcome[serials + 1] = "pending"]
      <3> HIDE DEF u
      <3> QED BY DEF event_new, Requested
    <2> HIDE DEF s, e
    <2>3. new.st.ev = m /\ new.st.list = l /\ new.st.iod = d BY <2>2 DEF View
    <2> QED BY <2>1, <2>2, <2>3 DEF View
  <1>5. MaxEvents \in Nat BY NsockAssumption
  <1>6. q \in Seq(Structs) /\ Distinct(q)
    <2>1. u.list["free"] \in Seq(Structs) /\ Distinct(u.list["free"]) BY <1>1, ViewIs DEF Lists
    <2> QED BY <2>1, <1>2
  <1>7. /\ s \in Structs /\ s <= b /\ b \in Nat /\ allocated <= b /\ b <= serials + 1
        /\ f \in Seq(Structs) /\ Distinct(f) /\ ToSet(f) = ToSet(q) \ {s}
        /\ reuse => s \in ToSet(q)
        /\ ~reuse => s = allocated + 1 /\ ToSet(q) = {}
    <2>1. CASE reuse
      <3>1. b = allocated BY <2>1, <1>4
      <3>2. Head(q) \in Structs /\ Head(q) = q[1] /\ Tail(q) \in Seq(Structs)
            /\ Len(Tail(q)) = Len(q) - 1 /\ Len(q) \in Nat \ {0}
            /\ \A k \in 1..(Len(q) - 1) : Tail(q)[k] = q[k + 1]
        BY <2>1, <1>6, HeadTailProperties, EmptySeq, LenProperties
      <3>3. DOMAIN q = 1..Len(q) /\ DOMAIN Tail(q) = 1..(Len(q) - 1) BY <3>2, <1>6, SeqIs
      <3>4. Head(q) \in ToSet(q) BY <3>2, <3>3 DEF ToSet
      <3>5. Head(q) <= allocated
        <4>1. Head(q) \in ToSet(u.list["free"]) BY <3>4, <1>2
        <4> QED BY <4>1, <1>1 DEF Events
      <3>6. Distinct(Tail(q))
        <4> SUFFICES ASSUME NEW j \in DOMAIN Tail(q), NEW k \in DOMAIN Tail(q), Tail(q)[j] = Tail(q)[k]
                     PROVE  j = k
          BY DEF Distinct
        <4>1. q[j + 1] = q[k + 1] /\ j + 1 \in DOMAIN q /\ k + 1 \in DOMAIN q BY <3>2, <3>3
        <4>2. j + 1 = k + 1 BY <4>1, <1>6 DEF Distinct
        <4> QED BY <4>2, <3>2, <3>3
      <3>7. ToSet(Tail(q)) = ToSet(q) \ {Head(q)}
        <4>1. ASSUME NEW x \in ToSet(Tail(q)) PROVE x \in ToSet(q) /\ x # Head(q)
          <5>1. PICK k \in 1..(Len(q) - 1) : x = Tail(q)[k] BY <3>3 DEF ToSet
          <5>2. x = q[k + 1] /\ k + 1 \in DOMAIN q /\ 1 \in DOMAIN q /\ k + 1 # 1 BY <5>1, <3>2, <3>3
          <5>3. x # q[1] BY <5>2, <1>6 DEF Distinct
          <5> QED BY <5>2, <5>3, <3>2 DEF ToSet
        <4>2. ASSUME NEW x \in ToSet(q), x # Head(q) PROVE x \in ToSet(Tail(q))
          <5>1. PICK k \in 1..Len(q) : x = q[k] BY <3>3 DEF ToSet
          <5>2. k # 1 BY <5>1, <4>2, <3>2
          <5>3. k - 1 \in 1..(Len(q) - 1) /\ (k - 1) + 1 = k BY <5>1, <5>2, <3>2
          <5>4. Tail(q)[k - 1] = x BY <5>1, <5>3, <3>2
          <5> QED BY <5>3, <5>4, <3>3 DEF ToSet
        <4> QED BY <4>1, <4>2
      <3> QED BY <2>1, <3>1, <3>2, <3>4, <3>5, <3>6, <3>7, <1>1
    <2>2. CASE ~reuse
      <3>1. b = allocated + 1 BY <2>2, <1>4
      <3>2. q = <<>> /\ ToSet(q) = {} BY <2>2 DEF ToSet
      <3>3. allocated + 1 \in Structs BY <1>1, <1>5 DEF Structs
      <3> QED BY <2>2, <3>1, <3>2, <3>3, <1>1, <1>6
    <2> QED BY <2>1, <2>2
  <1>8. e \in Event
    <2>1. serials + 1 \in Ids BY <1>1, <1>5 DEF Ids
    <2> QED BY <2>1 DEF Requested, Event
  <1>9. /\ m \in [Structs -> Event] /\ \A x \in Structs : m[x] = IF x = s THEN e ELSE ev[x]
    <2>1. ev \in [Structs -> Event] BY <1>1, <1>2, ViewIs
    <2> HIDE DEF s, e
    <2> QED BY <2>1, <1>7, <1>8
  <1>10. /\ l \in [IoTypes \cup {"free"} -> Seq(Structs)] /\ l["free"] = f
         /\ \A t \in IoTypes : l[t] = list[t]
    <2>1. list \in [IoTypes \cup {"free"} -> Seq(Structs)] BY <1>1, <1>2, ViewIs
    <2> HIDE DEF f
    <2> QED BY <2>1, <1>7 DEF IoTypes
  <1>11. /\ d \in [Iods -> IodShape]
         /\ \A j \in Iods : /\ d[j].state = iod[j].state /\ d[j].sd = iod[j].sd
                            /\ d[j].ssl = iod[j].ssl /\ d[j].count = iod[j].count
                            /\ d[j].watched = iod[j].watched /\ d[j].first = iod[j].first
                            /\ d[j].pending = IF i = j THEN iod[j].pending + 1 ELSE iod[j].pending
    <2>0. iod \in [Iods -> IodShape] BY <1>1, <1>2, ViewIs
    <2>1. CASE i = None
      <3>1. d = iod BY <2>1
      <3> QED BY <3>1, <2>0, <2>1, NoIod
    <2>2. CASE i # None
      <3> DEFINE r == [iod[i] EXCEPT !.pending = iod[i].pending + 1]
      <3>1. i \in Iods BY <2>2
      <3>2. r \in IodShape /\ r.state = iod[i].state /\ r.sd = iod[i].sd
            /\ r.ssl = iod[i].ssl /\ r.count = iod[i].count
            /\ r.watched = iod[i].watched /\ r.first = iod[i].first
            /\ r.pending = iod[i].pending + 1
        <4>1. iod[i] \in IodShape /\ iod[i].pending + 1 \in Int BY <3>1, <2>0 DEF IodShape
        <4> QED BY <4>1, PendingRecord
      <3>3. d = [iod EXCEPT ![i] = r] BY <2>2
      <3> HIDE DEF r, d
      <3>5. d \in [Iods -> IodShape] /\ \A j \in Iods : d[j] = IF j = i THEN r ELSE iod[j]
        BY <3>1, <3>2, <3>3, <2>0
      <3> QED BY <3>1, <3>2, <3>5
    <2> QED BY <2>1, <2>2
  <1>12. o \in [Ids -> Verdict] /\ o = [u.outcome EXCEPT ![serials + 1] = "pending"]
    BY <1>1, <1>2, ViewIs DEF Verdict
  <1>13. events_pending + 1 \in Int BY <1>1, <1>2, ViewIs
  <1> HIDE DEF q, f, l, m, d, o, e, s
  <1>14. /\ v \in Views /\ v.ev = m /\ v.list = l /\ v.iod = d /\ v.outcome = o
         /\ v.events_pending = u.events_pending + 1 /\ v.expirables = u.expirables /\ v.stack = u.stack
    <2> HIDE DEF u
    <2> QED BY <1>1, <1>2, <1>9, <1>10, <1>11, <1>12, <1>13 DEF Views, u, View
  <1> HIDE DEF v, u, reuse
  <1>15. /\ \A t \in IoTypes : s \notin ToSet(u.list[t])
         /\ s \notin u.expirables /\ ~Held(u, s) /\ ~Live(u, s)
    <2>1. CASE reuse
      <3>1. s \in ToSet(u.list["free"]) BY <2>1, <1>2, <1>7 DEF q
      <3>2. \A t \in IoTypes : s \notin ToSet(u.list[t]) BY <3>1, <1>1 DEF Lists
      <3>3. s \notin u.expirables BY <3>1, <1>1 DEF Heap
      <3>4. ~Held(u, s) /\ ~Live(u, s) BY <3>1, <1>7, <1>0, InUse
      <3> QED BY <3>2, <3>3, <3>4
    <2>2. CASE ~reuse
      <3>1. ~(s <= allocated) BY <2>2, <1>1, <1>7
      <3>2. \A t \in IoTypes : s \notin ToSet(u.list[t]) BY <3>1, <1>0, InUse
      <3>3. s \notin u.expirables BY <3>1, <1>0, InUse
      <3>4. ~Held(u, s) /\ ~Live(u, s) BY <3>1, <1>7, <1>0, InUse
      <3> QED BY <3>2, <3>3, <3>4
    <2> QED BY <2>1, <2>2
  <1>16. ToSet(v.list["free"]) = ToSet(u.list["free"]) \ {s} /\ Distinct(v.list["free"])
         /\ \A t \in IoTypes : v.list[t] = u.list[t]
    BY <1>2, <1>7, <1>10, <1>14 DEF q
  <1>17. \A t \in IoTypes \cup {"free"} : s \notin ToSet(v.list[t]) BY <1>15, <1>16
  <1>18. \A x \in Structs : x # s => v.ev[x] = u.ev[x] BY <1>2, <1>9, <1>14
  <1>19. Others(u, v, s)
    <2>1. \A x \in Structs : x # s => \A t \in IoTypes \cup {"free"} :
             x \in ToSet(v.list[t]) <=> x \in ToSet(u.list[t])
      BY <1>16
    <2> QED BY <2>1, <1>14, <1>18 DEF Others
  <1>20. IodMore(u, v, i) BY <1>2, <1>11, <1>14 DEF IodMore
  <1>21. Lists(v) /\ Firsts(v) /\ Heap(v)
    <2>1. \A j \in Iods : v.iod[j].first = u.iod[j].first BY <1>20 DEF IodMore
    <2> QED BY <2>1, <1>1, <1>14, <1>15, <1>16, <1>18, BooksUnlisted
  <1>22. v.ev[s] = e /\ e.iod = i
    <2>1. e.iod = i BY DEF e, Requested
    <2> QED BY <2>1, <1>7, <1>9, <1>14
  <1>23. NewTo(u, v, s, e)
    BY <1>7, <1>12, <1>14, <1>15, <1>17, <1>19, <1>21, <1>22 DEF NewTo
  <1> QED BY <1>4, <1>7, <1>8, <1>20, <1>23 DEF u, e

\* nsock_connect_*() has made the descriptor, or could not.
LEMMA NewSocket ==
    ASSUME NEW u \in Views, NEW v, NEW s, NEW e, NewTo(u, v, s, e), NEW i \in Iods, NEW sd \in BOOLEAN,
           NEW w, w = [v EXCEPT !.iod[i].sd = sd]
    PROVE  /\ NewTo(u, w, s, e) /\ w.ev = v.ev
           /\ \A j \in Iods : /\ w.iod[j].state = v.iod[j].state /\ w.iod[j].ssl = v.iod[j].ssl
                              /\ w.iod[j].pending = v.iod[j].pending /\ w.iod[j].count = v.iod[j].count
                              /\ w.iod[j].watched = v.iod[j].watched /\ w.iod[j].first = v.iod[j].first
                              /\ w.iod[j].sd = IF i = j THEN sd ELSE v.iod[j].sd
  <1> DEFINE r == [v.iod[i] EXCEPT !.sd = sd]
  <1>1. v \in Views /\ Lists(v) /\ Firsts(v) /\ Heap(v) BY DEF NewTo
  <1>2. /\ r \in IodShape /\ r.sd = sd /\ r.state = v.iod[i].state /\ r.ssl = v.iod[i].ssl
        /\ r.pending = v.iod[i].pending /\ r.count = v.iod[i].count
        /\ r.watched = v.iod[i].watched /\ r.first = v.iod[i].first
    <2>1. v.iod[i] \in IodShape BY <1>1, IodIs
    <2> QED BY <2>1 DEF IodShape
  <1>3. w = [v EXCEPT !.iod = [v.iod EXCEPT ![i] = r]] OBVIOUS
  <1> HIDE DEF r
  <1> DEFINE d == [v.iod EXCEPT ![i] = r]
  <1>4. d \in [Iods -> IodShape] /\ \A j \in Iods : d[j] = IF j = i THEN r ELSE v.iod[j]
    BY <1>1, <1>2, ViewIs
  <1> HIDE DEF d
  <1>5. /\ w \in Views /\ w.iod = d /\ w.ev = v.ev /\ w.list = v.list /\ w.expirables = v.expirables
        /\ w.events_pending = v.events_pending /\ w.outcome = v.outcome /\ w.stack = v.stack
    <2>1. w = [v EXCEPT !.iod = d] BY <1>3 DEF d
    <2> QED BY <2>1, <1>1, <1>4 DEF Views
  <1>6. \A j \in Iods : w.iod[j].first = v.iod[j].first BY <1>2, <1>4, <1>5
  <1>7. Lists(w) /\ Firsts(w) /\ Heap(w)
    <2>1. \A x \in Structs : w.ev[x].type = v.ev[x].type /\ w.ev[x].iod = v.ev[x].iod BY <1>5
    <2>2. SameBooks(v, w) BY <2>1, <1>5, <1>6 DEF SameBooks
    <2> QED BY <2>2, <1>1, BooksKeep
  <1>8. Others(u, w, s) BY <1>5 DEF NewTo, Others
  <1>9. NewTo(u, w, s, e) BY <1>5, <1>7, <1>8 DEF NewTo
  <1> QED BY <1>2, <1>4, <1>5, <1>9

\* What nsock_pool_add_event() does with an event before it puts it on its list.
Queued(st, s) == IF st.ev[s].timeout THEN [st EXCEPT !.expirables = @ \cup {s}] ELSE st
Bit(e) == IF e.type = "read" THEN "r" ELSE "w"
Watching(st, s) ==
    CASE st.ev[s].type = "timer" -> Queued(st, s)
      [] st.ev[s].type = "connect" -> IncAll(Queued(st, s), st.ev[s].iod)
      [] OTHER -> Inc(Queued(st, s), st.ev[s].iod, Bit(st.ev[s]))
Wanting(st, s) ==
    IF st.ev[s].type \in {"read", "write"} /\ st.iod[st.ev[s].iod].ssl
    THEN [Watching(st, s) EXCEPT !.ev[s].desire = Bit(st.ev[s])] ELSE Watching(st, s)

\* nsock_pool_add_event() in three steps.
LEMMA AddedFrom ==
    ASSUME NEW u, NEW s
    PROVE  Added(u, s) = IF u.ev[s].type = "timer" THEN Wanting(u, s) ELSE iod_add_event(Wanting(u, s), s)
  BY DEF Added, Wanting, Watching, Queued, Bit

\* The event gets its place in the heap.
LEMMA QueuedIs ==
    ASSUME NEW u \in Views, NEW s \in Structs, Lists(u), Firsts(u), Heap(u), s \notin ToSet(u.list["free"])
    PROVE  /\ Queued(u, s) \in Views /\ Others(u, Queued(u, s), s)
           /\ Queued(u, s).ev = u.ev /\ Queued(u, s).list = u.list /\ Queued(u, s).iod = u.iod
           /\ Queued(u, s).outcome = u.outcome /\ Queued(u, s).stack = u.stack
           /\ Queued(u, s).events_pending = u.events_pending
           /\ Queued(u, s).expirables = (IF u.ev[s].timeout THEN u.expirables \cup {s} ELSE u.expirables)
           /\ Lists(Queued(u, s)) /\ Firsts(Queued(u, s)) /\ Heap(Queued(u, s))
  <1> DEFINE v == Queued(u, s)
             x == IF u.ev[s].timeout THEN u.expirables \cup {s} ELSE u.expirables
  <1>1. x \in SUBSET Structs BY ViewIs
  <1>2. /\ v \in Views /\ v.ev = u.ev /\ v.list = u.list /\ v.iod = u.iod /\ v.outcome = u.outcome
        /\ v.stack = u.stack /\ v.events_pending = u.events_pending /\ v.expirables = x
    <2>1. v = [u EXCEPT !.expirables = x]
      <3>1. CASE u.ev[s].timeout BY <3>1 DEF Queued
      <3>2. CASE ~u.ev[s].timeout
        <4>1. u = [u EXCEPT !.expirables = u.expirables] BY DEF Views
        <4> QED BY <4>1, <3>2 DEF Queued
      <3> QED BY <3>1, <3>2
    <2> HIDE DEF v, x
    <2> QED BY <2>1, <1>1 DEF Views
  <1>3. Lists(v) /\ Firsts(v)
    <2> HIDE DEF v
    <2> QED BY <1>2 DEF Lists, Firsts
  <1>4. Heap(v)
    <2> HIDE DEF v
    <2> QED BY <1>2 DEF Heap
  <1>5. Others(u, v, s)
    <2> HIDE DEF v
    <2> QED BY <1>2 DEF Others
  <1> QED BY <1>2, <1>3, <1>4, <1>5

\* The iod of the event counts it.
LEMMA WantingIs ==
    ASSUME NEW u \in Views, NEW s \in Structs, Lists(u), Firsts(u), Heap(u), s \notin ToSet(u.list["free"]),
           HasIod(u, s)
    PROVE  /\ Touch(Queued(u, s), Wanting(u, s), s)
           /\ Wanting(u, s).ev[s].done = u.ev[s].done
  <1> DEFINE q == Queued(u, s)
             e == u.ev[s]
             w == Watching(u, s)
             z == Wanting(u, s)
  <1>1. q \in Views /\ q.ev = u.ev BY QueuedIs
  <1>2. e \in Event /\ e.type \in {"connect", "read", "write", "timer"} BY EventIs
  <1>3. Touch(q, w, s) /\ w.ev = u.ev
    <2> HIDE DEF q
    <2>1. CASE e.type = "timer"
      <3>1. w = q BY <2>1 DEF Watching, q
      <3> QED BY <3>1, <1>1, TouchSelf
    <2>2. CASE e.type = "connect"
      <3>1. w = IncAll(q, e.iod) /\ e.iod \in Iods BY <2>2 DEF Watching, q, HasIod
      <3> QED BY <3>1, <1>1, IncAllTouch
    <2>3. CASE e.type \notin {"timer", "connect"}
      <3>1. w = Inc(q, e.iod, Bit(e)) /\ e.iod \in Iods BY <2>3 DEF Watching, q, HasIod
      <3>2. Bit(e) \in Bits BY DEF Bit, Bits
      <3> QED BY <3>1, <3>2, <1>1, IncTouch
    <2> QED BY <2>1, <2>2, <2>3
  <1>4. w \in Views BY <1>3 DEF Touch
  <1>5. Touch(w, z, s) /\ z.ev[s].done = w.ev[s].done
    <2>1. CASE e.type \in {"read", "write"} /\ u.iod[e.iod].ssl
      <3>1. z = [w EXCEPT !.ev[s].desire = Bit(e)] BY <2>1 DEF Wanting
      <3>2. Bit(e) \in {"none", "connect", "r", "w"} BY DEF Bit
      <3> HIDE DEF w, z
      <3> QED BY <3>1, <3>2, <1>4, DesireIs
    <2>2. CASE ~(e.type \in {"read", "write"} /\ u.iod[e.iod].ssl)
      <3>1. z = w BY <2>2 DEF Wanting
      <3> QED BY <3>1, <1>4, TouchSelf
    <2> QED BY <2>1, <2>2
  <1>6. Touch(q, z, s)
    <2> HIDE DEF q, w, z
    <2> QED BY <1>3, <1>5, TouchTrans
  <1> QED BY <1>3, <1>5, <1>6

\* Where nsock_pool_add_event() puts a new event: it can be found, and nothing else has changed.
Entered(u, x, s) ==
    /\ x \in Views /\ Others(u, x, s) /\ Lists(x) /\ Firsts(x) /\ Heap(x)
    /\ x.ev[s].id = u.ev[s].id /\ x.ev[s].type = u.ev[s].type /\ x.ev[s].iod = u.ev[s].iod
    /\ x.ev[s].timeout = u.ev[s].timeout /\ x.ev[s].done = u.ev[s].done /\ Kept(x, s)
    /\ s \notin ToSet(x.list["free"])
    /\ x.outcome = u.outcome /\ x.events_pending = u.events_pending /\ x.stack = u.stack

\* The event gets its place on a list.
LEMMA EnteredIs ==
    ASSUME NEW u \in Views, NEW s \in Structs, Lists(u), Firsts(u), Heap(u), HasIod(u, s),
           \A t \in IoTypes \cup {"free"} : s \notin ToSet(u.list[t]),
           u.ev[s].type = "timer" => u.ev[s].timeout
    PROVE  /\ Entered(u, Added(u, s), s)
           /\ Added(u, s).ev = Wanting(u, s).ev /\ SameIods(Wanting(u, s), Added(u, s))
           /\ Added(u, s).expirables = Queued(u, s).expirables
  <1> DEFINE q == Queued(u, s)
             z == Wanting(u, s)
             x == Added(u, s)
  <1>1. /\ q \in Views /\ Others(u, q, s) /\ q.ev = u.ev /\ q.list = u.list
        /\ q.outcome = u.outcome /\ q.stack = u.stack /\ q.events_pending = u.events_pending
        /\ q.expirables = (IF u.ev[s].timeout THEN u.expirables \cup {s} ELSE u.expirables)
        /\ Lists(q) /\ Firsts(q) /\ Heap(q)
    BY QueuedIs
  <1>2. Touch(q, z, s) /\ z.ev[s].done = u.ev[s].done BY WantingIs
  <1>3. u.ev[s].type \in {"connect", "read", "write", "timer"} BY EventIs
  <1>4. x = IF u.ev[s].type = "timer" THEN z ELSE iod_add_event(z, s) BY AddedFrom
  <1> HIDE DEF q, z, x
  <1>5. z \in Views /\ Others(q, z, s) /\ Lists(z) /\ Firsts(z) /\ Heap(z) BY <1>1, <1>2, TouchKeeps
  <1>6. /\ z.list = u.list /\ z.expirables = q.expirables /\ z.outcome = u.outcome
        /\ z.stack = u.stack /\ z.events_pending = u.events_pending
        /\ z.ev[s].id = u.ev[s].id /\ z.ev[s].type = u.ev[s].type /\ z.ev[s].iod = u.ev[s].iod
        /\ z.ev[s].timeout = u.ev[s].timeout
    BY <1>1, <1>2 DEF Touch
  <1>7. Others(u, z, s) BY <1>1, <1>5, OthersTrans
  <1>8. CASE u.ev[s].type = "timer"
    <2>1. x = z BY <1>4, <1>8
    <2>2. Kept(z, s) BY <1>8, <1>1, <1>6 DEF Kept
    <2>3. SameIods(z, z) BY DEF SameIods
    <2>4. s \notin ToSet(z.list["free"]) BY <1>6
    <2>5. Entered(u, z, s) BY <1>2, <1>5, <1>6, <1>7, <2>2, <2>4 DEF Entered
    <2> QED BY <2>1, <2>3, <2>5, <1>6 DEF z, x, q
  <1>9. CASE u.ev[s].type # "timer"
    <2>1. x = iod_add_event(z, s) BY <1>4, <1>9
    <2>2. z.ev[s].type \in IoTypes /\ z.ev[s].iod \in Iods BY <1>3, <1>6, <1>9 DEF HasIod, IoTypes
    <2>3. \A t \in IoTypes \cup {"free"} : s \notin ToSet(z.list[t]) BY <1>6
    <2>4. /\ x \in Views /\ x.ev = z.ev /\ x.expirables = z.expirables
          /\ x.events_pending = z.events_pending /\ x.outcome = z.outcome /\ x.stack = z.stack
          /\ SameIods(z, x)
          /\ ToSet(x.list[z.ev[s].type]) = ToSet(z.list[z.ev[s].type]) \cup {s}
          /\ \A t \in IoTypes \cup {"free"} : t # z.ev[s].type => x.list[t] = z.list[t]
          /\ Lists(x) /\ Firsts(x)
      <3>1. z \in Views /\ Lists(z) /\ Firsts(z) /\ s \in Structs BY <1>5
      <3> QED BY ONLY <3>1, <2>1, <2>2, <2>3, AddIs
    <2>5. z.ev[s].type # "free" BY <2>2 DEF IoTypes
    <2>6. x.list["free"] = z.list["free"] BY <2>4, <2>5
    <2>7. Heap(x) BY <1>5, <2>4, <2>6 DEF Heap
    <2>8. Others(z, x, s)
      <3>1. \A y \in Structs : y # s => \A t \in IoTypes \cup {"free"} :
               y \in ToSet(x.list[t]) <=> y \in ToSet(z.list[t])
        <4> SUFFICES ASSUME NEW y \in Structs, y # s, NEW t \in IoTypes \cup {"free"}
                     PROVE  y \in ToSet(x.list[t]) <=> y \in ToSet(z.list[t])
          OBVIOUS
        <4>1. CASE t = z.ev[s].type
          <5>1. ToSet(x.list[t]) = ToSet(z.list[t]) \cup {s} BY <4>1, <2>4
          <5> QED BY <5>1
        <4>2. CASE t # z.ev[s].type BY <4>2, <2>4
        <4> QED BY <4>1, <4>2
      <3> QED BY <2>4, <3>1 DEF Others
    <2>9. Others(u, x, s) BY <1>7, <2>8, OthersTrans
    <2>10. s \notin ToSet(x.list["free"]) BY <2>3, <2>6
    <2>11. Kept(x, s)
      <3>1. s \in ToSet(x.list[x.ev[s].type]) /\ x.ev[s].type # "timer" BY <2>4, <1>6, <1>9
      <3> QED BY <3>1 DEF Kept
    <2>12. /\ x.ev[s].id = u.ev[s].id /\ x.ev[s].type = u.ev[s].type /\ x.ev[s].iod = u.ev[s].iod
           /\ x.ev[s].timeout = u.ev[s].timeout /\ x.ev[s].done = u.ev[s].done
      BY <1>2, <1>6, <2>4
    <2>13. x.outcome = u.outcome /\ x.events_pending = u.events_pending /\ x.stack = u.stack
      BY <1>6, <2>4
    <2>14. Entered(u, x, s)
      BY <2>4, <2>7, <2>9, <2>10, <2>11, <2>12, <2>13 DEF Entered
    <2> QED BY <2>4, <2>14, <1>6 DEF z, x, q
  <1> QED BY <1>8, <1>9

\* A request has been made.
LEMMA RequestGood ==
    ASSUME NEW u, NEW n, NEW a, Good(u, n, a), client \in Clients, NEW s \in Structs, NEW b \in Nat,
           a <= b, s <= b, n + 1 \in Ids, NEW v, NewTo(u, v, s, v.ev[s]), v.ev[s].id = n + 1,
           ~v.ev[s].done, v.outcome = [u.outcome EXCEPT ![n + 1] = "pending"],
           v.ev[s].type = "timer" => v.ev[s].iod = None, NEW x, Entered(v, x, s),
           ~(Len(u.stack) = 1 /\ u.stack[1].kind = "iod")
    PROVE  /\ Good(x, n + 1, b) /\ Delivers(u, x) /\ Live(x, s)
           /\ \A y : Held(x, y) <=> Held(u, y)
           /\ \A y \in Structs : y # s => (Live(x, y) <=> Live(u, y))
           /\ x.stack = u.stack
  <1>1. /\ u \in Views /\ Frames(u, a) /\ Events(u, n, a) /\ n \in Nat /\ a \in Nat
        /\ u.events_pending = Cardinality(PendingOf(u)) /\ u.outcome \in [Ids -> Verdict]
    BY ViewIs DEF Good
  <1>2. /\ x \in Views /\ Others(v, x, s) /\ Lists(x) /\ Firsts(x) /\ Heap(x) /\ Kept(x, s)
        /\ x.outcome = v.outcome /\ x.events_pending = v.events_pending /\ x.stack = v.stack
        /\ x.ev[s].id = n + 1 /\ ~x.ev[s].done /\ (x.ev[s].type = "timer" => x.ev[s].iod = None)
    BY DEF Entered
  <1>3. /\ v \in Views /\ Others(u, v, s) /\ ~Held(u, s) /\ ~Live(u, s) /\ v.stack = u.stack
        /\ v.events_pending = u.events_pending + 1
    BY DEF NewTo
  <1>4. Others(u, x, s) BY <1>2, <1>3, OthersTrans
  <1>5. x.stack = u.stack BY <1>2, <1>3
  <1>6. \A y : Held(x, y) <=> Held(u, y) BY <1>5 DEF Held, Holds
  <1>7. Live(x, s) BY <1>2, <1>3, <1>6 DEF Live
  <1>8. x.outcome[n + 1] = "pending" /\ \A d \in Ids : d # n + 1 => x.outcome[d] = u.outcome[d]
    BY <1>1, <1>2
  <1>9. /\ Events(x, n + 1, b) /\ n + 1 \notin PendingOf(u) /\ u.outcome[n + 1] = "unused"
        /\ PendingOf(x) = PendingOf(u) \cup {n + 1}
    <2>1. PICK w \in {"pending", "told"} : w = "pending" OBVIOUS
    <2>2. \A y \in Structs : y # s => (Held(x, y) <=> Held(u, y)) BY <1>6
    <2>3. x.outcome[n + 1] = w BY <2>1, <1>8
    <2>4. (w = "pending" => ~x.ev[s].done) /\ (~x.ev[s].done => Live(x, s)) /\ (Live(x, s) => w = "pending")
      BY <2>1, <1>2, <1>7
    <2> QED BY <1>1, <1>2, <1>3, <1>4, <1>8, <2>1, <2>2, <2>3, <2>4, BeginEvents
  <1>10. ToldStays(u, x) BY <1>8, <1>9 DEF ToldStays
  <1>11. HeldStay(u, x, a, b) BY <1>1, <1>3, <1>4, <1>10, StayOthers
  <1>12. Frames(x, b) BY <1>1, <1>2, <1>5, <1>11, StayFrames
  <1>13. x.events_pending = Cardinality(PendingOf(x))
    <2>1. IsFiniteSet(PendingOf(u)) BY IdsFinite
    <2>2. Cardinality(PendingOf(u) \cup {n + 1}) = Cardinality(PendingOf(u)) + 1
      <3> DEFINE S == PendingOf(u)
                 d == n + 1
      <3>1. IsFiniteSet(S) /\ d \notin S BY <1>9, <2>1
      <3> HIDE DEF S, d
      <3>2. Cardinality(S \cup {d}) = Cardinality(S) + 1 BY <3>1, FS_AddElement
      <3> QED BY <3>2 DEF S, d
    <2> QED BY <2>2, <1>1, <1>2, <1>3, <1>9
  <1>14. Good(x, n + 1, b)
    BY <1>1, <1>2, <1>9, <1>12, <1>13 DEF Good
  <1>15. Delivers(u, x)
    <2>1. x.outcome = [u.outcome EXCEPT ![n + 1] = "pending"] /\ x.events_pending = u.events_pending + 1
      BY <1>2, <1>3
    <2> QED BY <2>1, <1>9 DEF Delivers
  <1>16. ASSUME NEW y \in Structs, y # s PROVE Live(x, y) <=> Live(u, y)
    BY <1>1, <1>4, <1>6, <1>16, KeptOthers DEF Live
  <1> QED BY <1>5, <1>6, <1>7, <1>14, <1>15, <1>16

\* A connect fails at once: the event is on its list while its handler runs.
Failed(v, s) == event_dispatch_and_delete(iod_add_event(Marked(v, s, "RESULT"), s), s, TRUE, "add")

\* The event that v has entered into u is told in x, and its iod has one less.
FailedTo(u, v, x, s) ==
    /\ ~Live(x, s) /\ \A y \in Structs : y # s => (Live(x, y) <=> Live(u, y))
    /\ Others(u, x, s) /\ s \notin x.expirables /\ x.ev[s].iod = v.ev[s].iod
    /\ \E f \in HandlerFrame : f.from = "add" /\ x.stack = Append(u.stack, f)
    /\ \A y : Held(x, y) <=> Held(u, y) \/ y = s
    /\ \A i \in Iods : x.iod[i].pending = IF v.ev[s].iod = i THEN v.iod[i].pending - 1
                                        ELSE v.iod[i].pending

\* A connect that fails at once is told by nsock_pool_add_event().
LEMMA FailGood ==
    ASSUME NEW u, NEW n, NEW a, Good(u, n, a), client \in Clients, NEW s \in Structs, NEW b \in Nat,
           a <= b, s <= b, n + 1 \in Ids, NEW v, NewTo(u, v, s, v.ev[s]), v.ev[s].id = n + 1,
           v.outcome = [u.outcome EXCEPT ![n + 1] = "pending"],
           v.ev[s].type \in IoTypes, v.ev[s].iod \in Iods,
           ~(Len(u.stack) = 1 /\ u.stack[1].kind = "iod"), NEW x, x = Failed(v, s)
    PROVE  /\ Good(x, n + 1, b) /\ Delivers(u, x) /\ ~Live(x, s)
           /\ \A y \in Structs : y # s => (Live(x, y) <=> Live(u, y))
           /\ Walking(x) => Walking(u)
           /\ FailedTo(u, v, x, s)
  <1> DEFINE m == Marked(v, s, "RESULT")
             z == iod_add_event(m, s)
  <1>1. /\ u \in Views /\ Frames(u, a) /\ Events(u, n, a) /\ n \in Nat /\ a \in Nat
        /\ u.events_pending = Cardinality(PendingOf(u)) /\ u.outcome \in [Ids -> Verdict]
        /\ u.events_pending \in Int
    BY ViewIs DEF Good
  <1>2. /\ v \in Views /\ Lists(v) /\ Firsts(v) /\ Heap(v) /\ Others(u, v, s) /\ ~Held(u, s) /\ ~Live(u, s)
        /\ s \notin u.expirables /\ v.expirables = u.expirables /\ v.stack = u.stack
        /\ v.events_pending = u.events_pending + 1
        /\ \A t \in IoTypes \cup {"free"} : s \notin ToSet(v.list[t])
    BY DEF NewTo
  <1>3. Touch(v, m, s) /\ m.ev[s].done
    <2>1. "RESULT" \in Status BY DEF Status
    <2> QED BY <2>1, <1>2, MarkedIs
  <1> HIDE DEF m
  <1>4. m \in Views /\ Others(v, m, s) /\ Lists(m) /\ Firsts(m) /\ Heap(m) BY <1>2, <1>3, TouchKeeps
  <1>5. /\ m.list = v.list /\ m.expirables = v.expirables /\ m.outcome = v.outcome
        /\ m.stack = v.stack /\ m.events_pending = v.events_pending
        /\ m.ev[s].id = v.ev[s].id /\ m.ev[s].type = v.ev[s].type /\ m.ev[s].iod = v.ev[s].iod
    BY <1>3 DEF Touch
  <1>6. \A t \in IoTypes \cup {"free"} : s \notin ToSet(m.list[t]) BY <1>2, <1>5
  <1>7. /\ z \in Views /\ z.ev = m.ev /\ z.expirables = m.expirables
        /\ z.events_pending = m.events_pending /\ z.outcome = m.outcome /\ z.stack = m.stack
        /\ ToSet(z.list[m.ev[s].type]) = ToSet(m.list[m.ev[s].type]) \cup {s}
        /\ \A t \in IoTypes \cup {"free"} : t # m.ev[s].type => z.list[t] = m.list[t]
        /\ Lists(z) /\ Firsts(z) /\ SameIods(m, z)
    BY <1>4, <1>5, <1>6, AddIs
  <1> HIDE DEF z
  <1>8. z.list["free"] = m.list["free"]
    <2>1. m.ev[s].type # "free" BY <1>5 DEF IoTypes
    <2> QED BY <2>1, <1>7
  <1>9. Others(m, z, s)
    <2>1. \A y \in Structs : y # s => \A t \in IoTypes \cup {"free"} :
             y \in ToSet(z.list[t]) <=> y \in ToSet(m.list[t])
      <3> SUFFICES ASSUME NEW y \in Structs, y # s, NEW t \in IoTypes \cup {"free"}
                   PROVE  y \in ToSet(z.list[t]) <=> y \in ToSet(m.list[t])
        OBVIOUS
      <3>1. CASE t = m.ev[s].type
        <4>1. ToSet(z.list[t]) = ToSet(m.list[t]) \cup {s} BY <3>1, <1>7
        <4> QED BY <4>1
      <3>2. CASE t # m.ev[s].type BY <3>2, <1>7
      <3> QED BY <3>1, <3>2
    <2> QED BY <2>1, <1>7 DEF Others
  <1>10. z.ev[s].id = n + 1 /\ z.ev[s].id \in Ids /\ z.ev[s].iod \in Iods /\ z.ev[s].type \in IoTypes
         /\ z.ev[s].done
    BY <1>3, <1>5, <1>7
  <1>11. /\ x \in Views /\ x.ev = z.ev /\ x.list = z.list /\ x.expirables = z.expirables
         /\ x.outcome = [z.outcome EXCEPT ![n + 1] = "told"]
         /\ x.events_pending = z.events_pending - 1 /\ IodLess(z, x, s)
         /\ Call(z, s, "add") \in Frame
         /\ x.stack = Append(z.stack, Call(z, s, "add"))
    <2>1. x = event_dispatch_and_delete(z, s, TRUE, "add") BY DEF Failed, m, z
    <2>2. PICK notify \in BOOLEAN, from \in Origins, w \in {"told", "silent"} :
             notify = TRUE /\ from = "add" /\ w = "told"
      BY DEF Origins
    <2>3. x = event_dispatch_and_delete(z, s, notify, from) BY <2>1, <2>2
    <2>4. /\ z \in Views /\ z.ev[s].id \in Ids /\ z.ev[s].iod \in Iods \cup {None}
          /\ notify \/ (from = "cancel" /\ z.ev[s].done)
          /\ w = IF notify THEN "told" ELSE "silent"
      BY <2>2, <1>7, <1>10
    <2>5. /\ x \in Views /\ x.ev = z.ev /\ x.list = z.list /\ x.expirables = z.expirables
          /\ x.outcome = [z.outcome EXCEPT ![z.ev[s].id] = w]
          /\ x.events_pending = z.events_pending - 1 /\ IodLess(z, x, s)
          /\ Call(z, s, from) \in Frame
          /\ x.stack = IF notify THEN Append(z.stack, Call(z, s, from)) ELSE z.stack
      BY <2>3, <2>4, DispatchIs
    <2> QED BY <2>2, <2>5, <1>10
  <1> DEFINE f == Call(z, s, "add")
  <1>12. f.kind = "handler" /\ f.ev = s /\ f.from = "add" BY DEF Call
  <1> HIDE DEF f
  <1>13. Lists(x) /\ Firsts(x) /\ Heap(x)
    <2>1. \A i \in Iods : x.iod[i].first = z.iod[i].first BY <1>11 DEF IodLess
    <2>2. Heap(z) BY <1>4, <1>7, <1>8 DEF Heap
    <2>3. \A y \in Structs : x.ev[y].type = z.ev[y].type /\ x.ev[y].iod = z.ev[y].iod BY <1>11
    <2>4. z \in Views /\ x \in Views /\ x.list = z.list /\ x.expirables = z.expirables BY <1>7, <1>11
    <2>5. SameBooks(z, x) BY <2>1, <2>3, <2>4 DEF SameBooks
    <2> QED BY <2>2, <2>4, <2>5, <1>7, BooksKeep
  <1>14. Others(u, x, s)
    <2>1. Others(v, z, s) BY <1>4, <1>9, OthersTrans
    <2>2. Others(u, z, s) BY <2>1, <1>2, OthersTrans
    <2> QED BY <2>2, <1>11 DEF Others
  <1>15. x.stack = Append(u.stack, f) /\ f \in Frame BY <1>2, <1>5, <1>7, <1>11 DEF f
  <1>16. ASSUME NEW y PROVE Held(x, y) <=> Held(u, y) \/ y = s
    <2>1. Held(x, y) <=> Held(u, y) \/ (f.kind = "handler" /\ f.from # "cancel" /\ f.ev = y)
      <3>1. u \in Views /\ x \in Views BY <1>1, <1>11
      <3> QED BY <3>1, <1>15, HeldAppend
    <2> QED BY <2>1, <1>12
  <1>17. ~Live(x, s) /\ x.ev[s].done /\ x.ev[s].id = n + 1 /\ x.ev[s].type \in IoTypes
    BY <1>10, <1>11, <1>16 DEF Live
  <1>18. x.outcome[n + 1] = "told" /\ (\A d \in Ids : d # n + 1 => x.outcome[d] = u.outcome[d])
         /\ x.outcome = [u.outcome EXCEPT ![n + 1] = "told"] /\ x.events_pending = u.events_pending
    <2>1. z.outcome = [u.outcome EXCEPT ![n + 1] = "pending"] /\ z.events_pending = u.events_pending + 1
      BY <1>2, <1>5, <1>7
    <2>2. x.outcome = [u.outcome EXCEPT ![n + 1] = "told"] BY <2>1, <1>1, <1>11
    <2>3. x.events_pending = u.events_pending
      <3>1. x.events_pending = (u.events_pending + 1) - 1 BY <2>1, <1>11
      <3> QED BY <3>1, <1>1
    <2> QED BY <2>2, <2>3, <1>1
  <1>19. /\ Events(x, n + 1, b) /\ n + 1 \notin PendingOf(u) /\ u.outcome[n + 1] = "unused"
         /\ PendingOf(x) = PendingOf(u)
    <2>1. PICK w \in {"pending", "told"} : w = "told" OBVIOUS
    <2>2. \A y \in Structs : y # s => (Held(x, y) <=> Held(u, y)) BY <1>16
    <2>3. x.outcome[n + 1] = w BY <2>1, <1>18
    <2>4. (w = "pending" => ~x.ev[s].done) /\ (~x.ev[s].done => Live(x, s)) /\ (Live(x, s) => w = "pending")
          /\ (x.ev[s].type = "timer" => x.ev[s].iod = None)
      BY <2>1, <1>17 DEF IoTypes
    <2>5. u \in Views /\ Events(u, n, a) /\ n \in Nat /\ a \in Nat /\ ~Live(u, s) /\ Others(u, x, s)
          /\ x.ev[s].id = n + 1 /\ \A d \in Ids : d # n + 1 => x.outcome[d] = u.outcome[d]
      BY <1>1, <1>2, <1>14, <1>17, <1>18
    <2>6. /\ Events(x, n + 1, b) /\ n + 1 \notin PendingOf(u) /\ u.outcome[n + 1] = "unused"
          /\ PendingOf(x) = IF w = "pending" THEN PendingOf(u) \cup {n + 1} ELSE PendingOf(u)
      BY <2>1, <2>2, <2>3, <2>4, <2>5, BeginEvents
    <2> QED BY <2>1, <2>6
  <1>20. ToldStays(u, x) BY <1>18, <1>19 DEF ToldStays
  <1>21. HeldStay(u, x, a, b) BY <1>1, <1>2, <1>14, <1>20, StayOthers
  <1>22. HeldIs(x, s, "add", b)
    <2>1. s \notin ToSet(x.list["free"]) /\ s \notin x.expirables
      BY <1>2, <1>5, <1>6, <1>7, <1>8, <1>11
    <2>2. s \in ToSet(x.list[x.ev[s].type]) BY <1>7, <1>11
    <2> QED BY <2>1, <2>2, <1>17, <1>18 DEF HeldIs, IoTypes
  <1>23. Frames(x, b)
    <2>1. f.kind # "iod" /\ f.from # "iod" /\ ~Held(u, f.ev) /\ HeldIs(x, f.ev, f.from, b)
      BY <1>2, <1>12, <1>22
    <2>2. u \in Views /\ x \in Views /\ Frames(u, a) BY <1>1, <1>11
    <2> QED BY <2>1, <2>2, <1>15, <1>21, PushFrames
  <1>24. Good(x, n + 1, b)
    <2>1. x.events_pending = Cardinality(PendingOf(x)) BY <1>1, <1>18, <1>19
    <2> QED BY <2>1, <1>1, <1>11, <1>13, <1>19, <1>23 DEF Good
  <1>25. Delivers(u, x) BY <1>18, <1>19 DEF Delivers
  <1>26. ASSUME NEW y \in Structs, y # s PROVE Live(x, y) <=> Live(u, y)
    BY <1>1, <1>14, <1>16, <1>26, KeptOthers DEF Live
  <1>27. Walking(x) => Walking(u)
    <2>1. f.kind # "iod" BY <1>12
    <2> QED BY <2>1, <1>1, <1>11, <1>15, WalkingIs
  <1>28. s \notin x.expirables /\ x.ev[s].iod = v.ev[s].iod BY <1>2, <1>5, <1>7, <1>11
  <1>29. f \in HandlerFrame BY <1>12, <1>15 DEF Frame, IodFrame, DeleteFrame
  <1>30. \A i \in Iods : x.iod[i].pending = IF v.ev[s].iod = i THEN v.iod[i].pending - 1
                                              ELSE v.iod[i].pending
    BY <1>3, <1>5, <1>7, <1>11 DEF Touch, SameIods, IodLess
  <1>31. FailedTo(u, v, x, s)
    BY <1>12, <1>14, <1>15, <1>16, <1>17, <1>26, <1>28, <1>29, <1>30 DEF FailedTo
  <1> QED BY <1>17, <1>24, <1>25, <1>26, <1>27, <1>31

-----------------------------------------------------------------------------
(* The steps.                                                               *)

\* The next state of the library.
LEMMA CommitIs ==
    ASSUME NEW v \in Views, Commit(v)
    PROVE  View' = v
  <1>1. /\ ev' = v.ev /\ list' = v.list /\ expirables' = v.expirables /\ iod' = v.iod
        /\ events_pending' = v.events_pending /\ outcome' = v.outcome /\ stack' = v.stack
    BY DEF Commit
  <1>2. v = [ev |-> v.ev, list |-> v.list, expirables |-> v.expirables, iod |-> v.iod,
             events_pending |-> v.events_pending, outcome |-> v.outcome, stack |-> v.stack]
    BY DEF Views
  <1> QED BY <1>1, <1>2 DEF View

\* The variables as fields of the state.
LEMMA ViewFields ==
    /\ View.ev = ev /\ View.list = list /\ View.expirables = expirables /\ View.iod = iod
    /\ View.events_pending = events_pending /\ View.outcome = outcome /\ View.stack = stack
  BY DEF View

\* The invariant while the library works, and what a step then makes of it.
Working == Good(View, serials, allocated) /\ Bookkeeping /\ ~Killing
Works ==
    /\ Good(View', serials', allocated') /\ Delivers(View, View')
    /\ Walking(View') => phase' = "iods"
    /\ phase' \in {"client", "iods", "expired"} /\ todo' \subseteq Iods /\ fatal' \in BOOLEAN
    /\ serials' \in 0..MaxEvents /\ allocated' \in 0..serials'

\* What holds while the library works.
LEMMA WorkingIs ==
    ASSUME Working
    PROVE  /\ View \in Views /\ Lists(View) /\ Firsts(View) /\ Heap(View) /\ Frames(View, allocated)
           /\ Events(View, serials, allocated) /\ client \in Clients
           /\ serials \in 0..MaxEvents /\ allocated \in 0..serials /\ MaxEvents \in Nat
           /\ phase \in {"client", "iods", "expired"} /\ todo \subseteq Iods /\ fatal \in BOOLEAN
           /\ Walking(View) => phase = "iods"
  <1>1. Walking(View) => phase = "iods" BY ViewFields DEF Working, Bookkeeping, Walking
  <1>2. phase \in {"client", "iods", "expired"} BY DEF Working, Bookkeeping, Killing
  <1> QED BY <1>1, <1>2, NsockAssumption DEF Working, Good, Bookkeeping

\* A step that requests nothing; it may end the program.
LEMMA WorksFatal ==
    ASSUME Working, NEW v, Good(v, serials, allocated), Delivers(View, v),
           Walking(v) => Walking(View), Commit(v),
           serials' = serials, allocated' = allocated, phase' = phase, todo' \subseteq Iods, fatal' \in BOOLEAN
    PROVE  Works
  <1>1. View' = v BY CommitIs DEF Good
  <1> QED BY <1>1, WorkingIs DEF Works

\* A step that requests nothing and leaves the loop where it was.
LEMMA WorksIs ==
    ASSUME Working, NEW v, Good(v, serials, allocated), Delivers(View, v),
           Walking(v) => Walking(View), Commit(v),
           serials' = serials, allocated' = allocated, phase' = phase, todo' = todo, fatal' = fatal
    PROVE  Works
  BY WorksFatal, WorkingIs

\* The first of two changes begins and ends no event.
LEMMA DeliversFrom ==
    ASSUME NEW u, NEW w, NEW v, w.outcome = u.outcome, w.events_pending = u.events_pending, Delivers(w, v)
    PROVE  Delivers(u, v)
  BY DEF Delivers

\* The innermost call.
LEMMA TopIs ==
    ASSUME Working, stack # <<>>
    PROVE  /\ Top(View) = View.stack[Len(View.stack)] /\ Top(View) \in Frame
           /\ Len(View.stack) \in DOMAIN View.stack /\ Len(View.stack) \in Nat \ {0}
           /\ View.stack # <<>>
           /\ Top(View).kind = "handler" => Top(View) \in HandlerFrame
           /\ Top(View).kind = "iod" => Top(View) \in IodFrame /\ Len(View.stack) = 1
           /\ Top(View).kind = "delete" => Top(View) \in DeleteFrame
  <1>1. View \in Views /\ Frames(View, allocated) BY WorkingIs
  <1>2. View.stack # <<>> BY ViewFields
  <1> DEFINE f == View.stack[Len(View.stack)]
  <1>3. Top(View) = f BY DEF Top
  <1>4. Len(View.stack) \in DOMAIN View.stack /\ Len(View.stack) \in Nat \ {0} /\ f \in Frame
    BY <1>1, <1>2, StackIs
  <1>5. f.kind = "iod" => Len(View.stack) = 1 BY <1>1, <1>4 DEF Frames
  <1> HIDE DEF f
  <1>6. /\ f.kind = "handler" => f \in HandlerFrame
        /\ f.kind = "iod" => f \in IodFrame
        /\ f.kind = "delete" => f \in DeleteFrame
    BY <1>4 DEF Frame, HandlerFrame, IodFrame, DeleteFrame
  <1> QED BY <1>2, <1>3, <1>4, <1>5, <1>6 DEF f

\* Who calls the library is not process_iod_events() itself.
LEMMA CallerIs ==
    ASSUME Working, MayCall
    PROVE  ~(Len(View.stack) = 1 /\ View.stack[1].kind = "iod")
  <1>1. CASE stack = <<>>
    <2>1. Len(View.stack) = 0 BY <1>1, ViewFields, WorkingIs, StackIs
    <2> QED BY <2>1
  <1>2. CASE stack # <<>>
    <2>1. Top(View).kind = "handler" BY <1>2 DEF MayCall, InHandler
    <2> QED BY <2>1, <1>2, TopIs
  <1> QED BY <1>1, <1>2

\* gh_lnode_next() gives a struct or none.
LEMMA NextAny ==
    ASSUME NEW u \in Views, NEW s
    PROVE  NextOf(u, s) \in Structs \cup {None}
  <1> DEFINE on == {t \in DOMAIN u.list : s \in ToSet(u.list[t])}
             c == CHOOSE t \in on : TRUE
             q == u.list[c]
  <1>1. CASE on = {} BY <1>1 DEF NextOf
  <1>2. CASE on # {}
    <2>1. c \in DOMAIN u.list /\ s \in ToSet(q) BY <1>2
    <2>2. q \in Seq(Structs)
      <3>1. DOMAIN u.list = IoTypes \cup {"free"} BY ViewIs
      <3> QED BY <2>1, <3>1, ViewIs
    <2>3. NextOf(u, s) = IF At(q, s) < Len(q) THEN q[At(q, s) + 1] ELSE None BY <1>2 DEF NextOf
    <2> HIDE DEF on, c, q
    <2>4. At(q, s) \in 1..Len(q) BY <2>1, <2>2, AtIs, SeqIs
    <2>5. At(q, s) < Len(q) => q[At(q, s) + 1] \in Structs BY <2>2, <2>4, SeqIs
    <2> QED BY <2>3, <2>5
  <1> QED BY <1>1, <1>2

\* A step of the client that requests an event.
LEMMA RequestWorks ==
    ASSUME Working, serials < MaxEvents, NEW v, NEW b \in Nat, Good(v, serials + 1, b), Delivers(View, v),
           Walking(v) => Walking(View), Commit(v), b <= serials + 1,
           serials' = serials + 1, allocated' = b, phase' = phase, todo' = todo, fatal' = fatal
    PROVE  Works
  <1>1. View' = v BY CommitIs DEF Good
  <1>2. serials' \in 0..MaxEvents /\ allocated' \in 0..serials' BY WorkingIs
  <1> QED BY <1>1, <1>2, WorkingIs DEF Works

\* What event_new() and nsock_pool_add_event() leave behind.
LEMMA AddedWorks ==
    ASSUME Working, MayCall, NEW type \in IoTypes \cup {"timer"}, NEW i \in Iods \cup {None},
           NEW timeout \in BOOLEAN, type = "timer" <=> i = None, type = "timer" => timeout,
           NEW new, new = event_new(type, i, timeout), NEW st,
           st = new.st \/ (i \in Iods /\ \E sd \in BOOLEAN : st = [new.st EXCEPT !.iod[i].sd = sd]),
           Request(new, Added(st, new.struct))
    PROVE  Works
  <1> DEFINE u == View
             s == new.struct
             e == Requested(type, i, timeout)
             b == IF new.fresh THEN allocated + 1 ELSE allocated
             x == Added(st, s)
  <1>1. /\ Good(u, serials, allocated) /\ client \in Clients /\ serials < MaxEvents
        /\ allocated <= serials /\ serials \in Nat /\ allocated \in Nat /\ u \in Views
    BY WorkingIs DEF Working, Request
  <1>2. b = IF new.fresh THEN allocated + 1 ELSE allocated OBVIOUS
  <1>3. /\ serials' = serials + 1 /\ allocated' = b /\ Commit(x)
        /\ phase' = phase /\ todo' = todo /\ fatal' = fatal
    BY DEF Request
  <1> HIDE DEF b
  <1>4. /\ NewTo(u, new.st, s, e) /\ s <= b /\ b \in Nat /\ allocated <= b /\ b <= serials + 1
        /\ e \in Event
    BY <1>1, <1>2, NewIs
  <1>5. e.id = serials + 1 /\ e.type = type /\ e.iod = i /\ ~e.done /\ e.timeout = timeout
    BY DEF Requested
  <1> HIDE DEF u, s, e, x
  <1>6. NewTo(u, st, s, e)
    <2>1. CASE st = new.st BY <2>1, <1>4
    <2>2. CASE i \in Iods /\ \E sd \in BOOLEAN : st = [new.st EXCEPT !.iod[i].sd = sd]
      <3>1. PICK sd \in BOOLEAN : st = [new.st EXCEPT !.iod[i].sd = sd] BY <2>2
      <3> QED BY <3>1, <2>2, <1>1, <1>4, NewSocket
    <2> QED BY <2>1, <2>2
  <1>7. /\ st \in Views /\ st.ev[s] = e /\ s \in Structs /\ Lists(st) /\ Firsts(st) /\ Heap(st)
        /\ (\A t \in IoTypes \cup {"free"} : s \notin ToSet(st.list[t]))
        /\ st.outcome = [u.outcome EXCEPT ![serials + 1] = "pending"]
    BY <1>6 DEF NewTo
  <1>8. NewTo(u, st, s, st.ev[s]) BY <1>6, <1>7
  <1>9. HasIod(st, s) /\ (st.ev[s].type = "timer" => st.ev[s].timeout)
    BY <1>5, <1>7 DEF HasIod
  <1>10. Entered(st, x, s) BY <1>7, <1>9, EnteredIs DEF x
  <1>11. ~(Len(u.stack) = 1 /\ u.stack[1].kind = "iod") BY CallerIs DEF u
  <1>12. serials + 1 \in Ids BY <1>1, WorkingIs DEF Ids
  <1>13. st.ev[s].id = serials + 1 /\ ~st.ev[s].done /\ (st.ev[s].type = "timer" => st.ev[s].iod = None)
    BY <1>5, <1>7
  <1>14. Good(x, serials + 1, b) /\ Delivers(u, x) /\ x.stack = u.stack
    BY <1>1, <1>4, <1>7, <1>8, <1>10, <1>11, <1>12, <1>13, RequestGood
  <1>15. Walking(x) => Walking(u) BY <1>14 DEF Walking
  <1> QED BY <1>1, <1>3, <1>4, <1>14, <1>15, RequestWorks DEF u

\* nsock_read(), nsock_write() and nsock_connect_*().
LEMMA StartIoWorks ==
    ASSUME Working, NEW type \in IoTypes, NEW i \in Iods, NEW timeout \in client.timeouts,
           StartIo(type, i, timeout)
    PROVE  Works
  <1> DEFINE new == event_new(type, i, timeout)
             st == IF type = "connect" THEN [new.st EXCEPT !.iod[i].sd = TRUE] ELSE new.st
  <1>1. MayCall /\ Request(new, Added(st, new.struct)) BY DEF StartIo
  <1>2. timeout \in BOOLEAN
    <2>1. client \in ClientType BY WorkingIs, NoIod
    <2> QED BY <2>1 DEF ClientType
  <1>3. type # "timer" /\ i # None BY WorkingIs, NoIod DEF IoTypes
  <1>4. new = event_new(type, i, timeout) OBVIOUS
  <1>5. st = new.st \/ (i \in Iods /\ \E sd \in BOOLEAN : st = [new.st EXCEPT !.iod[i].sd = sd])
    <2> HIDE DEF new
    <2>1. CASE type = "connect" BY <2>1
    <2>2. CASE type # "connect" BY <2>2
    <2> QED BY <2>1, <2>2
  <1> HIDE DEF new, st
  <1> QED BY <1>1, <1>2, <1>3, <1>4, <1>5, AddedWorks

\* nsock_timer_create().
LEMMA TimerWorks ==
    ASSUME Working, nsock_timer_create
    PROVE  Works
  <1> DEFINE new == event_new("timer", None, TRUE)
             st == new.st
  <1>1. MayCall /\ Request(new, Added(st, new.struct)) BY DEF nsock_timer_create
  <1>2. PICK type \in IoTypes \cup {"timer"}, i \in Iods \cup {None}, timeout \in BOOLEAN :
           type = "timer" /\ i = None /\ timeout = TRUE
    OBVIOUS
  <1>3. new = event_new(type, i, timeout) BY <1>2
  <1>4. st = new.st OBVIOUS
  <1> HIDE DEF new, st
  <1> QED BY <1>1, <1>2, <1>3, <1>4, AddedWorks

\* A connect that fails at once.
LEMMA ConnectFailsWorks ==
    ASSUME Working, NEW i \in Iods, NEW sd \in BOOLEAN, ConnectFails(i, sd)
    PROVE  Works
  <1> DEFINE u == View
             new == event_new("connect", i, FALSE)
             s == new.struct
             st == [new.st EXCEPT !.iod[i].sd = sd]
             e == Requested("connect", i, FALSE)
             b == IF new.fresh THEN allocated + 1 ELSE allocated
             x == Failed(st, s)
  <1>1. MayCall /\ Request(new, x) BY DEF ConnectFails, Failed
  <1>2. /\ Good(u, serials, allocated) /\ client \in Clients /\ serials < MaxEvents
        /\ allocated <= serials /\ serials \in Nat /\ allocated \in Nat /\ u \in Views
    BY <1>1, WorkingIs DEF Working, Request
  <1>3. b = IF new.fresh THEN allocated + 1 ELSE allocated OBVIOUS
  <1>4. new = event_new("connect", i, FALSE) OBVIOUS
  <1> HIDE DEF new
  <1>5. /\ serials' = serials + 1 /\ allocated' = b /\ Commit(x)
        /\ phase' = phase /\ todo' = todo /\ fatal' = fatal
    BY <1>1 DEF Request
  <1> HIDE DEF b
  <1>6. /\ NewTo(u, new.st, s, e) /\ s <= b /\ b \in Nat /\ allocated <= b /\ b <= serials + 1
        /\ e \in Event
    <2>1. PICK type \in IoTypes \cup {"timer"}, j \in Iods \cup {None}, timeout \in BOOLEAN :
             type = "connect" /\ j = i /\ timeout = FALSE
      BY DEF IoTypes
    <2>2. new = event_new(type, j, timeout) /\ e = Requested(type, j, timeout) BY <2>1, <1>4
    <2> HIDE DEF e
    <2> QED BY <2>2, <1>2, <1>3, NewIs
  <1>7. e.id = serials + 1 /\ e.type = "connect" /\ e.iod = i BY DEF Requested
  <1>8. x = Failed(st, s) /\ st = [new.st EXCEPT !.iod[i].sd = sd] OBVIOUS
  <1> HIDE DEF u, s, e, x, st
  <1>9. NewTo(u, st, s, e) BY <1>2, <1>6, <1>8, NewSocket
  <1>10. /\ st \in Views /\ st.ev[s] = e /\ s \in Structs
         /\ st.outcome = [u.outcome EXCEPT ![serials + 1] = "pending"]
    BY <1>9 DEF NewTo
  <1>11. NewTo(u, st, s, st.ev[s]) BY <1>9, <1>10
  <1>12. st.ev[s].id = serials + 1 /\ st.ev[s].type \in IoTypes /\ st.ev[s].iod \in Iods
    BY <1>7, <1>10 DEF IoTypes
  <1>13. ~(Len(u.stack) = 1 /\ u.stack[1].kind = "iod") BY <1>1, CallerIs DEF u
  <1>14. serials + 1 \in Ids BY <1>2, WorkingIs DEF Ids
  <1>15. Good(x, serials + 1, b) /\ Delivers(u, x) /\ (Walking(x) => Walking(u))
    <2>1. x = Failed(st, s) BY <1>8
    <2>2. Good(u, serials, allocated) /\ client \in Clients BY <1>2
    <2>3. s \in Structs /\ b \in Nat /\ allocated <= b /\ s <= b BY <1>6, <1>10
    <2>4. st.outcome = [u.outcome EXCEPT ![serials + 1] = "pending"] BY <1>10
    <2> QED BY <2>1, <2>2, <2>3, <2>4, <1>11, <1>12, <1>13, <1>14, FailGood
  <1> QED BY <1>2, <1>5, <1>6, <1>15, RequestWorks DEF u

\* nsock_event_cancel().
LEMMA CancelWorks ==
    ASSUME Working, NEW id \in Ids, NEW notify \in BOOLEAN, nsock_event_cancel(id, notify)
    PROVE  Works
  <1>1. MayCall /\ UNCHANGED <<serials, allocated, phase, todo, stale, fatal>> BY DEF nsock_event_cancel
  <1>2. PICK s \in Found(id) : ~ev[s].done /\ Commit(nevent_delete(View, s, notify))
    BY DEF nsock_event_cancel
  <1>3. s \in Structs BY DEF Found
  <1>4. ~View.ev[s].done /\ Events(View, serials, allocated) BY <1>2, ViewFields, WorkingIs
  <1>5. Live(View, s) BY <1>3, <1>4 DEF Events
  <1> DEFINE u == View
             v == nevent_delete(View, s, notify)
  <1>6. Good(u, serials, allocated) /\ client \in Clients BY WorkingIs DEF Working
  <1>7. Good(v, serials, allocated) /\ Delivers(u, v) /\ (Walking(v) => Walking(u))
    <2> HIDE DEF u
    <2>1. v = nevent_delete(u, s, notify) BY DEF u
    <2> HIDE DEF v
    <2>2. ~(Len(u.stack) = 1 /\ u.stack[1].kind = "iod") BY <1>1, CallerIs DEF u
    <2>3. Live(u, s) BY <1>5 DEF u
    <2> QED BY <2>1, <2>2, <2>3, <1>3, <1>6, CancelGood
  <1> HIDE DEF u, v
  <1> QED BY <1>1, <1>2, <1>7, WorksIs DEF u, v

\* What nsock_iod_delete() leaves of an iod.
LEMMA DeletedIs ==
    ASSUME NEW u, NEW n, NEW a, Good(u, n, a), NEW i \in Iods
    PROVE  /\ Good(Deleted(u, i), n, a) /\ Delivers(u, Deleted(u, i))
           /\ Deleted(u, i).stack = u.stack
  <1> DEFINE r == [u.iod[i] EXCEPT !.state = "deleted", !.sd = FALSE, !.ssl = FALSE,
                      !.registered = FALSE, !.count = [b \in Bits |-> 0], !.watched = {}]
             d == [u.iod EXCEPT ![i] = r]
             v == [u EXCEPT !.iod = d]
  <1>1. Deleted(u, i) = v BY Zenon DEF Deleted
  <1>2. r \in IodShape /\ r.first = u.iod[i].first
    <2>1. u.iod[i] \in IodShape BY IodIs DEF Good
    <2>2. [b \in Bits |-> 0] \in [Bits -> Int] OBVIOUS
    <2> QED BY <2>1, <2>2 DEF IodShape
  <1> HIDE DEF r
  <1>3. Good(v, n, a) /\ Delivers(u, v) BY <1>2, IodGood
  <1>4. v.stack = u.stack
    <2> HIDE DEF d
    <2> QED BY DEF Good, Views
  <1> QED BY <1>1, <1>3, <1>4

\* nsock_iod_delete() begins.
LEMMA IodDeleteWorks ==
    ASSUME Working, NEW i \in Iods, NEW notify \in BOOLEAN, nsock_iod_delete(i, notify)
    PROVE  Works
  <1> DEFINE u == View
             f == [kind |-> "delete", iod |-> i, notify |-> notify, at |-> 1,
                   heads |-> [k \in 1..3 |-> iod[i].first[ListOrder[k]]],
                   cur |-> iod[i].first["connect"]]
             v == IF iod[i].pending = 0 THEN Deleted(u, i) ELSE Push(u, f)
  <1>1. MayCall /\ Commit(v) /\ UNCHANGED <<serials, allocated, phase, todo, stale, fatal>>
    BY DEF nsock_iod_delete
  <1>2. Good(u, serials, allocated) /\ u \in Views BY WorkingIs DEF Working
  <1>3. f \in Frame /\ f.kind = "delete"
    <2>1. iod[i].first \in [IoTypes -> Structs \cup {None}] BY <1>2, IodIs, ViewFields
    <2>2. \A k \in 1..3 : ListOrder[k] \in IoTypes BY DEF ListOrder, IoTypes
    <2>3. [k \in 1..3 |-> iod[i].first[ListOrder[k]]] \in [1..3 -> Structs \cup {None}] BY <2>1, <2>2
    <2>4. iod[i].first["connect"] \in Structs \cup {None} BY <2>1 DEF IoTypes
    <2>5. 1 \in 1..3 OBVIOUS
    <2> DEFINE h == [k \in 1..3 |-> iod[i].first[ListOrder[k]]]
               c == iod[i].first["connect"]
    <2> HIDE DEF h, c
    <2>6. h \in [1..3 -> Structs \cup {None}] /\ c \in Structs \cup {None} BY <2>3, <2>4 DEF h, c
    <2>7. [kind |-> "delete", iod |-> i, notify |-> notify, at |-> 1, heads |-> h, cur |-> c] \in DeleteFrame
      BY <2>5, <2>6 DEF DeleteFrame
    <2> QED BY <2>7 DEF h, c, Frame
  <1>4. ~(Len(u.stack) = 1 /\ u.stack[1].kind = "iod") BY <1>1, CallerIs
  <1> HIDE DEF f
  <1>5. CASE iod[i].pending = 0
    <2>1. Commit(Deleted(u, i)) BY <1>1, <1>5
    <2> HIDE DEF u, v
    <2>2. /\ Good(Deleted(u, i), serials, allocated) /\ Delivers(u, Deleted(u, i))
          /\ Deleted(u, i).stack = u.stack
      BY <1>2, DeletedIs
    <2>3. Walking(Deleted(u, i)) => Walking(u) BY <2>2 DEF Walking
    <2> QED BY <2>1, <2>2, <2>3, <1>1, WorksIs DEF u
  <1>6. CASE iod[i].pending # 0
    <2>1. Commit(Push(u, f)) BY <1>1, <1>6
    <2> HIDE DEF u, v
    <2>2. Good(Push(u, f), serials, allocated) /\ Delivers(u, Push(u, f)) BY <1>2, <1>3, <1>4, PushGood
    <2>3. Walking(Push(u, f)) => Walking(u)
      <3>1. Push(u, f).stack = Append(u.stack, f) BY <1>2 DEF Push, Views
      <3>2. Push(u, f) \in Views BY <2>2 DEF Good
      <3>3. f.kind # "iod" BY <1>3
      <3> HIDE DEF Push
      <3> QED BY <3>1, <3>2, <3>3, <1>2, <1>3, WalkingIs
    <2> QED BY <2>1, <2>2, <2>3, <1>1, WorksIs DEF u
  <1> QED BY <1>5, <1>6

\* Replacing the innermost call of nsock_iod_delete().
LEMMA DeleteTop ==
    ASSUME Working, stack # <<>>, Top(View).kind = "delete", NEW g \in DeleteFrame
    PROVE  /\ Good(SetTop(View, g), serials, allocated)
           /\ SetTop(View, g) = [View EXCEPT !.stack = Append(Front(View.stack), g)]
           /\ SetTop(View, g).stack = Append(Front(View.stack), g)
           /\ Delivers(View, SetTop(View, g)) /\ (Walking(SetTop(View, g)) => Walking(View))
           /\ ~(Len(SetTop(View, g).stack) = 1 /\ SetTop(View, g).stack[1].kind = "iod")
  <1> DEFINE u == View
  <1>1. Good(u, serials, allocated) /\ u \in Views /\ u.stack # <<>> BY ViewFields, WorkingIs DEF Working
  <1>2. u.stack[Len(u.stack)].kind = "delete" BY DEF Top
  <1>3. g \in Frame /\ g.kind = "delete" BY DEF Frame, DeleteFrame
  <1> HIDE DEF u
  <1> DEFINE w == SetTop(u, g)
  <1>4. Good(w, serials, allocated) /\ Delivers(u, w) /\ w.stack = Append(Front(u.stack), g)
        /\ w = [u EXCEPT !.stack = Append(Front(u.stack), g)]
    BY <1>1, <1>2, <1>3, SetTopGood
  <1> HIDE DEF w
  <1>5. w \in Views BY <1>4 DEF Good
  <1>6. Walking(w) => Walking(u)
    <2>1. g.kind # "iod" BY <1>3
    <2> QED BY <2>1, <1>1, <1>3, <1>4, <1>5, WalkingIs
  <1>7. ~(Len(w.stack) = 1 /\ w.stack[1].kind = "iod")
    <2>1. Len(w.stack) = Len(u.stack) /\ w.stack[Len(u.stack)] = g
      <3>1. u.stack \in Seq(Frame) BY <1>1, ViewIs
      <3> QED BY <3>1, <1>1, <1>3, <1>4, SwapIs
    <2>2. SUFFICES ASSUME Len(w.stack) = 1, w.stack[1].kind = "iod" PROVE FALSE OBVIOUS
    <2> QED BY <2>1, <2>2, <1>3
  <1> QED BY <1>4, <1>6, <1>7 DEF u, w

\* nsock_iod_delete() ends an event of the iod.
LEMMA DeleteStepWorks ==
    ASSUME Working, DeleteStep
    PROVE  Works
  <1> DEFINE u == View
             f == Top(View)
             g == [f EXCEPT !.cur = NextOf(View, f.cur)]
             w == SetTop(View, g)
             v == nevent_delete(w, f.cur, f.notify)
  <1>1. /\ stack # <<>> /\ f.kind = "delete" /\ ~OthersBegin(f) /\ Commit(v)
        /\ UNCHANGED <<serials, allocated, phase, todo, stale, fatal>>
    BY DEF DeleteStep
  <1>2. f \in DeleteFrame BY <1>1, TopIs
  <1>3. g \in DeleteFrame
    <2>1. NextOf(View, f.cur) \in Structs \cup {None} BY NextAny, WorkingIs
    <2> HIDE DEF f
    <2> QED BY <2>1, <1>2 DEF DeleteFrame
  <1>4. f.cur \in Structs /\ f.notify \in BOOLEAN
    <2> HIDE DEF f
    <2>1. f.cur # None BY <1>1 DEF OthersBegin
    <2>2. f.cur \in Structs \cup {None} /\ f.notify \in BOOLEAN BY <1>2 DEF DeleteFrame
    <2> QED BY <2>1, <2>2
  <1> HIDE DEF f, g
  <1>5. /\ Good(w, serials, allocated) /\ Delivers(u, w) /\ (Walking(w) => Walking(u))
        /\ ~(Len(w.stack) = 1 /\ w.stack[1].kind = "iod")
        /\ w = [u EXCEPT !.stack = Append(Front(u.stack), g)]
    BY <1>1, <1>3, DeleteTop DEF f
  <1>6. v = nevent_delete(w, f.cur, f.notify) OBVIOUS
  <1>7. w.outcome = u.outcome /\ w.events_pending = u.events_pending
    <2> HIDE DEF w, u
    <2>1. u \in Views BY WorkingIs DEF u
    <2> QED BY <2>1, <1>5 DEF Views
  <1> HIDE DEF v, w, u
  <1>8. Good(v, serials, allocated) /\ Delivers(w, v) /\ (Walking(v) => Walking(w))
    <2>1. ~w.ev[f.cur].done => Live(w, f.cur) BY <1>4, <1>5 DEF Good, Events
    <2>2. client \in Clients BY WorkingIs
    <2> QED BY <2>1, <2>2, <1>4, <1>5, <1>6, CancelGood
  <1>9. Delivers(u, v) BY <1>7, <1>8, DeliversFrom
  <1> QED BY <1>1, <1>5, <1>8, <1>9, WorksIs DEF u

\* nsock_iod_delete() goes to the next list.
LEMMA DeleteNextListWorks ==
    ASSUME Working, DeleteNextList
    PROVE  Works
  <1> DEFINE u == View
             f == Top(View)
             g == [f EXCEPT !.at = f.at + 1, !.cur = f.heads[f.at + 1]]
  <1>1. /\ stack # <<>> /\ f.kind = "delete" /\ f.at < 3 /\ Commit(SetTop(View, g))
        /\ UNCHANGED <<serials, allocated, phase, todo, stale, fatal>>
    BY DEF DeleteNextList
  <1>2. f \in DeleteFrame BY <1>1, TopIs
  <1>3. g \in DeleteFrame
    <2> HIDE DEF f
    <2>1. f.at + 1 \in 1..3 /\ f.heads[f.at + 1] \in Structs \cup {None} BY <1>1, <1>2 DEF DeleteFrame
    <2> DEFINE k == f.at + 1
               c == f.heads[f.at + 1]
    <2>2. k \in 1..3 /\ c \in Structs \cup {None} BY <2>1
    <2>3. g = [f EXCEPT !.at = k, !.cur = c] OBVIOUS
    <2> HIDE DEF k, c, g
    <2> QED BY <2>2, <2>3, <1>2 DEF DeleteFrame
  <1> HIDE DEF f, g
  <1>4. /\ Good(SetTop(u, g), serials, allocated) /\ Delivers(u, SetTop(u, g))
        /\ Walking(SetTop(u, g)) => Walking(u)
    BY <1>1, <1>3, DeleteTop DEF f
  <1> QED BY <1>1, <1>4, WorksIs

\* nsock_iod_delete() returns or ends the program.
LEMMA DeleteEndWorks ==
    ASSUME Working, DeleteEnd
    PROVE  Works
  <1> DEFINE u == View
             f == Top(View)
             w == Pop(View)
             v == Deleted(w, f.iod)
  <1>1. /\ stack # <<>> /\ f.kind = "delete" /\ fatal' \in BOOLEAN
        /\ fatal' => Commit(View)
        /\ ~fatal' => Commit(v)
        /\ UNCHANGED <<serials, allocated, phase, todo, stale>>
    BY DEF DeleteEnd
  <1>2. f.iod \in Iods
    <2>1. f \in DeleteFrame BY <1>1, TopIs
    <2> QED BY <2>1 DEF DeleteFrame
  <1>3. Good(u, serials, allocated) /\ u.stack # <<>> /\ u \in Views BY <1>1, ViewFields, WorkingIs DEF Working
  <1>4. u.stack[Len(u.stack)].kind = "delete" BY <1>1 DEF Top
  <1>5. CASE fatal'
    <2>1. Commit(u) BY <1>1, <1>5
    <2> HIDE DEF u
    <2>2. Delivers(u, u) BY DEF Delivers
    <2> QED BY <2>1, <2>2, <1>1, <1>3, WorkingIs, WorksFatal DEF u
  <1>6. CASE ~fatal'
    <2>1. Commit(v) BY <1>1, <1>6
    <2> HIDE DEF f, u
    <2>2. Good(w, serials, allocated) /\ Delivers(u, w) /\ w = [u EXCEPT !.stack = Front(u.stack)]
      BY <1>3, <1>4, PopGood DEF u
    <2>3. w.stack = Front(u.stack) /\ w.outcome = u.outcome /\ w.events_pending = u.events_pending
      <3> HIDE DEF w
      <3> QED BY <2>2, <1>3 DEF Views
    <2> HIDE DEF w
    <2>4. Good(v, serials, allocated) /\ Delivers(w, v) /\ v.stack = w.stack BY <2>2, <1>2, DeletedIs
    <2> HIDE DEF v
    <2>5. Delivers(u, v) BY <2>3, <2>4, DeliversFrom
    <2>6. Walking(v) => Walking(u)
      <3>1. f \in Frame /\ f.kind # "iod" BY <1>1, TopIs DEF f
      <3>2. v \in Views /\ v.stack = Front(u.stack) BY <2>3, <2>4 DEF Good
      <3> QED BY <3>1, <3>2, <1>3, WalkingIs
    <2> QED BY <2>1, <2>4, <2>5, <2>6, <1>1, WorkingIs, WorksFatal DEF u
  <1> QED BY <1>5, <1>6

\* A handler returns, and its event is deleted.
LEMMA HandlerReturnsWorks ==
    ASSUME Working, HandlerReturns
    PROVE  Works
  <1> DEFINE u == View
             h == Top(View)
             v == Finish(Pop(u), h.ev, h.from)
  <1>1. /\ stack # <<>> /\ h.kind = "handler" /\ Commit(v)
        /\ UNCHANGED <<serials, allocated, phase, todo, stale, fatal>>
    BY DEF HandlerReturns, InHandler
  <1>2. /\ Good(u, serials, allocated) /\ u.stack # <<>> /\ u \in Views /\ client \in Clients
        /\ h = u.stack[Len(u.stack)]
    BY <1>1, ViewFields, WorkingIs DEF Working, Top
  <1>3. h \in Frame /\ Len(u.stack) \in DOMAIN u.stack BY <1>1, TopIs
  <1>4. v = Finish(Pop(u), h.ev, h.from) OBVIOUS
  <1> HIDE DEF u, h, v
  <1>5. CASE h.from = "cancel"
    <2>1. Good(v, serials, allocated) /\ Delivers(u, v) /\ v.stack = Front(u.stack)
      BY <1>1, <1>2, <1>4, <1>5, ReturnCancel
    <2>2. Walking(v) => Walking(u)
      <3>1. v \in Views BY <2>1 DEF Good
      <3> QED BY <3>1, <2>1, <1>1, <1>2, <1>3, WalkingIs
    <2> QED BY <2>1, <2>2, <1>1, WorksIs DEF u
  <1>6. CASE h.from # "cancel"
    <2>1. /\ Good(v, serials, allocated) /\ Delivers(u, v)
          /\ h.from # "iod" => v.stack = Front(u.stack)
      BY <1>1, <1>2, <1>4, <1>6, ReturnListed
    <2>2. Walking(v) => Walking(u)
      <3>1. CASE h.from = "iod"
        <4>1. u.stack[1].kind = "iod" /\ Len(u.stack) = 2
          <5>1. Holds(u, Len(u.stack)) /\ u.stack[Len(u.stack)].from = "iod"
            BY <1>1, <1>2, <3>1 DEF Holds
          <5>2. Len(u.stack) = 2 /\ u.stack[1].kind = "iod" BY <5>1, <1>2, <1>3 DEF Good, Frames
          <5> QED BY <5>2
        <4>2. 1 \in DOMAIN u.stack BY <4>1, <1>2, StackIs
        <4> QED BY <4>1, <4>2 DEF Walking
      <3>2. CASE h.from # "iod"
        <4>1. v \in Views BY <2>1 DEF Good
        <4> QED BY <4>1, <2>1, <3>2, <1>1, <1>2, <1>3, WalkingIs
      <3> QED BY <3>1, <3>2
    <2> QED BY <2>1, <2>2, <1>1, WorksIs DEF u
  <1> QED BY <1>5, <1>6

\* Steps of the loop that leave the library's state alone.
LEMMA SameWorks ==
    ASSUME Working, UNCHANGED <<ev, list, expirables, iod, events_pending, outcome, stack, serials,
                                allocated, fatal>>,
           phase' \in {"client", "iods", "expired"}, todo' \subseteq Iods, Walking(View) => phase' = "iods"
    PROVE  Works
  <1>1. View' = View BY DEF View
  <1>2. Delivers(View, View) BY DEF Delivers
  <1> QED BY <1>1, <1>2, WorkingIs DEF Works, Working

\* Nothing is under way.
LEMMA EmptyWalk ==
    ASSUME stack = <<>> PROVE ~Walking(View)
  <1>1. DOMAIN stack = {} OBVIOUS
  <1> QED BY <1>1, ViewFields DEF Walking

\* nsock_loop() goes on.
LEMMA LoopWorks ==
    ASSUME Working, LoopRound \/ IodsDone \/ RoundEnds
    PROVE  Works
  <1>1. CASE LoopRound
    <2>1. todo' \subseteq Iods /\ phase' = "iods" BY <1>1 DEF LoopRound, Visited
    <2> QED BY <1>1, <2>1, SameWorks DEF LoopRound
  <1>2. CASE IodsDone
    <2>1. todo' \subseteq Iods BY <1>2, WorkingIs DEF IodsDone
    <2> QED BY <1>2, <2>1, EmptyWalk, SameWorks DEF IodsDone
  <1>3. CASE RoundEnds
    <2>1. todo' \subseteq Iods BY <1>3, WorkingIs DEF RoundEnds
    <2> QED BY <1>3, <2>1, EmptyWalk, SameWorks DEF RoundEnds
  <1> QED BY <1>1, <1>2, <1>3

\* The frame of process_iod_events() at the start of a list.
LEMMA ProcFrameIs ==
    ASSUME Working, NEW i \in Iods, NEW k \in 1..3, NEW bits \in SUBSET (Bits \cup {"x"})
    PROVE  /\ ProcFrame(View, i, k, bits) \in IodFrame /\ ProcFrame(View, i, k, bits).kind = "iod"
           /\ CurIs(View, ProcFrame(View, i, k, bits).cur)
  <1> DEFINE t == ListOrder[k]
             c == View.iod[i].first[t]
             l == LastOf(View.list[t])
  <1>1. t \in IoTypes BY DEF ListOrder, IoTypes
  <1> HIDE DEF t
  <1>2. View \in Views /\ Firsts(View) BY WorkingIs
  <1>3. c \in Structs \cup {None} BY <1>1, <1>2, IodIs
  <1>4. CurIs(View, c)
    <2>1. FirstIs(View.ev, View.list[t], i, c) BY <1>1, <1>2 DEF Firsts
    <2>2. c = None \/ c \in ToSet(View.list[t])
      <3> HIDE DEF c
      <3> QED BY <2>1 DEF FirstIs, ToSet
    <2> QED BY <2>2, <1>1 DEF CurIs
  <1>5. l \in Structs \cup {None}
    <2> DEFINE q == View.list[t]
    <2>1. q \in Seq(Structs) BY <1>1, <1>2, ViewIs
    <2> HIDE DEF q
    <2>2. CASE q = <<>> BY <2>2 DEF LastOf, q
    <2>3. CASE q # <<>>
      <3>1. Len(q) \in 1..Len(q) BY <2>1, <2>3, SeqIs
      <3>2. q[Len(q)] \in Structs BY <3>1, <2>1, SeqIs
      <3> QED BY <2>3, <3>2 DEF LastOf, Last, q
    <2> QED BY <2>2, <2>3
  <1>6. ProcFrame(View, i, k, bits) = [kind |-> "iod", iod |-> i, at |-> k, bits |-> bits, cur |-> c, last |-> l]
    BY DEF ProcFrame, t
  <1> HIDE DEF c, l
  <1>7. [kind |-> "iod", iod |-> i, at |-> k, bits |-> bits, cur |-> c, last |-> l] \in IodFrame
    BY <1>3, <1>5 DEF IodFrame
  <1> QED BY <1>4, <1>6, <1>7

\* The engine reports an iod.
LEMMA VisitIodWorks ==
    ASSUME Working, NEW i \in Iods, NEW bits \in (SUBSET Bits) \cup {{"x"}}, VisitIod(i, bits)
    PROVE  Works
  <1> DEFINE u == View
             f == ProcFrame(View, i, 1, bits)
             v == Push(u, f)
  <1>1. /\ phase = "iods" /\ stack = <<>> /\ Commit(v) /\ todo' = todo \ {i}
        /\ UNCHANGED <<serials, allocated, phase, stale, fatal>>
    BY DEF VisitIod
  <1>2. Good(u, serials, allocated) /\ u.stack = <<>> BY <1>1, ViewFields DEF Working
  <1>3. f \in IodFrame /\ f.kind = "iod" /\ CurIs(u, f.cur)
    <2>1. bits \in SUBSET (Bits \cup {"x"}) /\ 1 \in 1..3 OBVIOUS
    <2> QED BY <2>1, ProcFrameIs
  <1>4. f \in Frame BY <1>3 DEF Frame
  <1> HIDE DEF f, u
  <1>5. Good(v, serials, allocated) /\ Delivers(u, v)
    <2>1. ~(Len(u.stack) = 1 /\ u.stack[1].kind = "iod")
      <3>1. Len(u.stack) = 0 BY <1>2
      <3> QED BY <3>1
    <2> QED BY <2>1, <1>2, <1>3, <1>4, PushGood
  <1> HIDE DEF v
  <1>6. View' = v BY <1>1, <1>5, CommitIs DEF Good
  <1>7. todo' \subseteq Iods BY <1>1, WorkingIs
  <1> QED BY <1>1, <1>5, <1>6, <1>7, WorkingIs DEF Works, u

\* The event at which process_iod_events() is.
LEMMA WalkAt ==
    ASSUME Working, InProc, ~OthersBegin(Top(View)), NEW s, s = Top(View).cur
    PROVE  /\ s \in Structs /\ Live(View, s) /\ \E t \in IoTypes : s \in ToSet(View.list[t])
           /\ Len(View.stack) = 1 /\ View.stack[1] = Top(View) /\ View.stack[1].cur = s
           /\ View.stack[1].kind = "iod"
  <1> DEFINE u == View
             f == Top(View)
  <1>1. /\ stack # <<>> /\ f.kind = "iod" BY DEF InProc
  <1>2. f \in IodFrame /\ Len(u.stack) = 1 /\ u.stack[1] = f BY <1>1, TopIs
  <1>3. s # None /\ s \in Structs \cup {None}
    <2> HIDE DEF f
    <2>1. f.cur # None BY DEF OthersBegin, f
    <2>2. f.cur \in Structs \cup {None} BY <1>2 DEF IodFrame
    <2> QED BY <2>1, <2>2 DEF f
  <1>4. u \in Views /\ Lists(u) /\ Frames(u, allocated) BY WorkingIs
  <1> HIDE DEF u, f
  <1>5. CurIs(u, s)
    <2>1. s = f.cur BY DEF f
    <2> QED BY <2>1, <1>1, <1>2, <1>4 DEF Frames
  <1>6. PICK t \in IoTypes : s \in ToSet(u.list[t]) BY <1>3, <1>5 DEF CurIs
  <1>7. u.ev[s].type = t /\ t # "timer" BY <1>4, <1>6, ListedIs
  <1>8. Kept(u, s) BY <1>6, <1>7 DEF Kept
  <1>9. ~Held(u, s)
    <2>1. DOMAIN u.stack = 1..1 BY <1>2, <1>4, StackIs
    <2>2. \A k \in DOMAIN u.stack : u.stack[k] = f BY <2>1, <1>2
    <2> QED BY <2>2, <1>1 DEF Held, Holds
  <1>10. Live(u, s) BY <1>8, <1>9 DEF Live
  <1>11. s = f.cur BY DEF f
  <1> QED BY <1>1, <1>2, <1>3, <1>6, <1>10, <1>11 DEF u, f

\* process_iod_events() looks at an event.
LEMMA ProcessOneWorks ==
    ASSUME Working, NEW late \in BOOLEAN, ProcessOne(late)
    PROVE  Works
  <1> DEFINE u == View
             f == Top(View)
             s == f.cur
  <1>1. /\ InProc /\ ~OthersBegin(f)
        /\ UNCHANGED <<serials, allocated, phase, todo, stale, fatal>>
    BY DEF ProcessOne, ListEnds
  <1>2. PICK st \in process_event(View, s, f.bits, late) :
           Commit(IF st.ev[s].done THEN event_dispatch_and_delete(st, s, TRUE, "iod")
                  ELSE SetTop(st, [f EXCEPT !.cur = NextOf(st, s)]))
    BY DEF ProcessOne
  <1>3. /\ s \in Structs /\ Live(u, s) /\ (\E t \in IoTypes : s \in ToSet(u.list[t]))
        /\ Len(u.stack) = 1 /\ u.stack[1] = f /\ u.stack[1].cur = s /\ u.stack[1].kind = "iod"
    BY <1>1, WalkAt
  <1>4. Good(u, serials, allocated) /\ client \in Clients /\ u \in Views /\ Lists(u)
    BY WorkingIs DEF Working
  <1>5. PICK bits : st \in process_event(u, s, bits, late)
    BY <1>2
  <1>6. f \in IodFrame
    <2>1. stack # <<>> /\ f.kind = "iod" BY <1>1 DEF InProc
    <2> QED BY <2>1, TopIs
  <1>7. Walking(u)
    <2>1. 1 \in DOMAIN u.stack BY <1>3, <1>4, StackIs
    <2> QED BY <2>1, <1>3 DEF Walking
  <1>8. phase = "iods" BY <1>7, WorkingIs
  <1> HIDE DEF u, f, s
  <1>9. PICK t \in IoTypes : s \in ToSet(u.list[t]) BY <1>3
  <1>10. u.ev[s].type = t /\ t # "timer" /\ HasIod(u, s)
    <2>1. u.ev[s].type = t /\ t # "timer" /\ u.ev[s].iod \in Iods BY <1>4, <1>9, ListedIs
    <2> QED BY <2>1 DEF HasIod
  <1>11. Touch(u, st, s) BY <1>3, <1>4, <1>5, <1>10, ProcessIs
  <1>12. Good(st, serials, allocated) /\ Delivers(u, st) /\ Live(st, s)
    BY <1>3, <1>4, <1>11, TouchGood
  <1>13. /\ st.list = u.list /\ st.stack = u.stack /\ st.outcome = u.outcome
         /\ st.events_pending = u.events_pending /\ st.ev[s].type = u.ev[s].type
    BY <1>11 DEF Touch
  <1>14. CASE st.ev[s].done
    <2> DEFINE v == event_dispatch_and_delete(st, s, TRUE, "iod")
    <2>1. Commit(v) BY <1>2, <1>14 DEF s
    <2>2. Good(v, serials, allocated) /\ Delivers(st, v)
      BY <1>3, <1>4, <1>10, <1>12, <1>13, <1>14, WalkEnds
    <2> HIDE DEF v
    <2>3. Delivers(u, v) BY <2>2, <1>13, DeliversFrom
    <2> QED BY <2>1, <2>2, <2>3, <1>1, <1>7, WorksIs DEF u
  <1>15. CASE ~st.ev[s].done
    <2> DEFINE g == [f EXCEPT !.cur = NextOf(st, s)]
               v == SetTop(st, g)
    <2>1. Commit(v) BY <1>2, <1>15 DEF f, s
    <2>2. NextOf(st, s) \in Structs \cup {None} /\ CurIs(st, NextOf(st, s))
      <3>1. st \in Views /\ Lists(st) /\ s \in ToSet(st.list[t]) BY <1>9, <1>12, <1>13 DEF Good
      <3>2. /\ NextOf(st, s) \in Structs \cup {None}
            /\ NextOf(st, s) # None => NextOf(st, s) \in ToSet(st.list[t])
        BY <3>1, NextIs
      <3> QED BY <3>2 DEF CurIs
    <2>3. g \in Frame /\ g.kind = "iod" /\ CurIs(st, g.cur)
      <3> DEFINE c == NextOf(st, s)
      <3>1. c \in Structs \cup {None} /\ CurIs(st, c) BY <2>2
      <3> HIDE DEF c
      <3>2. g = [f EXCEPT !.cur = c] BY DEF c
      <3> HIDE DEF g
      <3>3. g \in IodFrame /\ g.kind = "iod" /\ g.cur = c BY <3>1, <3>2, <1>6 DEF IodFrame
      <3> QED BY <3>1, <3>3 DEF Frame
    <2> HIDE DEF g
    <2>4. Good(v, serials, allocated) /\ Delivers(st, v)
      <3>1. st.stack # <<>> /\ st.stack[Len(st.stack)].kind = "iod"
        <4>1. st.stack # <<>> BY <1>3, <1>12, <1>13, StackIs DEF Good
        <4> QED BY <4>1, <1>3, <1>13
      <3> QED BY <3>1, <2>3, <1>12, SetTopGood
    <2> HIDE DEF v
    <2>5. Delivers(u, v) BY <2>4, <1>13, DeliversFrom
    <2> QED BY <2>1, <2>4, <2>5, <1>1, <1>7, WorksIs DEF u
  <1> QED BY <1>14, <1>15

\* process_iod_events() goes to the next list.
LEMMA NextListWorks ==
    ASSUME Working, NextList
    PROVE  Works
  <1> DEFINE u == View
             f == Top(View)
             g == ProcFrame(View, f.iod, f.at + 1, f.bits)
             v == SetTop(u, g)
  <1>1. /\ stack # <<>> /\ f.kind = "iod" /\ f.at < 3 /\ Commit(v)
        /\ UNCHANGED <<serials, allocated, phase, todo, stale, fatal>>
    BY DEF NextList, InProc
  <1>2. f \in IodFrame /\ Len(u.stack) = 1 /\ u.stack[1] = f /\ u.stack # <<>> BY <1>1, TopIs
  <1>3. g \in IodFrame /\ g.kind = "iod" /\ CurIs(u, g.cur)
    <2> HIDE DEF f
    <2>1. f.iod \in Iods /\ f.at + 1 \in 1..3 /\ f.bits \in SUBSET (Bits \cup {"x"})
      BY <1>1, <1>2 DEF IodFrame
    <2> QED BY <2>1, ProcFrameIs
  <1>4. Good(u, serials, allocated) /\ u \in Views BY WorkingIs DEF Working
  <1>5. Walking(u)
    <2>1. 1 \in DOMAIN u.stack BY <1>2, <1>4, StackIs
    <2> QED BY <2>1, <1>1, <1>2 DEF Walking
  <1> HIDE DEF g, u, f
  <1>6. Good(v, serials, allocated) /\ Delivers(u, v)
    <2>1. g \in Frame /\ g.kind = u.stack[Len(u.stack)].kind /\ g.kind # "handler"
      BY <1>1, <1>2, <1>3 DEF Frame
    <2> QED BY <2>1, <1>2, <1>3, <1>4, SetTopGood
  <1> HIDE DEF v
  <1> QED BY <1>1, <1>5, <1>6, WorksIs DEF u

\* process_iod_events() returns.
LEMMA VisitEndsWorks ==
    ASSUME Working, VisitEnds
    PROVE  Works
  <1> DEFINE u == View
             f == Top(View)
             i == f.iod
             w == Pop(View)
             r == [w.iod[i] EXCEPT !.state = IF w.iod[i].state = "deleted" THEN "free" ELSE w.iod[i].state]
             v == [w EXCEPT !.iod = [w.iod EXCEPT ![i] = r]]
  <1>1. /\ stack # <<>> /\ f.kind = "iod"
        /\ Commit([w EXCEPT !.iod[i].state = IF @ = "deleted" THEN "free" ELSE @])
        /\ UNCHANGED <<serials, allocated, phase, todo, stale, fatal>>
    BY DEF VisitEnds, InProc
  <1>2. f \in IodFrame /\ Len(u.stack) = 1 /\ u.stack[1] = f /\ u.stack # <<>> BY <1>1, TopIs
  <1>3. i \in Iods
    <2> HIDE DEF f
    <2> QED BY <1>2 DEF IodFrame
  <1>4. Good(u, serials, allocated) /\ u \in Views BY WorkingIs DEF Working
  <1>5. Walking(u)
    <2>1. 1 \in DOMAIN u.stack BY <1>2, <1>4, StackIs
    <2> QED BY <2>1, <1>1, <1>2 DEF Walking
  <1> HIDE DEF u, f, i
  <1>6. Good(w, serials, allocated) /\ Delivers(u, w) /\ w = [u EXCEPT !.stack = Front(u.stack)]
    <2>1. u.stack[Len(u.stack)].kind # "handler" BY <1>1, <1>2
    <2> QED BY <2>1, <1>2, <1>4, PopGood DEF u
  <1>7. w.outcome = u.outcome /\ w.events_pending = u.events_pending
    <2> HIDE DEF w
    <2> QED BY <1>4, <1>6 DEF Views
  <1> HIDE DEF w
  <1>8. [w EXCEPT !.iod[i].state = IF @ = "deleted" THEN "free" ELSE @] = v OBVIOUS
  <1>9. Commit(v) BY <1>1, <1>8
  <1>10. r \in IodShape /\ r.first = w.iod[i].first
    <2>1. w.iod[i] \in IodShape BY <1>3, <1>6, IodIs DEF Good
    <2> DEFINE z == IF w.iod[i].state = "deleted" THEN "free" ELSE w.iod[i].state
    <2>2. z \in {"initial", "deleted", "free"} BY <2>1 DEF IodShape
    <2>3. r = [w.iod[i] EXCEPT !.state = z] OBVIOUS
    <2> HIDE DEF z, r
    <2> QED BY <2>1, <2>2, <2>3 DEF IodShape
  <1> HIDE DEF r
  <1>11. Good(v, serials, allocated) /\ Delivers(w, v) BY <1>3, <1>6, <1>10, IodGood
  <1> HIDE DEF v
  <1>12. Delivers(u, v) BY <1>7, <1>11, DeliversFrom
  <1> QED BY <1>1, <1>5, <1>9, <1>11, <1>12, WorksIs DEF u

\* process_expired_events() takes an event from the heap.
LEMMA ExpireWorks ==
    ASSUME Working, NEW s \in Structs, Expire(s)
    PROVE  Works
  <1> DEFINE u == View
  <1>1. /\ stack = <<>> /\ ~ev[s].done /\ UNCHANGED <<serials, allocated, phase, todo, stale, fatal>>
    BY DEF Expire, MayExpire
  <1>2. PICK st \in process_event(Dropped(u, s), s, {}, TRUE) :
           Commit(event_dispatch_and_delete(st, s, TRUE, "expired"))
    BY DEF Expire, Dropped
  <1>3. Good(u, serials, allocated) /\ client \in Clients /\ u.stack = <<>> /\ Events(u, serials, allocated)
    BY <1>1, ViewFields, WorkingIs DEF Working
  <1>4. Live(u, s)
    <2>1. ~u.ev[s].done BY <1>1, ViewFields
    <2> QED BY <2>1, <1>3 DEF Events
  <1> HIDE DEF u
  <1> DEFINE v == event_dispatch_and_delete(st, s, TRUE, "expired")
  <1>5. Good(v, serials, allocated) /\ Delivers(u, v) /\ (Walking(v) => Walking(u))
    BY <1>2, <1>3, <1>4, ExpireGood
  <1>6. Commit(v) BY <1>2
  <1> HIDE DEF v
  <1> QED BY <1>1, <1>5, <1>6, WorksIs DEF u

-----------------------------------------------------------------------------
(* The library delivers every event exactly once.                           *)

\* The sets that depend on the client do not change.
LEMMA ViewsNext ==
    ASSUME client' = client
    PROVE  Views' = Views /\ Iods' = Iods
  <1>1. Iods' = Iods BY DEF Iods
  <1> QED BY <1>1 DEF Views, Event, Frame, HandlerFrame, IodFrame, DeleteFrame

\* What is said of the next state with this client holds of it with its client.
LEMMA BooksNext ==
    ASSUME client' = client
    PROVE  /\ Lists(View') => Lists(View)'
           /\ Firsts(View') => Firsts(View)'
           /\ Heap(View') => Heap(View)'
           /\ Frames(View', allocated') => Frames(View, allocated)'
           /\ Events(View', serials', allocated') => Events(View, serials, allocated)'
  <1>1. Iods' = Iods BY ViewsNext
  <1>2. Lists(View') => Lists(View)' BY <1>1 DEF Lists
  <1>3. Firsts(View') => Firsts(View)' BY <1>1 DEF Firsts
  <1>4. Heap(View') => Heap(View)' BY DEF Heap
  <1>5. Frames(View', allocated') => Frames(View, allocated)'
    BY DEF Frames, Holds, HeldIs, CurIs
  <1>6. Events(View', serials', allocated') => Events(View, serials, allocated)'
    BY DEF Events, Live, Kept, Held, Holds
  <1> QED BY <1>2, <1>3, <1>4, <1>5, <1>6

\* The events that have not ended, of the state and of its view.
LEMMA PendingIs == PendingIds = PendingOf(View) /\ PendingIds' = PendingOf(View')
  <1>1. View.outcome = outcome /\ View'.outcome = outcome' BY DEF View
  <1> QED BY <1>1 DEF PendingIds, PendingOf

\* While the library is not being deleted, it works.
LEMMA WorkingFrom ==
    ASSUME DeliveryInv, ~Killing
    PROVE  Working
  <1>1. View.events_pending = Cardinality(PendingOf(View)) BY ViewFields, PendingIs DEF DeliveryInv
  <1>2. serials \in Nat /\ allocated \in Nat BY NsockAssumption DEF DeliveryInv, Bookkeeping
  <1> QED BY <1>1, <1>2 DEF DeliveryInv, Working, Good

\* A step while the library works keeps the invariant and is one of the abstract delivery.
LEMMA WorkingNext ==
    ASSUME Working, Works, client' = client
    PROVE  DeliveryInv' /\ [Delivery!Next]_(Delivery!vars)
  <1>1. /\ View' \in Views /\ Lists(View') /\ Firsts(View') /\ Heap(View') /\ Frames(View', allocated')
        /\ Events(View', serials', allocated') /\ View'.events_pending = Cardinality(PendingOf(View'))
    BY DEF Works, Good
  <1>2. ~Killing /\ ~Killing'
    <2>1. ~Killing BY DEF Working
    <2>2. ~Killing' BY DEF Works, Killing
    <2> QED BY <2>1, <2>2
  <1>3. Bookkeeping'
    <2>1. client' \in Clients BY WorkingIs
    <2>2. \A k \in DOMAIN stack' : stack'[k].kind = "iod" => phase' = "iods"
      <3>1. View'.stack = stack' BY DEF View
      <3> QED BY <3>1 DEF Works, Walking
    <2>3. todo' \subseteq Iods' BY ViewsNext DEF Works
    <2> QED BY <2>1, <2>2, <2>3, <1>2 DEF Works, Bookkeeping
  <1>4. View' \in Views' BY <1>1, ViewsNext
  <1>5. events_pending' = Cardinality(PendingIds')
    <2>1. View'.events_pending = events_pending' BY DEF View
    <2> QED BY <2>1, <1>1, PendingIs
  <1>6. DeliveryInv'
    BY <1>1, <1>2, <1>3, <1>4, <1>5, BooksNext DEF DeliveryInv
  <1>7. [Delivery!Next]_(Delivery!vars)
    <2> DEFINE p == IF Killing THEN Cardinality(PendingIds) ELSE events_pending
    <2>1. p = events_pending /\ p' = events_pending' BY <1>2
    <2>2. Delivers(View, View') BY DEF Works
    <2>3. /\ View.outcome = outcome /\ View'.outcome = outcome'
          /\ View.events_pending = events_pending /\ View'.events_pending = events_pending'
      BY DEF View
    <2> HIDE DEF p
    <2>4. CASE outcome' = outcome /\ events_pending' = events_pending
      BY <2>1, <2>4 DEF Delivery!vars, p
    <2>5. CASE \E d \in Ids, w \in {"told", "silent"} :
                  /\ outcome[d] = "pending" /\ outcome' = [outcome EXCEPT ![d] = w]
                  /\ events_pending' = events_pending - 1
      <3>1. PICK d \in Ids, w \in {"told", "silent"} :
                  /\ outcome[d] = "pending" /\ outcome' = [outcome EXCEPT ![d] = w]
                  /\ events_pending' = events_pending - 1
        BY <2>5
      <3>2. w \in Delivery!Verdicts BY DEF Delivery!Verdicts
      <3>3. Delivery!End(d, w) BY <3>1, <2>1 DEF Delivery!End, p
      <3> QED BY <3>2, <3>3 DEF Delivery!Next
    <2>6. CASE \E d \in Ids : outcome[d] = "unused" /\ outcome' = [outcome EXCEPT ![d] = "pending"]
                              /\ events_pending' = events_pending + 1
      <3>1. PICK d \in Ids : outcome[d] = "unused" /\ outcome' = [outcome EXCEPT ![d] = "pending"]
                             /\ events_pending' = events_pending + 1
        BY <2>6
      <3>2. Delivery!Request(d) BY <3>1, <2>1 DEF Delivery!Request, p
      <3> QED BY <3>2 DEF Delivery!Next
    <2>7. CASE \E d \in Ids : outcome[d] = "unused" /\ outcome' = [outcome EXCEPT ![d] = "told"]
                              /\ events_pending' = events_pending
      <3>1. PICK d \in Ids : outcome[d] = "unused" /\ outcome' = [outcome EXCEPT ![d] = "told"]
                             /\ events_pending' = events_pending
        BY <2>7
      <3>2. Delivery!RequestFails(d) BY <3>1, <2>1 DEF Delivery!RequestFails, p
      <3> QED BY <3>2 DEF Delivery!Next
    <2> QED BY <2>2, <2>3, <2>4, <2>5, <2>6, <2>7 DEF Delivers
  <1> QED BY <1>6, <1>7

\* While the library is deleted nothing else is under way, and only the events matter.
Ending == DeliveryInv /\ Killing
Ends(v) ==
    /\ v \in Views /\ Lists(v) /\ Heap(v) /\ v.stack = <<>> /\ Events(v, serials, allocated)
    /\ \/ v.outcome = View.outcome
       \/ \E d \in PendingOf(View) : /\ v.outcome = [View.outcome EXCEPT ![d] = "told"]
                                     /\ PendingOf(v) = PendingOf(View) \ {d}

\* What holds while the library is deleted.
LEMMA EndingIs ==
    ASSUME Ending
    PROVE  /\ View \in Views /\ View.stack = <<>> /\ Lists(View) /\ Heap(View)
           /\ Events(View, serials, allocated) /\ (\A x : ~Held(View, x)) /\ client \in Clients
  <1>1. View \in Views /\ View.stack = <<>> BY ViewFields DEF Ending, DeliveryInv, Bookkeeping
  <1>2. \A x : ~Held(View, x)
    <2>1. DOMAIN View.stack = {} BY <1>1
    <2> QED BY <2>1 DEF Held
  <1> QED BY <1>1, <1>2 DEF Ending, DeliveryInv, Bookkeeping

\* A step of nsock_pool_delete() keeps the invariant and is one of the abstract delivery.
LEMMA EndingNext ==
    ASSUME Ending, NEW v, Ends(v), Commit(v), client' = client,
           serials' = serials, allocated' = allocated, phase' \in {"kill", "deleted"}, todo' = todo,
           fatal' \in BOOLEAN
    PROVE  DeliveryInv' /\ [Delivery!Next]_(Delivery!vars)
  <1>1. /\ v \in Views /\ Lists(v) /\ Heap(v) /\ v.stack = <<>> /\ Events(v, serials, allocated)
        /\ View' = v
    BY CommitIs DEF Ends
  <1>2. Killing /\ Killing' BY DEF Ending, Killing
  <1>3. View.stack = stack /\ View'.stack = stack' /\ View.outcome = outcome /\ View'.outcome = outcome'
    BY DEF View
  <1>4. Bookkeeping'
    <2>1. client' \in Clients /\ serials' \in 0..MaxEvents /\ allocated' \in 0..serials'
          /\ todo' \subseteq Iods'
      BY ViewsNext DEF Ending, DeliveryInv, Bookkeeping
    <2>2. stack' = <<>> BY <1>1, <1>3
    <2>3. DOMAIN stack' = {} BY <2>2
    <2> QED BY <2>1, <2>2, <2>3 DEF Bookkeeping
  <1>5. Frames(v, allocated) BY <1>1, NoFrame
  <1>6. View' \in Views' BY <1>1, ViewsNext
  <1>7. DeliveryInv'
    BY <1>1, <1>2, <1>4, <1>5, <1>6, BooksNext DEF DeliveryInv
  <1>8. [Delivery!Next]_(Delivery!vars)
    <2> DEFINE p == IF Killing THEN Cardinality(PendingIds) ELSE events_pending
    <2>1. p = Cardinality(PendingOf(View)) /\ p' = Cardinality(PendingOf(View')) BY <1>2, PendingIs
    <2> HIDE DEF p
    <2>2. CASE v.outcome = View.outcome
      <3>1. outcome' = outcome /\ PendingOf(View') = PendingOf(View) BY <2>2, <1>1, <1>3 DEF PendingOf
      <3> QED BY <3>1, <2>1 DEF Delivery!vars, p
    <2>3. CASE \E d \in PendingOf(View) : /\ v.outcome = [View.outcome EXCEPT ![d] = "told"]
                                          /\ PendingOf(v) = PendingOf(View) \ {d}
      <3>1. PICK d \in PendingOf(View) : /\ v.outcome = [View.outcome EXCEPT ![d] = "told"]
                                         /\ PendingOf(v) = PendingOf(View) \ {d}
        BY <2>3
      <3>2. p' = p - 1
        <4> DEFINE S == PendingOf(View)
        <4>1. IsFiniteSet(S) /\ d \in S BY <3>1, IdsFinite
        <4> HIDE DEF S
        <4>2. Cardinality(S \ {d}) = Cardinality(S) - 1 BY <4>1, FS_RemoveElement
        <4> QED BY <4>2, <3>1, <2>1, <1>1 DEF S
      <3>3. d \in Ids /\ outcome[d] = "pending" /\ outcome' = [outcome EXCEPT ![d] = "told"]
        BY <3>1, <1>1, <1>3 DEF PendingOf
      <3>4. PICK w \in Delivery!Verdicts : w = "told" BY DEF Delivery!Verdicts
      <3>5. Delivery!End(d, w) BY <3>2, <3>3, <3>4 DEF Delivery!End, p
      <3> QED BY <3>3, <3>4, <3>5 DEF Delivery!Next
    <2> QED BY <2>2, <2>3 DEF Ends
  <1> QED BY <1>7, <1>8

ToldOf(u, v, s) == v.outcome = [u.outcome EXCEPT ![u.ev[s].id] = "told"]

\* Ending the live struct s, which is off its list afterwards.
LEMMA ToldEnds ==
    ASSUME Ending, NEW s \in Structs, Live(View, s), NEW v, v \in Views, v.stack = <<>>,
           Lists(v), Heap(v), Others(View, v, s), v.ev[s].done, ~Kept(v, s),
           ToldOf(View, v, s)
    PROVE  Ends(v)
  <1> DEFINE u == View
             d == u.ev[s].id
  <1>1. u \in Views /\ Events(u, serials, allocated) /\ \A x : ~Held(u, x) BY EndingIs
  <1>2. d \in Ids
    <2> HIDE DEF u
    <2>1. Live(u, s) BY DEF u
    <2> QED BY <2>1, <1>1 DEF Events
  <1>3. \A x : ~Held(v, x)
    <2>1. DOMAIN v.stack = {} OBVIOUS
    <2> QED BY <2>1 DEF Held
  <1> HIDE DEF u
  <1>4. v.outcome[d] = "told" /\ \A c \in Ids : c # d => v.outcome[c] = u.outcome[c]
    <2>1. u.outcome \in [Ids -> Verdict] BY <1>1, ViewIs
    <2>2. v.outcome = [u.outcome EXCEPT ![d] = "told"] BY DEF u, ToldOf
    <2> HIDE DEF d
    <2> QED BY <2>1, <2>2, <1>2
  <1>5. Events(v, serials, allocated) /\ d \in PendingOf(u) /\ PendingOf(v) = PendingOf(u) \ {d}
    <2>1. PICK w \in {"told", "silent"} : w = "told" OBVIOUS
    <2>2. v.outcome[u.ev[s].id] = w /\ \A c \in Ids : c # u.ev[s].id => v.outcome[c] = u.outcome[c]
      BY <2>1, <1>4
    <2>3. ~Live(v, s) /\ Live(u, s) /\ Others(u, v, s) BY DEF Live, u
    <2>4. \A x \in Structs : x # s => (Held(v, x) <=> Held(u, x)) BY <1>1, <1>3
    <2>5. u \in Views /\ Events(u, serials, allocated) /\ v.ev[s].done BY <1>1
    <2>6. /\ Events(v, serials, allocated)
          /\ u.ev[s].id \in PendingOf(u) /\ PendingOf(v) = PendingOf(u) \ {u.ev[s].id}
      BY <2>2, <2>3, <2>4, <2>5, EndEvents
    <2> QED BY <2>6
  <1>6. v.outcome = [u.outcome EXCEPT ![d] = "told"] BY DEF u, ToldOf
  <1> HIDE DEF d
  <1> QED BY <1>5, <1>6 DEF Ends, u

\* A list without its first element.
LEMMA TailIs ==
    ASSUME NEW E, NEW q \in Seq(Structs), q # <<>>, Distinct(q), Together(E, q)
    PROVE  /\ Tail(q) \in Seq(Structs) /\ Head(q) \in Structs /\ Head(q) \in ToSet(q)
           /\ Distinct(Tail(q)) /\ Together(E, Tail(q)) /\ ToSet(Tail(q)) = ToSet(q) \ {Head(q)}
  <1>1. /\ Head(q) \in Structs /\ Head(q) = q[1] /\ Tail(q) \in Seq(Structs)
        /\ Len(Tail(q)) = Len(q) - 1 /\ Len(q) \in Nat \ {0}
        /\ \A k \in 1..(Len(q) - 1) : Tail(q)[k] = q[k + 1]
    BY HeadTailProperties, EmptySeq, LenProperties
  <1>2. DOMAIN q = 1..Len(q) /\ DOMAIN Tail(q) = 1..(Len(q) - 1) BY <1>1, SeqIs
  <1> DEFINE r == Tail(q)
             m == Len(q)
  <1>3. /\ DOMAIN q = 1..m /\ DOMAIN r = 1..(m - 1) /\ m \in Nat \ {0} /\ Head(q) = q[1]
        /\ \A k \in 1..(m - 1) : r[k] = q[k + 1]
    BY <1>1, <1>2
  <1> HIDE DEF r, m
  <1>4. Head(q) \in ToSet(q) BY <1>3 DEF ToSet
  <1>5. Distinct(r)
    <2> SUFFICES ASSUME NEW j \in DOMAIN r, NEW k \in DOMAIN r, r[j] = r[k] PROVE j = k
      BY DEF Distinct
    <2>1. q[j + 1] = q[k + 1] /\ j + 1 \in DOMAIN q /\ k + 1 \in DOMAIN q BY <1>3
    <2>2. j + 1 = k + 1 BY <2>1 DEF Distinct
    <2> QED BY <2>2, <1>3
  <1>6. Together(E, r)
    <2> SUFFICES ASSUME NEW j \in DOMAIN r, NEW x \in DOMAIN r, NEW k \in DOMAIN r,
                        j <= x, x <= k, E[r[j]].iod = E[r[k]].iod
                 PROVE  E[r[x]].iod = E[r[j]].iod
      BY DEF Together
    <2>1. /\ j + 1 \in DOMAIN q /\ x + 1 \in DOMAIN q /\ k + 1 \in DOMAIN q
          /\ j + 1 <= x + 1 /\ x + 1 <= k + 1
          /\ r[j] = q[j + 1] /\ r[x] = q[x + 1] /\ r[k] = q[k + 1]
      <3>1. j \in 1..(m - 1) /\ x \in 1..(m - 1) /\ k \in 1..(m - 1) /\ m \in Nat BY <1>3
      <3>2. /\ j + 1 \in 1..m /\ x + 1 \in 1..m /\ k + 1 \in 1..m
            /\ j + 1 <= x + 1 /\ x + 1 <= k + 1
        BY <3>1
      <3>3. r[j] = q[j + 1] /\ r[x] = q[x + 1] /\ r[k] = q[k + 1] BY <3>1, <1>3
      <3>4. j + 1 \in DOMAIN q /\ x + 1 \in DOMAIN q /\ k + 1 \in DOMAIN q BY <3>2, <1>3
      <3> QED BY <3>2, <3>3, <3>4
    <2>2. E[q[x + 1]].iod = E[q[j + 1]].iod BY <2>1 DEF Together
    <2> QED BY <2>1, <2>2
  <1>7. ASSUME NEW x \in ToSet(r) PROVE x \in ToSet(q) /\ x # Head(q)
    <2>1. PICK k \in 1..(m - 1) : x = r[k] BY <1>3 DEF ToSet
    <2>2. x = q[k + 1] /\ k + 1 \in DOMAIN q /\ 1 \in DOMAIN q /\ k + 1 # 1 BY <2>1, <1>3
    <2>3. x # q[1] BY <2>2 DEF Distinct
    <2> QED BY <2>2, <2>3, <1>3 DEF ToSet
  <1>8. ASSUME NEW x \in ToSet(q), x # Head(q) PROVE x \in ToSet(r)
    <2>1. PICK k \in 1..m : x = q[k] BY <1>3 DEF ToSet
    <2>2. k # 1 BY <2>1, <1>8, <1>3
    <2>3. k - 1 \in 1..(m - 1) /\ (k - 1) + 1 = k BY <2>1, <2>2, <1>3
    <2>4. r[k - 1] = x BY <2>1, <2>3, <1>3
    <2> QED BY <2>3, <2>4, <1>3 DEF ToSet
  <1> QED BY <1>1, <1>4, <1>5, <1>6, <1>7, <1>8 DEF r

\* nsock_pool_delete() tells an event of the KILL.
LEMMA ToldIs ==
    ASSUME Ending, NEW s \in Structs, Live(View, s), NEW t, t = Told(View, s)
    PROVE  /\ t \in Views /\ t.list = View.list /\ t.expirables = View.expirables /\ t.iod = View.iod
           /\ t.events_pending = View.events_pending /\ t.stack = View.stack
           /\ ToldOf(View, t, s) /\ t.ev[s].done
           /\ \A x \in Structs : /\ t.ev[x].type = View.ev[x].type /\ t.ev[x].iod = View.ev[x].iod
                                 /\ x # s => t.ev[x] = View.ev[x]
  <1> DEFINE u == View
             e == [u.ev[s] EXCEPT !.status = "KILL", !.done = TRUE]
             m == [u.ev EXCEPT ![s] = e]
             o == [u.outcome EXCEPT ![u.ev[s].id] = "told"]
  <1>1. u \in Views BY EndingIs
  <1>2. t = [u EXCEPT !.ev = m, !.outcome = o] BY ViewFields DEF Told
  <1> HIDE DEF u
  <1>3. e \in Event /\ e.done /\ e.type = u.ev[s].type /\ e.iod = u.ev[s].iod
    <2>1. u.ev[s] \in Event BY <1>1, EventIs
    <2> QED BY <2>1 DEF Event
  <1> HIDE DEF e
  <1>4. m \in [Structs -> Event] /\ \A x \in Structs : m[x] = IF x = s THEN e ELSE u.ev[x]
    BY <1>1, <1>3, ViewIs
  <1>5. o \in [Ids -> Verdict] BY <1>1, ViewIs DEF Verdict
  <1> HIDE DEF m, o
  <1>6. /\ t \in Views /\ t.ev = m /\ t.outcome = o /\ t.list = u.list /\ t.expirables = u.expirables
        /\ t.iod = u.iod /\ t.events_pending = u.events_pending /\ t.stack = u.stack
    BY <1>1, <1>2, <1>4, <1>5 DEF Views
  <1>7. ToldOf(u, t, s) BY <1>6 DEF ToldOf, o
  <1>8. t.ev[s].done BY <1>3, <1>4, <1>6
  <1>9. \A x \in Structs : /\ t.ev[x].type = u.ev[x].type /\ t.ev[x].iod = u.ev[x].iod
                           /\ x # s => t.ev[x] = u.ev[x]
    BY <1>3, <1>4, <1>6
  <1> QED BY <1>6, <1>7, <1>8, <1>9 DEF u

\* nsock_pool_delete() has told the first event of list t.
KilledTo(t) == [Told(View, Head(list[t])) EXCEPT !.list[t] = Tail(@),
                                                 !.iod[ev[Head(list[t])].iod].pending = @ - 1]

\* What nsock_pool_delete() does to the first event of a list.
LEMMA KillListedIs ==
    ASSUME NEW k \in 1..3, KillListed(k)
    PROVE  /\ phase = "kill" /\ list[ListOrder[k]] # <<>> /\ Commit(KilledTo(ListOrder[k]))
           /\ UNCHANGED <<serials, allocated, phase, todo, stale, fatal>>
  <1>1. /\ phase = "kill" /\ list[ListOrder[k]] # <<>>
        /\ UNCHANGED <<serials, allocated, phase, todo, stale, fatal>>
    BY DEF KillListed
  <1>2. Commit(KilledTo(ListOrder[k])) BY ZenonT(30) DEF KillListed, KilledTo
  <1> QED BY <1>1, <1>2

\* nsock_pool_delete() ends the event s, and its iod has one event less.
EndsOnly(v, s) ==
    /\ Ends(v) /\ s \in Structs /\ Live(View, s) /\ ~Kept(v, s) /\ Others(View, v, s)
    /\ v.ev[s].iod = View.ev[s].iod
    /\ \A j \in Iods : v.iod[j].pending = IF View.ev[s].iod = j THEN View.iod[j].pending - 1
                                          ELSE View.iod[j].pending

\* nsock_pool_delete() ends the first event of a list.
LEMMA KilledToIs ==
    ASSUME Ending, NEW k \in 1..3, list[ListOrder[k]] # <<>>
    PROVE  EndsOnly(KilledTo(ListOrder[k]), Head(list[ListOrder[k]]))
  <1> DEFINE u == View
             t == ListOrder[k]
             q == list[t]
             s == Head(q)
             x == Told(View, s)
             i == ev[s].iod
             v == KilledTo(t)
  <1>1. q # <<>> OBVIOUS
  <1>q. q = u.list[t] BY ViewFields
  <1>2. /\ u \in Views /\ u.stack = <<>> /\ Lists(u) /\ Heap(u) /\ (\A y : ~Held(u, y))
    BY EndingIs
  <1>3. t \in IoTypes /\ t # "free" BY DEF ListOrder, IoTypes
  <1> HIDE DEF t
  <1>4. /\ Tail(q) \in Seq(Structs) /\ s \in Structs /\ s \in ToSet(q)
        /\ Distinct(Tail(q)) /\ Together(u.ev, Tail(q)) /\ ToSet(Tail(q)) = ToSet(q) \ {s}
    <2>1. q \in Seq(Structs) BY <1>q, <1>2, <1>3, ViewIs
    <2>2. Distinct(q) /\ Together(u.ev, q) BY <1>q, <1>2, <1>3 DEF Lists
    <2> HIDE DEF q
    <2> QED BY <2>1, <2>2, <1>1, TailIs
  <1>5. u.ev[s].type = t /\ t # "timer" /\ u.ev[s].iod \in Iods
        /\ \A r \in IoTypes \cup {"free"} : s \in ToSet(u.list[r]) => r = t
    <2>1. s \in ToSet(u.list[t]) BY <1>q, <1>4
    <2>2. u \in Views /\ Lists(u) BY <1>2
    <2> HIDE DEF s, q, u, x, i, v
    <2>3. /\ s \in Structs /\ u.ev[s].type = t /\ t # "timer" /\ t # "free" /\ u.ev[s].iod \in Iods
          /\ \A r \in IoTypes \cup {"free"} : s \in ToSet(u.list[r]) => r = t
      BY <2>1, <2>2, <1>3, ListedIs
    <2> QED BY <2>3
  <1>6. Live(u, s)
    <2>1. s \in ToSet(u.list[t]) BY <1>q, <1>4
    <2> HIDE DEF s, q
    <2> QED BY <2>1, <1>2, <1>5 DEF Live, Kept
  <1>7. i = u.ev[s].iod BY ViewFields
  <1>8. x = Told(View, s) OBVIOUS
  <1> HIDE DEF s, i
  <1>9. /\ x \in Views /\ x.list = u.list /\ x.expirables = u.expirables /\ x.iod = u.iod
        /\ x.events_pending = u.events_pending /\ x.stack = u.stack
        /\ ToldOf(u, x, s) /\ x.ev[s].done
        /\ \A y \in Structs : /\ x.ev[y].type = u.ev[y].type /\ x.ev[y].iod = u.ev[y].iod
                              /\ y # s => x.ev[y] = u.ev[y]
    <2> HIDE DEF x
    <2> QED BY <1>4, <1>6, <1>8, ToldIs
  <1> HIDE DEF x
  <1> DEFINE p == [u.iod[i] EXCEPT !.pending = u.iod[i].pending - 1]
             l == [u.list EXCEPT ![t] = Tail(q)]
             d == [u.iod EXCEPT ![i] = p]
  <1> HIDE DEF v
  <1>0. v = [x EXCEPT !.list = [x.list EXCEPT ![t] = Tail(x.list[t])],
                      !.iod = [x.iod EXCEPT ![i] = [x.iod[i] EXCEPT !.pending = x.iod[i].pending - 1]]]
    BY DEF v, KilledTo, x, s, i, q
  <1>10. v = [x EXCEPT !.list = l, !.iod = d] BY <1>0, <1>9, <1>q
  <1>11. d \in [Iods -> IodShape]
    <2>1. u.iod \in [Iods -> IodShape] /\ i \in Iods BY <1>2, <1>5, <1>7, ViewIs
    <2>2. p \in IodShape
      <3>1. u.iod[i] \in IodShape /\ u.iod[i].pending - 1 \in Int BY <2>1 DEF IodShape
      <3> QED BY <3>1, PendingRecord
    <2> HIDE DEF p
    <2> QED BY <2>1, <2>2
  <1>a. \A j \in Iods : d[j].pending = IF i = j THEN u.iod[j].pending - 1 ELSE u.iod[j].pending
    <2>1. u.iod \in [Iods -> IodShape] /\ i \in Iods BY <1>2, <1>5, <1>7, ViewIs
    <2>2. p.pending = u.iod[i].pending - 1
      <3>1. u.iod[i] \in IodShape BY <2>1
      <3> QED BY <3>1 DEF IodShape
    <2> HIDE DEF p
    <2> QED BY <2>1, <2>2
  <1>12. /\ l \in [IoTypes \cup {"free"} -> Seq(Structs)]
         /\ l[t] = Tail(q) /\ \A r \in IoTypes \cup {"free"} : r # t => l[r] = u.list[r]
    <2>1. u.list \in [IoTypes \cup {"free"} -> Seq(Structs)] BY <1>2, ViewIs
    <2> DEFINE z == Tail(q)
    <2>2. z \in Seq(Structs) BY <1>4
    <2> HIDE DEF z
    <2>3. l = [u.list EXCEPT ![t] = z] BY DEF z
    <2> HIDE DEF l
    <2>4. l[t] = z /\ l \in [IoTypes \cup {"free"} -> Seq(Structs)]
          /\ \A r \in IoTypes \cup {"free"} : r # t => l[r] = u.list[r]
      BY <2>1, <2>2, <2>3, <1>3
    <2> QED BY <2>4 DEF z
  <1> HIDE DEF l, d
  <1>13. /\ v \in Views /\ v.list = l /\ v.ev = x.ev /\ v.expirables = u.expirables
         /\ v.outcome = x.outcome /\ v.stack = <<>> /\ v.iod = d
    <2> HIDE DEF v, u
    <2> QED BY <1>2, <1>9, <1>10, <1>11, <1>12 DEF Views
  <1> HIDE DEF v, q
  <1> HIDE DEF u
  <1>14. /\ v.list["free"] = u.list["free"] /\ v.list[t] = Tail(q) /\ q = u.list[t]
         /\ \A r \in IoTypes : r # t => v.list[r] = u.list[r]
    BY <1>q, <1>3, <1>12, <1>13
  <1>15. \A r \in IoTypes : \A y \in ToSet(v.list[r]) : y \in ToSet(u.list[r]) /\ y # s
    <2> SUFFICES ASSUME NEW r \in IoTypes, NEW y \in ToSet(v.list[r])
                 PROVE  y \in ToSet(u.list[r]) /\ y # s
      OBVIOUS
    <2>1. CASE r = t BY <2>1, <1>4, <1>14
    <2>2. CASE r # t
      <3>1. y \in ToSet(u.list[r]) BY <2>2, <1>14
      <3> QED BY <3>1, <2>2, <1>5
    <2> QED BY <2>1, <2>2
  <1>16. Lists(v)
    <2>1. ASSUME NEW r \in IoTypes PROVE Together(v.ev, v.list[r])
      <3> DEFINE z == v.list[r]
      <3>1. Together(u.ev, z)
        <4>1. CASE r = t BY <4>1, <1>4, <1>14
        <4>2. CASE r # t BY <4>2, <1>2, <1>14 DEF Lists
        <4> QED BY <4>1, <4>2
      <3>2. \A m \in DOMAIN z : z[m] \in Structs
        <4>1. z \in Seq(Structs) BY <1>13, ViewIs
        <4> HIDE DEF z
        <4> QED BY <4>1, SeqIs
      <3>3. \A m \in DOMAIN z : v.ev[z[m]].iod = u.ev[z[m]].iod BY <3>2, <1>9, <1>13
      <3> HIDE DEF z
      <3>4. Together(v.ev, z) BY <3>1, <3>3 DEF Together
      <3> QED BY <3>4 DEF z
    <2>2. \A r \in IoTypes \cup {"free"} : Distinct(v.list[r])
      <3> SUFFICES ASSUME NEW r \in IoTypes \cup {"free"} PROVE Distinct(v.list[r]) OBVIOUS
      <3>1. CASE r = t BY <3>1, <1>4, <1>14
      <3>2. CASE r # t
        <4>1. v.list[r] = u.list[r] BY <3>2, <1>14
        <4> QED BY <4>1, <1>2 DEF Lists
      <3> QED BY <3>1, <3>2
    <2>3. ASSUME NEW r \in IoTypes, NEW y \in ToSet(v.list[r])
          PROVE  v.ev[y].type = r /\ v.ev[y].iod \in Iods /\ y \notin ToSet(v.list["free"])
      <3>1. y \in ToSet(u.list[r]) BY <2>3, <1>15
      <3>2. y \in Structs /\ u.ev[y].type = r /\ u.ev[y].iod \in Iods BY <3>1, <1>2, ListedIs
      <3>3. y \notin ToSet(u.list["free"]) BY <3>1, <1>2 DEF Lists
      <3> QED BY <3>2, <3>3, <1>9, <1>13, <1>14
    <2> QED BY <2>1, <2>2, <2>3 DEF Lists
  <1>17. Heap(v) BY <1>2, <1>13, <1>14 DEF Heap
  <1>18. Others(u, v, s)
    <2>1. \A y \in Structs : y # s => \A r \in IoTypes \cup {"free"} :
             y \in ToSet(v.list[r]) <=> y \in ToSet(u.list[r])
      <3> SUFFICES ASSUME NEW y \in Structs, y # s, NEW r \in IoTypes \cup {"free"}
                   PROVE  y \in ToSet(v.list[r]) <=> y \in ToSet(u.list[r])
        OBVIOUS
      <3>1. CASE r = t BY <3>1, <1>4, <1>14
      <3>2. CASE r # t BY <3>2, <1>14
      <3> QED BY <3>1, <3>2
    <2> QED BY <2>1, <1>9, <1>13 DEF Others
  <1>19. v.ev[s].done /\ ~Kept(v, s)
    <2>1. v.ev[s].type = t /\ v.ev[s].done BY <1>4, <1>5, <1>9, <1>13
    <2>2. s \notin ToSet(v.list[t]) BY <1>3, <1>15
    <2> QED BY <2>1, <2>2, <1>5 DEF Kept
  <1>20. ToldOf(u, v, s) BY <1>9, <1>13 DEF ToldOf
  <1>21. Ends(v)
    BY <1>4, <1>6, <1>13, <1>16, <1>17, <1>18, <1>19, <1>20, ToldEnds DEF u
  <1>22. v.ev[s].iod = u.ev[s].iod BY <1>4, <1>9, <1>13
  <1>23. \A j \in Iods : v.iod[j].pending = IF u.ev[s].iod = j THEN u.iod[j].pending - 1
                                            ELSE u.iod[j].pending
    BY <1>7, <1>13, <1>a
  <1>24. EndsOnly(v, s) BY <1>4, <1>6, <1>18, <1>19, <1>21, <1>22, <1>23 DEF EndsOnly, u
  <1> QED BY <1>24 DEF v, s, q, t

\* nsock_pool_delete() empties a list.
LEMMA KillListedNext ==
    ASSUME Ending, NEW k \in 1..3, KillListed(k), client' = client
    PROVE  DeliveryInv' /\ [Delivery!Next]_(Delivery!vars)
  <1> DEFINE v == KilledTo(ListOrder[k])
  <1>1. /\ phase = "kill" /\ list[ListOrder[k]] # <<>> /\ Commit(v)
        /\ UNCHANGED <<serials, allocated, phase, todo, stale, fatal>>
    BY KillListedIs
  <1>2. Ends(v) BY <1>1, KilledToIs DEF EndsOnly
  <1> HIDE DEF v
  <1>3. fatal' \in BOOLEAN BY <1>1 DEF Ending, DeliveryInv, Bookkeeping
  <1> QED BY <1>1, <1>2, <1>3, EndingNext

\* nsock_pool_delete() has told the timer s, which goes to the free list.
KilledTimer(s) == Release(Told(Dropped(View, s), s), s)

\* What nsock_pool_delete() does to an event in the heap.
LEMMA KillExpirableIs ==
    ASSUME NEW s \in Structs, KillExpirable(s)
    PROVE  /\ phase = "kill" /\ s \in expirables /\ \A t \in IoTypes : list[t] = <<>>
           /\ ev[s].type = "timer" => Commit(KilledTimer(s))
           /\ ev[s].type # "timer" => Commit(Dropped(View, s))
           /\ UNCHANGED <<serials, allocated, phase, todo, stale, fatal>>
  <1>1. /\ phase = "kill" /\ s \in expirables /\ \A t \in IoTypes : list[t] = <<>>
        /\ UNCHANGED <<serials, allocated, phase, todo, stale, fatal>>
    BY DEF KillExpirable
  <1>2. Commit(IF ev[s].type = "timer" THEN KilledTimer(s) ELSE Dropped(View, s))
    BY ZenonT(30) DEF KillExpirable, KilledTimer, Dropped
  <1> QED BY <1>1, <1>2

\* A timer ends and becomes free.
LEMMA KilledTimerIs ==
    ASSUME Ending, NEW s \in Structs, Live(View, s), View.ev[s].type = "timer"
    PROVE  EndsOnly(KilledTimer(s), s)
  <1> DEFINE u == View
             w == Dropped(u, s)
             e == [u.ev[s] EXCEPT !.status = "KILL", !.done = TRUE]
             m == [u.ev EXCEPT ![s] = e]
             o == [u.outcome EXCEPT ![u.ev[s].id] = "told"]
             q == u.list["free"]
             l == [u.list EXCEPT !["free"] = Append(q, s)]
             v == KilledTimer(s)
  <1>1. u \in Views /\ u.stack = <<>> /\ Lists(u) /\ Heap(u) BY EndingIs
  <1>i. u.ev[s].iod = None /\ None \notin Iods
    <2>1. Events(u, serials, allocated) /\ client \in Clients BY EndingIs
    <2>2. None \notin Iods BY <2>1, NoIod
    <2> QED BY <2>1, <2>2 DEF Events
  <1>2. ev = u.ev BY ViewFields
  <1>3. s \in u.expirables BY DEF Live, Kept
  <1>s. Live(u, s) OBVIOUS
  <1>t. u.ev[s].type = "timer" OBVIOUS
  <1>4. v = [Told(w, s) EXCEPT !.list = [Told(w, s).list EXCEPT !["free"] = Append(Told(w, s).list["free"], s)]]
    BY DEF KilledTimer, Release
  <1>5. Told(w, s) = [w EXCEPT !.ev = [w.ev EXCEPT ![s] = [w.ev[s] EXCEPT !.status = "KILL", !.done = TRUE]],
                               !.outcome = [w.outcome EXCEPT ![ev[s].id] = "told"]]
    BY DEF Told
  <1> HIDE DEF u
  <1>6. /\ w \in Views /\ w.ev = u.ev /\ w.list = u.list /\ w.iod = u.iod /\ w.outcome = u.outcome
        /\ w.stack = <<>> /\ w.events_pending = u.events_pending
        /\ w.expirables = u.expirables \ {s} /\ Lists(w) /\ Heap(w)
    BY <1>1, DropIs
  <1> HIDE DEF w
  <1>7. Told(w, s) = [w EXCEPT !.ev = m, !.outcome = o] BY <1>2, <1>5, <1>6
  <1> HIDE DEF v
  <1>8. e \in Event /\ e.done /\ e.type = "timer" /\ e.iod = u.ev[s].iod
    <2>1. u.ev[s] \in Event BY <1>1, EventIs
    <2> QED BY <2>1, <1>t DEF Event
  <1> HIDE DEF e
  <1>9. m \in [Structs -> Event] /\ m[s] = e /\ \A x \in Structs : x # s => m[x] = u.ev[x]
    BY <1>1, <1>8, ViewIs
  <1>10. o \in [Ids -> Verdict] BY <1>1, ViewIs DEF Verdict
  <1> HIDE DEF m, o
  <1>11. /\ Told(w, s).list = u.list /\ Told(w, s).ev = m /\ Told(w, s).outcome = o
         /\ Told(w, s).stack = <<>> /\ Told(w, s).expirables = u.expirables \ {s}
         /\ Told(w, s).iod = u.iod /\ Told(w, s) \in Views
    BY <1>6, <1>7, <1>9, <1>10 DEF Views
  <1> DEFINE z == Told(w, s)
  <1>12. v = [z EXCEPT !.list = [z.list EXCEPT !["free"] = Append(z.list["free"], s)]] BY <1>4
  <1>z. /\ z.list = u.list /\ z.ev = m /\ z.outcome = o /\ z.stack = <<>> /\ z.iod = u.iod
        /\ z.expirables = u.expirables \ {s} /\ z \in Views
    BY <1>11
  <1> HIDE DEF z
  <1>13. v = [z EXCEPT !.list = l] BY <1>12, <1>z
  <1>14. q \in Seq(Structs) /\ Distinct(q) /\ s \notin ToSet(q)
    <2>1. q \in Seq(Structs) /\ Distinct(q) BY <1>1, ViewIs DEF Lists
    <2>2. s \notin ToSet(q) BY <1>1, <1>3 DEF Heap
    <2> QED BY <2>1, <2>2
  <1>15. Append(q, s) \in Seq(Structs) /\ ToSet(Append(q, s)) = ToSet(q) \cup {s} /\ Distinct(Append(q, s))
    <2> HIDE DEF q
    <2> QED BY <1>14, AppendIs
  <1>16. /\ l \in [IoTypes \cup {"free"} -> Seq(Structs)] /\ l["free"] = Append(q, s)
         /\ \A t \in IoTypes : l[t] = u.list[t]
    <2> DEFINE a == Append(q, s)
    <2>1. a \in Seq(Structs) BY <1>15
    <2>2. l = [u.list EXCEPT !["free"] = a] OBVIOUS
    <2> HIDE DEF a, l
    <2>3. u.list \in [IoTypes \cup {"free"} -> Seq(Structs)] BY <1>1, ViewIs
    <2>4. \A t \in IoTypes : t # "free" BY DEF IoTypes
    <2> QED BY <2>1, <2>2, <2>3, <2>4 DEF a
  <1> HIDE DEF l
  <1>17. /\ v \in Views /\ v.list = l /\ v.ev = m /\ v.outcome = o /\ v.stack = <<>> /\ v.iod = u.iod
         /\ v.expirables = u.expirables \ {s}
    BY <1>13, <1>16, <1>z DEF Views
  <1>18. Lists(v)
    <2>1. \A t \in IoTypes : s \notin ToSet(u.list[t])
      <3> SUFFICES ASSUME NEW t \in IoTypes, s \in ToSet(u.list[t]) PROVE FALSE OBVIOUS
      <3>1. u.ev[s].type = t /\ t # "timer" BY <1>1, ListedIs
      <3> QED BY <3>1, <1>t
    <2>2. ASSUME NEW t \in IoTypes
          PROVE  /\ Together(v.ev, v.list[t]) /\ Distinct(v.list[t])
                 /\ \A y \in ToSet(v.list[t]) : /\ v.ev[y].type = t /\ v.ev[y].iod \in Iods
                                                /\ y \notin ToSet(v.list["free"])
      <3> DEFINE r == u.list[t]
      <3>1. v.list[t] = r BY <1>16, <1>17
      <3>2. r \in Seq(Structs) /\ Distinct(r) /\ Together(u.ev, r) BY <1>1, ViewIs DEF Lists
      <3>3. \A y \in ToSet(r) : /\ y \in Structs /\ y # s /\ u.ev[y].type = t /\ u.ev[y].iod \in Iods
                                /\ y \notin ToSet(q)
        BY <1>1, <2>1, ListedIs DEF Lists
      <3> HIDE DEF r
      <3>4. \A y \in ToSet(r) : v.ev[y] = u.ev[y] BY <3>3, <1>9, <1>17
      <3>5. \A y \in ToSet(r) : y \notin ToSet(v.list["free"]) BY <3>3, <1>15, <1>16, <1>17
      <3>6. Together(v.ev, r)
        <4>1. \A k \in DOMAIN r : r[k] \in ToSet(r) BY DEF ToSet
        <4> QED BY <4>1, <3>2, <3>4 DEF Together
      <3> QED BY <3>1, <3>2, <3>3, <3>4, <3>5, <3>6
    <2>3. Distinct(v.list["free"]) BY <1>15, <1>16, <1>17
    <2> QED BY <2>2, <2>3 DEF Lists
  <1>19. Heap(v)
    <2>1. u.expirables \cap ToSet(q) = {} BY <1>1 DEF Heap
    <2>2. v.expirables = u.expirables \ {s} /\ ToSet(v.list["free"]) = ToSet(q) \cup {s}
      BY <1>15, <1>16, <1>17
    <2> QED BY <2>1, <2>2 DEF Heap
  <1>20. Others(u, v, s)
    <2>1. ASSUME NEW x \in Structs, x # s
          PROVE  /\ v.ev[x] = u.ev[x] /\ (x \in v.expirables <=> x \in u.expirables)
                 /\ \A t \in IoTypes \cup {"free"} : x \in ToSet(v.list[t]) <=> x \in ToSet(u.list[t])
      <3>1. v.ev[x] = u.ev[x] /\ (x \in v.expirables <=> x \in u.expirables) BY <2>1, <1>9, <1>17
      <3>2. x \in ToSet(v.list["free"]) <=> x \in ToSet(u.list["free"]) BY <2>1, <1>15, <1>16, <1>17
      <3>3. \A t \in IoTypes : x \in ToSet(v.list[t]) <=> x \in ToSet(u.list[t]) BY <1>16, <1>17
      <3> QED BY <3>1, <3>2, <3>3
    <2> QED BY <2>1, <1>17 DEF Others
  <1>21. v.ev[s].done /\ ~Kept(v, s)
    <2>1. v.ev[s].done /\ v.ev[s].type = "timer" /\ s \notin v.expirables BY <1>8, <1>9, <1>17
    <2> QED BY <2>1 DEF Kept
  <1>22. ToldOf(u, v, s) BY <1>17 DEF ToldOf, o
  <1>23. Ends(v) BY <1>s, <1>17, <1>18, <1>19, <1>20, <1>21, <1>22, ToldEnds DEF u
  <1>24. v.ev[s].iod = u.ev[s].iod BY <1>8, <1>9, <1>17
  <1>25. \A j \in Iods : v.iod[j].pending = IF u.ev[s].iod = j THEN u.iod[j].pending - 1
                                            ELSE u.iod[j].pending
    BY <1>i, <1>17
  <1>26. EndsOnly(v, s) BY <1>s, <1>20, <1>21, <1>23, <1>24, <1>25 DEF EndsOnly, u
  <1> QED BY <1>26 DEF v

\* nsock_pool_delete() empties the heap: timers end, and the other events have ended.
LEMMA KillExpirableNext ==
    ASSUME Ending, NEW s \in Structs, KillExpirable(s), client' = client
    PROVE  DeliveryInv' /\ [Delivery!Next]_(Delivery!vars)
  <1> DEFINE u == View
  <1>1. /\ phase = "kill" /\ s \in expirables /\ \A t \in IoTypes : list[t] = <<>>
        /\ ev[s].type = "timer" => Commit(KilledTimer(s))
        /\ ev[s].type # "timer" => Commit(Dropped(View, s))
        /\ UNCHANGED <<serials, allocated, phase, todo, stale, fatal>>
    BY KillExpirableIs
  <1>2. /\ u \in Views /\ u.stack = <<>> /\ Lists(u) /\ Heap(u) /\ (\A y : ~Held(u, y))
        /\ Events(u, serials, allocated)
    BY EndingIs
  <1>3. u.ev = ev /\ u.list = list /\ u.expirables = expirables BY ViewFields
  <1>4. fatal' \in BOOLEAN BY <1>1 DEF Ending, DeliveryInv, Bookkeeping
  <1>5. CASE ev[s].type = "timer"
    <2>1. Live(u, s) BY <1>1, <1>2, <1>3, <1>5 DEF Live, Kept
    <2>2. Ends(KilledTimer(s)) BY <2>1, <1>3, <1>5, KilledTimerIs DEF EndsOnly
    <2> DEFINE v == KilledTimer(s)
    <2>3. Commit(v) BY <1>1, <1>5
    <2> HIDE DEF v
    <2> QED BY <2>2, <2>3, <1>1, <1>4, EndingNext DEF v
  <1>6. CASE ev[s].type # "timer"
    <2> DEFINE v == Dropped(u, s)
    <2>1. Commit(v) BY <1>1, <1>6
    <2> HIDE DEF u
    <2>2. /\ v \in Views /\ Others(u, v, s) /\ v.ev = u.ev /\ v.list = u.list
          /\ v.outcome = u.outcome /\ v.stack = u.stack
          /\ v.expirables = u.expirables \ {s} /\ Lists(v) /\ Heap(v)
      BY <1>2, DropIs
    <2> HIDE DEF v
    <2>3. ~Kept(u, s) /\ ~Kept(v, s)
      <3>1. u.ev[s].type \in IoTypes BY <1>2, <1>3, <1>6, EventIs
      <3>2. u.list[u.ev[s].type] = <<>> BY <3>1, <1>1, <1>3
      <3>3. s \notin ToSet(u.list[u.ev[s].type]) BY <3>2 DEF ToSet
      <3> QED BY <3>3, <2>2, <1>3, <1>6 DEF Kept
    <2>4. \A x : ~Held(v, x) BY <2>2, <1>2 DEF Held, Holds
    <2>5. s <= allocated BY <1>1, <1>2, <1>3 DEF Events
    <2>6. Live(v, s) <=> Live(u, s) BY <2>3 DEF Live
    <2>7. Events(v, serials, allocated) BY <2>2, <2>4, <2>5, <2>6, <1>2, KeepEvents
    <2>8. Ends(v) BY <2>2, <2>7, <1>2 DEF Ends, u
    <2> QED BY <2>1, <2>8, <1>1, <1>4, EndingNext
  <1> QED BY <1>5, <1>6

\* nsock_pool_delete() deletes the iods.
LEMMA KillIodsNext ==
    ASSUME Ending, KillIods, client' = client
    PROVE  DeliveryInv' /\ [Delivery!Next]_(Delivery!vars)
  <1>1. /\ phase' = "deleted" /\ fatal' \in BOOLEAN /\ serials' = serials /\ allocated' = allocated
        /\ todo' = todo /\ Commit(View)
    BY ViewFields DEF KillIods, Commit
  <1>2. Ends(View) BY EndingIs DEF Ends
  <1> DEFINE v == View
  <1>3. Ends(v) /\ Commit(v) BY <1>1, <1>2
  <1> HIDE DEF v
  <1> QED BY <1>1, <1>3, EndingNext

\* nsock_pool_delete() begins: nothing has been told yet, and nothing is under way.
LEMMA PoolDeleteNext ==
    ASSUME Working, nsock_pool_delete, client' = client
    PROVE  DeliveryInv' /\ [Delivery!Next]_(Delivery!vars)
  <1>1. /\ phase' = "kill" /\ stack = <<>> /\ View' = View
        /\ UNCHANGED <<stack, outcome, events_pending, serials, allocated, todo, fatal>>
    BY DEF nsock_pool_delete, View
  <1>2. ~Killing /\ Killing' BY <1>1 DEF Working, Killing
  <1>3. /\ View \in Views /\ Lists(View) /\ Heap(View) /\ Frames(View, allocated)
        /\ Events(View, serials, allocated) /\ View.events_pending = Cardinality(PendingOf(View))
    BY DEF Working, Good
  <1>4. Bookkeeping'
    <2>1. /\ client' \in Clients /\ serials' \in 0..MaxEvents /\ allocated' \in 0..serials'
          /\ todo' \subseteq Iods' /\ fatal' \in BOOLEAN
      BY <1>1, ViewsNext DEF Working, Bookkeeping
    <2>2. stack' = <<>> /\ DOMAIN stack' = {} BY <1>1
    <2> QED BY <2>1, <2>2, <1>1 DEF Bookkeeping
  <1>5. View' \in Views' BY <1>1, <1>3, ViewsNext
  <1>6. DeliveryInv'
    <2>1. /\ Lists(View') /\ Heap(View') /\ Frames(View', allocated')
          /\ Events(View', serials', allocated')
      BY <1>1, <1>3
    <2> QED BY <2>1, <1>2, <1>4, <1>5, BooksNext DEF DeliveryInv
  <1>7. [Delivery!Next]_(Delivery!vars)
    <2> DEFINE p == IF Killing THEN Cardinality(PendingIds) ELSE events_pending
    <2>1. p = events_pending /\ p' = Cardinality(PendingIds') BY <1>2
    <2>2. PendingIds' = PendingIds BY <1>1 DEF PendingIds
    <2>3. events_pending = Cardinality(PendingIds) BY <1>3, ViewFields, PendingIs
    <2> HIDE DEF p
    <2>4. p' = p BY <2>1, <2>2, <2>3
    <2> QED BY <2>4, <1>1 DEF Delivery!vars, p
  <1> QED BY <1>6, <1>7

\* Nothing happens.
LEMMA StutterNext ==
    ASSUME DeliveryInv, UNCHANGED vars
    PROVE  DeliveryInv' /\ [Delivery!Next]_(Delivery!vars)
  <1>1. /\ View' = View /\ client' = client
        /\ UNCHANGED <<stack, outcome, events_pending, serials, allocated, todo, fatal, phase>>
    BY DEF vars, View
  <1>2. Killing' <=> Killing BY <1>1 DEF Killing
  <1>3. PendingIds' = PendingIds BY <1>1 DEF PendingIds
  <1>4. DeliveryInv'
    <2>1. Bookkeeping'
      BY <1>1, <1>2, ViewsNext DEF DeliveryInv, Bookkeeping
    <2>2. /\ Lists(View') /\ Heap(View') /\ Frames(View', allocated') /\ View' \in Views'
          /\ Events(View', serials', allocated') /\ (~Killing => Firsts(View'))
          /\ ~Killing => events_pending = Cardinality(PendingIds)
      BY <1>1, ViewsNext DEF DeliveryInv
    <2> QED BY <2>1, <2>2, <1>1, <1>2, <1>3, BooksNext DEF DeliveryInv
  <1>5. UNCHANGED Delivery!vars
    <2> DEFINE p == IF Killing THEN Cardinality(PendingIds) ELSE events_pending
    <2>1. p' = p BY <1>1, <1>2, <1>3
    <2> HIDE DEF p
    <2> QED BY <2>1, <1>1 DEF Delivery!vars, p
  <1> QED BY <1>4, <1>5

\* Nothing is requested yet.
LEMMA DeliveryInit ==
    ASSUME Init
    PROVE  DeliveryInv /\ Delivery!Init
  <1>1. /\ client \in Clients /\ expirables = {} /\ events_pending = 0 /\ stack = <<>>
        /\ serials = 0 /\ allocated = 0 /\ phase = "client" /\ todo = {} /\ fatal = FALSE
        /\ outcome = [e \in Ids |-> "unused"] /\ list = [t \in IoTypes \cup {"free"} |-> <<>>]
    BY DEF Init
  <1>2. ev \in [Structs -> Event] /\ \A s \in Structs : ev[s].done /\ ev[s].type = "timer"
    <2> DEFINE e == [id |-> None, type |-> "timer", iod |-> None, done |-> TRUE,
                     status |-> "NONE", timeout |-> FALSE, desire |-> "none"]
    <2>1. e \in Event /\ e.done /\ e.type = "timer" BY DEF Event
    <2>2. ev = [s \in Structs |-> e] BY DEF Init
    <2> HIDE DEF e
    <2> QED BY <2>1, <2>2
  <1>3. iod \in [Iods -> IodShape] /\ \A i \in Iods, t \in IoTypes : iod[i].first[t] = None
    <2> DEFINE r(i) == [state |-> "initial", sd |-> i \in Opened, ssl |-> FALSE,
                        registered |-> FALSE, pending |-> 0, count |-> [b \in Bits |-> 0],
                        watched |-> {}, first |-> [t \in IoTypes |-> None]]
    <2>1. \A i \in Iods : r(i) \in IodShape /\ \A t \in IoTypes : r(i).first[t] = None
      BY DEF IodShape
    <2>2. iod = [i \in Iods |-> r(i)] BY DEF Init
    <2> HIDE DEF r
    <2> QED BY <2>1, <2>2
  <1>4. PendingIds = {} /\ Cardinality(PendingIds) = 0
    <2>1. PendingIds = {} BY <1>1 DEF PendingIds
    <2> QED BY <2>1, FS_EmptySet
  <1>5. 0 \in 0..MaxEvents BY NsockAssumption
  <1>6. ~Killing BY <1>1 DEF Killing
  <1>7. Bookkeeping
    <2>1. DOMAIN stack = {} BY <1>1
    <2>2. serials \in 0..MaxEvents /\ allocated \in 0..serials BY <1>1, <1>5
    <2> QED BY <2>1, <2>2, <1>1, <1>6 DEF Bookkeeping
  <1>8. View \in Views
    <2>1. outcome \in [Ids -> Verdict] BY <1>1 DEF Verdict
    <2>2. list \in [IoTypes \cup {"free"} -> Seq(Structs)] BY <1>1
    <2>3. stack \in Seq(Frame) BY <1>1
    <2> QED BY <2>1, <2>2, <2>3, <1>1, <1>2, <1>3 DEF View, Views
  <1>9. \A t \in IoTypes \cup {"free"} : View.list[t] = <<>> BY <1>1, ViewFields
  <1>10. \A t \in IoTypes \cup {"free"} : DOMAIN View.list[t] = {} /\ ToSet(View.list[t]) = {}
    BY <1>9 DEF ToSet
  <1>11. Lists(View)
    <2>1. \A t \in IoTypes \cup {"free"} : Distinct(View.list[t]) BY <1>10 DEF Distinct
    <2>2. \A t \in IoTypes : Together(View.ev, View.list[t]) BY <1>10 DEF Together
    <2> QED BY <2>1, <2>2, <1>10 DEF Lists
  <1>12. Firsts(View)
    <2> SUFFICES ASSUME NEW i \in Iods, NEW t \in IoTypes
                 PROVE  FirstIs(View.ev, View.list[t], i, View.iod[i].first[t])
      BY DEF Firsts
    <2>1. View.iod[i].first[t] = None BY <1>3, ViewFields
    <2> QED BY <2>1, <1>10 DEF FirstIs
  <1>13. Heap(View) BY <1>1, ViewFields DEF Heap
  <1>14. View.stack = <<>> BY <1>1, ViewFields
  <1>15. Frames(View, allocated) BY <1>8, <1>14, NoFrame
  <1>16. Events(View, serials, allocated)
    <2>1. \A s \in Structs : View.ev[s].done /\ View.ev[s].type = "timer" BY <1>2, ViewFields
    <2>2. View.expirables = {} BY <1>1, ViewFields
    <2>3. \A s \in Structs : ~Live(View, s) BY <2>1, <2>2 DEF Live, Kept
    <2>4. ToSet(View.list["free"]) = {} BY <1>10
    <2>5. \A id \in Ids : View.outcome[id] = "unused" /\ id > 0 BY <1>1, ViewFields DEF Ids
    <2> QED BY <2>1, <2>2, <2>3, <2>4, <2>5, <1>1 DEF Events
  <1>17. DeliveryInv
    BY <1>1, <1>4, <1>7, <1>8, <1>11, <1>12, <1>13, <1>15, <1>16 DEF DeliveryInv
  <1>18. Delivery!Init
    <2> DEFINE p == IF Killing THEN Cardinality(PendingIds) ELSE events_pending
    <2>1. p = 0 BY <1>1, <1>6
    <2> HIDE DEF p
    <2> QED BY <2>1, <1>1 DEF Delivery!Init, p
  <1> QED BY <1>17, <1>18

\* A step while the library works.
LEMMA StepWorks ==
    ASSUME Working, Client \/ HandlerReturns \/ LoopRound \/ Library
    PROVE  Works
  <1>1. CASE Client
    <2>1. CASE \E type \in IoTypes, i \in Iods, timeout \in client.timeouts : StartIo(type, i, timeout)
      BY <2>1, StartIoWorks
    <2>2. CASE nsock_timer_create BY <2>2, TimerWorks
    <2>3. CASE \E i \in Iods, sd \in BOOLEAN : ConnectFails(i, sd) BY <2>3, ConnectFailsWorks
    <2>4. CASE \E id \in Ids, notify \in BOOLEAN : nsock_event_cancel(id, notify)
      BY <2>4, CancelWorks
    <2>5. CASE \E i \in Iods, notify \in BOOLEAN : nsock_iod_delete(i, notify)
      BY <2>5, IodDeleteWorks
    <2> QED BY <1>1, <2>1, <2>2, <2>3, <2>4, <2>5 DEF Client
  <1>2. CASE HandlerReturns BY <1>2, HandlerReturnsWorks
  <1>3. CASE LoopRound BY <1>3, LoopWorks
  <1>4. CASE Library
    <2>1. CASE DeleteStep BY <2>1, DeleteStepWorks
    <2>2. CASE DeleteNextList BY <2>2, DeleteNextListWorks
    <2>3. CASE DeleteEnd BY <2>3, DeleteEndWorks
    <2>4. CASE \E i \in Iods, bits \in (SUBSET Bits) \cup {{"x"}} : VisitIod(i, bits)
      BY <2>4, VisitIodWorks
    <2>5. CASE \E late \in BOOLEAN : ProcessOne(late) BY <2>5, ProcessOneWorks
    <2>6. CASE NextList BY <2>6, NextListWorks
    <2>7. CASE VisitEnds BY <2>7, VisitEndsWorks
    <2>8. CASE IodsDone \/ RoundEnds BY <2>8, LoopWorks
    <2>9. CASE \E s \in Structs : Expire(s) BY <2>9, ExpireWorks
    <2> QED BY <1>4, <2>1, <2>2, <2>3, <2>4, <2>5, <2>6, <2>7, <2>8, <2>9 DEF Library
  <1> QED BY <1>1, <1>2, <1>3, <1>4

\* While the library is deleted nothing but Kill happens.
LEMMA OnlyKill ==
    ASSUME Ending
    PROVE  ~Client /\ ~HandlerReturns /\ ~LoopRound /\ ~Library /\ ~nsock_pool_delete
  <1>1. stack = <<>> /\ phase \in {"kill", "deleted"}
    BY DEF Ending, DeliveryInv, Bookkeeping, Killing
  <1>2. ~InHandler /\ ~MayCall BY <1>1 DEF InHandler, MayCall
  <1>3. ~Client
    BY <1>2 DEF Client, StartIo, nsock_timer_create, ConnectFails, nsock_event_cancel, nsock_iod_delete
  <1>4. ~HandlerReturns /\ ~LoopRound /\ ~nsock_pool_delete
    BY <1>1, <1>2 DEF HandlerReturns, LoopRound, nsock_pool_delete
  <1>5. ~InProc BY <1>1 DEF InProc
  <1>6. ~Library
    BY <1>1, <1>5 DEF Library, DeleteStep, DeleteNextList, DeleteEnd, VisitIod, ProcessOne, NextList,
                      VisitEnds, IodsDone, Expire, MayExpire, RoundEnds
  <1> QED BY <1>3, <1>4, <1>6

\* Every step keeps the invariant and is one of the abstract delivery.
LEMMA DeliveryNext ==
    ASSUME DeliveryInv, [Next]_vars
    PROVE  DeliveryInv' /\ [Delivery!Next]_(Delivery!vars)
  <1>1. CASE UNCHANGED vars BY <1>1, StutterNext
  <1>2. CASE Next /\ Killing
    <2>1. Ending /\ client' = client BY <1>2 DEF Ending, Next
    <2>2. Kill \/ Terminating BY <2>1, <1>2, OnlyKill DEF Next
    <2>3. CASE Terminating BY <2>3, StutterNext DEF Terminating
    <2>4. CASE \E k \in 1..3 : KillListed(k) BY <2>1, <2>4, KillListedNext
    <2>5. CASE \E s \in Structs : KillExpirable(s) BY <2>1, <2>5, KillExpirableNext
    <2>6. CASE KillIods BY <2>1, <2>6, KillIodsNext
    <2> QED BY <2>2, <2>3, <2>4, <2>5, <2>6 DEF Kill
  <1>3. CASE Next /\ ~Killing
    <2>1. Working /\ client' = client BY <1>3, WorkingFrom DEF Next
    <2>2. ~Kill
      <3>1. phase # "kill" BY <1>3 DEF Killing
      <3>2. \A k \in 1..3 : ~KillListed(k) BY <3>1 DEF KillListed
      <3>3. \A s \in Structs : ~KillExpirable(s) BY <3>1 DEF KillExpirable
      <3>4. ~KillIods BY <3>1 DEF KillIods
      <3> QED BY <3>2, <3>3, <3>4 DEF Kill
    <2>3. CASE Terminating BY <2>3, StutterNext DEF Terminating
    <2>4. CASE nsock_pool_delete BY <2>1, <2>4, PoolDeleteNext
    <2>5. CASE Client \/ HandlerReturns \/ LoopRound \/ Library
      BY <2>1, <2>5, StepWorks, WorkingNext
    <2> QED BY <1>3, <2>2, <2>3, <2>4, <2>5 DEF Next
  <1> QED BY <1>1, <1>2, <1>3

\* The books of the library are right at every moment, whatever its client does: the lists,
\* the heap, the calls under way and events_pending agree on which events have not ended
\* (nsock_core.c, nsock_event.c, nsock_iod.c, nsock_pool.c).
THEOREM BooksRight == Spec => []DeliveryInv
  <1>1. Init => DeliveryInv BY DeliveryInit
  <1>2. DeliveryInv /\ [Next]_vars => DeliveryInv' BY DeliveryNext
  <1> QED BY <1>1, <1>2, PTL DEF Spec

\* Each event that was requested ends exactly once, by a call of its handler or silently, and
\* events_pending counts those that have not: any client may call the library from any handler,
\* and cancel, delete iods or delete the pool when it likes (event_dispatch_and_delete(),
\* nevent_delete(), nsock_iod_delete(), nsock_pool_delete()).
THEOREM DeliversOnce == Spec => ImplementsDelivery
  <1>1. Init => Delivery!Init BY DeliveryInit
  <1>2. DeliveryInv /\ [Next]_vars => [Delivery!Next]_(Delivery!vars) BY DeliveryNext
  <1> QED BY <1>1, <1>2, BooksRight, PTL DEF Spec, ImplementsDelivery, Delivery!Spec
=============================================================================
