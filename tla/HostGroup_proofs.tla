-------------------------- MODULE HostGroup_proofs --------------------------
(***************************************************************************)
(* Proofs about how targets become host groups (HostGroup), for any target *)
(* list, batch size and group sizes: the groups are right, and no target   *)
(* is lost or scanned twice on its way.                                    *)
(***************************************************************************)
EXTENDS HostGroup, FiniteSetTheorems, SequenceTheorems, TLAPS

-----------------------------------------------------------------------------
(* Counting occurrences: After(a, s, k) is how often a is in s after the   *)
(* k-th place.                                                             *)
Places(a, s, k) == {i \in (k + 1)..Len(s) : s[i] = a}
After(a, s, k) == Cardinality(Places(a, s, k))
One(b) == IF b THEN 1 ELSE 0

LEMMA SameSize ==
    ASSUME NEW S, NEW T, IsFiniteSet(S), NEW f \in [S -> T],
           \A x, y \in S : f[x] = f[y] => x = y, \A y \in T : \E x \in S : f[x] = y
    PROVE  IsFiniteSet(T) /\ Cardinality(T) = Cardinality(S)
  <1>1. f \in Injection(S, T) /\ f \in Surjection(S, T)
    BY DEF Injection, IsInjective, Surjection
  <1> QED BY <1>1, FS_Surjection

LEMMA AfterNat ==
    ASSUME NEW a, NEW s, Len(s) \in Nat, NEW k \in Nat
    PROVE  IsFiniteSet(Places(a, s, k)) /\ After(a, s, k) \in Nat
  <1>1. IsFiniteSet((k + 1)..Len(s))
    BY FS_Interval
  <1>2. Places(a, s, k) \in SUBSET ((k + 1)..Len(s))
    BY DEF Places
  <1> QED BY <1>1, <1>2, FS_Subset, FS_CardinalityType DEF After

LEMMA AfterEnd ==
    ASSUME NEW a, NEW s, Len(s) \in Nat
    PROVE  After(a, s, Len(s)) = 0
  <1>1. Places(a, s, Len(s)) = {}
    BY DEF Places
  <1> QED BY <1>1, FS_EmptySet DEF After

LEMMA AfterNext ==
    ASSUME NEW a, NEW s, Len(s) \in Nat, NEW k \in Nat, k < Len(s)
    PROVE  After(a, s, k) = After(a, s, k + 1) + One(s[k + 1] = a)
  <1>1. IsFiniteSet(Places(a, s, k + 1)) /\ k + 1 \notin Places(a, s, k + 1)
    <2>1. k + 1 \in Nat
      OBVIOUS
    <2>2. IsFiniteSet(Places(a, s, k + 1))
      BY <2>1, AfterNat
    <2> QED BY <2>2 DEF Places
  <1>2. CASE s[k + 1] = a
    <2>1. Places(a, s, k) = Places(a, s, k + 1) \cup {k + 1}
      BY <1>2 DEF Places
    <2> QED BY <1>1, <1>2, <2>1, FS_AddElement DEF After, One
  <1>3. CASE s[k + 1] # a
    <2>1. Places(a, s, k) = Places(a, s, k + 1)
      BY <1>3 DEF Places
    <2>2. After(a, s, k + 1) \in Nat
      BY AfterNat
    <2> QED BY <1>3, <2>1, <2>2 DEF After, One
  <1> QED BY <1>2, <1>3

LEMMA AfterOccurrences ==
    ASSUME NEW S, NEW s \in Seq(S), NEW a
    PROVE  Occurrences(a, s) = After(a, s, 0) /\ Occurrences(a, s) \in Nat
  <1>1. Len(s) \in Nat /\ DOMAIN s = 1..Len(s)
    BY LenProperties
  <1>2. {i \in DOMAIN s : s[i] = a} = Places(a, s, 0)
    BY <1>1 DEF Places
  <1> QED BY <1>1, <1>2, AfterNat DEF Occurrences, After

LEMMA OccEmpty ==
    ASSUME NEW a
    PROVE  Occurrences(a, <<>>) = 0
  <1>1. {i \in DOMAIN <<>> : <<>>[i] = a} = {}
    OBVIOUS
  <1> QED BY <1>1, FS_EmptySet DEF Occurrences

LEMMA OccAppend ==
    ASSUME NEW S, NEW s \in Seq(S), NEW x \in S, NEW a
    PROVE  Occurrences(a, Append(s, x)) = Occurrences(a, s) + One(x = a)
  <1> DEFINE t == Append(s, x)
  <1>1. /\ t \in Seq(S) /\ Len(t) = Len(s) + 1 /\ Len(s) \in Nat
        /\ \A i \in 1..Len(s) : t[i] = s[i]
        /\ t[Len(s) + 1] = x
    BY AppendProperties, LenProperties
  <1> HIDE DEF t
  <1>2. IsFiniteSet(Places(a, s, 0)) /\ Len(s) + 1 \notin Places(a, s, 0) /\ After(a, s, 0) \in Nat
    BY <1>1, AfterNat DEF Places
  <1>3. After(a, t, 0) = After(a, s, 0) + One(x = a)
    <2>1. CASE x = a
      <3>1. Places(a, t, 0) = Places(a, s, 0) \cup {Len(s) + 1}
        BY <1>1, <2>1 DEF Places
      <3> QED BY <1>2, <2>1, <3>1, FS_AddElement DEF After, One
    <2>2. CASE x # a
      <3>1. Places(a, t, 0) = Places(a, s, 0)
        BY <1>1, <2>2 DEF Places
      <3> QED BY <1>2, <2>2, <3>1 DEF After, One
    <2> QED BY <2>1, <2>2
  <1> QED BY <1>1, <1>3, AfterOccurrences DEF t

LEMMA OccTail ==
    ASSUME NEW S, NEW s \in Seq(S), s # <<>>, NEW a
    PROVE  Occurrences(a, s) = Occurrences(a, Tail(s)) + One(Head(s) = a)
  <1> DEFINE t == Tail(s)
  <1>1. /\ t \in Seq(S) /\ Len(t) = Len(s) - 1
        /\ \A i \in 1..Len(t) : t[i] = s[i + 1]
    BY HeadTailProperties
  <1>2. Len(s) \in Nat /\ Len(s) > 0 /\ Head(s) = s[1]
    BY LenProperties, EmptySeq
  <1> HIDE DEF t
  <1>3. After(a, s, 0) = After(a, s, 1) + One(s[1] = a)
    BY <1>2, AfterNext
  <1>4. After(a, s, 1) = After(a, t, 0)
    <2> DEFINE f == [i \in Places(a, t, 0) |-> i + 1]
    <2>1. f \in [Places(a, t, 0) -> Places(a, s, 1)]
      BY <1>1, <1>2 DEF Places
    <2>2. \A x, y \in Places(a, t, 0) : f[x] = f[y] => x = y
      BY DEF Places
    <2>3. ASSUME NEW y \in Places(a, s, 1) PROVE \E x \in Places(a, t, 0) : f[x] = y
      <3>1. y - 1 \in Places(a, t, 0) /\ y \in Int
        BY <1>1, <1>2, <2>3 DEF Places
      <3>2. f[y - 1] = y
        BY <3>1
      <3> QED BY <3>1, <3>2
    <2>4. IsFiniteSet(Places(a, t, 0))
      BY <1>1, <1>2, AfterNat
    <2> HIDE DEF f
    <2> QED BY <2>1, <2>2, <2>3, <2>4, SameSize DEF After
  <1> QED BY <1>1, <1>2, <1>3, <1>4, AfterOccurrences DEF t

LEMMA OccConcat ==
    ASSUME NEW S, NEW s \in Seq(S), NEW t \in Seq(S), NEW a
    PROVE  Occurrences(a, s \o t) = Occurrences(a, s) + Occurrences(a, t)
  <1> DEFINE u == s \o t
             n == Len(s)
  <1>1. /\ u \in Seq(S) /\ Len(u) = n + Len(t) /\ n \in Nat /\ Len(t) \in Nat
        /\ \A i \in 1..(n + Len(t)) : u[i] = IF i <= n THEN s[i] ELSE t[i - n]
    BY ConcatProperties, LenProperties
  <1> HIDE DEF u, n
  <1>2. /\ Places(a, u, 0) = Places(a, s, 0) \cup Places(a, u, n)
        /\ Places(a, s, 0) \cap Places(a, u, n) = {}
    BY <1>1 DEF Places, n
  <1>3. IsFiniteSet(Places(a, t, 0)) /\ IsFiniteSet(Places(a, s, 0)) /\ IsFiniteSet(Places(a, u, n))
        /\ After(a, t, 0) \in Nat /\ After(a, s, 0) \in Nat /\ After(a, u, n) \in Nat
    BY <1>1, AfterNat DEF n
  <1>4. After(a, u, n) = After(a, t, 0)
    <2> DEFINE f == [i \in Places(a, t, 0) |-> i + n]
    <2>1. f \in [Places(a, t, 0) -> Places(a, u, n)]
      BY <1>1 DEF Places
    <2>2. \A x, y \in Places(a, t, 0) : f[x] = f[y] => x = y
      BY <1>1 DEF Places
    <2>3. ASSUME NEW y \in Places(a, u, n) PROVE \E x \in Places(a, t, 0) : f[x] = y
      <3>1. y - n \in Places(a, t, 0) /\ y \in Int
        BY <1>1, <2>3 DEF Places
      <3>2. f[y - n] = y
        BY <1>1, <3>1
      <3> QED BY <3>1, <3>2
    <2> HIDE DEF f
    <2> QED BY <1>3, <2>1, <2>2, <2>3, SameSize DEF After
  <1>5. After(a, u, 0) = After(a, s, 0) + After(a, u, n)
    <2>1. Cardinality(Places(a, s, 0) \cap Places(a, u, n)) = 0
      BY <1>2, FS_EmptySet
    <2>2. Cardinality(Places(a, s, 0) \cup Places(a, u, n))
            = After(a, s, 0) + After(a, u, n) - Cardinality(Places(a, s, 0) \cap Places(a, u, n))
      BY <1>3, FS_Union DEF After
    <2>3. After(a, u, 0) = Cardinality(Places(a, s, 0) \cup Places(a, u, n))
      BY <1>2 DEF After
    <2> QED BY <1>3, <2>1, <2>2, <2>3
  <1> QED BY <1>1, <1>4, <1>5, AfterOccurrences DEF u

(* A batch that is shuffled: t has the elements of s in another order.     *)
Shuffled(s, t) ==
    /\ t \in Seq(Addrs) /\ Len(t) = Len(s)
    /\ \A a : Occurrences(a, t) = Occurrences(a, s)
    /\ Homogeneous(s) => Homogeneous(t)

LEMMA PermutedIsShuffled ==
    ASSUME NEW s \in Seq(Addrs), NEW f \in [1..Len(s) -> 1..Len(s)], IsInjective(f)
    PROVE  Shuffled(s, [i \in 1..Len(s) |-> s[f[i]]])
  <1> DEFINE n == Len(s)
             t == [i \in 1..n |-> s[f[i]]]
  <1>1. n \in Nat /\ DOMAIN s = 1..n /\ \A i \in 1..n : s[i] \in Addrs
    BY LenProperties, ElementOfSeq
  <1>2. t \in Seq(Addrs) /\ Len(t) = n /\ DOMAIN t = 1..n
    <2>1. t \in [1..n -> Addrs]
      BY <1>1
    <2>2. t \in Seq(Addrs)
      BY <1>1, <2>1, IsASeq
    <2> QED BY <1>1, <2>1, <2>2, LenProperties
  <1>3. \A j \in 1..n : \E i \in 1..n : f[i] = j
    <2>1. IsFiniteSet(1..n)
      BY <1>1, FS_Interval
    <2>2. f \in Injection(1..n, 1..n)
      BY DEF Injection
    <2>3. f \in Surjection(1..n, 1..n)
      BY <2>1, <2>2, FS_Injection
    <2> QED BY <2>3 DEF Surjection
  <1>4. \A x, y \in 1..n : f[x] = f[y] => x = y
    BY DEF IsInjective
  <1>5. \A i \in 1..n : t[i] = s[f[i]]
    OBVIOUS
  <1> HIDE DEF t
  <1>6. ASSUME NEW a PROVE Occurrences(a, t) = Occurrences(a, s)
    <2> DEFINE g == [i \in Places(a, t, 0) |-> f[i]]
    <2>1. Places(a, t, 0) = {i \in 1..n : s[f[i]] = a} /\ Places(a, s, 0) = {i \in 1..n : s[i] = a}
      BY <1>1, <1>2, <1>5 DEF Places
    <2>2. g \in [Places(a, t, 0) -> Places(a, s, 0)]
      BY <2>1
    <2>3. \A x, y \in Places(a, t, 0) : g[x] = g[y] => x = y
      BY <1>4, <2>1
    <2>4. \A y \in Places(a, s, 0) : \E x \in Places(a, t, 0) : g[x] = y
      BY <1>3, <2>1
    <2>5. IsFiniteSet(Places(a, t, 0))
      BY <1>1, <1>2, AfterNat
    <2> HIDE DEF g
    <2>6. After(a, t, 0) = After(a, s, 0)
      BY <2>2, <2>3, <2>4, <2>5, SameSize DEF After
    <2> QED BY <1>2, <2>6, AfterOccurrences
  <1>7. ASSUME Homogeneous(s) PROVE Homogeneous(t)
    BY <1>1, <1>2, <1>4, <1>5, <1>7 DEF Homogeneous
  <1>8. Shuffled(s, t)
    BY <1>2, <1>6, <1>7 DEF Shuffled
  <1> QED BY <1>8 DEF t

-----------------------------------------------------------------------------
(* What holds in each phase: while a batch is filled nothing of it has     *)
(* been handed out and neither it nor the defer buffer is full, and a host *)
(* is deferred only because the batch has one it does not go with.         *)
Stage ==
    /\ phase = "fill" => /\ nextNo = 0 /\ Len(batch.addrs) < BatchSize
                         /\ Len(deferBuffer) < DeferLimit
                         /\ batch.addrs = <<>> => deferBuffer = <<>>
    /\ phase = "group" /\ MaxIps > 0 => numScanned < MaxIps
    /\ phase = "report" => targets # <<>>

GroupInv == TypeOK /\ Stage /\ GroupsRight

(* Every place an address can be in: it is done with or in the group, it   *)
(* is in the batch or was put off, or it waits for its turn.               *)
Held(a) == decided[a] + Occurrences(a, targets)
Batched(a) == After(a, batch.addrs, nextNo) + Occurrences(a, deferBuffer)
Waiting(a) == Occurrences(a, undeferred) + After(a, Specs, taken) + Occurrences(a, newTargets.queue)
Total(a) == Held(a) + Batched(a) + Waiting(a)
Asked(a) == Occurrences(a, Specs) + One(a \in newTargets.history)

Balance ==
    crashes = 0 => /\ resume = NoAddr
                   /\ \A a \in Addrs \ Skipped : Total(a) = Asked(a)

(* Nothing is left when a group stays empty.                               *)
Exhausted ==
    /\ nextNo = Len(batch.addrs) /\ deferBuffer = <<>> /\ undeferred = <<>>
    /\ targets = <<>> /\ taken = Len(Specs) /\ newTargets.queue = <<>>
Ending ==
    /\ phase \in {"gather", "fill"} => ideal > 0
    /\ phase = "scan" /\ targets = <<>> => Exhausted
    /\ phase = "over" => Exhausted

-----------------------------------------------------------------------------
(* How a batch is filled.                                                  *)

BatchTyped ==
    /\ batch \in [addrs : Seq(Addrs), up : SUBSET (1..BatchSize)]
    /\ batch.up \subseteq DOMAIN batch.addrs

LEMMA AppendHomogeneous ==
    ASSUME NEW s \in Seq(Addrs), NEW x \in Addrs, Homogeneous(s), RawScan,
           ~target_needs_new_hostgroup(s, x)
    PROVE  Homogeneous(Append(s, x))
  <1> DEFINE t == Append(s, x)
  <1>1. /\ Len(t) = Len(s) + 1 /\ Len(s) \in Nat /\ DOMAIN t = 1..Len(t) /\ DOMAIN s = 1..Len(s)
        /\ \A i \in 1..Len(s) : t[i] = s[i]
        /\ t[Len(s) + 1] = x
    BY AppendProperties, LenProperties
  <1>2. s = <<>> \/ Len(s) > 0
    BY LenProperties, EmptySeq
  <1>3. s = <<>> \/ (Kind[s[1]] = Kind[x] /\ \A i \in 1..Len(s) : s[i] # x)
    BY <1>1 DEF target_needs_new_hostgroup, ToSet
  <1>4. \A i, j \in 1..Len(s) : i # j => Kind[s[i]] = Kind[s[j]] /\ s[i] # s[j]
    BY <1>1 DEF Homogeneous
  <1> HIDE DEF t
  <1>5. \A i \in 1..Len(s) : Kind[s[i]] = Kind[x] /\ s[i] # x
    BY <1>1, <1>2, <1>3, <1>4
  <1>6. Homogeneous(t)
    BY <1>1, <1>4, <1>5 DEF Homogeneous
  <1> QED BY <1>6 DEF t

LEMMA PingShuffles ==
    ASSUME NEW s \in Seq(Addrs), Len(s) <= BatchSize, HostGroupAssumption, Ping(s)
    PROVE  Shuffled(s, batch'.addrs) /\ BatchTyped'
  <1> DEFINE n == Len(s)
  <1>1. n \in Nat /\ BatchSize \in Nat
    BY LenProperties DEF HostGroupAssumption
  <1>2. \E f \in [1..n -> 1..n] : \E up \in SUBSET (1..n) :
            IsInjective(f) /\ batch' = [addrs |-> [i \in 1..n |-> s[f[i]]], up |-> up]
    <2>1. [i \in 1..n |-> i] \in [1..n -> 1..n] /\ IsInjective([i \in 1..n |-> i])
      BY DEF IsInjective
    <2> QED BY <2>1 DEF Ping
  <1>3. PICK f \in [1..n -> 1..n] : \E up \in SUBSET (1..n) :
            IsInjective(f) /\ batch' = [addrs |-> [i \in 1..n |-> s[f[i]]], up |-> up]
    BY <1>2
  <1>4. PICK up \in SUBSET (1..n) :
            IsInjective(f) /\ batch' = [addrs |-> [i \in 1..n |-> s[f[i]]], up |-> up]
    BY <1>3
  <1>5. PICK t : t = [i \in 1..n |-> s[f[i]]]
    OBVIOUS
  <1>6. Shuffled(s, t)
    BY <1>4, <1>5, PermutedIsShuffled
  <1>7. batch' = [addrs |-> t, up |-> up]
    BY <1>4, <1>5
  <1>8. t \in Seq(Addrs) /\ DOMAIN t = 1..n
    BY <1>6, LenProperties DEF Shuffled
  <1>9. up \subseteq 1..BatchSize
    BY <1>1
  <1> QED BY <1>6, <1>7, <1>8, <1>9 DEF BatchTyped

(* What Place does with an address.                                        *)
Placed(a) ==
    /\ BatchTyped' /\ phase' \in {"gather", "fill"}
    /\ deferBuffer' \in Seq(Addrs) /\ Len(deferBuffer') <= Len(deferBuffer) + 1
    /\ phase' = "fill" => /\ Len(batch'.addrs) < BatchSize /\ Len(deferBuffer') < DeferLimit
                          /\ batch'.addrs # <<>>
    /\ RawScan => Homogeneous(batch'.addrs)
    /\ \A b : Occurrences(b, batch'.addrs) + Occurrences(b, deferBuffer')
                = Occurrences(b, batch.addrs) + Occurrences(b, deferBuffer) + One(a = b)

LEMMA PlaceWorks ==
    ASSUME GroupInv, phase = "fill", NEW a \in Addrs, Place(a), HostGroupAssumption
    PROVE  Placed(a)
  <1> DEFINE away == target_needs_new_hostgroup(batch.addrs, a)
  <1>1. /\ BatchTyped /\ batch.addrs \in Seq(Addrs) /\ deferBuffer \in Seq(Addrs)
        /\ Len(batch.addrs) < BatchSize /\ Len(deferBuffer) < DeferLimit
        /\ BatchSize \in Nat /\ DeferLimit \in Nat
        /\ RawScan => Homogeneous(batch.addrs)
    BY DEF GroupInv, TypeOK, Stage, GroupsRight, GroupsHomogeneous, BatchTyped, HostGroupAssumption
  <1>2. PICK s : s = IF away THEN batch.addrs ELSE Append(batch.addrs, a)
    OBVIOUS
  <1>3. PICK d : d = IF away THEN Append(deferBuffer, a) ELSE deferBuffer
    OBVIOUS
  <1>4. PICK full \in BOOLEAN : full <=> (Len(s) = BatchSize \/ (away /\ Len(d) >= DeferLimit))
    OBVIOUS
  <1>5. /\ phase' = IF full THEN "gather" ELSE "fill"
        /\ deferBuffer' = d
        /\ full => Ping(s)
        /\ ~full => batch' = [batch EXCEPT !.addrs = s]
    BY <1>2, <1>3, <1>4 DEF Place
  <1>6. /\ s \in Seq(Addrs) /\ d \in Seq(Addrs)
        /\ Len(s) \in Nat /\ Len(d) \in Nat /\ Len(s) <= BatchSize
        /\ Len(s) >= Len(batch.addrs) /\ Len(d) <= Len(deferBuffer) + 1
        /\ ~away => d = deferBuffer
    BY <1>1, <1>2, <1>3, AppendProperties, LenProperties
  <1>7. s # <<>>
    <2>1. CASE away
      BY <1>2, <2>1 DEF target_needs_new_hostgroup
    <2>2. CASE ~away
      BY <1>1, <1>2, <2>2, AppendProperties, LenProperties, EmptySeq
    <2> QED BY <2>1, <2>2
  <1>8. RawScan => Homogeneous(s)
    BY <1>1, <1>2, AppendHomogeneous
  <1>9. ASSUME NEW b
        PROVE  Occurrences(b, s) + Occurrences(b, d)
                 = Occurrences(b, batch.addrs) + Occurrences(b, deferBuffer) + One(a = b)
    <2>1. Occurrences(b, batch.addrs) \in Nat /\ Occurrences(b, deferBuffer) \in Nat /\ One(a = b) \in Nat
      BY <1>1, AfterOccurrences DEF One
    <2>2. /\ Occurrences(b, Append(batch.addrs, a)) = Occurrences(b, batch.addrs) + One(a = b)
          /\ Occurrences(b, Append(deferBuffer, a)) = Occurrences(b, deferBuffer) + One(a = b)
      BY <1>1, OccAppend
    <2> HIDE DEF away
    <2> QED BY <1>2, <1>3, <2>1, <2>2
  <1>10. Shuffled(s, batch'.addrs) /\ BatchTyped'
    <2>1. CASE full
      BY <1>5, <1>6, <2>1, PingShuffles
    <2>2. CASE ~full
      <3>1. batch'.addrs = s /\ batch' = [addrs |-> s, up |-> batch.up]
        BY <1>1, <1>5, <2>2 DEF BatchTyped
      <3>2. DOMAIN s = 1..Len(s) /\ DOMAIN batch.addrs = 1..Len(batch.addrs) /\ Len(batch.addrs) \in Nat
        BY <1>1, <1>6, LenProperties
      <3>3. batch.up \subseteq DOMAIN s
        BY <1>1, <1>6, <3>2 DEF BatchTyped
      <3> QED BY <1>1, <1>6, <3>1, <3>3 DEF BatchTyped, Shuffled
    <2> QED BY <2>1, <2>2
  <1>11. phase' = "fill" => ~full /\ Len(s) < BatchSize /\ Len(d) < DeferLimit
    BY <1>1, <1>4, <1>5, <1>6
  <1>12. phase' = "fill" => batch'.addrs # <<>>
    <2>1. Len(s) # 0
      BY <1>6, <1>7, EmptySeq
    <2> QED BY <1>10, <2>1 DEF Shuffled
  <1> HIDE DEF away
  <1> QED BY <1>5, <1>6, <1>8, <1>9, <1>10, <1>11, <1>12 DEF Placed, Shuffled

-----------------------------------------------------------------------------
(* Every action keeps the groups right.                                    *)

LEMMA TakenKeeps ==
    ASSUME GroupInv, HostGroupAssumption, phase = "fill", NEW a \in Addrs, Place(a),
           UNCHANGED <<nextNo, groupVars>>,
           taken' \in 0..Len(Specs), resume' \in Addrs \cup {NoAddr},
           newTargets' \in [queue : Seq(NewAddrs), history : SUBSET NewAddrs],
           undeferred' \in Seq(Addrs),
           Len(undeferred') < Len(undeferred) \/ undeferred' = <<>>
    PROVE  GroupInv'
  <1>1. Placed(a)
    BY PlaceWorks
  <1>2. /\ Len(deferBuffer) \in Nat /\ Len(undeferred) \in Nat
        /\ Len(deferBuffer') \in Nat /\ Len(undeferred') \in Nat
    BY <1>1, LenProperties DEF GroupInv, TypeOK, Placed
  <1>3. Len(deferBuffer') + Len(undeferred') <= DeferLimit
    <2>1. Len(deferBuffer) < DeferLimit /\ DeferLimit \in Nat /\ Len(deferBuffer) + Len(undeferred) <= DeferLimit
      BY DEF GroupInv, Stage, GroupsRight, DeferBounded, HostGroupAssumption
    <2>2. Len(<<>>) = 0
      BY EmptySeq
    <2> QED BY <1>1, <1>2, <2>1, <2>2 DEF Placed
  <1>4. nextNo' \in 0..Len(batch'.addrs)
    <2>1. batch'.addrs \in Seq(Addrs)
      BY <1>1 DEF Placed, BatchTyped
    <2>2. Len(batch'.addrs) \in Nat
      BY <2>1, LenProperties
    <2> QED BY <2>2 DEF GroupInv, Stage
  <1>5. TypeOK'
    BY <1>1, <1>4 DEF GroupInv, TypeOK, Placed, BatchTyped, groupVars
  <1>6. Stage'
    BY <1>1 DEF GroupInv, Stage, Placed, groupVars
  <1>7. GroupsRight'
    BY <1>1, <1>3 DEF GroupInv, GroupsRight, GroupsHomogeneous, NumUpExact, DeferBounded, Placed, groupVars
  <1> QED BY <1>5, <1>6, <1>7 DEF GroupInv

LEMMA ConsideredKeeps ==
    ASSUME GroupInv, HostGroupAssumption, phase = "fill", undeferred = <<>>,
           NEW a \in Addrs, Consider(a), taken' \in 0..Len(Specs),
           newTargets' \in [queue : Seq(NewAddrs), history : SUBSET NewAddrs]
    PROVE  GroupInv'
  <1>1. /\ resume' \in Addrs \cup {NoAddr} /\ UNCHANGED <<nextNo, undeferred, groupVars>>
        /\ undeferred' \in Seq(Addrs)
    BY DEF Consider, GroupInv, TypeOK
  <1>2. CASE Place(a)
    BY <1>1, <1>2, TakenKeeps
  <1>3. CASE UNCHANGED <<phase, batch, deferBuffer>>
    BY <1>1, <1>3 DEF GroupInv, TypeOK, Stage, GroupsRight, GroupsHomogeneous, NumUpExact,
                      DeferBounded, groupVars
  <1> QED BY <1>2, <1>3 DEF Consider

LEMMA LeastOfTwo ==
    ASSUME NEW x \in Nat, NEW y \in Nat
    PROVE  Min({x, y}) \in Nat
  <1>1. \E z \in {x, y} : \A w \in {x, y} : z <= w
    OBVIOUS
  <1> QED BY <1>1 DEF Min

LEMMA FillKeeps ==
    ASSUME GroupInv, HostGroupAssumption,
           Refresh \/ TakeUndeferred \/ TakeSpec \/ TakeNew \/ EndFill
    PROVE  GroupInv'
  <1> USE DEF GroupInv
  <1>1. CASE Refresh
    <2>1. /\ phase' = "fill" /\ batch' = [addrs |-> <<>>, up |-> {}] /\ nextNo' = 0
          /\ undeferred' = undeferred \o deferBuffer /\ deferBuffer' = <<>>
          /\ UNCHANGED <<taken, resume, newTargets, targets, ideal, numScanned, numUp, lastLogged,
                         crashes, decided, decidedUp>>
      BY <1>1 DEF Refresh, groupVars
    <2>2. undeferred \o deferBuffer \in Seq(Addrs) /\ Len(deferBuffer) \in Nat /\ Len(undeferred) \in Nat
          /\ Len(undeferred \o deferBuffer) = Len(undeferred) + Len(deferBuffer)
      BY ConcatProperties, LenProperties DEF TypeOK
    <2>3. <<>> \in Seq(Addrs) /\ Len(<<>>) = 0
      OBVIOUS
    <2>4. batch'.addrs = <<>> /\ BatchTyped'
      BY <2>1, <2>3 DEF BatchTyped
    <2>5. TypeOK'
      BY <2>1, <2>2, <2>3, <2>4 DEF TypeOK, BatchTyped
    <2>6. Stage'
      BY <2>1, <2>3, <2>4 DEF Stage, HostGroupAssumption
    <2>7. Homogeneous(<<>>)
      BY DEF Homogeneous
    <2>8. GroupsRight'
      BY <2>1, <2>2, <2>3, <2>4, <2>7
      DEF GroupsRight, GroupsHomogeneous, NumUpExact, DeferBounded
    <2> QED BY <2>5, <2>6, <2>8
  <1>2. CASE TakeUndeferred
    <2>1. /\ phase = "fill" /\ undeferred # <<>> /\ undeferred' = Tail(undeferred)
          /\ Place(Head(undeferred)) /\ UNCHANGED <<nextNo, groupVars>>
          /\ UNCHANGED <<taken, resume, newTargets>>
      BY <1>2 DEF TakeUndeferred
    <2>2. Head(undeferred) \in Addrs /\ Tail(undeferred) \in Seq(Addrs)
          /\ Len(Tail(undeferred)) = Len(undeferred) - 1 /\ Len(undeferred) \in Nat
      BY <2>1, HeadTailProperties, LenProperties DEF TypeOK
    <2>3. taken' \in 0..Len(Specs) /\ resume' \in Addrs \cup {NoAddr}
          /\ newTargets' \in [queue : Seq(NewAddrs), history : SUBSET NewAddrs]
      BY <2>1 DEF TypeOK
    <2> QED BY <2>1, <2>2, <2>3, TakenKeeps
  <1>3. CASE TakeSpec
    <2>1. Len(Specs) \in Nat /\ \A i \in 1..Len(Specs) : Specs[i] \in Addrs
      BY LenProperties, ElementOfSeq DEF HostGroupAssumption, Addrs
    <2>2. phase = "fill" /\ undeferred = <<>> /\ taken < Len(Specs) /\ taken' = taken + 1
          /\ Consider(Specs[taken + 1]) /\ newTargets' = newTargets
      BY <1>3 DEF TakeSpec
    <2>3. Specs[taken + 1] \in Addrs /\ taken' \in 0..Len(Specs)
      BY <2>1, <2>2 DEF TypeOK
    <2>4. newTargets' \in [queue : Seq(NewAddrs), history : SUBSET NewAddrs]
      BY <2>2 DEF TypeOK
    <2> QED BY <2>2, <2>3, <2>4, ConsideredKeeps
  <1>4. CASE TakeNew
    <2>1. phase = "fill" /\ undeferred = <<>> /\ newTargets.queue # <<>>
          /\ newTargets' = [newTargets EXCEPT !.queue = Tail(@)]
          /\ Consider(Head(newTargets.queue)) /\ taken' = taken
      BY <1>4 DEF TakeNew
    <2>2. newTargets.queue \in Seq(NewAddrs) /\ newTargets.history \in SUBSET NewAddrs
      BY DEF TypeOK
    <2>3. Head(newTargets.queue) \in Addrs /\ Tail(newTargets.queue) \in Seq(NewAddrs)
      BY <2>1, <2>2, HeadTailProperties DEF Addrs
    <2>4. newTargets' \in [queue : Seq(NewAddrs), history : SUBSET NewAddrs]
      BY <2>1, <2>2, <2>3 DEF TypeOK
    <2>5. taken' \in 0..Len(Specs)
      BY <2>1 DEF TypeOK
    <2> QED BY <2>1, <2>3, <2>4, <2>5, ConsideredKeeps
  <1>5. CASE EndFill
    <2>1. /\ phase = "fill" /\ phase' \in {"scan", "gather"} /\ Ping(batch.addrs)
          /\ UNCHANGED <<taken, resume, newTargets, nextNo, deferBuffer, undeferred, targets, ideal,
                         numScanned, numUp, lastLogged, crashes, decided, decidedUp>>
      BY <1>5 DEF EndFill, groupVars
    <2>2. batch.addrs \in Seq(Addrs) /\ Len(batch.addrs) \in Nat /\ nextNo = 0
          /\ Len(batch.addrs) <= BatchSize
      BY <2>1, LenProperties DEF TypeOK, Stage, HostGroupAssumption
    <2>3. Shuffled(batch.addrs, batch'.addrs) /\ BatchTyped'
      BY <2>1, <2>2, PingShuffles
    <2>4. nextNo' \in 0..Len(batch'.addrs)
      BY <2>1, <2>2, <2>3 DEF Shuffled
    <2>5. TypeOK'
      BY <2>1, <2>3, <2>4 DEF TypeOK, BatchTyped
    <2>6. Stage'
      BY <2>1 DEF Stage
    <2>7. GroupsRight'
      BY <2>1, <2>3 DEF GroupsRight, GroupsHomogeneous, NumUpExact, DeferBounded, Shuffled
    <2> QED BY <2>5, <2>6, <2>7
  <1> QED BY <1>1, <1>2, <1>3, <1>4, <1>5

(* The host that Gather handles.                                           *)
LEMMA Gathered ==
    ASSUME GroupInv, Gather
    PROVE  \E a \in Addrs, up \in BOOLEAN :
              /\ a = batch.addrs[nextNo + 1]
              /\ phase = "gather" /\ Len(targets) < ideal /\ nextNo < Len(batch.addrs)
              /\ \/ Dispose(a, up)
                 \/ ReturnHost /\ targets # <<>>
                 \/ AddHost(a) /\ ~target_needs_new_hostgroup(targets, a)
              /\ UNCHANGED <<taken, resume, newTargets, batch, deferBuffer, undeferred>>
  <1>1. batch.addrs \in Seq(Addrs) /\ Len(batch.addrs) \in Nat /\ nextNo \in Nat
    BY LenProperties DEF GroupInv, TypeOK
  <1>2. phase = "gather" /\ Len(targets) < ideal /\ nextNo < Len(batch.addrs)
        /\ UNCHANGED <<taken, resume, newTargets, batch, deferBuffer, undeferred>>
    BY DEF Gather
  <1>3. PICK a : a = batch.addrs[nextNo + 1]
    OBVIOUS
  <1>4. a \in Addrs
    BY <1>1, <1>2, <1>3, ElementOfSeq
  <1>5. PICK up \in BOOLEAN : up <=> nextNo + 1 \in batch.up
    OBVIOUS
  <1>6. \/ Dispose(a, up)
        \/ ReturnHost /\ targets # <<>>
        \/ AddHost(a) /\ ~target_needs_new_hostgroup(targets, a)
    <2>1. Dispose(a, nextNo + 1 \in batch.up) => Dispose(a, up)
      BY <1>5 DEF Dispose
    <2>2. \/ Dispose(a, nextNo + 1 \in batch.up)
          \/ ReturnHost /\ target_needs_new_hostgroup(targets, a)
          \/ AddHost(a) /\ ~target_needs_new_hostgroup(targets, a)
      BY <1>3 DEF Gather
    <2> QED BY <2>1, <2>2 DEF target_needs_new_hostgroup
  <1> QED BY <1>2, <1>3, <1>4, <1>6

LEMMA GatherKeeps ==
    ASSUME GroupInv, HostGroupAssumption, Gather
    PROVE  GroupInv'
  <1> USE DEF GroupInv
  <1>1. PICK a \in Addrs, up \in BOOLEAN :
              /\ a = batch.addrs[nextNo + 1]
              /\ phase = "gather" /\ Len(targets) < ideal /\ nextNo < Len(batch.addrs)
              /\ \/ Dispose(a, up)
                 \/ ReturnHost /\ targets # <<>>
                 \/ AddHost(a) /\ ~target_needs_new_hostgroup(targets, a)
              /\ UNCHANGED <<taken, resume, newTargets, batch, deferBuffer, undeferred>>
    BY Gathered
  <1>2. /\ Len(batch.addrs) \in Nat /\ nextNo \in Nat /\ nextNo + 1 \in 0..Len(batch.addrs)
        /\ targets \in Seq(Addrs) /\ Len(targets) \in Nat
        /\ numScanned \in Nat /\ numUp \in Nat /\ decidedUp \in Nat
        /\ decided \in [Addrs -> Nat]
        /\ numUp = decidedUp + Len(targets)
    BY <1>1, LenProperties, SMTT(30) DEF TypeOK, GroupsRight, NumUpExact
  <1>3. CASE Dispose(a, up)
    <2>1. /\ nextNo' = nextNo + 1 /\ numScanned' = numScanned + 1
          /\ numUp' = numUp + One(up) /\ decidedUp' = decidedUp + One(up) /\ One(up) \in Nat
          /\ decided' = [decided EXCEPT ![a] = @ + 1]
          /\ lastLogged' \in {a, lastLogged} /\ phase' \in {"gather", "scan"}
          /\ UNCHANGED <<targets, ideal, crashes>>
      BY <1>3 DEF Dispose, One
    <2>2. decided' \in [Addrs -> Nat]
      BY <1>2, <2>1
    <2>3. numScanned' \in Nat /\ numUp' \in Nat /\ decidedUp' \in Nat /\ numUp' = decidedUp' + Len(targets)
      BY <1>2, <2>1, SMTT(30)
    <2>4. TypeOK'
      BY <1>1, <1>2, <2>1, <2>2, <2>3 DEF TypeOK
    <2>5. Stage' /\ GroupsRight'
      BY <1>1, <2>1, <2>3 DEF Stage, GroupsRight, GroupsHomogeneous, NumUpExact, DeferBounded
    <2> QED BY <2>4, <2>5
  <1>4. CASE ReturnHost
    BY <1>1, <1>4 DEF ReturnHost, groupVars, TypeOK, Stage, GroupsRight, GroupsHomogeneous,
                      NumUpExact, DeferBounded
  <1>5. CASE AddHost(a) /\ ~target_needs_new_hostgroup(targets, a)
    <2>1. /\ nextNo' = nextNo + 1 /\ targets' = Append(targets, a) /\ numUp' = numUp + 1
          /\ UNCHANGED <<phase, ideal, numScanned, lastLogged, crashes, decided, decidedUp>>
      BY <1>5 DEF AddHost
    <2>2. targets' \in Seq(Addrs) /\ Len(targets') = Len(targets) + 1
      BY <1>2, <2>1, AppendProperties
    <2>3. RawScan => Homogeneous(targets')
      BY <1>2, <1>5, <2>1, AppendHomogeneous DEF GroupsRight, GroupsHomogeneous
    <2>4. numUp' \in Nat /\ numUp' = decidedUp + Len(targets')
      BY <1>2, <2>1, <2>2
    <2>5. TypeOK'
      BY <1>1, <1>2, <2>1, <2>2, <2>4 DEF TypeOK
    <2>6. Stage' /\ GroupsRight'
      BY <1>1, <2>1, <2>3, <2>4 DEF Stage, GroupsRight, GroupsHomogeneous, NumUpExact, DeferBounded
    <2> QED BY <2>5, <2>6
  <1> QED BY <1>1, <1>3, <1>4, <1>5

LEMMA ReportKeeps ==
    ASSUME GroupInv, HostGroupAssumption, Report
    PROVE  GroupInv'
  <1> USE DEF GroupInv
  <1>1. PICK a : a = Head(targets)
    OBVIOUS
  <1>2. /\ phase = "report" /\ targets # <<>> /\ lastLogged' = a
        /\ decided' = [decided EXCEPT ![a] = @ + 1] /\ decidedUp' = decidedUp + 1
        /\ targets' = Tail(targets) /\ numScanned' = numScanned + 1
        /\ phase' = IF Len(targets) > 1 THEN "report"
                    ELSE IF MaxIps = 0 \/ MaxIps > numScanned + 1 THEN "group" ELSE "over"
        /\ UNCHANGED <<taken, resume, newTargets, batch, nextNo, deferBuffer, undeferred, ideal, numUp, crashes>>
    BY <1>1 DEF Report, fillVars
  <1>3. targets \in Seq(Addrs) /\ Len(targets) \in Nat
        /\ numScanned \in Nat /\ numUp \in Nat /\ decidedUp \in Nat /\ decided \in [Addrs -> Nat]
        /\ numUp = decidedUp + Len(targets)
    BY LenProperties DEF TypeOK, GroupsRight, NumUpExact
  <1>4. a \in Addrs /\ targets' \in Seq(Addrs) /\ Len(targets') = Len(targets) - 1
        /\ \A i \in 1..Len(targets') : targets'[i] = targets[i + 1]
    BY <1>1, <1>2, <1>3, HeadTailProperties
  <1>5. Len(targets') \in Nat /\ DOMAIN targets' = 1..Len(targets') /\ DOMAIN targets = 1..Len(targets)
    BY <1>3, <1>4, LenProperties
  <1>6. decided' \in [Addrs -> Nat] /\ numScanned' \in Nat /\ decidedUp' \in Nat
    BY <1>2, <1>3, <1>4
  <1>7. TypeOK'
    BY <1>2, <1>4, <1>6 DEF TypeOK
  <1>8. Stage'
    <2>1. phase' = "report" => targets' # <<>>
      <3>1. phase' = "report" => Len(targets') > 0
        BY <1>2, <1>3, <1>4
      <3>2. Len(<<>>) = 0
        OBVIOUS
      <3> QED BY <3>1, <3>2
    <2>2. phase' = "group" /\ MaxIps > 0 => numScanned' < MaxIps
      BY <1>2, <1>3 DEF HostGroupAssumption
    <2> QED BY <1>2, <2>1, <2>2 DEF Stage
  <1>9. ASSUME RawScan PROVE Homogeneous(targets')
    <2>1. \A i, j \in 1..Len(targets) : i # j => Kind[targets[i]] = Kind[targets[j]] /\ targets[i] # targets[j]
      BY <1>5, <1>9 DEF GroupsRight, GroupsHomogeneous, Homogeneous
    <2>2. \A i \in 1..Len(targets') : i + 1 \in 1..Len(targets)
      BY <1>3, <1>4
    <2> QED BY <1>4, <1>5, <2>1, <2>2, SMTT(30) DEF Homogeneous
  <1>10. GroupsRight'
    <2>1. numUp' = decidedUp' + Len(targets')
      BY <1>2, <1>3, <1>4
    <2> QED BY <1>2, <1>9, <2>1 DEF GroupsRight, GroupsHomogeneous, NumUpExact, DeferBounded
  <1> QED BY <1>7, <1>8, <1>10

LEMMA FreshIsRight ==
    ASSUME GroupInv, HostGroupAssumption, Crash
    PROVE  GroupInv'
  <1> USE DEF GroupInv
  <1>1. /\ phase' = "group" /\ taken' = 0 /\ newTargets' = [queue |-> <<>>, history |-> {}]
        /\ batch' = [addrs |-> <<>>, up |-> {}] /\ nextNo' = 0
        /\ deferBuffer' = <<>> /\ undeferred' = <<>> /\ targets' = <<>> /\ ideal' = 0
        /\ numScanned' = 0 /\ numUp' = 0 /\ decidedUp' = 0
        /\ crashes' = crashes + 1 /\ crashes < MaxCrashes /\ resume' = lastLogged
        /\ UNCHANGED <<lastLogged, decided>>
    BY DEF Crash, Fresh
  <1>2. <<>> \in Seq(Addrs) /\ <<>> \in Seq(NewAddrs) /\ Len(<<>>) = 0 /\ Homogeneous(<<>>)
    BY DEF Homogeneous
  <1>3. Len(Specs) \in Nat
    BY LenProperties DEF HostGroupAssumption
  <1>4. batch'.addrs = <<>> /\ BatchTyped'
    BY <1>1, <1>2 DEF BatchTyped
  <1>5. newTargets' \in [queue : Seq(NewAddrs), history : SUBSET NewAddrs]
    BY <1>1, <1>2
  <1>6. crashes' \in 0..MaxCrashes
    BY <1>1 DEF TypeOK, HostGroupAssumption
  <1>7. TypeOK'
    BY <1>1, <1>2, <1>3, <1>4, <1>5, <1>6 DEF TypeOK, BatchTyped
  <1>8. Stage'
    BY <1>1 DEF Stage, HostGroupAssumption
  <1>9. GroupsRight'
    BY <1>1, <1>2, <1>4
    DEF GroupsRight, GroupsHomogeneous, NumUpExact, DeferBounded, HostGroupAssumption
  <1> QED BY <1>7, <1>8, <1>9

LEMMA InitIsRight ==
    ASSUME Init, HostGroupAssumption
    PROVE  GroupInv
  <1>2. <<>> \in Seq(Addrs) /\ <<>> \in Seq(NewAddrs) /\ Len(<<>>) = 0 /\ Homogeneous(<<>>)
    BY DEF Homogeneous
  <1>3. Len(Specs) \in Nat
    BY LenProperties DEF HostGroupAssumption
  <1>4. batch.addrs = <<>> /\ BatchTyped
    BY <1>2 DEF Init, BatchTyped
  <1>5. newTargets \in [queue : Seq(NewAddrs), history : SUBSET NewAddrs]
    BY <1>2 DEF Init
  <1>7. TypeOK
    BY <1>2, <1>3, <1>4, <1>5 DEF Init, TypeOK, BatchTyped, HostGroupAssumption
  <1>8. Stage
    BY DEF Init, Stage, HostGroupAssumption
  <1>9. GroupsRight
    BY <1>2, <1>4 DEF Init, GroupsRight, GroupsHomogeneous, NumUpExact, DeferBounded, HostGroupAssumption
  <1> QED BY <1>7, <1>8, <1>9 DEF GroupInv

LEMMA NextKeepsGroups ==
    ASSUME GroupInv, HostGroupAssumption, [Next]_vars
    PROVE  GroupInv'
  <1>1. CASE \E g \in GroupSizes : StartGroup(g)
    <2>1. PICK g \in GroupSizes : StartGroup(g)
      BY <1>1
    <2>2. ideal' \in Nat
      <3>1. MaxIps > 0 => numScanned < MaxIps
        BY <2>1 DEF GroupInv, Stage, StartGroup
      <3>2. g \in Nat /\ numScanned \in Nat /\ MaxIps \in Nat
        BY DEF GroupInv, TypeOK, HostGroupAssumption
      <3>3. MaxIps > 0 => MaxIps - numScanned \in Nat
        BY <3>1, <3>2
      <3> QED BY <2>1, <3>2, <3>3, LeastOfTwo DEF StartGroup
    <2> QED BY <2>1, <2>2 DEF GroupInv, StartGroup, fillVars, TypeOK, Stage, GroupsRight,
                              GroupsHomogeneous, NumUpExact, DeferBounded
  <1>2. CASE GroupFull
    BY <1>2 DEF GroupInv, GroupFull, fillVars, groupVars, TypeOK, Stage, GroupsRight,
                GroupsHomogeneous, NumUpExact, DeferBounded
  <1>3. CASE Scan
    BY <1>3 DEF GroupInv, Scan, fillVars, groupVars, TypeOK, Stage, GroupsRight,
                GroupsHomogeneous, NumUpExact, DeferBounded
  <1>4. CASE \E a \in NewAddrs : AddTarget(a)
    <2>1. PICK a \in NewAddrs : AddTarget(a)
      BY <1>4
    <2>2. newTargets.queue \in Seq(NewAddrs) /\ newTargets.history \in SUBSET NewAddrs
      BY DEF GroupInv, TypeOK
    <2>3. Append(newTargets.queue, a) \in Seq(NewAddrs)
      BY <2>2, AppendProperties
    <2>4. newTargets' \in [queue : Seq(NewAddrs), history : SUBSET NewAddrs]
      BY <2>1, <2>2, <2>3 DEF AddTarget
    <2> QED BY <2>1, <2>4 DEF GroupInv, AddTarget, groupVars, TypeOK, Stage, GroupsRight,
                              GroupsHomogeneous, NumUpExact, DeferBounded
  <1>5. CASE UNCHANGED vars
    BY <1>5 DEF GroupInv, vars, fillVars, groupVars, TypeOK, Stage, GroupsRight,
                GroupsHomogeneous, NumUpExact, DeferBounded
  <1> QED BY <1>1, <1>2, <1>3, <1>4, <1>5, FillKeeps, GatherKeeps, ReportKeeps, FreshIsRight
          DEF Next, Over

(* For any targets, batch sizes, group sizes and defer limit, and however  *)
(* often nmap is killed and resumed: the types are right, a batch is       *)
(* filled as refresh_hostbatch() means to, and the groups are right.       *)
THEOREM GroupInvariant == Spec => []GroupInv
  <1>1. Init => GroupInv
    BY InitIsRight, HostGroupAssumption
  <1>2. GroupInv /\ [Next]_vars => GroupInv'
    BY NextKeepsGroups, HostGroupAssumption
  <1> QED BY <1>1, <1>2, PTL DEF Spec

(* Every group and every batch that ultra_scan() gets in a raw scan uses   *)
(* one interface and has no address twice, numhosts_up is exact, and no    *)
(* more than DeferLimit hosts are deferred: target_needs_new_hostgroup(),  *)
(* returnhost() and refresh_hostbatch() of targets.cc.                     *)
THEOREM GroupsAreRight == Spec => []GroupsRight
  <1>1. GroupInv => GroupsRight
    BY DEF GroupInv
  <1> QED BY <1>1, GroupInvariant, PTL

-----------------------------------------------------------------------------
(* No target is lost or scanned twice.                                     *)

(* The total is over numbers.                                              *)
LEMMA SumTyped ==
    ASSUME GroupInv, HostGroupAssumption, NEW a \in Addrs
    PROVE  /\ decided[a] \in Nat /\ After(a, batch.addrs, nextNo) \in Nat
           /\ Occurrences(a, deferBuffer) \in Nat /\ Occurrences(a, undeferred) \in Nat
           /\ Occurrences(a, targets) \in Nat /\ After(a, Specs, taken) \in Nat
           /\ Occurrences(a, newTargets.queue) \in Nat /\ Occurrences(a, Specs) \in Nat
           /\ Held(a) \in Nat /\ Batched(a) \in Nat /\ Waiting(a) \in Nat
  <1>1. /\ batch.addrs \in Seq(Addrs) /\ deferBuffer \in Seq(Addrs) /\ undeferred \in Seq(Addrs)
        /\ targets \in Seq(Addrs) /\ newTargets.queue \in Seq(NewAddrs)
        /\ Specs \in Seq(ToSet(Specs)) /\ decided \in [Addrs -> Nat]
    BY DEF GroupInv, TypeOK, HostGroupAssumption
  <1>2. Len(batch.addrs) \in Nat /\ Len(Specs) \in Nat
    BY <1>1, LenProperties
  <1>3. nextNo \in Nat /\ taken \in Nat
    BY <1>2 DEF GroupInv, TypeOK
  <1>4. After(a, batch.addrs, nextNo) \in Nat /\ After(a, Specs, taken) \in Nat
    BY <1>2, <1>3, AfterNat
  <1>5. /\ Occurrences(a, deferBuffer) \in Nat /\ Occurrences(a, undeferred) \in Nat
        /\ Occurrences(a, targets) \in Nat /\ Occurrences(a, newTargets.queue) \in Nat
        /\ Occurrences(a, Specs) \in Nat
    BY <1>1, AfterOccurrences
  <1>6. decided[a] \in Nat
    BY <1>1
  <1>7. Held(a) \in Nat /\ Batched(a) \in Nat
    BY <1>4, <1>5, <1>6 DEF Held, Batched
  <1>8. Waiting(a) \in Nat
    BY <1>4, <1>5 DEF Waiting
  <1> QED BY <1>4, <1>5, <1>6, <1>7, <1>8

(* The same, after a step.                                                 *)
Numbers ==
    \A a \in Addrs :
        /\ Held(a) \in Nat /\ Batched(a) \in Nat /\ Waiting(a) \in Nat
        /\ Occurrences(a, undeferred) \in Nat /\ After(a, Specs, taken) \in Nat
        /\ Occurrences(a, newTargets.queue) \in Nat /\ Occurrences(a, targets) \in Nat
        /\ After(a, batch.addrs, nextNo) \in Nat

LEMMA NumbersNext == GroupInv' => Numbers'
  <1>1. GroupInv => Numbers
    BY SumTyped, HostGroupAssumption DEF Numbers
  <1> QED BY <1>1, PTL

(* What is left of a batch that is being filled is all of it.              *)
LEMMA WholeBatch ==
    ASSUME GroupInv, phase = "fill", NEW a
    PROVE  After(a, batch.addrs, nextNo) = Occurrences(a, batch.addrs)
  <1>1. nextNo = 0 /\ batch.addrs \in Seq(Addrs)
    BY DEF GroupInv, TypeOK, Stage
  <1> QED BY <1>1, AfterOccurrences

(* An address that is placed leaves the list it came from.                 *)
LEMMA PlaceBalances ==
    ASSUME GroupInv, HostGroupAssumption, phase = "fill", NEW x \in Addrs, Place(x),
           UNCHANGED <<nextNo, groupVars>>, NEW a \in Addrs
    PROVE  Batched(a)' = Batched(a) + One(x = a)
  <1>1. Placed(x)
    BY PlaceWorks
  <1>2. batch'.addrs \in Seq(Addrs) /\ deferBuffer' \in Seq(Addrs) /\ nextNo' = 0
    BY <1>1 DEF Placed, BatchTyped, GroupInv, Stage
  <1>3. After(a, batch'.addrs, nextNo') = Occurrences(a, batch'.addrs)
    BY <1>2, AfterOccurrences
  <1>4. After(a, batch.addrs, nextNo) = Occurrences(a, batch.addrs)
    BY WholeBatch
  <1>5. Occurrences(a, batch'.addrs) + Occurrences(a, deferBuffer')
          = Occurrences(a, batch.addrs) + Occurrences(a, deferBuffer) + One(x = a)
    BY <1>1 DEF Placed
  <1> QED BY <1>3, <1>4, <1>5 DEF Batched

LEMMA ConsiderBalances ==
    ASSUME GroupInv, HostGroupAssumption, phase = "fill", NEW x \in Addrs, Consider(x),
           resume = NoAddr, NEW a \in Addrs \ Skipped
    PROVE  Batched(a)' = Batched(a) + One(x = a)
  <1>1. UNCHANGED <<nextNo, groupVars>>
    BY DEF Consider
  <1>2. CASE Place(x)
    BY <1>1, <1>2, PlaceBalances
  <1>3. CASE x \in Skipped /\ UNCHANGED <<phase, batch, deferBuffer>>
    <2>1. Batched(a)' = Batched(a)
      BY <1>1, <1>3 DEF Batched
    <2>2. One(x = a) = 0
      BY <1>3 DEF One
    <2> QED BY <2>1, <2>2, SumTyped
  <1> QED BY <1>2, <1>3 DEF Consider

(* An address that moves from the waiting ones to the batch, or from the   *)
(* batch to the ones that are held, is counted once all the time.          *)
LEMMA TotalKept ==
    ASSUME GroupInv, HostGroupAssumption, NEW a \in Addrs, NEW b \in BOOLEAN,
           Asked(a)' = Asked(a), Total(a) = Asked(a),
           Held(a)' \in Nat, Batched(a)' \in Nat, Waiting(a)' \in Nat,
           \/ /\ Held(a)' = Held(a) /\ Batched(a)' = Batched(a) + One(b)
              /\ Waiting(a) = Waiting(a)' + One(b)
           \/ /\ Held(a)' = Held(a) + One(b) /\ Batched(a) = Batched(a)' + One(b)
              /\ Waiting(a)' = Waiting(a)
    PROVE  Total(a)' = Asked(a)'
  <1>1. Held(a) \in Nat /\ Batched(a) \in Nat /\ Waiting(a) \in Nat
    BY SumTyped
  <1>2. PICK o \in Nat : o = One(b)
    BY DEF One
  <1>3. PICK h \in Nat, k \in Nat, w \in Nat : h = Held(a)' /\ k = Batched(a)' /\ w = Waiting(a)'
    OBVIOUS
  <1>4. h + k + w = Held(a) + Batched(a) + Waiting(a)
    <2>1. CASE h = Held(a) /\ k = Batched(a) + o /\ Waiting(a) = w + o
      BY <1>1, <2>1
    <2>2. CASE h = Held(a) + o /\ Batched(a) = k + o /\ w = Waiting(a)
      BY <1>1, <2>2
    <2> QED BY <1>2, <1>3, <2>1, <2>2
  <1>5. Total(a)' = h + k + w
    BY <1>3 DEF Total
  <1> QED BY <1>4, <1>5 DEF Total

LEMMA FillBalances ==
    ASSUME GroupInv, GroupInv', HostGroupAssumption, Balance,
           Refresh \/ TakeUndeferred \/ TakeSpec \/ TakeNew \/ EndFill
    PROVE  Balance'
  <1> SUFFICES ASSUME crashes' = 0
               PROVE  resume' = NoAddr /\ \A a \in Addrs \ Skipped : Total(a)' = Asked(a)'
    BY DEF Balance
  <1>1. crashes = 0 /\ UNCHANGED <<targets, decided>>
    BY DEF Refresh, TakeUndeferred, TakeSpec, TakeNew, EndFill, Consider, groupVars
  <1>2. resume = NoAddr /\ \A a \in Addrs \ Skipped : Total(a) = Asked(a)
    BY <1>1 DEF Balance
  <1>3. ASSUME NEW a \in Addrs
        PROVE  /\ Held(a)' = Held(a)
               /\ Held(a)' \in Nat /\ Batched(a)' \in Nat /\ Waiting(a)' \in Nat
               /\ Occurrences(a, undeferred') \in Nat /\ After(a, Specs, taken') \in Nat
               /\ Occurrences(a, newTargets'.queue) \in Nat
               /\ Occurrences(a, undeferred) \in Nat /\ After(a, Specs, taken) \in Nat
               /\ Occurrences(a, newTargets.queue) \in Nat
    <2>1. Held(a)' = Held(a)
      BY <1>1 DEF Held
    <2>2. /\ Held(a)' \in Nat /\ Batched(a)' \in Nat /\ Waiting(a)' \in Nat
          /\ Occurrences(a, undeferred') \in Nat /\ After(a, Specs, taken') \in Nat
          /\ Occurrences(a, newTargets'.queue) \in Nat
      BY NumbersNext DEF Numbers
    <2> QED BY <2>1, <2>2, SumTyped
  <1>4. CASE Refresh
    <2>1. /\ batch'.addrs = <<>> /\ nextNo' = 0 /\ nextNo = Len(batch.addrs)
          /\ undeferred' = undeferred \o deferBuffer /\ deferBuffer' = <<>>
          /\ UNCHANGED <<taken, resume, newTargets>>
      BY <1>4 DEF Refresh
    <2>2. batch.addrs \in Seq(Addrs) /\ undeferred \in Seq(Addrs) /\ deferBuffer \in Seq(Addrs)
      BY DEF GroupInv, TypeOK
    <2>3. ASSUME NEW a \in Addrs \ Skipped PROVE Total(a)' = Asked(a)'
      <3>1. After(a, batch.addrs, nextNo) = 0
        BY <2>1, <2>2, AfterEnd, LenProperties
      <3>2. <<>> \in Seq(Addrs)
        OBVIOUS
      <3>3. After(a, batch'.addrs, nextNo') = 0 /\ Occurrences(a, deferBuffer') = 0
        BY <2>1, <3>2, AfterOccurrences, OccEmpty
      <3>4. Occurrences(a, undeferred') = Occurrences(a, undeferred) + Occurrences(a, deferBuffer)
            /\ Occurrences(a, deferBuffer) \in Nat
        BY <2>1, <2>2, OccConcat, SumTyped
      <3>5. Batched(a)' = 0 /\ Batched(a) = Occurrences(a, deferBuffer)
        BY <3>1, <3>3, <3>4 DEF Batched
      <3>6. Waiting(a)' = Waiting(a) + Occurrences(a, deferBuffer)
        BY <1>3, <2>1, <3>4 DEF Waiting
      <3>7. Asked(a)' = Asked(a)
        BY <2>1 DEF Asked
      <3>8. Held(a) \in Nat /\ Waiting(a) \in Nat
        BY SumTyped
      <3> QED BY <1>2, <1>3, <3>4, <3>5, <3>6, <3>7, <3>8 DEF Total
    <2> QED BY <1>2, <2>1, <2>3
  <1>5. CASE TakeUndeferred
    <2>1. /\ phase = "fill" /\ undeferred # <<>> /\ undeferred' = Tail(undeferred)
          /\ Place(Head(undeferred)) /\ UNCHANGED <<nextNo, groupVars>>
          /\ UNCHANGED <<taken, resume, newTargets>>
      BY <1>5 DEF TakeUndeferred
    <2>2. undeferred \in Seq(Addrs) /\ Head(undeferred) \in Addrs
      BY <2>1, HeadTailProperties DEF GroupInv, TypeOK
    <2>3. ASSUME NEW a \in Addrs \ Skipped PROVE Total(a)' = Asked(a)'
      <3>1. PICK b \in BOOLEAN : b <=> Head(undeferred) = a
        OBVIOUS
      <3>2. PICK o \in Nat : o = One(Head(undeferred) = a) /\ o = One(b)
        BY <3>1 DEF One
      <3>3. Occurrences(a, undeferred) = Occurrences(a, undeferred') + o
        BY <2>1, <2>2, <3>2, OccTail
      <3>4. Waiting(a) = Waiting(a)' + o
        BY <1>3, <2>1, <3>3 DEF Waiting
      <3>5. Batched(a)' = Batched(a) + o
        BY <2>1, <2>2, <3>2, PlaceBalances
      <3>6. Asked(a)' = Asked(a)
        BY <2>1 DEF Asked
      <3> QED BY <1>2, <1>3, <3>2, <3>4, <3>5, <3>6, TotalKept
    <2> QED BY <1>2, <2>1, <2>3
  <1>6. CASE TakeSpec
    <2>1. Len(Specs) \in Nat /\ \A i \in 1..Len(Specs) : Specs[i] \in Addrs
      BY LenProperties, ElementOfSeq DEF HostGroupAssumption, Addrs
    <2>2. phase = "fill" /\ taken < Len(Specs) /\ taken' = taken + 1
          /\ Consider(Specs[taken + 1]) /\ newTargets' = newTargets /\ undeferred' = undeferred
      BY <1>6 DEF TakeSpec, Consider
    <2>3. Specs[taken + 1] \in Addrs /\ taken \in Nat
      <3>1. taken \in 0..Len(Specs)
        BY DEF GroupInv, TypeOK
      <3>2. taken + 1 \in 1..Len(Specs) /\ taken \in Nat
        BY <2>1, <2>2, <3>1
      <3> QED BY <2>1, <3>2
    <2>4. ASSUME NEW a \in Addrs \ Skipped PROVE Total(a)' = Asked(a)'
      <3>1. PICK b \in BOOLEAN : b <=> Specs[taken + 1] = a
        OBVIOUS
      <3>2. PICK o \in Nat : o = One(Specs[taken + 1] = a) /\ o = One(b)
        BY <3>1 DEF One
      <3>3. After(a, Specs, taken) = After(a, Specs, taken') + o
        BY <2>1, <2>2, <2>3, <3>2, AfterNext
      <3>4. Waiting(a) = Waiting(a)' + o
        BY <1>3, <2>2, <3>3, SMTT(30) DEF Waiting
      <3>5. Batched(a)' = Batched(a) + o
        BY <1>2, <2>2, <2>3, <3>2, ConsiderBalances
      <3>6. Asked(a)' = Asked(a)
        BY <2>2 DEF Asked
      <3> QED BY <1>2, <1>3, <3>2, <3>4, <3>5, <3>6, TotalKept
    <2>5. resume' = NoAddr
      BY <1>2, <2>2 DEF Consider
    <2> QED BY <2>4, <2>5
  <1>7. CASE TakeNew
    <2>1. phase = "fill" /\ newTargets.queue # <<>> /\ undeferred' = undeferred
          /\ newTargets' = [newTargets EXCEPT !.queue = Tail(@)]
          /\ Consider(Head(newTargets.queue)) /\ taken' = taken
      BY <1>7 DEF TakeNew, Consider
    <2>2. PICK q : q = newTargets.queue
      OBVIOUS
    <2>3. q \in Seq(NewAddrs) /\ newTargets'.queue = Tail(q) /\ newTargets'.history = newTargets.history
      BY <2>1, <2>2 DEF GroupInv, TypeOK
    <2>4. Head(q) \in Addrs /\ q # <<>>
      BY <2>1, <2>2, <2>3, HeadTailProperties DEF Addrs
    <2>5. ASSUME NEW a \in Addrs \ Skipped PROVE Total(a)' = Asked(a)'
      <3>1. PICK b \in BOOLEAN : b <=> Head(q) = a
        OBVIOUS
      <3>2. PICK o \in Nat : o = One(Head(q) = a) /\ o = One(b)
        BY <3>1 DEF One
      <3>3. Occurrences(a, newTargets.queue) = Occurrences(a, newTargets'.queue) + o
        <4>1. Occurrences(a, q) = Occurrences(a, Tail(q)) + One(Head(q) = a)
          BY <2>3, <2>4, OccTail
        <4> QED BY <2>2, <2>3, <3>2, <4>1
      <3>4. Waiting(a) = Waiting(a)' + o
        BY <1>3, <2>1, <3>3, SMTT(30) DEF Waiting
      <3>5. Batched(a)' = Batched(a) + o
        BY <1>2, <2>1, <2>2, <2>4, <3>2, ConsiderBalances
      <3>6. Asked(a)' = Asked(a)
        BY <2>3 DEF Asked
      <3> QED BY <1>2, <1>3, <3>2, <3>4, <3>5, <3>6, TotalKept
    <2>6. resume' = NoAddr
      BY <1>2, <2>1 DEF Consider
    <2> QED BY <2>5, <2>6
  <1>8. CASE EndFill
    <2>1. /\ phase = "fill" /\ Ping(batch.addrs)
          /\ UNCHANGED <<taken, resume, newTargets, nextNo, deferBuffer, undeferred>>
      BY <1>8 DEF EndFill
    <2>2. batch.addrs \in Seq(Addrs) /\ nextNo = 0 /\ Len(batch.addrs) <= BatchSize
      BY <2>1, LenProperties DEF GroupInv, TypeOK, Stage, HostGroupAssumption
    <2>3. Shuffled(batch.addrs, batch'.addrs)
      BY <2>1, <2>2, PingShuffles
    <2>4. ASSUME NEW a \in Addrs \ Skipped PROVE Total(a)' = Asked(a)'
      <3>1. After(a, batch'.addrs, nextNo') = After(a, batch.addrs, nextNo)
        BY <2>1, <2>2, <2>3, AfterOccurrences DEF Shuffled
      <3>2. Batched(a)' = Batched(a) /\ Waiting(a)' = Waiting(a) /\ Asked(a)' = Asked(a)
        BY <2>1, <3>1 DEF Batched, Waiting, Asked
      <3> QED BY <1>2, <1>3, <3>2 DEF Total
    <2> QED BY <1>2, <2>1, <2>4
  <1> QED BY <1>4, <1>5, <1>6, <1>7, <1>8

LEMMA GatherBalances ==
    ASSUME GroupInv, GroupInv', HostGroupAssumption, Balance, Gather
    PROVE  Balance'
  <1> SUFFICES ASSUME crashes' = 0
               PROVE  resume' = NoAddr /\ \A a \in Addrs \ Skipped : Total(a)' = Asked(a)'
    BY DEF Balance
  <1>1. PICK x \in Addrs, up \in BOOLEAN :
              /\ x = batch.addrs[nextNo + 1]
              /\ phase = "gather" /\ Len(targets) < ideal /\ nextNo < Len(batch.addrs)
              /\ \/ Dispose(x, up)
                 \/ ReturnHost /\ targets # <<>>
                 \/ AddHost(x) /\ ~target_needs_new_hostgroup(targets, x)
              /\ UNCHANGED <<taken, resume, newTargets, batch, deferBuffer, undeferred>>
    BY Gathered
  <1>2. crashes = 0
    BY <1>1 DEF Dispose, ReturnHost, AddHost, groupVars
  <1>3. resume = NoAddr /\ \A a \in Addrs \ Skipped : Total(a) = Asked(a)
    BY <1>2 DEF Balance
  <1>4. ASSUME NEW a \in Addrs \ Skipped PROVE Total(a)' = Asked(a)'
    <2>1. Waiting(a)' = Waiting(a) /\ Asked(a)' = Asked(a)
      BY <1>1 DEF Waiting, Asked
    <2>2. /\ Held(a)' \in Nat /\ Batched(a)' \in Nat /\ Waiting(a)' \in Nat
          /\ After(a, batch'.addrs, nextNo') \in Nat
      BY NumbersNext DEF Numbers
    <2>3. /\ Occurrences(a, targets) \in Nat /\ Occurrences(a, deferBuffer) \in Nat
          /\ decided[a] \in Nat /\ After(a, batch.addrs, nextNo) \in Nat
      BY SumTyped
    <2>4. PICK b \in BOOLEAN : b <=> x = a
      OBVIOUS
    <2>5. PICK o \in Nat : o = One(x = a) /\ o = One(b)
      BY <2>4 DEF One
    <2>6. nextNo' = nextNo + 1 => Batched(a) = Batched(a)' + o
      <3>1. Len(batch.addrs) \in Nat /\ nextNo \in Nat
        BY LenProperties DEF GroupInv, TypeOK
      <3>2. After(a, batch.addrs, nextNo) = After(a, batch.addrs, nextNo + 1) + One(batch.addrs[nextNo + 1] = a)
        BY <1>1, <3>1, AfterNext
      <3>3. After(a, batch.addrs, nextNo) = After(a, batch.addrs, nextNo + 1) + o
        BY <1>1, <2>5, <3>2
      <3> SUFFICES ASSUME nextNo' = nextNo + 1 PROVE Batched(a) = Batched(a)' + o
        OBVIOUS
      <3>4. After(a, batch.addrs, nextNo) = After(a, batch'.addrs, nextNo') + o
        BY <1>1, <3>3
      <3> QED BY <1>1, <2>2, <2>3, <3>4 DEF Batched
    <2>7. CASE Dispose(x, up)
      <3>1. decided' = [decided EXCEPT ![x] = @ + 1] /\ targets' = targets /\ nextNo' = nextNo + 1
        BY <2>7 DEF Dispose
      <3>2. decided'[a] = decided[a] + o
        <4>1. decided \in [Addrs -> Nat]
          BY DEF GroupInv, TypeOK
        <4>2. One(x = a) = IF x = a THEN 1 ELSE 0
          BY DEF One
        <4> QED BY <2>3, <2>5, <3>1, <4>1, <4>2
      <3>3. Held(a)' = Held(a) + o
        BY <2>3, <3>1, <3>2 DEF Held
      <3> QED BY <1>3, <2>1, <2>2, <2>5, <2>6, <3>1, <3>3, TotalKept
    <2>8. CASE ReturnHost
      <3>1. nextNo' = nextNo /\ targets' = targets /\ decided' = decided
        BY <2>8 DEF ReturnHost, groupVars
      <3>2. Held(a)' = Held(a) /\ Batched(a)' = Batched(a)
        BY <1>1, <3>1 DEF Held, Batched
      <3> QED BY <1>3, <2>1, <3>2 DEF Total
    <2>9. CASE AddHost(x)
      <3>1. decided' = decided /\ targets' = Append(targets, x) /\ nextNo' = nextNo + 1
        BY <2>9 DEF AddHost
      <3>2. Occurrences(a, targets') = Occurrences(a, targets) + o
        <4>1. targets \in Seq(Addrs)
          BY DEF GroupInv, TypeOK
        <4> QED BY <2>5, <3>1, <4>1, OccAppend
      <3>3. Held(a)' = Held(a) + o
        BY <2>3, <3>1, <3>2 DEF Held
      <3> QED BY <1>3, <2>1, <2>2, <2>5, <2>6, <3>1, <3>3, TotalKept
    <2> QED BY <1>1, <2>7, <2>8, <2>9
  <1> QED BY <1>1, <1>3, <1>4

LEMMA ReportBalances ==
    ASSUME GroupInv, GroupInv', HostGroupAssumption, Balance, Report
    PROVE  Balance'
  <1> SUFFICES ASSUME crashes' = 0
               PROVE  resume' = NoAddr /\ \A a \in Addrs \ Skipped : Total(a)' = Asked(a)'
    BY DEF Balance
  <1>1. PICK x : x = Head(targets)
    OBVIOUS
  <1>2. /\ targets # <<>> /\ decided' = [decided EXCEPT ![x] = @ + 1] /\ targets' = Tail(targets)
        /\ UNCHANGED <<taken, resume, newTargets, batch, nextNo, deferBuffer, undeferred, crashes>>
    BY <1>1 DEF Report, fillVars
  <1>3. resume = NoAddr /\ \A a \in Addrs \ Skipped : Total(a) = Asked(a)
    BY <1>2 DEF Balance
  <1>4. ASSUME NEW a \in Addrs \ Skipped PROVE Total(a)' = Asked(a)'
    <2>1. Waiting(a)' = Waiting(a) /\ Batched(a)' = Batched(a) /\ Asked(a)' = Asked(a)
      BY <1>2 DEF Waiting, Batched, Asked
    <2>2. decided[a] \in Nat /\ Occurrences(a, targets') \in Nat
      BY SumTyped, NumbersNext DEF Numbers
    <2>3. PICK o \in Nat : o = One(x = a)
      BY DEF One
    <2>4. targets \in Seq(Addrs) /\ decided \in [Addrs -> Nat]
      BY DEF GroupInv, TypeOK
    <2>5. Occurrences(a, targets) = Occurrences(a, targets') + o
      BY <1>1, <1>2, <2>3, <2>4, OccTail
    <2>6. decided'[a] = decided[a] + o
      <3>1. One(x = a) = IF x = a THEN 1 ELSE 0
        BY DEF One
      <3> QED BY <1>2, <2>2, <2>3, <2>4, <3>1
    <2>7. Held(a)' = Held(a)
      BY <2>2, <2>5, <2>6 DEF Held
    <2> QED BY <1>3, <2>1, <2>7 DEF Total
  <1> QED BY <1>2, <1>3, <1>4

LEMMA AddTargetBalances ==
    ASSUME GroupInv, GroupInv', HostGroupAssumption, Balance, NEW x \in NewAddrs, AddTarget(x)
    PROVE  Balance'
  <1> SUFFICES ASSUME crashes' = 0
               PROVE  resume' = NoAddr /\ \A a \in Addrs \ Skipped : Total(a)' = Asked(a)'
    BY DEF Balance
  <1>1. PICK q, h : q = newTargets.queue /\ h = newTargets.history
    OBVIOUS
  <1>2. /\ x \notin h /\ newTargets'.queue = Append(q, x) /\ newTargets'.history = h \cup {x}
        /\ UNCHANGED <<taken, resume, batch, nextNo, deferBuffer, undeferred, crashes, targets, decided>>
    BY <1>1 DEF AddTarget, groupVars
  <1>3. resume = NoAddr /\ \A a \in Addrs \ Skipped : Total(a) = Asked(a)
    BY <1>2 DEF Balance
  <1>4. ASSUME NEW a \in Addrs \ Skipped PROVE Total(a)' = Asked(a)'
    <2>1. Held(a)' = Held(a) /\ Batched(a)' = Batched(a)
      BY <1>2 DEF Held, Batched
    <2>2. /\ Occurrences(a, undeferred) \in Nat /\ After(a, Specs, taken) \in Nat
          /\ Occurrences(a, newTargets.queue) \in Nat /\ Occurrences(a, Specs) \in Nat
          /\ Held(a) \in Nat /\ Batched(a) \in Nat /\ Waiting(a) \in Nat
      BY SumTyped
    <2>3. PICK o \in Nat : o = One(x = a)
      BY DEF One
    <2>4. Occurrences(a, newTargets'.queue) = Occurrences(a, newTargets.queue) + o
      <3>1. q \in Seq(NewAddrs)
        BY <1>1 DEF GroupInv, TypeOK
      <3> QED BY <1>1, <1>2, <2>3, <3>1, OccAppend
    <2>5. Waiting(a)' = Waiting(a) + o
      BY <1>2, <2>2, <2>4 DEF Waiting
    <2>6. Asked(a)' = Asked(a) + o
      BY <1>1, <1>2, <2>2, <2>3 DEF Asked, One
    <2>7. Total(a) = Asked(a)
      BY <1>3
    <2>8. Total(a)' = Held(a) + Batched(a) + (Waiting(a) + o)
      BY <2>1, <2>5 DEF Total
    <2>9. Asked(a) = Held(a) + Batched(a) + Waiting(a)
      BY <2>7 DEF Total
    <2> QED BY <2>2, <2>6, <2>8, <2>9
  <1> QED BY <1>2, <1>3, <1>4

LEMMA NextBalances ==
    ASSUME GroupInv, GroupInv', HostGroupAssumption, Balance, [Next]_vars
    PROVE  Balance'
  <1>1. CASE UNCHANGED <<resume, crashes, decided, targets, batch, nextNo, deferBuffer, undeferred, taken, newTargets>>
    BY <1>1 DEF Balance, Total, Held, Batched, Waiting, Asked
  <1>2. CASE Crash
    <2>1. crashes' # 0
      BY <1>2 DEF Crash, GroupInv, TypeOK, HostGroupAssumption
    <2> QED BY <2>1 DEF Balance
  <1>3. CASE (\E g \in GroupSizes : StartGroup(g)) \/ GroupFull \/ Scan \/ UNCHANGED vars
    BY <1>1, <1>3 DEF StartGroup, GroupFull, Scan, vars, fillVars, groupVars
  <1>4. CASE \E a \in NewAddrs : AddTarget(a)
    BY <1>4, AddTargetBalances
  <1> QED BY <1>2, <1>3, <1>4, FillBalances, GatherBalances, ReportBalances DEF Next, Over

LEMMA NextEnds ==
    ASSUME GroupInv, GroupInv', HostGroupAssumption, MaxIps = 0, Ending, [Next]_vars
    PROVE  Ending'
  <1>1. CASE Refresh \/ TakeUndeferred \/ TakeSpec \/ TakeNew
    <2>1. phase \in {"gather", "fill"} /\ ideal' = ideal
      BY <1>1 DEF Refresh, TakeUndeferred, TakeSpec, TakeNew, Consider, groupVars
    <2>2. phase' \in {"gather", "fill"}
      BY <1>1 DEF Refresh, TakeUndeferred, TakeSpec, TakeNew, Consider, Place
    <2> QED BY <2>1, <2>2 DEF Ending
  <1>2. CASE EndFill
    <2>1. /\ phase = "fill" /\ NoMoreTargets /\ phase' = IF batch.addrs = <<>> THEN "scan" ELSE "gather"
          /\ Ping(batch.addrs) /\ UNCHANGED <<taken, newTargets, nextNo, deferBuffer, undeferred, ideal, targets>>
      BY <1>2 DEF EndFill, groupVars
    <2>2. batch.addrs \in Seq(Addrs) /\ nextNo = 0 /\ Len(batch.addrs) <= BatchSize
          /\ (batch.addrs = <<>> => deferBuffer = <<>>)
      BY <2>1, LenProperties, SMTT(30) DEF GroupInv, TypeOK, Stage, HostGroupAssumption
    <2>3. Len(batch'.addrs) = Len(batch.addrs)
      BY <2>1, <2>2, PingShuffles DEF Shuffled
    <2>4. Len(Specs) \in Nat /\ taken \in 0..Len(Specs)
      BY LenProperties DEF HostGroupAssumption, GroupInv, TypeOK
    <2>5. taken = Len(Specs) /\ undeferred = <<>> /\ newTargets.queue = <<>>
      BY <2>1, <2>4 DEF NoMoreTargets, MayTake
    <2>6. batch.addrs = <<>> => nextNo' = Len(batch'.addrs)
      BY <2>1, <2>2, <2>3
    <2> QED BY <2>1, <2>2, <2>5, <2>6 DEF Ending, Exhausted
  <1>3. CASE \E g \in GroupSizes : StartGroup(g)
    <2>1. PICK g \in GroupSizes : phase' = "gather" /\ ideal' = g
      BY <1>3 DEF StartGroup
    <2>2. g > 0
      BY DEF HostGroupAssumption
    <2> QED BY <2>1, <2>2 DEF Ending
  <1>4. CASE Gather
    <2>1. /\ phase = "gather" /\ Len(targets) < ideal
          /\ \/ phase' = "gather" /\ ideal' = ideal
             \/ phase' = "scan" /\ targets' # <<>>
      BY <1>4, Gathered DEF Dispose, ReturnHost, AddHost, groupVars
    <2> QED BY <2>1 DEF Ending
  <1>5. CASE GroupFull
    <2>1. phase = "gather" /\ Len(targets) >= ideal /\ phase' = "scan" /\ targets' = targets
      BY <1>5 DEF GroupFull, groupVars
    <2>2. ideal > 0 /\ ideal \in Nat /\ Len(<<>>) = 0
      BY <2>1 DEF Ending, GroupInv, TypeOK
    <2>3. targets' # <<>>
      BY <2>1, <2>2
    <2> QED BY <2>1, <2>3 DEF Ending
  <1>6. CASE Scan
    BY <1>6 DEF Scan, Ending, Exhausted, fillVars, groupVars
  <1>7. CASE Report
    BY <1>7 DEF Report, Ending
  <1>8. CASE Crash
    BY <1>8 DEF Crash, Fresh, Ending
  <1>9. CASE \E a \in NewAddrs : AddTarget(a)
    BY <1>9 DEF AddTarget, Ending, groupVars
  <1>10. CASE UNCHANGED vars
    BY <1>10 DEF vars, fillVars, groupVars, Ending, Exhausted
  <1> QED BY <1>1, <1>2, <1>3, <1>4, <1>5, <1>6, <1>7, <1>8, <1>9, <1>10 DEF Next, Over

(* Without a limit on the number of hosts, when nmap ends without having   *)
(* been killed each address was decided exactly as often as it was         *)
(* specified or added: on its way through refresh_hostbatch(), its defer   *)
(* buffer and returnhost() no host is lost and none is scanned twice, for  *)
(* any list of targets, any sizes and any answers.                         *)
THEOREM EveryHostIsDecidedOnce ==
    ASSUME MaxIps = 0
    PROVE  Spec => []EveryHostOnce
  <1>1. Init => GroupInv /\ Balance /\ Ending
    <2> SUFFICES ASSUME Init PROVE GroupInv /\ Balance /\ Ending
      OBVIOUS
    <2>1. GroupInv
      BY InitIsRight, HostGroupAssumption
    <2>2. /\ batch.addrs = <<>> /\ nextNo = 0 /\ deferBuffer = <<>> /\ undeferred = <<>>
          /\ targets = <<>> /\ taken = 0 /\ newTargets.queue = <<>> /\ newTargets.history = {}
          /\ resume = NoAddr /\ decided = [a \in Addrs |-> 0] /\ phase = "group"
      BY DEF Init
    <2>3. ASSUME NEW a \in Addrs \ Skipped PROVE Total(a) = Asked(a)
      <3>1. <<>> \in Seq(Addrs) /\ Specs \in Seq(ToSet(Specs))
        BY HostGroupAssumption DEF HostGroupAssumption
      <3>2. Occurrences(a, <<>>) = 0 /\ After(a, <<>>, 0) = 0
            /\ Occurrences(a, Specs) = After(a, Specs, 0) /\ Occurrences(a, Specs) \in Nat
        BY <3>1, AfterOccurrences, OccEmpty
      <3>3. Held(a) = 0 /\ Batched(a) = 0 /\ Waiting(a) = Occurrences(a, Specs)
        BY <2>2, <3>2 DEF Held, Batched, Waiting
      <3>4. Asked(a) = Occurrences(a, Specs)
        BY <2>2, <3>2 DEF Asked, One
      <3> QED BY <3>2, <3>3, <3>4 DEF Total
    <2> QED BY <2>1, <2>2, <2>3 DEF Balance, Ending
  <1>2. GroupInv /\ Balance /\ Ending /\ [Next]_vars => GroupInv' /\ Balance' /\ Ending'
    BY NextKeepsGroups, NextBalances, NextEnds, HostGroupAssumption
  <1>3. GroupInv /\ Balance /\ Ending => EveryHostOnce
    <2> SUFFICES ASSUME GroupInv, Balance, Ending, phase = "over", crashes = 0,
                        NEW a \in Addrs \ Skipped
                 PROVE  decided[a] = Occurrences(a, Specs) + (IF a \in newTargets.history THEN 1 ELSE 0)
      BY DEF EveryHostOnce
    <2>1. Total(a) = Asked(a) /\ Exhausted
      BY DEF Balance, Ending
    <2>2. decided[a] \in Nat
      BY SumTyped, HostGroupAssumption
    <2>3. /\ After(a, batch.addrs, nextNo) = 0 /\ After(a, Specs, taken) = 0
          /\ Occurrences(a, deferBuffer) = 0 /\ Occurrences(a, undeferred) = 0
          /\ Occurrences(a, targets) = 0 /\ Occurrences(a, newTargets.queue) = 0
      <3>1. Len(batch.addrs) \in Nat /\ Len(Specs) \in Nat
        BY HostGroupAssumption, LenProperties DEF GroupInv, TypeOK, HostGroupAssumption
      <3> QED BY <2>1, <3>1, AfterEnd, OccEmpty DEF Exhausted
    <2>4. Total(a) = decided[a]
      BY <2>2, <2>3 DEF Total, Held, Batched, Waiting
    <2> QED BY <2>1, <2>4 DEF Asked, One
  <1>4. Init /\ [][Next]_vars => [](GroupInv /\ Balance /\ Ending)
    BY <1>1, <1>2, PTL
  <1> QED BY <1>3, <1>4, PTL DEF Spec
=============================================================================
