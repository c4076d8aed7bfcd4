------------------------ MODULE NseScheduler_proofs -------------------------
(***************************************************************************)
(* Proofs about the scheduler of the scripting engine (NseScheduler), for  *)
(* any scripts and workers: no thread is lost, the clocks of hosts stop,   *)
(* and, when no script uses the socket of another one, a mutex has one     *)
(* holder, no socket event finds its thread gone, condition variables wake *)
(* who waits, and nobody waits for what will not come.                     *)
(***************************************************************************)
EXTENDS NseScheduler, FiniteSetTheorems, SequenceTheorems, TLAPS

-----------------------------------------------------------------------------
(* Types, field by field.                                                  *)
Typed ==
    /\ pc \in {"start", "timeouts", "resume", "unlock", "nsock", "finished"}
    /\ iter \subseteq Scripts /\ iterLive \in BOOLEAN
    /\ running \subseteq Threads /\ waiting \subseteq Threads /\ pending \subseteq Threads
    /\ all \subseteq Threads /\ toCheck \subseteq Threads /\ suspended \subseteq Threads
    /\ reclaimed \subseteq Threads /\ lockCall \subseteq Threads /\ holds \subseteq Threads
    /\ timers \subseteq Threads /\ threadSockets \subseteq Threads
    /\ connectWaiting \subseteq Threads /\ retryConnect \subseteq Threads /\ open \subseteq Threads
    /\ current \in Threads \cup {NoThread} /\ owner \in Threads \cup {NoThread}
    /\ parent \in [Threads -> Scripts \cup {NoThread}]
    /\ expired \subseteq Scripts
    /\ opsLeft \in [Threads -> 0..MaxOps]
    /\ mqueue \in Seq(Threads) /\ cqueue \in Seq(Threads)
    /\ mutexHandler \in [Threads -> Threads \cup {NoThread}]
    /\ condHandler \in [Threads -> BOOLEAN]
    /\ events \subseteq Event
    /\ nuThread \in [Threads -> Threads \cup {NoThread}]
    /\ aborted \in BOOLEAN

(* The threads of run(): a live thread is in one place.                    *)
Here == {current} \ {NoThread}
Separate ==
    /\ all = running \cup waiting \cup pending \cup Here
    /\ running \cap waiting = {} /\ running \cap pending = {} /\ waiting \cap pending = {}
    /\ current \notin running \cup waiting \cup pending
Counted == numThreads = Cardinality(all)
Parents ==
    /\ iter \cap all = {}
    /\ \A t \in all : parent[t] \in Scripts
    /\ \A s \in Scripts : parent[s] = s
Loop ==
    /\ pc # "resume" => current = NoThread
    /\ pc = "finished" => all = {}

Places == Separate /\ Counted /\ Parents /\ Loop /\ ClockStops
ThreadsInv == Typed /\ Places

-----------------------------------------------------------------------------
(* Queues.                                                                 *)
LEMMA SetOfQueue ==
    ASSUME NEW S, NEW q \in Seq(S)
    PROVE  /\ ToSet(q) \subseteq S /\ ToSet(q) = {q[i] : i \in 1..Len(q)}
           /\ q = <<>> <=> ToSet(q) = {}
  <1>1. DOMAIN q = 1..Len(q) /\ Len(q) \in Nat /\ \A i \in 1..Len(q) : q[i] \in S
    BY LenProperties, ElementOfSeq
  <1>2. ToSet(q) = {q[i] : i \in 1..Len(q)}
    BY <1>1 DEF ToSet
  <1>3. q = <<>> <=> ToSet(q) = {}
    <2>1. q = <<>> <=> Len(q) = 0
      BY EmptySeq
    <2>2. Len(q) = 0 => ToSet(q) = {}
      BY <1>2
    <2>3. Len(q) # 0 => q[1] \in ToSet(q)
      BY <1>1, <1>2
    <2> QED BY <2>1, <2>2, <2>3
  <1> QED BY <1>1, <1>2, <1>3

Once(q) == \A i, j \in 1..Len(q) : q[i] = q[j] => i = j

LEMMA QueueEmpty == ToSet(<<>>) = {} /\ Once(<<>>)
  <1>1. <<>> \in Seq(Threads) /\ Len(<<>>) = 0
    BY EmptySeq
  <1>2. Once(<<>>)
    BY <1>1 DEF Once
  <1>3. ToSet(<<>>) = {}
    BY <1>1, SetOfQueue
  <1> QED BY <1>2, <1>3

LEMMA QueueAppend ==
    ASSUME NEW S, NEW q \in Seq(S), NEW x \in S
    PROVE  /\ Append(q, x) \in Seq(S)
           /\ ToSet(Append(q, x)) = ToSet(q) \cup {x}
           /\ Once(q) /\ x \notin ToSet(q) => Once(Append(q, x))
  <1>1. /\ Append(q, x) \in Seq(S) /\ Len(Append(q, x)) = Len(q) + 1
        /\ \A i \in 1..Len(q) : Append(q, x)[i] = q[i]
        /\ Append(q, x)[Len(q) + 1] = x
    BY AppendProperties
  <1>2. Len(q) \in Nat
    BY LenProperties
  <1>3. /\ ToSet(Append(q, x)) = {Append(q, x)[i] : i \in 1..(Len(q) + 1)}
        /\ ToSet(q) = {q[i] : i \in 1..Len(q)}
    <2>1. \A r \in Seq(S) : ToSet(r) = {r[i] : i \in 1..Len(r)}
      BY SetOfQueue
    <2> QED BY <1>1, <2>1
  <1>4. ToSet(Append(q, x)) = ToSet(q) \cup {x}
    <2>1. 1..(Len(q) + 1) = 1..Len(q) \cup {Len(q) + 1}
      BY <1>2
    <2> QED BY <1>1, <1>2, <1>3, <2>1
  <1>5. ASSUME Once(q), x \notin ToSet(q) PROVE Once(Append(q, x))
    BY <1>1, <1>2, <1>3, <1>5 DEF Once
  <1> QED BY <1>1, <1>4, <1>5

LEMMA QueueTail ==
    ASSUME NEW S, NEW q \in Seq(S), q # <<>>
    PROVE  /\ Head(q) \in S /\ Head(q) \in ToSet(q) /\ Tail(q) \in Seq(S)
           /\ ToSet(Tail(q)) \subseteq ToSet(q) /\ ToSet(q) = ToSet(Tail(q)) \cup {Head(q)}
           /\ Once(q) => Once(Tail(q)) /\ Head(q) \notin ToSet(Tail(q))
  <1>1. /\ Head(q) \in S /\ Tail(q) \in Seq(S) /\ Len(Tail(q)) = Len(q) - 1
        /\ \A i \in 1..Len(Tail(q)) : Tail(q)[i] = q[i + 1]
    BY HeadTailProperties
  <1>2. Len(q) \in Nat \ {0} /\ Head(q) = q[1]
    BY LenProperties, EmptySeq
  <1>3. /\ ToSet(Tail(q)) = {Tail(q)[i] : i \in 1..Len(Tail(q))}
        /\ ToSet(q) = {q[i] : i \in 1..Len(q)}
    BY <1>1, SetOfQueue
  <1>4. Head(q) \in ToSet(q)
    BY <1>2, <1>3
  <1>5. ToSet(Tail(q)) \subseteq ToSet(q)
    BY <1>1, <1>2, <1>3
  <1>6. ASSUME NEW y \in ToSet(q), y # Head(q) PROVE y \in ToSet(Tail(q))
    <2>1. PICK i \in 1..Len(q) : y = q[i]
      BY <1>3
    <2>2. i # 1 /\ i - 1 \in 1..Len(Tail(q)) /\ Tail(q)[i - 1] = y
      BY <1>1, <1>2, <1>6, <2>1
    <2> QED BY <1>3, <2>2
  <1>7. ASSUME Once(q) PROVE Once(Tail(q)) /\ Head(q) \notin ToSet(Tail(q))
    BY <1>1, <1>2, <1>3, <1>7 DEF Once
  <1> QED BY <1>1, <1>4, <1>5, <1>6, <1>7

LEMMA QueueFront ==
    ASSUME NEW S, NEW q \in Seq(S), q # <<>>
    PROVE  /\ Last(q) \in S /\ Last(q) \in ToSet(q) /\ Front(q) \in Seq(S)
           /\ ToSet(Front(q)) \subseteq ToSet(q) /\ ToSet(q) = ToSet(Front(q)) \cup {Last(q)}
           /\ Once(q) => Once(Front(q)) /\ Last(q) \notin ToSet(Front(q))
  <1>1. Len(q) \in Nat \ {0} /\ Last(q) = q[Len(q)] /\ \A i \in 1..Len(q) : q[i] \in S
    BY LenProperties, EmptySeq, ElementOfSeq DEF Last
  <1>2. /\ Front(q) \in Seq(S) /\ Len(Front(q)) = Len(q) - 1
        /\ \A i \in 1..(Len(q) - 1) : Front(q)[i] = q[i]
    <2>1. Front(q) = [i \in 1..(Len(q) - 1) |-> q[i]]
      BY <1>1 DEF Front
    <2>2. Len(q) - 1 \in Nat /\ \A i \in 1..(Len(q) - 1) : q[i] \in S
      BY <1>1
    <2>3. Front(q) \in [1..(Len(q) - 1) -> S]
      BY <2>1, <2>2
    <2>4. Front(q) \in Seq(S)
      BY <2>2, <2>3, IsASeq
    <2>5. Len(Front(q)) = Len(q) - 1
      BY <2>2, <2>3, <2>4, LenProperties
    <2> QED BY <2>1, <2>4, <2>5
  <1>3. /\ ToSet(Front(q)) = {Front(q)[i] : i \in 1..(Len(q) - 1)}
        /\ ToSet(q) = {q[i] : i \in 1..Len(q)}
    <2>1. \A r \in Seq(S) : ToSet(r) = {r[i] : i \in 1..Len(r)}
      BY SetOfQueue
    <2> QED BY <1>2, <2>1
  <1>4. ToSet(q) = ToSet(Front(q)) \cup {Last(q)}
    <2>1. 1..Len(q) = 1..(Len(q) - 1) \cup {Len(q)}
      BY <1>1
    <2> QED BY <1>1, <1>2, <1>3, <2>1
  <1>5. ASSUME Once(q) PROVE Once(Front(q)) /\ Last(q) \notin ToSet(Front(q))
    BY <1>1, <1>2, <1>3, <1>5 DEF Once
  <1> QED BY <1>1, <1>2, <1>4, <1>5

-----------------------------------------------------------------------------
LEMMA ThreadSets ==
    /\ Scripts \subseteq Threads /\ Workers \subseteq Threads
    /\ NoThread \notin Threads /\ NoThread \notin Scripts
    /\ IsFiniteSet(Threads)
  BY SchedulerAssumption, FS_Union DEF Threads

LEMMA SizeOfTwo ==
    ASSUME NEW S, NEW T, IsFiniteSet(S), IsFiniteSet(T), S \cap T = {}
    PROVE  /\ IsFiniteSet(S \cup T) /\ Cardinality(S) \in Nat /\ Cardinality(T) \in Nat
           /\ Cardinality(S \cup T) = Cardinality(S) + Cardinality(T)
  <1>1. Cardinality(S \cap T) = 0
    BY FS_EmptySet
  <1>2. Cardinality(S) \in Nat /\ Cardinality(T) \in Nat
    BY FS_CardinalityType
  <1>3. /\ IsFiniteSet(S \cup T)
        /\ Cardinality(S \cup T) = Cardinality(S) + Cardinality(T) - Cardinality(S \cap T)
    BY FS_Union
  <1> QED BY <1>1, <1>2, <1>3

LEMMA NextOwnerTyped ==
    ASSUME Typed
    PROVE  /\ NextOwner \in Threads \cup {NoThread}
           /\ NextOwner # NoThread <=> mqueue # <<>>
           /\ mqueue # <<>> => NextOwner = Head(mqueue) /\ NextOwner \in Threads
  <1>1. mqueue # <<>> => Head(mqueue) \in Threads
    BY QueueTail DEF Typed
  <1> QED BY <1>1, ThreadSets DEF NextOwner

(* A thread that closes, and the destructors that run.                     *)
LEMMA CloseTyped ==
    ASSUME Typed, NEW t \in Threads, Close(t)
    PROVE  /\ all' \subseteq Threads /\ pending' \subseteq Threads
           /\ waiting' \subseteq Threads
           /\ owner' \in Threads \cup {NoThread} /\ mqueue' \in Seq(Threads)
           /\ mutexHandler' \in [Threads -> Threads \cup {NoThread}]
           /\ holds' \subseteq Threads /\ lockCall' \subseteq Threads
           /\ cqueue' \in Seq(Threads) /\ condHandler' \in [Threads -> BOOLEAN]
           /\ timers' \subseteq Threads
  <1>1. /\ all' \subseteq Threads /\ pending' \subseteq Threads
        /\ waiting' \subseteq Threads
    BY DEF Close, Typed
  <1>2. /\ holds' \subseteq Threads /\ lockCall' \subseteq Threads
        /\ cqueue' \in Seq(Threads) /\ condHandler' \in [Threads -> BOOLEAN]
        /\ timers' \subseteq Threads
    BY EmptySeq DEF Close, Typed
  <1>3. \/ PassMutex(NoThread)
        \/ UNCHANGED <<owner, mqueue, mutexHandler>>
    BY DEF Close
  <1>4. mqueue # <<>> => Tail(mqueue) \in Seq(Threads)
    BY QueueTail DEF Typed
  <1>5. CASE PassMutex(NoThread)
    BY <1>1, <1>2, <1>4, <1>5, NextOwnerTyped DEF PassMutex, Typed
  <1>6. CASE UNCHANGED <<owner, mqueue, mutexHandler>>
    BY <1>1, <1>2, <1>6 DEF Typed
  <1> QED BY <1>1, <1>2, <1>3, <1>5, <1>6

LEMMA CloseSocketsTyped ==
    ASSUME Typed, NEW S, CloseSockets(S)
    PROVE  /\ open' \subseteq Threads /\ events' \subseteq Event
           /\ nuThread' \in [Threads -> Threads \cup {NoThread}]
           /\ aborted' \in BOOLEAN
  BY DEF CloseSockets, Typed

LEMMA MayDoTyped ==
    ASSUME Typed, NEW op, MayDo(op)
    PROVE  current \in Threads /\ opsLeft' \in [Threads -> 0..MaxOps]
  <1>1. current \in Threads
    BY DEF MayDo, Typed
  <1>2. opsLeft[current] \in 0..MaxOps /\ opsLeft[current] > 0
    BY <1>1 DEF MayDo, Typed
  <1>3. opsLeft[current] - 1 \in 0..MaxOps
    BY <1>2, SchedulerAssumption
  <1> QED BY <1>1, <1>3 DEF MayDo, Typed

LEMMA ScriptTyped ==
    ASSUME Typed, Script
    PROVE  Typed'
  <1> USE ThreadSets
  <1>1. CASE End
    <2>1. current \in Threads /\ Close(current)
      BY <1>1 DEF End, Typed
    <2> QED BY <1>1, <2>1, CloseTyped DEF End, Typed, loopVars, coVars, slotVars, sockVars
  <1>2. CASE Sleep
    BY <1>2, MayDoTyped DEF Sleep, Yield, Typed, loopVars, timeVars, mutexVars, condVars, slotVars, sockVars
  <1>3. CASE LockFree
    BY <1>3, MayDoTyped DEF LockFree, Typed, loopVars, queueVars, timeVars, condVars, slotVars, sockVars
  <1>4. CASE LockBusy
    <2>1. current \in Threads /\ Append(mqueue, current) \in Seq(Threads)
      BY <1>4, MayDoTyped, QueueAppend DEF LockBusy, Typed
    <2> QED BY <1>4, <2>1, MayDoTyped DEF LockBusy, Yield, Typed, loopVars, timeVars, condVars, slotVars, sockVars
  <1>5. CASE Done
    <2>1. /\ owner' \in Threads \cup {NoThread} /\ mqueue' \in Seq(Threads)
          /\ mutexHandler' \in [Threads -> Threads \cup {NoThread}]
      <3>1. mqueue # <<>> => Tail(mqueue) \in Seq(Threads)
        BY QueueTail DEF Typed
      <3> QED BY <1>5, <3>1, NextOwnerTyped DEF Done, PassMutex, Typed
    <2> QED BY <1>5, <2>1, MayDoTyped DEF Done, Restore, Typed, loopVars, timeVars, condVars, slotVars, sockVars
  <1>6. CASE Wait
    <2>1. current \in Threads /\ Append(cqueue, current) \in Seq(Threads)
      BY <1>6, MayDoTyped, QueueAppend DEF Wait, Typed
    <2> QED BY <1>6, <2>1, MayDoTyped DEF Wait, Yield, Typed, loopVars, timeVars, mutexVars, slotVars, sockVars
  <1>7. CASE Signal
    <2>1. cqueue # <<>> => Front(cqueue) \in Seq(Threads)
      BY QueueFront DEF Typed
    <2>2. cqueue' \in Seq(Threads) /\ waiting' \subseteq Threads /\ pending' \subseteq Threads
      BY <1>7, <2>1 DEF Signal, Restore, Typed
    <2> QED BY <1>7, <2>2, MayDoTyped DEF Signal, Typed, loopVars, timeVars, mutexVars, slotVars, sockVars
  <1>8. CASE Broadcast
    <2>1. cqueue' \in Seq(Threads)
      BY <1>8, EmptySeq DEF Broadcast
    <2> QED BY <1>8, <2>1, MayDoTyped DEF Broadcast, Restore, Typed, loopVars, timeVars, mutexVars, slotVars, sockVars
  <1>9. CASE ConnectWaits
    <2>1. current \in Threads /\ opsLeft' \in [Threads -> 0..MaxOps]
      BY <1>9, MayDoTyped DEF ConnectWaits, Connecting, Typed
    <2> QED BY <1>9, <2>1 DEF ConnectWaits, Yield, Typed, loopVars, timeVars, mutexVars, condVars, sockVars
  <1>10. CASE Connect
    <2>1. current \in Threads /\ opsLeft' \in [Threads -> 0..MaxOps]
      BY <1>10, MayDoTyped DEF Connect, Connecting, Typed
    <2>2. /\ open' \subseteq Threads /\ nuThread' \in [Threads -> Threads \cup {NoThread}]
          /\ aborted' \in BOOLEAN /\ events' \subseteq Event
          /\ waiting' \subseteq Threads /\ suspended' \subseteq Threads
          /\ current' \in Threads \cup {NoThread}
      <3>1. CASE UNCHANGED <<sockVars, waiting, suspended, current>>
        BY <3>1 DEF Typed, sockVars
      <3>2. CASE ~UNCHANGED <<sockVars, waiting, suspended, current>>
        <4>1. /\ open' = open \cup {current}
              /\ nuThread' = [nuThread EXCEPT ![current] = current]
              /\ \/ Yield
                 \/ UNCHANGED <<waiting, suspended, current>>
          BY <1>10, <3>2 DEF Connect
        <4>2. aborted' \in BOOLEAN
          BY <1>10, <3>2 DEF Connect, Typed
        <4>3. events' \subseteq events \cup {[sock |-> current, type |-> "connect"]}
          BY <1>10, <3>2 DEF Connect
        <4>4. events' \subseteq Event
          BY <2>1, <4>3 DEF Typed, Event
        <4> QED BY <2>1, <4>1, <4>2, <4>4 DEF Typed, Yield
      <3> QED BY <3>1, <3>2
    <2> QED BY <1>10, <2>1, <2>2 DEF Connect, Typed, loopVars, timeVars, mutexVars, condVars
  <1>11. CASE CloseSocket
    BY <1>11, MayDoTyped, CloseSocketsTyped DEF CloseSocket, Typed, loopVars, queueVars, timeVars, mutexVars, condVars, slotVars
  <1>12. ASSUME NEW w \in Workers, NewThread(w) PROVE Typed'
    BY <1>12, MayDoTyped, SMTT(30)
     DEF NewThread, Typed, loopVars, mutexVars, condVars, slotVars, sockVars
  <1>13. ASSUME NEW s \in Threads, SendReceive(s) PROVE Typed'
    <2>1. current \in Threads /\ opsLeft' \in [Threads -> 0..MaxOps] /\ events' \subseteq Event
      BY <1>13, MayDoTyped DEF SendReceive, Typed, Event
    <2>2. CASE nuThread[s] \in {NoThread, current}
      <3>1. /\ nuThread' = [nuThread EXCEPT ![s] = current] /\ Yield
            /\ UNCHANGED <<pending, all, numThreads, clock, mutexVars, condVars, timers>>
        BY <1>13, <2>2 DEF SendReceive
      <3>2. UNCHANGED <<loopVars, running, parent, expired, reclaimed, slotVars, open, aborted>>
        BY <1>13 DEF SendReceive
      <3>3. /\ waiting' \subseteq Threads /\ suspended' \subseteq Threads /\ current' = NoThread
            /\ nuThread' \in [Threads -> Threads \cup {NoThread}]
        BY <2>1, <3>1 DEF Yield, Typed
      <3> QED BY <2>1, <3>1, <3>2, <3>3 DEF Typed, loopVars, mutexVars, condVars, slotVars
    <2>3. CASE nuThread[s] \notin {NoThread, current}
      <3>1. Close(current) /\ current' = NoThread /\ UNCHANGED <<nuThread, suspended>>
        BY <1>13, <2>3 DEF SendReceive
      <3>2. UNCHANGED <<loopVars, running, parent, expired, reclaimed, slotVars, open, aborted>>
        BY <1>13 DEF SendReceive
      <3> QED BY <2>1, <3>1, <3>2, CloseTyped DEF Typed, loopVars, slotVars
    <2> QED BY <2>2, <2>3
  <1> QED BY <1>1, <1>2, <1>3, <1>4, <1>5, <1>6, <1>7, <1>8, <1>9, <1>10, <1>11, <1>12, <1>13 DEF Script

LEMMA LoopTyped ==
    ASSUME Typed, MainLoop
    PROVE  Typed'
  <1> USE ThreadSets
  <1>1. CASE StartDone
    BY <1>1 DEF StartDone, Typed, queueVars, timeVars, coVars, mutexVars, condVars, slotVars, sockVars
  <1>2. CASE TimeoutsDone
    BY <1>2 DEF TimeoutsDone, Typed, queueVars, timeVars, coVars, mutexVars, condVars, slotVars, sockVars
  <1>3. CASE ResumeDone
    BY <1>3 DEF ResumeDone, Typed, queueVars, timeVars, coVars, mutexVars, condVars, slotVars, sockVars
  <1>4. CASE SocketUnlock
    <2>1. waiting' \subseteq Threads /\ pending' \subseteq Threads /\ connectWaiting' \subseteq Threads
      BY <1>4 DEF SocketUnlock, Restore, Typed
    <2> QED BY <1>4, <2>1, CloseSocketsTyped DEF SocketUnlock, Typed, timeVars, coVars, mutexVars, condVars
  <1>5. CASE LoopDone
    BY <1>5 DEF LoopDone, Typed, timeVars, coVars, mutexVars, condVars, slotVars, sockVars
  <1>6. ASSUME NEW t \in Scripts, StartThread(t) PROVE Typed'
    BY <1>6 DEF StartThread, Typed, timeVars, coVars, mutexVars, condVars, slotVars, sockVars
  <1>7. ASSUME NEW t \in Threads, CheckTimeout(t) PROVE Typed'
    <2>1. CASE t \in waiting /\ TimedOut(t)
      <3>1. Close(t)
        BY <1>7, <2>1 DEF CheckTimeout
      <3> QED BY <1>7, <3>1, CloseTyped DEF CheckTimeout, Typed, coVars, slotVars, sockVars
    <2>2. CASE ~(t \in waiting /\ TimedOut(t))
      BY <1>7, <2>2 DEF CheckTimeout, Typed, coVars, mutexVars, condVars, slotVars, sockVars
    <2> QED BY <2>1, <2>2
  <1>8. ASSUME NEW t \in Threads, Resume(t) PROVE Typed'
    BY <1>8 DEF Resume, Typed, loopVars, condVars, slotVars, sockVars
  <1> QED BY <1>1, <1>2, <1>3, <1>4, <1>5, <1>6, <1>7, <1>8 DEF MainLoop

LEMMA TypedStep ==
    ASSUME Typed, Next
    PROVE  Typed'
  <1>1. ASSUME NEW t \in Threads, SleepCallback(t) PROVE Typed'
    BY <1>1 DEF SleepCallback, Restore, Typed, loopVars, timeVars, coVars, mutexVars, condVars, slotVars, sockVars
  <1>2. ASSUME NEW e \in events, SocketCallback(e) PROVE Typed'
    <2>1. e.sock \in Threads
      BY DEF Typed, Event
    <2>2. /\ nuThread' \in [Threads -> Threads \cup {NoThread}] /\ aborted' \in BOOLEAN
          /\ waiting' \subseteq Threads /\ pending' \subseteq Threads
      BY <1>2, <2>1 DEF SocketCallback, Restore, Typed
    <2> QED BY <1>2, <2>2 DEF SocketCallback, Typed, loopVars, timeVars, coVars, mutexVars, condVars, slotVars
  <1>3. ASSUME NEW s \in Scripts, Expire(s) PROVE Typed'
    BY <1>3 DEF Expire, Typed, loopVars, queueVars, coVars, mutexVars, condVars, slotVars, sockVars
  <1>4. ASSUME NEW t \in Threads, CollectThread(t) PROVE Typed'
    BY <1>4 DEF CollectThread, Typed, loopVars, queueVars, timeVars, mutexVars, condVars, slotVars, sockVars
  <1>5. ASSUME NEW t \in Threads, CollectCoroutine(t) PROVE Typed'
    BY <1>5, CloseSocketsTyped DEF CollectCoroutine, Typed, loopVars, queueVars, timeVars, coVars, mutexVars, condVars
  <1>6. CASE Finished
    BY <1>6 DEF Finished, Typed, vars, loopVars, queueVars, timeVars, coVars, mutexVars, condVars, slotVars, sockVars
  <1> QED BY <1>1, <1>2, <1>3, <1>4, <1>5, <1>6, ScriptTyped, LoopTyped DEF Next, Callback

-----------------------------------------------------------------------------
(* Where the threads are.                                                  *)

(* A step that only wakes threads, or that leaves them where they are.     *)
LEMMA Woken ==
    ASSUME ThreadsInv, NEW S, Restore(S), iter' \subseteq iter,
           UNCHANGED <<running, current, all, numThreads, parent, clock>>,
           pc' = pc \/ (current = NoThread /\ pc' # "finished")
    PROVE  Places'
  <1>1. Separate'
    BY DEF ThreadsInv, Places, Separate, Here, Restore
  <1>2. Counted' /\ Parents'
    BY DEF ThreadsInv, Places, Counted, Parents
  <1>3. ClockStops'
    BY DEF ThreadsInv, Places, ClockStops
  <1>4. Loop'
    BY DEF ThreadsInv, Places, Loop
  <1> QED BY <1>1, <1>2, <1>3, <1>4 DEF Places

LEMMA Rested ==
    ASSUME ThreadsInv, UNCHANGED <<waiting, pending>>, iter' \subseteq iter,
           UNCHANGED <<running, current, all, numThreads, parent, clock>>,
           pc' = pc \/ (current = NoThread /\ pc' # "finished")
    PROVE  Places'
  <1>1. Restore({})
    BY DEF Restore
  <1> QED BY <1>1, Woken

(* A step after which the current thread waits.                            *)
LEMMA Yielded ==
    ASSUME ThreadsInv, current # NoThread, Yield,
           UNCHANGED <<pc, iter, running, pending, all, numThreads, parent, clock>>
    PROVE  Places'
  <1>1. Separate'
    BY ThreadSets DEF ThreadsInv, Places, Typed, Separate, Here, Yield
  <1>2. Counted' /\ Parents'
    BY DEF ThreadsInv, Places, Counted, Parents
  <1>3. ClockStops'
    BY DEF ThreadsInv, Places, ClockStops
  <1>4. Loop'
    BY DEF ThreadsInv, Places, Loop, Yield
  <1> QED BY <1>1, <1>2, <1>3, <1>4 DEF Places

LEMMA LiveAreFinite ==
    ASSUME Typed
    PROVE  IsFiniteSet(all) /\ Cardinality(all) \in Nat
  BY ThreadSets, FS_Subset, FS_CardinalityType DEF Typed

(* A step that closes a thread, the current one or one that waits.         *)
LEMMA ClosedOne ==
    ASSUME ThreadsInv, NEW t \in all, Close(t),
           \/ t = current /\ current' = NoThread
           \/ t \in waiting /\ current' = current,
           UNCHANGED <<pc, iter, running, parent>>
    PROVE  Places'
  <1> DEFINE W == waiting \ {t}
  <1>1. PICK woken : /\ pending' = pending \cup (W \cap woken)
                     /\ waiting' = W \ woken
    BY DEF Close
  <1>2. all' = all \ {t} /\ numThreads' = numThreads - 1
    BY DEF Close
  <1>3. Separate'
    <2>1. /\ all = running \cup waiting \cup pending \cup Here
          /\ running \cap waiting = {} /\ running \cap pending = {} /\ waiting \cap pending = {}
          /\ current \notin running \cup waiting \cup pending
          /\ NoThread \notin all /\ all \subseteq Threads
      BY ThreadSets DEF ThreadsInv, Places, Typed, Separate
    <2>2. waiting' \cup pending' = W \cup pending /\ waiting' \subseteq W
      BY <1>1
    <2>3. waiting' \cap pending' = {}
      BY <1>1, <2>1
    <2>4. CASE t = current /\ current' = NoThread
      BY <1>2, <2>1, <2>2, <2>3, <2>4 DEF Separate, Here
    <2>5. CASE t \in waiting /\ current' = current
      BY <1>2, <2>1, <2>2, <2>3, <2>5 DEF Separate, Here
    <2> QED BY <2>4, <2>5
  <1>4. Counted'
    BY <1>2, LiveAreFinite, FS_RemoveElement DEF ThreadsInv, Places, Counted
  <1>5. Parents'
    BY <1>2 DEF ThreadsInv, Places, Parents
  <1>6. Loop'
    <2>1. current' = current \/ current' = NoThread
      OBVIOUS
    <2> QED BY <1>2, <2>1 DEF ThreadsInv, Places, Loop
  <1>7. ClockStops'
    <2>1. SUFFICES ASSUME NEW c \in clock' PROVE \E u \in all' : parent'[u] = c
      BY DEF ClockStops
    <2>2. c \in clock /\ (LastOfHost(t) => c # parent[t])
      BY <2>1 DEF Close
    <2>3. PICK u \in all : parent[u] = c
      BY <2>2 DEF ThreadsInv, Places, ClockStops
    <2>4. CASE LastOfHost(t)
      BY <1>2, <2>2, <2>3, <2>4
    <2>5. CASE ~LastOfHost(t)
      BY <1>2, <2>2, <2>3, <2>5 DEF LastOfHost
    <2> QED BY <2>4, <2>5
  <1> QED BY <1>3, <1>4, <1>5, <1>6, <1>7 DEF Places

LEMMA ScriptPlaces ==
    ASSUME ThreadsInv, Script
    PROVE  Places'
  <1>0. current # NoThread /\ current \in all
    <2>1. current # NoThread
      BY DEF Script, End, Sleep, LockFree, LockBusy, Done, Wait, Signal, Broadcast, ConnectWaits,
             Connect, CloseSocket, NewThread, SendReceive, MayDo
    <2> QED BY <2>1 DEF ThreadsInv, Places, Separate, Here
  <1>1. CASE End
    BY <1>0, <1>1, ClosedOne DEF End, loopVars
  <1>2. CASE Sleep
    BY <1>0, <1>2, Yielded DEF Sleep, loopVars, timeVars
  <1>3. CASE LockFree
    BY <1>3, Rested DEF LockFree, loopVars, queueVars, timeVars
  <1>4. CASE LockBusy
    BY <1>0, <1>4, Yielded DEF LockBusy, loopVars, timeVars
  <1>5. CASE Done
    BY <1>5, Woken DEF Done, loopVars, timeVars
  <1>6. CASE Wait
    BY <1>0, <1>6, Yielded DEF Wait, loopVars, timeVars
  <1>7. CASE Signal
    BY <1>7, Woken, Rested DEF Signal, loopVars, timeVars
  <1>8. CASE Broadcast
    BY <1>8, Woken DEF Broadcast, loopVars, timeVars
  <1>9. CASE ConnectWaits
    BY <1>0, <1>9, Yielded DEF ConnectWaits, loopVars, timeVars
  <1>10. CASE Connect
    <2>1. Yield \/ UNCHANGED <<waiting, suspended, current>>
      BY <1>10 DEF Connect
    <2> QED BY <1>0, <1>10, <2>1, Yielded, Rested DEF Connect, loopVars, timeVars
  <1>11. CASE CloseSocket
    BY <1>11, Rested DEF CloseSocket, loopVars, queueVars, timeVars
  <1>12. ASSUME NEW w \in Workers, NewThread(w) PROVE Places'
    <2>1. /\ parent[w] = NoThread /\ w \in Threads /\ w \notin Scripts
          /\ parent' = [parent EXCEPT ![w] = parent[current]]
          /\ all' = all \cup {w} /\ pending' = pending \cup {w} /\ numThreads' = numThreads + 1
          /\ UNCHANGED <<pc, iter, running, waiting, current, clock>>
      BY <1>12, ThreadSets, SchedulerAssumption DEF NewThread, loopVars
    <2>2. w \notin all
      BY <2>1, ThreadSets DEF ThreadsInv, Places, Parents
    <2>3. Separate'
      BY <2>1, <2>2, ThreadSets DEF ThreadsInv, Places, Separate, Here
    <2>4. Counted'
      BY <2>1, <2>2, LiveAreFinite, FS_AddElement DEF ThreadsInv, Places, Counted
    <2>5. Parents'
      <3>1. parent' = [parent EXCEPT ![w] = parent[current]] /\ parent \in [Threads -> Scripts \cup {NoThread}]
        BY <2>1 DEF ThreadsInv, Typed
      <3>2. parent'[w] \in Scripts /\ \A u \in Threads \ {w} : parent'[u] = parent[u]
        BY <1>0, <2>1, <3>1 DEF ThreadsInv, Places, Parents
      <3>3. iter' \cap all' = {}
        BY <2>1 DEF ThreadsInv, Places, Parents, Typed
      <3>4. all \subseteq Threads /\ \A t \in all : parent[t] \in Scripts
        BY DEF ThreadsInv, Places, Parents, Typed
      <3>5. \A s \in Scripts : s \in Threads \ {w} /\ parent[s] = s
        BY <2>1, ThreadSets DEF ThreadsInv, Places, Parents
      <3> QED BY <2>1, <3>2, <3>3, <3>4, <3>5 DEF Parents
    <2>6. Loop'
      BY <1>0, <2>1 DEF ThreadsInv, Places, Loop
    <2>7. ClockStops'
      <3>1. \A u \in all : parent'[u] = parent[u] /\ u \in all'
        BY <2>1, <2>2 DEF ThreadsInv, Typed
      <3> QED BY <2>1, <3>1 DEF ThreadsInv, Places, ClockStops
    <2> QED BY <2>3, <2>4, <2>5, <2>6, <2>7 DEF Places
  <1>13. ASSUME NEW s \in Threads, SendReceive(s) PROVE Places'
    <2>1. \/ Yield /\ UNCHANGED <<pending, all, numThreads, clock>>
          \/ Close(current) /\ current' = NoThread
      BY <1>13 DEF SendReceive
    <2>2. UNCHANGED <<pc, iter, running, parent>>
      BY <1>13 DEF SendReceive, loopVars
    <2> QED BY <1>0, <2>1, <2>2, Yielded, ClosedOne
  <1> QED BY <1>1, <1>2, <1>3, <1>4, <1>5, <1>6, <1>7, <1>8, <1>9, <1>10, <1>11, <1>12, <1>13 DEF Script

LEMMA LoopPlaces ==
    ASSUME ThreadsInv, MainLoop
    PROVE  Places'
  <1>1. CASE StartDone
    BY <1>1, Rested DEF StartDone, queueVars, timeVars, ThreadsInv, Places, Loop
  <1>2. CASE TimeoutsDone
    BY <1>2, Rested DEF TimeoutsDone, queueVars, timeVars, ThreadsInv, Places, Loop
  <1>3. CASE ResumeDone
    BY <1>3, Rested DEF ResumeDone, queueVars, timeVars
  <1>4. CASE SocketUnlock
    BY <1>4, Rested, Woken DEF SocketUnlock, timeVars, ThreadsInv, Places, Loop
  <1>5. CASE LoopDone
    <2>1. /\ running' = running \cup pending /\ pending' = {} /\ current = NoThread
          /\ UNCHANGED <<iter, iterLive, waiting, current, all, numThreads, parent, clock>>
      BY <1>5 DEF LoopDone, timeVars, ThreadsInv, Places, Loop
    <2>2. Separate'
      BY <2>1 DEF ThreadsInv, Places, Separate, Here
    <2>3. Counted' /\ Parents' /\ ClockStops'
      BY <2>1 DEF ThreadsInv, Places, Counted, Parents, ClockStops
    <2>4. Loop'
      <3>1. pc' = "finished" => running' = {} /\ waiting' = {}
        BY <1>5 DEF LoopDone
      <3> QED BY <2>1, <2>2, <3>1 DEF Loop, Separate, Here
    <2> QED BY <2>2, <2>3, <2>4 DEF Places
  <1>6. ASSUME NEW t \in Scripts, StartThread(t) PROVE Places'
    <2>1. /\ t \in iter /\ t \notin all /\ t \in Threads /\ pc = "start"
          /\ iter' = iter \ {t} /\ all' = all \cup {t} /\ running' = running \cup {t}
          /\ numThreads' = numThreads + 1
          /\ UNCHANGED <<pc, waiting, pending, current, parent, clock>>
      BY <1>6, ThreadSets DEF StartThread, timeVars, ThreadsInv, Places, Parents
    <2>2. Separate'
      BY <2>1, ThreadSets DEF ThreadsInv, Places, Separate, Here
    <2>3. Counted'
      BY <2>1, LiveAreFinite, FS_AddElement DEF ThreadsInv, Places, Counted
    <2>4. Parents' /\ Loop' /\ ClockStops'
      BY <2>1 DEF ThreadsInv, Places, Parents, Loop, ClockStops
    <2> QED BY <2>2, <2>3, <2>4 DEF Places
  <1>7. ASSUME NEW t \in Threads, CheckTimeout(t) PROVE Places'
    <2>1. UNCHANGED <<pc, iter, running, current, parent>>
      BY <1>7 DEF CheckTimeout
    <2>2. CASE t \in waiting /\ TimedOut(t)
      <3>1. Close(t) /\ t \in all
        BY <1>7, <2>2 DEF CheckTimeout, ThreadsInv, Places, Separate
      <3> QED BY <2>1, <2>2, <3>1, ClosedOne
    <2>3. CASE ~(t \in waiting /\ TimedOut(t))
      <3>1. UNCHANGED <<waiting, pending, all, numThreads, clock>>
        BY <1>7, <2>3 DEF CheckTimeout
      <3> QED BY <2>1, <3>1, Rested
    <2> QED BY <2>2, <2>3
  <1>8. ASSUME NEW t \in Threads, Resume(t) PROVE Places'
    <2>1. /\ pc = "resume" /\ current = NoThread /\ t \in running /\ t \in all
          /\ current' = t /\ running' = running \ {t} /\ clock' = clock \cup {parent[t]}
          /\ UNCHANGED <<pc, iter, waiting, pending, all, numThreads, parent>>
      BY <1>8 DEF Resume, loopVars, ThreadsInv, Places, Separate
    <2>2. Separate'
      BY <2>1, ThreadSets DEF ThreadsInv, Places, Separate, Here
    <2>3. Counted' /\ Parents' /\ Loop' /\ ClockStops'
      BY <2>1 DEF ThreadsInv, Places, Counted, Parents, Loop, ClockStops
    <2> QED BY <2>2, <2>3 DEF Places
  <1> QED BY <1>1, <1>2, <1>3, <1>4, <1>5, <1>6, <1>7, <1>8 DEF MainLoop

LEMMA PlacesStep ==
    ASSUME ThreadsInv, Next
    PROVE  Places'
  <1>1. ASSUME NEW t \in Threads, SleepCallback(t) PROVE Places'
    BY <1>1, Woken DEF SleepCallback, loopVars, timeVars
  <1>2. ASSUME NEW e \in events, SocketCallback(e) PROVE Places'
    BY <1>2, Woken, Rested DEF SocketCallback, loopVars, timeVars
  <1>3. ASSUME NEW s \in Scripts, Expire(s) PROVE Places'
    BY <1>3, Rested DEF Expire, loopVars, queueVars
  <1>4. ASSUME NEW t \in Threads, CollectThread(t) PROVE Places'
    BY <1>4, Rested DEF CollectThread, loopVars, queueVars, timeVars
  <1>5. ASSUME NEW t \in Threads, CollectCoroutine(t) PROVE Places'
    BY <1>5, Rested DEF CollectCoroutine, loopVars, queueVars, timeVars
  <1>6. CASE Finished
    BY <1>6, Rested DEF Finished, vars, loopVars, queueVars, timeVars
  <1> QED BY <1>1, <1>2, <1>3, <1>4, <1>5, <1>6, ScriptPlaces, LoopPlaces DEF Next, Callback

(* The inductive invariant of the threads and their queues.                *)
THEOREM ThreadsInvariant == Spec => []ThreadsInv
  <1>1. ASSUME Init PROVE ThreadsInv
    <2>1. Typed
      <3>1. <<>> \in Seq(Threads)
        BY EmptySeq
      <3>2. MaxOps \in 0..MaxOps
        BY SchedulerAssumption
      <3>3. /\ parent \in [Threads -> Scripts \cup {NoThread}]
            /\ mutexHandler \in [Threads -> Threads \cup {NoThread}]
            /\ condHandler \in [Threads -> BOOLEAN]
            /\ nuThread \in [Threads -> Threads \cup {NoThread}]
        BY <1>1 DEF Init
      <3>4. opsLeft \in [Threads -> 0..MaxOps]
        BY <1>1, <3>2 DEF Init
      <3>5. mqueue \in Seq(Threads) /\ cqueue \in Seq(Threads)
        BY <1>1, <3>1 DEF Init
      <3> QED BY <1>1, <3>3, <3>4, <3>5 DEF Init, Typed
    <2>2. Separate /\ Loop /\ ClockStops
      BY <1>1 DEF Init, Separate, Here, Loop, ClockStops
    <2>3. Counted
      BY <1>1, FS_EmptySet DEF Init, Counted
    <2>4. Parents
      BY <1>1, ThreadSets DEF Init, Parents
    <2> QED BY <2>1, <2>2, <2>3, <2>4 DEF ThreadsInv, Places
  <1>2. ASSUME ThreadsInv, UNCHANGED <<repertoire, vars>> PROVE ThreadsInv'
    <2>1. Typed'
      BY <1>2 DEF ThreadsInv, Typed, vars, loopVars, queueVars, timeVars, coVars, mutexVars, condVars, slotVars, sockVars
    <2>2. Places'
      BY <1>2, Rested DEF vars, loopVars, queueVars, timeVars
    <2> QED BY <2>1, <2>2 DEF ThreadsInv
  <1>3. ASSUME ThreadsInv, Next PROVE ThreadsInv'
    BY <1>3, TypedStep, PlacesStep DEF ThreadsInv
  <1> QED BY <1>1, <1>2, <1>3, PTL DEF Spec

(* run() never loses a thread: one that was started and not closed is in   *)
(* exactly one of running, waiting and pending or is the current one,      *)
(* num_threads counts them, and the loop ends only when none is left.      *)
THEOREM ThreadsNeverLost == Spec => []NoThreadLost
  <1>1. ASSUME ThreadsInv PROVE NoThreadLost
    <2> DEFINE here == {current} \ {NoThread}
    <2>1. /\ all = running \cup waiting \cup pending \cup here
          /\ running \cap waiting = {} /\ running \cap pending = {} /\ waiting \cap pending = {}
          /\ here \cap (running \cup waiting \cup pending) = {}
      BY <1>1 DEF ThreadsInv, Places, Separate, Here
    <2>2. IsFiniteSet(running) /\ IsFiniteSet(waiting) /\ IsFiniteSet(pending) /\ IsFiniteSet(here)
      BY <1>1, <2>1, LiveAreFinite, FS_Subset DEF ThreadsInv
    <2> HIDE DEF here
    <2>3. /\ IsFiniteSet(running \cup waiting)
          /\ Cardinality(running \cup waiting) = Cardinality(running) + Cardinality(waiting)
      BY <2>1, <2>2, SizeOfTwo
    <2>4. /\ IsFiniteSet((running \cup waiting) \cup pending)
          /\ Cardinality((running \cup waiting) \cup pending)
               = Cardinality(running \cup waiting) + Cardinality(pending)
      <3>1. (running \cup waiting) \cap pending = {}
        BY <2>1
      <3> QED BY <2>2, <2>3, <3>1, SizeOfTwo
    <2>5. Cardinality(all) = Cardinality((running \cup waiting) \cup pending) + Cardinality(here)
      <3>1. ((running \cup waiting) \cup pending) \cap here = {}
        BY <2>1
      <3>2. all = ((running \cup waiting) \cup pending) \cup here
        BY <2>1
      <3> QED BY <2>2, <2>4, <3>1, <3>2, SizeOfTwo
    <2>6. numThreads = Cardinality(all) /\ (pc = "finished" => all = {})
      BY <1>1 DEF ThreadsInv, Places, Counted, Loop
    <2> QED BY <2>1, <2>3, <2>4, <2>5, <2>6 DEF NoThreadLost, here
  <1> QED BY <1>1, ThreadsInvariant, PTL

(* A host's time-out clock runs only while threads of the host are left,   *)
(* workers that outlive their script included.                             *)
THEOREM ClocksStop == Spec => []ClockStops
  <1>1. ThreadsInv => ClockStops
    BY DEF ThreadsInv, Places
  <1> QED BY <1>1, ThreadsInvariant, PTL

-----------------------------------------------------------------------------
(* What a thread waits for.  The wake-ups of the five kinds are kept in    *)
(* five places that know nothing of each other, and a wake-up for a thread *)
(* that does not wait is dropped: the argument is that a live thread is in *)
(* at most one of them, and in none while it is awake.                     *)
EventThreads == {e.sock : e \in events}
Born == all \cup Closed

Where ==
    /\ timers \subseteq waiting /\ ToSet(cqueue) \subseteq waiting
    /\ (ToSet(mqueue) \cup connectWaiting \cup EventThreads) \cap all \subseteq waiting
    /\ ToSet(mqueue) \cup connectWaiting \cup EventThreads \subseteq Born
    /\ lockCall \subseteq Born /\ reclaimed \subseteq Closed
OneReason ==
    /\ timers \cap (ToSet(cqueue) \cup ToSet(mqueue) \cup connectWaiting \cup EventThreads) = {}
    /\ ToSet(cqueue) \cap (ToSet(mqueue) \cup connectWaiting \cup EventThreads) = {}
    /\ (ToSet(mqueue) \cap (connectWaiting \cup EventThreads)) \cap all = {}
    /\ (connectWaiting \cap EventThreads) \cap all = {}
Reasons == Where /\ OneReason

Queues == Once(cqueue) /\ Once(mqueue) /\ \A t \in ToSet(cqueue) : condHandler[t]

(* A socket event belongs to the suspended thread that opened the socket.  *)
EventsOwned ==
    /\ \A e \in events : e.sock \in open /\ e.sock \in suspended /\ nuThread[e.sock] = e.sock
    /\ \A e, f \in events : e.sock = f.sock => e = f
    /\ \A s \in Threads : nuThread[s] \in {NoThread, s}

(* Who has the mutex, and who has the destructor that releases it.         *)
Locks ==
    /\ lockCall \cap waiting \subseteq ToSet(mqueue)
    /\ ToSet(mqueue) \cap all \subseteq lockCall
    /\ lockCall \cap (running \cup pending) \subseteq {owner}
    /\ current \notin lockCall
    /\ holds \subseteq all \cap {owner}
    /\ owner = NoThread => mqueue = <<>>
    /\ \A t \in Threads : mutexHandler[t] \in {NoThread, t} \cup Closed

Orderly == Reasons /\ Queues /\ EventsOwned /\ Locks /\ NoAbort
PrivateInv == ThreadsInv /\ Orderly

(* Without time-outs every thread in a queue is alive, every thread that   *)
(* waits is in one, and the destructor of the mutex is with its owner.     *)
Awaited == timers \cup ToSet(cqueue) \cup ToSet(mqueue) \cup connectWaiting \cup EventThreads
SlotsTaken == connectWaiting # {} => ~HasRoom
OwnerAlive ==
    /\ ToSet(mqueue) \subseteq all
    /\ owner # NoThread => owner \in all /\ mutexHandler[owner] = owner
Wakers == waiting \subseteq Awaited /\ SlotsTaken /\ OwnerAlive

-----------------------------------------------------------------------------
(* A thread that has been closed does not come back, and one that starts   *)
(* is new.                                                                 *)
Aging ==
    /\ Closed \subseteq Closed' /\ Born \subseteq Born'
    /\ all' \cap Born \subseteq all

LEMMA AgingShrink ==
    ASSUME ThreadsInv, all' \subseteq all, UNCHANGED <<iter, parent>>
    PROVE  Aging
  <1>1. \A t \in all : parent[t] # NoThread /\ t \notin iter
    BY ThreadSets DEF ThreadsInv, Places, Parents
  <1> QED BY <1>1 DEF ThreadsInv, Typed, Aging, Born, Closed

LEMMA AgingStart ==
    ASSUME ThreadsInv, NEW t \in Scripts, StartThread(t)
    PROVE  Aging
  <1>1. t \in iter /\ iter' = iter \ {t} /\ all' = all \cup {t} /\ UNCHANGED parent
    BY DEF StartThread, timeVars
  <1> QED BY <1>1 DEF Aging, Born, Closed

LEMMA AgingNew ==
    ASSUME ThreadsInv, NEW w \in Workers, NewThread(w)
    PROVE  Aging
  <1>1. /\ parent[w] = NoThread /\ all' = all \cup {w} /\ UNCHANGED iter
        /\ parent' = [parent EXCEPT ![w] = parent[current]]
    BY DEF NewThread, loopVars
  <1>2. parent \in [Threads -> Scripts \cup {NoThread}] /\ w \in Threads
    BY ThreadSets DEF ThreadsInv, Typed
  <1>3. w \notin Closed /\ w \notin all
    BY <1>1, ThreadSets DEF Closed, ThreadsInv, Places, Parents
  <1>4. \A u \in Threads \ {w} : parent'[u] = parent[u]
    BY <1>1, <1>2
  <1>5. Closed' = Closed
    BY <1>1, <1>3, <1>4 DEF Closed
  <1> QED BY <1>1, <1>3, <1>5 DEF Aging, Born

LEMMA AgingStep ==
    ASSUME ThreadsInv, Next
    PROVE  Aging
  <1>1. \/ \E t \in Scripts : StartThread(t)
        \/ \E w \in Workers : NewThread(w)
        \/ all' \subseteq all /\ UNCHANGED <<iter, parent>>
    <2>1. ASSUME NEW t, Close(t) PROVE all' \subseteq all
      BY <2>1 DEF Close
    <2>2. CASE Script
      BY <2>1, <2>2 DEF Script, End, Sleep, LockFree, LockBusy, Done, Wait, Signal, Broadcast, ConnectWaits,
             Connect, CloseSocket, SendReceive, loopVars, timeVars, queueVars
    <2>3. CASE MainLoop
      BY <2>1, <2>3 DEF MainLoop, StartDone, TimeoutsDone, ResumeDone, SocketUnlock, LoopDone, CheckTimeout, Resume,
             loopVars, timeVars, queueVars
    <2>4. CASE ~Script /\ ~MainLoop
      BY <2>4 DEF Next, Callback, SleepCallback, SocketCallback, Expire, CollectThread, CollectCoroutine, Finished,
             vars, loopVars, timeVars, queueVars
    <2> QED BY <2>2, <2>3, <2>4
  <1> QED BY <1>1, AgingStart, AgingNew, AgingShrink

-----------------------------------------------------------------------------
(* The reasons to wait.                                                    *)

(* A step that adds no reason, and wakes only threads left without one.    *)
LEMMA ReasonsShrink ==
    ASSUME Reasons, Aging,
           timers' \subseteq timers, ToSet(cqueue)' \subseteq ToSet(cqueue),
           ToSet(mqueue)' \subseteq ToSet(mqueue), connectWaiting' \subseteq connectWaiting,
           EventThreads' \subseteq EventThreads,
           lockCall' \subseteq lockCall, reclaimed' \subseteq Closed',
           timers' \cup ToSet(cqueue)' \subseteq waiting',
           (ToSet(mqueue)' \cup connectWaiting' \cup EventThreads') \cap all' \cap waiting \subseteq waiting'
    PROVE  Reasons'
  <1>1. Where'
    BY DEF Reasons, Where, Aging
  <1>2. OneReason'
    BY DEF Reasons, Where, OneReason, Aging
  <1> QED BY <1>1, <1>2 DEF Reasons

(* A step that leaves reasons, and those who wait, as they are.            *)
LEMMA ReasonsSame ==
    ASSUME Reasons, Aging, UNCHANGED <<timers, cqueue, mqueue, connectWaiting, events, waiting>>,
           lockCall' \subseteq lockCall, reclaimed' \subseteq Closed'
    PROVE  Reasons'
  <1>1. UNCHANGED <<ToSet(cqueue), ToSet(mqueue), EventThreads>>
    BY DEF EventThreads
  <1>2. timers' \cup ToSet(cqueue)' \subseteq waiting'
    BY <1>1 DEF Reasons, Where
  <1> QED BY <1>1, <1>2, ReasonsShrink

(* A step after which the current thread waits, for one reason.            *)
LEMMA ReasonsYield ==
    ASSUME ThreadsInv, Reasons, Aging, current # NoThread, Yield, UNCHANGED <<all, reclaimed>>,
           lockCall' \subseteq lockCall \cup {current},
           \/ /\ timers' = timers \cup {current}
              /\ UNCHANGED <<ToSet(cqueue), ToSet(mqueue), connectWaiting, EventThreads>>
           \/ /\ ToSet(cqueue)' = ToSet(cqueue) \cup {current}
              /\ UNCHANGED <<timers, ToSet(mqueue), connectWaiting, EventThreads>>
           \/ /\ ToSet(mqueue)' = ToSet(mqueue) \cup {current}
              /\ UNCHANGED <<ToSet(cqueue), timers, connectWaiting, EventThreads>>
           \/ /\ connectWaiting' = connectWaiting \cup {current}
              /\ UNCHANGED <<ToSet(cqueue), ToSet(mqueue), timers, EventThreads>>
           \/ /\ EventThreads' = EventThreads \cup {current}
              /\ UNCHANGED <<ToSet(cqueue), ToSet(mqueue), connectWaiting, timers>>
    PROVE  Reasons'
  <1>1. current \in all /\ current \notin waiting /\ waiting' = waiting \cup {current}
    BY DEF ThreadsInv, Places, Separate, Here, Yield
  <1>2. Where'
    BY <1>1 DEF Reasons, Where, Aging, Born
  <1>3. current \notin timers \cup ToSet(cqueue) \cup ToSet(mqueue) \cup connectWaiting \cup EventThreads
    BY <1>1 DEF Reasons, Where
  <1>4. OneReason'
    BY <1>1, <1>3 DEF Reasons, OneReason
  <1> QED BY <1>2, <1>4 DEF Reasons

-----------------------------------------------------------------------------
(* The events and the mutex.                                               *)
LEMMA EventsSame ==
    ASSUME EventsOwned, UNCHANGED <<events, open, nuThread>>,
           EventThreads \cap suspended \subseteq suspended'
    PROVE  EventsOwned'
  BY DEF EventsOwned, EventThreads

LEMMA QueuesSame ==
    ASSUME Queues, UNCHANGED <<mqueue, cqueue>>,
           \A t \in ToSet(cqueue) : condHandler[t] => condHandler'[t]
    PROVE  Queues'
  BY DEF Queues, Once, ToSet

(* A step that leaves the mutex alone and wakes nobody who waits for it.   *)
LEMMA LocksSame ==
    ASSUME ThreadsInv, ThreadsInv', Where, Locks, Aging,
           UNCHANGED <<owner, mqueue, lockCall, holds, mutexHandler>>,
           all \subseteq all', current' \in {current, NoThread},
           ToSet(mqueue) \cap waiting \subseteq waiting', waiting' \subseteq waiting \cup {current}
    PROVE  Locks'
  <1>1. ToSet(mqueue)' = ToSet(mqueue)
    OBVIOUS
  <1>2. lockCall \cap waiting' \subseteq ToSet(mqueue)
    BY DEF Locks
  <1>3. ToSet(mqueue) \cap all' \subseteq lockCall
    BY DEF Locks, Where, Aging
  <1>4. lockCall \cap (running' \cup pending') \subseteq {owner}
    <2>1. SUFFICES ASSUME NEW t \in lockCall, t \in running' \cup pending', t # owner PROVE FALSE
      OBVIOUS
    <2>2. t \in all' /\ t \notin waiting'
      BY <2>1 DEF ThreadsInv, Places, Separate
    <2>3. t \in all /\ t # current
      BY <2>2 DEF Where, Aging, Locks
    <2>4. t \in waiting
      BY <2>1, <2>3 DEF ThreadsInv, Places, Separate, Here, Locks
    <2> QED BY <2>1, <2>2, <2>4 DEF Locks
  <1>5. current' \notin lockCall
    BY ThreadSets DEF Locks, ThreadsInv, Typed
  <1>6. \A t \in Threads : mutexHandler[t] \in {NoThread, t} \cup Closed'
    BY DEF Locks, Aging
  <1>7. holds \subseteq all' \cap {owner} /\ (owner = NoThread => mqueue = <<>>)
    BY DEF Locks
  <1> QED BY <1>1, <1>2, <1>3, <1>4, <1>5, <1>6, <1>7 DEF Locks

(* A step of the main loop, or of a script, that touches none of this.     *)
LEMMA Quiet ==
    ASSUME PrivateInv, ThreadsInv', Aging, UNCHANGED <<timers, condVars, mutexVars, connectWaiting, sockVars>>,
           UNCHANGED <<waiting, suspended, current>>, all \subseteq all', reclaimed' \subseteq Closed'
    PROVE  Orderly'
  <1> USE DEF PrivateInv, Orderly, condVars, mutexVars, sockVars
  <1>1. Reasons'
    BY ReasonsSame
  <1>2. Queues'
    BY QueuesSame
  <1>3. EventsOwned'
    BY EventsSame
  <1>4. Locks'
    BY LocksSame DEF Reasons
  <1>5. NoAbort'
    BY DEF NoAbort
  <1> QED BY <1>1, <1>2, <1>3, <1>4, <1>5

(* The lock goes to the next waiter.                                       *)
LEMMA Passed ==
    ASSUME Typed, Once(mqueue), NEW k, PassMutex(k)
    PROVE  /\ owner' = NextOwner /\ (owner' = NoThread => mqueue' = <<>>)
           /\ NextOwner # NoThread => NextOwner \in ToSet(mqueue)
           /\ NextOwner \notin ToSet(mqueue)' /\ Once(mqueue')
           /\ ToSet(mqueue)' \subseteq ToSet(mqueue) /\ ToSet(mqueue) \subseteq ToSet(mqueue)' \cup {NextOwner}
  <1>1. owner' = NextOwner /\ mqueue' = IF mqueue = <<>> THEN mqueue ELSE Tail(mqueue)
    BY DEF PassMutex
  <1>2. ToSet(mqueue)' = ToSet(mqueue')
    OBVIOUS
  <1>3. CASE mqueue = <<>>
    <2>1. NextOwner = NoThread /\ ToSet(mqueue) = {} /\ mqueue' = mqueue
      BY <1>1, <1>3, SetOfQueue DEF NextOwner, Typed
    <2> QED BY <1>1, <1>2, <1>3, <2>1
  <1>4. CASE mqueue # <<>>
    <2>1. /\ NextOwner = Head(mqueue) /\ NextOwner # NoThread
          /\ mqueue' = Tail(mqueue)
      BY <1>1, <1>4, NextOwnerTyped
    <2>2. /\ Head(mqueue) \in ToSet(mqueue)
          /\ ToSet(Tail(mqueue)) \subseteq ToSet(mqueue)
          /\ ToSet(mqueue) = ToSet(Tail(mqueue)) \cup {Head(mqueue)}
          /\ Once(Tail(mqueue)) /\ Head(mqueue) \notin ToSet(Tail(mqueue))
      BY <1>4, QueueTail DEF Typed
    <2> QED BY <1>1, <1>2, <2>1, <2>2
  <1> QED BY <1>3, <1>4

LEMMA PassedHandlers ==
    ASSUME Typed, Locks, Where, Aging, NEW k, PassMutex(k)
    PROVE  \A t \in Threads : mutexHandler'[t] \in {NoThread, t} \cup Closed'
  <1>1. SUFFICES ASSUME NEW t \in Threads PROVE mutexHandler'[t] \in {NoThread, t} \cup Closed'
    OBVIOUS
  <1>2. \/ mutexHandler'[t] \in {NoThread, mutexHandler[t]}
        \/ mutexHandler'[t] = NextOwner /\ (NextOwner \in reclaimed \/ NextOwner = t)
    BY DEF PassMutex
  <1> QED BY <1>2 DEF Locks, Where, Aging

(* Thread:close for the current thread, or for one that waits.             *)
LEMMA CloseOrderly ==
    ASSUME PrivateInv, ThreadsInv', Aging, NEW t \in all, Close(t),
           \/ t = current /\ current' = NoThread
           \/ t \in waiting /\ current' = current,
           UNCHANGED <<running, connectWaiting, sockVars, suspended, reclaimed>>
    PROVE  Orderly'
  <1> USE DEF PrivateInv, Orderly
  <1> DEFINE passes == mutexHandler[t] # NoThread /\ mutexHandler[t] = owner
             woken  == (IF passes THEN {NextOwner} ELSE {}) \cup CondWoken(t)
  <1>1. /\ all' = all \ {t} /\ timers' = timers \ {t} /\ holds' = holds \ {t} /\ UNCHANGED lockCall
        /\ pending' = pending \cup ((waiting \ {t}) \cap woken)
        /\ waiting' = (waiting \ {t}) \ woken
        /\ cqueue' = (IF condHandler[t] THEN <<>> ELSE cqueue)
        /\ condHandler' = [condHandler EXCEPT ![t] = FALSE]
        /\ (IF passes THEN PassMutex(NoThread) ELSE UNCHANGED <<owner, mqueue, mutexHandler>>)
    BY DEF Close
  <1>2. /\ ToSet(mqueue)' \subseteq ToSet(mqueue) /\ Once(mqueue')
        /\ owner' = NoThread => mqueue' = <<>>
        /\ passes => NextOwner \notin ToSet(mqueue)' /\ ToSet(mqueue) \subseteq ToSet(mqueue)' \cup {NextOwner}
                       /\ owner' = NextOwner
        /\ passes /\ NextOwner # NoThread => NextOwner \in ToSet(mqueue)
        /\ ~passes => UNCHANGED <<mqueue, owner, mutexHandler>>
    BY <1>1, Passed DEF ThreadsInv, Queues, Locks
  <1>3. /\ ToSet(cqueue)' \subseteq ToSet(cqueue) /\ Once(cqueue')
        /\ condHandler[t] => ToSet(cqueue)' = {} /\ CondWoken(t) = ToSet(cqueue)
        /\ ~condHandler[t] => ToSet(cqueue)' = ToSet(cqueue) /\ CondWoken(t) = {} /\ t \notin ToSet(cqueue)
    <2>1. ToSet(cqueue)' = ToSet(cqueue')
      OBVIOUS
    <2> QED BY <1>1, <2>1, QueueEmpty DEF CondWoken, Queues
  <1>4. EventThreads' = EventThreads
    BY DEF EventThreads, sockVars
  <1>5. t \in Threads /\ t # NoThread /\ NoThread \notin waiting
    BY ThreadSets DEF ThreadsInv, Typed
  <1>6. PICK nx : nx = NextOwner
    OBVIOUS
  <1>7. PICK W : W = woken
    OBVIOUS
  <1>8. /\ W \subseteq {nx} \cup ToSet(cqueue)
        /\ nx \in W => passes \/ nx \in ToSet(cqueue)
        /\ condHandler[t] => ToSet(cqueue) \subseteq W
        /\ ~condHandler[t] => W \subseteq {nx} /\ (nx \in W => passes)
        /\ passes => nx \in W
    BY <1>3, <1>6, <1>7
  <1> HIDE DEF woken
  <1>9. (ToSet(mqueue)' \cup connectWaiting \cup EventThreads) \cap all' \cap waiting \subseteq waiting'
    <2>1. SUFFICES ASSUME NEW u \in all', u \in waiting, u \in ToSet(mqueue)' \cup connectWaiting \cup EventThreads
                   PROVE  u \notin W
      BY <1>1, <1>7
    <2>2. u # nx \/ ~passes
      BY <1>1, <1>2, <1>6, <2>1, <1>5 DEF Reasons, OneReason
    <2>3. u \notin ToSet(cqueue)
      BY <1>2, <2>1 DEF Reasons, OneReason
    <2> QED BY <1>8, <2>2, <2>3
  <1>10. timers' \cup ToSet(cqueue)' \subseteq waiting'
    <2>1. SUFFICES ASSUME NEW u \in timers' \cup ToSet(cqueue)' PROVE u \in waiting /\ u # t /\ u \notin W
      BY <1>1, <1>7
    <2>2. u \in waiting /\ u # t /\ u \notin ToSet(mqueue)
      BY <1>1, <1>3, <2>1 DEF Reasons, Where, OneReason
    <2>3. passes => u # nx
      BY <1>2, <1>5, <1>6, <2>2
    <2>4. CASE u \in ToSet(cqueue)'
      BY <1>3, <1>8, <2>2, <2>3, <2>4
    <2>5. CASE u \in timers'
      <3>1. u \notin ToSet(cqueue)
        BY <1>1, <2>5 DEF Reasons, OneReason
      <3> QED BY <1>8, <2>2, <2>3, <3>1
    <2> QED BY <2>1, <2>4, <2>5
  <1>11. Reasons'
    <2>1. reclaimed' \subseteq Closed'
      BY DEF Reasons, Where, Aging
    <2> QED BY <1>1, <1>2, <1>3, <1>4, <1>9, <1>10, <2>1, ReasonsShrink
  <1>12. Queues'
    <2>1. \A u \in ToSet(cqueue)' : u \in Threads /\ u # t /\ condHandler[u]
      BY <1>3 DEF Queues, ThreadsInv, Typed, Reasons, Where
    <2>2. \A u \in ToSet(cqueue)' : condHandler'[u]
      BY <1>1, <2>1 DEF ThreadsInv, Typed
    <2> QED BY <1>2, <1>3, <2>2 DEF Queues
  <1>13. EventsOwned' /\ NoAbort'
    BY EventsSame DEF sockVars, NoAbort
  <1>14. Locks'
    <2>1. lockCall \cap waiting' \subseteq ToSet(mqueue)'
      <3>1. SUFFICES ASSUME NEW u \in lockCall, u \in waiting, u \notin W PROVE u \in ToSet(mqueue)'
        BY <1>1, <1>7
      <3>2. u \in ToSet(mqueue)
        BY <3>1 DEF Locks
      <3> QED BY <1>2, <1>6, <1>8, <3>1, <3>2
    <2>2. ToSet(mqueue)' \cap all' \subseteq lockCall
      BY <1>1, <1>2 DEF Locks
    <2>3. owner = t \/ owner \notin all \/ ~passes
      BY <1>5 DEF Locks, Closed, ThreadsInv, Typed
    <2>4. t \notin running \cup pending
      BY DEF ThreadsInv, Places, Separate
    <2>5. lockCall \cap (running \cup pending') \subseteq {owner'}
      <3>1. SUFFICES ASSUME NEW u \in lockCall, u \in running \cup pending' PROVE u = owner'
        OBVIOUS
      <3>2. CASE u \in running \cup pending
        <4>1. u = owner /\ u # t /\ u \in all
          BY <2>4, <3>2 DEF Locks, ThreadsInv, Places, Separate
        <4> QED BY <1>2, <2>3, <4>1
      <3>3. CASE u \notin running \cup pending
        <4>1. u \in waiting /\ u \in W
          BY <1>1, <1>7, <3>1, <3>3
        <4>2. u \in ToSet(mqueue) /\ u \notin ToSet(cqueue)
          BY <4>1 DEF Locks, Reasons, OneReason
        <4> QED BY <1>2, <1>6, <1>8, <4>1, <4>2
      <3> QED BY <3>2, <3>3
    <2>6. current' \notin lockCall
      BY ThreadSets DEF Locks, ThreadsInv, Typed
    <2>7. holds' \subseteq all' \cap {owner'}
      BY <1>1, <1>2, <2>3 DEF Locks
    <2>8. \A u \in Threads : mutexHandler'[u] \in {NoThread, u} \cup Closed'
      <3>1. CASE passes
        BY <1>1, <3>1, PassedHandlers DEF ThreadsInv, Reasons
      <3>2. CASE ~passes
        BY <1>2, <3>2 DEF Locks, Aging
      <3> QED BY <3>1, <3>2
    <2> QED BY <1>1, <1>2, <2>1, <2>2, <2>5, <2>6, <2>7, <2>8 DEF Locks
  <1> QED BY <1>11, <1>12, <1>13, <1>14

(* A step that wakes threads for the one reason they had.                  *)
LEMMA WakeOrderly ==
    ASSUME PrivateInv, ThreadsInv', Aging, NEW S, Restore(S),
           UNCHANGED <<mutexVars, suspended, current, all, reclaimed>>,
           timers' \subseteq timers, ToSet(cqueue)' \subseteq ToSet(cqueue),
           connectWaiting' \subseteq connectWaiting, EventThreads' \subseteq EventThreads,
           S \cap waiting \cap (timers' \cup ToSet(cqueue)' \cup ToSet(mqueue) \cup connectWaiting'
                                 \cup EventThreads') = {}
    PROVE  Reasons' /\ Locks'
  <1>1. ToSet(mqueue)' = ToSet(mqueue) /\ lockCall' = lockCall /\ waiting' = waiting \ S
    BY DEF mutexVars, Restore
  <1>2. reclaimed' \subseteq Closed'
    BY DEF PrivateInv, Orderly, Reasons, Where, Aging
  <1>3. timers' \cup ToSet(cqueue)' \subseteq waiting'
    BY <1>1 DEF PrivateInv, Orderly, Reasons, Where
  <1>4. (ToSet(mqueue)' \cup connectWaiting' \cup EventThreads') \cap all' \cap waiting \subseteq waiting'
    BY <1>1
  <1>5. Reasons'
    BY <1>1, <1>2, <1>3, <1>4, ReasonsShrink DEF PrivateInv, Orderly
  <1>6. ToSet(mqueue) \cap waiting \subseteq waiting'
    BY <1>1
  <1> QED BY <1>1, <1>5, <1>6, LocksSame DEF PrivateInv, Orderly, Reasons, mutexVars

LEMMA ScriptOrderly ==
    ASSUME PrivateInv, ThreadsInv', Aging, ~Sharing, Script
    PROVE  Orderly'
  <1> USE DEF PrivateInv, Orderly
  <1>0. /\ current # NoThread /\ current \in all /\ current \in Threads
        /\ current \notin running \cup waiting \cup pending
        /\ current \notin timers \cup ToSet(cqueue) \cup ToSet(mqueue) \cup connectWaiting \cup EventThreads
    <2>1. current # NoThread
      BY DEF Script, End, Sleep, LockFree, LockBusy, Done, Wait, Signal, Broadcast, ConnectWaits,
             Connect, CloseSocket, NewThread, SendReceive, MayDo
    <2>2. /\ current \in all /\ current \in Threads
          /\ current \notin running \cup waiting \cup pending
      BY <2>1 DEF ThreadsInv, Typed, Places, Separate, Here
    <2> QED BY <2>1, <2>2 DEF Reasons, Where
  <1>00. reclaimed \subseteq Closed'
    BY DEF Reasons, Where, Aging
  <1>1. CASE End
    BY <1>0, <1>1, CloseOrderly DEF End, coVars, slotVars
  <1>2. CASE Sleep
    <2>1. /\ timers' = timers \cup {current} /\ Yield
          /\ UNCHANGED <<all, reclaimed, mutexVars, condVars, connectWaiting, sockVars>>
      BY <1>2 DEF Sleep, slotVars
    <2>2. UNCHANGED <<ToSet(cqueue), ToSet(mqueue), EventThreads, connectWaiting, lockCall>>
      BY <2>1 DEF mutexVars, condVars, sockVars, EventThreads
    <2>3. Reasons'
      BY <1>0, <2>1, <2>2, ReasonsYield
    <2>4. Queues' /\ NoAbort'
      BY <2>1, QueuesSame DEF mutexVars, condVars, sockVars, NoAbort
    <2>5. EventsOwned'
      BY <2>1, EventsSame DEF sockVars, Yield
    <2>6. Locks'
      BY <2>1, LocksSame DEF mutexVars, Yield, Reasons
    <2> QED BY <2>3, <2>4, <2>5, <2>6
  <1>3. CASE LockFree
    <2>1. /\ owner = NoThread /\ owner' = current /\ holds' = holds \cup {current}
          /\ mutexHandler' = [mutexHandler EXCEPT ![current] = current]
          /\ UNCHANGED <<queueVars, suspended, reclaimed, mqueue, lockCall, condVars, timers, connectWaiting, sockVars>>
      BY <1>3 DEF LockFree, slotVars
    <2>2. Reasons'
      BY <1>00, <2>1, ReasonsSame DEF queueVars, condVars, sockVars
    <2>3. Queues' /\ NoAbort' /\ EventsOwned'
      BY <2>1, QueuesSame, EventsSame DEF condVars, sockVars, NoAbort
    <2>4. Locks'
      <3>1. UNCHANGED <<running, pending, waiting, current, all, lockCall, mqueue, ToSet(mqueue)>>
        BY <2>1 DEF queueVars
      <3>2. \A t \in Threads : mutexHandler'[t] \in {mutexHandler[t], t}
        BY <2>1 DEF ThreadsInv, Typed
      <3>3. \A t \in Threads : mutexHandler'[t] \in {NoThread, t} \cup Closed'
        BY <3>2 DEF Locks, Aging
      <3>4. lockCall \cap (running \cup pending) = {} /\ holds = {}
        BY <2>1, ThreadSets DEF Locks, ThreadsInv, Typed
      <3> QED BY <1>0, <2>1, <3>1, <3>3, <3>4 DEF Locks
    <2> QED BY <2>2, <2>3, <2>4
  <1>4. CASE LockBusy
    <2>1. /\ mqueue' = Append(mqueue, current) /\ lockCall' = lockCall \cup {current} /\ Yield
          /\ owner # NoThread
          /\ UNCHANGED <<running, pending, all, reclaimed, owner, holds, mutexHandler, condVars, timers, connectWaiting, sockVars>>
      BY <1>4 DEF LockBusy, slotVars
    <2>2. ToSet(mqueue)' = ToSet(mqueue) \cup {current} /\ Once(mqueue')
      <3>1. ToSet(mqueue)' = ToSet(mqueue')
        OBVIOUS
      <3> QED BY <1>0, <2>1, <3>1, QueueAppend DEF ThreadsInv, Typed, Queues
    <2>3. Reasons'
      <3>1. UNCHANGED <<ToSet(cqueue), EventThreads>>
        BY <2>1 DEF condVars, sockVars, EventThreads
      <3> QED BY <1>0, <2>1, <2>2, <3>1, ReasonsYield
    <2>4. Queues' /\ NoAbort'
      BY <2>1, <2>2 DEF condVars, sockVars, Queues, NoAbort
    <2>5. EventsOwned'
      BY <2>1, EventsSame DEF sockVars, Yield
    <2>6. Locks'
      <3>1. waiting' = waiting \cup {current} /\ current' = NoThread
        BY <2>1 DEF Yield
      <3>2. NoThread \notin lockCall'
        BY <1>0, <2>1, ThreadSets DEF ThreadsInv, Typed
      <3>3. \A t \in Threads : mutexHandler'[t] \in {NoThread, t} \cup Closed'
        BY <2>1 DEF Locks, Aging
      <3> QED BY <1>0, <2>1, <2>2, <3>1, <3>2, <3>3 DEF Locks
    <2> QED BY <2>3, <2>4, <2>5, <2>6
  <1>5. CASE Done
    <2>1. /\ owner = current /\ PassMutex(current) /\ holds' = holds \ {current} /\ Restore({NextOwner})
          /\ UNCHANGED <<running, current, all, suspended, reclaimed, lockCall, condVars, timers, connectWaiting, sockVars>>
      BY <1>5 DEF Done, slotVars
    <2>2. PICK nx : nx = NextOwner
      OBVIOUS
    <2>3. /\ owner' = nx /\ (owner' = NoThread => mqueue' = <<>>)
          /\ nx # NoThread => nx \in ToSet(mqueue)
          /\ nx \notin ToSet(mqueue)' /\ Once(mqueue')
          /\ ToSet(mqueue)' \subseteq ToSet(mqueue) /\ ToSet(mqueue) \subseteq ToSet(mqueue)' \cup {nx}
      BY <2>1, <2>2, Passed DEF ThreadsInv, Queues
    <2>4. /\ waiting' = waiting \ {nx} /\ pending' = pending \cup ({nx} \cap waiting)
          /\ NoThread \notin waiting
      BY <2>1, <2>2, ThreadSets DEF Restore, ThreadsInv, Typed
    <2>5. UNCHANGED <<ToSet(cqueue), EventThreads>>
      BY <2>1 DEF condVars, sockVars, EventThreads
    <2>6. Reasons'
      <3>1. timers' \cup ToSet(cqueue)' \subseteq waiting'
        BY <2>1, <2>3, <2>4, <2>5 DEF Reasons, Where, OneReason
      <3>2. (ToSet(mqueue)' \cup connectWaiting' \cup EventThreads') \cap all' \cap waiting \subseteq waiting'
        BY <2>1, <2>3, <2>4, <2>5 DEF Reasons, Where, OneReason
      <3> QED BY <1>00, <2>1, <2>3, <2>5, <3>1, <3>2, ReasonsShrink
    <2>7. Queues' /\ NoAbort' /\ EventsOwned'
      BY <2>1, <2>3, EventsSame DEF condVars, sockVars, NoAbort, Queues
    <2>8. Locks'
      <3>1. lockCall \cap (running \cup pending) = {} /\ holds' = {}
        BY <2>1, <1>0 DEF Locks
      <3>2. \A t \in Threads : mutexHandler'[t] \in {NoThread, t} \cup Closed'
        BY <2>1, PassedHandlers DEF ThreadsInv, Reasons
      <3>3. lockCall \cap (running' \cup pending') \subseteq {owner'}
        BY <2>1, <2>3, <2>4, <3>1
      <3>4. lockCall \cap waiting' \subseteq ToSet(mqueue)' /\ ToSet(mqueue)' \cap all' \subseteq lockCall
        BY <2>1, <2>3, <2>4 DEF Locks
      <3> QED BY <2>1, <2>3, <3>1, <3>2, <3>3, <3>4 DEF Locks
    <2> QED BY <2>6, <2>7, <2>8
  <1>6. CASE Wait
    <2>1. /\ cqueue' = Append(cqueue, current) /\ Yield
          /\ condHandler' = [condHandler EXCEPT ![current] = TRUE]
          /\ UNCHANGED <<all, reclaimed, mutexVars, timers, connectWaiting, sockVars>>
      BY <1>6 DEF Wait, slotVars
    <2>2. ToSet(cqueue)' = ToSet(cqueue) \cup {current} /\ Once(cqueue')
      <3>1. ToSet(cqueue)' = ToSet(cqueue')
        OBVIOUS
      <3> QED BY <1>0, <2>1, <3>1, QueueAppend DEF ThreadsInv, Typed, Queues
    <2>3. Reasons'
      <3>1. UNCHANGED <<ToSet(mqueue), EventThreads, lockCall>>
        BY <2>1 DEF mutexVars, sockVars, EventThreads
      <3> QED BY <1>0, <2>1, <2>2, <3>1, ReasonsYield
    <2>4. Queues' /\ NoAbort'
      <3>1. \A u \in ToSet(cqueue) : u \in Threads /\ condHandler[u]
        BY SetOfQueue DEF Queues, ThreadsInv, Typed
      <3>2. \A u \in ToSet(cqueue)' : condHandler'[u]
        BY <1>0, <2>1, <2>2, <3>1 DEF ThreadsInv, Typed
      <3> QED BY <2>1, <2>2, <3>2 DEF mutexVars, sockVars, Queues, NoAbort
    <2>5. EventsOwned'
      BY <2>1, EventsSame DEF sockVars, Yield
    <2>6. Locks'
      BY <2>1, LocksSame DEF mutexVars, Yield, Reasons
    <2> QED BY <2>3, <2>4, <2>5, <2>6
  <1>7. CASE Signal
    <2>1. /\ condHandler' = [condHandler EXCEPT ![current] = TRUE]
          /\ UNCHANGED <<running, current, all, suspended, reclaimed, mutexVars, timers, connectWaiting, sockVars>>
      BY <1>7 DEF Signal, slotVars
    <2>2. UNCHANGED <<ToSet(mqueue), EventThreads>>
      BY <2>1 DEF mutexVars, sockVars, EventThreads
    <2>3. \A u \in ToSet(cqueue) : condHandler'[u]
      <3>1. \A u \in ToSet(cqueue) : u \in Threads /\ condHandler[u]
        BY SetOfQueue DEF Queues, ThreadsInv, Typed
      <3> QED BY <1>0, <2>1, <3>1 DEF ThreadsInv, Typed
    <2>4. NoAbort' /\ EventsOwned'
      BY <2>1, EventsSame DEF sockVars, NoAbort
    <2>5. CASE cqueue = <<>>
      <3>1. UNCHANGED <<cqueue, waiting, pending>>
        BY <1>7, <2>5 DEF Signal
      <3>2. Reasons'
        BY <1>00, <2>1, <3>1, ReasonsSame DEF mutexVars, sockVars
      <3>3. Queues'
        BY <2>1, <2>3, <3>1, QueuesSame DEF mutexVars
      <3>4. Locks'
        BY <2>1, <3>1, LocksSame DEF mutexVars, Reasons
      <3> QED BY <2>4, <3>2, <3>3, <3>4
    <2>6. CASE cqueue # <<>>
      <3>1. cqueue' = Front(cqueue) /\ Restore({Last(cqueue)})
        BY <1>7, <2>6 DEF Signal
      <3>2. PICK l : l = Last(cqueue)
        OBVIOUS
      <3>3. ToSet(cqueue)' = ToSet(cqueue')
        OBVIOUS
      <3>4. /\ ToSet(cqueue)' \subseteq ToSet(cqueue) /\ l \in ToSet(cqueue) /\ l \notin ToSet(cqueue)'
            /\ Once(cqueue')
        BY <2>6, <3>1, <3>2, <3>3, QueueFront DEF ThreadsInv, Typed, Queues
      <3>5. {l} \cap waiting \cap (timers' \cup ToSet(cqueue)' \cup ToSet(mqueue) \cup connectWaiting' \cup EventThreads') = {}
        BY <2>1, <2>2, <3>4 DEF Reasons, OneReason
      <3>6. Reasons' /\ Locks'
        BY <2>1, <2>2, <3>1, <3>2, <3>4, <3>5, WakeOrderly
      <3>7. Queues'
        BY <2>1, <2>3, <3>4 DEF Queues, mutexVars
      <3> QED BY <2>4, <3>6, <3>7
    <2> QED BY <2>5, <2>6
  <1>8. CASE Broadcast
    <2>1. /\ condHandler' = [condHandler EXCEPT ![current] = TRUE] /\ cqueue' = <<>> /\ Restore(ToSet(cqueue))
          /\ UNCHANGED <<running, current, all, suspended, reclaimed, mutexVars, timers, connectWaiting, sockVars>>
      BY <1>8 DEF Broadcast, slotVars
    <2>2. UNCHANGED <<ToSet(mqueue), EventThreads>>
      BY <2>1 DEF mutexVars, sockVars, EventThreads
    <2>3. ToSet(cqueue)' = {} /\ Once(cqueue')
      <3>1. ToSet(cqueue)' = ToSet(cqueue')
        OBVIOUS
      <3> QED BY <2>1, <3>1, QueueEmpty
    <2>4. PICK S : S = ToSet(cqueue)
      OBVIOUS
    <2>5. S \cap waiting \cap (timers' \cup ToSet(cqueue)' \cup ToSet(mqueue) \cup connectWaiting' \cup EventThreads') = {}
      BY <2>1, <2>2, <2>3, <2>4 DEF Reasons, OneReason
    <2>6. Reasons' /\ Locks'
      BY <2>1, <2>2, <2>3, <2>4, <2>5, WakeOrderly
    <2>7. Queues'
      BY <2>1, <2>3 DEF Queues, mutexVars
    <2>8. NoAbort' /\ EventsOwned'
      BY <2>1, EventsSame DEF sockVars, NoAbort
    <2> QED BY <2>6, <2>7, <2>8
  <1>9. CASE ConnectWaits
    <2>1. /\ connectWaiting' = connectWaiting \cup {current} /\ Yield
          /\ UNCHANGED <<all, reclaimed, mutexVars, condVars, timers, sockVars>>
      BY <1>9 DEF ConnectWaits
    <2>2. UNCHANGED <<ToSet(cqueue), ToSet(mqueue), EventThreads, lockCall>>
      BY <2>1 DEF mutexVars, condVars, sockVars, EventThreads
    <2>3. Reasons'
      BY <1>0, <2>1, <2>2, ReasonsYield
    <2>4. Queues' /\ NoAbort'
      BY <2>1, QueuesSame DEF mutexVars, condVars, sockVars, NoAbort
    <2>5. EventsOwned'
      BY <2>1, EventsSame DEF sockVars, Yield
    <2>6. Locks'
      BY <2>1, LocksSame DEF mutexVars, Yield, Reasons
    <2> QED BY <2>3, <2>4, <2>5, <2>6
  <1>10. CASE Connect
    <2>1. UNCHANGED <<running, pending, all, reclaimed, mutexVars, condVars, timers, connectWaiting>>
      BY <1>10 DEF Connect
    <2>2. CASE UNCHANGED <<sockVars, waiting, suspended, current>>
      BY <1>00, <2>1, <2>2, Quiet
    <2>3. CASE ~UNCHANGED <<sockVars, waiting, suspended, current>>
      <3>1. {e \in events : e.sock # current} = events
        BY <1>0 DEF EventThreads
      <3>2. /\ open' = open \cup {current}
            /\ nuThread' = [nuThread EXCEPT ![current] = current]
            /\ aborted' = aborted
            /\ \/ /\ events' = events \cup {[sock |-> current, type |-> "connect"]}
                  /\ Yield
               \/ events' = events /\ UNCHANGED <<waiting, suspended, current>>
        BY <1>10, <2>3, <3>1 DEF Connect, ThreadsInv, Typed
      <3>3. UNCHANGED <<ToSet(cqueue), ToSet(mqueue), lockCall>>
        BY <2>1 DEF mutexVars, condVars
      <3>4. Queues' /\ NoAbort'
        BY <2>1, <3>2, QueuesSame DEF mutexVars, condVars, NoAbort
      <3>5. \A s \in Threads : nuThread'[s] = IF s = current THEN s ELSE nuThread[s]
        BY <3>2 DEF ThreadsInv, Typed
      <3>6. /\ \A e \in events : e.sock \in Threads /\ e.sock # current
            /\ \A e \in events : nuThread'[e.sock] = e.sock /\ e.sock \in open'
        <4>1. \A e \in events : e.sock \in Threads /\ e.sock # current
          BY <1>0 DEF EventThreads, ThreadsInv, Typed, Event
        <4> QED BY <3>2, <3>5, <4>1 DEF EventsOwned
      <3>7. \A s \in Threads : nuThread'[s] \in {NoThread, s}
        BY <3>5 DEF EventsOwned
      <3>8. CASE events' = events /\ UNCHANGED <<waiting, suspended, current>>
        <4>1. Reasons'
          BY <1>00, <2>1, <3>8, ReasonsSame DEF mutexVars, condVars
        <4>2. EventsOwned'
          BY <3>6, <3>7, <3>8 DEF EventsOwned
        <4>3. Locks'
          BY <2>1, <3>8, LocksSame DEF mutexVars, Reasons
        <4> QED BY <3>4, <4>1, <4>2, <4>3
      <3>9. CASE events' = events \cup {[sock |-> current, type |-> "connect"]} /\ Yield
        <4>0. PICK ev : ev = [sock |-> current, type |-> "connect"]
          OBVIOUS
        <4>1. EventThreads' = EventThreads \cup {current}
          <5>1. ev.sock = current /\ events' = events \cup {ev}
            BY <3>9, <4>0
          <5> QED BY <5>1 DEF EventThreads
        <4>2. Reasons'
          BY <1>0, <2>1, <3>3, <3>9, <4>1, ReasonsYield
        <4>3. EventsOwned'
          <5>1. suspended' = suspended \cup {current}
            BY <3>9 DEF Yield
          <5>3. ev.sock = current /\ events' = events \cup {ev}
            BY <3>9, <4>0
          <5> QED BY <1>0, <3>2, <3>5, <3>6, <3>7, <5>1, <5>3 DEF EventsOwned
        <4>4. Locks'
          BY <2>1, <3>9, LocksSame DEF mutexVars, Yield, Reasons
        <4> QED BY <3>4, <4>2, <4>3, <4>4
      <3> QED BY <3>2, <3>8, <3>9
    <2> QED BY <2>2, <2>3
  <1>11. CASE CloseSocket
    <2>1. /\ CloseSockets({current})
          /\ UNCHANGED <<queueVars, suspended, reclaimed, mutexVars, condVars, timers, connectWaiting>>
      BY <1>11 DEF CloseSocket, slotVars
    <2>2. \A e \in events : e.sock \in Threads /\ e.sock # current
      BY <1>0 DEF EventThreads, ThreadsInv, Typed, Event
    <2>3. events' = events /\ open' = open \ {current} /\ aborted' = aborted
      BY <2>1, <2>2 DEF CloseSockets, ThreadsInv, Typed
    <2>4. \A s \in Threads : nuThread'[s] = IF s \in {current} \cap open THEN NoThread ELSE nuThread[s]
      BY <2>1 DEF CloseSockets
    <2>5. EventsOwned'
      BY <2>1, <2>2, <2>3, <2>4 DEF EventsOwned
    <2>6. Reasons'
      BY <1>00, <2>1, <2>3, ReasonsSame DEF queueVars, mutexVars, condVars
    <2>7. Queues' /\ NoAbort'
      BY <2>1, <2>3, QueuesSame DEF mutexVars, condVars, NoAbort
    <2>8. Locks'
      BY <2>1, LocksSame DEF queueVars, mutexVars, Reasons
    <2> QED BY <2>5, <2>6, <2>7, <2>8
  <1>12. ASSUME NEW w \in Workers, NewThread(w) PROVE Orderly'
    BY <1>00, <1>12, Quiet DEF NewThread, slotVars
  <1>13. ASSUME NEW s \in Threads, SendReceive(s) PROVE Orderly'
    <2>1. /\ s = current /\ s \in open
          /\ UNCHANGED <<running, reclaimed, connectWaiting, open, aborted>>
      BY <1>13 DEF SendReceive, slotVars
    <2>2. nuThread[s] \in {NoThread, current}
      BY <2>1 DEF EventsOwned
    <2>3. /\ nuThread' = [nuThread EXCEPT ![s] = current] /\ Yield
          /\ UNCHANGED <<pending, all, mutexVars, condVars, timers>>
      BY <1>13, <2>2 DEF SendReceive
    <2>4. events' = events \cup {[sock |-> s, type |-> "io"]}
      BY <1>13 DEF SendReceive
    <2>5. PICK ev : ev = [sock |-> s, type |-> "io"]
      OBVIOUS
    <2>6. ev.sock = current /\ events' = events \cup {ev}
      BY <2>1, <2>4, <2>5
    <2>7. UNCHANGED <<ToSet(cqueue), ToSet(mqueue), lockCall>>
      BY <2>3 DEF mutexVars, condVars
    <2>8. Reasons'
      <3>1. EventThreads' = EventThreads \cup {current}
        BY <2>6 DEF EventThreads
      <3> QED BY <1>0, <2>1, <2>3, <2>7, <3>1, ReasonsYield
    <2>9. Queues' /\ NoAbort'
      BY <2>1, <2>3, QueuesSame DEF mutexVars, condVars, NoAbort
    <2>10. EventsOwned'
      <3>1. suspended' = suspended \cup {current}
        BY <2>3 DEF Yield
      <3>2. \A u \in Threads : nuThread'[u] = IF u = current THEN u ELSE nuThread[u]
        BY <2>1, <2>3 DEF ThreadsInv, Typed
      <3>3. \A e \in events : e.sock \in Threads /\ e.sock # current
        BY <1>0 DEF EventThreads, ThreadsInv, Typed, Event
      <3> QED BY <1>0, <2>1, <2>6, <3>1, <3>2, <3>3 DEF EventsOwned
    <2>11. Locks'
      BY <2>3, LocksSame DEF mutexVars, Yield, Reasons
    <2> QED BY <2>8, <2>9, <2>10, <2>11
  <1> QED BY <1>1, <1>2, <1>3, <1>4, <1>5, <1>6, <1>7, <1>8, <1>9, <1>10, <1>11, <1>12, <1>13 DEF Script

LEMMA LoopOrderly ==
    ASSUME PrivateInv, ThreadsInv', Aging, MainLoop
    PROVE  Orderly'
  <1> USE DEF PrivateInv, Orderly
  <1>0. reclaimed \subseteq Closed'
    BY DEF Reasons, Where, Aging
  <1>1. CASE StartDone
    BY <1>0, <1>1, Quiet DEF StartDone, queueVars, coVars, slotVars
  <1>2. CASE TimeoutsDone
    BY <1>0, <1>2, Quiet DEF TimeoutsDone, queueVars, coVars, slotVars
  <1>3. CASE ResumeDone
    BY <1>0, <1>3, Quiet DEF ResumeDone, queueVars, coVars, slotVars
  <1>4. CASE SocketUnlock
    <2>1. /\ CloseSockets(Freed)
          /\ UNCHANGED <<running, current, all, suspended, reclaimed, mutexVars, condVars, timers>>
      BY <1>4 DEF SocketUnlock, coVars
    <2>2. PICK F : F = Freed
      OBVIOUS
    <2>3. \A e \in events : e.sock \in Threads /\ e.sock \notin F
      BY <2>2 DEF Freed, EventsOwned, ThreadsInv, Typed, Event
    <2>4. events' = events /\ open' = open \ F /\ aborted' = aborted
      BY <2>1, <2>2, <2>3 DEF CloseSockets, ThreadsInv, Typed
    <2>5. \A s \in Threads : nuThread'[s] = IF s \in F \cap open THEN NoThread ELSE nuThread[s]
      BY <2>1, <2>2 DEF CloseSockets
    <2>6. EventsOwned'
      BY <2>1, <2>3, <2>4, <2>5 DEF EventsOwned
    <2>7. Queues' /\ NoAbort'
      BY <2>1, <2>4, QueuesSame DEF mutexVars, condVars, NoAbort
    <2>8. CASE Freed = {}
      <3>1. UNCHANGED <<connectWaiting, waiting, pending>>
        BY <1>4, <2>8 DEF SocketUnlock
      <3>2. Reasons'
        BY <1>0, <2>1, <2>4, <3>1, ReasonsSame DEF mutexVars, condVars
      <3>3. Locks'
        BY <2>1, <3>1, LocksSame DEF mutexVars, Reasons
      <3> QED BY <2>6, <2>7, <3>2, <3>3
    <2>9. CASE Freed # {}
      <3>1. connectWaiting' = {} /\ Restore(connectWaiting)
        BY <1>4, <2>9 DEF SocketUnlock
      <3>2. UNCHANGED <<ToSet(cqueue), ToSet(mqueue), EventThreads, timers>>
        BY <2>1, <2>4 DEF mutexVars, condVars, EventThreads
      <3>3. PICK S : S = connectWaiting
        OBVIOUS
      <3>4. waiting \subseteq all
        BY DEF ThreadsInv, Places, Separate
      <3>5. S \cap waiting \cap (timers' \cup ToSet(cqueue)' \cup ToSet(mqueue) \cup connectWaiting' \cup EventThreads') = {}
        BY <3>1, <3>2, <3>3, <3>4 DEF Reasons, OneReason
      <3>6. Reasons' /\ Locks'
        BY <2>1, <3>1, <3>2, <3>3, <3>5, WakeOrderly
      <3> QED BY <2>6, <2>7, <3>6
    <2> QED BY <2>8, <2>9
  <1>5. CASE LoopDone
    BY <1>0, <1>5, Quiet DEF LoopDone, coVars, slotVars
  <1>6. ASSUME NEW t \in Scripts, StartThread(t) PROVE Orderly'
    BY <1>0, <1>6, Quiet DEF StartThread, coVars, slotVars
  <1>7. ASSUME NEW t \in Threads, CheckTimeout(t) PROVE Orderly'
    <2>1. UNCHANGED <<running, current, coVars, slotVars, sockVars>>
      BY <1>7 DEF CheckTimeout
    <2>2. CASE t \in waiting /\ TimedOut(t)
      <3>1. Close(t) /\ t \in all
        BY <1>7, <2>2 DEF CheckTimeout, ThreadsInv, Places, Separate
      <3> QED BY <2>1, <2>2, <3>1, CloseOrderly DEF coVars, slotVars
    <2>3. CASE ~(t \in waiting /\ TimedOut(t))
      <3>1. UNCHANGED <<waiting, all, mutexVars, condVars, timers>>
        BY <1>7, <2>3 DEF CheckTimeout
      <3> QED BY <1>0, <2>1, <3>1, Quiet DEF coVars, slotVars
    <2> QED BY <2>2, <2>3
  <1>8. ASSUME NEW t \in Threads, Resume(t) PROVE Orderly'
    <2>1. /\ t \in running /\ current = NoThread /\ current' = t /\ running' = running \ {t}
          /\ suspended' = suspended \ {t} /\ holds' = holds \cup (lockCall \cap {t})
          /\ lockCall' = lockCall \ {t}
          /\ UNCHANGED <<waiting, pending, all, reclaimed, owner, mqueue, mutexHandler, condVars, timers,
                         connectWaiting, sockVars>>
      BY <1>8 DEF Resume, slotVars
    <2>2. t \in all /\ t \notin waiting
      BY <2>1 DEF ThreadsInv, Places, Separate
    <2>3. t \notin EventThreads /\ t \notin ToSet(mqueue)
      BY <2>2 DEF Reasons, Where
    <2>4. Reasons'
      BY <1>0, <2>1, ReasonsSame DEF condVars, sockVars
    <2>5. Queues' /\ NoAbort'
      BY <2>1, QueuesSame DEF condVars, sockVars, NoAbort
    <2>6. EventsOwned'
      BY <2>1, <2>3, EventsSame DEF sockVars
    <2>7. Locks'
      <3>1. ToSet(mqueue)' = ToSet(mqueue)
        BY <2>1
      <3>2. \A u \in Threads : mutexHandler'[u] \in {NoThread, u} \cup Closed'
        BY <2>1 DEF Locks, Aging
      <3> QED BY <2>1, <2>2, <2>3, <3>1, <3>2 DEF Locks
    <2> QED BY <2>4, <2>5, <2>6, <2>7
  <1> QED BY <1>1, <1>2, <1>3, <1>4, <1>5, <1>6, <1>7, <1>8 DEF MainLoop

LEMMA OrderlyStep ==
    ASSUME PrivateInv, ThreadsInv', Next, ~Sharing
    PROVE  Orderly'
  <1> USE DEF PrivateInv, Orderly
  <1>a. Aging
    BY AgingStep
  <1>0. reclaimed \subseteq Closed'
    BY <1>a DEF Reasons, Where, Aging
  <1>1. ASSUME NEW t \in Threads, SleepCallback(t) PROVE Orderly'
    <2>1. /\ t \in timers /\ timers' = timers \ {t} /\ Restore({t})
          /\ UNCHANGED <<running, current, all, suspended, reclaimed, mutexVars, condVars, connectWaiting, sockVars>>
      BY <1>1 DEF SleepCallback, coVars, slotVars
    <2>2. UNCHANGED <<ToSet(cqueue), ToSet(mqueue), EventThreads>>
      BY <2>1 DEF mutexVars, condVars, sockVars, EventThreads
    <2>3. {t} \cap waiting \cap (timers' \cup ToSet(cqueue)' \cup ToSet(mqueue) \cup connectWaiting' \cup EventThreads') = {}
      BY <2>1, <2>2 DEF Reasons, OneReason
    <2>4. Reasons' /\ Locks'
      BY <1>a, <2>1, <2>2, <2>3, WakeOrderly
    <2>5. Queues' /\ EventsOwned' /\ NoAbort'
      BY <2>1, QueuesSame, EventsSame DEF mutexVars, condVars, sockVars, NoAbort
    <2> QED BY <2>4, <2>5
  <1>2. ASSUME NEW e \in events, SocketCallback(e) PROVE Orderly'
    <2>1. /\ events' = events \ {e}
          /\ UNCHANGED <<running, current, all, suspended, reclaimed, mutexVars, condVars, timers, connectWaiting, open>>
      BY <1>2 DEF SocketCallback, coVars, slotVars
    <2>2. PICK s : s = e.sock
      OBVIOUS
    <2>3. s \in Threads /\ nuThread[s] = s /\ s \in suspended /\ \A f \in events' : f.sock # s /\ f.sock \in Threads
      BY <2>1, <2>2 DEF EventsOwned, ThreadsInv, Typed, Event
    <2>4. /\ nuThread' \in {nuThread, [nuThread EXCEPT ![s] = NoThread]} /\ aborted' = aborted /\ Restore({s})
      BY <1>2, <2>2, <2>3 DEF SocketCallback
    <2>5. UNCHANGED <<ToSet(cqueue), ToSet(mqueue)>> /\ EventThreads' \subseteq EventThreads \ {s}
      BY <2>1, <2>3 DEF mutexVars, condVars, EventThreads
    <2>6. s \in EventThreads /\ waiting \subseteq all
      BY <2>2 DEF EventThreads, ThreadsInv, Places, Separate
    <2>7. {s} \cap waiting \cap (timers' \cup ToSet(cqueue)' \cup ToSet(mqueue) \cup connectWaiting' \cup EventThreads') = {}
      BY <2>1, <2>5, <2>6 DEF Reasons, OneReason
    <2>8. Reasons' /\ Locks'
      BY <1>a, <2>1, <2>4, <2>5, <2>7, WakeOrderly
    <2>9. Queues' /\ NoAbort'
      BY <2>1, <2>4, QueuesSame DEF mutexVars, condVars, NoAbort
    <2>10. EventsOwned'
      <3>1. \A u \in Threads : nuThread'[u] = nuThread[u] \/ (u = s /\ nuThread'[u] = NoThread)
        BY <2>4 DEF ThreadsInv, Typed
      <3> QED BY <2>1, <2>3, <3>1 DEF EventsOwned
    <2> QED BY <2>8, <2>9, <2>10
  <1>3. ASSUME NEW s \in Scripts, Expire(s) PROVE Orderly'
    BY <1>a, <1>0, <1>3, Quiet DEF Expire, queueVars, coVars, slotVars
  <1>4. ASSUME NEW t \in Threads, CollectThread(t) PROVE Orderly'
    <2>1. reclaimed' \subseteq Closed'
      BY <1>a, <1>0, <1>4 DEF CollectThread, Aging
    <2> QED BY <1>a, <1>4, <2>1, Quiet DEF CollectThread, queueVars, slotVars
  <1>5. ASSUME NEW t \in Threads, CollectCoroutine(t) PROVE Orderly'
    <2>1. /\ CloseSockets({t}) /\ connectWaiting' = connectWaiting \ {t}
          /\ UNCHANGED <<queueVars, coVars, mutexVars, condVars, timers>>
      BY <1>5 DEF CollectCoroutine
    <2>2. /\ events' = {e \in events : e.sock # t} /\ open' = open \ {t}
          /\ \A s \in Threads : nuThread'[s] \in {NoThread, nuThread[s]} /\ (s # t => nuThread'[s] = nuThread[s])
      BY <2>1 DEF CloseSockets
    <2>3. aborted' = aborted
      BY <2>1 DEF CloseSockets, EventsOwned, ThreadsInv, Typed
    <2>4. EventThreads' \subseteq EventThreads
      BY <2>2 DEF EventThreads
    <2>5. UNCHANGED <<ToSet(cqueue), ToSet(mqueue), lockCall, timers, waiting, all, suspended, reclaimed, current>>
      BY <2>1 DEF queueVars, coVars, mutexVars, condVars
    <2>6. Reasons'
      <3>1. timers' \cup ToSet(cqueue)' \subseteq waiting'
        BY <2>5 DEF Reasons, Where
      <3> QED BY <1>a, <1>0, <2>1, <2>4, <2>5, <3>1, ReasonsShrink
    <2>7. Queues' /\ NoAbort'
      BY <2>1, <2>3, QueuesSame DEF mutexVars, condVars, NoAbort
    <2>8. EventsOwned'
      <3>1. \A e \in events : e.sock \in Threads
        BY DEF ThreadsInv, Typed, Event
      <3> QED BY <2>2, <2>5, <3>1 DEF EventsOwned
    <2>9. Locks'
      BY <1>a, <2>1, <2>5, LocksSame DEF mutexVars, Reasons
    <2> QED BY <2>6, <2>7, <2>8, <2>9
  <1>6. CASE Finished
    BY <1>a, <1>0, <1>6, Quiet DEF Finished, vars, queueVars, coVars, slotVars
  <1> QED BY <1>a, <1>1, <1>2, <1>3, <1>4, <1>5, <1>6, ScriptOrderly, LoopOrderly DEF Next, Callback

(* With sockets that stay with their thread.                               *)
THEOREM PrivateInvariant == ASSUME ~Sharing PROVE Spec => []PrivateInv
  <1>1. ASSUME Init PROVE Orderly
    <2>1. ToSet(mqueue) = {} /\ ToSet(cqueue) = {} /\ Once(mqueue) /\ Once(cqueue) /\ EventThreads = {}
      BY <1>1, QueueEmpty DEF Init, EventThreads
    <2>2. Reasons /\ Queues
      BY <1>1, <2>1 DEF Init, Reasons, Where, OneReason, Queues
    <2>3. EventsOwned /\ NoAbort
      BY <1>1 DEF Init, EventsOwned, NoAbort
    <2>4. Locks
      BY <1>1, <2>1 DEF Init, Locks
    <2> QED BY <2>2, <2>3, <2>4 DEF Orderly
  <1>2. ASSUME PrivateInv, ThreadsInv', UNCHANGED <<repertoire, vars>> PROVE PrivateInv'
    <2>1. Aging
      BY <1>2, AgingShrink DEF PrivateInv, vars, loopVars, queueVars, timeVars
    <2>2. reclaimed' \subseteq Closed'
      BY <1>2, <2>1 DEF PrivateInv, Orderly, Reasons, Where, Aging, vars, coVars
    <2> QED BY <1>2, <2>1, <2>2, Quiet DEF PrivateInv, vars, queueVars, coVars, slotVars
  <1>3. ASSUME PrivateInv, ThreadsInv', Next PROVE PrivateInv'
    BY <1>3, OrderlyStep DEF PrivateInv
  <1>4. PrivateInv => ThreadsInv
    BY DEF PrivateInv
  <1>5. ASSUME ThreadsInv, Init PROVE PrivateInv
    BY <1>1, <1>5 DEF PrivateInv
  <1> QED BY <1>2, <1>3, <1>5, ThreadsInvariant, PTL DEF Spec

(* mutex "lock" returns with the mutex locked, to one thread at a time,    *)
(* whatever times out, ends or is collected meanwhile.                     *)
THEOREM LockHasOneHolder == ASSUME ~Sharing PROVE Spec => []LockMeansOwner
  <1>1. PrivateInv => LockMeansOwner
    BY DEF PrivateInv, Orderly, Locks, LockMeansOwner
  <1> QED BY <1>1, PrivateInvariant, PTL

(* The assertions of callback() and receive_callback() hold when no script *)
(* uses the socket of another one.                                         *)
THEOREM CallbacksFindTheirThread == ASSUME ~Sharing PROVE Spec => []NoAbort
  <1>1. PrivateInv => NoAbort
    BY DEF PrivateInv, Orderly
  <1> QED BY <1>1, PrivateInvariant, PTL

(* A "signal" wakes a thread that waits, if one does, and the end of a     *)
(* thread that has called nmap.condvar wakes every thread on it.           *)
THEOREM CondvarWakesWaiters == ASSUME ~Sharing PROVE Spec => CondvarWakes
  <1> DEFINE A == /\ Signal /\ waiting \cap ToSet(cqueue) # {} => waiting' # waiting
                  /\ \A t \in all \ all' : condHandler[t] => waiting' \cap ToSet(cqueue) = {}
  <1>1. ASSUME PrivateInv, Signal, waiting \cap ToSet(cqueue) # {} PROVE waiting' # waiting
    <2>1. cqueue # <<>>
      BY <1>1, QueueEmpty
    <2>2. Last(cqueue) \in ToSet(cqueue) /\ Last(cqueue) \notin waiting'
      BY <1>1, <2>1, QueueFront, ZenonT(40) DEF Signal, Restore, PrivateInv, ThreadsInv, Typed
    <2> QED BY <1>1, <2>2 DEF PrivateInv, Orderly, Reasons, Where
  <1>2. ASSUME PrivateInv, Next, NEW t \in all \ all', condHandler[t]
        PROVE  waiting' \cap ToSet(cqueue) = {}
    <2>1. Close(t)
      <3>1. ASSUME NEW u, Close(u) PROVE u = t
        BY <1>2, <3>1 DEF Close
      <3>2. CASE Script
        BY <1>2, <3>1, <3>2 DEF Script, End, Sleep, LockFree, LockBusy, Done, Wait, Signal, Broadcast,
               ConnectWaits, Connect, CloseSocket, NewThread, SendReceive, queueVars
      <3>3. CASE MainLoop
        BY <1>2, <3>1, <3>3 DEF MainLoop, StartDone, TimeoutsDone, ResumeDone, SocketUnlock, LoopDone,
               StartThread, CheckTimeout, Resume, queueVars
      <3>4. CASE ~Script /\ ~MainLoop
        BY <1>2, <3>4 DEF Next, Callback, SleepCallback, SocketCallback, Expire, CollectThread,
               CollectCoroutine, Finished, vars, queueVars
      <3> QED BY <3>2, <3>3, <3>4
    <2> QED BY <1>2, <2>1 DEF Close, CondWoken
  <1>3. ASSUME PrivateInv, [Next]_<<repertoire, vars>> PROVE [A]_vars
    BY <1>1, <1>2, <1>3
  <1> HIDE DEF A
  <1>4. Spec => [][A]_vars
    BY <1>3, PrivateInvariant, PTL DEF Spec
  <1> QED BY <1>4 DEF A, CondvarWakes

-----------------------------------------------------------------------------
(* Nobody waits for what will not come.                                    *)
LEMMA SlotsKept ==
    ASSUME Typed, SlotsTaken, connectWaiting' = connectWaiting, threadSockets \subseteq threadSockets',
           threadSockets' \subseteq Threads
    PROVE  SlotsTaken'
  <1>1. Cardinality(threadSockets) <= Cardinality(threadSockets')
    BY ThreadSets, FS_Subset
  <1>2. Cardinality(threadSockets) \in Nat /\ Cardinality(threadSockets') \in Nat
    BY ThreadSets, FS_Subset, FS_CardinalityType DEF Typed
  <1>3. HasRoom' <=> Cardinality(threadSockets') <= Parallelism
    BY DEF HasRoom
  <1> QED BY <1>1, <1>2, <1>3, SchedulerAssumption DEF SlotsTaken, HasRoom

LEMMA OwnerKept ==
    ASSUME OwnerAlive, UNCHANGED <<owner, mqueue, mutexHandler>>, all \subseteq all'
    PROVE  OwnerAlive'
  BY DEF OwnerAlive

(* The threads of S stop waiting, and only they lose their reason.         *)
LEMMA AwaitedWake ==
    ASSUME waiting \subseteq Awaited, NEW S, waiting' \subseteq waiting \ S,
           timers \ S \subseteq timers', ToSet(cqueue) \ S \subseteq ToSet(cqueue)',
           ToSet(mqueue) \ S \subseteq ToSet(mqueue)', connectWaiting \ S \subseteq connectWaiting',
           EventThreads \ S \subseteq EventThreads'
    PROVE  (waiting \subseteq Awaited)'
  BY DEF Awaited

LEMMA AwaitedSame ==
    ASSUME waiting \subseteq Awaited, UNCHANGED <<waiting, timers, cqueue, mqueue, connectWaiting, events>>
    PROVE  (waiting \subseteq Awaited)'
  BY DEF Awaited, EventThreads

LEMMA AwaitedYield ==
    ASSUME waiting \subseteq Awaited, Yield,
           timers \subseteq timers', ToSet(cqueue) \subseteq ToSet(cqueue)',
           ToSet(mqueue) \subseteq ToSet(mqueue)', connectWaiting \subseteq connectWaiting',
           EventThreads \subseteq EventThreads', current \in Awaited'
    PROVE  (waiting \subseteq Awaited)'
  BY DEF Awaited, Yield

LEMMA WakersQuiet ==
    ASSUME Typed, Wakers, all \subseteq all',
           UNCHANGED <<waiting, timers, cqueue, owner, mqueue, mutexHandler, threadSockets, connectWaiting, events>>
    PROVE  Wakers'
  <1>1. SlotsTaken' /\ OwnerAlive'
    BY SlotsKept, OwnerKept DEF Wakers, Typed
  <1> QED BY <1>1, AwaitedSame DEF Wakers

LEMMA PassedAlive ==
    ASSUME PrivateInv, OwnerAlive, NEW k, PassMutex(k), NEW t, owner = t, t \notin ToSet(mqueue), all \ {t} \subseteq all'
    PROVE  OwnerAlive'
  <1>1. /\ owner' = NextOwner /\ (NextOwner # NoThread => NextOwner \in ToSet(mqueue))
        /\ ToSet(mqueue)' \subseteq ToSet(mqueue)
    BY Passed DEF PrivateInv, Orderly, ThreadsInv, Queues
  <1>2. ToSet(mqueue) \subseteq all'
    BY DEF OwnerAlive
  <1>3. ASSUME NextOwner # NoThread PROVE mutexHandler'[NextOwner] = NextOwner
    <2>1. NextOwner \in all /\ NextOwner \in Threads /\ NextOwner \notin reclaimed
      BY <1>1, <1>3 DEF OwnerAlive, PrivateInv, ThreadsInv, Typed, Orderly, Reasons, Where, Closed
    <2> QED BY <1>3, <2>1 DEF PassMutex
  <1> QED BY <1>1, <1>2, <1>3 DEF OwnerAlive

(* The current thread ends.                                                *)
LEMMA CloseWakers ==
    ASSUME PrivateInv, Wakers, current \in all, Close(current),
           UNCHANGED <<connectWaiting, threadSockets, events>>
    PROVE  Wakers'
  <1> USE DEF PrivateInv, Orderly
  <1>0. PICK t : t = current
    OBVIOUS
  <1> DEFINE passes == mutexHandler[t] # NoThread /\ mutexHandler[t] = owner
  <1>1. PICK W : W = (IF passes THEN {NextOwner} ELSE {}) \cup CondWoken(t)
    OBVIOUS
  <1>2. /\ all' = all \ {t} /\ timers' = timers \ {t}
        /\ waiting' = (waiting \ {t}) \ W
        /\ cqueue' = (IF condHandler[t] THEN <<>> ELSE cqueue)
        /\ (IF passes THEN PassMutex(NoThread) ELSE UNCHANGED <<owner, mqueue, mutexHandler>>)
    BY <1>0, <1>1 DEF Close
  <1>3. t \in Threads /\ t # NoThread /\ t \notin waiting
    BY <1>0, ThreadSets DEF ThreadsInv, Typed, Places, Separate
  <1>4. t \notin ToSet(mqueue)
    BY <1>0, <1>3 DEF Reasons, Where
  <1>5. passes => owner = t
    BY <1>3 DEF Locks, Wakers, OwnerAlive, Closed, ThreadsInv, Typed
  <1>6. OwnerAlive'
    <2>1. CASE passes
      BY <1>2, <1>4, <1>5, <2>1, PassedAlive DEF Wakers
    <2>2. CASE ~passes
      <3>1. owner # t
        BY <1>3, <2>2 DEF Wakers, OwnerAlive
      <3> QED BY <1>2, <1>4, <2>2, <3>1 DEF Wakers, OwnerAlive
    <2> QED BY <2>1, <2>2
  <1>7. SlotsTaken'
    BY SlotsKept DEF Wakers, ThreadsInv, Typed
  <1>8. ToSet(cqueue) \ (W \cup {t}) \subseteq ToSet(cqueue)'
    <2>1. ToSet(cqueue)' = ToSet(cqueue')
      OBVIOUS
    <2> QED BY <1>1, <1>2, <2>1 DEF CondWoken
  <1>9. ToSet(mqueue) \ (W \cup {t}) \subseteq ToSet(mqueue)'
    <2>1. CASE passes
      BY <1>1, <1>2, <2>1, Passed DEF ThreadsInv, Queues
    <2>2. CASE ~passes
      BY <1>2, <2>2
    <2> QED BY <2>1, <2>2
  <1>10. EventThreads' = EventThreads
    BY DEF EventThreads
  <1>11. (waiting \subseteq Awaited)'
    BY <1>2, <1>8, <1>9, <1>10, AwaitedWake DEF Wakers
  <1> QED BY <1>6, <1>7, <1>11 DEF Wakers

LEMMA ScriptWakers ==
    ASSUME PrivateInv, ThreadsInv', Wakers, ~Sharing, Script
    PROVE  Wakers'
  <1> USE DEF PrivateInv, Orderly
  <1>0. /\ current # NoThread /\ current \in all /\ current \in Threads
        /\ current \notin running \cup waiting \cup pending
        /\ current \notin timers \cup ToSet(cqueue) \cup ToSet(mqueue) \cup connectWaiting \cup EventThreads
    <2>1. current # NoThread
      BY DEF Script, End, Sleep, LockFree, LockBusy, Done, Wait, Signal, Broadcast, ConnectWaits,
             Connect, CloseSocket, NewThread, SendReceive, MayDo
    <2>2. /\ current \in all /\ current \in Threads
          /\ current \notin running \cup waiting \cup pending
      BY <2>1 DEF ThreadsInv, Typed, Places, Separate, Here
    <2> QED BY <2>1, <2>2 DEF Reasons, Where
  <1>01. /\ connectWaiting' = connectWaiting /\ threadSockets \subseteq threadSockets' => SlotsTaken'
         /\ UNCHANGED <<owner, mqueue, mutexHandler>> /\ all \subseteq all' => OwnerAlive'
    BY SlotsKept, OwnerKept DEF Wakers, ThreadsInv, Typed
  <1>1. CASE End
    BY <1>0, <1>1, CloseWakers DEF End, slotVars, sockVars
  <1>2. CASE Sleep
    <2>1. /\ timers' = timers \cup {current} /\ Yield
          /\ UNCHANGED <<all, mutexVars, condVars, slotVars, sockVars>>
      BY <1>2 DEF Sleep
    <2>2. UNCHANGED <<ToSet(cqueue), ToSet(mqueue), EventThreads>>
      BY <2>1 DEF mutexVars, condVars, sockVars, EventThreads
    <2>3. current \in Awaited'
      BY <2>1 DEF Awaited
    <2>4. (waiting \subseteq Awaited)'
      BY <2>1, <2>2, <2>3, AwaitedYield DEF Wakers, slotVars
    <2> QED BY <1>01, <2>1, <2>4 DEF Wakers, mutexVars, slotVars
  <1>3. CASE LockFree
    <2>1. /\ owner = NoThread /\ owner' = current
          /\ mutexHandler' = [mutexHandler EXCEPT ![current] = current]
          /\ UNCHANGED <<queueVars, mqueue, condVars, timers, slotVars, sockVars>>
      BY <1>3 DEF LockFree
    <2>2. OwnerAlive'
      BY <1>0, <2>1 DEF Wakers, OwnerAlive, ThreadsInv, Typed, queueVars
    <2>3. (waiting \subseteq Awaited)'
      BY <2>1, AwaitedSame DEF Wakers, queueVars, condVars, slotVars, sockVars
    <2> QED BY <1>01, <2>1, <2>2, <2>3 DEF Wakers, slotVars
  <1>4. CASE LockBusy
    <2>1. /\ mqueue' = Append(mqueue, current) /\ Yield
          /\ UNCHANGED <<all, owner, mutexHandler, condVars, timers, slotVars, sockVars>>
      BY <1>4 DEF LockBusy
    <2>2. ToSet(mqueue)' = ToSet(mqueue) \cup {current}
      <3>1. ToSet(mqueue)' = ToSet(mqueue')
        OBVIOUS
      <3> QED BY <1>0, <2>1, <3>1, QueueAppend DEF ThreadsInv, Typed
    <2>3. UNCHANGED <<ToSet(cqueue), EventThreads>>
      BY <2>1 DEF condVars, sockVars, EventThreads
    <2>4. OwnerAlive'
      BY <1>0, <2>1, <2>2 DEF Wakers, OwnerAlive
    <2>5. current \in Awaited'
      BY <2>2 DEF Awaited
    <2>6. (waiting \subseteq Awaited)'
      BY <2>1, <2>2, <2>3, <2>5, AwaitedYield DEF Wakers, slotVars
    <2> QED BY <1>01, <2>1, <2>4, <2>6 DEF Wakers, slotVars
  <1>5. CASE Done
    <2>1. /\ owner = current /\ PassMutex(current) /\ Restore({NextOwner})
          /\ UNCHANGED <<all, condVars, timers, slotVars, sockVars>>
      BY <1>5 DEF Done
    <2>2. OwnerAlive'
      BY <1>0, <2>1, PassedAlive DEF Wakers
    <2>3. PICK S : S = {NextOwner}
      OBVIOUS
    <2>4. UNCHANGED <<ToSet(cqueue), EventThreads, timers, connectWaiting>>
      BY <2>1 DEF condVars, sockVars, slotVars, EventThreads
    <2>5. ToSet(mqueue) \ S \subseteq ToSet(mqueue)' /\ waiting' = waiting \ S
      BY <2>1, <2>3, Passed DEF Restore, ThreadsInv, Queues
    <2>6. (waiting \subseteq Awaited)'
      BY <2>4, <2>5, AwaitedWake DEF Wakers
    <2> QED BY <1>01, <2>1, <2>2, <2>6 DEF Wakers, slotVars
  <1>6. CASE Wait
    <2>1. /\ cqueue' = Append(cqueue, current) /\ Yield
          /\ UNCHANGED <<all, mutexVars, timers, slotVars, sockVars>>
      BY <1>6 DEF Wait
    <2>2. ToSet(cqueue)' = ToSet(cqueue) \cup {current}
      <3>1. ToSet(cqueue)' = ToSet(cqueue')
        OBVIOUS
      <3> QED BY <1>0, <2>1, <3>1, QueueAppend DEF ThreadsInv, Typed
    <2>3. UNCHANGED <<ToSet(mqueue), EventThreads>>
      BY <2>1 DEF mutexVars, sockVars, EventThreads
    <2>4. current \in Awaited'
      BY <2>2 DEF Awaited
    <2>5. (waiting \subseteq Awaited)'
      BY <2>1, <2>2, <2>3, <2>4, AwaitedYield DEF Wakers, slotVars
    <2> QED BY <1>01, <2>1, <2>5 DEF Wakers, mutexVars, slotVars
  <1>7. CASE Signal
    <2>1. UNCHANGED <<all, mutexVars, timers, slotVars, sockVars>>
      BY <1>7 DEF Signal
    <2>2. CASE cqueue = <<>>
      <3>1. UNCHANGED <<cqueue, waiting>>
        BY <1>7, <2>2 DEF Signal
      <3> QED BY <2>1, <3>1, WakersQuiet DEF ThreadsInv, mutexVars, slotVars, sockVars
    <2>3. CASE cqueue # <<>>
      <3>1. PICK l : l = Last(cqueue)
        OBVIOUS
      <3>2. cqueue' = Front(cqueue) /\ waiting' = waiting \ {l}
        BY <1>7, <2>3, <3>1 DEF Signal, Restore
      <3>3. ToSet(cqueue)' = ToSet(cqueue')
        OBVIOUS
      <3>4. ToSet(cqueue) \ {l} \subseteq ToSet(cqueue)'
        <4>1. ToSet(cqueue) = ToSet(Front(cqueue)) \cup {Last(cqueue)}
          BY <2>3, QueueFront DEF ThreadsInv, Typed
        <4> QED BY <3>1, <3>2, <3>3, <4>1
      <3>5. UNCHANGED <<ToSet(mqueue), EventThreads>>
        BY <2>1 DEF mutexVars, sockVars, EventThreads
      <3>6. (waiting \subseteq Awaited)'
        BY <2>1, <3>2, <3>4, <3>5, AwaitedWake DEF Wakers, slotVars
      <3> QED BY <1>01, <2>1, <3>6 DEF Wakers, mutexVars, slotVars
    <2> QED BY <2>2, <2>3
  <1>8. CASE Broadcast
    <2>1. /\ Restore(ToSet(cqueue))
          /\ UNCHANGED <<all, mutexVars, timers, slotVars, sockVars>>
      BY <1>8 DEF Broadcast
    <2>2. PICK S : S = ToSet(cqueue)
      OBVIOUS
    <2>3. UNCHANGED <<ToSet(mqueue), EventThreads>>
      BY <2>1 DEF mutexVars, sockVars, EventThreads
    <2>4. waiting' = waiting \ S
      BY <2>1, <2>2 DEF Restore
    <2>5. ToSet(cqueue) \ S \subseteq ToSet(cqueue)'
      BY <2>2
    <2>6. (waiting \subseteq Awaited)'
      BY <2>1, <2>3, <2>4, <2>5, AwaitedWake DEF Wakers, slotVars
    <2> QED BY <1>01, <2>1, <2>6 DEF Wakers, mutexVars, slotVars
  <1>9. CASE ConnectWaits
    <2>1. /\ ~HasRoom /\ connectWaiting' = connectWaiting \cup {current} /\ Yield
          /\ UNCHANGED <<all, mutexVars, condVars, timers, threadSockets, sockVars>>
      BY <1>9 DEF ConnectWaits, SlotFree
    <2>2. UNCHANGED <<ToSet(cqueue), ToSet(mqueue), EventThreads>>
      BY <2>1 DEF mutexVars, condVars, sockVars, EventThreads
    <2>3. SlotsTaken'
      BY <2>1 DEF SlotsTaken, HasRoom
    <2>4. current \in Awaited'
      BY <2>1 DEF Awaited
    <2>5. (waiting \subseteq Awaited)'
      BY <2>1, <2>2, <2>4, AwaitedYield DEF Wakers
    <2> QED BY <1>01, <2>1, <2>3, <2>5 DEF Wakers, mutexVars
  <1>10. CASE Connect
    <2>1. /\ threadSockets' = threadSockets \cup {current}
          /\ UNCHANGED <<all, mutexVars, condVars, timers, connectWaiting>>
      BY <1>10 DEF Connect
    <2>2. SlotsTaken' /\ OwnerAlive'
      BY <1>01, <2>1 DEF mutexVars
    <2>3. CASE UNCHANGED <<sockVars, waiting, suspended, current>>
      BY <2>1, <2>2, <2>3, AwaitedSame DEF Wakers, mutexVars, condVars, sockVars
    <2>4. CASE ~UNCHANGED <<sockVars, waiting, suspended, current>>
      <3>1. {e \in events : e.sock # current} = events
        BY <1>0 DEF EventThreads
      <3>2. \/ /\ events' = events \cup {[sock |-> current, type |-> "connect"]}
               /\ Yield
            \/ events' = events /\ UNCHANGED <<waiting, suspended, current>>
        BY <1>10, <2>4, <3>1 DEF Connect
      <3>3. CASE events' = events /\ UNCHANGED <<waiting, suspended, current>>
        BY <2>1, <2>2, <3>3, AwaitedSame DEF Wakers, mutexVars, condVars
      <3>4. CASE events' = events \cup {[sock |-> current, type |-> "connect"]} /\ Yield
        <4>1. PICK ev : ev = [sock |-> current, type |-> "connect"]
          OBVIOUS
        <4>2. ev.sock = current /\ events' = events \cup {ev}
          BY <3>4, <4>1
        <4>3. EventThreads' = EventThreads \cup {current}
          BY <4>2 DEF EventThreads
        <4>4. UNCHANGED <<ToSet(cqueue), ToSet(mqueue)>>
          BY <2>1 DEF mutexVars, condVars
        <4>5. current \in Awaited'
          BY <4>3 DEF Awaited
        <4>6. (waiting \subseteq Awaited)'
          BY <2>1, <3>4, <4>3, <4>4, <4>5, AwaitedYield DEF Wakers
        <4> QED BY <2>2, <4>6 DEF Wakers
      <3> QED BY <3>2, <3>3, <3>4
    <2> QED BY <2>3, <2>4
  <1>11. CASE CloseSocket
    <2>1. /\ CloseSockets({current})
          /\ UNCHANGED <<queueVars, mutexVars, condVars, timers, slotVars>>
      BY <1>11 DEF CloseSocket
    <2>2. \A e \in events : e.sock # current
      BY <1>0 DEF EventThreads
    <2>3. events' = events
      BY <2>1, <2>2 DEF CloseSockets
    <2> QED BY <2>1, <2>3, WakersQuiet DEF ThreadsInv, queueVars, mutexVars, condVars, slotVars
  <1>12. ASSUME NEW w \in Workers, NewThread(w) PROVE Wakers'
    BY <1>12, WakersQuiet DEF NewThread, ThreadsInv, mutexVars, condVars, slotVars, sockVars
  <1>13. ASSUME NEW s \in Threads, SendReceive(s) PROVE Wakers'
    <2>1. s = current /\ UNCHANGED slotVars
      BY <1>13 DEF SendReceive
    <2>2. nuThread[s] \in {NoThread, current}
      BY <2>1 DEF EventsOwned
    <2>3. Yield /\ UNCHANGED <<all, mutexVars, condVars, timers>>
      BY <1>13, <2>2 DEF SendReceive
    <2>4. PICK ev : ev = [sock |-> s, type |-> "io"]
      OBVIOUS
    <2>5. ev.sock = current /\ events' = events \cup {ev}
      BY <1>13, <2>1, <2>4 DEF SendReceive
    <2>6. EventThreads' = EventThreads \cup {current}
      BY <2>5 DEF EventThreads
    <2>7. UNCHANGED <<ToSet(cqueue), ToSet(mqueue)>>
      BY <2>3 DEF mutexVars, condVars
    <2>8. current \in Awaited'
      BY <2>6 DEF Awaited
    <2>9. (waiting \subseteq Awaited)'
      BY <2>1, <2>3, <2>6, <2>7, <2>8, AwaitedYield DEF Wakers, slotVars
    <2> QED BY <1>01, <2>1, <2>3, <2>9 DEF Wakers, mutexVars, slotVars
  <1> QED BY <1>1, <1>2, <1>3, <1>4, <1>5, <1>6, <1>7, <1>8, <1>9, <1>10, <1>11, <1>12, <1>13 DEF Script

LEMMA LoopWakers ==
    ASSUME PrivateInv, ThreadsInv', Wakers, ~Timeouts, MainLoop
    PROVE  Wakers'
  <1> USE DEF PrivateInv, Orderly
  <1>1. CASE StartDone
    BY <1>1, WakersQuiet DEF StartDone, ThreadsInv, queueVars, mutexVars, condVars, slotVars, sockVars
  <1>2. CASE TimeoutsDone
    BY <1>2, WakersQuiet DEF TimeoutsDone, ThreadsInv, queueVars, mutexVars, condVars, slotVars, sockVars
  <1>3. CASE ResumeDone
    BY <1>3, WakersQuiet DEF ResumeDone, ThreadsInv, queueVars, mutexVars, condVars, slotVars, sockVars
  <1>4. CASE SocketUnlock
    <2>1. /\ CloseSockets(Freed) /\ threadSockets' = threadSockets \ Freed
          /\ UNCHANGED <<all, mutexVars, condVars, timers>>
      BY <1>4 DEF SocketUnlock
    <2>2. \A e \in events : e.sock \notin Freed
      BY DEF Freed, EventsOwned
    <2>3. events' = events
      BY <2>1, <2>2 DEF CloseSockets
    <2>4. CASE Freed = {}
      <3>1. UNCHANGED <<connectWaiting, waiting, threadSockets>>
        BY <1>4, <2>1, <2>4 DEF SocketUnlock
      <3> QED BY <2>1, <2>3, <3>1, WakersQuiet DEF ThreadsInv, mutexVars, condVars
    <2>5. CASE Freed # {}
      <3>1. connectWaiting' = {} /\ Restore(connectWaiting)
        BY <1>4, <2>5 DEF SocketUnlock
      <3>2. PICK S : S = connectWaiting
        OBVIOUS
      <3>3. waiting' = waiting \ S
        BY <3>1, <3>2 DEF Restore
      <3>4. UNCHANGED <<ToSet(cqueue), ToSet(mqueue), EventThreads>>
        BY <2>1, <2>3 DEF mutexVars, condVars, EventThreads
      <3>5. connectWaiting \ S \subseteq connectWaiting'
        BY <3>2
      <3>6. (waiting \subseteq Awaited)'
        BY <2>1, <3>3, <3>4, <3>5, AwaitedWake DEF Wakers
      <3>7. SlotsTaken'
        BY <3>1 DEF SlotsTaken
      <3>8. OwnerAlive'
        BY <2>1, OwnerKept DEF Wakers, mutexVars
      <3> QED BY <3>6, <3>7, <3>8 DEF Wakers
    <2> QED BY <2>4, <2>5
  <1>5. CASE LoopDone
    BY <1>5, WakersQuiet DEF LoopDone, ThreadsInv, mutexVars, condVars, slotVars, sockVars
  <1>6. ASSUME NEW t \in Scripts, StartThread(t) PROVE Wakers'
    BY <1>6, WakersQuiet DEF StartThread, ThreadsInv, mutexVars, condVars, slotVars, sockVars
  <1>7. ASSUME NEW t \in Threads, CheckTimeout(t) PROVE Wakers'
    <2>1. UNCHANGED <<waiting, all, mutexVars, condVars, timers, slotVars, sockVars>>
      BY <1>7 DEF CheckTimeout, TimedOut
    <2> QED BY <2>1, WakersQuiet DEF ThreadsInv, mutexVars, condVars, slotVars, sockVars
  <1>8. ASSUME NEW t \in Threads, Resume(t) PROVE Wakers'
    BY <1>8, WakersQuiet DEF Resume, ThreadsInv, condVars, slotVars, sockVars
  <1> QED BY <1>1, <1>2, <1>3, <1>4, <1>5, <1>6, <1>7, <1>8 DEF MainLoop

LEMMA WakersStep ==
    ASSUME PrivateInv, ThreadsInv', Wakers, ~Sharing, ~Timeouts, ~Gc, Next
    PROVE  Wakers'
  <1> USE DEF PrivateInv, Orderly
  <1>01. /\ UNCHANGED <<connectWaiting, threadSockets>> => SlotsTaken'
         /\ UNCHANGED <<owner, mqueue, mutexHandler, all>> => OwnerAlive'
    BY SlotsKept, OwnerKept DEF Wakers, ThreadsInv, Typed
  <1>1. ASSUME NEW t \in Threads, SleepCallback(t) PROVE Wakers'
    <2>1. /\ timers' = timers \ {t} /\ waiting' = waiting \ {t}
          /\ UNCHANGED <<all, mutexVars, condVars, slotVars, sockVars>>
      BY <1>1 DEF SleepCallback, Restore
    <2>2. UNCHANGED <<ToSet(cqueue), ToSet(mqueue), EventThreads>>
      BY <2>1 DEF mutexVars, condVars, sockVars, EventThreads
    <2>3. (waiting \subseteq Awaited)'
      BY <2>1, <2>2, AwaitedWake DEF Wakers, slotVars
    <2> QED BY <1>01, <2>1, <2>3 DEF Wakers, mutexVars, slotVars
  <1>2. ASSUME NEW e \in events, SocketCallback(e) PROVE Wakers'
    <2>1. /\ events' = events \ {e}
          /\ UNCHANGED <<all, mutexVars, condVars, timers, slotVars>>
      BY <1>2 DEF SocketCallback
    <2>2. PICK s : s = e.sock
      OBVIOUS
    <2>3. nuThread[s] = s /\ s \in suspended
      BY <2>2 DEF EventsOwned
    <2>4. waiting' = waiting \ {s}
      BY <1>2, <2>2, <2>3 DEF SocketCallback, Restore
    <2>5. UNCHANGED <<ToSet(cqueue), ToSet(mqueue)>> /\ EventThreads \ {s} \subseteq EventThreads'
      BY <2>1, <2>2 DEF mutexVars, condVars, EventThreads
    <2>6. (waiting \subseteq Awaited)'
      BY <2>1, <2>4, <2>5, AwaitedWake DEF Wakers, slotVars
    <2> QED BY <1>01, <2>1, <2>6 DEF Wakers, mutexVars, slotVars
  <1>3. CASE Finished
    BY <1>3, WakersQuiet DEF Finished, vars, ThreadsInv, queueVars, mutexVars, condVars, slotVars, sockVars
  <1> QED BY <1>1, <1>2, <1>3, ScriptWakers, LoopWakers DEF Next, Callback, Expire, CollectThread, CollectCoroutine

(* Without --script-timeout and --host-timeout, between the cycles of the  *)
(* collector, every waiting thread has a wake-up to come.                  *)
THEOREM WaitersAreWoken ==
    ASSUME ~Sharing, ~Timeouts, ~Gc
    PROVE  Spec => []WaiterHasWaker
  <1>1. ASSUME Init PROVE Wakers
    BY <1>1, QueueEmpty DEF Init, Wakers, OwnerAlive, SlotsTaken
  <1>2. ASSUME PrivateInv, Wakers, UNCHANGED <<repertoire, vars>> PROVE Wakers'
    BY <1>2, WakersQuiet DEF PrivateInv, ThreadsInv, vars, queueVars, mutexVars, condVars, slotVars, sockVars
  <1>3. ASSUME PrivateInv, PrivateInv', Wakers, Next PROVE Wakers'
    BY <1>3, WakersStep DEF PrivateInv
  <1>4. ASSUME PrivateInv, Wakers PROVE WaiterHasWaker
    <2>1. SUFFICES ASSUME NEW t \in waiting
                   PROVE  \/ t \in timers
                          \/ \E e \in events : nuThread[e.sock] = t
                          \/ t \in ToSet(cqueue)
                          \/ t \in ToSet(mqueue) /\ \E u \in all : mutexHandler[u] = owner
                          \/ t \in connectWaiting /\ ~HasRoom
      BY DEF WaiterHasWaker
    <2>2. t \in Awaited
      BY <1>4 DEF Wakers
    <2>3. CASE t \in EventThreads
      BY <1>4, <2>3 DEF EventThreads, PrivateInv, Orderly, EventsOwned
    <2>4. CASE t \in ToSet(mqueue)
      <3>1. mqueue # <<>>
        BY <2>4, QueueEmpty
      <3>2. owner # NoThread
        BY <1>4, <3>1 DEF PrivateInv, Orderly, Locks
      <3> QED BY <1>4, <2>4, <3>2 DEF Wakers, OwnerAlive
    <2>5. CASE t \in connectWaiting
      BY <1>4, <2>5 DEF Wakers, SlotsTaken
    <2> QED BY <2>2, <2>3, <2>4, <2>5 DEF Awaited
  <1> QED BY <1>1, <1>2, <1>3, <1>4, PrivateInvariant, PTL DEF Spec
=============================================================================
