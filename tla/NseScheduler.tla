---------------------------- MODULE NseScheduler ----------------------------
(***************************************************************************)
(* The script scheduler of the Nmap Scripting Engine: run() of             *)
(* nse_main.lua, the mutex and the condition variable of nse_nmaplib.cc,   *)
(* the socket slots, socket events and sleeps of nse_nsock.cc, and         *)
(* the yield/restore/destructor calls of nse_main.cc that tie them together.*)
(*                                                                         *)
(* A script is a coroutine. It runs until it waits (for a socket event, a  *)
(* sleep, the mutex, the condition variable or a free socket slot) or      *)
(* ends; it is never preempted. The wake-up moves it from waiting to       *)
(* pending, and the main loop moves pending back to running. A wake-up     *)
(* for a thread that is not waiting is dropped: everything below is about  *)
(* whether a wake-up is ever dropped that somebody needed.                 *)
(*                                                                         *)
(* What a script does is chosen freely, at most MaxOps operations each.    *)
(* One mutex, one condition variable and one socket per thread stand for   *)
(* the many of a scan. Lua's collector is a separate actor: it may take a  *)
(* closed Thread object, which the weak tables all and yielded_base do not *)
(* keep alive, and then its coroutine, which THREAD_SOCKETS does not.      *)
(***************************************************************************)
EXTENDS Naturals, Sequences, FiniteSets, SequencesExt

CONSTANTS
    Scripts,      \* the threads that threads_iter returns
    Workers,      \* the threads that stdnse.new_thread may create
    NoThread,
    Limit,        \* CONCURRENCY_LIMIT
    Parallelism,  \* p of socket_lock
    MaxOps,       \* bound: operations of one thread
    Repertoires,  \* what the scripts of a run may do: one of these sets of OpNames
    Timeouts,     \* --script-timeout or --host-timeout was given
    Gc,           \* the collector completes cycles while threads run
    Sharing       \* scripts hand sockets to each other

Threads == Scripts \cup Workers
OpNames == {"sleep", "mutex", "condvar", "socket", "worker"}

ASSUME SchedulerAssumption ==
    /\ Scripts \cap Workers = {} /\ NoThread \notin Threads
    /\ IsFiniteSet(Scripts) /\ IsFiniteSet(Workers)
    /\ Limit \in Nat \ {0} /\ Parallelism \in Nat /\ MaxOps \in Nat
    /\ Repertoires \subseteq SUBSET OpNames
    /\ {Timeouts, Gc, Sharing} \subseteq BOOLEAN

VARIABLES
    repertoire,   \* the operations scripts use in this run: it does not change
    pc,           \* where the main loop of run() is
    iter,         \* the scripts threads_iter has not returned yet
    iterLive,     \* threads_iter ~= nil
    running, waiting, pending,
    current,
    all,          \* threads started and not closed: the keys of all
    numThreads,   \* num_threads
    toCheck,      \* what pairs(waiting) of the time-out loop still visits
    parent,       \* the script a thread works for: its host and start time
    expired,      \* scripts whose time is up
    clock,        \* scripts whose time-out clock has been started
    opsLeft,      \* operations each thread may still do
    suspended,    \* coroutines whose lua_status is LUA_YIELD
    reclaimed,    \* Thread objects the collector has taken
    owner, mqueue,             \* upvalues 2 and 1 of aux_mutex
    lockCall,                  \* threads inside a "lock" that waits
    holds,                     \* threads whose "lock" has returned
    mutexHandler,              \* close_handlers[mutex key].thread
    cqueue, condHandler,       \* upvalue 1 of aux_condvar; close_handlers
    timers,                    \* threads with a sleep in Nsock
    threadSockets,             \* keys of THREAD_SOCKETS
    connectWaiting,            \* keys of CONNECT_WAITING
    retryConnect,              \* threads whose continuation is connect()
    open,                      \* sockets with an nsiod
    events,                    \* socket events in Nsock
    nuThread,                  \* nu->thread of each socket
    aborted                    \* an assert failed, or nu->thread was NULL

loopVars  == <<pc, iter, iterLive, toCheck>>
queueVars == <<running, waiting, pending, current, all, numThreads>>
timeVars  == <<parent, expired, clock>>
coVars    == <<opsLeft, suspended, reclaimed>>
mutexVars == <<owner, mqueue, lockCall, holds, mutexHandler>>
condVars  == <<cqueue, condHandler>>
slotVars  == <<threadSockets, connectWaiting, retryConnect>>
sockVars  == <<open, events, nuThread, aborted>>
vars == <<loopVars, queueVars, timeVars, coVars, mutexVars, condVars, timers,
          slotVars, sockVars>>

Event == [sock : Threads, type : {"connect", "io"}]

TypeOK ==
    /\ repertoire \in Repertoires
    /\ pc \in {"start", "timeouts", "resume", "unlock", "nsock", "finished"}
    /\ iter \subseteq Scripts /\ iterLive \in BOOLEAN
    /\ \A S \in {running, waiting, pending, all, toCheck, suspended,
                 reclaimed, lockCall, holds, timers, threadSockets, connectWaiting,
                 retryConnect, open} : S \subseteq Threads
    /\ current \in Threads \cup {NoThread} /\ owner \in Threads \cup {NoThread}
    /\ numThreads \in Nat
    /\ parent \in [Threads -> Scripts \cup {NoThread}]
    /\ expired \subseteq Scripts /\ clock \subseteq Scripts
    /\ opsLeft \in [Threads -> 0..MaxOps]
    /\ mqueue \in Seq(Threads) /\ cqueue \in Seq(Threads)
    /\ mutexHandler \in [Threads -> Threads \cup {NoThread}]
    /\ condHandler \in [Threads -> BOOLEAN]
    /\ events \subseteq Event
    /\ nuThread \in [Threads -> Threads \cup {NoThread}]
    /\ aborted \in BOOLEAN

Init ==
    /\ repertoire \in Repertoires
    /\ pc = "start" /\ iter = Scripts /\ iterLive = TRUE /\ toCheck = {}
    /\ running = {} /\ waiting = {} /\ pending = {} /\ all = {}
    /\ current = NoThread /\ numThreads = 0
    /\ parent = [t \in Threads |-> IF t \in Scripts THEN t ELSE NoThread]
    /\ expired = {} /\ clock = {}
    /\ opsLeft = [t \in Threads |-> MaxOps]
    /\ suspended = {} /\ reclaimed = {}
    /\ owner = NoThread /\ mqueue = <<>> /\ lockCall = {} /\ holds = {}
    /\ mutexHandler = [t \in Threads |-> NoThread]
    /\ cqueue = <<>> /\ condHandler = [t \in Threads |-> FALSE]
    /\ timers = {} /\ threadSockets = {} /\ connectWaiting = {}
    /\ retryConnect = {} /\ open = {} /\ events = {}
    /\ nuThread = [t \in Threads |-> NoThread] /\ aborted = FALSE

---------------------------------------------------------------------------
(* nse_restore: _R[WAITING_TO_RUNNING]. Only a waiting thread moves.       *)

RestoreAnyThread(S) == pending' = pending \cup S /\ waiting' = waiting \ S

Restore(S) ==
    /\ pending' = pending \cup (S \cap waiting)
    /\ waiting' = waiting \ S

(* nse_yield, and the return into run() that files the thread as waiting.  *)
Yield ==
    /\ waiting' = waiting \cup {current}
    /\ suspended' = suspended \cup {current}
    /\ current' = NoThread

CloseSocketsKeepingEvents(S) ==
    /\ open' = open \ S
    /\ nuThread' = [t \in Threads |-> IF t \in S THEN NoThread ELSE nuThread[t]]
    /\ UNCHANGED <<events, aborted>>

(* l_close of the open sockets among S. Nsock kills their events and calls *)
(* back, which fails an assertion if nu->thread is not suspended.          *)
CloseSockets(S) ==
    /\ open' = open \ S
    /\ events' = {e \in events : e.sock \notin S}
    /\ nuThread' = [t \in Threads |->
                      IF t \in S \cap open THEN NoThread ELSE nuThread[t]]
    /\ aborted' = \/ aborted
                  \/ \E e \in events : /\ e.sock \in S
                                       /\ nuThread[e.sock] \notin suspended

(* The next thread of the mutex's queue, or nil.                           *)
NextOwner == IF mqueue = <<>> THEN NoThread ELSE Head(mqueue)

PassMutexWithoutDestructor(keeper) ==
    /\ owner' = NextOwner
    /\ mqueue' = IF mqueue = <<>> THEN mqueue ELSE Tail(mqueue)
    /\ mutexHandler' = [t \in Threads |->
          IF mutexHandler[t] = owner THEN NoThread ELSE mutexHandler[t]]

(* aux_mutex "done": the lock and its destructor go to the next waiter.    *)
(* keeper is the thread whose close_handlers get the destructor, found by  *)
(* _R[DESTRUCTOR]: the waiter's own Thread, unless that has been collected,*)
(* and then the current one, if there is one that outlives the call.       *)
PassMutex(keeper) ==
    /\ owner' = NextOwner
    /\ mqueue' = IF mqueue = <<>> THEN mqueue ELSE Tail(mqueue)
    /\ mutexHandler' = [t \in Threads |->
          IF NextOwner # NoThread
             /\ t = (IF NextOwner \in reclaimed THEN keeper ELSE NextOwner)
          THEN NextOwner
          ELSE IF mutexHandler[t] = owner THEN NoThread ELSE mutexHandler[t]]

LastOfHostIsScript(t) == t \in Scripts
CondWokenOne(t) == IF condHandler[t] /\ cqueue # <<>> THEN {Last(cqueue)} ELSE {}

(* Thread:close: the host's clock stops with its last thread, and the      *)
(* destructors run: the mutex is passed on, the condition variable         *)
(* broadcast, the sleep cancelled. A destructor that the mutex adds to     *)
(* the closing thread itself is erased by the loop that runs them.         *)
LastOfHost(t) == \A u \in all \ {t} : parent[u] # parent[t]
CondWoken(t) == IF condHandler[t] THEN ToSet(cqueue) ELSE {}

Close(t) ==
    LET passes == mutexHandler[t] # NoThread /\ mutexHandler[t] = owner
        woken  == (IF passes THEN {NextOwner} ELSE {}) \cup CondWoken(t)
    IN  /\ all' = all \ {t}
        /\ numThreads' = numThreads - 1
        /\ clock' = IF LastOfHost(t) THEN clock \ {parent[t]} ELSE clock
        /\ pending' = pending \cup ((waiting \ {t}) \cap woken)
        /\ waiting' = (waiting \ {t}) \ woken
        /\ IF passes THEN PassMutex(NoThread)
           ELSE UNCHANGED <<owner, mqueue, mutexHandler>>
        /\ holds' = holds \ {t}
        /\ UNCHANGED lockCall
        /\ cqueue' = IF condHandler[t] THEN <<>> ELSE cqueue
        /\ condHandler' = [condHandler EXCEPT ![t] = FALSE]
        /\ timers' = timers \ {t}

---------------------------------------------------------------------------
(* The main loop of run().                                                 *)

(* Start as many new threads as possible.                                  *)
StartThread(t) ==
    /\ pc = "start" /\ iterLive /\ numThreads < Limit
    /\ t \in iter
    /\ iter' = iter \ {t}
    /\ all' = all \cup {t}
    /\ running' = running \cup {t}
    /\ numThreads' = numThreads + 1
    /\ UNCHANGED <<pc, iterLive, toCheck, waiting, pending, current, timeVars,
                   coVars, mutexVars, condVars, timers, slotVars, sockVars>>

(* threads_iter returns nil, or the limit is reached.                      *)
StartDone ==
    /\ pc = "start"
    /\ IF iterLive /\ numThreads < Limit THEN iter = {} /\ iterLive' = FALSE
                                         ELSE iterLive' = iterLive
    /\ pc' = "timeouts"
    /\ toCheck' = waiting
    /\ UNCHANGED <<iter, queueVars, timeVars, coVars, mutexVars, condVars,
                   timers, slotVars, sockVars>>

(* Thread:timed_out; a worker shares its script's start time and host.     *)
TimedOut(t) == Timeouts /\ parent[t] \in expired

(* One pass of the time-out loop. Closing a thread may wake others, which  *)
(* leave waiting and are then no longer visited.                           *)
CheckTimeout(t) ==
    /\ pc = "timeouts" /\ t \in toCheck
    /\ toCheck' = toCheck \ {t}
    /\ IF t \in waiting /\ TimedOut(t)
       THEN Close(t)
       ELSE UNCHANGED <<waiting, pending, all, numThreads, clock, mutexVars,
                        condVars, timers>>
    /\ UNCHANGED <<pc, iter, iterLive, running, current, parent, expired,
                   coVars, slotVars, sockVars>>

TimeoutsDone ==
    /\ pc = "timeouts" /\ toCheck = {}
    /\ pc' = "resume"
    /\ UNCHANGED <<iter, iterLive, toCheck, queueVars, timeVars, coVars,
                   mutexVars, condVars, timers, slotVars, sockVars>>

(* Resume a running thread. One that was waiting for the mutex returns     *)
(* from "lock" and goes on as its holder, whatever woke it.                *)
Resume(t) ==
    /\ pc = "resume" /\ current = NoThread /\ t \in running
    /\ current' = t
    /\ running' = running \ {t}
    /\ clock' = clock \cup {parent[t]}
    /\ suspended' = suspended \ {t}
    /\ holds' = holds \cup (lockCall \cap {t})
    /\ lockCall' = lockCall \ {t}
    /\ UNCHANGED <<loopVars, waiting, pending, all, numThreads, parent,
                   expired, opsLeft, reclaimed, owner, mqueue, mutexHandler,
                   condVars, timers, slotVars, sockVars>>

ResumeDone ==
    /\ pc = "resume" /\ current = NoThread /\ running = {}
    /\ pc' = "unlock"
    /\ UNCHANGED <<iter, iterLive, toCheck, queueVars, timeVars, coVars,
                   mutexVars, condVars, timers, slotVars, sockVars>>

FreedIfIdle == {t \in threadSockets : t \in suspended /\ t \notin open}

(* socket_unlock, at the head of l_loop: a thread that has ended, or has   *)
(* no socket open, gives up its slot and every thread waiting for a slot   *)
(* is woken.                                                               *)
Freed == {t \in threadSockets : t \notin suspended \/ t \notin open}

SocketUnlock ==
    /\ pc = "unlock"
    /\ pc' = "nsock"
    /\ threadSockets' = threadSockets \ Freed
    /\ CloseSockets(Freed)
    /\ IF Freed = {} THEN UNCHANGED <<connectWaiting, waiting, pending>>
       ELSE /\ connectWaiting' = {}
            /\ Restore(connectWaiting)
    /\ UNCHANGED <<iter, iterLive, toCheck, running, current, all, numThreads,
                   timeVars, coVars, mutexVars, condVars, timers,
                   retryConnect>>

(* nsock_loop: a sleep ends.                                               *)
SleepCallback(t) ==
    /\ pc = "nsock" /\ t \in timers
    /\ timers' = timers \ {t}
    /\ Restore({t})
    /\ UNCHANGED <<loopVars, running, current, all, numThreads, timeVars,
                   coVars, mutexVars, condVars, slotVars, sockVars>>

(* nsock_loop: a socket event ends, by success, error or its own timeout.  *)
(* The thread it wakes is the one in nu->thread now. That must be          *)
(* suspended: no thread at all is a null pointer, and a finished coroutine *)
(* fails the assertion, unless the event is an error.                      *)
SocketCallback(e) ==
    LET L == nuThread[e.sock] IN
    /\ pc = "nsock" /\ e \in events
    /\ events' = events \ {e}
    /\ IF L \in suspended
       THEN /\ nuThread' = IF e.type = "connect"
                           THEN [nuThread EXCEPT ![e.sock] = NoThread]
                           ELSE nuThread
            /\ aborted' = aborted
            /\ Restore({L})
       ELSE /\ aborted' \in {TRUE, L = NoThread \/ aborted}
            /\ UNCHANGED <<nuThread, waiting, pending>>
    /\ UNCHANGED <<loopVars, running, current, all, numThreads, timeVars,
                   coVars, mutexVars, condVars, timers, slotVars, open>>

(* After loop(50): pending becomes running, and the while is tested.       *)
LoopDone ==
    /\ pc = "nsock"
    /\ running' = running \cup pending
    /\ pending' = {}
    /\ pc' = IF running' # {} \/ waiting # {} \/ iterLive THEN "start"
                                                          ELSE "finished"
    /\ UNCHANGED <<iter, iterLive, toCheck, waiting, current, all, numThreads,
                   timeVars, coVars, mutexVars, condVars, timers, slotVars,
                   sockVars>>

Finished == pc = "finished" /\ UNCHANGED vars

---------------------------------------------------------------------------
(* What the current script may do. An operation that does not wait leaves  *)
(* the thread current.                                                     *)

MayDo(op) ==
    /\ current # NoThread /\ op \in repertoire
    /\ current \notin retryConnect
    /\ opsLeft[current] > 0
    /\ opsLeft' = [opsLeft EXCEPT ![current] = @ - 1]

(* The script returns, or throws an error.                                 *)
End ==
    /\ current # NoThread /\ current \notin retryConnect
    /\ Close(current)
    /\ current' = NoThread
    /\ UNCHANGED <<loopVars, running, parent, expired, coVars, slotVars,
                   sockVars>>

(* stdnse.new_thread.                                                      *)
NewThread(w) ==
    /\ MayDo("worker")
    /\ w \in Workers /\ parent[w] = NoThread
    /\ parent' = [parent EXCEPT ![w] = parent[current]]
    /\ all' = all \cup {w}
    /\ pending' = pending \cup {w}
    /\ numThreads' = numThreads + 1
    /\ UNCHANGED <<loopVars, running, waiting, current, expired, clock,
                   suspended, reclaimed, mutexVars, condVars, timers,
                   slotVars, sockVars>>

Sleep ==
    /\ MayDo("sleep")
    /\ timers' = timers \cup {current}
    /\ Yield
    /\ UNCHANGED <<loopVars, running, pending, all, numThreads, timeVars,
                   reclaimed, mutexVars, condVars, slotVars, sockVars>>

(* mutex "lock" when it is free, or a "trylock" that succeeds.             *)
LockFree ==
    /\ MayDo("mutex")
    /\ owner = NoThread
    /\ owner' = current
    /\ holds' = holds \cup {current}
    /\ mutexHandler' = [mutexHandler EXCEPT ![current] = current]
    /\ UNCHANGED <<loopVars, queueVars, timeVars, suspended, reclaimed,
                   mqueue, lockCall, condVars, timers, slotVars, sockVars>>

(* mutex "lock" when another thread has it. (A script that locks a mutex   *)
(* it holds waits for itself; none does here.)                             *)
LockBusy ==
    /\ MayDo("mutex")
    /\ owner \notin {NoThread, current}
    /\ mqueue' = Append(mqueue, current)
    /\ lockCall' = lockCall \cup {current}
    /\ Yield
    /\ UNCHANGED <<loopVars, running, pending, all, numThreads, timeVars,
                   reclaimed, owner, holds, mutexHandler, condVars, timers,
                   slotVars, sockVars>>

DoneByAnyThread ==
    /\ MayDo("mutex") /\ owner # NoThread
    /\ PassMutex(current) /\ holds' = holds \ {current}
    /\ Restore({NextOwner})
    /\ UNCHANGED <<loopVars, running, current, all, numThreads, timeVars,
                   suspended, reclaimed, lockCall, condVars, timers, slotVars,
                   sockVars>>

(* mutex "done".                                                           *)
Done ==
    /\ MayDo("mutex")
    /\ owner = current
    /\ PassMutex(current)
    /\ holds' = holds \ {current}
    /\ Restore({NextOwner})
    /\ UNCHANGED <<loopVars, running, current, all, numThreads, timeVars,
                   suspended, reclaimed, lockCall, condVars, timers, slotVars,
                   sockVars>>

(* nmap.condvar, whose destructor the thread gets, and "wait".             *)
Wait ==
    /\ MayDo("condvar")
    /\ condHandler' = [condHandler EXCEPT ![current] = TRUE]
    /\ cqueue' = Append(cqueue, current)
    /\ Yield
    /\ UNCHANGED <<loopVars, running, pending, all, numThreads, timeVars,
                   reclaimed, mutexVars, timers, slotVars, sockVars>>

(* nmap.condvar and "signal": the last thread of the list is woken and     *)
(* taken off it.                                                           *)
Signal ==
    /\ MayDo("condvar")
    /\ condHandler' = [condHandler EXCEPT ![current] = TRUE]
    /\ IF cqueue = <<>> THEN UNCHANGED <<cqueue, waiting, pending>>
       ELSE /\ cqueue' = Front(cqueue)
            /\ Restore({Last(cqueue)})
    /\ UNCHANGED <<loopVars, running, current, all, numThreads, timeVars,
                   suspended, reclaimed, mutexVars, timers, slotVars,
                   sockVars>>

(* nmap.condvar and "broadcast".                                           *)
Broadcast ==
    /\ MayDo("condvar")
    /\ condHandler' = [condHandler EXCEPT ![current] = TRUE]
    /\ cqueue' = <<>>
    /\ Restore(ToSet(cqueue))
    /\ UNCHANGED <<loopVars, running, current, all, numThreads, timeVars,
                   suspended, reclaimed, mutexVars, timers, slotVars,
                   sockVars>>

(* socket_lock: a thread with a slot keeps it; another gets one if there   *)
(* is room.                                                                *)
HasRoom == Cardinality(threadSockets) <= Parallelism
SlotFree == current \in threadSockets \/ HasRoom

(* connect is called, or restarted by its continuation.                    *)
Connecting ==
    IF current \in retryConnect THEN UNCHANGED opsLeft ELSE MayDo("socket")

ConnectWaits ==
    /\ current # NoThread /\ Connecting
    /\ ~SlotFree
    /\ connectWaiting' = connectWaiting \cup {current}
    /\ retryConnect' = retryConnect \cup {current}
    /\ Yield
    /\ UNCHANGED <<loopVars, running, pending, all, numThreads, timeVars,
                   reclaimed, mutexVars, condVars, timers, threadSockets,
                   sockVars>>

(* connect goes on with the slot: an address that does not resolve or a    *)
(* connect that fails at once returns to the script, otherwise it waits    *)
(* for the event. A socket that is open already is closed first.           *)
Connect ==
    /\ current # NoThread /\ Connecting
    /\ SlotFree
    /\ threadSockets' = threadSockets \cup {current}
    /\ retryConnect' = retryConnect \ {current}
    /\ \/ /\ UNCHANGED <<sockVars, waiting, suspended, current>>
       \/ LET kept == {e \in events : e.sock # current} IN
          /\ open' = open \cup {current}
          /\ nuThread' = [nuThread EXCEPT ![current] = current]
          /\ aborted' = \/ aborted
                        \/ kept # events /\ nuThread[current] \notin suspended
          /\ \/ /\ events' = kept \cup {[sock |-> current, type |-> "connect"]}
                /\ Yield
             \/ events' = kept /\ UNCHANGED <<waiting, suspended, current>>
    /\ UNCHANGED <<loopVars, running, pending, all, numThreads, timeVars,
                   reclaimed, mutexVars, condVars, timers, connectWaiting>>

(* send or receive on socket s. The event is created first; then yield()   *)
(* refuses a socket that belongs to another thread, and the script ends    *)
(* with that error while the event stays. At most one such event per       *)
(* socket here.                                                            *)
SendReceive(s) ==
    /\ MayDo("socket")
    /\ s \in open /\ (Sharing \/ s = current)
    /\ [sock |-> s, type |-> "io"] \notin events
    /\ events' = events \cup {[sock |-> s, type |-> "io"]}
    /\ IF nuThread[s] \in {NoThread, current}
       THEN /\ nuThread' = [nuThread EXCEPT ![s] = current]
            /\ Yield
            /\ UNCHANGED <<pending, all, numThreads, clock, mutexVars,
                           condVars, timers>>
       ELSE /\ Close(current)
            /\ current' = NoThread
            /\ UNCHANGED <<nuThread, suspended>>
    /\ UNCHANGED <<loopVars, running, parent, expired, reclaimed, slotVars,
                   open, aborted>>

CloseSocket ==
    /\ MayDo("socket")
    /\ current \in open
    /\ CloseSockets({current})
    /\ UNCHANGED <<loopVars, queueVars, timeVars, suspended, reclaimed,
                   mutexVars, condVars, timers, slotVars>>

---------------------------------------------------------------------------
(* Time and the collector.                                                 *)

Expire(s) ==
    /\ Timeouts /\ pc # "finished"
    /\ s \in (Scripts \ iter) \ expired
    /\ expired' = expired \cup {s}
    /\ UNCHANGED <<loopVars, queueVars, parent, clock, coVars, mutexVars,
                   condVars, timers, slotVars, sockVars>>

(* A closed Thread is collected unless a live worker refers to its parent. *)
Closed == {t \in Threads : parent[t] # NoThread /\ t \notin iter \cup all}

CollectThread(t) ==
    /\ Gc /\ pc # "finished"
    /\ t \in Closed \ reclaimed
    /\ t \in Scripts => \A u \in all : parent[u] # t
    /\ reclaimed' = reclaimed \cup {t}
    /\ UNCHANGED <<loopVars, queueVars, timeVars, opsLeft, suspended,
                   mutexVars, condVars, timers, slotVars, sockVars>>

(* Then its coroutine and its socket, unless the mutex or the condition    *)
(* variable still refers to it: the weak keys of THREAD_SOCKETS and        *)
(* CONNECT_WAITING vanish.                                                 *)
CollectCoroutine(t) ==
    /\ Gc /\ pc # "finished"
    /\ t \in reclaimed \cap (threadSockets \cup open \cup connectWaiting)
    /\ t # owner /\ t \notin ToSet(mqueue) \cup ToSet(cqueue)
    /\ threadSockets' = threadSockets \ {t}
    /\ connectWaiting' = connectWaiting \ {t}
    /\ CloseSockets({t})
    /\ UNCHANGED <<loopVars, queueVars, timeVars, coVars, mutexVars,
                   condVars, timers, retryConnect>>

Script ==
    \/ End \/ Sleep \/ LockFree \/ LockBusy \/ Done
    \/ Wait \/ Signal \/ Broadcast
    \/ ConnectWaits \/ Connect \/ CloseSocket
    \/ \E w \in Workers : NewThread(w)
    \/ \E s \in Threads : SendReceive(s)

MainLoop ==
    \/ StartDone \/ TimeoutsDone \/ ResumeDone \/ SocketUnlock \/ LoopDone
    \/ \E t \in Scripts : StartThread(t)
    \/ \E t \in Threads : CheckTimeout(t) \/ Resume(t)

Callback == \E t \in Threads : SleepCallback(t)
               \/ \E e \in events : e.sock = t /\ SocketCallback(e)

Next ==
    /\ \/ Script
       \/ MainLoop
       \/ Callback
       \/ \E s \in Scripts : Expire(s)
       \/ \E t \in Threads : CollectThread(t) \/ CollectCoroutine(t)
       \/ Finished
    /\ UNCHANGED repertoire

Spec == Init /\ [][Next]_<<repertoire, vars>>

(* The loop keeps turning, and a script's operations return. A sleep ends  *)
(* and so does every socket event, which has a timeout of its own; Nsock   *)
(* delivers it in one of the calls of loop(50) that follow.                *)
FairSpec ==
    /\ Spec
    /\ WF_vars(MainLoop) /\ WF_vars(Script)
    /\ \A t \in Threads :
          /\ SF_vars(SleepCallback(t))
          /\ \A k \in {"connect", "io"} :
                SF_vars(SocketCallback([sock |-> t, type |-> k]))

---------------------------------------------------------------------------
(* Properties.                                                             *)

(* run() never loses a thread: every thread that was started and has not   *)
(* been closed is in exactly one of running, waiting and pending or is the *)
(* current one, and num_threads counts them, so the loop neither stops     *)
(* while one is left nor starves the threads still to be started.          *)
NoThreadLost ==
    LET here == {current} \ {NoThread} IN
    /\ all = running \cup waiting \cup pending \cup here
    /\ numThreads = Cardinality(running) + Cardinality(waiting)
                      + Cardinality(pending) + Cardinality(here)
    /\ numThreads = Cardinality(all)
    /\ pc = "finished" => all = {}

(* A waiting thread has a wake-up to come: its sleep or socket event is in *)
(* Nsock, it is on the condition variable, it is queued for a mutex that   *)
(* some live thread releases at the latest when it is closed, or it waits  *)
(* for a socket slot and they are all taken. _R[WAITING_TO_RUNNING] drops  *)
(* a wake-up for a thread that is not waiting; none that was needed.       *)
WaiterHasWaker ==
    \A t \in waiting :
        \/ t \in timers
        \/ \E e \in events : nuThread[e.sock] = t
        \/ t \in ToSet(cqueue)
        \/ t \in ToSet(mqueue) /\ \E u \in all : mutexHandler[u] = owner
        \/ t \in connectWaiting /\ ~HasRoom

(* mutex "lock" returns with the mutex locked: a script that goes on after *)
(* "lock" is the thread in the mutex's second upvalue, so two scripts are  *)
(* never in the section it guards.                                         *)
LockMeansOwner == holds \subseteq {owner}

(* A host's time-out clock runs only while threads of the host are left:   *)
(* workers that outlive their script included.                             *)
ClockStops == clock \subseteq {parent[t] : t \in all}

(* Every script scan ends, when scripts do finitely much and wait only for *)
(* what some other thread or Nsock delivers.                               *)
Terminates == <>(pc = "finished")

(* At most max_parallelism threads have connected sockets.                 *)
SocketLimit == Cardinality(threadSockets \cap open) <= Parallelism

(* A mutex that a live thread waits for is not left with a thread that has *)
(* ended: some live thread still has the destructor that releases it.      *)
MutexReleased ==
    waiting \cap ToSet(mqueue) # {} => \E t \in all : mutexHandler[t] = owner

(* "signal" wakes up a single thread from the waiting set, if one waits:   *)
(* it is never spent on a thread that has ended.  And when a thread that   *)
(* has called nmap.condvar ends for any reason, every thread waiting on    *)
(* the condition variable is awakened.                                     *)
CondvarWakes ==
    [][/\ Signal /\ waiting \cap ToSet(cqueue) # {} => waiting' # waiting
       /\ \A t \in all \ all' :
             condHandler[t] => waiting' \cap ToSet(cqueue) = {}]_vars

(* A socket event never finds its thread finished, or none at all: the     *)
(* assertions of callback() and receive_callback() hold.                   *)
NoAbort == ~aborted
=============================================================================
