------------------------------- MODULE Nsock -------------------------------
(***************************************************************************)
(* The nsock event library: nsock_core.c, nsock_event.c, nsock_iod.c,      *)
(* nsock_pool.c and the loops of its engines.                              *)
(*                                                                         *)
(* Handlers are the clients' code and call the library again, so the calls *)
(* under way are a stack of frames: process_iod_events() at a place in an  *)
(* event list, nsock_iod_delete() at a place in one, and handlers.         *)
(*                                                                         *)
(* struct nevents are reused through free_events: they are numbers here,   *)
(* and the lists hold them as the intrusive lists of the library do.  The  *)
(* clock is abstract: an event with a timeout may be found expired at any  *)
(* time.  Success, errors, EOF and timeouts are one status, "RESULT".      *)
(* Pcap events and proxies are left out, and so is the second try of an    *)
(* SSL connect without SSLv2, which OpenSSL 1.1 and later compile out.     *)
(***************************************************************************)
EXTENDS Integers, Sequences, FiniteSets, SequencesExt

CONSTANTS
    MaxEvents,      \* bound on the events a client requests
    Clients         \* what the client of the library may be: see ClientType

ClientType ==
    [iods : SUBSET Nat,             \* the nsock_iods it creates
     opened : SUBSET Nat,           \* those made by nsock_iod_new2() from an open descriptor
     kinds : SUBSET {"connect", "read", "write", "timer"},     \* its requests
     timeouts : SUBSET BOOLEAN,     \* do its reads, writes and connects have timeouts?
     ssl : BOOLEAN,                 \* are its connects SSL connects?
     engine : {"poll", "epoll"},    \* poll and select, or epoll and kqueue
     reentrant : BOOLEAN]           \* do its handlers of cancelled events call the library?

ASSUME NsockAssumption ==
    /\ MaxEvents \in Nat
    /\ \A c \in Clients : /\ c \in ClientType /\ IsFiniteSet(c.iods)
                           /\ c.opened \subseteq c.iods /\ 0 \notin c.iods

Ids == 1..MaxEvents
Structs == 1..MaxEvents     \* no more are allocated than events exist
None == 0

\* The event lists, in the order in which process_iod_events() walks them.
ListOrder == <<"connect", "read", "write">>
IoTypes == {"connect", "read", "write"}
Bits == {"r", "w"}

VARIABLES
    client,         \* the client of this run: it does not change
    ev,             \* the struct nevents
    list,           \* connect_events, read_events, write_events and free_events
    expirables,     \* the heap of events with a timeout
    iod,            \* the struct niods
    events_pending,
    outcome,        \* what has become of each event
    stack,          \* the calls under way, the innermost last
    serials,        \* events requested so far
    allocated,      \* struct nevents allocated so far
    phase,          \* where nsock_loop() is
    todo,           \* iods the engine has yet to visit in this round
    stale,          \* iods that were already deleted when the round began
    fatal           \* the library has ended the program

vars == <<client, ev, list, expirables, iod, events_pending, outcome, stack, serials, allocated,
          phase, todo, stale, fatal>>

Iods == client.iods
Opened == client.opened
Kinds == client.kinds
Ssl == client.ssl
Engine == client.engine
Reentrant == client.reentrant

Event == [id : Ids \cup {None}, type : IoTypes \cup {"timer"}, iod : Iods \cup {None},
          done : BOOLEAN, status : {"NONE", "RESULT", "CANCELLED", "KILL"},
          timeout : BOOLEAN, desire : {"none", "connect"} \cup Bits]

Iod == [state : {"initial", "deleted", "free"}, sd : BOOLEAN, ssl : BOOLEAN, registered : BOOLEAN,
        pending : Nat, count : [Bits -> Nat], watched : SUBSET Bits,
        first : [IoTypes -> Structs \cup {None}]]

-----------------------------------------------------------------------------
(* The library's state as one value, for functions that change it in turn. *)

View == [ev |-> ev, list |-> list, expirables |-> expirables, iod |-> iod,
         events_pending |-> events_pending, outcome |-> outcome, stack |-> stack]

Commit(new) == \E st \in {new} :
    /\ ev' = st.ev /\ list' = st.list /\ expirables' = st.expirables /\ iod' = st.iod
    /\ events_pending' = st.events_pending /\ outcome' = st.outcome /\ stack' = st.stack

Top(st) == st.stack[Len(st.stack)]
Push(st, frame) == [st EXCEPT !.stack = Append(@, frame)]
Pop(st) == [st EXCEPT !.stack = Front(@)]
SetTop(st, frame) == [st EXCEPT !.stack = Append(Front(@), frame)]

At(seq, s) == CHOOSE k \in DOMAIN seq : seq[k] = s

\* gh_lnode_next() and gh_lnode_prev() of s, in whichever list it is.
NextOf(st, s) ==
    LET on == {t \in DOMAIN st.list : s \in ToSet(st.list[t])}
    IN  IF on = {} THEN None
        ELSE LET q == st.list[CHOOSE t \in on : TRUE]
             IN  IF At(q, s) < Len(q) THEN q[At(q, s) + 1] ELSE None

PrevOf(st, s) ==
    LET on == {t \in DOMAIN st.list : s \in ToSet(st.list[t])}
    IN  IF on = {} THEN None
        ELSE LET q == st.list[CHOOSE t \in on : TRUE]
             IN  IF At(q, s) > 1 THEN q[At(q, s) - 1] ELSE None

LastOf(seq) == IF seq = <<>> THEN None ELSE Last(seq)

\* socket_count_*_inc() and _dec(), each with the update_events() that follows it.
Inc(st, i, b) ==
    [st EXCEPT !.iod[i].count[b] = @ + 1, !.iod[i].watched = @ \cup {b},
               !.iod[i].registered = TRUE]

Dec_KeepsWatching(st, i, b) == [st EXCEPT !.iod[i].count[b] = @ - 1]

Dec(st, i, b) ==
    LET n == st.iod[i].count[b] - 1
    IN  [st EXCEPT !.iod[i].count[b] = n, !.iod[i].watched = IF n = 0 THEN @ \ {b} ELSE @]

IncAll(st, i) == Inc(Inc(st, i, "r"), i, "w")
DecAll(st, i) == Dec(Dec(st, i, "r"), i, "w")

-----------------------------------------------------------------------------
(* The handle_*_result() functions.                                         *)

Marked(st, s, status) == [st EXCEPT !.ev[s].done = TRUE, !.ev[s].status = status]

SslConnecting(st, s) == st.ev[s].type = "connect" /\ st.ev[s].desire \in Bits

\* The event is done: it timed out, was cancelled, failed, or what it asked for is there.
\* An SSL connect that is under way keeps its count.
Done(st, s, status) ==
    LET e == st.ev[s]
        marked == Marked(st, s, status)
    IN  IF e.type = "timer" \/ ~st.iod[e.iod].sd \/ SslConnecting(st, s) THEN marked
        ELSE CASE e.type = "connect" -> DecAll(marked, e.iod)
               [] e.type # "connect" /\ st.iod[e.iod].ssl -> Dec(marked, e.iod, e.desire)
               [] e.type = "read" /\ ~st.iod[e.iod].ssl -> Dec(marked, e.iod, "r")
               [] e.type = "write" /\ ~st.iod[e.iod].ssl -> Dec(marked, e.iod, "w")

\* OpenSSL wants the socket to become readable or writable first.
Wants(st, s, b) == Inc([st EXCEPT !.ev[s].desire = b], st.ev[s].iod, b)

\* What handle_connect_result() may make of a descriptor that is active: the connection is
\* there or failed, or, with SSL, SSL_connect() has ended or wants more.
Connected(st, s) ==
    LET i == st.ev[s].iod
        tls == IF SslConnecting(st, s) THEN Dec(st, i, st.ev[s].desire)
               ELSE DecAll([st EXCEPT !.iod[i].ssl = TRUE, !.ev[s].desire = "connect"], i)
        plain == IF SslConnecting(st, s) THEN {} ELSE {Done(st, s, "RESULT")}
    IN  plain \cup
        (IF Ssl THEN {Marked(tls, s, "RESULT")} \cup {Wants(tls, s, b) : b \in Bits} ELSE {})

\* What handle_read_result() and handle_write_result() may.
Transferred(st, s) ==
    LET i == st.ev[s].iod
    IN  {st, Done(st, s, "RESULT")} \cup
        (IF st.iod[i].ssl THEN {Wants(Dec(st, i, st.ev[s].desire), s, b) : b \in Bits} ELSE {})

\* process_event(): bits are those the engine reported, late is event_timedout().
Matches(st, s, bits) ==
    LET e == st.ev[s]
        plain == IF e.type = "read" THEN "r" ELSE "w"
    IN  CASE e.type = "connect" -> bits # {}
          [] e.type \in {"read", "write"} ->
               \/ st.iod[e.iod].ssl /\ e.desire \in bits
               \/ ~st.iod[e.iod].ssl /\ plain \in bits
               \/ "x" \in bits
          [] OTHER -> FALSE

process_event(st, s, bits, late) ==
    IF st.ev[s].done THEN {st}
    ELSE LET tried == IF ~Matches(st, s, bits) THEN {st}
                      ELSE IF st.ev[s].type = "connect" THEN Connected(st, s)
                      ELSE Transferred(st, s)
         IN  {IF late /\ ~t.ev[s].done THEN Done(t, s, "RESULT") ELSE t : t \in tried}

-----------------------------------------------------------------------------
(* Lists, dispatch and deletion.                                            *)

iod_add_event_AtEnd(st, s) ==
    LET t == st.ev[s].type
    IN  [st EXCEPT !.list[t] = Append(@, s), !.iod[st.ev[s].iod].first[t] = IF @ = None THEN s ELSE @]

\* iod_add_event(): the events of an iod stay together, its newest first.
iod_add_event(st, s) ==
    LET t == st.ev[s].type
        i == st.ev[s].iod
        f == st.iod[i].first[t]
        q == st.list[t]
        put == IF f = None THEN Append(q, s) ELSE InsertAt(q, At(q, f), s)
    IN  [st EXCEPT !.list[t] = put, !.iod[i].first[t] = s]

update_first_events_Loses(st, s) ==
    LET e == st.ev[s]
    IN  IF e.type = "timer" \/ st.iod[e.iod].first[e.type] # s THEN st
        ELSE [st EXCEPT !.iod[e.iod].first[e.type] = None]

update_first_events(st, s) ==
    LET e == st.ev[s]
        n == NextOf(st, s)
    IN  IF e.type = "timer" \/ st.iod[e.iod].first[e.type] # s THEN st
        ELSE [st EXCEPT !.iod[e.iod].first[e.type] =
                 IF n # None /\ st.ev[n].iod = e.iod THEN n ELSE None]

Unlink(st, s) ==
    IF st.ev[s].type = "timer" THEN st
    ELSE [st EXCEPT !.list[st.ev[s].type] = RemoveAt(@, At(@, s))]

Release(st, s) == [st EXCEPT !.list["free"] = Append(@, s)]

\* After the handler: event_delete(), and what the caller of
\* event_dispatch_and_delete() does with the event then.
Finish(st, s, from) ==
    LET deleted == [st EXCEPT !.ev[s].done = TRUE]
        moved == IF from = "iod" THEN [deleted EXCEPT !.stack[Len(st.stack)].cur = NextOf(deleted, s)]
                 ELSE deleted
        unlinked == Release(Unlink(update_first_events(moved, s), s), s)
    IN  CASE from = "cancel" -> deleted
          [] from \in {"expired", "add"} -> unlinked
          [] from = "iod" -> [unlinked EXCEPT !.expirables = @ \ {s}]

event_dispatch_and_delete(st, s, notify, from) ==
    LET e == st.ev[s]
        less == [st EXCEPT !.events_pending = @ - 1,
                           !.iod = IF e.iod = None THEN @ ELSE [st.iod EXCEPT ![e.iod].pending = @ - 1],
                           !.outcome[e.id] = IF notify THEN "told" ELSE "silent"]
    IN  IF notify
        THEN Push(less, [kind |-> "handler", ev |-> s, from |-> from, status |-> e.status])
        ELSE Finish(less, s, from)

nevent_delete_Always(st, s, notify) ==
    LET done == [Done(st, s, "CANCELLED") EXCEPT !.expirables = @ \ {s}]
        gone == Release(Unlink(update_first_events(done, s), s), s)
    IN  event_dispatch_and_delete(gone, s, notify, "cancel")

\* The event goes to the free list before its handler is called.
nevent_delete(st, s, notify) ==
    IF st.ev[s].done THEN st
    ELSE LET done == [Done(st, s, "CANCELLED") EXCEPT !.expirables = @ \ {s}]
             gone == Release(Unlink(update_first_events(done, s), s), s)
         IN  event_dispatch_and_delete(gone, s, notify, "cancel")

-----------------------------------------------------------------------------
(* The client, in the main program or in a handler.                         *)

InHandler == stack # <<>> /\ Top(View).kind = "handler"

\* Who may call the library now.  Unless Reentrant, a handler that is told of a
\* cancellation does not (it runs inside the call that cancels).
MayCall ==
    /\ ~fatal
    /\ \/ stack = <<>> /\ phase = "client"
       \/ InHandler /\ (Reentrant \/ Top(View).from # "cancel")

\* The client reads and writes an SSL iod only once it is connected.
Usable(i, type) ==
    /\ iod[i].state = "initial"
    /\ CASE type = "connect" -> ~iod[i].sd
         [] OTHER -> /\ iod[i].sd
                     /\ Ssl /\ i \notin Opened => iod[i].ssl /\ iod[i].first["connect"] = None

\* event_new() takes a struct from the front of the free list or allocates one.
event_new(type, i, timeout) ==
    LET reuse == list["free"] # <<>>
        s == IF reuse THEN Head(list["free"]) ELSE allocated + 1
        e == [id |-> serials + 1, type |-> type, iod |-> i, done |-> FALSE, status |-> "NONE",
              timeout |-> timeout, desire |-> "none"]
    IN  [struct |-> s, fresh |-> ~reuse,
         st |-> [View EXCEPT !.ev[s] = e,
                             !.list["free"] = IF reuse THEN Tail(@) ELSE @,
                             !.iod = IF i = None THEN @ ELSE [iod EXCEPT ![i].pending = @ + 1],
                             !.events_pending = @ + 1,
                             !.outcome[serials + 1] = "pending"]]

\* nsock_pool_add_event() for an event that is not done yet.
Added(st, s) ==
    LET e == st.ev[s]
        queued == IF e.timeout THEN [st EXCEPT !.expirables = @ \cup {s}] ELSE st
        b == IF e.type = "read" THEN "r" ELSE "w"
        counted == CASE e.type = "timer" -> queued
                     [] e.type = "connect" -> IncAll(queued, e.iod)
                     [] OTHER -> Inc(queued, e.iod, b)
        wanting == IF e.type \in {"read", "write"} /\ st.iod[e.iod].ssl
                   THEN [counted EXCEPT !.ev[s].desire = b] ELSE counted
    IN  IF e.type = "timer" THEN wanting ELSE iod_add_event(wanting, s)

Request(new, st) ==
    /\ serials < MaxEvents
    /\ serials' = serials + 1
    /\ allocated' = IF new.fresh THEN allocated + 1 ELSE allocated
    /\ Commit(st)
    /\ UNCHANGED <<phase, todo, stale, fatal>>

\* nsock_read(), nsock_write() and their relatives, and nsock_connect_*() that starts.
StartIo(type, i, timeout) ==
    LET new == event_new(type, i, timeout)
        st == IF type = "connect" THEN [new.st EXCEPT !.iod[i].sd = TRUE] ELSE new.st
    IN  /\ MayCall /\ type \in Kinds \cap IoTypes /\ Usable(i, type)
        /\ Request(new, Added(st, new.struct))

nsock_timer_create ==
    LET new == event_new("timer", None, TRUE)
    IN  MayCall /\ "timer" \in Kinds /\ Request(new, Added(new.st, new.struct))

\* A connect that fails at once; the socket may exist or not.
ConnectFails(i, sd) ==
    LET new == event_new("connect", i, FALSE)
        st == Marked([new.st EXCEPT !.iod[i].sd = sd], new.struct, "RESULT")
    IN  /\ MayCall /\ "connect" \in Kinds /\ Usable(i, "connect")
        /\ Request(new, event_dispatch_and_delete(iod_add_event(st, new.struct), new.struct, TRUE, "add"))

\* nsock_event_cancel() finds a timer in the heap and any other event in its list.
Found(id) ==
    {s \in Structs : ev[s].id = id /\
        IF ev[s].type = "timer" THEN s \in expirables ELSE s \in ToSet(list[ev[s].type])}

nsock_event_cancel(id, notify) ==
    /\ MayCall
    /\ \E s \in Found(id) : ~ev[s].done /\ Commit(nevent_delete(View, s, notify))
    /\ UNCHANGED <<serials, allocated, phase, todo, stale, fatal>>

\* nsock_iod_delete() marks the iod; the engine frees it later.
Deleted(st, i) ==
    [st EXCEPT !.iod[i] = [st.iod[i] EXCEPT !.state = "deleted", !.sd = FALSE, !.ssl = FALSE,
                               !.registered = FALSE, !.count = [b \in Bits |-> 0], !.watched = {}]]

nsock_iod_delete(i, notify) ==
    /\ MayCall /\ iod[i].state = "initial"
    /\ Commit(IF iod[i].pending = 0 THEN Deleted(View, i)
              ELSE Push(View, [kind |-> "delete", iod |-> i, notify |-> notify, at |-> 1,
                               heads |-> [k \in 1..3 |-> iod[i].first[ListOrder[k]]],
                               cur |-> iod[i].first["connect"]]))
    /\ UNCHANGED <<serials, allocated, phase, todo, stale, fatal>>

\* The frame has walked past the events of its iod.
OthersBegin(f) == IF f.cur = None THEN TRUE ELSE ev[f.cur].iod # f.iod

\* One event of the list it walks; the next one is fetched before the handler runs.
DeleteStep ==
    /\ stack # <<>> /\ Top(View).kind = "delete" /\ ~fatal
    /\ LET f == Top(View) IN
       /\ ~OthersBegin(f)
       /\ Commit(nevent_delete(SetTop(View, [f EXCEPT !.cur = NextOf(View, f.cur)]), f.cur, f.notify))
    /\ UNCHANGED <<serials, allocated, phase, todo, stale, fatal>>

DeleteNextList ==
    /\ stack # <<>> /\ Top(View).kind = "delete" /\ ~fatal
    /\ LET f == Top(View) IN
       /\ OthersBegin(f)
       /\ f.at < 3 /\ iod[f.iod].pending > 0
       /\ Commit(SetTop(View, [f EXCEPT !.at = @ + 1, !.cur = f.heads[f.at + 1]]))
    /\ UNCHANGED <<serials, allocated, phase, todo, stale, fatal>>

DeleteEnd ==
    /\ stack # <<>> /\ Top(View).kind = "delete" /\ ~fatal
    /\ LET f == Top(View) IN
       /\ OthersBegin(f)
       /\ f.at = 3 \/ iod[f.iod].pending = 0
       /\ fatal' = (iod[f.iod].pending # 0)
       /\ Commit(IF fatal' THEN View ELSE Deleted(Pop(View), f.iod))
    /\ UNCHANGED <<serials, allocated, phase, todo, stale>>

HandlerReturns ==
    /\ InHandler /\ ~fatal
    /\ Commit(Finish(Pop(View), Top(View).ev, Top(View).from))
    /\ UNCHANGED <<serials, allocated, phase, todo, stale, fatal>>

-----------------------------------------------------------------------------
(* nsock_loop() and the engines.                                            *)

\* poll and select visit every active iod, epoll and kqueue those that are reported.
Visited == {i \in Iods : iod[i].state # "free"}

LoopRound ==
    /\ phase = "client" /\ stack = <<>> /\ events_pending > 0 /\ ~fatal
    /\ phase' = "iods"
    /\ IF Engine = "poll" THEN todo' = Visited
       ELSE todo' \in SUBSET {i \in Iods : iod[i].registered}
    /\ stale' = {i \in Iods : iod[i].state = "deleted"}
    /\ UNCHANGED <<ev, list, expirables, iod, events_pending, outcome, stack, serials, allocated, fatal>>

ProcFrame(st, i, k, bits) ==
    [kind |-> "iod", iod |-> i, at |-> k, bits |-> bits, cur |-> st.iod[i].first[ListOrder[k]],
     last |-> LastOf(st.list[ListOrder[k]])]

\* The bits the engine reports, of those watched; none for an iod that waits for nothing.  EV_EXCEPT ("x")
\* matches whatever the other bits are.
VisitIod(i, bits) ==
    /\ phase = "iods" /\ stack = <<>> /\ i \in todo
    /\ bits \subseteq iod[i].watched \cup {"x"}
    /\ Engine = "poll" => /\ i = Min(todo)
                          /\ iod[i].pending = 0 \/ ~iod[i].registered => bits = {}
    /\ Commit(Push(View, ProcFrame(View, i, 1, bits)))
    /\ todo' = todo \ {i}
    /\ UNCHANGED <<serials, allocated, phase, stale, fatal>>

InProc == stack # <<>> /\ Top(View).kind = "iod"

\* The list has no more events of this iod, or they came after the walk began.
ListEnds(f) == OthersBegin(f) \/ PrevOf(View, f.cur) = f.last

ProcessOne(late) ==
    /\ InProc
    /\ LET f == Top(View)
           s == f.cur
       IN  /\ ~ListEnds(f)
           /\ late => ev[s].timeout
           /\ \E st \in process_event(View, s, f.bits, late) :
                 Commit(IF st.ev[s].done THEN event_dispatch_and_delete(st, s, TRUE, "iod")
                        ELSE SetTop(st, [f EXCEPT !.cur = NextOf(st, s)]))
    /\ UNCHANGED <<serials, allocated, phase, todo, stale, fatal>>

NextList ==
    /\ InProc
    /\ LET f == Top(View) IN
       /\ ListEnds(f) /\ f.at < 3
       /\ Commit(SetTop(View, ProcFrame(View, f.iod, f.at + 1, f.bits)))
    /\ UNCHANGED <<serials, allocated, phase, todo, stale, fatal>>

\* An iod that was deleted goes to the free list when its visit ends.
VisitEnds ==
    /\ InProc
    /\ LET i == Top(View).iod IN
       /\ ListEnds(Top(View)) /\ Top(View).at = 3
       /\ Commit([Pop(View) EXCEPT !.iod[i].state = IF @ = "deleted" THEN "free" ELSE @])
    /\ UNCHANGED <<serials, allocated, phase, todo, stale, fatal>>

IodsDone ==
    /\ phase = "iods" /\ stack = <<>> /\ todo = {}
    /\ phase' = "expired"
    /\ UNCHANGED <<ev, list, expirables, iod, events_pending, outcome, stack, serials, allocated,
                   todo, stale, fatal>>

MayExpire(s) == phase = "expired" /\ stack = <<>> /\ s \in expirables /\ ~ev[s].done

\* process_expired_events() finds the time of s over.
Expire(s) ==
    /\ MayExpire(s)
    /\ \E st \in process_event([View EXCEPT !.expirables = @ \ {s}], s, {}, TRUE) :
          Commit(event_dispatch_and_delete(st, s, TRUE, "expired"))
    /\ UNCHANGED <<serials, allocated, phase, todo, stale, fatal>>

RoundEnds ==
    /\ phase = "expired" /\ stack = <<>>
    /\ phase' = "client"
    /\ UNCHANGED <<ev, list, expirables, iod, events_pending, outcome, stack, serials, allocated,
                   todo, stale, fatal>>

-----------------------------------------------------------------------------
(* nsock_pool_delete(), called by the main program.  Handlers are told of    *)
(* the KILL and, as nsock.h demands, call the library no more.               *)

nsock_pool_delete ==
    /\ phase = "client" /\ stack = <<>> /\ ~fatal
    /\ phase' = "kill"
    /\ UNCHANGED <<ev, list, expirables, iod, events_pending, outcome, stack, serials, allocated,
                   todo, stale, fatal>>

Told(st, s) ==
    [st EXCEPT !.ev[s] = [st.ev[s] EXCEPT !.status = "KILL", !.done = TRUE], !.outcome[ev[s].id] = "told"]

KillListed(k) ==
    /\ phase = "kill"
    /\ LET t == ListOrder[k]
           s == Head(list[t])
       IN  /\ list[t] # <<>> /\ \A j \in 1..(k - 1) : list[ListOrder[j]] = <<>>
           /\ Commit([Told(View, s) EXCEPT !.list[t] = Tail(@), !.iod[ev[s].iod].pending = @ - 1])
    /\ UNCHANGED <<serials, allocated, phase, todo, stale, fatal>>

KillExpirable(s) ==
    /\ phase = "kill" /\ \A t \in IoTypes : list[t] = <<>>
    /\ s \in expirables
    /\ LET popped == [View EXCEPT !.expirables = @ \ {s}] IN
       Commit(IF ev[s].type = "timer" THEN Release(Told(popped, s), s) ELSE popped)
    /\ UNCHANGED <<serials, allocated, phase, todo, stale, fatal>>

KillIods ==
    /\ phase = "kill" /\ expirables = {} /\ \A t \in IoTypes : list[t] = <<>>
    /\ fatal' = (\E i \in Iods : iod[i].state = "initial" /\ iod[i].pending > 0)
    /\ phase' = "deleted"
    /\ UNCHANGED <<ev, list, expirables, iod, events_pending, outcome, stack, serials, allocated,
                   todo, stale>>

Terminating == (phase = "deleted" \/ fatal) /\ UNCHANGED vars

-----------------------------------------------------------------------------

Init ==
    /\ client \in Clients
    /\ ev = [s \in Structs |-> [id |-> None, type |-> "timer", iod |-> None, done |-> TRUE,
                                status |-> "NONE", timeout |-> FALSE, desire |-> "none"]]
    /\ list = [t \in IoTypes \cup {"free"} |-> <<>>]
    /\ expirables = {} /\ events_pending = 0 /\ stack = <<>>
    /\ iod = [i \in Iods |-> [state |-> "initial", sd |-> i \in Opened, ssl |-> FALSE,
                              registered |-> FALSE, pending |-> 0, count |-> [b \in Bits |-> 0],
                              watched |-> {}, first |-> [t \in IoTypes |-> None]]]
    /\ outcome = [e \in Ids |-> "unused"]
    /\ serials = 0 /\ allocated = 0 /\ phase = "client" /\ todo = {} /\ stale = {} /\ fatal = FALSE

Client ==
    \/ \E type \in IoTypes, i \in Iods, timeout \in client.timeouts : StartIo(type, i, timeout)
    \/ nsock_timer_create
    \/ \E i \in Iods, sd \in BOOLEAN : ConnectFails(i, sd)
    \/ \E id \in Ids, notify \in BOOLEAN : nsock_event_cancel(id, notify)
    \/ \E i \in Iods, notify \in BOOLEAN : nsock_iod_delete(i, notify)

Library ==
    \/ DeleteStep \/ DeleteNextList \/ DeleteEnd
    \/ \E i \in Iods, bits \in (SUBSET Bits) \cup {{"x"}} : VisitIod(i, bits)
    \/ \E late \in BOOLEAN : ProcessOne(late)
    \/ NextList \/ VisitEnds \/ IodsDone
    \/ \E s \in Structs : Expire(s)
    \/ RoundEnds

Kill ==
    \/ \E k \in 1..3 : KillListed(k)
    \/ \E s \in Structs : KillExpirable(s)
    \/ KillIods

Next ==
    /\ Client \/ HandlerReturns \/ LoopRound \/ Library \/ nsock_pool_delete \/ Kill \/ Terminating
    /\ UNCHANGED client

Spec == Init /\ [][Next]_vars

\* The client runs nsock_loop() while events are pending, its handlers return, the library
\* goes on, and the clock reaches the timeout of every event: the weak fairness of Progress
\* and the strong fairness of Expire, with the conditions under which they are enabled
\* spelled out.
Running == ~fatal /\ (stack # <<>> \/ phase \in {"iods", "expired", "kill"} \/
                      (phase = "client" /\ events_pending > 0))
Progress == (LoopRound \/ HandlerReturns \/ Library \/ Kill) /\ UNCHANGED client

LiveSpec ==
    /\ Spec
    /\ <>[]Running => []<><<Progress>>_vars
    /\ \A s \in Structs : []<>MayExpire(s) => []<><<Expire(s)>>_vars

-----------------------------------------------------------------------------
(* Properties.                                                               *)

\* Every structure has its type; the counts that socket_count_read_dec() and
\* event_dispatch_and_delete() assert to be positive never drop below zero.
TypeOK ==
    /\ client \in Clients
    /\ ev \in [Structs -> Event] /\ iod \in [Iods -> Iod]
    /\ list \in [IoTypes \cup {"free"} -> Seq(Structs)]
    /\ expirables \subseteq Structs /\ events_pending \in Nat
    /\ outcome \in [Ids -> {"unused", "pending", "told", "silent"}]
    /\ serials \in 0..MaxEvents /\ allocated \in 0..MaxEvents
    /\ todo \subseteq Iods /\ stale \subseteq Iods /\ fatal \in BOOLEAN

Killing == phase \in {"kill", "deleted"}

Waiting(i, b) ==
    {s \in Structs : /\ ev[s].iod = i /\ ~ev[s].done
                     /\ CASE ev[s].type = "connect" -> IF ev[s].desire \in Bits THEN ev[s].desire = b
                                                       ELSE TRUE
                          [] OTHER -> IF iod[i].ssl THEN ev[s].desire = b
                                      ELSE (ev[s].type = "read") = (b = "r")}

\* "Each iod has a count of pending socket reads, socket writes" (nsock_core.c): the counts
\* kept by hand in the handle_*_result() functions are the numbers of events that wait, and
\* the engine watches a descriptor for exactly what some event waits for.  (Not so for the
\* client of SSL connects: one that ends while it waits to read leaves its count behind.)
CountsExact ==
    ~Ssl => \A i \in Iods : iod[i].state = "initial" /\ ~Killing => \A b \in Bits :
        /\ iod[i].count[b] = Cardinality(Waiting(i, b))
        /\ b \in iod[i].watched <=> iod[i].count[b] > 0

\* Where list t holds events of iod i.
Places(i, t) == {k \in DOMAIN list[t] : ev[list[t][k]].iod = i}

\* The lists that process_iod_events(), nsock_iod_delete() and nsock_event_cancel() walk:
\* each iod's events are together, first_* points to the first of them, no event is listed
\* twice, a struct on the free list is on no other and not in the heap, and an event that
\* has not ended can be found.  A finished event is in the heap only while its handler runs:
\* process_expired_events() stops at the first event that has not timed out, and one that
\* is done never does.
ListsExact ==
    /\ \A t \in DOMAIN list : Cardinality(ToSet(list[t])) = Len(list[t])
    /\ \A t \in IoTypes : ToSet(list[t]) \cap ToSet(list["free"]) = {}
    /\ expirables \cap ToSet(list["free"]) = {}
    /\ \A i \in Iods, t \in IoTypes :
          /\ ~Killing => iod[i].first[t] = (IF Places(i, t) = {} THEN None
                                            ELSE list[t][Min(Places(i, t))])
          /\ \A j, k \in Places(i, t) : j..k \subseteq Places(i, t)
    /\ \A id \in Ids : outcome[id] = "pending" => Cardinality(Found(id)) = 1
    /\ \A s \in expirables : ~Killing /\ ev[s].done =>
          \E k \in DOMAIN stack : stack[k].kind = "handler" /\ stack[k].ev = s

\* nsock_iod_delete() finds all events of the iod, and nsock_pool_delete() leaves none.
NoFatal == ~fatal

\* The library implements the abstract delivery of events: each handler is called once for
\* its event, whichever of the loop, a timeout, a cancellation or a deletion comes first,
\* and events_pending is right (nsock_pool_delete() no longer keeps it).
PendingIds == {id \in Ids : outcome[id] = "pending"}
Delivery == INSTANCE EventDelivery
    WITH pending <- IF Killing THEN Cardinality(PendingIds) ELSE events_pending
ImplementsDelivery == Delivery!Spec

\* "This nsi is already marked as deleted, will probably be removed from the list very soon"
\* (nsock_iod_delete): an iod that was deleted before a round of the engine began is free
\* when the round has visited the iods.
DeletedIodsFreed == phase = "expired" => \A i \in stale : iod[i].state = "free"

\* "User should never see this" (NSE_STATUS_NONE in nsock.h).
NeverNone == \A k \in DOMAIN stack : stack[k].kind = "handler" => stack[k].status # "NONE"

\* "NSOCK_PENDING_NOTIFY (send a KILL notification to each event)" (nsock_iod_delete).
DeletionKills ==
    \A k \in 2..Len(stack) :
        stack[k].kind = "handler" /\ stack[k - 1].kind = "delete" => stack[k].status = "KILL"

\* Every event that was given a timeout ends.
TimeoutsFire ==
    \A id \in Ids :
        (outcome[id] = "pending" /\ phase # "kill" /\ \E s \in Structs : ev[s].id = id /\ ev[s].timeout)
            ~> (outcome[id] # "pending")
=============================================================================
