------------------------------ MODULE IdleScan ------------------------------
(***************************************************************************)
(* The idle scan (idle_scan.cc): the number of open ports in a range is    *)
(* read off the IP ID counter of a third host, and idle_treescan() halves  *)
(* the range until the counts are about single ports. A count that does    *)
(* not fit is made again.                                                  *)
(*                                                                         *)
(* The proxy's counter grows by one with each packet the proxy sends: the  *)
(* answer to one of our probes, or the RST it sends to the target for an   *)
(* open port. Faults, at most MaxFaults: a packet the proxy sends to       *)
(* somebody else, a SYN or its answer lost, a probe of the proxy or its    *)
(* answer lost, and an RST that comes after the last probe of its count.   *)
(* Timing is left out: the size of a group is any of GroupSizes, a probe   *)
(* may be skipped as too soon, and what was late comes during a sleep().   *)
(***************************************************************************)
EXTENDS Integers, Sequences, FiniteSets, FiniteSetsExt, SequencesExt

CONSTANTS
    NumPorts,           \* the ports are 1..NumPorts
    GroupSizes,         \* what twice current_groupsz may be
    Faults,             \* kinds of faults: "noise", "syn", "probe", "late"
    MaxFaults,
    MaxRounds,          \* counts before idlescan_countopen() gives up
    IdModulus,          \* the width of an IP ID
    FirstId             \* proxy->latestid after initialize_idleproxy()

Ports == 1..NumPorts

IdleScanAssumption ==
    /\ NumPorts \in Nat \ {0} /\ GroupSizes \subseteq Nat \ {0} /\ GroupSizes # {}
    /\ Faults \subseteq {"noise", "syn", "probe", "late"} /\ MaxFaults \in Nat
    /\ MaxRounds \in Nat \ {0}
    /\ IdModulus \in Nat \ {0} /\ FirstId \in 0..(IdModulus - 1)

VARIABLES
    open,       \* the ports that are open on the target
    portidx,    \* how many ports are in the groups begun so far
    stack,      \* the calls of idle_treescan(), the innermost one first
    count,      \* the call of idlescan_countopen(), or NoCount
    latestid,   \* proxy->latestid
    id,         \* the proxy's IP ID counter
    inflight,   \* open ports whose RST is still to be sent by the proxy
    marked,     \* the ports that were set to PORT_OPEN
    faults,     \* faults that have happened
    outcome     \* "scanning", "done" or "fatal"

proxyVars == <<latestid, id, inflight, faults>>
vars == <<open, portidx, stack, count, marked, outcome, proxyVars>>

NoCount == [n |-> -1]
Counted == -1..NumPorts
Frame == [lo : Ports, n : Ports, expected : Counted,
          pc : {"c1", "d1", "c2", "d2", "r1", "t1", "r2", "t2", "end"},
          flat1 : Counted, flat2 : Counted, deep1 : Counted, deep2 : Counted]
Ids == 0..(IdModulus - 1)
Count == [range : SUBSET Ports, n : 0..NumPorts, pc : {"send", "try", "end"},
          round : 1..MaxRounds, tries : 0..4, dotry3 : BOOLEAN, sent : 0..12,
          openports : Int, newipid : Ids \cup {-1}]

TypeOK ==
    /\ open \subseteq Ports /\ marked \subseteq Ports /\ portidx \in 0..NumPorts
    /\ stack \in Seq(Frame) /\ count \in Count \cup {NoCount}
    /\ latestid \in Ids \cup {-1} /\ id \in Ids /\ inflight \in Nat
    /\ faults \in 0..MaxFaults /\ outcome \in {"scanning", "done", "fatal"}

Init ==
    /\ open \in SUBSET Ports /\ marked = {} /\ portidx = 0
    /\ stack = <<>> /\ count = NoCount /\ inflight = 0
    /\ latestid = FirstId /\ id = FirstId
    /\ faults = 0 /\ outcome = "scanning"

---------------------------------------------------------------------------
(* The network and the proxy.                                              *)

Plus(i, k) == (i + k) % IdModulus

(* k more faults of a kind.                                                *)
Fault(kind, k) ==
    /\ k = 0 \/ (kind \in Faults /\ faults + k <= MaxFaults)
    /\ faults' = faults + k

(* The proxy gets a SYN/ACK of the target that it did not ask for.         *)
ProxyResets ==
    /\ outcome = "scanning"
    /\ inflight > 0 /\ inflight' = inflight - 1
    /\ id' = Plus(id, 1)
    /\ UNCHANGED <<open, portidx, stack, count, latestid, marked, faults, outcome>>

Noise ==
    /\ outcome = "scanning"
    /\ Fault("noise", 1)
    /\ id' = Plus(id, 1)
    /\ UNCHANGED <<open, portidx, stack, count, latestid, inflight, marked, outcome>>

(* ipid_proxy_probe(): at most 3 tries are sent, the proxy answers rise of *)
(* them, and the result is the IP ID of the answer that came, or -1.       *)
ProbeOutcomes ==
    {p \in [sent : 1..3, rise : 0..3, got : BOOLEAN] :
        /\ p.rise <= p.sent
        /\ IF p.got THEN p.rise > 0 ELSE p.sent = 3}
ipid_proxy_probe(p) == id' = Plus(id, p.rise)
Lost(p) == IF p.got THEN p.sent - 1 ELSE p.sent
NewId(p) == IF p.got THEN Plus(id, p.rise) ELSE -1

(* ipid_distance() of the class IPID_SEQ_INCR: a difference, not modulo    *)
(* the width. A latestid of -1 is 2^32 - 1, the difference endid + 1.      *)
ipid_distance(startid, endid) == endid - startid

---------------------------------------------------------------------------
(* idlescan_countopen(), with idlescan_countopen2() inlined.               *)

First(f) == (f.n + 1) \div 2
Second(f) == f.n - First(f)
RangeOf(f) == IF f.pc \in {"c1", "r1"} THEN f.lo..(f.lo + First(f) - 1)
              ELSE (f.lo + First(f))..(f.lo + f.n - 1)

idlescan_countopen ==
    /\ outcome = "scanning" /\ stack # <<>> /\ count = NoCount
    /\ Head(stack).pc \in {"c1", "c2", "r1", "r2"}
    /\ LET range == RangeOf(Head(stack))
       IN  count' = [range |-> range, n |-> Cardinality(range), pc |-> "send", round |-> 1,
                     tries |-> 0, dotry3 |-> FALSE, sent |-> 0, openports |-> -1, newipid |-> 0]
    /\ UNCHANGED <<open, portidx, stack, marked, outcome, proxyVars>>

(* The SYNs to the ports of the range. Those to open ports make the target *)
(* answer the proxy, but for those that are lost.                          *)
SendSyns(lost) ==
    /\ count.pc = "send"
    /\ lost <= Cardinality(count.range \cap open) /\ Fault("syn", lost)
    /\ inflight' = inflight + Cardinality(count.range \cap open) - lost
    /\ count' = [count EXCEPT !.pc = "try", !.tries = 0, !.dotry3 = FALSE, !.sent = 0,
                              !.openports = -1, !.newipid = 0]
    /\ UNCHANGED <<open, portidx, stack, latestid, id, marked, outcome>>

(* Before the third try it is drawn whether there will be a fourth.        *)
Draws == IF count.tries = 2 THEN BOOLEAN ELSE {count.dotry3}
lasttry(dotry3) == count.tries = 3 \/ (count.tries = 2 /\ ~dotry3)

SkipTry(dotry3) ==
    /\ count.pc = "try" /\ ~lasttry(dotry3) /\ count.sent > 0
    /\ count' = [count EXCEPT !.tries = @ + 1, !.dotry3 = dotry3]
    /\ UNCHANGED <<open, portidx, stack, marked, outcome, proxyVars>>

(* One try: the highest count seen is kept.                                *)
Try(dotry3, p) ==
    LET sent == count.sent + p.sent
        dist == ipid_distance(latestid, NewId(p)) - sent
        found == IF NewId(p) > 0 /\ dist > count.openports THEN dist ELSE count.openports
        over == \/ lasttry(dotry3)
                \/ found > count.n
                \/ (count.n <= 2 /\ found = count.n)
    IN  /\ count.pc = "try"
        /\ IF lasttry(dotry3) /\ inflight > 0
           THEN p.sent = 1 /\ p.got /\ Fault("late", inflight)
           ELSE Fault("probe", Lost(p))
        /\ ipid_proxy_probe(p)
        /\ count' = [count EXCEPT !.tries = @ + 1, !.dotry3 = dotry3, !.sent = sent,
                                  !.newipid = NewId(p), !.openports = found,
                                  !.pc = IF over THEN "end" ELSE "try"]
        /\ UNCHANGED <<open, portidx, stack, latestid, inflight, marked, outcome>>

Latest == IF count.newipid > 0 THEN count.newipid ELSE latestid
Meaningful == count.openports \in 0..count.n

\* the count is made again as often as it takes, without reading latestid
Recount_NoLimit(p) ==
    /\ count.pc = "end" /\ ~Meaningful /\ inflight = 0
    /\ Fault("probe", Lost(p))
    /\ ipid_proxy_probe(p)
    /\ latestid' = latestid
    /\ count' = [count EXCEPT !.pc = "send"]
    /\ UNCHANGED <<open, portidx, stack, inflight, marked, outcome>>

(* A count that makes no sense: proxy->latestid is read again, also when   *)
(* that fails, and the count is made again.                                *)
Recount(p) ==
    /\ count.pc = "end" /\ ~Meaningful /\ count.round < MaxRounds /\ inflight = 0
    /\ Fault("probe", Lost(p))
    /\ ipid_proxy_probe(p)
    /\ latestid' = NewId(p)
    /\ count' = [count EXCEPT !.pc = "send", !.round = @ + 1]
    /\ UNCHANGED <<open, portidx, stack, inflight, marked, outcome>>

GiveUp ==
    /\ count.pc = "end" /\ ~Meaningful /\ count.round = MaxRounds
    /\ outcome' = "fatal"
    /\ latestid' = Latest
    /\ count' = NoCount
    /\ UNCHANGED <<open, portidx, stack, id, inflight, marked, faults>>

---------------------------------------------------------------------------
(* idle_treescan(): f is a call of it. The first half is counted (c1) and  *)
(* scanned deeper (d1), then the second (c2, d2). If the sum is not what   *)
(* the caller counted, a half that was not scanned deeper is counted again *)
(* (r1, r2) and, if that count is new, scanned deeper (t1, t2).            *)

idle_treescan(lo, n, expected) ==
    [lo |-> lo, n |-> n, expected |-> expected, pc |-> "c1",
     flat1 |-> 0, flat2 |-> 0, deep1 |-> -1, deep2 |-> -1]

Total(f) == (IF f.deep1 = -1 THEN f.flat1 ELSE f.deep1) + (IF f.deep2 = -1 THEN f.flat2 ELSE f.deep2)

AfterFirst(f) == [f EXCEPT !.pc = IF f.deep2 = -1 THEN "r2" ELSE "end"]

AfterBoth(f) ==
    IF Total(f) = f.expected THEN [f EXCEPT !.pc = "end"]
    ELSE IF f.deep1 = -1 THEN [f EXCEPT !.pc = "r1"]
    ELSE AfterFirst(f)

(* The half that f is about is to be scanned deeper, v being its count.    *)
Deeper(f, v) == v > 0 /\ (IF f.pc \in {"c1", "r1"} THEN First(f) ELSE Second(f)) > 1

\* the counts of the two halves are not compared with what was expected
AfterCount_Unchecked(f, v) ==
    CASE f.pc = "c1" -> [f EXCEPT !.flat1 = v, !.pc = IF Deeper(f, v) THEN "d1" ELSE "c2"]
      [] OTHER -> [f EXCEPT !.flat2 = v, !.pc = IF Deeper(f, v) THEN "d2" ELSE "end"]

AfterCount(f, v) ==
    CASE f.pc = "c1" -> [f EXCEPT !.flat1 = v, !.pc = IF Deeper(f, v) THEN "d1" ELSE "c2"]
      [] f.pc = "c2" /\ Deeper(f, v) -> [f EXCEPT !.flat2 = v, !.pc = "d2"]
      [] f.pc = "c2" /\ ~Deeper(f, v) -> AfterBoth([f EXCEPT !.flat2 = v])
      [] f.pc = "r1" /\ v # f.flat1 /\ Deeper(f, v) -> [f EXCEPT !.pc = "t1"]
      [] f.pc = "r1" /\ ~(v # f.flat1 /\ Deeper(f, v)) -> AfterFirst([f EXCEPT !.flat1 = v])
      [] f.pc = "r2" /\ v # f.flat2 /\ Deeper(f, v) -> [f EXCEPT !.pc = "t2"]
      [] f.pc = "r2" /\ ~(v # f.flat2 /\ Deeper(f, v)) -> [f EXCEPT !.flat2 = v, !.pc = "end"]

AfterCall(f, v) ==
    CASE f.pc = "d1" -> [f EXCEPT !.deep1 = v, !.pc = "c2"]
      [] f.pc = "d2" -> AfterBoth([f EXCEPT !.deep2 = v])
      [] f.pc = "t1" -> AfterFirst([f EXCEPT !.flat1 = v])
      [] f.pc = "t2" -> [f EXCEPT !.flat2 = v, !.pc = "end"]

EndCount ==
    LET f == Head(stack)
        g == AfterCount(f, count.openports)
    IN  /\ count.pc = "end" /\ Meaningful
        /\ stack' = (IF g.pc \in {"d1", "d2", "t1", "t2"}
                     THEN <<idle_treescan(Min(count.range), count.n, count.openports)>> ELSE <<>>)
                    \o <<g>> \o Tail(stack)
        /\ latestid' = Latest
        /\ count' = NoCount
        /\ UNCHANGED <<open, portidx, id, inflight, marked, faults, outcome>>

(* The single ports of f that were counted as open.                        *)
Singles(f) ==
    (IF First(f) = 1 /\ f.flat1 = 1 THEN {f.lo} ELSE {}) \cup
    (IF Second(f) = 1 /\ f.flat2 = 1 THEN {f.lo + First(f)} ELSE {})

Return ==
    LET f == Head(stack)
        callers == Tail(stack)
    IN  /\ outcome = "scanning" /\ stack # <<>> /\ f.pc = "end"
        /\ marked' = marked \cup Singles(f)
        /\ stack' = IF callers = <<>> THEN <<>>
                    ELSE <<AfterCall(Head(callers), Total(f))>> \o Tail(callers)
        /\ UNCHANGED <<open, portidx, count, outcome, proxyVars>>

---------------------------------------------------------------------------
(* idle_scan().                                                            *)

NextGroup(g) ==
    LET groupsz == Min({g, NumPorts - portidx})
    IN  /\ outcome = "scanning" /\ stack = <<>> /\ portidx < NumPorts
        /\ stack' = <<idle_treescan(portidx + 1, groupsz, -1)>>
        /\ portidx' = portidx + groupsz
        /\ UNCHANGED <<open, count, marked, outcome, proxyVars>>

Finish ==
    /\ outcome = "scanning" /\ stack = <<>> /\ portidx = NumPorts
    /\ outcome' = "done"
    /\ UNCHANGED <<open, portidx, stack, count, marked, proxyVars>>

Counting == count # NoCount

Over == outcome # "scanning" /\ UNCHANGED vars

Next ==
    \/ ProxyResets \/ Noise
    \/ idlescan_countopen
    \/ /\ Counting
       /\ \/ \E lost \in 0..NumPorts : SendSyns(lost)
          \/ \E dotry3 \in Draws : SkipTry(dotry3)
          \/ \E dotry3 \in Draws, p \in ProbeOutcomes : Try(dotry3, p)
          \/ \E p \in ProbeOutcomes : Recount(p)
          \/ GiveUp \/ EndCount
    \/ Return \/ Finish
    \/ \E g \in GroupSizes : NextGroup(g)
    \/ Over

Spec == Init /\ [][Next]_vars
FairSpec == Spec /\ WF_vars(Next)

---------------------------------------------------------------------------
(* Properties.                                                             *)

(* The scan, in spite of the faults, reports exactly the open ports, or    *)
(* gives up: one wrong count never reaches the port list, since the counts *)
(* of the halves then do not add up and are made again.                    *)
OpenExact == outcome = "done" => marked = open

(* What idle_treescan() returns is the number of ports that it has set to  *)
(* open, whatever counts it saw: no port is found and not reported.        *)
TotalIsMarked ==
    \A i \in DOMAIN stack :
        LET f == stack[i]
        IN  f.pc = "end" =>
              Total(f) = Cardinality((marked \cup Singles(f)) \cap f.lo..(f.lo + f.n - 1))

(* A count that is accepted without any fault is the number of open ports  *)
(* in the range, wherever the proxy's counter stands.                      *)
CountRight ==
    [][count # NoCount /\ count' = NoCount /\ faults = 0 /\ outcome' # "fatal"
         => count.openports = Cardinality(count.range \cap open)]_vars

(* The scan ends, with a result or giving up.                              *)
ScanEnds == <>(outcome # "scanning")
=============================================================================
