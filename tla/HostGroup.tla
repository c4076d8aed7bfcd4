----------------------------- MODULE HostGroup ------------------------------
(***************************************************************************)
(* How nmap_main() turns target specifications into groups of hosts to     *)
(* scan (targets.cc, NewTargets.cc, nmap.cc): nexthost() reads batches and *)
(* finds out which hosts are up; a host that does not go with the others   *)
(* is deferred to a later batch or returned to the next group; scripts add *)
(* targets; a scan that was cut off is resumed from its log file.          *)
(*                                                                         *)
(* Each target specification is taken to be one address: -iR, the only     *)
(* option with a limit on the number of hosts, gives them one at a time.   *)
(* Kind[a] stands for the interface, the source address and whether a is   *)
(* directly connected.                                                     *)
(***************************************************************************)
EXTENDS Naturals, Sequences, FiniteSets, FiniteSetsExt, SequencesExt

CONSTANTS
    Specs,              \* the addresses specified, in order
    Kind,
    Skipped,            \* addresses that are excluded or have no route
    NewAddrs,           \* addresses that scripts may add
    RawScan,            \* raw packets are sent: groups must be homogeneous
    Randomize,          \* --randomize-hosts
    Verbose,            \* hosts that are down are in the log too
    OnlyDiscover,       \* no port scan, traceroute or scripts
    BatchSize,          \* max_batch_sz
    GroupSizes,         \* what determineScanGroupSize() may give
    DeferLimit,
    MaxIps,             \* o.max_ips_to_scan, 0 for no limit
    MaxCrashes

NoAddr == "none"
Addrs == ToSet(Specs) \cup NewAddrs

ASSUME HostGroupAssumption ==
    /\ Specs \in Seq(ToSet(Specs))
    /\ Addrs \subseteq DOMAIN Kind /\ NoAddr \notin Addrs
    /\ {RawScan, Randomize, Verbose, OnlyDiscover} \subseteq BOOLEAN
    /\ BatchSize \in Nat \ {0} /\ DeferLimit \in Nat \ {0}
    /\ GroupSizes \subseteq Nat \ {0} /\ GroupSizes # {}
    /\ MaxIps \in Nat /\ MaxCrashes \in Nat

VARIABLES
    phase,          \* "group", "gather", "fill", "scan", "report" or "over"
    taken,          \* how many of Specs were taken
    resume,         \* o.resume_ip
    newTargets,     \* NewTargets: its queue and its history
    batch,          \* hostbatch: the addresses, and which of them are up
    nextNo,         \* next_batch_no: how many were handed out
    deferBuffer,
    undeferred,
    targets,        \* Targets, the group
    ideal,          \* ideal_scan_group_sz
    numScanned,     \* o.numhosts_scanned
    numUp,          \* o.numhosts_up
    lastLogged,     \* the address of the last host in the log file
    crashes,
    decided,        \* how often each address was found down or was reported
    decidedUp       \* how many of these were up, in this run of nmap

fillVars == <<taken, resume, newTargets, batch, nextNo, deferBuffer, undeferred>>
groupVars == <<targets, ideal, numScanned, numUp, lastLogged, crashes, decided, decidedUp>>
vars == <<phase, fillVars, groupVars>>

TypeOK ==
    /\ phase \in {"group", "gather", "fill", "scan", "report", "over"}
    /\ taken \in 0..Len(Specs) /\ resume \in Addrs \cup {NoAddr}
    /\ newTargets \in [queue : Seq(NewAddrs), history : SUBSET NewAddrs]
    /\ batch \in [addrs : Seq(Addrs), up : SUBSET (1..BatchSize)]
    /\ batch.up \subseteq DOMAIN batch.addrs
    /\ nextNo \in 0..Len(batch.addrs)
    /\ deferBuffer \in Seq(Addrs) /\ undeferred \in Seq(Addrs)
    /\ targets \in Seq(Addrs) /\ ideal \in Nat
    /\ numScanned \in Nat /\ numUp \in Nat
    /\ lastLogged \in Addrs \cup {NoAddr} /\ crashes \in 0..MaxCrashes
    /\ decided \in [Addrs -> Nat] /\ decidedUp \in Nat

Fresh ==
    /\ phase' = "group" /\ taken' = 0
    /\ newTargets' = [queue |-> <<>>, history |-> {}]
    /\ batch' = [addrs |-> <<>>, up |-> {}] /\ nextNo' = 0
    /\ deferBuffer' = <<>> /\ undeferred' = <<>>
    /\ targets' = <<>> /\ ideal' = 0 /\ numScanned' = 0 /\ numUp' = 0 /\ decidedUp' = 0

Init ==
    /\ phase = "group" /\ taken = 0
    /\ newTargets = [queue |-> <<>>, history |-> {}]
    /\ batch = [addrs |-> <<>>, up |-> {}] /\ nextNo = 0
    /\ deferBuffer = <<>> /\ undeferred = <<>>
    /\ targets = <<>> /\ ideal = 0 /\ numScanned = 0 /\ numUp = 0 /\ decidedUp = 0
    /\ resume = NoAddr /\ lastLogged = NoAddr /\ crashes = 0
    /\ decided = [a \in Addrs |-> 0]

\* a host is compared with the first one of the group only
target_needs_new_hostgroup_First(group, a) ==
    /\ group # <<>> /\ RawScan
    /\ Kind[group[1]] # Kind[a] \/ group[1] = a

target_needs_new_hostgroup(group, a) ==
    /\ group # <<>> /\ RawScan
    /\ Kind[group[1]] # Kind[a] \/ a \in ToSet(group)

---------------------------------------------------------------------------
(* refresh_hostbatch().                                                    *)

Refresh ==
    /\ phase = "gather" /\ Len(targets) < ideal /\ nextNo = Len(batch.addrs)
    /\ phase' = "fill"
    /\ batch' = [addrs |-> <<>>, up |-> {}] /\ nextNo' = 0
    /\ undeferred' = undeferred \o deferBuffer /\ deferBuffer' = <<>>
    /\ UNCHANGED <<taken, resume, newTargets, groupVars>>

(* The batch is pinged, arpping() or massping(): any of the hosts may be   *)
(* up. It may be shuffled before that.                                     *)
Ping(addrs) ==
    LET n == Len(addrs)
        orders == IF Randomize THEN {f \in [1..n -> 1..n] : IsInjective(f)}
                  ELSE {[i \in 1..n |-> i]}
    IN  \E order \in orders, up \in SUBSET (1..n) :
            batch' = [addrs |-> [i \in 1..n |-> addrs[order[i]]], up |-> up]

(* The address becomes a member of the batch, or is deferred; the batch is *)
(* complete when it or the defer buffer is full.                           *)
Place(a) ==
    LET away == target_needs_new_hostgroup(batch.addrs, a)
        addrs == IF away THEN batch.addrs ELSE Append(batch.addrs, a)
        deferred == IF away THEN Append(deferBuffer, a) ELSE deferBuffer
        full == Len(addrs) = BatchSize \/ (away /\ Len(deferred) >= DeferLimit)
    IN  /\ phase' = IF full THEN "gather" ELSE "fill"
        /\ deferBuffer' = deferred
        /\ IF full THEN Ping(addrs) ELSE batch' = [batch EXCEPT !.addrs = addrs]

(* next_target(): first those deferred before.                             *)
TakeUndeferred ==
    /\ phase = "fill" /\ undeferred # <<>>
    /\ undeferred' = Tail(undeferred)
    /\ Place(Head(undeferred))
    /\ UNCHANGED <<taken, resume, newTargets, nextNo, groupVars>>

MayTake == MaxIps = 0 \/ numScanned + Len(batch.addrs) < MaxIps

(* An address that is new: passed over when it comes before the one to     *)
(* resume at, or is excluded, or there is no route to it.                  *)
Consider(a) ==
    /\ resume' = IF a = resume THEN NoAddr ELSE resume
    /\ IF resume # NoAddr \/ a \in Skipped
       THEN UNCHANGED <<phase, batch, deferBuffer>>
       ELSE Place(a)
    /\ UNCHANGED <<nextNo, undeferred, groupVars>>

TakeSpec ==
    /\ phase = "fill" /\ undeferred = <<>>
    /\ MayTake /\ taken < Len(Specs)
    /\ taken' = taken + 1
    /\ Consider(Specs[taken + 1])
    /\ UNCHANGED newTargets

TakeNew ==
    /\ phase = "fill" /\ undeferred = <<>>
    /\ ~(MayTake /\ taken < Len(Specs))
    /\ newTargets.queue # <<>>
    /\ newTargets' = [newTargets EXCEPT !.queue = Tail(@)]
    /\ Consider(Head(newTargets.queue))
    /\ UNCHANGED taken

NoMoreTargets == undeferred = <<>> /\ ~(MayTake /\ taken < Len(Specs)) /\ newTargets.queue = <<>>

(* The batch is what there is, and if it is empty the group is complete.   *)
EndFill ==
    /\ phase = "fill" /\ NoMoreTargets
    /\ phase' = IF batch.addrs = <<>> THEN "scan" ELSE "gather"
    /\ Ping(batch.addrs)
    /\ UNCHANGED <<taken, resume, newTargets, nextNo, deferBuffer, undeferred, groupVars>>

---------------------------------------------------------------------------
(* nmap_main().                                                            *)

StartGroup(g) ==
    /\ phase = "group"
    /\ ideal' = IF MaxIps > 0 THEN Min({g, MaxIps - numScanned}) ELSE g
    /\ phase' = "gather"
    /\ UNCHANGED <<fillVars, targets, numScanned, numUp, lastLogged, crashes, decided, decidedUp>>

(* The host is done with: it is down, or its state is all that is asked.   *)
Dispose(a, up) ==
    /\ nextNo' = nextNo + 1
    /\ numScanned' = numScanned + 1
    /\ numUp' = numUp + (IF up THEN 1 ELSE 0)
    /\ decided' = [decided EXCEPT ![a] = @ + 1]
    /\ decidedUp' = decidedUp + (IF up THEN 1 ELSE 0)
    /\ lastLogged' = IF up \/ Verbose THEN a ELSE lastLogged
    /\ phase' = IF MaxIps = 0 \/ MaxIps > numScanned + 1 + Len(targets) THEN "gather" ELSE "scan"
    /\ UNCHANGED <<targets, ideal, crashes>>

\* a host that is returned is lost
ReturnHost_Lost ==
    /\ phase' = "scan"
    /\ nextNo' = nextNo + 1
    /\ UNCHANGED groupVars

(* returnhost(): the host is kept for the next group.                      *)
ReturnHost ==
    /\ phase' = "scan"
    /\ UNCHANGED <<nextNo, groupVars>>

AddHost(a) ==
    /\ nextNo' = nextNo + 1
    /\ targets' = Append(targets, a)
    /\ numUp' = numUp + 1
    /\ UNCHANGED <<phase, ideal, numScanned, lastLogged, crashes, decided, decidedUp>>

Gather ==
    LET a == batch.addrs[nextNo + 1]
        up == nextNo + 1 \in batch.up
    IN  /\ phase = "gather" /\ Len(targets) < ideal /\ nextNo < Len(batch.addrs)
        /\ IF ~up \/ OnlyDiscover THEN Dispose(a, up)
           ELSE IF target_needs_new_hostgroup(targets, a) THEN ReturnHost
           ELSE AddHost(a)
        /\ UNCHANGED <<taken, resume, newTargets, batch, deferBuffer, undeferred>>

GroupFull ==
    /\ phase = "gather" /\ Len(targets) >= ideal
    /\ phase' = "scan"
    /\ UNCHANGED <<fillVars, groupVars>>

(* The scans of the group, the scripts among them.                         *)
Scan ==
    /\ phase = "scan"
    /\ phase' = IF targets = <<>> THEN "over" ELSE "report"
    /\ UNCHANGED <<fillVars, groupVars>>

(* NewTargets::insert(), by a script.                                      *)
AddTarget(a) ==
    /\ phase = "scan" /\ targets # <<>>
    /\ a \notin newTargets.history
    /\ newTargets' = [queue |-> Append(newTargets.queue, a), history |-> newTargets.history \cup {a}]
    /\ UNCHANGED <<phase, taken, resume, batch, nextNo, deferBuffer, undeferred, groupVars>>

(* The output for one host, which is counted as scanned. The code adds the *)
(* whole group when all are reported; nothing reads the number before.     *)
Report ==
    /\ phase = "report" /\ targets # <<>>
    /\ LET a == Head(targets)
       IN  /\ lastLogged' = a
           /\ decided' = [decided EXCEPT ![a] = @ + 1]
    /\ decidedUp' = decidedUp + 1
    /\ targets' = Tail(targets)
    /\ numScanned' = numScanned + 1
    /\ phase' = IF Len(targets) > 1 THEN "report"
                ELSE IF MaxIps = 0 \/ MaxIps > numScanned + 1 THEN "group" ELSE "over"
    /\ UNCHANGED <<fillVars, ideal, numUp, crashes>>

(* Nmap is killed, and started again with --resume.                        *)
Crash ==
    /\ phase # "over" /\ crashes < MaxCrashes
    /\ crashes' = crashes + 1
    /\ Fresh
    /\ resume' = lastLogged
    /\ UNCHANGED <<lastLogged, decided>>

Over == phase = "over" /\ UNCHANGED vars

Next ==
    \/ Refresh \/ TakeUndeferred \/ TakeSpec \/ TakeNew \/ EndFill
    \/ \E g \in GroupSizes : StartGroup(g)
    \/ Gather \/ GroupFull \/ Scan \/ Report \/ Crash \/ Over
    \/ \E a \in NewAddrs : AddTarget(a)

Spec == Init /\ [][Next]_vars

(* Nmap goes on; a script asks for a new target only finitely often.       *)
FairSpec == Spec /\ WF_vars(Next)

---------------------------------------------------------------------------
(* Properties.                                                             *)

Occurrences(a, s) == Cardinality({i \in DOMAIN s : s[i] = a})

(* When nmap ends, each target that was specified or added by a script was *)
(* decided as often as it was asked for: none was lost or scanned twice on *)
(* its way through the batches, the defer buffer and returnhost().  (After *)
(* a crash, hosts that were not yet logged are scanned again.)             *)
EveryHostOnce ==
    phase = "over" /\ crashes = 0 =>
        \A a \in Addrs \ Skipped :
            decided[a] = Occurrences(a, Specs) + (IF a \in newTargets.history THEN 1 ELSE 0)

(* The hosts of a group use one interface and source address and have      *)
(* different addresses, although a group is gathered from several batches: *)
(* ultra_scan() looks hosts up by their addresses.                         *)
Homogeneous(s) ==
    \A i, j \in DOMAIN s : i # j => Kind[s[i]] = Kind[s[j]] /\ s[i] # s[j]
GroupsHomogeneous == RawScan => Homogeneous(targets) /\ Homogeneous(batch.addrs)

(* The number of hosts that are up is that of the hosts decided or in the  *)
(* group: a host that is returned and handed out again counts once.        *)
NumUpExact == numUp = decidedUp + Len(targets)

(* No more than DeferLimit hosts wait in the two lists of deferred hosts.  *)
DeferBounded == Len(deferBuffer) + Len(undeferred) <= DeferLimit

(* The groups of one run are right in these three ways.                    *)
GroupsRight == GroupsHomogeneous /\ NumUpExact /\ DeferBounded

(* A scan that is killed and resumed decides every host at least once.     *)
ResumeMissesNone ==
    phase = "over" => \A a \in ToSet(Specs) \ Skipped : decided[a] > 0

(* -iR n: when nmap ends it has scanned n hosts.                           *)
ScansMaxIps == phase = "over" /\ MaxIps \in 1..Len(Specs) => numScanned = MaxIps

(* Nmap comes to an end: deferred hosts get their turn.                    *)
ScanEnds == <>(phase = "over")
=============================================================================
