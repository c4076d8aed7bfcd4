---------------------------- MODULE RttEstimator ----------------------------
(***************************************************************************)
(* The round-trip time estimator of timing.cc, with its numbers: it takes  *)
(* the times of the answers, in microseconds, and sets the time to wait    *)
(* for the next one.  Right shifts of negative numbers round down, as they *)
(* do in every build.                                                      *)
(***************************************************************************)
EXTENDS Integers

CONSTANTS
    InitialRtt, MinRtt, MaxRtt,     \* o.initialRttTimeout() and its bounds, in microseconds
    ScanDelay,                      \* o.scan_delay in microseconds, 0 if there is none
    FirstDeltas,                    \* times the first answer may seem to have taken
    Deltas,                         \* times later answers may
    MaxReplies                      \* bound on the answers

RttAssumption ==
    /\ MinRtt \in Nat \ {0} /\ MaxRtt \in Nat /\ MinRtt <= MaxRtt /\ InitialRtt \in MinRtt..MaxRtt
    /\ ScanDelay \in Nat /\ FirstDeltas \subseteq Int /\ Deltas \subseteq Int /\ MaxReplies \in Nat

VARIABLES srtt, rttvar, timeout, replies

vars == <<srtt, rttvar, timeout, replies>>

Unset == -1
Larger(a, b) == IF a > b THEN a ELSE b
Smaller(a, b) == IF a < b THEN a ELSE b
Abs(a) == IF a < 0 THEN -a ELSE a

Init == srtt = Unset /\ rttvar = Unset /\ timeout = InitialRtt /\ replies = 0

\* A packet may seem to be received a little before it was sent.
Adjusted(delta) == IF delta < 0 /\ delta > -50000 THEN 10000 ELSE delta

Boxed_First(t) == Larger(MinRtt, Smaller(MaxRtt, Larger(t, ScanDelay)))

\* The end of adjust_timeouts2(), with its box().
Boxed(t) == Larger(Larger(MinRtt, Smaller(MaxRtt, t)), ScanDelay)

Estimate(s, v) ==
    /\ srtt' = s /\ rttvar' = IF v > 2300000 THEN 2000000 ELSE v
    /\ timeout' = Boxed(s + 4 * v)

First ==
    /\ replies < MaxReplies /\ srtt = Unset /\ rttvar = Unset
    /\ \E d \in FirstDeltas :
          LET delta == Adjusted(d)
          IN  Estimate(delta, Larger(5000, Smaller(delta, 2000000)))
    /\ replies' = replies + 1

Implausible(delta) == delta >= 8000000 \/ delta < 0
Bogus(rttdelta) == rttdelta > 1500000 /\ rttdelta > 3 * srtt + 2 * rttvar

Later ==
    /\ replies < MaxReplies /\ ~(srtt = Unset /\ rttvar = Unset)
    /\ \E d \in Deltas :
          LET delta == Adjusted(d)
              rttdelta == delta - srtt
          IN  IF Implausible(delta) \/ Bogus(rttdelta)
              THEN UNCHANGED <<srtt, rttvar, timeout>>
              ELSE Estimate(srtt + rttdelta \div 8, rttvar + (Abs(rttdelta) - rttvar) \div 4)
    /\ replies' = replies + 1

Done == replies = MaxReplies /\ UNCHANGED vars

Next == First \/ Later \/ Done
Spec == Init /\ [][Next]_vars

-----------------------------------------------------------------------------

\* "Serious time computation problem in adjust_timeout" (the check at the end of
\* adjust_timeouts2()): no estimate is negative once there is one.
EstimatesPositive == replies > 0 => srtt >= 0 /\ rttvar >= 0 /\ timeout >= 0

\* Whatever the answers, a probe waits at least the configured minimum and the scan delay,
\* and no longer than the maximum unless the delay demands it.
TimeoutBounded ==
    /\ timeout >= MinRtt /\ timeout <= Larger(MaxRtt, ScanDelay)
    /\ replies > 0 => timeout >= ScanDelay

\* An estimate that has started from a plausible time stays plausible, and the variation
\* stays below its limit, whatever the clocks of later packets say.
EstimatePlausible ==
    replies > 0 => srtt \in 0..7999999 /\ rttvar \in 0..2300000
=============================================================================
