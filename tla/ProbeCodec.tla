----------------------------- MODULE ProbeCodec -----------------------------
(***************************************************************************)
(* How raw TCP probes and their answers find each other in                 *)
(* scan_engine_raw.cc: the try number or the ping number of a probe is     *)
(* encoded in its 16-bit source port, counted from a base port that moves  *)
(* with every ultra_scan(), or, when the user has set the source port, in  *)
(* its sequence number under a mask that is drawn for every ultra_scan().  *)
(* One host and one of its ports, over several scans; answers may be late. *)
(***************************************************************************)
EXTENDS Integers, FiniteSets

CONSTANTS
    tryno_cap,          \* the highest try number
    Trynos,             \* the try numbers that probes have
    PingSeqs,           \* the ping numbers that probes have
    FirstBases,         \* the base ports the first scan may draw
    MagicPort,          \* the values of o.magic_port_set
    MaxScans,           \* bound on the scans
    MaxProbes           \* bound on the probes outstanding

CodecAssumption ==
    /\ tryno_cap \in 0..255 /\ Trynos \subseteq 0..tryno_cap /\ PingSeqs \subseteq 1..255
    /\ FirstBases \subseteq 33000..65279 /\ MagicPort \subseteq BOOLEAN
    /\ MaxScans \in Nat /\ MaxProbes \in Nat

VARIABLES magic_port_set,   \* has the user set the source port?
          base_port,
          scan,         \* number of the current ultra_scan(), and its seqmask
          probes,       \* outstanding probes of the current scan
          wire,         \* answers under way, by the probes that caused them
          verdict       \* the last answer and the probes it was matched with

vars == <<magic_port_set, base_port, scan, probes, wire, verdict>>

u16(n) == n % 65536
NoVerdict == [cause |-> {}, late |-> FALSE, expected |-> FALSE, matched |-> {}]

\* Clamp n to the range [min, max) in a modular fashion.
mod_offset(n, min, max) == min + ((n - min) % (max - min))

increment_base_port(b) == mod_offset(b + 256, 33000, 65536 - 256)

sport_encode_NoCap(b, tryno, pingseq) == u16(b + (IF pingseq > 0 THEN pingseq ELSE tryno))

sport_encode(b, tryno, pingseq) ==
    u16(b + (IF pingseq > 0 THEN tryno_cap + pingseq ELSE tryno))

\* What sport_decode() stores.  It leaves both numbers zero when the port is out of range,
\* also when the encoding has wrapped around; tcp_probe_match() does not look at its result.
sport_decode(b, portno) ==
    LET t == portno - b
    IN  IF t < 0 \/ t > tryno_cap + 256 THEN [tryno |-> 0, pingseq |-> 0]
        ELSE IF t > tryno_cap THEN [tryno |-> 0, pingseq |-> t - tryno_cap]
        ELSE [tryno |-> t, pingseq |-> 0]

check_tryno_pingseq(probe, d) ==
    \/ d.pingseq = 0 /\ d.tryno = probe.tryno
    \/ d.pingseq > 0 /\ d.pingseq = probe.pingseq

\* tcp_probe_match(): with a fixed source port the numbers come back in the sequence number,
\* which decodes only under the mask it was encoded with.
tcp_probe_match(probe, answer) ==
    IF magic_port_set
    THEN answer.scan = scan /\ check_tryno_pingseq(probe, answer)
    ELSE probe.sport = answer.sport /\ check_tryno_pingseq(probe, sport_decode(base_port, answer.sport))

-----------------------------------------------------------------------------

Init ==
    /\ magic_port_set \in MagicPort /\ base_port \in FirstBases /\ scan = 1
    /\ probes = {} /\ wire = {} /\ verdict = NoVerdict

\* The next ultra_scan() begins; answers to the probes of the last one are still on their way.
ultra_scan ==
    /\ scan < MaxScans
    /\ scan' = scan + 1 /\ base_port' = increment_base_port(base_port)
    /\ probes' = {} /\ verdict' = NoVerdict
    /\ UNCHANGED <<magic_port_set, wire>>

\* sendIPScanProbe(): a probe has a try number or is a ping.
sendIPScanProbe(tryno, pingseq) ==
    LET probe == [sport |-> IF magic_port_set THEN 0 ELSE sport_encode(base_port, tryno, pingseq),
                  tryno |-> tryno, pingseq |-> pingseq, scan |-> scan]
    IN  /\ Cardinality(probes) < MaxProbes /\ probe \notin probes
        /\ probes' = probes \cup {probe} /\ wire' = wire \cup {probe}
        /\ verdict' = NoVerdict
        /\ UNCHANGED <<magic_port_set, base_port, scan>>

\* An answer arrives; the probe it is matched with first is done.
Answer(cause) ==
    /\ cause \in wire
    /\ LET matched == {p \in probes : tcp_probe_match(p, cause)} IN
       /\ verdict' = [cause |-> {cause}, late |-> cause.scan # scan, expected |-> cause \in probes,
                      matched |-> matched]
       /\ IF matched = {} THEN UNCHANGED probes ELSE \E p \in matched : probes' = probes \ {p}
    /\ wire' = wire \ {cause}
    /\ UNCHANGED <<magic_port_set, base_port, scan>>

\* An answer is lost, or its probe is given up.
Lose(cause) == cause \in wire /\ wire' = wire \ {cause} /\ UNCHANGED <<magic_port_set, base_port, scan, probes, verdict>>
GiveUp(p) == p \in probes /\ probes' = probes \ {p} /\ UNCHANGED <<magic_port_set, base_port, scan, wire, verdict>>

Next ==
    \/ ultra_scan
    \/ \E t \in Trynos : sendIPScanProbe(t, 0)
    \/ \E q \in PingSeqs : sendIPScanProbe(0, q)
    \/ \E c \in wire : Answer(c) \/ Lose(c)
    \/ \E p \in probes : GiveUp(p)

Spec == Init /\ [][Next]_vars

-----------------------------------------------------------------------------

\* An answer to a probe of this scan is matched with that probe and with no other, also when
\* the source port has wrapped around past 65535.
AnswersFindTheirProbe ==
    ~verdict.late => verdict.matched = (IF verdict.expected THEN verdict.cause ELSE {})

\* "To avoid interpreting a late response from a previous invocation of ultra_scan as a
\* response for the same port in the current invocation, we increase base_port by a healthy
\* amount" (scan_engine_raw.cc).
LateAnswersRejected == verdict.late => verdict.matched = {}
=============================================================================
