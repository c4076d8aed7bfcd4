---------------------------- MODULE MCUltraScan ----------------------------
(* Model-checking instances of UltraScan: hosts and ports are model values. *)
EXTENDS UltraScan, TLC

CONSTANTS h1, h2, h3, q1, q2, q3

OneHost == {h1}
TwoHosts == {h1, h2}
ThreeHosts == {h1, h2, h3}
OnePort == {q1}
TwoPorts == {q1, q2}
ThreePorts == {q1, q2, q3}

\* The target is fresh, or host discovery has already found a pingprobe for it.
NoStartPings == {NoPing}
PingFound == {NoPing} \cup [port: Ports, state: {"unknown"}]

Symmetry == Permutations(Hosts) \cup Permutations(Ports)
=============================================================================
