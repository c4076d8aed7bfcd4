------------------------------ MODULE MCNsock ------------------------------
(***************************************************************************)
(* Clients of nsock: one that connects, reads, writes and sets timers on   *)
(* one iod, one that does so through SSL, and one that reads from two iods *)
(* whose events share a list and have no timeouts.                         *)
(***************************************************************************)
EXTENDS Nsock

Plain == [iods |-> {1}, opened |-> {}, kinds |-> {"connect", "read", "write", "timer"},
          timeouts |-> BOOLEAN, ssl |-> FALSE, engine |-> "poll", reentrant |-> FALSE]
Secure == [iods |-> {1}, opened |-> {}, kinds |-> {"connect", "read", "write"},
           timeouts |-> BOOLEAN, ssl |-> TRUE, engine |-> "epoll", reentrant |-> FALSE]
TwoIods == [iods |-> {1, 2}, opened |-> {1, 2}, kinds |-> {"read"},
            timeouts |-> {FALSE}, ssl |-> FALSE, engine |-> "poll", reentrant |-> FALSE]

AllClients == {Plain, Secure, TwoIods}
=============================================================================
