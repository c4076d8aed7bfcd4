---------------------------- MODULE MCHostGroup -----------------------------
(***************************************************************************)
(* Instances of HostGroup: addresses on one or two interfaces, some of     *)
(* them specified twice.                                                   *)
(***************************************************************************)
EXTENDS HostGroup, TLC

CONSTANTS addr1, addr2, addr3, addr4, addr5

Kinds == (addr1 :> 1) @@ (addr2 :> 2) @@ (addr3 :> 1) @@ (addr4 :> 2) @@ (addr5 :> 1)
OneKind == [x \in DOMAIN Kinds |-> 1]

Mixed == <<addr1, addr2, addr4, addr4, addr3, addr1>>
Plain == <<addr1, addr2, addr3, addr4>>
=============================================================================
