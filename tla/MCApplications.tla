--------------------------- MODULE MCApplications ---------------------------
(***************************************************************************)
(* An instance of Applications for TLC: four applications, of which three   *)
(* may have grants, two name the same Microsoft tenant and one is assigned  *)
(* to a group.                                                              *)
(***************************************************************************)
EXTENDS Applications

CONSTANTS a1, a2, a3, a4, g1

MCApps == {a1, a2, a3, a4}
MCOAuthApps == {a1, a2, a3}
MCOffice == {a1, a4}
MCTenantOf == [a \in MCOffice |-> "contoso"]
MCAssigned == [a \in MCApps |-> IF a = a1 THEN {g1} ELSE {}]
=============================================================================
