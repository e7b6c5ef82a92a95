--------------------------- MODULE MCFactorClaims ---------------------------
(***************************************************************************)
(* An instance of FactorClaims for TLC: u1 has a role and is in both admin  *)
(* groups; u2, who has no factors, is in one of them; u3 is only in a group *)
(* without privileges.                                                      *)
(***************************************************************************)
EXTENDS FactorClaims

CONSTANTS u1, u2, u3, admins, helpdesk, staff, f1, f2

MCUsers == {u1, u2, u3}
MCMembers ==
  [g \in {admins, helpdesk, staff} |->
     IF g = admins THEN {u1, u2} ELSE IF g = helpdesk THEN {u1} ELSE {u2, u3}]
MCEnrolled == [u \in MCUsers |-> IF u = u2 THEN {} ELSE {f1, f2}]
=============================================================================
