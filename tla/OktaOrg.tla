------------------------------- MODULE OktaOrg -------------------------------
(***************************************************************************)
(* What the collectors of one Okta org have in common.                     *)
(***************************************************************************)

CONSTANT Apps  \* the applications of the org
=============================================================================
