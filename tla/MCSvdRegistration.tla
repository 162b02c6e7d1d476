------------------------- MODULE MCSvdRegistration -------------------------
(* Values for the constants of SvdRegistration. *)
EXTENDS SvdRegistration
CONSTANTS a1, a2, a3
ThreeAccounts == {a1, a2, a3}
TwoEnabled == {a1, a2}
=============================================================================
