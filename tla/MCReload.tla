------------------------------ MODULE MCReload ------------------------------
(***************************************************************************)
(* Small instances of Reload: two admin requests and one unlocked reload   *)
(* on one client.                                                          *)
(***************************************************************************)
EXTENDS Reload, TLC

CONSTANTS a1, a2

MCAdmins == {a1, a2}
=============================================================================
