---------------------------- MODULE MCAuthLogout ----------------------------
(* The instance of MCAuthSession for AuthLogout. *)
EXTENDS AuthLogout, TLC

CONSTANTS alice, bob, acme

MCUsers == {alice, bob}
MCOrgs == {acme}
MCOrgsOf == alice :> {acme} @@ bob :> {}
=============================================================================
