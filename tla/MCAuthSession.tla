--------------------------- MODULE MCAuthSession ---------------------------
(* A small instance of AuthSession: one account inside and one outside the *)
(* allowed organisation.                                                   *)
EXTENDS AuthSession, TLC

CONSTANTS alice, bob, acme

MCUsers == {alice, bob}
MCOrgs == {acme}
MCOrgsOf == alice :> {acme} @@ bob :> {}
MCSymmetry == Permutations(Ids) \cup Permutations(Reqs) \cup Permutations(Codes)
=============================================================================
