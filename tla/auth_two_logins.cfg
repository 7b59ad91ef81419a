SPECIFICATION Spec
CONSTANTS
  Reqs = {r1, r2}
  Ids = {i1, i2, i3}
  Codes = {c1, c2}
  alice = alice
  bob = bob
  acme = acme
  Users <- MCUsers
  Orgs <- MCOrgs
  OrgsOf <- MCOrgsOf
  AllowedOrgs <- MCOrgs
  SessionTTL = 1
  StateTTL = 1
  StoreMayFail = TRUE
  MaxTime = 0
  MaxLogins = 2
  NoId = NoId
  NoHeader = NoHeader
  NoCode = NoCode
  NoUser = NoUser
  NoRec = NoRec
SYMMETRY MCSymmetry
INVARIANTS OwnerSignedIn OneSessionPerSignIn
PROPERTIES EndedStaysEnded
