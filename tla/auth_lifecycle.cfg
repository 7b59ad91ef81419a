SPECIFICATION Spec
CONSTANTS
  Reqs = {r1, r2}
  Ids = {i1, i2}
  Codes = {c1}
  alice = alice
  bob = bob
  acme = acme
  Users <- MCUsers
  Orgs <- MCOrgs
  OrgsOf <- MCOrgsOf
  AllowedOrgs <- MCOrgs
  SessionTTL = 2
  StateTTL = 1
  StoreMayFail = TRUE
  MaxTime = 2
  MaxLogins = 1
  NoId = NoId
  NoHeader = NoHeader
  NoCode = NoCode
  NoUser = NoUser
  NoRec = NoRec
SYMMETRY MCSymmetry
INVARIANTS TypeOK KeyLifetime
PROPERTIES ImplementsLifecycle
