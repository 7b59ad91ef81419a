SPECIFICATION LogoutSpec
CONSTANTS
  Reqs = {r1, r2}
  Ids = {i1, i2}
  Codes = {c1}
  alice = alice
  bob = bob
  acme = acme
  Users <- MCUsers
  Orgs <- MCOrgs
  OrgsOf <- MCOrgsOf
  AllowedOrgs <- MCOrgs
  SessionTTL = 2
  StateTTL = 1
  StoreMayFail = FALSE
  MaxTime = 2
  MaxLogins = 1
  NoId = NoId
  NoHeader = NoHeader
  NoCode = NoCode
  NoUser = NoUser
  NoRec = NoRec
INVARIANTS LogoutInvalidates
