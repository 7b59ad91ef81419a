SPECIFICATION Spec
CONSTANTS
  NoFile = NoFile
  Unset = Unset
  Unparsable = Unparsable
  Setups <- OrgSetups
  MaxInFlight = 1
INVARIANTS OrganizationsAsTold
CHECK_DEADLOCK FALSE
