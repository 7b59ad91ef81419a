SPECIFICATION FairSpec
CONSTANTS
  NoFile = NoFile
  Unset = Unset
  Unparsable = Unparsable
  Setups <- TLSSetups
  MaxInFlight = 2
PROPERTIES InterruptStops
CHECK_DEADLOCK FALSE
