SPECIFICATION FairSpec
CONSTANTS
  NoFile = NoFile
  Unset = Unset
  Unparsable = Unparsable
  Setups <- PlainSetups
  MaxInFlight = 2
INVARIANTS TypeOK NoUseAfterClose DatabaseFirst BadConfigStops StopsClean
PROPERTIES InterruptStops
CHECK_DEADLOCK FALSE
