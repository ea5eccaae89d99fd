SPECIFICATION FairSpec
CHECK_DEADLOCK FALSE
CONSTANTS
  r1 = r1
  r2 = r2
  given = given
  left = left
  Resources = {r1, r2}
  ConfigKeys = {given, left}
  ConfigValues = {"new", "old"}
  Default = "default"
  Supplied <- SuppliedGiven
  InitialConfigs <- AllOrNothing
  MaxFailures = 1
  MaxWrites = 0
PROPERTIES WaitEnds
