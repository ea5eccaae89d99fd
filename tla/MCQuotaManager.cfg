SPECIFICATION FairSpec
CHECK_DEADLOCK FALSE
CONSTANTS
  Principals = {"global", "app"}
  Rates = {1, 2}
  Null = Null
  Definitions <- SomeDefinitions
  MaxUpdates = 2
  MaxCrashes = 1
  MaxFailures = 1
  MaxRuns = 2
INVARIANTS TypeOK CompletedRunApplies QuotasWereDefined
PROPERTIES EntriesAreWhole JobCompletes
