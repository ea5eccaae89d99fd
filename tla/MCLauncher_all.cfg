SPECIFICATION FairSpec
CONSTANTS
  WorkerApps <- TwoWorkers
  Iterations = 2
  Faults = {"list", "delete rc", "delete pod", "delete service", "create",
            "write", "pod"}
  MaxFaults = 2
INVARIANTS
  TypeOK
  ResultsAreCurrentIfPodsGo
  ResultsInOrder
  PodsKnowServices
  NothingLeftBehind
PROPERTY LauncherEnds
CHECK_DEADLOCK FALSE
