SPECIFICATION FairSpec
CONSTANTS
  WorkerApps <- TwoWorkers
  Iterations = 1
  Faults = {"pod"}
  MaxFaults = 1
PROPERTY ReportIsCollected
CHECK_DEADLOCK FALSE
