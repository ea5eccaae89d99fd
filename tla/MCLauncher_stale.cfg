SPECIFICATION Spec
CONSTANTS
  WorkerApps <- TwoWorkers
  Iterations = 2
  Faults = {"delete pod"}
  MaxFaults = 1
INVARIANT ResultsAreCurrent
CHECK_DEADLOCK FALSE
