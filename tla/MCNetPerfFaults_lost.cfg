SPECIFICATION FSpec
CONSTANTS
  w1 = w1
  w2 = w2
  w3 = w3
  Workers = {w1, w2}
  W2 = w2
  W2Service = W2Service
  MssMax = 96
  MssStepSize = 64
  Testcases <- FaultTable
  Faults = {"container"}
  MaxFaults = 1
  LateCalls = FALSE
INVARIANT CompleteReport
