SPECIFICATION FFairSpec
CONSTANTS
  w1 = w1
  w2 = w2
  w3 = w3
  Workers = {w1, w2}
  W2 = w2
  W2Service = W2Service
  MssMax = 96
  MssStepSize = 64
  Testcases <- FaultTable
  Faults = {"connection", "container", "pod", "orchestrator"}
  MaxFaults = 2
  LateCalls = TRUE
INVARIANTS
  FTypeOK
  OneJobUnlessDisturbed
  AttributionUnlessDisturbed
  MeasuredOnce
  RowsFollowTable
  CompleteWithoutFaults
  FewAreMissing
  FewServersAreLost
  NetperfIsMeasured
PROPERTIES
  ImplementsLossyCampaign
  EventuallyReported
