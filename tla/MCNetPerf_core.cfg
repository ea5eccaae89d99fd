SPECIFICATION FairSpec
CONSTANTS
  w1 = w1
  w2 = w2
  w3 = w3
  Workers = {w1, w2, w3}
  W2 = w2
  W2Service = W2Service
  MssMax = 1460
  MssStepSize = 64
  Testcases <- RealTable
INVARIANTS
  TypeOK
  OneJobAtATime
  Attribution
  CompleteReport
  ServerTriggered
  ReportHasDocumentedShape
PROPERTIES
  ImplementsCampaign
  EventuallyReported
