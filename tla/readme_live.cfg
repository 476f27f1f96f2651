SPECIFICATION FairSpec
CONSTANTS
  MaxRuns = 1
  MaxBoots = 1
  TrainSize = 2
  UdpTimeout = 6
  InterTime = 10
  Second = 2
  Milli = 1
  Threshold = 0
  RcvBuf = 1
  MaxDelay = 1
  MaxGap = 1
  Lossy = TRUE
  Duplicates = TRUE
  Faults = FALSE
  Prompt = TRUE
INVARIANT Understood
PROPERTY ImplementsDetector
PROPERTY MeasurementCompletes
PROPERTY ImplementsLiveDetector
