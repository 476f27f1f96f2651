SPECIFICATION Spec
CONSTANTS
  MaxRuns = 1
  MaxBoots = 1
  TrainSize = 3
  UdpTimeout = 14
  InterTime = 10
  Second = 2
  Milli = 1
  Threshold = 0
  RcvBuf = 3
  MaxDelay = 1
  MaxGap = 1
  Lossy = FALSE
  Duplicates = FALSE
  Faults = FALSE
  Prompt = TRUE
INVARIANT WholeMeasurement
