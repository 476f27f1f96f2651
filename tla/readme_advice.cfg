SPECIFICATION Spec
CONSTANTS
  MaxRuns = 1
  MaxBoots = 1
  TrainSize = 2
  UdpTimeout = 6
  InterTime = 10
  Second = 2
  Milli = 1
  Threshold = 0
  RcvBuf = 2
  MaxDelay = 1
  MaxGap = 1
  Lossy = FALSE
  Duplicates = FALSE
  Faults = FALSE
  Prompt = TRUE
INVARIANT SecondTrainAwaited
