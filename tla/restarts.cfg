SPECIFICATION FairSpec
CONSTANTS
  MaxRuns = 2
  MaxBoots = 2
  TrainSize = 1
  UdpTimeout = 3
  InterTime = 5
  Second = 2
  Milli = 1
  Threshold = 0
  RcvBuf = 1
  MaxDelay = 1
  MaxGap = 0
  Lossy = TRUE
  Duplicates = TRUE
  Faults = TRUE
  Prompt = TRUE
INVARIANT OwnMeasurement
INVARIANT CrossWaitNeedsRestart
PROPERTY ProbingEnds
PROPERTY ClientEnds
