SPECIFICATION Spec
CONSTANTS
  MaxRuns = 1
  MaxBoots = 1
  TrainSize = 3
  UdpTimeout = 6
  InterTime = 10
  Second = 2
  Milli = 2
  Threshold = 2
  RcvBuf = 1
  MaxDelay = 1
  MaxGap = 1
  Lossy = TRUE
  Duplicates = FALSE
  Faults = FALSE
  Prompt = TRUE
INVARIANT TypeOK
INVARIANT NoHighInLow
INVARIANT NoLowInHigh
INVARIANT ServerOpenInTime
INVARIANT WholeTrainStarvesSecond
INVARIANT NoFalseDetection
INVARIANT Separated
