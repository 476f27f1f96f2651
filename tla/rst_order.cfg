SPECIFICATION Spec
CONSTANTS
  InterTime = 5
  RstTimeout = 3
  Second = 2
  Milli = 2
  Threshold = 1
  MaxTrain = 1
  MaxDelay = 1
  Lossy = TRUE
  Reorders = FALSE
  Chatty = TRUE
  Strangers = FALSE
  Faults = TRUE
  Prompt = TRUE
INVARIANT TypeOK
INVARIANT OwnRsts
INVARIANT InOrder
INVARIANT LoopExit
INVARIANT NoFalseFailure
INVARIANT NoFalseDetection
