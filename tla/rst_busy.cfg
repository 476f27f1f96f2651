SPECIFICATION FairSpec
CONSTANTS
  InterTime = 1
  RstTimeout = 0
  Second = 1
  Milli = 1
  Threshold = 2
  MaxTrain = 0
  MaxDelay = 0
  Lossy = TRUE
  Reorders = TRUE
  Chatty = TRUE
  Strangers = TRUE
  Faults = FALSE
  Prompt = FALSE
PROPERTY ImplementsDetector
PROPERTY Answers
