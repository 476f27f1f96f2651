SPECIFICATION FairSpec
CONSTANTS
  InterTime = 1
  RstTimeout = 1
  Second = 2
  Milli = 1
  Threshold = 2
  MaxTrain = 1
  MaxDelay = 1
  Lossy = TRUE
  Reorders = FALSE
  Chatty = FALSE
  Strangers = FALSE
  Faults = FALSE
  Prompt = FALSE
PROPERTY Answers
CHECK_DEADLOCK FALSE
