SPECIFICATION Spec
CONSTANTS
  w1 = w1
  w2 = w2
  Worker <- MCWorker
  Shard <- OneShard
  MaxConcurrent = 1
  MaxAttempts = 2
  TwoStage = TRUE
  Disturbances <- Pause
  MaxDisturbances = 1
PROPERTY StaleWritesNothing
\* A run that is over, with nothing left to deliver, stops.
CHECK_DEADLOCK FALSE
