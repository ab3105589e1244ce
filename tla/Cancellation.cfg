SPECIFICATION FairSpec
CONSTANTS
  w1 = w1
  w2 = w2
  Worker <- MCWorker
  Shard <- OneShard
  MaxConcurrent = 2
  MaxAttempts = 1
  TwoStage = TRUE
  Disturbances <- CrashRestartCancel
  MaxDisturbances = 2
PROPERTY NoGapReadAsClosed
PROPERTY CancelStopsScans
PROPERTY RunSettles
\* A run that is over, with nothing left to deliver, stops.
CHECK_DEADLOCK FALSE
