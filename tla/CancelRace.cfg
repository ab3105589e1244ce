SPECIFICATION Spec
CONSTANTS
  w1 = w1
  w2 = w2
  Worker <- MCWorker
  Shard <- TwoShards
  MaxConcurrent = 2
  MaxAttempts = 1
  TwoStage = FALSE
  Disturbances <- Cancel
  MaxDisturbances = 1
SYMMETRY Symmetry
INVARIANT CompleteCoverage
\* A run that is over, with nothing left to deliver, stops.
CHECK_DEADLOCK FALSE
