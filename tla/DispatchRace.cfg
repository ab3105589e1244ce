SPECIFICATION Spec
CONSTANTS
  w1 = w1
  w2 = w2
  Worker <- MCWorker
  Shard <- TwoShards
  MaxConcurrent = 1
  MaxAttempts = 1
  TwoStage = FALSE
  Disturbances <- NoDisturbance
  MaxDisturbances = 0
SYMMETRY Symmetry
INVARIANT BoundedConcurrency
\* A run that is over, with nothing left to deliver, stops.
CHECK_DEADLOCK FALSE
