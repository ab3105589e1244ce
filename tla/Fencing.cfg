SPECIFICATION Spec
CONSTANTS
  w1 = w1
  w2 = w2
  Worker <- MCWorker
  Shard <- OneShard
  MaxConcurrent = 2
  MaxAttempts = 2
  TwoStage = TRUE
  Disturbances <- AllDisturbances
  MaxDisturbances = 2
SYMMETRY Symmetry
INVARIANT TypeOK
INVARIANT SingleExecutor
INVARIANT FencedResults
INVARIANT NoLostDispatch
INVARIANT BoundedAttempts
PROPERTY ImplementsLeaseFencing
PROPERTY SupersededOnlyDeletes
\* A run that is over, with nothing left to deliver, stops.
CHECK_DEADLOCK FALSE
