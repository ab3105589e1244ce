SPECIFICATION FairSpec
CONSTANTS
  w1 = w1
  w2 = w2
  w3 = w3
  near = near
  far = far
  Worker <- MCWorker
  Host <- MCHost
  HostOf <- MCHostOf
  MaxAttempts = 2
  Disturbances <- AllDisturbances
  MaxDisturbances = 2
INVARIANT TypeOK
INVARIANT OwnOutput
INVARIANT StoredOnce
PROPERTY Settles
\* A shard that has ended, with nothing left to deliver, stops.
CHECK_DEADLOCK FALSE
