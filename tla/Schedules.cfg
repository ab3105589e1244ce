SPECIFICATION FairSpec
CONSTANTS
  hourly = hourly
  daily = daily
  vast = vast
  Schedule <- MCSchedule
  Interval <- MCInterval
  Unshardable <- MCUnshardable
  MaxTime = 3
  MaxCrashes = 2
INVARIANT TypeOK
INVARIANT OneRunPerInstant
INVARIANT DisabledStops
PROPERTY SkipsOnlyMissed
PROPERTY DueIsServed
\* The clock and the losses of the scheduler are bounded.
CHECK_DEADLOCK FALSE
