SPECIFICATION FairSpec
CONSTANTS
  ssh = ssh
  web = web
  Run <- TwoRuns
  Service <- MCService
  Disturbances <- AllDisturbances
  MaxDisturbances = 2
INVARIANT TypeOK
INVARIANT GatedByCoverage
INVARIANT CountsSightings
INVARIANT SequentialRunsShowLatest
PROPERTY HistoryKept
PROPERTY RunsAreFinalized
\* After the last run nothing happens.
CHECK_DEADLOCK FALSE
