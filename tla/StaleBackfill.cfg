SPECIFICATION Spec
CONSTANTS
  ssh = ssh
  web = web
  Run <- TwoRuns
  Service <- MCService
  Disturbances <- Restart1
  MaxDisturbances = 1
INVARIANT ShowsLatest
CHECK_DEADLOCK FALSE
