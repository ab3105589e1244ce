SPECIFICATION Spec
CONSTANTS
  root = root
  ann = ann
  a = a
  b = b
  p = p
  h = h
  y = y
  z = z
  promote = promote
  demote = demote
  repeat = repeat
  add = add
  widen = widen
  import = import
  approve = approve
  delete = delete
  profile1 = profile1
  profile2 = profile2
  drop = drop
  schedule = schedule
  run1 = run1
  run2 = run2
  Subject <- MCSubject
  Root = root
  Name <- MCName
  Zone <- MCZone
  Request <- MCRequest
  body <- MCBody
  Width = 4
  MaxCidrPrefix = 1
  ShardPrefix = 3
  MaxShards = 2
  MaxRows = 2
INVARIANT TypeOK
INVARIANT ReferencesStayRunnable
INVARIANT ShardsPartitionTheScope
INVARIANT RunsNameOneProfile
INVARIANT TrailTellsScopes
INVARIANT ImportsAreWhole
INVARIANT NoLostDemotion
PROPERTY ActsAreAuthorized
\* After the last request nothing happens.
CHECK_DEADLOCK FALSE
