SPECIFICATION Spec
CONSTANTS
  gateway = gateway
  database = database
  ssh = ssh
  web = web
  old = old
  new = new
  Host <- MCHost
  Port <- MCPort
  Fingerprint <- MCFingerprint
  Networks <- MCNetworks
  MaxRuns = 3
INVARIANT TypeOK
INVARIANT ChangesAreExact
INVARIANT ChangesAreReal
