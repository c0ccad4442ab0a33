SPECIFICATION FairSpec
CONSTANTS
  c1 = c1
  c2 = c2
  NoOne = NoOne
  Contracts = {c1, c2}
  Replacing = {c1}
  Reusing = {c2}
  WhiteLabel = {}
  Poor = {}
  Deployers = {d1, d2}
  Editors = {e1}
  MaxTries = 2
  MaxFaults = 1
  MailFails = FALSE
INVARIANTS
  LockIsAwaited
PROPERTIES
  LaunchResolves
  LockIsReleased
CHECK_DEADLOCK FALSE
