SPECIFICATION Spec
CONSTANTS
  c1 = c1
  c2 = c2
  NoOne = NoOne
  Contracts = {c1, c2}
  Replacing = {c1}
  Reusing = {c2}
  WhiteLabel = {c2}
  Poor = {c1, c2}
  Deployers = {d1, d2}
  Editors = {e1}
  MaxTries = 3
  MaxFaults = 1
  MailFails = TRUE
INVARIANTS
  TypeOK
  ActiveIsDeployed
  RecordsAgree
PROPERTIES
  NeverRedeployed
  ActiveIsKept
  KeepsPromise
CHECK_DEADLOCK FALSE
