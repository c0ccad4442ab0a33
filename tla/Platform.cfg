SPECIFICATION Spec
CONSTANTS
  NoOne = NoOne
  this = this
  ann = ann
  bob = bob
  one = one
  other = other
  This = this
  Contracts = {this}
  MaxTxs = 4
  MaxQueue = 3
  MaxTime = 0
  MaxTroubles = 3
  NearRequests = {1, 2}
  Forms <- MCForms
  Editors = {one, other}
  LastMinute = 1
  MaxBills = 2
  Customers = {ann, bob}
  Launchers = {one, other}
  LastDay = 2
  MaxUses = 4
  Rounds = {one, other}
  Seconds = {ann, bob}
  Said <- MCSaid
  Requests = {one, other}
  Amounts = {1, 3}
  Threshold = 2
  WholeEosish = 2
  MaxShares = 3
  MaxMishaps = 2
SYMMETRY Symmetry
INVARIANTS
  PlatformTypeOK
  ServedIsWhole
  FreedWhenServed
  BuiltIsOneDraft
  LimitHoldsAlone
  BridgeDoneIsDone
  AccountIsWhole
  SharesAddUp
CHECK_DEADLOCK FALSE
