SPECIFICATION Spec
CONSTANTS
  NoOne = NoOne
  this = this
  a = a
  b = b
  This = this
  Contracts = {this}
  Tokens = {a, b}
  Entries = {a, b}
  Parties = {a, b}
  Base = a
  MaxRows = 2
  MaxDrops = 2
  MaxDeposits = 2
  MaxTxs = 3
  MaxQueue = 2
  MaxTime = 3
  MaxTroubles = 1
  Interval = 1
  ActiveTo = 2
  MaxPayments = 1
PROPERTY CommittedIsSent
CHECK_DEADLOCK FALSE
