SPECIFICATION Spec
CONSTANTS
  NoOne = NoOne
  this = this
  a = a
  b = b
  This = this
  Contracts = {this}
  Tokens = {a, b}
  Entries = {a, b}
  Parties = {a, b}
  Base = a
  MaxRows = 1
  MaxDrops = 2
  MaxDeposits = 2
  MaxTxs = 3
  MaxQueue = 2
  MaxTime = 3
  MaxTroubles = 1
  Interval = 1
  ActiveTo = 2
  MaxPayments = 1
INVARIANTS
  LifeTypeOK
  NoWillIsForgotten
  DutyAddsUp
  ConfirmedIsSaved
  SentWasDropped
  BooksAreKept
PROPERTIES
  OverIsNotRevived
  WillsEnd
CHECK_DEADLOCK FALSE
