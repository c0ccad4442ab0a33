SPECIFICATION FairSpec
CONSTANTS
  ico = ico
  other = other
  NoOne = NoOne
  OldToken = OldToken
  Contracts = {ico, other}
  Ico = ico
  Deployers = {d1, d2}
  MaxTxs = 6
  MaxTroubles = 1
INVARIANTS
  TypeOK
  ActiveIsWired
  CallsReachContracts
  LockIsAwaited
PROPERTIES
  PipelineMoves
CHECK_DEADLOCK FALSE
