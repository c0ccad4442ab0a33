SPECIFICATION Spec
CONSTANTS
  Nothing = Nothing
  Receivers = {r1}
  Confirmers = {q1}
  Contracts = {c1, c2}
  Txs = {t1, t2}
  Amounts = {19, 20}
  Cost = 20
  OnlyNewest = FALSE
  MaxAnnounced = 3
  MaxFaults = 1
INVARIANTS
  TypeOK
  NeverOverdrawn
  RecordedOnce
  CreditsExplained
  NeverForgotten
CHECK_DEADLOCK FALSE
SYMMETRY ContractsAndTxs
