SPECIFICATION Spec
CONSTANTS
  Nothing = Nothing
  Receivers = {r1}
  Confirmers = {q1}
  Contracts = {c1}
  Txs = {t1}
  Amounts = {19, 20}
  Cost = 20
  OnlyNewest = FALSE
  MaxAnnounced = 1
  MaxFaults = 0
INVARIANTS
  LaunchIsPaid
CHECK_DEADLOCK FALSE
