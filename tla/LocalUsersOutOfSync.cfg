\* A fault between the two writes of issueToken.
SPECIFICATION Spec
CONSTANTS
  None = None
  u1 = u1  u2 = u2
  Users = {u1}
  TokenIds = {i1, i2, i3, i4}
  TimerIds = {t1, t2}
  Configs <- RenewConfigs
  ExtraConfigs <- NoExtra
  MaxEdits = 1
  MaxExternalDeletes = 0
  MaxFaults = 1
  MaxWaiting = 1
  MaxRenewals = 1
INVARIANT InSyncOnSuccess
CHECK_DEADLOCK FALSE
