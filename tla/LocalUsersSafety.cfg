\* One user, every branch, an edit, an external delete, faults and crashes.
SPECIFICATION Spec
CONSTANTS
  None = None
  u1 = u1  u2 = u2
  Users = {u1}
  TokenIds = {i1, i2, i3, i4}
  TimerIds = {t1, t2}
  Configs <- AllConfigs
  ExtraConfigs <- AllExtra
  MaxEdits = 1
  MaxExternalDeletes = 1
  MaxFaults = 2
  MaxWaiting = 1
  MaxRenewals = 1
INVARIANTS TypeOK NoLeakedTimer NoOrphanToken RevokedWhenQuiescent IssuedWhenQuiescent
           InSyncUntilFault ScheduledUntilFault TimerOnlyIfAskedFor
CHECK_DEADLOCK FALSE
