\* Every configuration, one edit, one mishap.
SPECIFICATION FairSpec
CONSTANTS
  None = None
  s1 = s1
  s2 = s2
  Schedules <- MCSchedules
  FirstSchedules <- MCFirstSchedules
  GeneratedKeys = {k1, k2}
  MaxEdits = 1
  MaxMishaps = 1
INVARIANTS TypeOK CompletedIsExported
PROPERTIES BackupKeyKept ExportCompletes
CHECK_DEADLOCK FALSE
