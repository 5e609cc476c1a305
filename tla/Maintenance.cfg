\* A few days of runs and maintenances, of which some are killed.
SPECIFICATION Spec
SYMMETRY Symmetry
CHECK_DEADLOCK FALSE
CONSTANTS
  None = None
  p1 = p1
  p2 = p2
  Maintainers = {p1, p2}
  MaxDay = 2
  MaxRuns = 2
  MaxKills = 1
  RAW_UNCOMPRESSED_DAYS = 1
  RAW_COMPRESSED_RETENTION_DAYS = 2
  LOG_COMPRESSED_RETENTION_DAYS = 2
  DB_BACKUP_RETENTION_COUNT = 1
INVARIANT NothingLost
INVARIANT DayComplete
PROPERTY KeptInTime
