SPECIFICATION Spec
CONSTANTS
  BucketTicks = 1
  HourTicks = 2
  DayTicks = 4
  WeekDays = 2
  MonthDays = 3
  WeekShift = 1
  RebuildTicks = 3
  FreshTicks = 1
  RawTicks = 4
  FineTicks = 5
  HourlyTicks = 12
  DailyTicks = 12
  StartTick = 35
  MaxClock = 47
  BackupTicks = 9
  MaxFiles = 1
  MaxBytes = 2
  UtcTicks = 4
  UtcShift = 1
  Sizes = {1}
  MaxFull = 2
  MaxFast = 1
  MaxFaults = 1
  MaxRepairs = 1
  MaxOther = 2
  None = None
INVARIANTS
  TypeOK LayersAgree DayMatchesCounter WindowsComplete ChartMatchesKpi BackupsBounded
PROPERTIES
  ClosedDaysStay NewestBackupKept
CHECK_DEADLOCK FALSE
