SPECIFICATION ReplaySpec
CONSTANTS
  Configs <- MCConfigs
  Logs <- MCLogs
  Published = {"ok", "alien"}
  MaxLog = 3
  MaxDeletes = 1
  QueueSize = 1
  ReportEvery = 2
CHECK_DEADLOCK FALSE
INVARIANTS RangeInclusive
