CONSTANTS
  a1 = a1
  FailMax = 2
  ResetTimeout = 2
  ScoreCallers = 2
  MaxScores = 5
  Account = {a1}
  FeatureCallers = 1
  MaxLookups = 2
  MaxBatches = 2
  FeedQueueMax = 2
  MaxAlerts = 3
  MaxFeedErrors = 1
  MaxFeedStarts = 2
  MaxBridgeStarts = 2
  Retries = 2
  MaxPosts = 2
  MaxProcesses = 2
  Configs <- MCConfigs
  Logs <- MCLogs
  Published = {"ok", "alien"}
  MaxLog = 3
  MaxDeletes = 1
  QueueSize = 1
  ReportEvery = 2
SPECIFICATION ServicesSpec
CHECK_DEADLOCK FALSE
INVARIANTS ServicesTypeOK FeaturesCurrent FeedKeepsNewest OneReaderPerTopic AnswersHonest CountsAddUp ReplayedInOrder ResultsHandedOver
PROPERTIES BreakerSparesModel ProbeTimeHonest StoppedThreadsEnd JobRunsOut LoopComesBack
