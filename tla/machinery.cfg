SPECIFICATION MachinerySpec
CONSTANTS
  Channels = {c1}
  MaxAttempts = 2
  MaxDrops = 2
  MaxCalls = 2
  Tiers = {1, 2}
  HealthChecks = {g1, g2}
  RestartLimit = 1
  MaxJobs = 2
  MaxStalls = 2
  EvalTicks = {t1, t2}
  StartCalls = {s1}
  MaxEntries = 2
  MaxStops = 1
  Traders = {t1}
  Watchers = {w1}
  MaxTrades = 2
  MaxTroubles = 2
  MaxMisses = 2
  MaxActions = 2
  MaxTurns = 1
  Plain = {"deribit", "my", "my.bot"}
  Odd = {"x-y"}
  Longer <- LongerNames
  SettingCalls = {s1, s2}
  MaxVersions = 2
  MaxCrashes = 1
  MaxAge = 1
  MaxNoted = 2
  MaxToolFaults = 2
  MaxToolRuns = 4
INVARIANTS
  PendingOnOpenSocket
  SubscriptionsRestored
  QueueNeverOverbooks
  RunnerNeverDoubles
  CredentialsPersist
  SchemaAsRecorded
PROPERTIES
  KeepsTrying
  JobsDecided
  FlatRunnerResumes
  SiblingSwept
  StatusConverges
CHECK_DEADLOCK FALSE
