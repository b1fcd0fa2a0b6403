SPECIFICATION ServicesSpec
CONSTANTS
  Emails = {e1, e2}
  AdminEmails = {e1}
  Passwords = {p1, p2}
  AccountCalls = {k1, k2}
  MaxUsers = 2
  MaxSaves = 2
  MaxKeys = 2
  Strategies = {"razor"}
  UserCalls = {u1, u2}
  MaxLinks = 2
  MaxExecutors = 2
  MaxRestarts = 1
  Markets = {"A", "B"}
  BrokerCalls = {c1, c2}
  MaxOrders = 2
  Equities = {0, 10, 40}
  Prices = {0, 10, 15, 21}
  RiskValues = {2, 20, 60}
  Steps = {1, 2, 4}
  Leverages = {1, 3}
  Minima = {1, 4}
  MaxOrder = 80
  Ratios = {1, 2}
  EntryTries = 2
  BracketTries = 2
  CancelTries = 2
  TriggerLimit = 2
  Crowd = 3
  KeepOrders = 1
  Leftovers = {1, 2, 3}
  MaxFailures = 2
  MaxReconnects = 2
  RetryLimit = 1
  ApiCalls = {a1}
  MaxSockets = 3
  MaxLosses = 2
  MaxUserCalls = 3
  Activations = {x1, x2}
  MaxPositions = 2
  MaxRecords = 3
  MaxThorFaults = 1
  MaxThorRestarts = 1
  ClosePrices = {1000, 1001, 1006, 1060}
  MaxCloses = 5
  Period = 2
  FastPeriod = 2
  SlowPeriod = 3
  MomentumSpan = 3
  WarmUp = 5
  Window = 3
  Offered = {0, 2, 5}
  LoadLimit = 4
  KeepLimit = 3
  Enough = 2
  Group = 2
  MaxMinutes = 12
  MaxPause = 3
  Screens = {"position", "strategy", "history", "analysis"}
  Bots = {"razor", "thor"}
  ViewPolls = {v1, v2}
  GiveUpAfter = 2
  MaxChanges = 2
  DeskCalls = {d1, d2}
  MaxUnits = 2
  MaxStopOrders = 3
  MaxSlips = 1
  MaxDeskFaults = 1
  Owners <- TwoOwners
  Profits <- SomeProfits
  Exits = {"sl"}
  Guesses = {"tp_hit"}
  MaxHistory = 2
  MaxTime = 2
INVARIANTS
  SavedReadable
  ActiveRowsRun
  SizedSafely
  EndsProtected
  LossIsRetried
  ThorNeverDoubled
  ThorClosesOwn
  SignalNeedsExtreme
  GroupsRise
  StopsCoverPosition
  HistoriesAnswerAlike
PROPERTIES
  ScanSparesProtection
  AnalysisOfSelected
CHECK_DEADLOCK FALSE
