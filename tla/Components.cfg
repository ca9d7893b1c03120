SPECIFICATION Spec
CONSTANTS
  Labels = {a}
  MaxDay = 1
  MaxRetries = 2
  Brackets = {b1, b2}
  Ttl = 2
  MaxSockets = 2
  MaxPending = 1
  Callers = {c1, c2}
  Interval = 3
  Burst = 2
  Drain = 1
  Runs = {r1, r2}
  LastDay = 1
  MaxDayAttempts = 2
  EmptyFinalAfter = 1
  MaxTries = 3
  MaxMonth = 3
  MaxChunkAttempts = 2
  MaxCounted = 2
  NumEvents = 2
  OmModels = {"GFS"}
  SourceChoices <- MCSourceChoices
  DefaultSources <- MCDefaultSources
  FetchRetries = 0
  MaxAge = 0
  MaxFetches = 2
  Procs = {p1, p2}
  Models = {rf}
  Parts = {"model"}
  Singles = {"source_weights"}
  MaxTrain = 2
  CliDays = {1, 2}
  MaxProducts = 1
  MaxResets = 1
  PaperEvents = {1, 2}
  PaperTickers = {"t1", "t2"}
  PaperCycles = {q1, q2}
  OrderLists <- MCOrderLists
  Budget = 400
  Alarm = 500
  NumBrackets = 1
  Probabilities <- MCProbabilities
  Quotes <- MCQuotes
  SettingRows <- MCSettingRows
  Pnls = {0}
INVARIANTS
  TypesOK
  ReconnectResubscribes
  ServedIsAlive
  OneSocket
  BroadcastReachesAll
  SettledIsArchived
  CachedIsCurrent
  TradedIsSound
  PaperActsOnce
  EdgeIsTraded
PROPERTIES
  CallsAreSpaced
  SettledStays
  FeedFollowsMarkets
  ClosedIsUntracked
  BackfillEnds
  NoRunIsForgotten
  ResolvedIsSettled
  LossesStopPaper
CHECK_DEADLOCK FALSE
