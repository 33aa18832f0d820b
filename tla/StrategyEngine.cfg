SPECIFICATION EngineSpec
CONSTANTS
  Strategies = {s1}
  Zones = {z1, z2}
  MaxProcessed = 1
  ResultFields = {"type", "trade"}
  MaxCandles = 2
  MaxLosses = 1
  MaxModes = 1
  MaxBreaks = 1
  Catalogue = {s1}
  MaxEdits = 2
  MaxOutages = 2
  Files = {"a", "b"}
  Algs = {"a", "b"}
  Clients = {"c"}
  Ways = {{"editor"}, {"routes"}}
  MaxWrites = 3
  MaxCalls = 2
  Threads = {t1, t2}
  Threshold = 2
  BufferMax = 2
  MaxSignals = 3
  MaxConversionRetries = 2
  MaxRuns = 2
  Hypotheses = {"trend", "unparsed"}
  KnowledgeLimit = 1
  MaxIterations = 3
  MaxAdvice = 2
  MaxExtensions = 1
  MaxAnalyses = 3
  Callers = {"research", "converter"}
  Global = "all"
  Budget <- MCBudget
  PerMinute <- MCPerMinute
  MaxCost = 1
  ModelRetries = 1
  MaxWaits = 2
  MaxCompletions = 3
INVARIANTS  PublishedIsPersisted SignalsAccounted SoundWork
PROPERTIES ConfigFollowsBackend  BreakerRecovers
CHECK_DEADLOCK FALSE
