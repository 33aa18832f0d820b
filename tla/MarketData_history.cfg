SPECIFICATION MarketSpec
CONSTANTS
  Callers = {c1, c2, c3, c4}
  Threshold = 2
  Starts = {s1, s2}
  MaxRetries = 2
  MaxRestarts = 1
  FirstMinute = 3
  LastMinute = 4
  Width = 3
  Lookback = 2
  History = 2
  Retention = 2
  Chunk = 2
  Batch = 2
  HoleOver = 2
  Pool = 2
  MaxInFlight = 1
  Streams = {FALSE}
  MaxOutages = 1
  MaxDeaths = 0
  MaxGapJobs = 1
PROPERTIES AggregateIsKept
CHECK_DEADLOCK FALSE
