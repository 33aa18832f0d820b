SPECIFICATION ResultsSpec
CONSTANTS
  MaxRestarts = 1
  MaxSweeps = 1
  Bars = 6
  BarsPerDay = 4
  Candles <- SomeCandles
  Proposals <- SomeProposals
  Blocks = {"b", "s"}
  Rules <- SomeRules
  Limits <- BothLimits
  Charges <- SomeCharges
  Requests = {r1, r2}
  MaxFaults = 1
  MaxDeaths = 1
INVARIANTS LimitsHold
PROPERTIES  ExitIsBooked  
CHECK_DEADLOCK FALSE
