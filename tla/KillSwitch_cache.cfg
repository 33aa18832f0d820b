SPECIFICATION KillSwitchSpec
CONSTANTS
  Admins = {a1}
  TradedAccounts = {w1}
  MaxActivations = 2
  MaxRestarts = 1
  MaxOpen = 1
  Connection = "steady"
INVARIANT CacheIsUpdated
