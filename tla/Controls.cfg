SPECIFICATION ControlSpec
CONSTANTS
  w1 = w1
  w2 = w2
  a1 = a1
  Workers = {w1}
  Accounts = {a1}
  Owner <- Alone
  Strategies = {s1}
  Malformed = Malformed
  NoWorker = NoWorker
  MaxPositions = 2
  MaxMsgs = 2
  MaxFlips = 3
  MaxCrashes = 1
  b1 = b1
  b2 = b2
  TradedAccounts <- TwoAccounts
  Admins = {admin1, admin2}
  MaxActivations = 2
  MaxRestarts = 1
  MaxOpen = 1
  Connection = "lossy"
  MaxChanges = 3
  MaxStarts = 3
  MaxKills = 1
  MaxDeaths = 1
INVARIANTS
  AtMostOneAfterKill AtMostOneAfterDisable 
  Agreement  DisabledIsNotTraded
PROPERTIES  EnabledGetsWorker
CHECK_DEADLOCK FALSE
