CONSTANTS
  Accounts = {"a1"}
  Corrections = {"phantom", "missing", "balance"}
  Configs <- MCConfigs
  Positions <- MCPositions
  LocalName <- MCLocalName
  Balances = {0, 1}
  EscalationCycleCount = 2
  MaxUpdates = 1
  MaxFaults = 1
  MaxOpen = 2
  MaxRows = 3
  MaxChanges = 3
SPECIFICATION ReconciliationSpec
INVARIANTS KillStopsCorrections  EscalatesOnPersistence 
 
CHECK_DEADLOCK FALSE
