SPECIFICATION BrokerSpec
CONSTANTS
  t1 = t1
  t2 = t2
  a1 = a1
  a2 = a2
  None = None
  Callers = {t1, t2}
  BrokerAccounts = {a1, a2}
  AccountOf <- TwoOwners
  Override <- BothMeta
  Category = "deriv"
  LegacyKind = "metaapi"
  GlobalToken = None
  MaxCalls = 1
INVARIANT ReuseServesAccount
CHECK_DEADLOCK FALSE
