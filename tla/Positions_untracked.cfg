SPECIFICATION MonitorSpec
CONSTANTS
  Prices <- PriceRange
  Entry = 0
  Risk = 2
  RuleSets <- OnlyTimed
  Outcomes <- Answered
  MaxRestarts = 0
PROPERTY UntrackedIsClosed
CHECK_DEADLOCK FALSE
