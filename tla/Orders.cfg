SPECIFICATION OrderSpec
CONSTANTS
    w1 = w1
    w2 = w2
    a1 = a1
    Workers = {w1, w2}
    Accounts = {a1}
    Owner <- OwnerOfBoth
    Strategies = {s1}
    Malformed = Malformed
    NoWorker = NoWorker
    MaxPositions = 2
    MaxMsgs = 2
    MaxFlips = 1
    MaxCrashes = 1
    b1 = b1
    b2 = b2
    None = None
    Callers = {"thread1", "thread2"}
    BrokerAccounts = {b1, b2}
    AccountOf <- ThreadAccounts
    Override <- AskedProviders
    Category = "deriv"
    LegacyKind = "metaapi"
    GlobalToken = None
    MaxCalls = 2
    Prices <- PriceRange
    Entry = 0
    Risk = 2
    RuleSets <- AllRules
    Outcomes <- EveryOutcome
    MaxRestarts = 1
    Events <- SomeEvents
    EventTypes = {"SignalGenerated", "KillSwitchActivated", "AutopilotStateChanged"}
    IntegerMax = 2
    StreamLength = 2
    PendingCount = 2
    PollCount = 2
    EventsSent = 3
    EventFaults = 1
    EventDeaths = 1
    Requests = {"request1", "request2"}
    Logins <- TwoLogins
    Assignable = {"strategy1", "strategy2"}
    AccountCalls = 3
    AccountFaults = 1
    AccountRestarts = 1
    ConnectionCalls = {"call1", "call2"}
    CallsServed = 3
    ConnectionsMade = 4
SYMMETRY Threads
INVARIANTS
    ExecutedOnce
    BoundedPositions
    RightAccount
    
    
    EventsAreKept
    
    ConnectionsAreKept
PROPERTIES
    OrphansAreGivenUp
CHECK_DEADLOCK FALSE
