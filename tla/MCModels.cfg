SPECIFICATION ModelsSpec
CONSTANTS
    Keys = {"whale", "churn"}
    MaxRuns = 3
    MaxClock = 4
    Unknown = Unknown
    ann = ann
    bob = bob
    cyn = cyn
    Customers = {ann, bob, cyn}
    Ledgers <- SomeLedgers
    Goods <- SomeGoods
    LastDay = 8
    MaxNew = 2
    Metrics <- SomeMetrics
    Observation = 1
    Outcome = 1
    Month = 1
    Quarter = 2
    MinQuarter = 2
    MinCustomers = 2
    MinMonths = 1
    EarlyDays = {1, 2}
    WhalePositives = 0
    TopPercent = 50
    Horizon = 2
    Period = 2
    MaxSnapshots = 3
    TailDays = 3
    MinGaps = 1
    MinBuyers = 1
    TrainPercent = 70
    MinRows = 1
    MinPositives = 1
    MinLiftBp = 200
    MinSpan = 3
    MinSnapshots = 1
    IsotonicRows = 3
    IsotonicPositives = 2
INVARIANTS TypeOK RegistrySound BothArms
PROPERTIES NeverGoesDark NothingFromTheFuture
CHECK_DEADLOCK FALSE
