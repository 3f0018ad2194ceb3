\* Two clients at work on one item, one scanning instance, failing calls.
SPECIFICATION Spec
CONSTANTS
    NoDate = NoDate
    NoRow = NoRow
    f1 = f1
    FoodIds = {f1}
    Clients = {c1, c2}
    Instances = {s1}
    ExpiringThresholdDays = 0
    OpenedShelfDays = 1
    Seed <- EmptySeed
    SeedNotified <- NoNotifications
    MaxDay = 1
    FoodInputs <- StockInputs
    Amounts = {1, 2}
    CsvRows <- StockCsv
    MaxRecorded = 3
    SlowScans = FALSE
    ReadErrors = TRUE
    MaxFaults = 1
SYMMETRY ClientSymmetry
INVARIANTS
    TypeOK
    StockAccounted
    StockNonNegative
    ConsumedIsRecorded
    ReferencesResolve
    RepeatsBounded
PROPERTIES
    ArchivedStaysArchived
