\* Two scanning instances that may crash, one client at work on one item.
SPECIFICATION FairSpec
CONSTANTS
    NoDate = NoDate
    NoRow = NoRow
    f1 = f1
    FoodIds = {f1}
    Clients = {c1}
    Instances = {s1, s2}
    ExpiringThresholdDays = 1
    OpenedShelfDays = 1
    Seed <- EmptySeed
    SeedNotified <- NoNotifications
    MaxDay = 3
    FoodInputs <- ScanInputs
    Amounts = {1}
    CsvRows <- StockCsv
    MaxRecorded = 1
    SlowScans = FALSE
    ReadErrors = FALSE
    MaxFaults = 1
INVARIANTS
    OneScanAtATime
    AlarmedOnce
    NoFreshAlarm
PROPERTIES
    ExpiryAnnounced
    KeepsLedger
    DashboardOnlyAges
    OverlookedIsRecommended
