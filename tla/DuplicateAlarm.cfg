\* Two scanning instances, scans that may outlive their lock, no clients.
SPECIFICATION Spec
CONSTANTS
    NoDate = NoDate
    NoRow = NoRow
    f1 = f1
    FoodIds = {f1}
    Clients = {}
    Instances = {s1, s2}
    ExpiringThresholdDays = 1
    OpenedShelfDays = 1
    Seed <- ChickenSeed
    SeedNotified <- NoNotifications
    MaxDay = 3
    FoodInputs = {}
    Amounts = {}
    CsvRows = {}
    MaxRecorded = 0
    SlowScans = TRUE
    ReadErrors = FALSE
    MaxFaults = 0
INVARIANTS
    AlarmedOnce
