\* The seeded items and a scan, nobody else.
SPECIFICATION FairSpec
CONSTANTS
    NoDate = NoDate
    NoRow = NoRow
    f1 = f1
    FoodIds = {f1}
    Clients = {}
    Instances = {s1}
    ExpiringThresholdDays = 1
    OpenedShelfDays = 1
    Seed <- CookedSeed
    SeedNotified <- CookedSeedNotified
    MaxDay = 1
    FoodInputs <- ScanInputs
    Amounts = {1}
    CsvRows = {}
    MaxRecorded = 1
    SlowScans = FALSE
    ReadErrors = FALSE
    MaxFaults = 0
PROPERTIES
    StatusRefreshed
