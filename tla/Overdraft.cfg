\* Two clients consume the same item.
SPECIFICATION Spec
CONSTANTS
    NoDate = NoDate
    NoRow = NoRow
    f1 = f1
    FoodIds = {f1}
    Clients = {c1, c2}
    Instances = {}
    ExpiringThresholdDays = 1
    OpenedShelfDays = 1
    Seed <- MilkSeed
    SeedNotified <- MilkSeedNotified
    MaxDay = 0
    FoodInputs <- ScanInputs
    Amounts = {1, 2}
    CsvRows = {}
    MaxRecorded = 4
    SlowScans = FALSE
    ReadErrors = FALSE
    MaxFaults = 0
PROPERTIES
    TakeIsCovered
