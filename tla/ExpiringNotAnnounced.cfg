\* One client enters an item that is about to expire.
SPECIFICATION FairSpec
CONSTANTS
    NoDate = NoDate
    NoRow = NoRow
    f1 = f1
    FoodIds = {f1}
    Clients = {c1}
    Instances = {s1}
    ExpiringThresholdDays = 1
    OpenedShelfDays = 1
    Seed <- EmptySeed
    SeedNotified <- NoNotifications
    MaxDay = 0
    FoodInputs <- ScanInputs
    Amounts = {}
    CsvRows = {}
    MaxRecorded = 1
    SlowScans = FALSE
    ReadErrors = FALSE
    MaxFaults = 0
PROPERTIES
    ExpiringAnnounced
