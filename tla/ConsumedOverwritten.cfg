\* One client consumes an item that a scan has listed.
SPECIFICATION Spec
CONSTANTS
    NoDate = NoDate
    NoRow = NoRow
    f1 = f1
    FoodIds = {f1}
    Clients = {c1}
    Instances = {s1}
    ExpiringThresholdDays = 1
    OpenedShelfDays = 1
    Seed <- ChickenSeed
    SeedNotified <- NoNotifications
    MaxDay = 3
    FoodInputs = {}
    Amounts = {1}
    CsvRows = {}
    MaxRecorded = 1
    SlowScans = FALSE
    ReadErrors = FALSE
    MaxFaults = 0
PROPERTIES
    ConsumedStaysConsumed
