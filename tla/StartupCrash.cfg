\* One server process on an empty database, killed once on its way up.
SPECIFICATION Spec
CONSTANTS
    LastTable = 7
    LastSeed = 7
    Clients = {c1}
    OtherPhones = {"13900000001"}
    NoProfile = "new"
    Profiles = {"new"}
    Processes = {p1}
    MaxCrashes = 1
    MaxUsers = 3
    MaxFamilies = 1
    MaxMembers = 3
    ReadErrors = FALSE
    MaxRequests <- NoRequests
INVARIANTS
    ServesComplete

\* The clients may have asked for all they want.
CHECK_DEADLOCK FALSE
