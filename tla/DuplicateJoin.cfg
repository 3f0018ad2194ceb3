\* Two clients on a database that the server has migrated itself.
SPECIFICATION Spec
CONSTANTS
    LastTable = 7
    LastSeed = 7
    Clients = {c1, c2}
    OtherPhones = {"13900000001"}
    NoProfile = "new"
    Profiles = {"new"}
    Processes = {p1}
    MaxCrashes = 0
    MaxUsers = 3
    MaxFamilies = 2
    MaxMembers = 5
    ReadErrors = FALSE
    MaxRequests <- ThreeRequests
INVARIANTS
    DuplicateJoinRefused

\* The clients may have asked for all they want.
CHECK_DEADLOCK FALSE
