\* Two clients and two server processes, one of which may be killed.
SPECIFICATION FairSpec
CONSTANTS
    LastTable = 4
    LastSeed = 4
    Clients = {c1, c2}
    OtherPhones = {"13900000001"}
    NoProfile = "new"
    Profiles = {"new", "edited"}
    Processes = {p1, p2}
    MaxCrashes = 1
    MaxUsers = 3
    MaxFamilies = 2
    MaxMembers = 4
    ReadErrors = TRUE
    MaxRequests <- Requests
INVARIANTS
    TypeOK
    LoginReachesOwner
    OneMembership
    SeededOnce
PROPERTIES
    TokensStayTrue
    RemovedStaysRemoved
    OrphanStaysOrphan
    EventuallyServes

\* The clients may have asked for all they want.
CHECK_DEADLOCK FALSE
