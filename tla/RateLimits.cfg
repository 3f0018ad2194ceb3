\* A user and its address, the minute observed beginning at any time.
SPECIFICATION Spec
CONSTANTS
    NoBucket = NoBucket
    Callers <- UserAndAddress
    PerMin = 2
    Minute = 3
    MaxTime = 8
INVARIANTS
    TypeOK
    WindowBound
PROPERTIES
    RefusedOnlyBusy
    FillsSteadily
