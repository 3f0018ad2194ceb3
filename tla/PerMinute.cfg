\* One user calls as often as it is let through.
SPECIFICATION Spec
CONSTANTS
    NoBucket = NoBucket
    Callers <- OneUser
    PerMin = 2
    Minute = 3
    MaxTime = 6
INVARIANTS
    AtMostPerMinute
