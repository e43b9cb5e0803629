SPECIFICATION ReviewSpec
CONSTANTS
    None = None
    Shipments = {s1}
    Drivers = {d1}
    Staff = {c1, c2}
    Deciders = {c1, c2}
    Hubs = {}
    Amounts = {0, 1}
    MaxAttempts = 1
    MaxCommands = 2
    MaxAmendments = 2
    Addresses = {a1}
    People = {c1, c2}
    Keys = {k1, k2, k3}
    here = here
    nearby = nearby
    away = away
    Places = {here, nearby, away}
    NoPin = NoPin
    Far <- Apart
    ClockSkew = 1
    MaxTime = 3
INVARIANTS
    AuditTrailIsAChain
    PinIsTheNewest
PROPERTY
    DecidedOnce
SYMMETRY Alike
CHECK_DEADLOCK FALSE
