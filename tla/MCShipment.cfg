SPECIFICATION SmallSpec
CONSTANTS
    Shipments = {s1, s2}
    Drivers = {d1, d2}
    Staff = {staff}
    Hubs = {h1}
    Amounts = {0, 5}
    MaxAttempts = 2
    None = None
    MaxCommands = 7
    MaxShared = 5
SYMMETRY Alike
INVARIANTS
    RowIsProjection
    DeliveredHasProofAndCash
    CodFollowsParcel
    
    OutcomeIsTheHolders
    ReplyIsItsHistory

    
CHECK_DEADLOCK FALSE
