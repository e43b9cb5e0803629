SPECIFICATION OutboxSpec
CONSTANTS
    Parcels = {p1}
    Addresses = {}
    Pickups = {k1}
    Kinds = {"DELIVERED", "FAILED", "PICKUP_SCAN", "PICKUP_COLLECT"}
    Handlers = {h1, h2}
    Nothing = Nothing
    MaxBatch = 2
    MaxTaps = 2
    MaxTrouble = 1
INVARIANTS
    CarriedOutInOrder
    
    ProofIsKept
PROPERTY
    EverythingIsAnswered
CHECK_DEADLOCK FALSE
