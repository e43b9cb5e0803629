SPECIFICATION PickupSpec
CONSTANTS
    Parcels = {p1}
    Pickups = {r1, r2}
    d1 = d1
    u1 = u1
    u2 = u2
    Drivers = {d1}
    Users = {u1, u2}
    LoginOf <- Logins
    Askers = {a1}
    Workers = {w1, w2}
    Nobody = Nobody
INVARIANTS
    ScansAddUp
    
CHECK_DEADLOCK FALSE

    
