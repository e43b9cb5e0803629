SPECIFICATION Spec
CONSTANTS
    r1 = r1
    r2 = r2
    l1 = l1
    l2 = l2
    d1 = d1
    Nobody = Nobody
    Routes = {r1, r2}
    Legs = {l1}
    Door <- OneDoor
    Dispatchers = {"ana"}
    Drivers = {d1}
    DriverOf <- OneDriver
    OtherEvents = {"picked_up", "arrived_at_hub", "cancelled"}
    MaxStops = 2
    MaxFaults = 1
INVARIANTS
    PublishedIsAssigned
    
CHECK_DEADLOCK FALSE
