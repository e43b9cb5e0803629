SPECIFICATION FairSpec
CONSTANTS
    r1 = r1
    r2 = r2
    l1 = l1
    l2 = l2
    d1 = d1
    Nobody = Nobody
    Routes = {r1}
    Legs = {l1, l2}
    Door <- OneDoor
    Dispatchers = {"ana"}
    Drivers = {d1}
    DriverOf <- OneDriver
    OtherEvents = {}
    MaxStops = 1
    MaxFaults = 1
PROPERTIES
    StopSettles
    
CHECK_DEADLOCK FALSE
