SPECIFICATION TrackingSpec
CONSTANTS
    Runtimes = {screen, task}
    Calls = {c1, c2}
    Nothing = Nothing
    MaxBatch = 2
    MaxPoints = 2
    MaxShifts = 1
    MaxTrouble = 1
    Flushers = {f1, shutdown}
    Shutdown = shutdown
    Tenants = {"t1", "t2"}
    FlushRows = 2
    MaxRows = 3
    MaxUpload = 2
    MaxPositions = 6
    TenantOf <- Uploads
INVARIANTS
    FlushDrains
    
    
    LiveStateIsTheTrack
PROPERTIES
    EverythingIsFlushed
    
CHECK_DEADLOCK FALSE
