SPECIFICATION FairSpec
CONSTANTS
    Workers = {w1}
    MaxDeliveries = 3
    MaxFaults = 0
PROPERTY
    NeverSwallowed
