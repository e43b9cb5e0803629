SPECIFICATION Spec
CONSTANTS
    Nobody = Nobody
    Manifests = {m1}
    Types = {"LINEHAUL", "TRANSFER", "DISPATCH", "RETURN"}
    Parcels = {p1, p2}
    Hubs = {h1}
    Operators = {o1, o2}
    OtherEvents = {"out_for_delivery"}
    MaxFaults = 1
SYMMETRY Alike
INVARIANTS
    EveryItemAccounted
    CountsAgree
    ReconciledIsExplained
