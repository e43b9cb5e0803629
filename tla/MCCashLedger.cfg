SPECIFICATION LedgerSpec
CONSTANTS
    Parcels = {p1, p2}
    Drivers = {d1}
    Merchants = {m1}
    Hubs = {h1}
    Tenant = Tenant
    Remittances = {r1}
    Settlements = {s1, s2}
    Expenses = {x1}
    Complaints = {c1}
    Clerks = {u1, u2}
    Keys = {k1, k2}
    Amounts = {0, 1, 2}
    Nothing = Nothing
    MaxOpened = 2
INVARIANTS
    PostedOnceIfSettled
    BalanceIsTheSum
    PaidOutOnce
SYMMETRY Alike
CHECK_DEADLOCK FALSE
