SPECIFICATION FairSpec
CONSTANTS
    p1 = p1
    p2 = p2
    s1 = s1
    u1 = u1
    r1 = r1
    k1 = k1
    Procs = {p1, p2}
    Sites = {s1}
    Users = {u1}
    Owner <- Owned
    Start <- Wealth
    Cost = 2
    Topups = {r1}
    Payer <- Sent
    Amount <- Paid
    Key <- Keyed
    MaxChanges = 1
    MaxFaults = 2
INVARIANT BoostHasTimer
PROPERTY Charged
PROPERTY BoostEnds
CHECK_DEADLOCK FALSE
