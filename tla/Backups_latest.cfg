SPECIFICATION FairSpec
CONSTANTS
    h1 = h1
    sched = sched
    req1 = req1
    janitor = janitor
    admin = admin
    client = client
    Hostings = {h1}
    Automatic = {h1}
    PlanMax <- LimitOne
    PolicyMax <- LimitOne
    EnvMax = 1
    Schedulers = {sched}
    Requests = {req1}
    Retainers = {janitor}
    Admins = {admin}
    Deleters = {}
    Triggers = {"manual"}
    DeleteRoutes = {}
    ProtectValues = {}
    MaxBackups = 3
    MaxErrors = 1
    MaxFaults = 1
    MaxTroubles = 1
    e1 = e1
    e2 = e2
    m1 = m1
    r1 = r1
    r2 = r2
    Editors = {}
    Updates = {}
    MaxEdits = 0
    MaxStops = 0
    Makers = {}
    Removers = {}
    MaxRows = 0
    MaxSeconds = 1
    MaxBreaks = 0
    Worlds = {"tenant"}
 
PROPERTY BackupEnds
CHECK_DEADLOCK FALSE
