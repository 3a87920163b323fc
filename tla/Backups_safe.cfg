SPECIFICATION BackupsSpec
CONSTANTS
    h1 = h1
    sched = sched
    req1 = req1
    janitor = janitor
    admin = admin
    client = client
    Hostings = {h1}
    Automatic = {h1}
    PlanMax <- LimitOne
    PolicyMax <- LimitOne
    EnvMax = 1
    Schedulers = {sched}
    Requests = {req1}
    Retainers = {janitor}
    Admins = {}
    Deleters = {client}
    Triggers = {"internal"}
    DeleteRoutes = {"tenant", "any"}
    ProtectValues = {TRUE}
    MaxBackups = 2
    MaxErrors = 1
    MaxFaults = 1
    MaxTroubles = 1
    e1 = e1
    e2 = e2
    m1 = m1
    r1 = r1
    r2 = r2
    Editors = {e1, e2}
    Updates <- Bodies
    MaxEdits = 2
    MaxStops = 1
    Makers = {m1}
    Removers = {r1, r2}
    MaxRows = 2
    MaxSeconds = 2
    MaxBreaks = 1
    Worlds = {"tenant", "policy", "instance"}
INVARIANT RunningUntouched
INVARIANT CompletedHasFiles
INVARIANT PayloadsMatch
PROPERTY DeletedNotRestored
PROPERTY PauseHeld
CHECK_DEADLOCK FALSE
