SPECIFICATION GitFairSpec
CONSTANTS
    c1 = c1
    c2 = c2
    Calls = {c1, c2}
    u1 = u1
    u2 = u2
    Uploads = {u1, u2}
    Strategies = {"dockerfile", "server", "static_built", "static_auto", "static_pure"}
    Projects <- SomeProjects
    Broken = {1}
    MaxPushes = 2
    MaxRedeploys = 1
    MaxUses = 2
    MaxFaults = 1
CHECK_DEADLOCK FALSE
INVARIANT RedeployComesBack
 
PROPERTY PushServed
