SPECIFICATION FairSpec
CONSTANTS
    s1 = s1
    n1 = n1
    ip1 = ip1
    ip2 = ip2
    main = main
    dev = dev
    npm_peer_conflict = npm_peer_conflict
    Sites = {s1}
    Names = {n1}
    IPs = {ip1, ip2}
    Branches = {main}
    Specific = {npm_peer_conflict}
    Budgets <- Worlds
    MaxFaults = 1
INVARIANT RecoveryNotRepeated
PROPERTY FeedMirrors
PROPERTY FailureShown
