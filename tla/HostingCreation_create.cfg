SPECIFICATION Spec
CONSTANTS
    free = free
    paid = paid
    git = git
    static = static
    wp = wp
    Requests = {git, static, wp}
    Users = {free, paid}
    Owner <- Accounts
    Kind <- Routes
    Name <- Subdomains
    Address <- Addresses
    AsksFree = {git, static}
    Paying = {paid}
    MaxSites <- One
    MaxFreeUsers = 2
    Patient = {free, paid}
    MaxFaults = 2
INVARIANT RowBacked
INVARIANT LimitKept
INVARIANT OneTrial
CHECK_DEADLOCK FALSE
