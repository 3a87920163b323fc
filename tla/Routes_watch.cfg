SPECIFICATION RoutesSpec
CONSTANTS
    c1 = c1
    Sites = {1, 2}
    Mode = "protect"
    Limit = 2
    Threshold = 2
    Budgets <- Worlds
    Names = {"a.com", "b.com"}
    Batch = 1
    Clients = {c1}
    DomainBudgets <- DomainWorlds
    RouteWorlds <- Triples
INVARIANT DeletedStaysGone
INVARIANT DomainRoutesMatch
PROPERTY IncidentsFollow
PROPERTY RoutesRecover
