------------------------------ MODULE MCRoutes ------------------------------
\* A small instance of Routes: the guard's worlds of two tenants, in which no domain is
\* touched, and worlds in which two domains are added, verified, deleted and terminated.
EXTENDS Routes

CONSTANT c1

Budget(tenant, delete, route, plat, admin, fault) ==
    [fault |-> fault, tenant |-> tenant, delete |-> delete, route |-> route, platform |-> plat, admin |-> admin]

DomainBudget(add, dns, verify, remove, fault) ==
    [add |-> add, dns |-> dns, verify |-> verify, remove |-> remove, fault |-> fault]

GuardWorlds == {Budget(1, 1, 0, 0, 1, 0), Budget(1, 1, 0, 0, 0, 1), Budget(0, 0, 1, 2, 1, 0), Budget(0, 0, 1, 1, 1, 1),
                Budget(2, 0, 1, 0, 0, 1), Budget(0, 1, 0, 0, 0, 2), Budget(0, 1, 0, 0, 1, 1)}

Still == Budget(0, 0, 0, 0, 0, 0)
OneDeleted == Budget(0, 1, 0, 0, 0, 0)
Worlds == GuardWorlds \cup {Still, OneDeleted}

Untouched == DomainBudget(0, 0, 0, 0, 0)
TwoAdded == DomainBudget(2, 2, 0, 1, 0)
OneVerified == DomainBudget(1, 1, 1, 1, 1)
NoneRemoved == DomainBudget(1, 1, 1, 0, 1)
DomainWorlds == {Untouched, TwoAdded, OneVerified, NoneRemoved}

Triples ==
    {<<[s \in Sites |-> "active"], b, Untouched>> : b \in GuardWorlds}
        \cup {<<[s \in Sites |-> IF s = 1 THEN "expired" ELSE "deleted"], b[1], b[2]>> :
                b \in {<<Still, TwoAdded>>, <<Still, OneVerified>>, <<OneDeleted, NoneRemoved>>}}
=============================================================================
