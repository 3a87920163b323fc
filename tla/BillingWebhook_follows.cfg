SPECIFICATION BackofficeSpec
CONSTANTS
    u1 = u1
    u2 = u2
    pay = pay
    sub = sub
    q1 = q1
    q2 = q2
    v1 = v1
    Users = {u1, u2}
    Payments = {pay, sub}
    Subscriptions = {sub}
    Referenced <- Named
    Owner <- Paying
    PlanOf <- Asked
    Payer <- Card
    Payers <- Cards
    Plans <- Catalog
    Requests = {q1, q2}
    MaxEvents = 2
    MaxChanges = 2
    MaxFailures = 1
    Sites = {1}
    Addresses = {1}
    Visitors = {v1}
    Policies <- Modes
    Paths = {"login"}
    Threshold = 2
    Worlds <- OneWorlds
    NoWorld <- Nowhere
INVARIANT PlanPaid
PROPERTY AccountFollows
PROPERTY PolicyRules
CHECK_DEADLOCK FALSE
