--------------------------- MODULE MCBillingWebhook ---------------------------
\* A small instance of Backoffice: a single payment and a subscription of one user; one site
\* with one visitor.
EXTENDS Backoffice

CONSTANTS u1, u2, pay, sub, q1, q2, v1

Paying == [p \in Payments |-> u1]
Named == Payments
Asked == [p \in Payments |-> IF p = sub THEN "personal_monthly" ELSE "personal"]
Card == [p \in Payments |-> IF p = sub THEN "" ELSE "card"]
Cards == {"", "card"}
Catalog == {"personal", "personal_monthly"}

Modes == {[enabled |-> FALSE, flags |-> {}], [enabled |-> TRUE, flags |-> {"rate_limit_wp_login"}]}
World(change, removal, fault) == [change |-> change, removal |-> removal, fault |-> fault]
Nowhere == World(99, 0, 0)
OneWorlds == {World(1, 0, 0), World(0, 1, 0), World(0, 0, 1), Nowhere}

===============================================================================
