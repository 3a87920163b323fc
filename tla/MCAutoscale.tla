----------------------------- MODULE MCAutoscale -----------------------------
\* A small instance of Autoscale: two processes and a container.
EXTENDS Autoscale

CONSTANTS p1, p2, s1, u1, r1, k1

Owned == [s \in Sites |-> u1]
Wealth == [u \in Users |-> 3]
Sent == [r \in Topups |-> u1]
Paid == [r \in Topups |-> 1]
Keyed == [r \in Topups |-> k1]

==============================================================================
