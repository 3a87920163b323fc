------------------------- MODULE MCHostingLifecycle -------------------------
\* A small instance of HostingLifecycle: the hostings of two users, with the job alone and
\* with requests beside it.
EXTENDS HostingLifecycle

CONSTANTS h1, h2, u1, u2

TwoOwners == [s \in Sites |-> IF s = h1 THEN u1 ELSE u2]
TwoBudgets == {[faults |-> 3, requests |-> 0], [faults |-> 1, requests |-> 1], [faults |-> 0, requests |-> 2]}
=============================================================================
