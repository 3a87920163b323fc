---------------------------- MODULE MCContainerOps ----------------------------
\* Small instances of ClientPanel.
\* Operations: three requests on one container from two web workers.  A tick is fifteen
\* seconds: the key lives 30 s, a stop lasts up to 20 s, a restart or start up to
\* 20 s + 3 * (1.5 s + 5 s), and so longer than its key: all three are asked for as a restart,
\* which may end as soon as a stop.
\* Fixes: one site, two applications; what fails and how often is bounded per behaviour.
\* Support: two collaborators about one ticket, or three connections to its conversation.
EXTENDS ClientPanel

CONSTANTS r1, r2, r3, p1, p2, c1

Served == [r \in Requests |-> IF r = r1 THEN p1 ELSE p2]
About == [r \in Requests |-> c1]
Hold == [restart |-> 3, start |-> 3, stop |-> 1]

Bound(d, t, o, f, r) ==
    [diagnoses |-> d, troubles |-> t, owner |-> o, failures |-> f, outages |-> r]
Repairs == {Bound(1, 1, 1, 1, 0), Bound(2, 0, 0, 1, 1)}

World(t, q, h, c, m, l, f, w) ==
    [tickets |-> t, requests |-> q, changes |-> h, connections |-> c, messages |-> m,
     lost |-> l, failures |-> f, serving |-> w]
One == <<p1, p1, p1>>
Both == <<p1, p2, p1>>
Conversations ==
    {World(1, 3, 0, 0, 0, 0, 0, One), World(2, 0, 1, 0, 0, 0, 1, One),
     World(1, 0, 0, 3, 2, 1, 0, One), World(1, 1, 0, 2, 1, 0, 0, Both)}

===============================================================================
