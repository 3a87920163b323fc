--------------------------- MODULE MCIncidentFeed ---------------------------
\* A small instance of IncidentFeed: a site whose health changes three times, one that
\* is diagnosed, expires and is deleted, alerts of Prometheus, security events, and three
\* deploys.
EXTENDS IncidentFeed

CONSTANTS s1, n1, ip1, ip2, main, dev, npm_peer_conflict

Budget(site, asked, alert, event, deploy) ==
    [site |-> site, diagnosis |-> asked, alert |-> alert, event |-> event, deploy |-> deploy]

Worlds == {Budget(2, 0, 0, 0, 0), Budget(0, 1, 0, 0, 0), Budget(0, 0, 2, 0, 0),
           Budget(0, 0, 0, 1, 0), Budget(0, 0, 0, 0, 3)}

==============================================================================
