--------------------------- MODULE PlatformAlerts ---------------------------
(***************************************************************************)
(* The other sources of the incident feed: the alerts Prometheus fires     *)
(* (app/services/prometheus_alert_poller.py), the security events          *)
(* (app/services/security_event_service.py,                                *)
(* app/services/aggregate_wp_attacks.py) and the outcomes of git deploys   *)
(* (app/services/deploy_diagnostics.py).                                   *)
(*                                                                         *)
(* The deploys are those of one user and one repository: nothing relates   *)
(* the events of two.  Security events are of one type; "global" stands    *)
(* for hosting_id NULL.                                                    *)
(***************************************************************************)
EXTENDS SiteAlerts, Sequences

CONSTANTS
    Names,          \* names of Prometheus alerts
    IPs,
    Branches,
    Specific        \* deploy error codes that name a cause

Generic == {"build_failed"}     \* _GENERIC_DEPLOY_CODES
Codes == Generic \cup Specific
Places == Sites \cup {"global"}

VARIABLES
    firing,         \* what Prometheus fires
    poll,           \* the poller: the names it fetched and has not stored yet
    active,         \* system_alert_events with resolved_at NULL: a unique index on the name
    events,         \* open rows of security_events; fresh ones are 5 minutes old at most
    deploys         \* deploy_events of the last 7 days, the oldest first

platformVars == <<firing, poll, active, events, deploys>>

PlatformInit ==
    /\ firing = {}
    /\ poll = [pc |-> "idle", names |-> {}, todo |-> {}]
    /\ active = {}
    /\ events = {}
    /\ deploys = << >>
-----------------------------------------------------------------------------
\* poll_prometheus_alerts
Fire(n) ==
    /\ firing' = IF n \in firing THEN firing \ {n} ELSE firing \cup {n}
    /\ Change("alert")
    /\ UNCHANGED <<poll, active, events, deploys>>

Fetch ==
    /\ poll.pc = "idle"
    /\ poll' = [pc |-> "store", names |-> firing, todo |-> firing]
    /\ Calm
    /\ UNCHANGED <<firing, active, events, deploys>>

\* INSERT ... ON CONFLICT DO NOTHING; a failure is logged, and the name stays in the set
\* that is still firing.
UpsertFiring(n) ==
    /\ n \in poll.todo
    /\ poll' = [poll EXCEPT !.todo = @ \ {n}]
    /\ \/ active' = active \cup {n} /\ Calm
       \/ UNCHANGED active /\ Fault
    /\ UNCHANGED <<firing, events, deploys>>

\* (mutant) no UPDATE when nothing fires: NOT IN () is no SQL
ResolveNotInSome ==
    /\ poll.pc = "store" /\ poll.todo = {}
    /\ poll' = [pc |-> "idle", names |-> {}, todo |-> {}]
    /\ active' = (IF poll.names = {} THEN active ELSE active \cap poll.names) /\ Calm
    /\ UNCHANGED <<firing, events, deploys>>

ResolveNotIn ==
    /\ poll.pc = "store" /\ poll.todo = {}
    /\ poll' = [pc |-> "idle", names |-> {}, todo |-> {}]
    /\ \/ active' = active \cap poll.names /\ Calm
       \/ UNCHANGED active /\ Fault
    /\ UNCHANGED <<firing, events, deploys>>

Poller == Fetch \/ ResolveNotIn \/ \E n \in Names : UpsertFiring(n)
-----------------------------------------------------------------------------
Event(p, ip) == [place |-> p, ip |-> ip, fresh |-> TRUE]

\* uq_open_wp_security_event: one open row for a type and a hosting; NULLs never conflict.
Conflicting(p) == p # "global" /\ \E e \in events : e.place = p

\* log_security_event: increment the fresh row of the same address, else insert one.  The
\* unique index refuses a second row of a hosting, and the exception is swallowed.
LogEvent(p, ip) ==
    /\ Change("event")
    /\ events' = IF Conflicting(p) THEN events ELSE events \cup {Event(p, ip)}
    /\ UNCHANGED <<firing, poll, active, deploys>>

\* aggregate_wp_attacks: INSERT ... ON CONFLICT (event_type, hosting_id) DO UPDATE
Upserted(s, ip) == IF Conflicting(s) THEN events ELSE events \cup {Event(s, ip)}

\* A rule finds enough attempts on a hosting that is neither deleted nor expired.
Attack(s, ip) ==
    /\ status[s] \notin {"deleted", "expired"}
    /\ Change("event")
    /\ events' = Upserted(s, ip)
    /\ UNCHANGED <<firing, poll, active, deploys>>

EventAges(e) ==
    /\ e \in events /\ e.fresh
    /\ events' = (events \ {e}) \cup {[e EXCEPT !.fresh = FALSE]}
    /\ Calm
    /\ UNCHANGED <<firing, poll, active, deploys>>

\* resolve_security_event
ResolveEvent(e) ==
    /\ e \in events
    /\ events' = events \ {e}
    /\ Calm
    /\ UNCHANGED <<firing, poll, active, deploys>>

Security ==
    \/ \E ip \in IPs : \/ \E p \in Places : LogEvent(p, ip)
                       \/ \E s \in Sites : Attack(s, ip)
    \/ \E e \in events : EventAges(e) \/ ResolveEvent(e)
-----------------------------------------------------------------------------
\* record_deploy_event
RecordDeploy(b, outcome) ==
    /\ deploys' = Append(deploys, [branch |-> b, outcome |-> outcome])
    /\ Change("deploy")
    /\ UNCHANGED <<firing, poll, active, events>>

\* The oldest event leaves the window of 7 days.
DeployAges ==
    /\ deploys # << >>
    /\ deploys' = Tail(deploys)
    /\ Calm
    /\ UNCHANGED <<firing, poll, active, events>>

Deploying ==
    DeployAges \/ \E b \in Branches, o \in Codes \cup {"success"} : RecordDeploy(b, o)

PlatformNext == Poller \/ Security \/ Deploying \/ \E n \in Names : Fire(n)

=============================================================================
