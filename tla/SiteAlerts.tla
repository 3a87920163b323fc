----------------------------- MODULE SiteAlerts -----------------------------
(***************************************************************************)
(* The health cycle of the sites and the alerts it opens and resolves      *)
(* (app/services/health_checker.py, app/core/alert_engine.py), with the    *)
(* dashboard and the user, who resolve alerts too                          *)
(* (app/api/routes/alerts.py), and the diagnosis a client asks for         *)
(* (app/services/hosting/diagnose_service.py), which opens and resolves    *)
(* alerts without the cycle's deduplication; its proposals are in          *)
(* FixEngine.                                                              *)
(*                                                                         *)
(* A score is one of four classes: excellent (90 and more), good, warning  *)
(* (under 70) and critical (under 40, and a container that is down).  An   *)
(* alert's message depends on its level alone, so that "the message of the *)
(* last alert" is a level.                                                 *)
(***************************************************************************)
EXTENDS Integers, FiniteSets

CONSTANTS
    Sites,
    Budgets,        \* bounds: how many changes of each kind the world may make
    MaxFaults       \* bound: failed database calls and restarts

Kinds == {"site", "diagnosis", "alert", "event", "deploy"}

ASSUME SiteAlertsAssumption == Budgets \subseteq [Kinds -> Nat] /\ MaxFaults \in Nat

VARIABLES
    status,         \* hostings.status
    condition,      \* the class a probe of the site would give
    alerts,         \* open rows of site_alerts, by site and level
    history,        \* of site_health_history: the last entry, and the last alert in it
    check,          \* the cycle: the sites left, the site in hand and what was read of it
    dashboard,      \* sites whose dashboard has read a healthy score and is about to repair
    diagnosis,      \* the diagnosis in progress: its site, what it saw, and how far it is
    recoveries,     \* (history) recovery events since the last entry with an alert
    budget,         \* the changes that are left
    faults

siteVars == <<status, condition, alerts, history, check, dashboard, diagnosis, recoveries>>

Classes == {"excellent", "good", "warning", "critical"}
Problems == {"warning", "critical"}
Levels == Problems \cup {"recovery"}

Idle == [pc |-> "idle", left |-> {}]
Busy(pc, left, s, class, alert) ==
    [pc |-> pc, left |-> left, site |-> s, class |-> class, alert |-> alert]

SiteInit ==
    /\ status = [s \in Sites |-> "active"]
    /\ condition = [s \in Sites |-> "excellent"]
    /\ alerts = [s \in Sites |-> [l \in Levels |-> 0]]
    /\ history = [s \in Sites |-> [class |-> "none", alert |-> "none", message |-> "none"]]
    /\ check = Idle
    /\ dashboard = {}
    /\ diagnosis = [pc |-> "idle"]
    /\ recoveries = [s \in Sites |-> 0]

Change(kind) ==
    /\ budget[kind] > 0
    /\ budget' = [budget EXCEPT ![kind] = @ - 1]
    /\ UNCHANGED faults
Fault == faults < MaxFaults /\ faults' = faults + 1 /\ UNCHANGED budget
Calm == UNCHANGED <<budget, faults>>
-----------------------------------------------------------------------------
\* The world: a site gets better or worse, a term ends or is renewed, a hosting goes.
Fluctuate(s, class) ==
    /\ class # condition[s] /\ status[s] # "deleted"
    /\ condition' = [condition EXCEPT ![s] = class]
    /\ Change("site")
    /\ UNCHANGED <<status, alerts, history, check, dashboard, diagnosis, recoveries>>

Successor == [active |-> {"expiring", "deleted"}, expiring |-> {"expired", "active", "deleted"},
              expired |-> {"active", "deleted"}, deleted |-> {}]

Restatus(s) == \E st \in Successor[status[s]] :
    /\ status' = [status EXCEPT ![s] = st]
    /\ Change("site")
    /\ UNCHANGED <<condition, alerts, history, check, dashboard, diagnosis, recoveries>>
-----------------------------------------------------------------------------
\* check_all_hostings
StartCycle ==
    /\ check.pc = "idle"
    /\ check' = [pc |-> "next",
                 left |-> {s \in Sites : status[s] \notin {"deleted", "expired", "not_found"}}]
    /\ Calm
    /\ UNCHANGED <<status, condition, alerts, history, dashboard, diagnosis, recoveries>>

\* process_alerts: an alert, unless its message is that of the last one stored.
ProcessAlerts(s, class) ==
    IF class \in Problems /\ history[s].message # class THEN class ELSE "none"

Recovering(s, class, alert) ==
    class \notin Problems /\ alert = "none" /\ history[s].alert \in Problems

\* Probe the site, score it, read its history and decide what the cycle does next.
Probe(s) ==
    /\ check.pc = "next" /\ s \in check.left
    /\ LET class == condition[s]
           alert == ProcessAlerts(s, class)
           pc == CASE alert # "none" -> "alert"
                   [] Recovering(s, class, alert) -> "resolve"
                   [] OTHER -> "save"
       IN  check' = Busy(pc, check.left \ {s}, s, class, alert)
    /\ Calm
    /\ UNCHANGED <<status, condition, alerts, history, dashboard, diagnosis, recoveries>>

\* A probe that raises (docker does not answer, the pool is exhausted) skips the site.
ProbeFails(s) ==
    /\ check.pc = "next" /\ s \in check.left
    /\ check' = [check EXCEPT !.left = @ \ {s}]
    /\ Fault
    /\ UNCHANGED <<status, condition, alerts, history, dashboard, diagnosis, recoveries>>

Opened(s, l) == [alerts EXCEPT ![s][l] = @ + 1]
ResolveOpen(s) == [alerts EXCEPT ![s] = [l \in Levels |-> IF l \in Problems THEN 0 ELSE @[l]]]

\* The writes of the cycle are transactions of their own that report a failure by their
\* return value, which the cycle does not look at.
CreateAlert ==
    /\ check.pc = "alert"
    /\ check' = [check EXCEPT !.pc = "save"]
    /\ \/ alerts' = Opened(check.site, check.alert) /\ Calm
       \/ UNCHANGED alerts /\ Fault
    /\ UNCHANGED <<status, condition, history, dashboard, diagnosis, recoveries>>

ResolveAlerts ==
    /\ check.pc = "resolve"
    /\ check' = [check EXCEPT !.pc = "recovery"]
    /\ \/ alerts' = ResolveOpen(check.site) /\ Calm
       \/ UNCHANGED alerts /\ Fault
    /\ UNCHANGED <<status, condition, history, dashboard, diagnosis, recoveries>>

RecoveryEvent ==
    /\ check.pc = "recovery"
    /\ check' = [check EXCEPT !.pc = "save"]
    /\ \/ /\ alerts' = Opened(check.site, "recovery")
          /\ recoveries' = [recoveries EXCEPT ![check.site] = @ + 1]
          /\ Calm
       \/ UNCHANGED <<alerts, recoveries>> /\ Fault
    /\ UNCHANGED <<status, condition, history, dashboard, diagnosis>>

\* save_health_entry, of a cycle or a diagnosis that alerted of something or of "none".
Store(s, entry, alert) ==
    /\ history' = [history EXCEPT ![s] = entry]
    /\ recoveries' = [recoveries EXCEPT ![s] = IF alert = "none" THEN @ ELSE 0]

\* (mutant) the entry carries the type of the last alert until there is another
SavedAgain == [class |-> check.class,
               alert |-> IF check.alert = "none" THEN history[check.site].message ELSE check.alert,
               message |-> IF check.alert = "none" THEN history[check.site].message ELSE check.alert]

Saved == [class |-> check.class, alert |-> check.alert,
          message |-> IF check.alert = "none" THEN history[check.site].message ELSE check.alert]

SaveEntry ==
    /\ check.pc = "save"
    /\ check' = [pc |-> "next", left |-> check.left]
    /\ \/ Store(check.site, Saved, check.alert) /\ Calm
       \/ UNCHANGED <<history, recoveries>> /\ Fault
    /\ UNCHANGED <<status, condition, alerts, dashboard, diagnosis>>

EndCycle ==
    /\ check.pc = "next" /\ check.left = {}
    /\ check' = Idle
    /\ Calm
    /\ UNCHANGED <<status, condition, alerts, history, dashboard, diagnosis, recoveries>>

Cycle ==
    \/ StartCycle \/ CreateAlert \/ ResolveAlerts \/ RecoveryEvent \/ SaveEntry \/ EndCycle
    \/ \E s \in Sites : Probe(s) \/ ProbeFails(s)
-----------------------------------------------------------------------------
\* The dashboard reads the last score of an active site (100 when there is none) and,
\* when it is 90 or more, resolves the site's open alerts in a second call.
RepairOnRead(s) ==
    /\ s \notin dashboard /\ status[s] = "active"
    /\ history[s].class \in {"none", "excellent"}
    /\ dashboard' = dashboard \cup {s}
    /\ Calm
    /\ UNCHANGED <<status, condition, alerts, history, check, diagnosis, recoveries>>

Repair(s) ==
    /\ s \in dashboard
    /\ dashboard' = dashboard \ {s}
    /\ alerts' = ResolveOpen(s)
    /\ Calm
    /\ UNCHANGED <<status, condition, history, check, diagnosis, recoveries>>

\* POST /alerts/{alert_id}/resolve
ResolveAlert(s, l) ==
    /\ alerts[s][l] > 0
    /\ alerts' = [alerts EXCEPT ![s][l] = @ - 1]
    /\ Calm
    /\ UNCHANGED <<status, condition, history, check, dashboard, diagnosis, recoveries>>

\* diagnose_hosting: what is seen of the site is stored, then alerted of, or, when it is
\* excellent, its alerts are resolved.  A container that docker does not inspect is down.
Diagnose(s) ==
    /\ diagnosis.pc = "idle"
    /\ \E class \in {condition[s], "critical"} :
        /\ status[s] = "deleted" => class = "critical"
        /\ diagnosis' = [pc |-> "entry", site |-> s, class |-> class]
    /\ Change("diagnosis")
    /\ UNCHANGED <<status, condition, alerts, history, check, dashboard, recoveries>>

DiagnosisStored ==
    LET class == diagnosis.class alert == IF class \in Problems THEN class ELSE "none" IN
    /\ diagnosis.pc = "entry"
    /\ \/ /\ Store(diagnosis.site,
                   [class |-> class, alert |-> alert,
                    message |-> IF alert = "none" THEN history[diagnosis.site].message ELSE alert],
                   alert)
          /\ Calm
       \/ UNCHANGED <<history, recoveries>> /\ Fault
    /\ diagnosis' = IF class = "good" THEN [pc |-> "idle"] ELSE [diagnosis EXCEPT !.pc = "alerts"]
    /\ UNCHANGED <<status, condition, alerts, check, dashboard>>

DiagnosisAlerts ==
    /\ diagnosis.pc = "alerts"
    /\ \/ /\ alerts' = IF diagnosis.class \in Problems THEN Opened(diagnosis.site, diagnosis.class)
                        ELSE ResolveOpen(diagnosis.site)
          /\ Calm
       \/ UNCHANGED alerts /\ Fault
    /\ diagnosis' = [pc |-> "idle"]
    /\ UNCHANGED <<status, condition, history, check, dashboard, recoveries>>

Reader ==
    \/ \E s \in Sites :
        RepairOnRead(s) \/ Repair(s) \/ Diagnose(s) \/ \E l \in Levels : ResolveAlert(s, l)
    \/ DiagnosisStored \/ DiagnosisAlerts

World == \E s \in Sites : Restatus(s) \/ \E class \in Classes : Fluctuate(s, class)

SiteNext == Cycle \/ Reader \/ World

=============================================================================
