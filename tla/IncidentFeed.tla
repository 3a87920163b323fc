---------------------------- MODULE IncidentFeed ----------------------------
(***************************************************************************)
(* The incident feed (app/services/sync_incidents_feed.py and              *)
(* app/services/incidents/): every two minutes the open alerts of four     *)
(* sources become the open rows of system_incidents, one source after the  *)
(* other, each in a transaction of its own.  It is composed with the jobs  *)
(* that open and resolve the alerts (SiteAlerts, PlatformAlerts), which    *)
(* run in other threads of the same process.                               *)
(*                                                                         *)
(* An incident is its source and its correlation key: site_alert:s:level   *)
(* is <<s, level>>, system_alert:name the name, security:type:hosting:p    *)
(* the place p, and deploy:code:user:repo the code.                        *)
(***************************************************************************)
EXTENDS PlatformAlerts

VARIABLES
    incidents,      \* open rows of system_incidents, by source
    seen,           \* the keys the query of the source in hand has returned
    feed            \* the job: the source it is at and how far

vars == <<siteVars, platformVars, incidents, seen, feed, budget, faults>>

Order == <<"security", "site", "system", "deploy">>
Sources == {Order[i] : i \in 1..4}

Resting == [pc |-> "read", at |-> 1]

Init ==
    /\ SiteInit /\ PlatformInit
    /\ incidents = [src \in Sources |-> {}]
    /\ seen = [src \in Sources |-> {}]
    /\ feed = Resting
    /\ budget \in Budgets /\ faults = 0
-----------------------------------------------------------------------------
\* sync_security_events: open events of hostings that are not deleted, and the global ones.
SecurityKeys ==
    {e.place : e \in {x \in events : x.place = "global" \/ status[x.place] # "deleted"}}

\* sync_site_alerts: open alerts of the hostings whose status is in the query's list (of
\* which 'starting' and 'error' are no status at all).
SiteKeys ==
    {k \in Sites \X Levels : alerts[k[1]][k[2]] > 0
                             /\ status[k[1]] \in {"active", "starting", "stopped", "error"}}

\* sync_deploy_events: failures with no later success.
Standing ==
    {i \in DOMAIN deploys : /\ deploys[i].outcome # "success"
                            /\ \A j \in DOMAIN deploys : j > i => deploys[j].outcome # "success"}

LatestOf(i) == {j \in Standing : j > i /\ deploys[j] = deploys[i]} = {}

\* A generic failure is left out when a specific one of the same branch is younger.
Effective ==
    {i \in Standing : LatestOf(i) /\
        (deploys[i].outcome \in Generic =>
            \A j \in Standing : (j > i /\ deploys[j].branch = deploys[i].branch)
                                    => deploys[j].outcome \in Generic)}

Raised(src) == CASE src = "security" -> SecurityKeys
                 [] src = "site"     -> SiteKeys
                 [] src = "system"   -> active
                 [] src = "deploy"   -> {deploys[i].outcome : i \in Effective}

\* After the upserts, a specific code that is open, be it an old one, supersedes the generic
\* ones of the same user and repository; then what was not seen is resolved.
Superseded ==
    IF (incidents["deploy"] \cup seen["deploy"]) \cap Specific # {} THEN Generic ELSE {}

\* (mutant) an incident leaves the feed only by hand
ReconciledUpserts(src) == incidents[src] \cup seen[src]

\* _upsert_incident of every key seen, _resolve_incident of every other.
Reconciled(src) == IF src = "deploy" THEN seen[src] \ Superseded ELSE seen[src]

Advance == IF feed.at = 4 THEN Resting ELSE [pc |-> "read", at |-> feed.at + 1]

\* The query of the source's open alerts.
ReadSource ==
    /\ feed.pc = "read"
    /\ LET src == Order[feed.at] IN seen' = [seen EXCEPT ![src] = Raised(src)]
    /\ feed' = [feed EXCEPT !.pc = "write"]
    /\ UNCHANGED incidents
    /\ Calm

\* The commit of the source's upserts and resolutions, or its rollback.
WriteSource ==
    /\ feed.pc = "write"
    /\ LET src == Order[feed.at] IN
         /\ \/ incidents' = [incidents EXCEPT ![src] = Reconciled(src)] /\ Calm
            \/ UNCHANGED incidents /\ Fault
         /\ seen' = [seen EXCEPT ![src] = {}]
    /\ feed' = Advance

Feed == (ReadSource \/ WriteSource) /\ UNCHANGED <<siteVars, platformVars>>

\* POST /admin/incidents/{incident_id}/resolve
AdminResolve(src, k) ==
    /\ incidents' = [incidents EXCEPT ![src] = @ \ {k}]
    /\ UNCHANGED <<siteVars, platformVars, seen, feed>>
    /\ Calm

\* The scheduler is restarted in the middle of its jobs.
Restart ==
    /\ check' = Idle
    /\ poll' = [pc |-> "idle", names |-> {}, todo |-> {}]
    /\ feed' = Resting
    /\ Fault
    /\ UNCHANGED <<status, condition, alerts, history, dashboard, diagnosis, recoveries, firing,
                   active, events, deploys, incidents>>
    /\ seen' = [src \in Sources |-> {}]

Beside == UNCHANGED <<incidents, seen, feed>>

Next ==
    \/ SiteNext /\ UNCHANGED platformVars /\ Beside
    \/ PlatformNext /\ UNCHANGED siteVars /\ Beside
    \/ Feed
    \/ Restart
    \/ \E src \in Sources : \E k \in incidents[src] : AdminResolve(src, k)

Spec == Init /\ [][Next]_vars

\* Each job runs in a thread of its own, again and again (scheduler_runner.py:43).
FairSpec ==
    /\ Spec
    /\ WF_vars(Cycle /\ UNCHANGED platformVars /\ Beside)
    /\ WF_vars(Poller /\ UNCHANGED siteVars /\ Beside)
    /\ WF_vars(Feed)
-----------------------------------------------------------------------------
\* Security events, site alerts and system alerts: the feed implements Mirror.  An incident
\* opens only for an alert that its source held when it was last read, an alert that stays
\* becomes an incident, and the incident of an alert that is gone is resolved, through
\* rollbacks, restarts, expired hostings and an admin who resolves.
Mirrored == {"security", "site", "system"}
Promise == INSTANCE Mirror WITH
    Sources <- Mirrored,
    Keys <- [security |-> Places, site |-> Sites \X Levels, system |-> Names],
    raised <- [src \in Mirrored |-> Raised(src)],
    seen <- [src \in Mirrored |-> seen[src]],
    shown <- [src \in Mirrored |-> incidents[src]]

FeedMirrors == Promise!Spec

\* A repository whose last deploys failed, with no success after them, has an open incident
\* in the end, although generic codes are left out, superseded and aged away
\* (sync_deploy_events.py:60-63 and 150-170), and one without such a failure has none; and
\* an alert of Prometheus reaches the incidents although the poller may fail to store it.
FailureShown ==
    /\ []<>(incidents["deploy"] = {} <=> Standing = {}) \/ []<><<deploys' # deploys>>_deploys
    /\ []<>(incidents["system"] = firing) \/ []<><<firing' # firing>>_firing

\* The recovery of a site is announced at most once between two entries with an alert
\* (health_checker.py:279: "fires exactly once on the bad -> good transition").  Left out: a
\* failed save of the entry, or a restart before it, after which it is announced again.  And
\* nothing here says that it is announced: an outage of two or more cycles is not, because
\* the entry of the second, whose alert is not repeated, has no alert type (:325), and :288
\* asks for one.
RecoveryNotRepeated == faults = 0 => \A s \in Sites : recoveries[s] <= 1
=============================================================================
