---------------------------- MODULE RouterGuard ----------------------------
(***************************************************************************)
(* The router guard (app/services/router_health_guard.py): a scheduler job *)
(* that probes the public routes of the platform and of the tenants, opens *)
(* and resolves incidents, and rewrites damaged platform files; the admin  *)
(* routes that probe and repair on demand                                  *)
(* (app/api/routes/admin_router_health.py); and the hostings that change,  *)
(* expire and are deleted meanwhile.                                       *)
(*                                                                         *)
(* Traefik is what the code relies on: a route exists by its file in       *)
(* /opt/traefik-dynamic, or by container labels while the Docker provider  *)
(* works.  The directory is taken to be mounted in every container that    *)
(* uses it, and tenants to be static sites.                                *)
(***************************************************************************)
EXTENDS Integers, FiniteSets

CONSTANTS
    Sites,          \* hosting ids: the guard lists the hostings in their order
    Mode,           \* ROUTER_HEALTH_REPAIR_MODE
    Limit,          \* tenants a pass looks at (100)
    Threshold,      \* tenants without a route that put the blame on the provider (3)
    Budgets         \* bounds: how many changes of each kind the world may make, and
                    \* how many calls fail or processes restart

Kinds == {"tenant", "delete", "route", "platform", "admin", "fault"}

ASSUME RouterGuardAssumption ==
    /\ Sites \subseteq Nat /\ IsFiniteSet(Sites)
    /\ Mode \in {"off", "monitor", "protect"}
    /\ Limit \in Nat /\ Threshold \in Nat
    /\ Budgets \subseteq [Kinds -> Nat]

VARIABLES
    status,         \* of the hosting
    container,      \* "running", "stopped" or "absent"
    mounted,        \* sites whose container serves the client's directory
    content,        \* sites with an index.html in that directory
    file,           \* tenant-{id}.yml: by its writer, torn, or absent
    platform,       \* the platform's route file, its service, the middleware file
    provider,       \* Traefik's Docker provider works
    incidents,      \* open router_health incidents of tenants
    alarms,         \* and those of the platform and of the provider
    guard,          \* the job
    operator,       \* the admin's call
    deleting,       \* how far the deletion of each site has come
    lost,           \* (history) what the deletion of a site has missed: its container, its file
    budget

site == <<status, container, mounted, content>>
routes == <<file, platform, provider>>
reports == <<incidents, alarms>>
rvars == <<site, routes, reports, guard, operator, deleting, lost, budget>>

Idle == [pc |-> "idle"]

GuardInit ==
    /\ status \in [Sites -> {"active", "expired", "deleted"}]
    /\ container = [s \in Sites |-> CASE status[s] = "active" -> "running"
                                      [] status[s] = "expired" -> "stopped"
                                      [] OTHER -> "absent"]
    /\ mounted = {s \in Sites : status[s] # "deleted"} /\ content = mounted
    /\ file = [s \in Sites |-> IF status[s] = "deleted" THEN "absent" ELSE "created"]
    /\ platform = [file |-> "right", service |-> TRUE, middleware |-> "right"]
    /\ provider = TRUE
    /\ incidents = {} /\ alarms = {}
    /\ guard = Idle /\ operator = Idle
    /\ deleting = [s \in Sites |-> "none"] /\ lost = {}
    /\ budget \in Budgets

Change(kind) ==
    /\ budget[kind] > 0
    /\ budget' = [budget EXCEPT ![kind] = @ - 1]
Trouble == Change("fault")
Calm == UNCHANGED budget
-----------------------------------------------------------------------------
\* Traefik: a file router needs the middleware file; a torn file is rejected, and the labels
\* route while the Docker provider works.
ByFile(s) == file[s] \in {"created", "repaired"} /\ platform.middleware = "right"
Routed(s) == ByFile(s) \/ provider

\* docker inspect, as _container_status and _has_html_mount read it
Running(s) == container[s] = "running"
HasMount(s) == container[s] # "absent" /\ s \in mounted

\* _http_check: what a public address answers.
Answer(s) ==
    CASE ~Routed(s) \/ (~ByFile(s) /\ ~Running(s)) -> "404"
      [] ~Running(s)     -> "502"
      [] ~HasMount(s)    -> "nginx page"
      [] s \notin content -> "nginx 403"
      [] OTHER           -> "page"

PlatformAnswer ==
    CASE platform.file # "right" /\ ~(provider /\ platform.service) -> "404"
      [] ~platform.service -> "502"
      [] OTHER             -> "page"

\* _classify_failure, for the answers there are here
Classified(answer) == IF answer = "404" THEN "traefik_router_missing_or_unmatched"
                                        ELSE "traefik_backend_unreachable"

\* _router_source_for_tenant: a file that is there counts, whatever is in it.
Source(s) == IF file[s] # "absent" THEN "dynamic_file"
             ELSE IF container[s] # "absent" THEN "docker_labels" ELSE "missing"

PlatformHealthy == PlatformAnswer = "page"
Served(s) == Answer(s) = "page"

\* The provisioning gate: a file of which the middle is missing has no valid structure.
PG == INSTANCE ProvisioningGate
GateStatus(s) ==
    PG!Gate(container[s], status[s] # "deleted", HasMount(s),
            IF s \in content THEN "site" ELSE "none",
            CASE file[s] = "absent" -> "none" [] file[s] = "torn" -> "invalid" [] OTHER -> "valid")

\* _check_tenant_hosting: the incident of a tenant, "none" when it is healthy.  Of the gate's
\* verdicts two count, and "routing_failed" is not one of them.
Verdict(s) ==
    CASE ~Running(s)                     -> "container_not_running"
      [] Answer(s) \in {"404", "502"}    -> Classified(Answer(s))
      [] Answer(s) = "nginx page"        -> "misconfigured_site_content"
      [] Answer(s) = "nginx 403"         -> "nginx_403_empty_index"
      [] Source(s) = "docker_labels"     -> "tenant_route_docker_labels_only"
      [] GateStatus(s) = "routing_degraded" -> "tenant_route_docker_labels_only"
      [] GateStatus(s) = "pending_content"  -> "nginx_403_empty_index"
      [] OTHER                           -> "none"

\* The hostings check_tenant_routes selects: ORDER BY hosting_id LIMIT.
\* (Of the monitored statuses the model has "active" alone.)
Monitored == {s \in Sites : status[s] = "active"}
Listed == {s \in Monitored : Cardinality({t \in Monitored : t < s}) < Limit}

Mountless(s) == container[s] # "absent" /\ s \in content /\ ~HasMount(s)
-----------------------------------------------------------------------------
\* The world.  Containers die and come back, content comes and goes, files are lost or
\* damaged by hand, the provider and the platform's service fail and recover.
TenantChange(s) ==
    /\ status[s] # "deleted" /\ deleting[s] = "none"
    /\ \/ /\ container[s] # "absent"
          /\ container' = [container EXCEPT ![s] = IF @ = "running" THEN "stopped" ELSE "running"]
          /\ UNCHANGED <<mounted, content>>
       \/ mounted' = mounted \ {s} /\ UNCHANGED <<container, content>>
       \/ /\ content' = IF s \in content THEN content \ {s} ELSE content \cup {s}
          /\ UNCHANGED <<container, mounted>>
    /\ Change("tenant")
    /\ UNCHANGED <<status, routes, reports, guard, operator, deleting, lost>>

RouteChange ==
    /\ \/ \E s \in Sites : /\ status[s] # "deleted" /\ file' = [file EXCEPT ![s] = "absent"]
                           /\ UNCHANGED <<platform, provider>>
       \/ provider' = ~provider /\ UNCHANGED <<file, platform>>
    /\ Change("route")
    /\ UNCHANGED <<site, reports, guard, operator, deleting, lost>>

PlatformChange ==
    /\ \/ \E f \in {"absent", "wrong"} : platform' = [platform EXCEPT !.file = f]
       \/ platform' = [platform EXCEPT !.middleware = "absent"]
       \/ platform' = [platform EXCEPT !.service = ~@]
    /\ Change("platform")
    /\ UNCHANGED <<site, file, provider, reports, guard, operator, deleting, lost>>

\* The expiration job stops the container.
HostingExpires(s) ==
    /\ status[s] = "active" /\ deleting[s] = "none"
    /\ status' = [status EXCEPT ![s] = "expired"]
    /\ container' = [container EXCEPT ![s] = IF @ = "absent" THEN @ ELSE "stopped"]
    /\ Change("delete")
    /\ UNCHANGED <<mounted, content, routes, reports, guard, operator, deleting, lost>>

\* _do_delete_hosting: docker rm, docker inspect, the route file, the row.
Both(s) == {<<s, "container">>, <<s, "file">>}
MountRepair(s) == operator.pc \in {"stop", "rm", "run"} /\ operator.site = s
RouteRepair(s) == operator.pc \in {"open", "write"} /\ operator.site = s
Deletes(s, from, to) == deleting[s] = from /\ deleting' = [deleting EXCEPT ![s] = to]
Elsewhere == UNCHANGED <<platform, provider, reports, guard, operator>>

DeletionBegins(s) ==
    /\ status[s] # "deleted"
    /\ Deletes(s, "none", "rm")
    /\ lost' = lost \ Both(s)
    /\ UNCHANGED <<site, file>> /\ Elsewhere

DeleteHosting(s) == DeletionBegins(s) /\ Change("delete")

\* An error of docker rm is only noted.
ContainerDeleted(s) ==
    /\ Deletes(s, "rm", "verify")
    /\ \/ /\ container' = [container EXCEPT ![s] = "absent"]
          /\ mounted' = mounted \ {s}
          /\ Calm
       \/ UNCHANGED <<container, mounted>> /\ Trouble
    /\ UNCHANGED <<status, content, file, lost>> /\ Elsewhere

\* (mutant) nobody looks whether the container is gone
GoneUnverified(s) ==
    /\ Deletes(s, "verify", "unlink")
    /\ lost' = IF MountRepair(s) THEN lost \cup Both(s) ELSE lost
    /\ Calm
    /\ UNCHANGED <<site, file>> /\ Elsewhere

\* A container that is still there ends the deletion with an error, the row kept; an inspect
\* that fails reads as a container that is gone.  A mount repair may run it again behind this.
VerifyGone(s) ==
    /\ \/ container[s] # "absent" /\ Deletes(s, "verify", "none") /\ UNCHANGED lost /\ Calm
       \/ /\ container[s] = "absent" /\ Deletes(s, "verify", "unlink")
          /\ lost' = IF MountRepair(s) THEN lost \cup Both(s) ELSE lost
          /\ Calm
       \/ /\ container[s] # "absent" /\ Deletes(s, "verify", "unlink")
          /\ lost' = lost \cup Both(s)
          /\ Trouble
    /\ UNCHANGED <<site, file>> /\ Elsewhere

\* delete_tenant_file_provider does not raise.  A route repair may write the file behind it.
FileDeleted(s) ==
    /\ Deletes(s, "unlink", "row")
    /\ \/ /\ file' = [file EXCEPT ![s] = "absent"]
          /\ lost' = IF RouteRepair(s) THEN lost \cup {<<s, "file">>} ELSE lost
          /\ Calm
       \/ /\ file[s] # "absent" /\ UNCHANGED file
          /\ lost' = lost \cup {<<s, "file">>}
          /\ Trouble
    /\ UNCHANGED site /\ Elsewhere

RowDeleted(s) ==
    /\ Deletes(s, "row", "none")
    /\ status' = [status EXCEPT ![s] = "deleted"]
    /\ content' = content \ {s}
    /\ Calm
    /\ UNCHANGED <<container, mounted, file, lost>> /\ Elsewhere

\* The database refuses or the process dies: the row stays, with what is gone by then.
DeletionDies(s) ==
    /\ deleting[s] # "none" /\ deleting' = [deleting EXCEPT ![s] = "none"]
    /\ Trouble
    /\ UNCHANGED <<site, file, lost>> /\ Elsewhere
-----------------------------------------------------------------------------
Job == UNCHANGED <<site, operator, deleting, lost>>

\* _emit_platform_incident, _emit_docker_provider_incident: a failure to save is only logged.
EmitAlarm(a) ==
    \/ alarms' = alarms \cup {a} /\ Calm
    \/ UNCHANGED alarms /\ Trouble

\* router_health_guard_job: the platform first.
CheckPlatform ==
    /\ guard.pc = "idle"
    /\ guard' = [pc |-> IF ~PlatformHealthy /\ Mode = "protect" THEN "repair" ELSE "list"]
    /\ IF PlatformHealthy
         THEN UNCHANGED alarms /\ Calm
         ELSE EmitAlarm("platform")
    /\ UNCHANGED <<routes, incidents>>
    /\ Job

PlatformFiles == {"file", "middleware"}

\* (mutant) a platform file that exists is left as it is
DifferentAbsent == {f \in PlatformFiles : platform[f] = "absent"}

Different == {f \in PlatformFiles : platform[f] # "right"}

\* ensure_platform_traefik_routes: the files whose content is not the expected one are
\* opened, which empties them, and written.  A failed write ends the repair.
OpenPlatformFile ==
    /\ guard.pc = "repair" /\ Different # {}
    /\ \/ \E f \in Different : /\ platform' = [platform EXCEPT ![f] = "torn"]
                               /\ guard' = [pc |-> "write", to |-> f]
                               /\ Calm
       \/ guard' = [pc |-> "list"] /\ Trouble /\ UNCHANGED platform
    /\ UNCHANGED <<file, provider, reports>>
    /\ Job

WritePlatformFile ==
    /\ guard.pc = "write"
    /\ \/ /\ platform' = [platform EXCEPT ![guard.to] = "right"]
          /\ guard' = [pc |-> "repair"]
          /\ Calm
       \/ guard' = [pc |-> "list"] /\ Trouble /\ UNCHANGED platform
    /\ UNCHANGED <<file, provider, reports>>
    /\ Job

PlatformEnsured ==
    /\ guard.pc = "repair" /\ Different = {}
    /\ guard' = [pc |-> "list"]
    /\ Calm
    /\ UNCHANGED <<routes, reports>>
    /\ Job

\* check_tenant_routes
ListTenants ==
    /\ guard.pc = "list"
    /\ guard' = [pc |-> "tenants", left |-> Listed, unrouted |-> 0]
    /\ Calm
    /\ UNCHANGED <<routes, reports>>
    /\ Job

ProbeTenant(s) ==
    /\ guard.pc = "tenants" /\ s \in guard.left
    /\ LET v == Verdict(s) IN
       guard' = [pc |-> "report", left |-> guard.left \ {s}, site |-> s, verdict |-> v,
                 unrouted |-> guard.unrouted
                                + IF v = "traefik_router_missing_or_unmatched" THEN 1 ELSE 0]
    /\ Calm
    /\ UNCHANGED <<routes, reports>>
    /\ Job

\* (mutant) only the incident of the same kind is resolved, and a healthy probe has none
ReportedSame(s, verdict) ==
    IF verdict = "none" THEN incidents \ {<<s, verdict>>} ELSE incidents \cup {<<s, verdict>>}

\* _emit_tenant_incident and _resolve_tenant_router_incidents
Reported(s, verdict) ==
    IF verdict = "none" THEN {i \in incidents : i[1] # s} ELSE incidents \cup {<<s, verdict>>}

Report ==
    /\ guard.pc = "report"
    /\ guard' = [pc |-> "tenants", left |-> guard.left, unrouted |-> guard.unrouted]
    /\ \/ incidents' = Reported(guard.site, guard.verdict) /\ Calm
       \/ UNCHANGED incidents /\ Trouble
    /\ UNCHANGED <<routes, alarms>>
    /\ Job

\* _check_traefik_docker_provider: the API names the provider, or not, or is out of reach,
\* or answers something else.
ApiStatus == IF provider THEN {"ok", "api_unavailable", "api_error"}
                         ELSE {"missing", "api_unavailable", "api_error"}

\* Enough tenants without a route: the Docker provider is blamed, whatever Traefik's API
\* says of it, unless the API answers with an error.
BlameProvider ==
    /\ guard.pc = "tenants" /\ guard.left = {}
    /\ guard' = [pc |-> "mounts", left |-> {s \in Sites : status[s] = "active"}]
    /\ IF guard.unrouted < Threshold
         THEN UNCHANGED alarms /\ Calm
         ELSE \E api \in ApiStatus : IF api = "api_error" THEN UNCHANGED alarms /\ Trouble
                                                         ELSE EmitAlarm("provider")
    /\ UNCHANGED <<routes, incidents>>
    /\ Job

\* check_static_container_mounts: a container without its mount while the content is there.
CheckMount(s) ==
    /\ guard.pc = "mounts" /\ s \in guard.left
    /\ IF Mountless(s)
         THEN guard' = [pc |-> "reportmount", left |-> guard.left \ {s}, site |-> s]
         ELSE guard' = [guard EXCEPT !.left = @ \ {s}]
    /\ Calm
    /\ UNCHANGED <<routes, reports>>
    /\ Job

ReportMount ==
    /\ guard.pc = "reportmount"
    /\ guard' = [pc |-> "mounts", left |-> guard.left]
    /\ \/ incidents' = Reported(guard.site, "invalid_container_mount") /\ Calm
       \/ UNCHANGED incidents /\ Trouble
    /\ UNCHANGED <<routes, alarms>>
    /\ Job

EndPass ==
    /\ guard.pc = "mounts" /\ guard.left = {}
    /\ guard' = Idle
    /\ Calm
    /\ UNCHANGED <<routes, reports>>
    /\ Job

\* The scheduler dies: what was being written stays as it is.
Restart ==
    /\ guard' = Idle /\ guard # Idle
    /\ Trouble
    /\ UNCHANGED <<routes, reports>>
    /\ Job

Guard ==
    \/ CheckPlatform \/ OpenPlatformFile \/ WritePlatformFile \/ PlatformEnsured
    \/ ListTenants \/ Report \/ BlameProvider \/ ReportMount \/ EndPass
    \/ \E s \in Sites : ProbeTenant(s) \/ CheckMount(s)
-----------------------------------------------------------------------------
\* The admin.  A check of one tenant is the guard's probe and its report.
AdminProbe(s) ==
    /\ operator = Idle /\ s \in Monitored
    /\ operator' = [pc |-> "report", site |-> s, verdict |-> Verdict(s)]
    /\ Change("admin")
    /\ UNCHANGED <<site, routes, reports, guard, deleting, lost>>

AdminReport ==
    /\ operator.pc = "report"
    /\ incidents' = Reported(operator.site, operator.verdict)
    /\ operator' = Idle
    /\ Calm
    /\ UNCHANGED <<site, routes, alarms, guard, deleting, lost>>

\* ensure_tenant_traefik_route: the preconditions, then a file that is emptied and written.
\* The file of create_hosting differs from the one written here and is replaced too.
AdminRoute(s) ==
    /\ operator = Idle
    /\ status[s] = "active" /\ container[s] = "running" /\ file[s] # "repaired"
    /\ operator' = [pc |-> "open", site |-> s]
    /\ Change("admin")
    /\ UNCHANGED <<site, routes, reports, guard, deleting, lost>>

OpenRoute ==
    /\ operator.pc = "open"
    /\ file' = [file EXCEPT ![operator.site] = "torn"]
    /\ operator' = [operator EXCEPT !.pc = "write"]
    /\ Calm
    /\ UNCHANGED <<site, platform, provider, reports, guard, deleting, lost>>

WriteRoute ==
    /\ operator.pc = "write"
    /\ \/ file' = [file EXCEPT ![operator.site] = "repaired"] /\ Calm
       \/ UNCHANGED file /\ Trouble
    /\ operator' = Idle
    /\ UNCHANGED <<site, platform, provider, reports, guard, deleting, lost>>

\* ensure_static_container_mount: the preconditions, then docker stop, rm and run, of which
\* only the result of run is looked at.
AdminMount(s) ==
    /\ operator = Idle
    /\ status[s] = "active" /\ Mountless(s)
    /\ operator' = [pc |-> "stop", site |-> s]
    /\ Change("admin")
    /\ UNCHANGED <<site, routes, reports, guard, deleting, lost>>

StopContainer ==
    /\ operator.pc = "stop"
    /\ LET s == operator.site IN
       \/ /\ container' = [container EXCEPT ![s] = IF @ = "absent" THEN @ ELSE "stopped"]
          /\ Calm
       \/ UNCHANGED container /\ Trouble
    /\ operator' = [operator EXCEPT !.pc = "rm"]
    /\ UNCHANGED <<status, mounted, content, routes, reports, guard, deleting, lost>>

RemoveContainer ==
    /\ operator.pc = "rm"
    /\ LET s == operator.site IN
       container' = [container EXCEPT ![s] = IF @ = "stopped" THEN "absent" ELSE @]
    /\ operator' = [operator EXCEPT !.pc = "run"]
    /\ Calm
    /\ UNCHANGED <<status, mounted, content, routes, reports, guard, deleting, lost>>

RunContainer ==
    /\ operator.pc = "run"
    /\ LET s == operator.site IN
       \/ /\ container[s] = "absent"
          /\ container' = [container EXCEPT ![s] = "running"]
          /\ mounted' = mounted \cup {s}
          /\ Calm
       \/ container[s] # "absent" /\ UNCHANGED <<container, mounted>> /\ Calm
       \/ container[s] = "absent" /\ UNCHANGED <<container, mounted>> /\ Trouble
    /\ operator' = Idle
    /\ UNCHANGED <<status, content, routes, reports, guard, deleting, lost>>

\* POST /admin/router-health/platform/repair writes what the job writes; resolving is by hand.
AdminPlatform ==
    /\ operator = Idle
    /\ platform' = [platform EXCEPT !.file = "right", !.middleware = "right"]
    /\ Change("admin")
    /\ UNCHANGED <<site, file, provider, reports, guard, operator, deleting, lost>>

AdminResolve ==
    /\ operator = Idle
    /\ \/ \E i \in incidents : incidents' = incidents \ {i} /\ UNCHANGED alarms
       \/ \E a \in alarms : alarms' = alarms \ {a} /\ UNCHANGED incidents
    /\ Change("admin")
    /\ UNCHANGED <<site, routes, guard, operator, deleting, lost>>

Admin ==
    \/ AdminReport \/ OpenRoute \/ WriteRoute \/ StopContainer \/ RemoveContainer
    \/ RunContainer \/ AdminPlatform \/ AdminResolve
    \/ \E s \in Sites : AdminProbe(s) \/ AdminRoute(s) \/ AdminMount(s)

DeletionStep(s) == ContainerDeleted(s) \/ VerifyGone(s) \/ FileDeleted(s)

World ==
    \/ RouteChange \/ PlatformChange
    \/ \E s \in Sites : TenantChange(s) \/ HostingExpires(s) \/ DeleteHosting(s) \/ DeletionDies(s)
    \/ \E s \in Sites : DeletionStep(s) \/ RowDeleted(s)

GuardNext == Guard \/ Restart \/ Admin \/ World

GuardSpec == GuardInit /\ [][GuardNext]_rvars

\* The job runs every minute in a thread of its own, and a request that has begun goes on.
GuardFairSpec ==
    /\ GuardSpec
    /\ WF_rvars(Guard)
    /\ WF_rvars(AdminReport \/ OpenRoute \/ WriteRoute \/ StopContainer \/ RemoveContainer
                 \/ RunContainer)
    /\ WF_rvars(\E s \in Sites : DeletionStep(s) \/ RowDeleted(s))
-----------------------------------------------------------------------------
\* When the world is done changing, a tenant of the list that visitors do not get has an open
\* incident, and one they get, by its file, has none, although probes are reported late,
\* reports fail, the scheduler restarts and an admin probes, repairs and resolves beside it.
Told(s) ==
    s \in Listed =>
        /\ ~Served(s) => \E i \in incidents : i[1] = s
        /\ Served(s) /\ file[s] # "absent" => \A i \in incidents : i[1] # s

IncidentsFollow == \A s \in Sites : []<>Told(s)

\* In "protect" a platform whose services run is reachable again in the end, also when a
\* repair dies between emptying a file and writing it.
PlatformRestored == Mode = "protect" => []<>(PlatformHealthy \/ ~platform.service)

\* A hosting whose row is deleted has neither a container nor a route file (hosting.py:515-580),
\* apart from what its deletion misses: the container when docker's failure was read as "gone"
\* or a mount repair that had read "active" was at work when the deletion looked, and then the
\* file too; the file when its unlink failed, which is swallowed, or a route repair was at work.
DeletedStaysGone ==
    \A s \in Sites : status[s] = "deleted" =>
        /\ <<s, "container">> \notin lost => container[s] = "absent"
        /\ <<s, "file">> \notin lost => file[s] = "absent"
=============================================================================
