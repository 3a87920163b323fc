-------------------------- MODULE HostingLifecycle --------------------------
(***************************************************************************)
(* The life of a hosting after its creation: the expiration job of the     *)
(* scheduler (app/services/expiration_job.py), the admin and client routes *)
(* that stop, start, upgrade and delete a hosting (app/api/routes/admin.py,*)
(* hosting.py, billing.py), over hostings and users in PostgreSQL and the  *)
(* containers of the Docker daemon.                                        *)
(*                                                                         *)
(* A step is one transaction or one docker command: every route and every  *)
(* worker of the job reads a row in one step, runs docker in another and   *)
(* writes the status, by hosting_id alone, in a third.                     *)
(***************************************************************************)
EXTENDS Naturals, FiniteSets, FiniteSetsExt

CONSTANTS
    Sites,          \* hosting_id values; each has one container, named after it
    Users,          \* user_id values
    Owner,          \* hostings.user_id
    Batch,          \* batch_size of the two paged loops of the job (50)
    AdminOps,       \* what the admin may ask for, of AdminRequests
    UserOps,        \* what a client may ask for, of {"start", "stop", "delete"}
    Payments,       \* users who may pay through the billing webhook
    Budgets         \* bounds, one per behaviour: docker commands that fail or time out and
                    \* crashes; requests of admin and client, and payments

AdminRequests == {"stop", "start", "upgrade", "extend", "forever", "deactivate",
                  "purge", "cleanup"}

ASSUME LifecycleAssumption ==
    /\ IsFiniteSet(Sites) /\ Sites # {}
    /\ Owner \in [Sites -> Users]
    /\ Batch \in Nat \ {0}
    /\ AdminOps \subseteq AdminRequests
    /\ UserOps \subseteq {"start", "stop", "delete"}
    /\ Payments \subseteq Users
    /\ Budgets \subseteq [faults : Nat, requests : Nat]

VARIABLES
    hosting,    \* hostings: status and plan of each row, status "none" once the row is gone
    account,    \* users: plan and plan_expires_at
    age,        \* time since hostings.created_at, as the job's queries tell it apart
    docker,     \* the state of each container
    job,        \* the expiration job: the cycle's program counter and locals
    worker,     \* _expire_single in the thread pool, one call per hosting at most
    admin,      \* the admin request in progress
    client,     \* the client's DELETE request in progress
    faults,     \* faults so far
    requests,   \* requests begun so far
    bound       \* the budget of this behaviour

vars == <<hosting, account, age, docker, job, worker, admin, client, faults, requests, bound>>

Statuses == {"active", "active_with_placeholder", "stopped", "expiring", "expired",
             "deleted", "none"}
Hosting == [status: Statuses, plan: {"free", "paid"}]
\* plan_expires_at: NULL, a date to come, a date in the past, 2099-...
Account == [plan: {"free", "paid"}, expires: {"null", "future", "past", "2099"}]
\* up to 30 minutes, up to FREE_PLAN_DAYS, more
Age == {"fresh", "trial", "over"}
Container == {"up", "exited", "absent"}

JobPC == {"idle", "recover", "recovered", "scan", "pool", "clean", "removing", "removed"}
Job == [pc: JobPC,
        todo: SUBSET Sites,                   \* rows of the last SELECT not handled yet
        site: Sites,                          \* the row in hand
        ok: BOOLEAN,                          \* returncode == 0 of its docker stop
        offset: 0..(2 * Cardinality(Sites) + Batch)]

Worker == {"none", "queued", "marked", "stopped", "failed"}

AnySite == CHOOSE s \in Sites : TRUE

IdleJob == [pc |-> "idle", todo |-> {}, site |-> AnySite, ok |-> FALSE, offset |-> 0]
IdleAdmin == [op |-> "idle", site |-> AnySite, todo |-> {}, live |-> {}]
IdleClient == [op |-> "idle", site |-> AnySite]

-----------------------------------------------------------------------------
\* What the queries of HostingRepository select

WithStatus(st) == {s \in Sites : hosting[s].status = st}

\* A row that is gone is not brought back: UPDATE ... WHERE hosting_id matches nothing.
UpdateStatus(s, st) ==
    hosting' = IF hosting[s].status = "none" THEN hosting
               ELSE [hosting EXCEPT ![s].status = st]

\* days_remaining <= 0
DaysOver(s) ==
    CASE account[Owner[s]].expires = "null" -> age[s] = "over"
      [] account[Owner[s]].expires = "past" -> TRUE
      [] OTHER -> FALSE

\* get_expiring_free_hostings without its LIMIT and OFFSET
ExpiringFree == {s \in WithStatus("active") : hosting[s].plan = "free"}

\* The hostings a full scan would expire.
Due == {s \in ExpiringFree : DaysOver(s)}

\* (mutant) no recovery
StaleNever == {}

\* get_stale_expiring_hostings: the minutes are counted from created_at
StaleExpiring == {s \in WithStatus("expiring") : age[s] # "fresh"}

\* LIMIT Batch OFFSET offset without ORDER BY: any page of the right length.
Pages(S, offset) ==
    LET left == Cardinality(S) - offset IN
    IF left <= 0 THEN {{}} ELSE kSubset(IF left < Batch THEN left ELSE Batch, S)

-----------------------------------------------------------------------------
\* The docker commands.  A fault is a daemon that refuses, or does not answer in
\* the timeout of subprocess.run; in the latter case it may still have acted.

Fault == faults < bound.faults /\ faults' = faults + 1
NoFault == UNCHANGED faults

\* docker stop exits 0 when the container exists.
StopSucceeds(s) ==
    /\ docker[s] # "absent"
    /\ docker' = [docker EXCEPT ![s] = "exited"]
    /\ NoFault

StopFails(s) ==
    /\ UNCHANGED docker
    /\ IF docker[s] = "absent" THEN NoFault ELSE Fault

StopTimesOut(s) ==
    /\ Fault
    /\ \E d \in {docker[s], IF docker[s] = "up" THEN "exited" ELSE docker[s]} :
            docker' = [docker EXCEPT ![s] = d]

\* docker rm -f exits 0 or, the container being absent, 1; the callers accept both.
RemoveSucceeds(s) == docker' = [docker EXCEPT ![s] = "absent"] /\ NoFault
RemoveFails(s) == docker[s] # "absent" /\ UNCHANGED docker /\ Fault

RemoveTimesOut(s) ==
    /\ Fault
    /\ \E d \in {docker[s], "absent"} : docker' = [docker EXCEPT ![s] = d]

StartContainer(s) ==
    docker' = IF docker[s] = "exited" THEN [docker EXCEPT ![s] = "up"] ELSE docker

-----------------------------------------------------------------------------
\* The expiration job

\* check_and_expire_free_hostings begins with _recover_stale_expiring
BeginCycle ==
    /\ job.pc = "idle"
    /\ job' = [IdleJob EXCEPT !.pc = IF StaleExpiring = {} THEN "scan" ELSE "recover",
                              !.todo = StaleExpiring]
    /\ UNCHANGED <<hosting, account, age, docker, worker, admin, client, faults, requests>>

\* docker stop of one stale hosting; TimeoutExpired leaves the whole loop
RecoverStop(s) ==
    /\ job.pc = "recover" /\ s \in job.todo
    /\ \/ StopSucceeds(s) /\ job' = [job EXCEPT !.pc = "recovered", !.site = s, !.ok = TRUE]
       \/ StopFails(s) /\ job' = [job EXCEPT !.pc = "recovered", !.site = s, !.ok = FALSE]
       \/ StopTimesOut(s) /\ job' = [job EXCEPT !.pc = "scan", !.todo = {}]
    /\ UNCHANGED <<hosting, account, age, worker, admin, client, requests>>

RecoveredStatus == IF job.ok THEN "expired" ELSE "active"

RecoverUpdate ==
    /\ job.pc = "recovered"
    /\ UpdateStatus(job.site, RecoveredStatus)
    /\ LET rest == job.todo \ {job.site} IN
       job' = [job EXCEPT !.todo = rest, !.pc = IF rest = {} THEN "scan" ELSE "recover"]
    /\ UNCHANGED <<account, age, docker, worker, admin, client, faults, requests>>

\* One page of the while loop; the due hostings go to the thread pool.
ScanBatch ==
    /\ job.pc = "scan"
    /\ \E page \in Pages(ExpiringFree, job.offset) :
        IF page = {}
        THEN /\ job' = [job EXCEPT !.pc = "clean", !.offset = 0]
             /\ UNCHANGED worker
        ELSE /\ job' = [job EXCEPT !.offset = @ + Batch,
                                   !.pc = IF page \cap Due = {} THEN "scan" ELSE "pool"]
             /\ worker' = [s \in Sites |-> IF s \in page \cap Due THEN "queued" ELSE "none"]
    /\ UNCHANGED <<hosting, account, age, docker, admin, client, faults, requests>>

\* UPDATE ... WHERE hosting_id: the plan and the term are not read again.
ExpireMark(s) ==
    /\ worker[s] = "queued"
    /\ UpdateStatus(s, "expiring")
    /\ worker' = [worker EXCEPT ![s] = "marked"]
    /\ UNCHANGED <<account, age, docker, job, admin, client, faults, requests>>

\* An exception of the worker ends its future and leaves the row 'expiring'.
ExpireStop(s) ==
    /\ worker[s] = "marked"
    /\ \/ StopSucceeds(s) /\ worker' = [worker EXCEPT ![s] = "stopped"]
       \/ StopFails(s) /\ worker' = [worker EXCEPT ![s] = "failed"]
       \/ StopTimesOut(s) /\ worker' = [worker EXCEPT ![s] = "none"]
    /\ UNCHANGED <<hosting, account, age, job, admin, client, requests>>

\* (mutant) no rollback
ExpiredStatusAlways(s) == "expired"

ExpiredStatus(s) == IF worker[s] = "stopped" THEN "expired" ELSE "active"

ExpireUpdate(s) ==
    /\ worker[s] \in {"stopped", "failed"}
    /\ UpdateStatus(s, ExpiredStatus(s))
    /\ worker' = [worker EXCEPT ![s] = "none"]
    /\ UNCHANGED <<account, age, docker, job, admin, client, faults, requests>>

\* The `with ThreadPoolExecutor` block waits for all of its futures.
PoolDone ==
    /\ job.pc = "pool"
    /\ \A s \in Sites : worker[s] = "none"
    /\ job' = [job EXCEPT !.pc = "scan"]
    /\ UNCHANGED <<hosting, account, age, docker, worker, admin, client, faults, requests>>

\* get_expired_hostings without its LIMIT and OFFSET
AwaitingCleanup == WithStatus("expired")

CleanBatch ==
    /\ job.pc = "clean"
    /\ \E page \in Pages(AwaitingCleanup, job.offset) :
        IF page = {}
        THEN job' = IdleJob
        ELSE job' = [job EXCEPT !.pc = "removing", !.todo = page, !.offset = @ + Batch]
    /\ UNCHANGED <<hosting, account, age, docker, worker, admin, client, faults, requests>>

AfterRow(s) ==
    LET rest == job.todo \ {s} IN
    [job EXCEPT !.todo = rest, !.site = s, !.pc = IF rest = {} THEN "clean" ELSE "removing"]

\* docker rm -f; whatever it exits with the row is soft-deleted, unless it times out.
CleanRemove(s) ==
    /\ job.pc = "removing" /\ s \in job.todo
    /\ \/ /\ RemoveSucceeds(s) \/ RemoveFails(s)
          /\ job' = [job EXCEPT !.pc = "removed", !.site = s]
       \/ RemoveTimesOut(s) /\ job' = AfterRow(s)
    /\ UNCHANGED <<hosting, account, age, worker, admin, client, requests>>

MarkDeleted ==
    /\ job.pc = "removed"
    /\ UpdateStatus(job.site, "deleted")
    /\ job' = AfterRow(job.site)
    /\ UNCHANGED <<account, age, docker, worker, admin, client, faults, requests>>

\* The scheduler process is restarted: the job and its pool are gone.
Crash ==
    /\ job.pc # "idle"
    /\ Fault
    /\ job' = IdleJob
    /\ worker' = [s \in Sites |-> "none"]
    /\ UNCHANGED <<hosting, account, age, docker, admin, client, requests>>

-----------------------------------------------------------------------------
\* The admin's routes

Request == requests < bound.requests /\ requests' = requests + 1

\* admin_stop_hosting, admin_start_hosting, admin_force_cleanup: get_hosting_any
AdminHosting(op, s) ==
    /\ admin.op = "idle" /\ op \in AdminOps \cap {"stop", "start", "cleanup"}
    /\ hosting[s].status # "none"
    /\ Request
    /\ admin' = [admin EXCEPT !.op = op, !.site = s]
    /\ UNCHANGED <<hosting, account, age, docker, job, worker, client, faults>>

\* The exit code of docker is not looked at; TimeoutExpired ends the request.
AdminStop ==
    /\ admin.op = "stop"
    /\ LET s == admin.site IN
       \/ /\ StopSucceeds(s) \/ StopFails(s)
          /\ admin' = [admin EXCEPT !.op = "set_stopped"]
       \/ StopTimesOut(s) /\ admin' = IdleAdmin
    /\ UNCHANGED <<hosting, account, age, job, worker, client, requests>>

AdminStart ==
    /\ admin.op = "start"
    /\ \/ StartContainer(admin.site) /\ NoFault /\ admin' = [admin EXCEPT !.op = "set_active"]
       \/ /\ StartContainer(admin.site) \/ UNCHANGED docker
          /\ Fault /\ admin' = IdleAdmin
    /\ UNCHANGED <<hosting, account, age, job, worker, client, requests>>

AdminSetStatus ==
    /\ admin.op \in {"set_stopped", "set_active"}
    /\ UpdateStatus(admin.site, IF admin.op = "set_stopped" THEN "stopped" ELSE "active")
    /\ admin' = IdleAdmin
    /\ UNCHANGED <<account, age, docker, job, worker, client, faults, requests>>

\* admin_force_cleanup: docker rm -f, then the row goes whatever docker said.
AdminCleanup ==
    /\ admin.op = "cleanup"
    /\ \/ /\ RemoveSucceeds(admin.site) \/ RemoveFails(admin.site)
          /\ admin' = [admin EXCEPT !.op = "hard_delete"]
       \/ RemoveTimesOut(admin.site) /\ admin' = IdleAdmin
    /\ UNCHANGED <<hosting, account, age, job, worker, client, requests>>

AdminHardDelete ==
    /\ admin.op = "hard_delete"
    /\ hosting' = [hosting EXCEPT ![admin.site].status = "none"]
    /\ admin' = IdleAdmin
    /\ UNCHANGED <<account, age, docker, job, worker, client, faults, requests>>

\* admin_purge_deleted_hostings: SELECT, then one hard delete per row.
AdminPurge ==
    /\ admin.op = "idle" /\ "purge" \in AdminOps
    /\ WithStatus("deleted") # {}
    /\ Request
    /\ admin' = [admin EXCEPT !.op = "purge", !.todo = WithStatus("deleted")]
    /\ UNCHANGED <<hosting, account, age, docker, job, worker, client, faults>>

PurgeRow(s) ==
    /\ admin.op = "purge" /\ s \in admin.todo
    /\ hosting' = [hosting EXCEPT ![s].status = "none"]
    /\ admin' = IF admin.todo = {s} THEN IdleAdmin ELSE [admin EXCEPT !.todo = @ \ {s}]
    /\ UNCHANGED <<account, age, docker, job, worker, client, faults, requests>>

\* extend, free-forever and deactivate write users.plan_expires_at of a free user.
NewExpiry(op) ==
    CASE op = "extend" -> "future" [] op = "forever" -> "2099" [] op = "deactivate" -> "past"

AdminFreePlan(op, u) ==
    /\ admin.op = "idle" /\ op \in AdminOps \cap {"extend", "forever", "deactivate"}
    /\ account[u].plan = "free"
    /\ Request
    /\ account' = [account EXCEPT ![u].expires = NewExpiry(op)]
    /\ UNCHANGED <<hosting, age, docker, job, worker, admin, client, faults>>

\* admin_upgrade_plan: the user's row, then each of the hostings read after it.
AdminUpgrade(u) ==
    /\ admin.op = "idle" /\ "upgrade" \in AdminOps
    /\ Request
    /\ account' = [account EXCEPT ![u] = [plan |-> "paid", expires |-> "null"]]
    /\ LET rows == {s \in Sites : Owner[s] = u /\ hosting[s].status # "none"} IN
       admin' = [admin EXCEPT !.op = "upgrade", !.todo = rows,
                              !.live = rows \cap WithStatus("active")]
    /\ UNCHANGED <<hosting, age, docker, job, worker, client, faults>>

\* update_hosting_plan, then docker update of a running one: a timeout ends the request.
UpgradeHosting(s) ==
    /\ admin.op = "upgrade" /\ s \in admin.todo
    /\ hosting' = IF hosting[s].status = "none" THEN hosting
                  ELSE [hosting EXCEPT ![s].plan = "paid"]
    /\ \/ NoFault /\ admin' = IF admin.todo = {s} THEN IdleAdmin
                              ELSE [admin EXCEPT !.todo = @ \ {s}]
       \/ s \in admin.live /\ Fault /\ admin' = IdleAdmin
    /\ UNCHANGED <<account, age, docker, job, worker, client, requests>>

UpgradeNone ==
    /\ admin.op = "upgrade" /\ admin.todo = {}
    /\ admin' = IdleAdmin
    /\ UNCHANGED <<hosting, account, age, docker, job, worker, client, faults, requests>>

-----------------------------------------------------------------------------
\* The clients' routes and the billing webhook

\* start_hosting and stop_hosting run docker and write no status.
ClientStart(s) ==
    /\ "start" \in UserOps /\ hosting[s].status # "none" /\ Request
    /\ StartContainer(s)
    /\ UNCHANGED <<hosting, account, age, job, worker, admin, client, faults>>

ClientStop(s) ==
    /\ "stop" \in UserOps /\ hosting[s].status # "none" /\ Request
    /\ StopSucceeds(s)
    /\ UNCHANGED <<hosting, account, age, job, worker, admin, client>>

\* _do_delete_hosting
ClientDelete(s) ==
    /\ client.op = "idle" /\ "delete" \in UserOps
    /\ hosting[s].status \notin {"none", "deleted"}
    /\ Request
    /\ client' = [op |-> "remove", site |-> s]
    /\ UNCHANGED <<hosting, account, age, docker, job, worker, admin, faults>>

DeleteRemove ==
    /\ client.op = "remove"
    /\ RemoveSucceeds(client.site) \/ RemoveFails(client.site)
    /\ client' = [client EXCEPT !.op = "verify"]
    /\ UNCHANGED <<hosting, account, age, job, worker, admin, requests>>

\* (mutant) the surviving containers are not looked at
SurvivesNever(s) == FALSE

\* docker inspect exits 0
Survives(s) == docker[s] # "absent"

\* A surviving container is answered with 500; an inspect that fails or times out
\* returns a code other than 0, which reads as "gone".
DeleteVerify ==
    /\ client.op = "verify"
    /\ \/ NoFault /\ client' = IF Survives(client.site) THEN IdleClient
                               ELSE [client EXCEPT !.op = "hard_delete"]
       \/ Survives(client.site) /\ Fault
          /\ client' = [client EXCEPT !.op = "hard_delete"]
    /\ UNCHANGED <<hosting, account, age, docker, job, worker, admin, requests>>

DeleteRow ==
    /\ client.op = "hard_delete"
    /\ hosting' = [hosting EXCEPT ![client.site].status = "none"]
    /\ client' = IdleClient
    /\ UNCHANGED <<account, age, docker, job, worker, admin, faults, requests>>

\* _process_webhook of an approved payment: update_billing_subscription writes the
\* user's row only.
PaymentApproved(u) ==
    /\ u \in Payments /\ account[u].plan = "free"
    /\ Request
    /\ account' = [account EXCEPT ![u].plan = "paid"]
    /\ UNCHANGED <<hosting, age, docker, job, worker, admin, client, faults>>

-----------------------------------------------------------------------------
\* Time

Older == [fresh |-> "trial", trial |-> "over", over |-> "over"]

Aging(s) ==
    /\ age[s] # "over"
    /\ age' = [age EXCEPT ![s] = Older[@]]
    /\ UNCHANGED <<hosting, account, docker, job, worker, admin, client, faults, requests, bound>>

ExpiryPasses(u) ==
    /\ account[u].expires = "future"
    /\ account' = [account EXCEPT ![u].expires = "past"]
    /\ UNCHANGED <<hosting, age, docker, job, worker, admin, client, faults, requests, bound>>

-----------------------------------------------------------------------------
Init ==
    /\ hosting = [s \in Sites |-> [status |-> "active", plan |-> "free"]]
    /\ account = [u \in Users |-> [plan |-> "free", expires |-> "null"]]
    /\ age = [s \in Sites |-> "fresh"]
    /\ docker = [s \in Sites |-> "up"]
    /\ job = IdleJob
    /\ worker = [s \in Sites |-> "none"]
    /\ admin = IdleAdmin
    /\ client = IdleClient
    /\ faults = 0
    /\ requests = 0
    /\ bound \in Budgets

JobStep ==
    /\ UNCHANGED bound
    /\ \/ BeginCycle \/ RecoverUpdate \/ ScanBatch \/ PoolDone \/ CleanBatch \/ MarkDeleted
       \/ \E s \in Sites : RecoverStop(s) \/ CleanRemove(s)

WorkerStep(s) ==
    /\ UNCHANGED bound
    /\ ExpireMark(s) \/ ExpireStop(s) \/ ExpireUpdate(s)

AdminStep ==
    /\ UNCHANGED bound
    /\ \/ AdminStop \/ AdminStart \/ AdminSetStatus \/ AdminCleanup \/ AdminHardDelete
       \/ AdminPurge \/ UpgradeNone
       \/ \E s \in Sites : PurgeRow(s) \/ UpgradeHosting(s)
       \/ \E s \in Sites, op \in AdminRequests : AdminHosting(op, s)
       \/ \E u \in Users : AdminUpgrade(u) \/ \E op \in AdminRequests : AdminFreePlan(op, u)

ClientStep ==
    /\ UNCHANGED bound
    /\ \/ DeleteRemove \/ DeleteVerify \/ DeleteRow
       \/ \E s \in Sites : ClientStart(s) \/ ClientStop(s) \/ ClientDelete(s)
       \/ \E u \in Users : PaymentApproved(u)

TimeStep ==
    \/ \E s \in Sites : Aging(s)
    \/ \E u \in Users : ExpiryPasses(u)

Next ==
    \/ JobStep \/ (Crash /\ UNCHANGED bound) \/ AdminStep \/ ClientStep \/ TimeStep
    \/ \E s \in Sites : WorkerStep(s)

Spec == Init /\ [][Next]_vars

\* schedule_job starts the job again after every cycle, the pool runs what it was
\* given, and time passes.
Fairness ==
    /\ WF_vars(JobStep)
    /\ \A s \in Sites : WF_vars(WorkerStep(s))
    /\ \A s \in Sites : WF_vars(Aging(s))
    /\ \A u \in Users : WF_vars(ExpiryPasses(u))

FairSpec == Spec /\ Fairness

-----------------------------------------------------------------------------
\* Properties

Admin == [op: {"idle", "set_stopped", "set_active", "hard_delete"} \cup AdminRequests,
          site: Sites, todo: SUBSET Sites, live: SUBSET Sites]
Client == [op: {"idle", "remove", "verify", "hard_delete"}, site: Sites]

\* Every variable has its type.
TypeOK ==
    /\ hosting \in [Sites -> Hosting]
    /\ account \in [Users -> Account]
    /\ age \in [Sites -> Age]
    /\ docker \in [Sites -> Container]
    /\ job \in Job
    /\ worker \in [Sites -> Worker]
    /\ admin \in Admin
    /\ client \in Client
    /\ bound \in Budgets
    /\ faults \in 0..bound.faults
    /\ requests \in 0..bound.requests

\* Where nobody but the job touches a hosting, one shown as expired does not run, through
\* failing docker commands and crashes (expiration_job.py:59-91: the status follows the outcome of docker stop).
ExpiredIsDown == requests = 0 => \A s \in WithStatus("expired") : docker[s] # "up"

\* A free hosting whose days are over is suspended in the end, although a timeout or a
\* crash may leave it 'expiring' and a page may skip it (expiration_job.py:158), unless a
\* request comes between.
LapsedSuspended ==
    \A s \in Sites :
        (hosting[s].status = "active" /\ age[s] = "over")
            ~> (hosting[s].status \in {"expired", "deleted"} \/ requests > 0)

\* A client's DELETE removes the row only once the container is gone (hosting.py:523),
\* whatever the admin and the job do to the hosting meanwhile, and whichever docker command
\* fails, as long as it is one: `docker rm` and then `docker inspect` failing get past it.
DeletedContainerGone ==
    [][(client.op = "hard_delete" /\ client'.op = "idle" /\ faults <= 1)
        => docker[client.site] = "absent"]_client
=============================================================================
