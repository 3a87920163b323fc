--------------------------- MODULE HostingCreation ---------------------------
(***************************************************************************)
(* How a hosting comes to be and goes: the three creation routes (static   *)
(* site, WordPress, git deploy) with their checks of plan and trial,       *)
(* `docker run`, the row inserted after it and what is undone on failure   *)
(* (app/api/routes/hosting.py, app/services/deploy/github_deploy_service.py,*)
(* app/services/provisioning_gate.py), the deletion of the containers and  *)
(* the row, and the part of the expiration job and of the purge that       *)
(* removes them.                                                           *)
(*                                                                         *)
(* Every request has a container name of its own (a uuid), so a member of  *)
(* Requests also names the row and the containers it makes. What happens   *)
(* to a hosting between creation and removal is in HostingLifecycle.       *)
(***************************************************************************)
EXTENDS Naturals, FiniteSets

CONSTANTS
    Requests,       \* creation requests
    Users,
    Owner,          \* the user of each request
    Kind,           \* its route: "static", "wordpress" or "git"
    Name,           \* its subdomain
    Address,        \* its IP address
    AsksFree,       \* requests whose body asks for the plan "free"
    Paying,         \* users whose account has a paid plan
    MaxSites,       \* max_sites of each user's plan
    MaxFreeUsers,   \* MAX_FREE_USERS
    Patient,        \* users who wait for an answer before they ask again
    MaxFaults       \* bound: docker or database calls that fail

Nothing == "nothing"

ASSUME CreationAssumption ==
    /\ IsFiniteSet(Requests) /\ Nothing \notin Requests
    /\ Owner \in [Requests -> Users]
    /\ Kind \in [Requests -> {"static", "wordpress", "git"}]
    /\ DOMAIN Name = Requests /\ DOMAIN Address = Requests
    /\ AsksFree \subseteq Requests /\ Paying \subseteq Users /\ Patient \subseteq Users
    /\ MaxSites \in [Users -> Nat]
    /\ MaxFreeUsers \in Nat
    /\ MaxFaults \in Nat

VARIABLES
    req,        \* how far each request has come
    row,        \* its row of hostings
    web,        \* the requests whose site container exists
    db,         \* the requests whose database container exists
    removal,    \* how far the deletion of each hosting has come
    job,        \* the cleanup of expired hostings: its page, and the row to be marked
    faults

vars == <<req, row, web, db, removal, job, faults>>

Checks == {"ip", "cap", "trial", "limit"}
Ended == {"refused", "failed", "undone", "done"}
PC == {"new", "db", "web", "rollback", "probe", "insert", "gate", "poll", "cleanup"}
        \cup Checks \cup Ended

Statuses == {"none", "active", "active_with_placeholder", "routing_degraded",
             "provisioning_failed", "expired", "deleted"}

\* A row's age, as far as the queries tell it apart: 14 and 30 days.
Row == [status: Statuses, age: {"young", "over14", "over30"}]
NoRow == [status |-> "none", age |-> "young"]

\* create_hosting does not take the status from its caller.
NewRow == [status |-> "active", age |-> "young"]

Removal == [pc: {"none", "web", "db", "verify", "row", "kept", "gone"},
            by: {"client", "admin"}]

Init ==
    /\ req = [r \in Requests |-> "new"]
    /\ row = [r \in Requests |-> NoRow]
    /\ web = {}
    /\ db = {}
    /\ removal = [r \in Requests |-> [pc |-> "none", by |-> "client"]]
    /\ job = [todo |-> {}, cur |-> Nothing]
    /\ faults = 0

-----------------------------------------------------------------------------
Goto(r, l) == req' = [req EXCEPT ![r] = l]

Fault == faults < MaxFaults /\ faults' = faults + 1

\* The plan the row is given: what the body asks for, or for WordPress the account's plan.
IsFree(r) == IF Kind[r] = "wordpress" THEN Owner[r] \notin Paying ELSE r \in AsksFree

\* SELECTs over hostings
OfUser(u) == {r \in Requests : Owner[r] = u /\ row[r].status # "none"}
Live(S) == {r \in S : row[r].status # "deleted"}

\* has_free_plan_from_ip
FreeAtAddress(ip) ==
    {r \in Requests : Address[r] = ip /\ IsFree(r) /\ row[r].status = "active"}

\* count_active_free_users
FreeUsers == {u \in Users : \E r \in Live(OfUser(u)) : IsFree(r)}

\* (mutant) a hosting already cleaned up is not counted
RecentFreeLive(u) == {r \in Live(OfUser(u)) : IsFree(r) /\ row[r].age # "over30"}

\* had_free_hosting_recently
RecentFree(u) == {r \in OfUser(u) : IsFree(r) /\ row[r].age # "over30"}

\* (mutant) > for >=
BelowLimitOffByOne(u) == Cardinality(Live(OfUser(u))) <= MaxSites[u]

\* _enforce_plan_container_limit; an unlimited plan is a limit no user reaches
BelowLimit(u) == Cardinality(Live(OfUser(u))) < MaxSites[u]

\* Each check is a transaction of its own; _enforce_free_plan_policy is the middle two, which
\* paid accounts skip.
Passes(r, check) ==
    CASE check = "ip"    -> IsFree(r) => FreeAtAddress(Address[r]) = {}
      [] check = "cap"   -> IsFree(r) /\ Owner[r] \notin Paying
                                => Cardinality(FreeUsers) < MaxFreeUsers
      [] check = "trial" -> IsFree(r) /\ Owner[r] \notin Paying => RecentFree(Owner[r]) = {}
      [] check = "limit" -> BelowLimit(Owner[r])

\* After the last check WordPress starts its database first.
After(r, check) ==
    CASE check = "ip"    -> "cap"
      [] check = "cap"   -> "trial"
      [] check = "trial" -> "limit"
      [] check = "limit" -> IF Kind[r] = "wordpress" THEN "db" ELSE "web"

\* A patient user has no other request in progress.
InProgress(r) == req[r] \notin {"new"} \cup Ended

\* The request arrives; a paid plan can be asked for by its account only.
Begin(r) ==
    /\ req[r] = "new"
    /\ Owner[r] \in Patient => \A o \in Requests : Owner[o] = Owner[r] => ~InProgress(o)
    /\ Goto(r, IF IsFree(r) \/ Owner[r] \in Paying THEN "ip" ELSE "refused")
    /\ UNCHANGED <<row, web, db, removal, job, faults>>

Check(r) ==
    /\ req[r] \in Checks
    /\ Goto(r, IF Passes(r, req[r]) THEN After(r, req[r]) ELSE "refused")
    /\ UNCHANGED <<row, web, db, removal, job, faults>>

\* docker run of MariaDB. A call that fails, or times out, may leave its container behind.
RunDb(r) ==
    /\ req[r] = "db"
    /\ \/ db' = db \cup {r} /\ Goto(r, "web") /\ UNCHANGED faults
       \/ db' \in {db, db \cup {r}} /\ Goto(r, "failed") /\ Fault
    /\ UNCHANGED <<row, web, removal, job>>

\* (mutant) the answer of docker run is ignored for WordPress
RunWebUnchecked(r) ==
    /\ req[r] = "web"
    /\ \/ web' = web \cup {r} /\ UNCHANGED faults
       \/ web' \in {web, web \cup {r}} /\ Fault
    /\ Goto(r, IF Kind[r] = "git" THEN "probe" ELSE "insert")
    /\ UNCHANGED <<row, db, removal, job>>

\* docker run of the site; a git deploy then probes it, the others insert their row.
RunWeb(r) ==
    /\ req[r] = "web"
    /\ \/ /\ web' = web \cup {r}
          /\ Goto(r, IF Kind[r] = "git" THEN "probe" ELSE "insert")
          /\ UNCHANGED faults
       \/ /\ web' \in {web, web \cup {r}}
          /\ Goto(r, IF Kind[r] = "wordpress" THEN "rollback" ELSE "failed")
          /\ Fault
    /\ UNCHANGED <<row, db, removal, job>>

\* WordPress did not start: docker rm -f of its database.
Rollback(r) ==
    /\ req[r] = "rollback"
    /\ \/ db' = db \ {r} /\ UNCHANGED faults
       \/ UNCHANGED db /\ Fault
    /\ Goto(r, "undone")
    /\ UNCHANGED <<row, web, removal, job>>

\* check_site_once: an HTTP error that waiting does not cure ends the deploy.
Probe(r) ==
    /\ req[r] = "probe"
    /\ \E l \in {"insert", "cleanup"} : Goto(r, l)
    /\ UNCHANGED <<row, web, db, removal, job, faults>>

\* The subdomain is unique among the rows, those of deleted hostings included.
NameTaken(r) == \E o \in Requests \ {r} : Name[o] = Name[r] /\ row[o].status # "none"

\* create_hosting, then set_wp_credentials or set_git_config. A refused INSERT raises: of the
\* three routes only the git deploy removes the container it has started. An error after the
\* INSERT leaves the row.
Insert(r) ==
    /\ req[r] = "insert"
    /\ \/ /\ ~NameTaken(r)
          /\ row' = [row EXCEPT ![r] = NewRow]
          /\ \/ /\ Goto(r, CASE Kind[r] = "static"    -> "gate"
                               [] Kind[r] = "wordpress" -> "done"
                               [] Kind[r] = "git"       -> "poll")
                /\ UNCHANGED faults
             \/ Goto(r, IF Kind[r] = "git" THEN "cleanup" ELSE "done") /\ Fault
       \/ /\ (NameTaken(r) /\ UNCHANGED faults) \/ Fault
          /\ Goto(r, IF Kind[r] = "git" THEN "cleanup" ELSE "failed")
          /\ UNCHANGED row
    /\ UNCHANGED <<web, db, removal, job>>

\* The file provider and the provisioning gate: a new site has a placeholder for its content.
\* The status is written by id; an UPDATE that raises is logged.
Gate(r) ==
    /\ req[r] = "gate"
    /\ \/ /\ row' = IF row[r].status = "none" THEN row
                    ELSE [row EXCEPT ![r].status =
                            IF r \in web THEN "active_with_placeholder" ELSE "provisioning_failed"]
          /\ UNCHANGED faults
       \/ /\ row' \in {row} \cup {[row EXCEPT ![r].status = s] :
                        s \in IF row[r].status = "none" THEN {}
                              ELSE {"routing_degraded", "provisioning_failed"}}
          /\ Fault
    /\ Goto(r, "done")
    /\ UNCHANGED <<web, db, removal, job>>

\* wait_for_site_online: online or pending is a success, an HTTP error is not.
Poll(r) ==
    /\ req[r] = "poll"
    /\ \E l \in {"done", "cleanup"} : Goto(r, l)
    /\ UNCHANGED <<row, web, db, removal, job, faults>>

\* _do_cleanup: docker rm -f. The row stays: delete_hosting is called without its second
\* argument, and the exception is kept as a status of the log.
Cleanup(r) ==
    /\ req[r] = "cleanup"
    /\ \/ web' = web \ {r} /\ UNCHANGED faults
       \/ UNCHANGED web /\ Fault
    /\ Goto(r, "undone")
    /\ UNCHANGED <<row, db, removal, job>>

-----------------------------------------------------------------------------
\* Deletion: _do_delete_hosting for the client, admin_terminate_hosting for the admin.

At(r, l) == removal[r].pc = l
Proceed(r, l) == removal' = [removal EXCEPT ![r].pc = l]

\* The client's route answers a deleted row at once; the admin's goes on.
DeleteStart(r, who) ==
    /\ removal[r].pc \in {"none", "kept"}
    /\ row[r].status \notin {"none"} \cup IF who = "client" THEN {"deleted"} ELSE {}
    /\ removal' = [removal EXCEPT ![r] = [pc |-> "web", by |-> who]]
    /\ UNCHANGED <<req, row, web, db, job, faults>>

DeleteWeb(r) ==
    /\ At(r, "web")
    /\ \/ web' = web \ {r} /\ UNCHANGED faults
       \/ UNCHANGED web /\ Fault
    /\ Proceed(r, IF Kind[r] = "wordpress" THEN "db"
                  ELSE IF removal[r].by = "client" THEN "verify" ELSE "row")
    /\ UNCHANGED <<req, row, db, job>>

DeleteDb(r) ==
    /\ At(r, "db")
    /\ \/ db' = db \ {r} /\ UNCHANGED faults
       \/ UNCHANGED db /\ Fault
    /\ Proceed(r, IF removal[r].by = "client" THEN "verify" ELSE "row")
    /\ UNCHANGED <<req, row, web, job>>

\* docker inspect of both containers: one that survives keeps the row. An inspect that fails
\* reads as a container that is gone.
DeleteVerify(r) ==
    /\ At(r, "verify")
    /\ \/ Proceed(r, IF r \in web \cup db THEN "kept" ELSE "row") /\ UNCHANGED faults
       \/ Proceed(r, "row") /\ Fault
    /\ UNCHANGED <<req, row, web, db, job>>

\* delete_hosting, admin_delete_hosting: the row itself goes.
DeleteRow(r) ==
    /\ At(r, "row")
    /\ row' = [row EXCEPT ![r] = NoRow]
    /\ Proceed(r, "gone")
    /\ UNCHANGED <<req, web, db, job, faults>>

-----------------------------------------------------------------------------
\* Time, the expiration job (in detail in HostingLifecycle) and the purge.

\* A request is answered within minutes.
Age(r) ==
    /\ req[r] \in Ended
    /\ row[r].status # "none" /\ row[r].age # "over30"
    /\ row' = [row EXCEPT ![r].age = IF @ = "young" THEN "over14" ELSE "over30"]
    /\ UNCHANGED <<req, web, db, removal, job, faults>>

\* get_expiring_free_hostings selects 'active' rows only.
Expire(r) ==
    /\ IsFree(r) /\ row[r].status = "active" /\ row[r].age # "young"
    /\ row' = [row EXCEPT ![r].status = "expired"]
    /\ UNCHANGED <<req, web, db, removal, job, faults>>

\* get_expired_hostings
CleanBatch ==
    /\ job = [todo |-> {}, cur |-> Nothing]
    /\ job' = [job EXCEPT !.todo = {r \in Requests : row[r].status = "expired"}]
    /\ job'.todo # {}
    /\ UNCHANGED <<req, row, web, db, removal, faults>>

\* docker rm -f of hostings.container_name alone: the database of a WordPress site stays. A
\* timeout raises, and the row is left for the next cycle; any other error is passed over.
CleanRemove(r) ==
    /\ job.cur = Nothing /\ r \in job.todo
    /\ \/ web' = web \ {r} /\ job' = [todo |-> job.todo \ {r}, cur |-> r] /\ UNCHANGED faults
       \/ /\ UNCHANGED web
          /\ \E c \in {r, Nothing} : job' = [todo |-> job.todo \ {r}, cur |-> c]
          /\ Fault
    /\ UNCHANGED <<req, row, db, removal>>

\* mark_deleted, by id
CleanMark ==
    /\ job.cur # Nothing
    /\ row' = IF row[job.cur].status = "none" THEN row
              ELSE [row EXCEPT ![job.cur].status = "deleted"]
    /\ job' = [job EXCEPT !.cur = Nothing]
    /\ UNCHANGED <<req, web, db, removal, faults>>

\* admin_purge_deleted_hostings, one row of its loop
Purge(r) ==
    /\ row[r].status = "deleted"
    /\ row' = [row EXCEPT ![r] = NoRow]
    /\ UNCHANGED <<req, web, db, removal, job, faults>>

-----------------------------------------------------------------------------
Create(r) ==
    \/ Begin(r) \/ Check(r) \/ RunDb(r) \/ RunWeb(r) \/ Rollback(r) \/ Probe(r)
    \/ Insert(r) \/ Gate(r) \/ Poll(r) \/ Cleanup(r)

Delete(r) ==
    \/ \E who \in {"client", "admin"} : DeleteStart(r, who)
    \/ DeleteWeb(r) \/ DeleteDb(r) \/ DeleteVerify(r) \/ DeleteRow(r)

Next ==
    \/ \E r \in Requests : Create(r) \/ Delete(r) \/ Age(r) \/ Expire(r)
    \/ \E r \in Requests : CleanRemove(r) \/ Purge(r)
    \/ CleanBatch \/ CleanMark

Spec == Init /\ [][Next]_vars

-----------------------------------------------------------------------------
\* Properties

\* Every variable has its type.
TypeOK ==
    /\ req \in [Requests -> PC]
    /\ row \in [Requests -> Row]
    /\ web \subseteq Requests
    /\ db \subseteq Requests
    /\ removal \in [Requests -> Removal]
    /\ job \in [todo: SUBSET Requests, cur: Requests \cup {Nothing}]
    /\ faults \in 0..MaxFaults

\* The containers of a request's hosting.
Whole(r) == r \in web /\ (Kind[r] = "wordpress" => r \in db)
Left(r) == r \in web \/ r \in db

\* A hosting that no deletion, no expiry and no failed deploy has touched has its containers,
\* a WordPress site both of them (hosting.py:870-905: the row is inserted last).
RowBacked ==
    \A r \in Requests :
        /\ row[r].status \notin {"none", "expired", "deleted"}
        /\ At(r, "none")
        /\ req[r] # "undone"
        => Whole(r)

\* A user who asks for one site at a time never holds more rows than the plan allows, whatever
\* fails, expires, is deleted or purged.
LimitKept == \A u \in Patient : Cardinality(Live(OfUser(u))) <= MaxSites[u]

\* hosting_repository.py:82-86: such a user of the free plan has at most one free hosting among
\* the rows of the last 30 days, those already cleaned up included.
OneTrial ==
    \A u \in Patient \ Paying : \A r, o \in OfUser(u) :
        IsFree(r) /\ IsFree(o) /\ r # o
            => row[r].age = "over30" \/ row[o].age = "over30"

=============================================================================
