---------------------------- MODULE TenantBackup ----------------------------
(***************************************************************************)
(* The tenant backup service (app/services/tenant_backup_service.py) with  *)
(* the routes that reach it (app/api/routes/backup.py, admin_backup.py):   *)
(* the rows of tenant_backups, the backup directories on disk, and every   *)
(* thread that creates, protects, expires or deletes a backup.             *)
(*                                                                         *)
(* One step is one transaction or one file-system call: what a thread read *)
(* in an earlier transaction sits in its own locals and may be stale.      *)
(***************************************************************************)
EXTENDS Naturals, FiniteSets

CONSTANTS
    Hostings,       \* hosting_id values
    Schedulers,     \* threads that run backup_tenants_job
    Requests,       \* API threads that run create_tenant_backup for a client
    Retainers,      \* threads that run cleanup_backup_retention
    Admins,         \* API threads that run admin_cleanup
    Deleters,       \* API threads that run one of the two DELETE routes
    Automatic,      \* hostings whose plan is in _AUTOMATIC_PLANS
    PlanMax,        \* _MAX_MANUAL of each hosting's plan (0: no manual backups)
    EnvMax,         \* BACKUP_MAX_MANUAL_BACKUPS_PER_TENANT
    PolicyMax,      \* max_manual_backups of each hosting's effective policy
    Triggers,       \* triggers a Request may pass: "manual", "override", "internal"
    DeleteRoutes,   \* which DELETE routes clients use: "tenant", "any"
    ProtectValues,  \* values PATCH .../protect may carry
    MaxBackups,     \* bound: rows ever inserted
    MaxErrors,      \* bound: creations that raise after their insert
    MaxFaults       \* bound: steps lost, to a failed UPDATE of a cleanup or to a crash

ASSUME ConstantsAssumption ==
    /\ Hostings # {}
    /\ Automatic \subseteq Hostings
    /\ PlanMax \in [Hostings -> Nat]
    /\ PolicyMax \in [Hostings -> Nat]
    /\ EnvMax \in Nat
    /\ MaxBackups \in Nat
    /\ MaxErrors \in Nat
    /\ MaxFaults \in Nat
    /\ Triggers \subseteq {"manual", "override", "internal"}
    /\ ProtectValues \subseteq BOOLEAN

VARIABLES
    rows,       \* tenant_backups, by backup_id; ids are serial, so id order is started_at order
    disk,       \* the backup ids whose final_dir holds a complete backup
    thread,     \* the locals of every thread, see Thread below
    errors,     \* creations that raised so far
    faults      \* steps lost so far

vars == <<rows, disk, thread, errors, faults>>

Ids == 1..MaxBackups
NoId == 0
Actors == Schedulers \cup Requests \cup Retainers \cup Admins \cup Deleters

Trigger == {"schedule", "manual", "override", "internal"}
Status == {"unused", "running", "completed", "failed", "deleted"}
Row == [status: Status, hosting: Hostings, trigger: Trigger,
        protected: BOOLEAN, local_path: BOOLEAN, expired: BOOLEAN,
        hasty: BOOLEAN,      \* (history) a DELETE marked it while it was being made
        overtook: BOOLEAN]   \* (history) completed after the daily retention had read the newest

PC == {"idle", "insert", "produce", "commit", "retain", "fail", "rmtree",
       "clean", "mark", "multi", "bids", "previous", "manual",
       "delete", "delmark"}

Thread == [pc: PC,
           hid: Hostings,                \* create_tenant_backup's or a loop's hosting
           trig: Trigger,                \* create_tenant_backup's trigger
           bid: Ids \cup {NoId},         \* the backup inserted, kept or to be deleted
           todo: SUBSET Ids,             \* what a cleanup SELECT returned, not handled yet
           cur: Ids \cup {NoId},         \* the backup whose directory was just removed
           cont: {"idle", "multi", "bids", "manual"},  \* after a cleanup
           work: SUBSET Hostings]        \* hostings the retention loop has to visit

AnyHosting == CHOOSE h \in Hostings : TRUE

Idle == [pc |-> "idle", hid |-> AnyHosting, trig |-> "manual", bid |-> NoId,
         todo |-> {}, cur |-> NoId, cont |-> "idle", work |-> {}]

-----------------------------------------------------------------------------
\* SELECTs over tenant_backups

WithStatus(s) == {b \in Ids : rows[b].status = s}

\* Both user and admin creations insert trigger='manual'; only the limit differs.
IsManual(b) == rows[b].trigger \in {"manual", "override"}

Running(h) == {b \in WithStatus("running") : rows[b].hosting = h}

CompletedAutomatic(h) ==
    {b \in WithStatus("completed") : rows[b].hosting = h /\ rows[b].trigger = "schedule"}

CompletedManual(h) ==
    {b \in WithStatus("completed") : rows[b].hosting = h /\ IsManual(b)}

Unprotected(S) == {b \in S : ~rows[b].protected}

NewerIn(S, b) == {c \in S : c > b}

\* rows[n:] of a SELECT ... ORDER BY started_at DESC: all but the n newest.
AllButNewest(S, n) == {b \in S : Cardinality(NewerIn(S, b)) >= n}

\* (mutant) the new backup is not excluded
AutomaticPreviousAndNew(h, new) == Unprotected(CompletedAutomatic(h))

AutomaticPrevious(h, new) == Unprotected(CompletedAutomatic(h)) \ {new}

AutomaticAllButNewest(h) == AllButNewest(Unprotected(CompletedAutomatic(h)), 1)

ManualExcess(h, max) ==
    IF max = 0 THEN {} ELSE AllButNewest(Unprotected(CompletedManual(h)), max)

\* (mutant) the status filter only excludes deleted rows
ExpiredTtlAnyStatus == {b \in Ids : rows[b].expired /\ rows[b].status # "deleted"}

ExpiredTtl == {b \in Ids : rows[b].expired /\ rows[b].status \in {"completed", "failed"}}

-----------------------------------------------------------------------------
At(a, l) == thread[a].pc = l
Becomes(a, t) == thread' = [thread EXCEPT ![a] = t]
Goto(a, l) == Becomes(a, IF l = "idle" THEN Idle ELSE [thread[a] EXCEPT !.pc = l])

\* A cleanup SELECT: the thread now owes the deletion of S, then goes on at l.
CleanThen(a, S, l) == Becomes(a, [thread[a] EXCEPT !.pc = "clean", !.todo = S, !.cont = l])

SetStatus(b, s) == rows' = [rows EXCEPT ![b].status = s]

Lose == faults < MaxFaults /\ faults' = faults + 1

NewRow(h, t) ==
    [status |-> "running", hosting |-> h, trigger |-> t,
     protected |-> FALSE, local_path |-> FALSE, expired |-> FALSE, hasty |-> FALSE,
     overtook |-> FALSE]

Init ==
    /\ rows = [b \in Ids |-> [NewRow(AnyHosting, "manual") EXCEPT !.status = "unused"]]
    /\ disk = {}
    /\ thread = [a \in Actors |-> Idle]
    /\ errors = 0
    /\ faults = 0

-----------------------------------------------------------------------------
\* create_tenant_backup

\* get_backup_entitlement for a trigger on a hosting.
Entitled(h, t) ==
    CASE t = "schedule" -> h \in Automatic
      [] t = "manual" -> PlanMax[h] > 0
      [] OTHER -> TRUE

\* The entitlement check and the SELECT that looks for a running backup.
\* Every early return (not entitled, already running) leaves no trace.
CheckNoRunning(a, h, t) ==
    /\ At(a, "idle")
    /\ Entitled(h, t)
    /\ Running(h) = {}
    /\ Becomes(a, [Idle EXCEPT !.pc = "insert", !.hid = h, !.trig = t])
    /\ UNCHANGED <<rows, disk, errors, faults>>

BackupTenantsJob(a) ==
    /\ a \in Schedulers
    /\ \E h \in Hostings : CheckNoRunning(a, h, "schedule")

CreateRequest(a) ==
    /\ a \in Requests
    /\ \E h \in Hostings, t \in Triggers : CheckNoRunning(a, h, t)

\* _insert_backup_record: a transaction of its own, after the check's.
InsertRecord(a) ==
    /\ At(a, "insert")
    /\ \E b \in WithStatus("unused") :
        /\ \A c \in WithStatus("unused") : b <= c
        /\ rows' = [rows EXCEPT ![b] = NewRow(thread[a].hid, thread[a].trig)]
        /\ Becomes(a, [thread[a] EXCEPT !.pc = "produce", !.bid = b])
    /\ UNCHANGED <<disk, errors, faults>>

\* tempfile.mkdtemp raises: the row is there, and the try block has not begun.
MkdtempRaises(a) ==
    /\ At(a, "produce")
    /\ Lose
    /\ Goto(a, "idle")
    /\ UNCHANGED <<rows, disk, errors>>

\* Files, database dump and manifest are made in work_dir and moved to final_dir.
Produce(a) ==
    /\ At(a, "produce")
    /\ disk' = disk \cup {thread[a].bid}
    /\ Goto(a, "commit")
    /\ UNCHANGED <<rows, errors, faults>>

\* History: the daily retention holds what was the newest backup of h, and reads again next.
Overtakes(h) == \E r \in Retainers : At(r, "previous") /\ thread[r].hid = h

\* _update_backup_completed: by backup_id only, whatever the status is now.
UpdateCompleted(a) ==
    /\ At(a, "commit")
    /\ rows' = [rows EXCEPT ![thread[a].bid].status = "completed",
                            ![thread[a].bid].local_path = TRUE,
                            ![thread[a].bid].overtook = Overtakes(thread[a].hid)]
    /\ Goto(a, IF thread[a].trig = "internal" THEN "idle" ELSE "retain")
    /\ UNCHANGED <<disk, errors, faults>>

\* What the retention step of a creation selects.
RetentionOf(t) ==
    CASE t.trig = "schedule" -> AutomaticPrevious(t.hid, t.bid)
      [] t.trig = "manual" -> ManualExcess(t.hid, PlanMax[t.hid])
      [] OTHER -> ManualExcess(t.hid, EnvMax)

RetainSelect(a) ==
    /\ At(a, "retain")
    /\ CleanThen(a, RetentionOf(thread[a]), "idle")
    /\ UNCHANGED <<rows, disk, errors, faults>>

\* (mutant) the handler removes the directory and leaves the row as it is
RaiseSkipsFailed(a) ==
    /\ thread[a].pc \in {"produce", "commit", "retain"}
    /\ errors < MaxErrors
    /\ errors' = errors + 1
    /\ Goto(a, "rmtree")
    /\ UNCHANGED <<rows, disk, faults>>

\* An exception anywhere in the try block, which begins after mkdtemp.
RaiseInBackup(a) ==
    /\ thread[a].pc \in {"produce", "commit", "retain"}
    /\ errors < MaxErrors
    /\ errors' = errors + 1
    /\ Goto(a, "fail")
    /\ UNCHANGED <<rows, disk, faults>>

\* The handler's own UPDATE raises: nothing says that the backup failed.
FailedRaises(a) ==
    /\ At(a, "fail")
    /\ Lose
    /\ Goto(a, "idle")
    /\ UNCHANGED <<rows, disk, errors>>

\* _update_backup_failed: again by backup_id only.
UpdateFailed(a) ==
    /\ At(a, "fail")
    /\ SetStatus(thread[a].bid, "failed")
    /\ Goto(a, "rmtree")
    /\ UNCHANGED <<disk, errors, faults>>

RemoveFinalDir(a) ==
    /\ At(a, "rmtree")
    /\ disk' = disk \ {thread[a].bid}
    /\ Goto(a, "idle")
    /\ UNCHANGED <<rows, errors, faults>>

-----------------------------------------------------------------------------
\* The loop every cleanup shares: directory first, then the row.

\* _delete_backup_files; the local_path of a finished backup no longer changes.
RemoveDir(b) == disk' = IF rows[b].local_path THEN disk \ {b} ELSE disk

DeleteFiles(a) ==
    /\ At(a, "clean")
    /\ \E b \in thread[a].todo :
        /\ RemoveDir(b)
        /\ Becomes(a, [thread[a] EXCEPT !.pc = "mark", !.cur = b, !.todo = @ \ {b}])
    /\ UNCHANGED <<rows, errors, faults>>

BackToLoop(a) == Becomes(a, [thread[a] EXCEPT !.pc = "clean", !.cur = NoId])

MarkDeleted(a) ==
    /\ At(a, "mark")
    /\ SetStatus(thread[a].cur, "deleted")
    /\ BackToLoop(a)
    /\ UNCHANGED <<disk, errors, faults>>

\* The UPDATE raises: logged, and the loop goes on with the next row.
MarkRaises(a) ==
    /\ At(a, "mark")
    /\ Lose
    /\ BackToLoop(a)
    /\ UNCHANGED <<rows, disk, errors>>

CleanDone(a) ==
    /\ At(a, "clean")
    /\ thread[a].todo = {}
    /\ Goto(a, thread[a].cont)
    /\ UNCHANGED <<rows, disk, errors, faults>>

-----------------------------------------------------------------------------
\* cleanup_backup_retention

RetentionTtl(a) ==
    /\ a \in Retainers
    /\ At(a, "idle")
    /\ CleanThen(a, ExpiredTtl, "multi")
    /\ UNCHANGED <<rows, disk, errors, faults>>

\* SELECT the hostings with more than one completed automatic backup.
RetentionMulti(a) ==
    /\ At(a, "multi")
    /\ Becomes(a, [thread[a] EXCEPT !.pc = "bids",
                   !.work = {h \in Hostings : Cardinality(CompletedAutomatic(h)) > 1}])
    /\ UNCHANGED <<rows, disk, errors, faults>>

\* One hosting of the loop: read bids, newest first, and remember bids[0].
RetentionBids(a) ==
    /\ At(a, "bids")
    /\ \E h \in thread[a].work :
        IF Cardinality(CompletedAutomatic(h)) > 1
          THEN \E b \in CompletedAutomatic(h) :
                 /\ NewerIn(CompletedAutomatic(h), b) = {}
                 /\ Becomes(a, [thread[a] EXCEPT !.pc = "previous", !.work = @ \ {h},
                                                 !.hid = h, !.bid = b])
          ELSE Becomes(a, [thread[a] EXCEPT !.work = @ \ {h}])
    /\ UNCHANGED <<rows, disk, errors, faults>>

\* _cleanup_automatic_previous(hid, bids[0]) reads again, in its own transaction.
RetentionPrevious(a) ==
    /\ At(a, "previous")
    /\ CleanThen(a, AutomaticPrevious(thread[a].hid, thread[a].bid), "bids")
    /\ UNCHANGED <<rows, disk, errors, faults>>

\* SELECT the hostings with completed manual backups.
RetentionManualHostings(a) ==
    /\ At(a, "bids")
    /\ thread[a].work = {}
    /\ Becomes(a, [thread[a] EXCEPT !.pc = "manual",
                   !.work = {h \in Hostings : CompletedManual(h) # {}}])
    /\ UNCHANGED <<rows, disk, errors, faults>>

RetentionManual(a) ==
    /\ At(a, "manual")
    /\ \E h \in thread[a].work :
        Becomes(a, [thread[a] EXCEPT !.pc = "clean", !.todo = ManualExcess(h, EnvMax),
                                     !.cont = "manual", !.work = @ \ {h}])
    /\ UNCHANGED <<rows, disk, errors, faults>>

RetentionEnds(a) ==
    /\ At(a, "manual")
    /\ thread[a].work = {}
    /\ Goto(a, "idle")
    /\ UNCHANGED <<rows, disk, errors, faults>>

-----------------------------------------------------------------------------
\* Admin routes

\* One mode of admin_cleanup with dry_run=false; "all_safe" is the three in a row.
AdminCleanup(a) ==
    /\ a \in Admins
    /\ At(a, "idle")
    /\ \E h \in Hostings :
        \E S \in {ExpiredTtl, AutomaticAllButNewest(h), ManualExcess(h, PolicyMax[h])} :
            CleanThen(a, S, "idle")
    /\ UNCHANGED <<rows, disk, errors, faults>>

\* set_backup_protected
SetBackupProtected(b, v) ==
    /\ rows[b].status # "unused"
    /\ rows[b].protected # v
    /\ rows' = [rows EXCEPT ![b].protected = v]
    /\ UNCHANGED <<disk, thread, errors, faults>>

-----------------------------------------------------------------------------
\* The two DELETE routes: a status check, then delete_tenant_backup.

\* DELETE /hostings/{hosting_id}/backups/{backup_id} refuses a backup in progress;
\* DELETE /backups/{backup_id} refuses a completed one.
Refused(route) == {"unused"} \cup IF route = "tenant" THEN {"running"} ELSE {"completed"}

DeleteCheck(a, b, route) ==
    /\ a \in Deleters
    /\ At(a, "idle")
    /\ rows[b].status \notin Refused(route)
    /\ Becomes(a, [Idle EXCEPT !.pc = "delete", !.bid = b])
    /\ UNCHANGED <<rows, disk, errors, faults>>

\* delete_tenant_backup finds a protected row and leaves it alone.
DeleteProtected(a) ==
    /\ At(a, "delete")
    /\ rows[thread[a].bid].protected
    /\ Goto(a, "idle")
    /\ UNCHANGED <<rows, disk, errors, faults>>

\* delete_tenant_backup's SELECT and rmtree.
DeleteSelect(a) ==
    /\ At(a, "delete")
    /\ ~rows[thread[a].bid].protected
    /\ RemoveDir(thread[a].bid)
    /\ Goto(a, "delmark")
    /\ UNCHANGED <<rows, errors, faults>>

\* A row still being made, or marked deleted when it was.
Hasty(b) == rows[b].status = "running" \/ (rows[b].status = "deleted" /\ rows[b].hasty)

DeleteMark(a) ==
    /\ At(a, "delmark")
    /\ rows' = [rows EXCEPT ![thread[a].bid].status = "deleted",
                            ![thread[a].bid].hasty = Hasty(thread[a].bid)]
    /\ Goto(a, "idle")
    /\ UNCHANGED <<disk, errors, faults>>

-----------------------------------------------------------------------------
\* Environment: time passes an expires_at; a process dies.

ExpiresAtPasses(b) ==
    /\ rows[b].status # "unused"
    /\ rows[b].trigger = "internal"
    /\ ~rows[b].expired
    /\ rows' = [rows EXCEPT ![b].expired = TRUE]
    /\ UNCHANGED <<disk, thread, errors, faults>>

\* The thread is gone with its locals; nothing resumes what it had begun.
Crash(a) ==
    /\ ~At(a, "idle")
    /\ Lose
    /\ Goto(a, "idle")
    /\ UNCHANGED <<rows, disk, errors>>

-----------------------------------------------------------------------------
Step(a) ==
    \/ InsertRecord(a) \/ Produce(a) \/ UpdateCompleted(a) \/ RetainSelect(a)
    \/ UpdateFailed(a) \/ RemoveFinalDir(a)
    \/ DeleteFiles(a) \/ MarkDeleted(a) \/ CleanDone(a)
    \/ RetentionMulti(a) \/ RetentionBids(a) \/ RetentionPrevious(a)
    \/ RetentionManualHostings(a) \/ RetentionManual(a) \/ RetentionEnds(a)
    \/ DeleteProtected(a) \/ DeleteSelect(a) \/ DeleteMark(a)

Start(a) ==
    \/ BackupTenantsJob(a) \/ CreateRequest(a) \/ RetentionTtl(a) \/ AdminCleanup(a)
    \/ \E b \in Ids, route \in DeleteRoutes : DeleteCheck(a, b, route)

Fault(a) == RaiseInBackup(a) \/ MkdtempRaises(a) \/ FailedRaises(a) \/ MarkRaises(a) \/ Crash(a)

Next ==
    \/ \E a \in Actors : Step(a) \/ Start(a) \/ Fault(a)
    \/ \E b \in Ids, v \in ProtectValues : SetBackupProtected(b, v)
    \/ \E b \in Ids : ExpiresAtPasses(b)

Spec == Init /\ [][Next]_vars

-----------------------------------------------------------------------------
TypeOK ==
    /\ rows \in [Ids -> Row]
    /\ disk \subseteq Ids
    /\ thread \in [Actors -> Thread]
    /\ errors \in 0..MaxErrors
    /\ faults \in 0..MaxFaults

\* What a cleanup loop of thread a is about to delete.
Claimed(a) == thread[a].todo \cup {b \in Ids : At(a, "mark") /\ b = thread[a].cur}

\* No cleanup ever holds a backup that is still being made, however long ago its
\* SELECT ran ("running/pending backups are always skipped").
RunningUntouched ==
    \A a \in Actors : \A b \in Claimed(a) : rows[b].status \notin {"unused", "running"}

\* A row that says completed has its directory, unless a thread that removed the
\* directory is just about to mark the row: directory and row are changed by separate
\* steps.  Left out: behaviours that lost a step (a failed UPDATE, a crash).
CompletedHasFiles ==
    faults = 0 => \A b \in WithStatus("completed") :
        \/ b \in disk
        \/ \E a \in Actors : At(a, "mark") /\ thread[a].cur = b
        \/ \E a \in Actors : At(a, "delmark") /\ thread[a].bid = b

\* Automatic backups that could be restored from.
Restorable(h) == CompletedAutomatic(h) \cap disk

\* The retention of a creation, the daily job and the admin's cleanup never take a hosting's
\* last restorable automatic backup ("never remove the last completed backup for a tenant").
\* Left out: the error path of a creation, which takes 'completed' back (line 767), by
\* errors = 0; and hostings with a backup that was completed while the daily job remembered
\* an older one as the newest: the job deletes the new one (line 1034), and the retention of
\* its creation the old one.
LastAutomaticKept ==
    [][\A h \in Hostings :
        (/\ errors = 0
         /\ \A b \in Ids : rows[b].hosting = h => ~rows[b].overtook
         /\ Restorable(h) # {}) => Restorable(h)' # {}]_vars

\* A deleted backup does not come back as a completed one, although creations, cleanups
\* and deletions hold the same rows for long.  Left out: a backup that DELETE
\* /backups/{backup_id} marked while it was still being made (hasty); that one does.
DeletedNotRestored ==
    [][\A b \in Ids :
        (rows[b].status = "deleted" /\ ~rows[b].hasty) => rows'[b].status # "completed"]_vars

\* A running backup ends: no exception of the try block, which is most of a creation,
\* leaves a row running.  Left out: behaviours that lost a step, for a crash, an exception
\* of mkdtemp (line 632, before the try) or one of the handler's own UPDATE (line 773)
\* leaves the row running for good.
BackupEnds ==
    \A b \in Ids : rows[b].status = "running" ~> (rows[b].status # "running" \/ faults > 0)
=============================================================================
