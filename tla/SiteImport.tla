----------------------------- MODULE SiteImport -----------------------------
(***************************************************************************)
(* A customer's backup imported over a site: the request that checks,      *)
(* records and hands over an import (app/api/routes/import_hosting.py),    *)
(* the pipeline that restores files and database, in the Arq worker or,    *)
(* without Redis, in a thread of the app, and the worker's restarts, which *)
(* mark what looks orphaned as failed (app/worker.py).  Arq keeps a job    *)
(* until it has returned and runs it again when the worker died under it.  *)
(* One customer with one site: the check for an active import is per user. *)
(***************************************************************************)
EXTENDS Integers

CONSTANTS
    MaxJobs,        \* bound: imports asked for, each by one request
    Uploads,        \* what the customer may upload: a kind of backup, with or without a
                    \* separate SQL file
    Budgets         \* bounds, one per behaviour: restarts of the app and of the worker, below
                    \* Arq's max_tries, and failed docker, Redis and database calls

ASSUME SiteImportAssumption ==
    /\ MaxJobs \in Nat
    /\ Uploads \subseteq
          [kind : {"wpress", "zip_wp", "zip_files", "zip_sql", "zip_generic", "sql"},
           extra : BOOLEAN]
    /\ Budgets \subseteq [crashes : 0..4, faults : Nat]

VARIABLES
    pool,           \* the app reached Redis when it started, fixed
    hasDb,          \* the site's container has a database container beside it, fixed
    import,         \* rows of import_jobs
    upload,         \* its files in the shared upload directory
    request,        \* where the request of each job is
    queue,          \* the job in Arq: "out", "waiting" or "held" by the worker
    thread,         \* where its pipeline is, "off" without one
    worker,         \* the worker process is up
    stale,          \* jobs whose row has not been updated for thirty minutes
    site,           \* what files and database are from, and whether its URLs are its own
    raced,          \* (history) two requests were between check and INSERT together
    revived,        \* (history) an import reported as ended ran again
    silent,         \* (history) a step failed whose result is only logged, or went on after
                    \* its timeout
    abandoned,      \* (history) jobs a process died with, could not record the end of, or raised
                    \* at before they were handed over
    left            \* restarts and faults that may still come

world == <<pool, hasDb>>
rows == <<import, upload>>
place == <<queue, thread, worker>>
history == <<raced, revived, silent, abandoned>>
ivars == <<world, rows, request, place, stale, site, history, left>>

\* Numbered in the order of their requests.
Jobs == 1..MaxJobs

Terminal == {"completed", "failed"}
Ended(j) == import[j].status \in Terminal
Recorded(j) == import[j].status # "none"

\* What files or database are from, when not from an import.
Original == 0
Torn == -1

Fault == left.faults > 0 /\ left' = [left EXCEPT !.faults = @ - 1]
Crash == left.crashes > 0 /\ left' = [left EXCEPT !.crashes = @ - 1]
Calm == UNCHANGED left

ImportInit ==
    /\ pool \in BOOLEAN /\ hasDb \in BOOLEAN
    /\ import = [j \in Jobs |-> [status |-> "none", kind |-> "none", extra |-> FALSE]]
    /\ upload = [j \in Jobs |-> {}]
    /\ request = [j \in Jobs |-> "none"]
    /\ queue = [j \in Jobs |-> "out"] /\ thread = [j \in Jobs |-> "off"]
    /\ worker = "up" /\ stale = {}
    /\ site = [files |-> Original, db |-> Original, urls |-> TRUE]
    /\ raced = FALSE /\ revived = FALSE /\ silent = FALSE /\ abandoned = {}
    /\ left \in Budgets
-----------------------------------------------------------------------------
\* The request
Requesting == UNCHANGED <<world, worker, stale, site, revived, silent>>

\* has_active_job
Active == \E j \in Jobs : Recorded(j) /\ ~Ended(j)

\* Mutant: the request does not look for an active import.
CheckNothing(j) ==
    /\ request[j] = "none"
    /\ \A k \in Jobs : k < j => request[k] # "none"
    /\ request' = [request EXCEPT ![j] = "create"]
    /\ raced' = (raced \/ \E k \in Jobs : request[k] = "create")
    /\ UNCHANGED <<rows, queue, thread, abandoned>> /\ Calm
    /\ Requesting

Check(j) ==
    /\ request[j] = "none"
    /\ \A k \in Jobs : k < j => request[k] # "none"
    /\ ~Active
    /\ request' = [request EXCEPT ![j] = "create"]
    /\ raced' = (raced \/ \E k \in Jobs : request[k] = "create")
    /\ UNCHANGED <<rows, queue, thread, abandoned>> /\ Calm
    /\ Requesting

CreateJob(j) ==
    /\ request[j] = "create"
    /\ \E u \in Uploads :
          import' = [import EXCEPT ![j] = [status |-> "uploading", kind |-> u.kind, extra |-> u.extra]]
    /\ request' = [request EXCEPT ![j] = "save"]
    /\ UNCHANGED <<upload, queue, thread, raced, abandoned>> /\ Calm
    /\ Requesting

\* Mutant: the main file stays when the separate SQL file is refused.
RejectExtraOnly(j) ==
    /\ upload' = [upload EXCEPT ![j] = @ \ {"extra"}]
    /\ request' = [request EXCEPT ![j] = "over"]
    /\ \/ /\ import' = [import EXCEPT ![j].status = "failed"]
          /\ UNCHANGED abandoned /\ Calm
       \/ /\ abandoned' = abandoned \cup {j}
          /\ UNCHANGED import /\ Fault

\* An upload that cannot be written, is too large or is not what its suffix says: the request
\* removes what it has written and records the failure, if the database lets it.
Reject(j) ==
    /\ upload' = [upload EXCEPT ![j] = {}]
    /\ request' = [request EXCEPT ![j] = "over"]
    /\ \/ /\ import' = [import EXCEPT ![j].status = "failed"]
          /\ UNCHANGED abandoned /\ Calm
       \/ /\ abandoned' = abandoned \cup {j}
          /\ UNCHANGED import /\ Fault

\* An error of the log or of Redis, outside any try: the job stays 'uploading' with its files.
RequestRaises(j) ==
    /\ request' = [request EXCEPT ![j] = "over"]
    /\ abandoned' = abandoned \cup {j}
    /\ UNCHANGED import /\ Fault

SaveMain(j) ==
    /\ request[j] = "save"
    /\ \/ /\ upload' = [upload EXCEPT ![j] = {"main"}]
          /\ request' = [request EXCEPT ![j] = IF import[j].extra THEN "save_extra" ELSE "enqueue"]
          /\ UNCHANGED <<import, abandoned>> /\ Calm
       \/ /\ upload' = [upload EXCEPT ![j] = {"main"}]
          /\ RequestRaises(j)
       \/ Reject(j)
    /\ UNCHANGED <<queue, thread, raced>>
    /\ Requesting

SaveExtra(j) ==
    /\ request[j] = "save_extra"
    /\ \/ /\ upload' = [upload EXCEPT ![j] = @ \cup {"extra"}]
          /\ request' = [request EXCEPT ![j] = "enqueue"]
          /\ UNCHANGED <<import, abandoned>> /\ Calm
       \/ Reject(j)
    /\ UNCHANGED <<queue, thread, raced>>
    /\ Requesting

\* Without a pool the pipeline waits for a thread of the app's executor.
Enqueue(j) ==
    /\ request[j] = "enqueue"
    /\ \/ /\ pool
          /\ queue' = [queue EXCEPT ![j] = "waiting"]
          /\ request' = [request EXCEPT ![j] = "over"]
          /\ UNCHANGED <<thread, abandoned>> /\ Calm
       \/ /\ ~pool
          /\ thread' = [thread EXCEPT ![j] = "start"]
          /\ request' = [request EXCEPT ![j] = "over"]
          /\ UNCHANGED <<queue, abandoned>> /\ Calm
       \/ RequestRaises(j) /\ UNCHANGED <<queue, thread>>
    /\ UNCHANGED <<rows, raced>>
    /\ Requesting
-----------------------------------------------------------------------------
\* The pipeline.  A step that raises goes to the except clause.
Running(j, pc) == thread[j] = pc /\ UNCHANGED <<world, request, queue, worker, raced>>
To(j, pc) == thread' = [thread EXCEPT ![j] = pc]
Status(j, s) == import' = [import EXCEPT ![j].status = s]

\* Nothing of the row is looked at before it becomes 'processing'.
Start(j) ==
    /\ Running(j, "start")
    /\ Status(j, "processing")
    /\ stale' = stale \ {j}
    /\ To(j, IF "main" \in upload[j] THEN "prepare" ELSE "failing")
    /\ revived' = (revived \/ (Ended(j) /\ "main" \in upload[j]))
    /\ UNCHANGED <<upload, site, silent, abandoned>> /\ Calm

\* The hosting, its database container, the type of the backup, what its archive unpacks to.
Prepare(j) ==
    /\ Running(j, "prepare")
    /\ \/ Status(j, "restoring_files") /\ To(j, "restore") /\ Calm
       \/ UNCHANGED import /\ To(j, "failing") /\ Calm
    /\ UNCHANGED <<upload, stale, site, revived, silent, abandoned>>

HasFiles(j) == import[j].kind \in {"wpress", "zip_wp", "zip_files"}
\* A dump that the pipeline feeds to the database container, when there is one.
HasDump(j) == import[j].kind \in {"zip_wp", "zip_sql", "sql"}

AfterDump(j) == IF import[j].extra /\ hasDb THEN "extra" ELSE "urls"
AfterFiles(j) == IF HasDump(j) /\ hasDb THEN "dump" ELSE AfterDump(j)

\* An error of wp ai1wm restore is logged only.  Its timeout ends the docker client and leaves
\* the command running: what that does to the site later is left out (silent).
RestoreFiles(j) ==
    /\ Running(j, "restore")
    /\ \/ /\ HasFiles(j)
          /\ site' = [site EXCEPT !.files = j,
                                  !.db = IF import[j].kind = "wpress" THEN j ELSE @,
                                  !.urls = (import[j].kind # "wpress") /\ @]
          /\ To(j, AfterFiles(j))
          /\ UNCHANGED silent /\ Calm
       \/ /\ ~HasFiles(j)
          /\ To(j, AfterFiles(j))
          /\ UNCHANGED <<site, silent>> /\ Calm
       \/ /\ HasFiles(j)            \* docker cp
          /\ site' \in {site, [site EXCEPT !.files = Torn]}
          /\ To(j, "failing")
          /\ UNCHANGED silent /\ Fault
       \/ /\ import[j].kind = "wpress" \* wp ai1wm restore
          /\ site' \in {site, [site EXCEPT !.files = Torn, !.db = Torn]}
          /\ To(j, AfterFiles(j)) \/ To(j, "failing")
          /\ silent' = TRUE /\ Fault
    /\ UNCHANGED <<rows, stale, revived, abandoned>>

\* mysql < dump
Import(j, next) ==
    /\ Status(j, "restoring_db")
    /\ \/ site' = [site EXCEPT !.db = j, !.urls = FALSE] /\ To(j, next) /\ Calm
       \/ site' = [site EXCEPT !.db = Torn, !.urls = FALSE] /\ To(j, "failing") /\ Calm
    /\ UNCHANGED <<upload, stale, revived, silent, abandoned>>

RestoreDump(j) == Running(j, "dump") /\ Import(j, AfterDump(j))
RestoreExtra(j) == Running(j, "extra") /\ Import(j, "urls")

\* search-replace and the UPDATEs of siteurl and home; their return codes are only logged.
FixUrls(j) ==
    /\ Running(j, "urls")
    /\ \/ /\ Status(j, "fixing_urls") /\ To(j, "verify")
          /\ site' = [site EXCEPT !.urls = hasDb \/ @]
          /\ UNCHANGED silent /\ Calm
       \/ /\ Status(j, "fixing_urls") /\ To(j, "verify")
          /\ silent' = TRUE /\ UNCHANGED site /\ Fault
       \/ /\ Status(j, "fixing_urls") /\ To(j, "failing")     \* a domain it cannot accept
          /\ UNCHANGED <<site, silent>> /\ Calm
    /\ UNCHANGED <<upload, stale, revived, abandoned>>

\* The site answers, or the answer shows that it is broken.
Verify(j) ==
    /\ Running(j, "verify")
    /\ To(j, "complete") \/ To(j, "failing")
    /\ UNCHANGED <<rows, stale, site, revived, silent, abandoned>> /\ Calm

Complete(j) ==
    /\ Running(j, "complete")
    /\ \/ Status(j, "completed") /\ To(j, "log") /\ Calm
       \/ UNCHANGED import /\ To(j, "failing") /\ Fault
    /\ UNCHANGED <<upload, stale, site, revived, silent, abandoned>>

\* The last line of the log is inside the try: its error makes a completed import a failed one.
LogCompleted(j) ==
    /\ Running(j, "log")
    /\ \/ To(j, "unlink") /\ Calm
       \/ To(j, "failing") /\ Fault
    /\ UNCHANGED <<rows, stale, site, revived, silent, abandoned>>

\* Mutant: the except clause logs the error and does not record it.
FailUnrecorded(j) ==
    /\ Running(j, "failing")
    /\ To(j, "unlink")
    /\ UNCHANGED <<rows, stale, site, revived, silent, abandoned>> /\ Calm

\* except Exception
RecordFailure(j) ==
    /\ Running(j, "failing")
    /\ \/ Status(j, "failed") /\ UNCHANGED abandoned /\ Calm
       \/ UNCHANGED import /\ abandoned' = abandoned \cup {j} /\ Fault
    /\ To(j, "unlink")
    /\ UNCHANGED <<upload, stale, site, revived, silent>>

\* finally
Unlink(j) ==
    /\ Running(j, "unlink")
    /\ upload' = [upload EXCEPT ![j] = {}]
    /\ To(j, IF pool THEN "return" ELSE "off")
    /\ UNCHANGED <<import, stale, site, revived, silent, abandoned>> /\ Calm

Pipeline(j) ==
    \/ Start(j) \/ Prepare(j) \/ RestoreFiles(j) \/ RestoreDump(j) \/ RestoreExtra(j)
    \/ FixUrls(j) \/ Verify(j) \/ Complete(j) \/ LogCompleted(j) \/ RecordFailure(j) \/ Unlink(j)
-----------------------------------------------------------------------------
\* Arq
Queueing == UNCHANGED <<world, rows, request, site, history>>

Take(j) ==
    /\ worker = "up" /\ queue[j] = "waiting"
    /\ queue' = [queue EXCEPT ![j] = "held"]
    /\ thread' = [thread EXCEPT ![j] = "start"]
    /\ UNCHANGED <<worker, stale>> /\ Calm
    /\ Queueing

Return(j) ==
    /\ thread[j] = "return"
    /\ queue' = [queue EXCEPT ![j] = "out"]
    /\ thread' = [thread EXCEPT ![j] = "off"]
    /\ UNCHANGED <<worker, stale>> /\ Calm
    /\ Queueing

\* The mark of a job in progress expires after job_timeout, or was lifted by a shutdown.
Requeue(j) ==
    /\ queue[j] = "held" /\ thread[j] = "off"
    /\ queue' = [queue EXCEPT ![j] = "waiting"]
    /\ UNCHANGED <<thread, worker, stale>> /\ Calm
    /\ Queueing

\* Half an hour without a line of its log or a change of its status.  A pipeline that runs
\* writes one at least every ten minutes, by the timeouts of its commands.
Age(j) ==
    /\ Recorded(j) /\ ~Ended(j) /\ j \notin stale
    /\ request[j] = "over" /\ thread[j] \in {"off", "start"}
    /\ stale' = stale \cup {j}
    /\ UNCHANGED <<queue, thread, worker>> /\ Calm
    /\ Queueing
-----------------------------------------------------------------------------
\* Restarts
WorkerDown ==
    /\ worker = "up" /\ worker' = "down"
    /\ Crash
    /\ thread' = IF pool THEN [j \in Jobs |-> "off"] ELSE thread
    /\ UNCHANGED <<queue, stale>>
    /\ Queueing

\* _mark_orphaned_jobs, on startup; its own error is only logged.
Orphans == {j \in Jobs : Recorded(j) /\ ~Ended(j) /\ j \in stale}

WorkerUp ==
    /\ worker = "down" /\ worker' = "up"
    /\ \/ /\ import' = [j \in Jobs |-> IF j \in Orphans THEN [import[j] EXCEPT !.status = "failed"]
                                                     ELSE import[j]]
          /\ stale' = stale \ Orphans
       \/ UNCHANGED <<import, stale>>
    /\ Calm
    /\ UNCHANGED <<world, upload, request, queue, thread, site, history>>

Dying == {j \in Jobs : request[j] \in {"save", "save_extra", "enqueue"}
                          \/ (~pool /\ thread[j] # "off")}

AppRestart ==
    /\ Crash
    /\ request' = [j \in Jobs |-> IF request[j] = "none" THEN "none" ELSE "over"]
    /\ thread' = IF pool THEN thread ELSE [j \in Jobs |-> "off"]
    /\ abandoned' = abandoned \cup Dying
    /\ UNCHANGED <<world, rows, queue, worker, stale, site, raced, revived, silent>>
-----------------------------------------------------------------------------
Request(j) == CreateJob(j) \/ SaveMain(j) \/ SaveExtra(j) \/ Enqueue(j)

ImportNext ==
    \/ \E j \in Jobs :
          Check(j) \/ Request(j) \/ Pipeline(j) \/ Take(j) \/ Return(j) \/ Requeue(j) \/ Age(j)
    \/ WorkerDown \/ WorkerUp \/ AppRestart

ImportSpec == ImportInit /\ [][ImportNext]_ivars

\* Requests and threads run to their next step, Arq serves its queue and lets the marks of jobs
\* in progress expire, docker-compose restarts the worker.
Fairness ==
    /\ \A j \in Jobs : /\ WF_ivars(Request(j)) /\ WF_ivars(Pipeline(j))
                       /\ WF_ivars(Take(j)) /\ WF_ivars(Return(j)) /\ WF_ivars(Requeue(j))
    /\ WF_ivars(WorkerUp)

ImportFairSpec == ImportSpec /\ Fairness
-----------------------------------------------------------------------------
Stages == {"off", "start", "prepare", "restore", "dump", "extra", "urls", "verify",
           "complete", "log", "failing", "unlink", "return"}
ImportStatuses == {"none", "uploading", "processing", "restoring_files", "restoring_db",
             "fixing_urls"} \cup Terminal

\* Types
ImportTypeOK ==
    /\ pool \in BOOLEAN /\ hasDb \in BOOLEAN
    /\ import \in [Jobs -> [status : ImportStatuses, kind : {u.kind : u \in Uploads} \cup {"none"}, extra : BOOLEAN]]
    /\ upload \in [Jobs -> SUBSET {"main", "extra"}]
    /\ request \in [Jobs -> {"none", "create", "save", "save_extra", "enqueue", "over"}]
    /\ queue \in [Jobs -> {"out", "waiting", "held"}]
    /\ thread \in [Jobs -> Stages]
    /\ worker \in {"up", "down"}
    /\ stale \subseteq Jobs /\ abandoned \subseteq Jobs
    /\ site \in [files : Jobs \cup {Original, Torn}, db : Jobs \cup {Original, Torn},
                 urls : BOOLEAN]
    /\ raced \in BOOLEAN /\ revived \in BOOLEAN /\ silent \in BOOLEAN
    /\ left \in [crashes : Nat, faults : Nat]

\* What the backup of j holds, and the site can take, is on the site, under the site's domain.
Whole(j) ==
    /\ HasFiles(j) => site.files = j
    /\ (import[j].kind = "wpress") \/ (hasDb /\ (HasDump(j) \/ import[j].extra)) => site.db = j
    /\ hasDb => site.urls

\* An import that is reported completed (import_hosting.py:389) is on the site whole, files,
\* database and URLs of one backup, through restarts that run it again from the start; unless
\* two requests passed has_active_job together, an import ran that had been reported as ended,
\* a command failed whose result the pipeline only logs, or one went on after its timeout.
CompletedWhole ==
    [][\A j \in Jobs :
          ~Ended(j) /\ import'[j].status = "completed" /\ ~(raced \/ revived \/ silent)
             => Whole(j)']_ivars

\* Where an import has ended and nobody works on it, its uploads are gone, on each path that
\* refuses, fails or completes it (import_hosting.py:426-435).  Left out (abandoned): a process
\* died with it, its end could not be recorded, or its request raised at a log line or at the
\* enqueue (:786, :872, :897), after which a worker's start fails the row and leaves the files.
EndedClean ==
    \A j \in Jobs :
       Ended(j) /\ request[j] = "over" /\ thread[j] = "off" /\ queue[j] = "out"
          /\ j \notin abandoned
          => upload[j] = {}

\* An import ends, and lets its owner start another (has_active_job), through restarts of the
\* worker.  Left out (abandoned): the app died with it, the database did not record its end, or
\* its request raised at a log line or at the enqueue (import_hosting.py:786, :872, :897); such a
\* row stays in progress, and its owner gets 409, until a worker happens to be started later.
ImportEnds == \A j \in Jobs : <>[](import[j].status \in Terminal \cup {"none"} \/ j \in abandoned)
=============================================================================
