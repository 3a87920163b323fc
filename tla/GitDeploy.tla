----------------------------- MODULE GitDeploy -----------------------------
(***************************************************************************)
(* A hosting deployed from a Git repository: the pipeline that clones,     *)
(* builds, runs and registers it                                           *)
(* (app/services/deploy/github_deploy_service.py), and afterwards the      *)
(* redeploys its owner asks for and the webhook of each push               *)
(* (app/api/routes/hosting.py), beside the ZIP archives its owner uploads  *)
(* instead, the routes that start, stop and delete it and the job that     *)
(* expires it.  Redeploys, webhooks and uploads take no lock.              *)
(*                                                                         *)
(* What a checkout, a build or a process contains is the number of the     *)
(* commit it was made from, or Zip for an uploaded archive.                *)
(***************************************************************************)
EXTENDS Preflight

CONSTANTS
    Projects,       \* bound: the Node projects a behaviour may have
    Strategies,     \* the strategies of git_config a behaviour may have
    Calls,          \* redeploys and webhooks that can be under way together
    Uploads,        \* uploads that can be
    Broken,         \* commits that do not build
    MaxPushes,      \* bound: commits after the first
    MaxRedeploys,   \* bound: redeploys asked for
    MaxUses,        \* bound: uploads, starts, stops, expirations, deletions
    MaxFaults       \* bound: failed docker, git and database calls, lost deliveries, restarts

ASSUME GitDeployAssumption ==
    /\ Strategies \subseteq {"dockerfile", "server", "static_built", "static_auto", "static_pure"}
    /\ Projects \subseteq Project
    /\ Broken \subseteq Nat
    /\ {MaxPushes, MaxRedeploys, MaxUses, MaxFaults} \subseteq Nat

VARIABLES
    strategy,       \* of the hosting, fixed
    project,        \* what the repository holds for a Node build, fixed
    remote,         \* the last commit pushed
    hooks,          \* pushes whose webhook has not been delivered
    tree,           \* the checkout in /opt/clients
    built,          \* the image, or the output directory of the build
    container,      \* "absent", "stopped" or "running"
    loaded,         \* what its process was started from
    row,            \* status of the hosting, "none" without a row
    wanted,         \* the owner wants the site up
    deploy,         \* the first deploy: where it is, what it has created, and (history) whether
                    \* docker or the application has left something to it
    call,           \* the redeploys and webhooks under way
    upload,         \* the uploads under way
    spool,          \* _upload.zip: written by one upload, by several, or absent
    alone,          \* (history) no two calls have overlapped, nor one with the deploy, an
                    \* upload, a start or a stop
    redeploys, uses, failures

github == <<strategy, project, remote, hooks>>
files == <<tree, built>>
site == <<container, loaded, row, wanted>>
zips == <<upload, spool>>
limits == <<redeploys, uses, failures>>
gvars == <<github, files, site, deploy, call, zips, alone, limits>>

Nothing == -1
Zip == -2
Torn == -3
Idle == [pc |-> "idle", version |-> Nothing]
Busy(pc, version) == [pc |-> pc, version |-> version]

NoProject == [roots |-> 0, sass |-> FALSE, tanstack |-> "none", locks |-> {}, node |-> 99, upTo |-> 99, next |-> "none"]

\* nginx serves the output directory of a Node build.  Its root in the repository was given, or
\* detected (static_auto): git_config keeps the given one alone.
NodeBuild == strategy \in {"static_built", "static_auto"}

GitInit ==
    /\ strategy \in Strategies
    /\ project \in IF NodeBuild THEN Projects ELSE {NoProject}
    /\ remote = 0 /\ hooks = {}
    /\ tree = Nothing /\ built = Nothing
    /\ container = "absent" /\ loaded = Nothing /\ row = "none" /\ wanted = TRUE
    /\ deploy = [pc |-> "clone", site |-> FALSE, made |-> FALSE, row |-> FALSE, pm |-> "none",
               left |-> FALSE]
    /\ call = [c \in Calls |-> Idle]
    /\ upload = [u \in Uploads |-> "idle"] /\ spool = "absent"
    /\ alone = TRUE
    /\ redeploys = 0 /\ uses = 0 /\ failures = 0

Fails == failures < MaxFaults /\ failures' = failures + 1 /\ UNCHANGED <<redeploys, uses>>
Use == uses < MaxUses /\ uses' = uses + 1 /\ UNCHANGED <<redeploys, failures>>
Calm == UNCHANGED limits

\* What a visitor gets of a container that runs.
Served == CASE NodeBuild                -> built
            [] strategy = "static_pure" -> tree
            [] OTHER                    -> loaded

\* An uploaded archive replaces everything but .git: the output directory a container has
\* mounted is gone with the rest.
SwappedOutput == IF NodeBuild THEN Nothing ELSE built
-----------------------------------------------------------------------------
\* run_github_deploy
Deploying == UNCHANGED <<github, wanted, call, zips, alone>>

\* A stage that raises a DeployError leads to the cleanup; one that refuses removes the
\* directory itself and ends the deploy with an HTTPException, which is not cleaned up after.
Stage(pc) == deploy.pc = pc /\ Calm /\ UNCHANGED <<container, loaded, row>> /\ Deploying
GoOn(pc) == deploy' = [deploy EXCEPT !.pc = pc]
Raise == GoOn("cleanup") /\ UNCHANGED files
Refuse == GoOn("failed") /\ tree' = Nothing /\ UNCHANGED built

Clone ==
    /\ Stage("clone")
    /\ \/ tree' = remote /\ deploy' = [deploy EXCEPT !.pc = "detect", !.site = TRUE]
       \/ tree' = Nothing /\ deploy' = [deploy EXCEPT !.pc = "cleanup", !.site = TRUE]
    /\ UNCHANGED built

\* What keeps a Node project from being installed: its root, where none was given, and the
\* preflight.
Obstacle ==
    IF strategy = "static_auto" /\ FindRoot(project) # "ok"
    THEN FindRoot(project) ELSE RunDependencyPreflight(project)

\* root_directory and dockerfile_path must lie in the checkout; without a Dockerfile or a
\* command to start, one buildable root must be found, and its dependencies be in order.
Detect ==
    /\ Stage("detect")
    /\ \/ /\ NodeBuild => Obstacle = "ok"
          /\ GoOn(CASE strategy = "dockerfile"  -> "image"
                     [] strategy = "server"      -> "run"
                     [] strategy = "static_pure" -> "check"
                     [] NodeBuild                -> "install")
          /\ UNCHANGED files
       \/ NodeBuild /\ Obstacle # "ok" /\ Raise
       \/ strategy = "static_pure" /\ Raise
       \/ Refuse

BuildImage ==
    /\ Stage("image")
    /\ \/ tree \notin Broken /\ built' = tree /\ GoOn("run") /\ UNCHANGED tree
       \/ Refuse

\* npm ci, pnpm install or yarn install; what fails may be a conflict of peer dependencies.
Install ==
    /\ Stage("install")
    /\ LET pm == DetectPackageManager(project) IN
         \/ deploy' = [deploy EXCEPT !.pc = "build", !.pm = pm] /\ UNCHANGED files
         \/ \E conflict \in BOOLEAN :
                /\ IF Retried(pm, conflict) THEN GoOn("legacy") ELSE GoOn("cleanup")
                /\ UNCHANGED files

\* npm install --legacy-peer-deps, by npm and its lock file again
InstallLegacy ==
    /\ Stage("legacy")
    /\ \/ deploy' = [deploy EXCEPT !.pc = "build", !.pm = "npm"] /\ UNCHANGED files
       \/ Raise

\* An OpenSSL error is tried once more.
BuildSite ==
    /\ Stage("build")
    /\ \/ tree \notin Broken /\ built' = tree /\ GoOn("output") /\ UNCHANGED tree
       \/ Raise

\* Exactly one output directory with an index.html, inside the root and without .git
Output ==
    /\ Stage("output")
    /\ \/ GoOn("run") /\ UNCHANGED files
       \/ Raise
       \/ Refuse

CheckStatic ==
    /\ Stage("check")
    /\ \/ GoOn("run") /\ UNCHANGED files
       \/ Raise
       \/ Refuse

\* docker run that fails may leave a container behind, which the cleanup does not look for.
Run ==
    /\ deploy.pc = "run"
    /\ \/ /\ container' = "running"
          /\ loaded' = IF strategy = "dockerfile" THEN built ELSE tree
          /\ deploy' = [deploy EXCEPT !.pc = "probe", !.made = TRUE]
          /\ Calm
       \/ /\ container' \in {"absent", "stopped"}
          /\ deploy' = [deploy EXCEPT !.pc = "cleanup", !.left = @ \/ container' # "absent"]
          /\ Fails /\ UNCHANGED loaded
    /\ UNCHANGED <<files, row>>
    /\ Deploying

\* What check_site_once finds: no answer (0), or an HTTP status.
Answers == {0, 200, 301, 403, 404, 500, 502, 503, 526}
HttpFailCodes == {403, 404, 502, 503}

Verdict(answer) ==
    CASE answer \in 1..399             -> "online"
      [] answer \in HttpFailCodes      -> "http_failed"
      [] OTHER                         -> "ssl_pending"

Probe ==
    /\ Stage("probe")
    /\ \E answer \in Answers : GoOn(IF Verdict(answer) = "http_failed" THEN "cleanup" ELSE "insert")
    /\ UNCHANGED files

Insert ==
    /\ deploy.pc = "insert"
    /\ \/ row' = "active" /\ deploy' = [deploy EXCEPT !.pc = "configure", !.row = TRUE] /\ Calm
       \/ UNCHANGED row /\ GoOn("cleanup") /\ Fails
    /\ UNCHANGED <<files, container, loaded>>
    /\ Deploying

\* set_git_config and append_deploy_log
Configure ==
    /\ deploy.pc = "configure"
    /\ \/ GoOn("wait") /\ Calm
       \/ GoOn("cleanup") /\ Fails
    /\ UNCHANGED <<files, container, loaded, row>>
    /\ Deploying

\* wait_for_site_online: up, or not yet after a minute; or a hard HTTP error, after which the
\* cleanup runs, and once more when the error it raises is caught.
Wait ==
    /\ Stage("wait")
    /\ \E answer \in Answers : GoOn(IF Verdict(answer) = "http_failed" THEN "cleanup" ELSE "done")
    /\ UNCHANGED files

\* (mutant) the container is left when the directory is removed
CleanupFiles ==
    /\ Stage("cleanup")
    /\ GoOn("failed")
    /\ tree' = IF deploy.site THEN Nothing ELSE tree
    /\ UNCHANGED built

\* _do_cleanup: the container, then the directory.  The row stays: delete_hosting is called
\* without its user_id, and the TypeError becomes a status.
Cleanup ==
    /\ deploy.pc = "cleanup"
    /\ \/ /\ container' = IF deploy.made THEN "absent" ELSE container
          /\ GoOn("failed") /\ Calm
       \/ /\ deploy.made /\ UNCHANGED container
          /\ deploy' = [deploy EXCEPT !.pc = "failed", !.left = TRUE] /\ Fails
    /\ tree' = IF deploy.site THEN Nothing ELSE tree
    /\ UNCHANGED <<built, loaded, row>>
    /\ Deploying

Deploy ==
    \/ Clone \/ Detect \/ BuildImage \/ Install \/ InstallLegacy \/ BuildSite \/ Output \/ CheckStatic
    \/ Run \/ Probe \/ Insert \/ Configure \/ Wait \/ Cleanup

\* The application dies, or the client goes away and the handler is cancelled.
AppDies ==
    /\ Fails
    /\ deploy' = IF deploy.pc \in {"done", "failed"} THEN deploy
                 ELSE [deploy EXCEPT !.pc = "failed", !.left = TRUE]
    /\ call' = [c \in Calls |-> Idle]
    /\ upload' = [u \in Uploads |-> "idle"]
    /\ \/ UNCHANGED files
       \/ /\ \E u \in Uploads : upload[u] = "stream" \* in the middle of Swap
          /\ tree' = (IF tree = Nothing THEN tree ELSE Torn) /\ built' = SwappedOutput
    /\ UNCHANGED <<github, spool, site, alone>>
-----------------------------------------------------------------------------
Push ==
    /\ remote < MaxPushes /\ row # "none" /\ deploy.pc = "done"
    /\ remote' = remote + 1
    /\ hooks' = hooks \cup {remote + 1}
    /\ Calm
    /\ UNCHANGED <<strategy, project, files, site, deploy, call, zips, alone>>

\* GitHub does not repeat a delivery that failed.
LoseDelivery ==
    /\ \E v \in hooks : hooks' = hooks \ {v}
    /\ Fails
    /\ UNCHANGED <<strategy, project, remote, files, site, deploy, call, zips, alone>>

Quiet == (\A c \in Calls : call[c] = Idle) /\ (\A u \in Uploads : upload[u] = "idle")
Pulling == \E c \in Calls : call[c].pc = "pull"

\* git pull holds the lock of the repository: a second one fails, and the request with it.
BeginPull(c) ==
    /\ call[c] = Idle
    /\ tree # Nothing
    /\ call' = [call EXCEPT ![c] = IF Pulling THEN Idle ELSE Busy("pull", Nothing)]
    /\ alone' = (alone /\ deploy.pc = "done" /\ Quiet)

\* POST /hostings/{hosting_id}/redeploy: any row of the owner will do.
Redeploy(c) ==
    /\ redeploys < MaxRedeploys /\ redeploys' = redeploys + 1
    /\ UNCHANGED <<uses, failures>>
    /\ row # "none"
    /\ BeginPull(c)
    /\ UNCHANGED <<github, files, site, deploy, zips>>

\* POST /hostings/{hosting_id}/webhook: any row that is not deleted.
Webhook(c) ==
    /\ \E v \in hooks : hooks' = hooks \ {v}
    /\ row \notin {"none", "deleted"}
    /\ BeginPull(c)
    /\ Calm
    /\ UNCHANGED <<strategy, project, remote, files, site, deploy, zips>>

Beside == UNCHANGED <<github, deploy, zips, alone, row, wanted>>
Goto(c, pc) == call' = [call EXCEPT ![c].pc = pc]
End(c) == call' = [call EXCEPT ![c] = Idle]

\* (mutant) the old container goes before the new image is built
AfterStopsFirst(pc) ==
    CASE pc = "pull"  -> IF strategy = "dockerfile" THEN "stop" ELSE "build"
      [] pc = "stop"  -> "rm"
      [] pc = "rm"    -> "build"
      [] pc = "build" -> IF strategy = "dockerfile" THEN "run" ELSE "restart"

\* (mutant) what was pulled is not built again
AfterNoBuild(pc) ==
    CASE pc = "pull" -> IF strategy = "dockerfile" THEN "stop" ELSE "restart"
      [] pc = "stop" -> "rm"
      [] pc = "rm"   -> "run"

\* The stages of a redeploy: a Dockerfile's image is built, and then replaces the container;
\* a Node build replaces its output; every other strategy serves or runs the checkout.
After(pc) ==
    CASE pc = "pull"  -> IF strategy = "dockerfile" \/ NodeBuild THEN "build" ELSE "restart"
      [] pc = "build" -> IF strategy = "dockerfile" THEN "stop" ELSE "restart"
      [] pc = "stop"  -> "rm"
      [] pc = "rm"    -> "run"

\* git pull over an uploaded archive fails on the files it would overwrite, or leaves them.
EndPull(c) ==
    /\ call[c].pc = "pull"
    /\ \/ /\ tree # Nothing
          /\ tree' = IF tree \in {Zip, Torn} THEN tree ELSE remote
          /\ call' = [call EXCEPT ![c] = Busy(After("pull"), tree')]
          /\ Calm
       \/ tree \in {Nothing, Zip, Torn} /\ End(c) /\ UNCHANGED tree /\ Calm
       \/ tree # Nothing /\ End(c) /\ UNCHANGED tree /\ Fails
    /\ UNCHANGED <<built, container, loaded>>
    /\ Beside

\* The build works on the checkout as it was pulled; what it makes replaces what was made
\* before.  A build that fails changes nothing.  An uploaded archive is no project, and the
\* build looks for a detected root where it is not.
Builds(version) == version \in Nat \ Broken /\ tree # Nothing /\ strategy # "static_auto"

\* git_config keeps the commands that were given, not those of the manager that was detected:
\* npm install may or may not do for a project of pnpm or yarn.
Reproducible == NodeBuild => DetectPackageManager(project) = "npm"

BuildAgain(c) ==
    /\ call[c].pc = "build"
    /\ \/ /\ Builds(call[c].version)
          /\ built' = call[c].version
          /\ Goto(c, After("build"))
          /\ Calm
       \/ ~(Builds(call[c].version) /\ Reproducible) /\ End(c) /\ UNCHANGED built /\ Calm
       \/ End(c) /\ UNCHANGED built /\ Fails
    /\ UNCHANGED <<tree, container, loaded>>
    /\ Beside

\* Strategies other than a Dockerfile restart the container.
Restart(c) ==
    /\ call[c].pc = "restart"
    /\ \/ /\ container # "absent"
          /\ container' = "running" /\ loaded' = tree
          /\ Calm
       \/ container = "absent" /\ UNCHANGED <<container, loaded>> /\ Calm
       \/ container # "absent" /\ UNCHANGED <<container, loaded>> /\ Fails
    /\ End(c)
    /\ UNCHANGED files
    /\ Beside

\* docker stop, rm and run: the first two may fail unnoticed.
StopOld(c) ==
    /\ call[c].pc = "stop"
    /\ container' = IF container = "running" THEN "stopped" ELSE container
    /\ Goto(c, After("stop"))
    /\ Calm
    /\ UNCHANGED <<files, loaded>>
    /\ Beside

RemoveOld(c) ==
    /\ call[c].pc = "rm"
    /\ container' = IF container = "stopped" THEN "absent" ELSE container
    /\ Goto(c, After("rm"))
    /\ Calm
    /\ UNCHANGED <<files, loaded>>
    /\ Beside

RunNew(c) ==
    /\ call[c].pc = "run"
    /\ \/ /\ container = "absent"
          /\ container' = "running" /\ loaded' = built
          /\ Calm
       \/ container # "absent" /\ UNCHANGED <<container, loaded>> /\ Calm
       \/ container = "absent" /\ UNCHANGED <<container, loaded>> /\ Fails
    /\ End(c)
    /\ UNCHANGED files
    /\ Beside

CallStep(c) == EndPull(c) \/ BuildAgain(c) \/ Restart(c) \/ StopOld(c) \/ RemoveOld(c) \/ RunNew(c)
-----------------------------------------------------------------------------
\* POST /hostings/{hosting_id}/upload-zip writes the archive to _upload.zip, chunk by chunk.
UploadTo(u, l) == upload' = [upload EXCEPT ![u] = l]
Uploading == UNCHANGED <<github, site, deploy, call>>

BeginUpload(u) ==
    /\ upload[u] = "idle"
    /\ row \notin {"none", "deleted"}
    /\ UploadTo(u, "stream")
    /\ spool' = IF \E v \in Uploads : upload[v] = "stream" THEN "mixed" ELSE "whole"
    /\ alone' = (alone /\ deploy.pc = "done" /\ Quiet)
    /\ Use
    /\ UNCHANGED files
    /\ Uploading

\* The archive is validated and extracted and takes the place of the files, in one turn of the
\* event loop; the files come back when that fails.  Of an archive two uploads have written,
\* or another has removed, or that is no site, nothing is used.
Swap(u) ==
    /\ upload[u] = "stream"
    /\ \/ /\ spool = "whole" /\ tree # Nothing
          /\ tree' = Zip /\ built' = SwappedOutput
          /\ UploadTo(u, "copy")
          /\ UNCHANGED spool
       \/ UploadTo(u, "idle") /\ spool' = "absent" /\ UNCHANGED files
    /\ Calm
    /\ UNCHANGED alone
    /\ Uploading

\* docker cp, of no effect on what is mounted read-only, and nginx -s reload; then the
\* temporary files go, whoever is writing them.
EndUpload(u) ==
    /\ upload[u] = "copy"
    /\ UploadTo(u, "idle")
    /\ spool' = "absent"
    /\ Calm
    /\ UNCHANGED <<files, alone>>
    /\ Uploading

UploadStep(u) == Swap(u) \/ EndUpload(u)
-----------------------------------------------------------------------------
Others == UNCHANGED <<github, files, deploy, call, zips>>

\* The owner's routes.  docker start and stop of a container that is absent fail.
Start ==
    /\ row # "none" /\ ~wanted
    /\ wanted' = TRUE
    /\ IF container = "absent"
         THEN UNCHANGED <<container, loaded>>
         ELSE /\ container' = "running"
              /\ loaded' = IF container = "running" \/ strategy = "dockerfile"
                              THEN loaded ELSE tree
    /\ alone' = (alone /\ Quiet)
    /\ Use
    /\ UNCHANGED row
    /\ Others

Stop ==
    /\ row # "none" /\ wanted
    /\ wanted' = FALSE
    /\ container' = IF container = "running" THEN "stopped" ELSE container
    /\ alone' = (alone /\ Quiet)
    /\ Use
    /\ UNCHANGED <<loaded, row>>
    /\ Others

\* The expiration job stops the container, and later removes it and soft-deletes the row.
Expire ==
    /\ \/ row = "active" /\ row' = "expired" /\ container = "running" /\ container' = "stopped"
       \/ row = "expired" /\ row' = "deleted" /\ container' = "absent"
    /\ Use
    /\ UNCHANGED <<loaded, wanted, alone>>
    /\ Others

\* delete_hosting removes the container, the row and the directory.
Delete ==
    /\ row # "none"
    /\ row' = "none" /\ container' = "absent"
    /\ tree' = Nothing /\ built' = SwappedOutput
    /\ Use
    /\ UNCHANGED <<github, deploy, call, zips, loaded, wanted, alone>>

GitNext ==
    \/ Deploy \/ AppDies \/ Push \/ LoseDelivery \/ Start \/ Stop \/ Expire \/ Delete
    \/ \E c \in Calls : Redeploy(c) \/ Webhook(c) \/ CallStep(c)
    \/ \E u \in Uploads : BeginUpload(u) \/ UploadStep(u)

GitSpec == GitInit /\ [][GitNext]_gvars

\* The handlers run to their end, and GitHub delivers.
GitFairSpec ==
    /\ GitSpec
    /\ WF_gvars(Deploy)
    /\ \A c \in Calls : WF_gvars(CallStep(c))
    /\ \A u \in Uploads : WF_gvars(UploadStep(u))
    /\ WF_gvars(\E c \in Calls : Webhook(c))
-----------------------------------------------------------------------------
Versions == Torn..MaxPushes
Stages == {"idle", "pull", "build", "restart", "stop", "rm", "run"}

\* Types
GitTypeOK ==
    /\ strategy \in Strategies /\ project \in Projects \cup {NoProject}
    /\ remote \in 0..MaxPushes /\ hooks \subseteq 1..MaxPushes
    /\ tree \in Versions /\ built \in Versions /\ loaded \in Versions
    /\ container \in {"absent", "stopped", "running"}
    /\ row \in {"none", "active", "expired", "deleted"}
    /\ wanted \in BOOLEAN /\ alone \in BOOLEAN
    /\ deploy \in [pc : {"clone", "detect", "image", "install", "legacy", "build", "output", "check", "run", "probe", "insert", "configure", "wait",
                         "cleanup", "done", "failed"},
                   site : BOOLEAN, made : BOOLEAN, row : BOOLEAN, pm : {"none", "npm", "pnpm", "yarn"}, left : BOOLEAN]
    /\ call \in [Calls -> [pc : Stages, version : Versions]]
    /\ upload \in [Uploads -> {"idle", "stream", "copy"}]
    /\ spool \in {"absent", "whole", "mixed"}
    /\ redeploys \in 0..MaxRedeploys /\ uses \in 0..MaxUses /\ failures \in 0..MaxFaults

\* A site its owner wants up is up, or a redeploy is about to bring it up again: commits that
\* do not build, overlapping redeploys and webhooks (hosting.py:1118 and 1247, which stop,
\* remove and run without a lock) and the owner's own starts and stops among them leave no
\* site down, as long as docker does what it is told.
Up == \/ container = "running"
      \/ \E c \in Calls : call[c].pc \in {"rm", "run"}

RedeployComesBack ==
    deploy.pc = "done" /\ row = "active" /\ wanted /\ failures = 0 => Up

\* A first deploy that fails, at a stage of its own or because the row cannot be inserted or
\* configured, leaves no container and no checkout (github_deploy_service.py:101, the account
\* of what it created), beside its owner's starts and stops.  Its row it leaves (see Cleanup).
\* Left out is what the code leaves: the container of a docker run that failed, of which the
\* account says nothing (:630-640), or whose docker rm failed, and all of a deploy whose
\* application dies (left); and a deploy with which a redeploy, a webhook or an upload has
\* overlapped (alone), which may put back what the cleanup removes.
FailedDeployUndone ==
    deploy.pc = "failed" /\ ~deploy.left /\ alone => container = "absent" /\ tree = Nothing

\* Each push that builds is served in the end, by a site that runs, when no redeploy overlaps
\* another, an upload or the owner's starts and stops, and no upload has taken the place of the
\* repository: hosting.py:1183, "triggers redeploy".  Not so where the root was detected, see
\* Builds, nor always where another manager than npm was, see Reproducible.
Settled == /\ deploy.pc = "done" /\ row = "active" /\ container = "running"
           /\ failures = 0 /\ alone /\ tree # Zip /\ strategy # "static_auto" /\ Reproducible

PushServed == []<>(Settled => Served = remote \/ remote \in Broken)
=============================================================================
