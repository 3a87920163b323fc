------------------------------ MODULE FixEngine ------------------------------
(***************************************************************************)
(* A client's diagnosis of a site and the fix it proposes: the diagnosis   *)
(* (app/services/hosting/diagnose_service.py), the decision table          *)
(* (app/services/fix_engine.py), the proposals kept for an hour            *)
(* (app/services/fix_memory.py) and the approved one executed              *)
(* (app/services/execution_engine.py, app/api/routes/hosting.py).  The     *)
(* health entry and the alert that a diagnosis writes on its way are in    *)
(* SiteAlerts.                                                             *)
(*                                                                         *)
(* What docker and the logs say of a site is the load of its container and *)
(* the worst of the application's errors in the log.  A fingerprint is     *)
(* that, or for a container that is down, the error alone.                 *)
(***************************************************************************)
EXTENDS Integers, Sequences

CONSTANTS
    Sites,
    Workers,        \* processes of the API, each with an in-memory store
    Diagnoses,      \* requests of POST /hosting/{hosting_id}/diagnose
    Fixes,          \* requests of POST /fix/apply
    Errors,         \* the errors a log may show, of DOMAIN Quality
    FixBudgets      \* bounds, one per behaviour: diagnoses, changes of a site, commands of its
                    \* owner, docker commands that fail, outages of Redis

VARIABLES
    wordpress,      \* sites whose container name says _wp_
    container,      \* the state of each container
    app,            \* the load and the errors of each site
    rows,           \* ai_diagnosis: the rows of each site, the oldest first
    redisUp,        \* Redis answers
    remembered,     \* fix proposals in Redis
    fallback,       \* fix proposals in _store of each worker
    diagnosis,      \* the progress of each diagnosis
    fix,            \* the progress of each application of a fix
    spent,          \* (history) proposals executed with success and not proposed since, while
                    \* Redis has always answered
    left            \* what is left of each bound

fixVars == <<wordpress, container, app, rows, redisUp, remembered, fallback, diagnosis, fix,
             spent, left>>

None == "none"
Idle == [pc |-> "idle"]

\* error_quality_score: a 404 of some page, of the index, errors of PHP, the server, Python
Quality == [none |-> 0, page |-> 1, index |-> 5, php |-> 7, server |-> 8, python |-> 10]

\* _HARD_TRIGGER_TYPES
Hard == {"php", "server", "python"}

\* calculate_health_score: the parser yields none of the error types that it counts, so that
\* a running container's score depends on its CPU and memory.
Score(running, load) ==
    IF ~running THEN 0
    ELSE CASE load = "light" -> 100 [] load = "memory" -> 85
           [] load = "cpu" -> 80 [] load = "both" -> 65

\* is_signal_worth_diagnosing, of errors that are there
WorthDiagnosing(error, score) == error \in Hard \/ score < 85 \/ Quality[error] >= 5

\* _build_fingerprint
Fingerprint(running, load, error) == <<IF running THEN load ELSE "down", error>>

FailureTypes == {"runtime", "infra", "unknown", "syntax", "import"}
-----------------------------------------------------------------------------
\* The rest of the table: an unclear failure, a degraded WordPress, an error of the code
Softer(wp, failure, score) ==
    CASE failure = "unknown" /\ score < 80 -> IF wp THEN "wp_rewrite_flush" ELSE "nginx_reload"
      [] wp /\ 70 <= score /\ score < 90 -> "wp_transient_flush"
      [] failure \in {"syntax", "import"} -> "manual"
      [] OTHER -> None

\* build_fix_proposal: after the gates, the first of the table that applies; None when there is
\* nothing to fix
SelectFix(wp, failure, running, score, quality) ==
    CASE score >= 95 /\ running -> None
      [] quality < 8 /\ running /\ failure \notin {"syntax", "import"} -> None
      [] ~running -> "docker_start"
      [] score >= 90 /\ failure \in {"infra", "runtime", "unknown"} -> None
      [] failure = "runtime" -> IF wp THEN "wp_cache_flush" ELSE "docker_restart"
      [] failure = "infra" -> "docker_restart"
      [] OTHER -> Softer(wp, failure, score)

\* rollback_commands
Rollback(action) ==
    CASE action = "docker_restart" -> "docker_start"
      [] action \in {"nginx_reload", "wp_rewrite_flush"} -> action
      [] OTHER -> None

\* is_auto_executable
CanAutoFix(action) == action # "manual"
-----------------------------------------------------------------------------
\* fix_memory
Proposal(s, fp, action) == [site |-> s, fingerprint |-> fp, action |-> action]
Others(store, s, fp) == {p \in store : p.site # s \/ p.fingerprint # fp}

\* get_proposal, as a set of at most one: _store is read only when Redis raises.
Remembered(w, s, fp) ==
    LET store == IF redisUp THEN remembered ELSE fallback[w] IN store \ Others(store, s, fp)

SaveProposal(w, p) ==
    /\ IF redisUp
         THEN /\ remembered' = Others(remembered, p.site, p.fingerprint) \cup {p}
              /\ UNCHANGED fallback
         ELSE /\ fallback' = [fallback EXCEPT ![w] = Others(@, p.site, p.fingerprint) \cup {p}]
              /\ UNCHANGED remembered
    /\ spent' = spent \ {<<p.site, p.fingerprint>>}

\* (mutant) the worker's own store is cleared, and Redis keeps the proposal
DeleteOwn(w, s, fp) ==
    /\ UNCHANGED remembered
    /\ fallback' = [fallback EXCEPT ![w] = Others(@, s, fp)]

\* delete_proposal: nothing more is done when Redis raises.
DeleteProposal(w, s, fp) ==
    /\ remembered' = IF redisUp THEN Others(remembered, s, fp) ELSE remembered
    /\ UNCHANGED fallback

\* _TTL, in Redis and, when it is read, in _store
Forget(p) ==
    /\ \/ p \in remembered /\ remembered' = remembered \ {p} /\ UNCHANGED fallback
       \/ \E w \in Workers :
            /\ p \in fallback[w]
            /\ fallback' = [fallback EXCEPT ![w] = @ \ {p}]
            /\ UNCHANGED remembered
    /\ UNCHANGED <<wordpress, container, app, rows, redisUp, diagnosis, fix, spent, left>>
-----------------------------------------------------------------------------
\* diagnose_hosting
Spend(kind) == left[kind] > 0 /\ left' = [left EXCEPT ![kind] = @ - 1]

\* docker inspect and stats, the logs: a container that cannot be inspected is "unknown".
Inspect(d, s, w) ==
    /\ diagnosis[d].pc = "idle"
    /\ Spend("diagnoses")
    /\ \E running \in {container[s] = "running", FALSE} :
        diagnosis' = [diagnosis EXCEPT ![d] =
               [pc |-> "looking", site |-> s, worker |-> w, running |-> running,
                load |-> IF running THEN app[s].load ELSE "light", error |-> app[s].error]]
    /\ UNCHANGED <<wordpress, container, app, rows, redisUp, remembered, fallback, fix, spent>>

SeenScore(d) == Score(diagnosis[d].running, diagnosis[d].load)
SeenPrint(d) == Fingerprint(diagnosis[d].running, diagnosis[d].load, diagnosis[d].error)

\* Without errors of the application the answer is not the model's.
Diagnosed(d, failure) ==
    [diagnosis EXCEPT ![d] = [pc |-> "proposing", site |-> @.site, worker |-> @.worker,
        running |-> @.running, load |-> @.load, error |-> @.error,
        failure |-> IF @.error = "none" THEN "unknown" ELSE failure]]

\* get_by_fingerprint: the newest
Known(s, fp) ==
    LET same == {n \in DOMAIN rows[s] : rows[s][n].fingerprint = fp} IN
    {n \in same : \A k \in same : k <= n}

\* A row found is not older than a day; without one, weak signals are saved as a clean
\* diagnosis.  ENABLE_REAL_LLM may be off: no row is read or written.
LookUp(d) ==
    LET s == diagnosis[d].site fp == SeenPrint(d) IN
    /\ diagnosis[d].pc = "looking"
    /\ \/ \E n \in Known(s, fp) : diagnosis' = Diagnosed(d, rows[s][n].failure) /\ UNCHANGED rows
       \/ diagnosis' = Diagnosed(d, "unknown") /\ UNCHANGED rows
       \/ IF diagnosis[d].error # "none" /\ WorthDiagnosing(diagnosis[d].error, SeenScore(d))
            THEN /\ diagnosis' = [diagnosis EXCEPT ![d].pc = "asking"]
                 /\ UNCHANGED rows
            ELSE /\ diagnosis' = Diagnosed(d, "unknown")
                 /\ rows' = [rows EXCEPT ![s] = Append(@, [fingerprint |-> fp, failure |-> "unknown"])]
    /\ UNCHANGED <<wordpress, container, app, redisUp, remembered, fallback, fix, spent, left>>

\* The model answers, and its answer is saved; or something raises.
Answer(d) ==
    LET s == diagnosis[d].site IN
    /\ diagnosis[d].pc = "asking"
    /\ \/ \E failure \in FailureTypes :
            /\ diagnosis' = Diagnosed(d, failure)
            /\ rows' = [rows EXCEPT ![s] =
                   Append(@, [fingerprint |-> SeenPrint(d), failure |-> failure])]
       \/ diagnosis' = Diagnosed(d, "unknown") /\ UNCHANGED rows
    /\ UNCHANGED <<wordpress, container, app, redisUp, remembered, fallback, fix, spent, left>>

Propose(d) ==
    LET s == diagnosis[d].site
        action == SelectFix(s \in wordpress, diagnosis[d].failure, diagnosis[d].running,
                            SeenScore(d), Quality[diagnosis[d].error])
    IN
    /\ diagnosis[d].pc = "proposing"
    /\ IF action = None THEN UNCHANGED <<remembered, fallback, spent>>
       ELSE SaveProposal(diagnosis[d].worker, Proposal(s, SeenPrint(d), action))
    /\ diagnosis' = [diagnosis EXCEPT ![d] = Idle]
    /\ UNCHANGED <<wordpress, container, app, rows, redisUp, fix, left>>

\* get_fix_proposal: what the last row's fingerprint has; rebuilt, it is taken for a running
\* container's without a quality, which leaves the manual one.
GetFix(s, w) ==
    /\ rows[s] # << >>
    /\ LET last == rows[s][Len(rows[s])] IN
       /\ Remembered(w, s, last.fingerprint) = {}
       /\ \E score \in {30, 60, 90} :
            LET action == SelectFix(s \in wordpress, last.failure, TRUE, score, 0) IN
            action # None /\ SaveProposal(w, Proposal(s, last.fingerprint, action))
    /\ UNCHANGED <<wordpress, container, app, rows, redisUp, diagnosis, fix, left>>
-----------------------------------------------------------------------------
\* apply_fix, of a proposal that was approved
Take(r, w, s, fp) ==
    /\ fix[r].pc = "idle"
    /\ \E p \in Remembered(w, s, fp) :
        fix' = [fix EXCEPT ![r] = [pc |-> "taken", worker |-> w, proposal |-> p, alone |-> FALSE]]
    /\ UNCHANGED <<wordpress, container, app, rows, redisUp, remembered, fallback, diagnosis,
                   spent, left>>

Site(r) == fix[r].proposal.site
Action(r) == fix[r].proposal.action

\* can_auto_fix is False: a manual fix is refused.
Refuse(r) ==
    /\ fix[r].pc = "taken" /\ ~CanAutoFix(Action(r))
    /\ fix' = [fix EXCEPT ![r] = Idle]
    /\ UNCHANGED <<wordpress, container, app, rows, redisUp, remembered, fallback, diagnosis,
                   spent, left>>

\* docker exec needs a container that runs.
Works(action, state) == action \in {"docker_start", "docker_restart"} \/ state = "running"

After(action, state) ==
    IF action = "docker_restart" \/ (action = "docker_start" /\ state = "exited")
      THEN "running" ELSE state

\* What a failing command leaves: a restart may have stopped the container, or be under way
\* in the daemon although nobody waits for it any longer.
Broken(action, state) ==
    IF action = "docker_restart" THEN {state, "exited", "restarting"}
    ELSE {state, After(action, state)}

\* A command on the container of s: the fixes of others are no longer alone with it.
Touched(s) == [q \in Fixes |-> IF fix[q].pc \in {"failed", "done"} /\ Site(q) = s
                                 THEN [fix[q] EXCEPT !.alone = FALSE] ELSE fix[q]]
Stage(r, pc) == [Touched(Site(r)) EXCEPT ![r] =
    [fix[r] EXCEPT !.pc = pc, !.alone = container[Site(r)] = "running"]]

\* execute_fix runs the command of the action's, or times out, or raises.
Execute(r) ==
    LET s == Site(r) action == Action(r) IN
    /\ fix[r].pc = "taken" /\ CanAutoFix(action)
    /\ \/ /\ Works(action, container[s])
          /\ container' = [container EXCEPT ![s] = After(action, @)]
          /\ fix' = Stage(r, "done")
          /\ UNCHANGED left
       \/ /\ ~Works(action, container[s])
          /\ fix' = Stage(r, "failed")
          /\ UNCHANGED <<container, left>>
       \/ /\ Spend("failures")
          /\ \E state \in Broken(action, container[s]) :
               container' = [container EXCEPT ![s] = state]
          /\ fix' = Stage(r, "failed")
    /\ UNCHANGED <<wordpress, app, rows, redisUp, remembered, fallback, diagnosis, spent>>

\* (mutant) nothing is rolled back
UndoneBy(action) == None

\* _attempt_rollback
UndoBy(action) == Rollback(action)

RollBack(r) ==
    LET s == Site(r) undo == UndoBy(Action(r)) IN
    /\ fix[r].pc = "failed"
    /\ \/ /\ undo = None \/ ~Works(undo, container[s])
          /\ UNCHANGED <<container, left>>
       \/ /\ undo # None /\ Works(undo, container[s])
          /\ container' = [container EXCEPT ![s] = After(undo, @)]
          /\ UNCHANGED left
       \/ /\ undo # None
          /\ Spend("failures")
          /\ \E state \in Broken(undo, container[s]) :
               container' = [container EXCEPT ![s] = state]
    /\ fix' = [Touched(s) EXCEPT ![r] = Idle]
    /\ UNCHANGED <<wordpress, app, rows, redisUp, remembered, fallback, diagnosis, spent>>

\* The proposal that was executed is forgotten.
Finish(r) ==
    LET p == fix[r].proposal IN
    /\ fix[r].pc = "done"
    /\ DeleteProposal(fix[r].worker, p.site, p.fingerprint)
    /\ spent' = IF redisUp THEN spent \cup {<<p.site, p.fingerprint>>} ELSE spent
    /\ fix' = [fix EXCEPT ![r] = Idle]
    /\ UNCHANGED <<wordpress, container, app, rows, redisUp, diagnosis, left>>
-----------------------------------------------------------------------------
\* Around: the daemon ends a restart; the owner stops or starts the container; the site
\* changes; Redis goes and comes back.
DaemonRestarts(s) ==
    /\ container[s] = "restarting"
    /\ container' = [container EXCEPT ![s] = "running"]
    /\ UNCHANGED <<wordpress, app, rows, redisUp, remembered, fallback, diagnosis, fix, spent, left>>

OwnerCommand(s) ==
    /\ Spend("owner")
    /\ container' = [container EXCEPT ![s] = IF @ = "exited" THEN "running" ELSE "exited"]
    /\ fix' = Touched(s)
    /\ UNCHANGED <<wordpress, app, rows, redisUp, remembered, fallback, diagnosis, spent>>

Trouble(s) ==
    /\ Spend("troubles")
    /\ \E load \in {"light", "memory", "cpu", "both"}, error \in Errors :
        /\ [load |-> load, error |-> error] # app[s]
        /\ app' = [app EXCEPT ![s] = [load |-> load, error |-> error]]
    /\ UNCHANGED <<wordpress, container, rows, redisUp, remembered, fallback, diagnosis, fix, spent>>

Redis ==
    /\ redisUp' = ~redisUp
    /\ IF redisUp THEN Spend("outages") ELSE UNCHANGED left
    /\ spent' = {}
    /\ UNCHANGED <<wordpress, container, app, rows, remembered, fallback, diagnosis, fix>>
-----------------------------------------------------------------------------
FixInit ==
    /\ wordpress \in SUBSET Sites
    /\ container = [s \in Sites |-> "running"]
    /\ app = [s \in Sites |-> [load |-> "light", error |-> "none"]]
    /\ rows = [s \in Sites |-> << >>]
    /\ redisUp = TRUE
    /\ remembered = {}
    /\ fallback = [w \in Workers |-> {}]
    /\ diagnosis = [d \in Diagnoses |-> Idle]
    /\ fix = [r \in Fixes |-> Idle]
    /\ spent = {}
    /\ left \in FixBudgets

FixNext ==
    \/ \E d \in Diagnoses :
        \/ LookUp(d) \/ Answer(d) \/ Propose(d)
        \/ \E s \in Sites, w \in Workers : Inspect(d, s, w)
    \/ \E s \in Sites, w \in Workers : GetFix(s, w)
    \/ \E r \in Fixes :
        \/ Refuse(r) \/ Execute(r) \/ RollBack(r) \/ Finish(r)
        \/ \E w \in Workers : \E p \in remembered \cup fallback[w] :
            Take(r, w, p.site, p.fingerprint)
    \/ \E p \in remembered \cup UNION {fallback[w] : w \in Workers} : Forget(p)
    \/ \E s \in Sites : DaemonRestarts(s) \/ OwnerCommand(s) \/ Trouble(s)
    \/ Redis
-----------------------------------------------------------------------------
\* Properties

\* Every variable has its type; a proposal is for a site and what was seen of it.
FixTypeOK ==
    /\ wordpress \subseteq Sites
    /\ container \in [Sites -> {"running", "exited", "restarting"}]
    /\ redisUp \in BOOLEAN
    /\ \A p \in remembered : p.site \in Sites /\ p.action # None
    /\ DOMAIN diagnosis = Diagnoses /\ DOMAIN fix = Fixes

Ends(r) == fix[r].pc \in {"failed", "done"} /\ fix'[r].pc = "idle"

\* A fix that is applied to a running container leaves none stopped, whichever of its commands
\* fails, as long as its rollback does not (execution_engine.py:12-16: "rollback is attempted
\* automatically") and nobody else gives the container a command meanwhile.
LeavesRunning(r) ==
    (Ends(r) /\ fix[r].alone /\ left' = left) => container'[Site(r)] # "exited"

\* A proposal once executed with success is not taken again before a diagnosis proposes it
\* again (hosting.py:1739: "so the next diagnosis sees a fresh state"), unless Redis has been
\* away.  Two applications may both have taken it before either was done: of that nothing is
\* said.
TakenOnce(r) ==
    (fix[r].pc = "idle" /\ fix'[r].pc = "taken")
        => <<fix'[r].proposal.site, fix'[r].proposal.fingerprint>> \notin spent
=============================================================================
