------------------------------ MODULE Backups ------------------------------
(***************************************************************************)
(* The backups of a site: TenantBackup with the policies that decide whom  *)
(* the daily job backs up, and the older instance backups.                 *)
(***************************************************************************)
EXTENDS TenantBackup, Sequences

CONSTANTS
    MaxTroubles,        \* bound: errors and faults together, while no policy changes
    Editors, Updates, MaxEdits, MaxStops,
    Makers, Removers, MaxRows, MaxSeconds, MaxBreaks,
    Worlds      \* bound: what a behaviour is about: "tenant", "policy" or "instance"

VARIABLES
    policy, history, editor, edits, stops,
    backups, payloads, maker, remover, second, breaks,
    job,        \* the locals of every backup_tenants_job
    world       \* what this behaviour is about

Policies == INSTANCE BackupPolicies WITH Sites <- Hostings, PlanAutomatic <- Automatic
Legacy == INSTANCE InstanceBackups

pvars == <<policy, history, editor, edits, stops>>
ivars == <<backups, payloads, maker, remover, second, breaks>>

ASSUME BackupsAssumption ==
    /\ Updates \subseteq Policies!Update
    /\ Worlds \subseteq {"tenant", "policy", "instance"}
    /\ MaxRows \in Nat /\ MaxSeconds \in Nat /\ MaxBreaks \in Nat

NoJob == [pc |-> "idle", ask |-> {}, eligible |-> {}, open |-> {}]

BackupsInit ==
    /\ Init
    /\ Policies!PolicyInit
    /\ Legacy!InstanceInit
    /\ job = [a \in Schedulers |-> NoJob]
    /\ world \in Worlds
-----------------------------------------------------------------------------
\* backup_tenants_job: every candidate's policy is asked first, then the eligible tenants
\* are backed up one after the other.

Unpaused == {h \in Hostings : ~Policies!Effective(h).paused}

JobStarts(a) ==
    /\ job[a].pc = "idle" /\ At(a, "idle")
    /\ job' = [job EXCEPT ![a] = [pc |-> "ask", ask |-> Hostings, eligible |-> {}, open |-> Unpaused]]

\* (mutant) the job does not ask whether backups are paused
EligiblePaused(h) == Policies!Effective(h).automatic

Eligible(h) == ~Policies!Effective(h).paused /\ Policies!Effective(h).automatic

Decided(a, h, yes) ==
    job' = [job EXCEPT ![a].ask = @ \ {h}, ![a].eligible = IF yes THEN @ \cup {h} ELSE @]

JobAsks(a) == \E h \in job[a].ask : Decided(a, h, Eligible(h)) /\ UNCHANGED vars

\* The policy lookup raises: the plan alone decides.
JobAskRaises(a) ==
    /\ Lose
    /\ \E h \in job[a].ask : Decided(a, h, h \in Automatic)
    /\ UNCHANGED <<rows, disk, thread, errors>>

\* create_tenant_backup looks at the plan again, and at running backups.
JobCreates(a) ==
    /\ job[a].pc = "ask" /\ job[a].ask = {} /\ At(a, "idle")
    /\ \E h \in job[a].eligible :
        /\ job' = [job EXCEPT ![a].eligible = @ \ {h}]
        /\ \/ CheckNoRunning(a, h, "schedule")
           \/ ~(Entitled(h, "schedule") /\ Running(h) = {}) /\ UNCHANGED vars

JobEnds(a) ==
    /\ job[a].pc = "ask" /\ job[a].ask = {} /\ job[a].eligible = {} /\ At(a, "idle")
    /\ job' = [job EXCEPT ![a] = NoJob]

PolicyStep(a) ==
    /\ Policies!EditorStep(a)
    /\ job' = [b \in Schedulers |->
                 IF job[b].pc = "idle" THEN job[b]
                 ELSE [job[b] EXCEPT !.open = @ \cup Unpaused']]

\* Where policies are changed, automatic backups come from the job alone.
PolicyWorld ==
    \/ \E a \in Editors : PolicyStep(a) /\ UNCHANGED vars
    \/ /\ UNCHANGED pvars
       /\ \E a \in Schedulers :
            \/ (JobStarts(a) \/ JobEnds(a)) /\ UNCHANGED vars
            \/ JobAsks(a) \/ JobAskRaises(a) \/ JobCreates(a)
            \/ (Step(a) \/ Crash(a)) /\ UNCHANGED job

BackupsNext ==
    /\ UNCHANGED world
    /\ \/ world = "tenant" /\ Next /\ errors' + faults' <= MaxTroubles /\ UNCHANGED <<pvars, ivars, job>>
       \/ world = "policy" /\ PolicyWorld /\ UNCHANGED ivars
       \/ world = "instance" /\ Legacy!InstanceNext /\ UNCHANGED <<vars, pvars, job>>

BackupsSpec == BackupsInit /\ [][BackupsNext]_<<vars, pvars, ivars, job, world>>

\* A thread that has started runs on: the executor and the OS schedule it.
ThreadStep(a) == world = "tenant" /\ Step(a) /\ UNCHANGED <<pvars, ivars, job, world>>

FairSpec == BackupsSpec /\ \A a \in Actors : WF_<<vars, pvars, ivars, job, world>>(ThreadStep(a))
-----------------------------------------------------------------------------
\* A tenant whose backups stayed paused for the whole of a daily job gets no backup from
\* it, a failed policy lookup apart.
PauseHeld ==
    [][faults = 0 => \A a \in Schedulers :
         (job[a].pc # "idle" /\ At(a, "idle") /\ thread'[a].pc = "insert") =>
            thread'[a].hid \in job[a].open]_<<vars, pvars, ivars, job, world>>

\* Instance backups and their files match where no step raised and no two began in the same
\* second (InstanceBackups: PayloadsMatch).
PayloadsMatch == Legacy!PayloadsMatch
=============================================================================
