----------------------- MODULE HostingLifecycle_proofs -----------------------
(***************************************************************************)
(* Type correctness of HostingLifecycle, that a hosting which only the job *)
(* touches is down when it is shown as expired, and that a client's DELETE *)
(* leaves no container behind unless two docker commands fail, for any     *)
(* number of hostings, users and requests.                                 *)
(*                                                                         *)
(* Both rest on what docker may do to a container (DockerMove): only the   *)
(* routes start one, and none that is gone comes back.  Untouched carries  *)
(* the outcome of docker stop from the worker, or the recovery, to the row *)
(* it is written to; Looked carries it from docker rm and docker inspect   *)
(* to the row that is deleted.                                             *)
(*                                                                         *)
(* The second half is GitDeploy, which creates such hostings, for any      *)
(* number of pushes, redeploys and faults: a site that a redeploy took     *)
(* down is up again, and a deploy that failed has undone what it made.     *)
(* GitInv follows the checkout, the container and the row through the      *)
(* stages of both.                                                         *)
(***************************************************************************)
EXTENDS GitDeploy, HostingLifecycle, FiniteSetTheorems, TLAPS

Rows == hosting \in [Sites -> Hosting]
Accounts == account \in [Users -> Account]
Ages == age \in [Sites -> Age]
Containers == docker \in [Sites -> Container]
Jobs == job \in Job /\ worker \in [Sites -> Worker]
Routes == admin \in Admin /\ client \in Client
Bounds == bound \in Budgets /\ faults \in 0..bound.faults /\ requests \in 0..bound.requests

LEMMA TypeParts ==
    TypeOK <=> Rows /\ Accounts /\ Ages /\ Containers /\ Jobs /\ Routes /\ Bounds
  BY DEF TypeOK, Rows, Accounts, Ages, Containers, Jobs, Routes, Bounds

LEMMA Constants ==
    /\ IsFiniteSet(Sites) /\ Sites # {} /\ AnySite \in Sites
    /\ \A s \in Sites : Owner[s] \in Users
    /\ Batch \in Nat \ {0}
    /\ Cardinality(Sites) \in Nat
    /\ \A b \in Budgets : b.faults \in Nat /\ b.requests \in Nat
  BY LifecycleAssumption, FS_CardinalityType DEF AnySite

LEMMA Idles == IdleJob \in Job /\ IdleAdmin \in Admin /\ IdleClient \in Client
  BY Constants DEF IdleJob, IdleAdmin, IdleClient, Job, JobPC, Admin, Client
-----------------------------------------------------------------------------
\* Pages, rows, docker and the bounds

\* A page is of the rows it was taken from, and there is none past the last row.
LEMMA PageOf ==
    ASSUME NEW S \in SUBSET Sites, NEW offset \in Nat, NEW page \in Pages(S, offset)
    PROVE  /\ page \subseteq Sites
           /\ page # {} => offset + Batch \in 0..(2 * Cardinality(Sites) + Batch)
  <1>1. IsFiniteSet(S) /\ Cardinality(S) \in Nat /\ Cardinality(S) <= Cardinality(Sites)
    BY Constants, FS_Subset, FS_CardinalityType
  <1>2. page \subseteq S
    BY DEF Pages, kSubset
  <1>3. CASE Cardinality(S) - offset <= 0
    <2>1. page = {}
      BY <1>3 DEF Pages
    <2> QED BY <1>2, <2>1
  <1>4. CASE ~(Cardinality(S) - offset <= 0)
    <2>1. offset + Batch <= 2 * Cardinality(Sites) + Batch /\ offset + Batch >= 0
      BY <1>1, <1>4, Constants
    <2>2. offset + Batch \in Int /\ 2 * Cardinality(Sites) + Batch \in Int
      BY Constants
    <2> QED BY <1>2, <2>1, <2>2
  <1> QED BY <1>3, <1>4

LEMMA StatusWritten ==
    ASSUME Rows, NEW s \in Sites, NEW st \in Statuses, UpdateStatus(s, st)
    PROVE  /\ Rows'
           /\ \A x \in Sites : hosting'[x].status = hosting[x].status \/ (x = s /\ hosting'[x].status = st)
  BY DEF UpdateStatus, Rows, Hosting

LEMMA RowGone ==
    ASSUME Rows, NEW s \in Sites, hosting' = [hosting EXCEPT ![s].status = "none"]
    PROVE  /\ Rows'
           /\ \A x \in Sites : hosting'[x].status \in {hosting[x].status, "none"}
  BY DEF Rows, Hosting, Statuses

\* A fault counts once, within the bound.
FaultsMove == faults' = faults \/ (faults' = faults + 1 /\ faults < bound.faults)

LEMMA Counted == Bounds => faults \in Nat /\ requests \in Nat
  <1> SUFFICES ASSUME Bounds PROVE faults \in Nat /\ requests \in Nat
    OBVIOUS
  <1>1. bound.faults \in Nat /\ bound.requests \in Nat
    BY Constants DEF Bounds
  <1> QED BY <1>1 DEF Bounds

LEMMA BoundsKept ==
    ASSUME Bounds, FaultsMove, UNCHANGED bound, Request \/ UNCHANGED requests
    PROVE  Bounds' /\ faults' >= faults /\ requests' >= requests
  BY Constants DEF Bounds, FaultsMove, Request

\* What a step may do to the containers: none comes back, and but for a start none comes up.
Fewer == \A x \in Sites : docker[x] = "absent" => docker'[x] = "absent"
Calmer == \A x \in Sites : docker[x] # "up" => docker'[x] # "up"
DockerMove == Containers' /\ FaultsMove /\ Fewer /\ Calmer

LEMMA DockerStops ==
    ASSUME Containers, NEW s \in Sites, StopSucceeds(s) \/ StopFails(s) \/ StopTimesOut(s)
    PROVE  DockerMove /\ (StopSucceeds(s) => docker'[s] # "up")
  <1>1. \E d \in Container : /\ docker' = [docker EXCEPT ![s] = d]
                             /\ docker[s] = "absent" => d = "absent"
                             /\ docker[s] # "up" => d # "up"
                             /\ StopSucceeds(s) => d = "exited"
    <2>1. CASE StopSucceeds(s)
      BY <2>1 DEF StopSucceeds, Containers, Container
    <2>2. CASE StopFails(s) /\ ~StopSucceeds(s)
      BY <2>2 DEF StopFails, Containers, Container
    <2>3. CASE StopTimesOut(s) /\ ~StopSucceeds(s)
      BY <2>3 DEF StopTimesOut, Containers, Container
    <2> QED BY <2>1, <2>2, <2>3
  <1>2. FaultsMove
    BY DEF FaultsMove, StopSucceeds, StopFails, StopTimesOut, Fault, NoFault
  <1> QED BY <1>1, <1>2 DEF DockerMove, Containers, Fewer, Calmer

LEMMA DockerRemoves ==
    ASSUME Containers, NEW s \in Sites, RemoveSucceeds(s) \/ RemoveFails(s) \/ RemoveTimesOut(s)
    PROVE  /\ DockerMove
           /\ RemoveSucceeds(s) => docker'[s] = "absent"
           /\ RemoveFails(s) => faults' = faults + 1
  <1>1. \E d \in Container : /\ docker' = [docker EXCEPT ![s] = d]
                             /\ d \in {docker[s], "absent"}
                             /\ RemoveSucceeds(s) => d = "absent"
    BY DEF RemoveSucceeds, RemoveFails, RemoveTimesOut, Containers, Container
  <1>2. FaultsMove
    BY DEF FaultsMove, RemoveSucceeds, RemoveFails, RemoveTimesOut, Fault, NoFault
  <1>3. RemoveFails(s) => faults' = faults + 1
    BY DEF RemoveFails, Fault
  <1> QED BY <1>1, <1>2, <1>3 DEF DockerMove, Containers, Fewer, Calmer

LEMMA DockerStarts ==
    ASSUME Containers, NEW s \in Sites, StartContainer(s) \/ UNCHANGED docker, Fault \/ NoFault
    PROVE  Containers' /\ FaultsMove /\ Fewer
  <1>1. FaultsMove
    BY DEF FaultsMove, Fault, NoFault
  <1> QED BY <1>1 DEF StartContainer, Containers, Container, Fewer

LEMMA DockerRests ==
    ASSUME Containers, UNCHANGED docker, Fault \/ NoFault \/ UNCHANGED faults
    PROVE  DockerMove
  BY DEF DockerMove, Containers, FaultsMove, Fault, NoFault, Fewer, Calmer
-----------------------------------------------------------------------------
\* Types

LEMMA JobTypes ==
    ASSUME TypeOK, JobStep
    PROVE  Rows' /\ Jobs' /\ DockerMove /\ UNCHANGED <<account, age, admin, client, requests>>
  <1> USE TypeParts
  <1>1. CASE BeginCycle
    <2>1. StaleExpiring \subseteq Sites
      BY DEF StaleExpiring, WithStatus
    <2>2. Jobs'
      BY <1>1, <2>1, Idles DEF BeginCycle, Jobs, Job, JobPC
    <2> QED BY <1>1, <2>2, DockerRests DEF BeginCycle, Rows
  <1>2. ASSUME NEW s \in Sites, RecoverStop(s)
        PROVE  Rows' /\ Jobs' /\ DockerMove /\ UNCHANGED <<account, age, admin, client, requests>>
    <2>1. Jobs'
      BY <1>2 DEF RecoverStop, Jobs, Job, JobPC
    <2> QED BY <1>2, <2>1, DockerStops DEF RecoverStop, Rows
  <1>3. CASE RecoverUpdate
    <2>1. job.site \in Sites /\ RecoveredStatus \in Statuses
      BY DEF Jobs, Job, RecoveredStatus, Statuses
    <2>2. Jobs'
      BY <1>3 DEF RecoverUpdate, Jobs, Job, JobPC
    <2> QED BY <1>3, <2>1, <2>2, StatusWritten, DockerRests DEF RecoverUpdate
  <1>4. CASE ScanBatch
    <2>1. PICK page \in Pages(ExpiringFree, job.offset) :
            IF page = {}
            THEN /\ job' = [job EXCEPT !.pc = "clean", !.offset = 0]
                 /\ UNCHANGED worker
            ELSE /\ job' = [job EXCEPT !.offset = @ + Batch,
                                       !.pc = IF page \cap Due = {} THEN "scan" ELSE "pool"]
                 /\ worker' = [s \in Sites |-> IF s \in page \cap Due THEN "queued" ELSE "none"]
      BY <1>4 DEF ScanBatch
    <2>2. ExpiringFree \subseteq Sites /\ job.offset \in Nat
      BY Constants DEF ExpiringFree, WithStatus, Jobs, Job
    <2>3. page # {} => job.offset + Batch \in 0..(2 * Cardinality(Sites) + Batch)
      BY <2>2, PageOf
    <2>4. Jobs'
      <3>1. CASE page = {}
        <4>1. 0 \in 0..(2 * Cardinality(Sites) + Batch)
          BY Constants
        <4> QED BY <2>1, <3>1, <4>1 DEF Jobs, Job, JobPC
      <3>2. CASE page # {}
        <4>1. job' \in Job
          BY <2>1, <2>3, <3>2 DEF Jobs, Job, JobPC
        <4>2. worker' \in [Sites -> Worker]
          BY <2>1, <3>2 DEF Worker
        <4> QED BY <4>1, <4>2 DEF Jobs
      <3> QED BY <3>1, <3>2
    <2> QED BY <1>4, <2>4, DockerRests DEF ScanBatch, Rows
  <1>5. CASE PoolDone
    <2>1. Jobs'
      BY <1>5 DEF PoolDone, Jobs, Job, JobPC
    <2> QED BY <1>5, <2>1, DockerRests DEF PoolDone, Rows
  <1>6. CASE CleanBatch
    <2>1. PICK page \in Pages(AwaitingCleanup, job.offset) :
            IF page = {}
            THEN job' = IdleJob
            ELSE job' = [job EXCEPT !.pc = "removing", !.todo = page, !.offset = @ + Batch]
      BY <1>6 DEF CleanBatch
    <2>2. AwaitingCleanup \subseteq Sites /\ job.offset \in Nat
      BY Constants DEF AwaitingCleanup, WithStatus, Jobs, Job
    <2>3. page \subseteq Sites
          /\ (page # {} => job.offset + Batch \in 0..(2 * Cardinality(Sites) + Batch))
      BY <2>2, PageOf
    <2>4. job' \in Job
      BY <2>1, <2>3, Idles DEF Jobs, Job, JobPC
    <2>5. Jobs'
      BY <1>6, <2>4 DEF CleanBatch, Jobs
    <2> QED BY <1>6, <2>5, DockerRests DEF CleanBatch, Rows
  <1>7. ASSUME NEW s \in Sites, CleanRemove(s)
        PROVE  Rows' /\ Jobs' /\ DockerMove /\ UNCHANGED <<account, age, admin, client, requests>>
    <2>1. Jobs'
      BY <1>7 DEF CleanRemove, AfterRow, Jobs, Job, JobPC
    <2> QED BY <1>7, <2>1, DockerRemoves DEF CleanRemove, Rows
  <1>8. CASE MarkDeleted
    <2>1. job.site \in Sites /\ "deleted" \in Statuses
      BY DEF Jobs, Job, Statuses
    <2>2. Jobs'
      BY <1>8 DEF MarkDeleted, AfterRow, Jobs, Job, JobPC
    <2> QED BY <1>8, <2>1, <2>2, StatusWritten, DockerRests DEF MarkDeleted
  <1> QED BY <1>1, <1>2, <1>3, <1>4, <1>5, <1>6, <1>7, <1>8 DEF JobStep

LEMMA WorkerTypes ==
    ASSUME TypeOK, NEW s \in Sites, WorkerStep(s)
    PROVE  Rows' /\ Jobs' /\ DockerMove /\ UNCHANGED <<account, age, admin, client, requests>>
  <1> USE TypeParts
  <1>1. CASE ExpireMark(s)
    <2>1. "expiring" \in Statuses
      BY DEF Statuses
    <2>2. Jobs'
      BY <1>1 DEF ExpireMark, Jobs, Worker
    <2> QED BY <1>1, <2>1, <2>2, StatusWritten, DockerRests DEF ExpireMark
  <1>2. CASE ExpireStop(s)
    <2>1. Jobs'
      BY <1>2 DEF ExpireStop, Jobs, Worker
    <2> QED BY <1>2, <2>1, DockerStops DEF ExpireStop, Rows
  <1>3. CASE ExpireUpdate(s)
    <2>1. ExpiredStatus(s) \in Statuses
      BY DEF ExpiredStatus, Statuses
    <2>2. Jobs'
      BY <1>3 DEF ExpireUpdate, Jobs, Worker
    <2> QED BY <1>3, <2>1, <2>2, StatusWritten, DockerRests DEF ExpireUpdate
  <1> QED BY <1>1, <1>2, <1>3 DEF WorkerStep


\* What the routes leave alone, and what of the rest they keep.
Asked == Request \/ UNCHANGED requests

LEMMA AdminTypes ==
    ASSUME TypeOK, AdminStep
    PROVE  /\ Rows' /\ Accounts' /\ Routes' /\ Containers' /\ FaultsMove /\ Fewer /\ Asked
           /\ UNCHANGED <<age, job, worker, client>>
  <1> USE TypeParts
  <1> DEFINE Kept == /\ Rows' /\ Accounts' /\ Routes' /\ Containers' /\ FaultsMove /\ Fewer /\ Asked
                     /\ UNCHANGED <<age, job, worker, client>>
  <1>1. CASE AdminStop
    <2>1. Routes'
      BY <1>1, Idles DEF AdminStop, Routes, Admin
    <2>2. admin.site \in Sites
      BY DEF Routes, Admin
    <2>3. DockerMove
      BY <1>1, <2>2, DockerStops DEF AdminStop
    <2> QED BY <1>1, <2>1, <2>3 DEF AdminStop, DockerMove, Rows, Accounts, Asked
  <1>2. CASE AdminStart
    <2>1. Routes'
      BY <1>2, Idles DEF AdminStart, Routes, Admin
    <2>2. admin.site \in Sites
      BY DEF Routes, Admin
    <2>3. Containers' /\ FaultsMove /\ Fewer
      BY <1>2, <2>2, DockerStarts DEF AdminStart
    <2> QED BY <1>2, <2>1, <2>3 DEF AdminStart, Rows, Accounts, Asked
  <1>3. CASE AdminSetStatus
    <2>1. admin.site \in Sites /\ "stopped" \in Statuses /\ "active" \in Statuses
      BY DEF Routes, Admin, Statuses
    <2>2. Rows'
      BY <1>3, <2>1, StatusWritten DEF AdminSetStatus
    <2>3. Routes'
      BY <1>3, Idles DEF AdminSetStatus, Routes
    <2> QED BY <1>3, <2>2, <2>3, DockerRests DEF AdminSetStatus, DockerMove, Accounts, Asked
  <1>4. CASE AdminCleanup
    <2>1. Routes'
      BY <1>4, Idles DEF AdminCleanup, Routes, Admin
    <2>2. admin.site \in Sites
      BY DEF Routes, Admin
    <2>3. DockerMove
      BY <1>4, <2>2, DockerRemoves DEF AdminCleanup
    <2> QED BY <1>4, <2>1, <2>3 DEF AdminCleanup, DockerMove, Rows, Accounts, Asked
  <1>5. CASE AdminHardDelete
    <2>1. admin.site \in Sites
      BY DEF Routes, Admin
    <2>2. Rows'
      BY <1>5, <2>1, RowGone DEF AdminHardDelete
    <2>3. Routes'
      BY <1>5, Idles DEF AdminHardDelete, Routes
    <2> QED BY <1>5, <2>2, <2>3, DockerRests DEF AdminHardDelete, DockerMove, Accounts, Asked
  <1>6. CASE AdminPurge
    <2>1. Routes'
      BY <1>6 DEF AdminPurge, Routes, Admin, AdminRequests, WithStatus
    <2> QED BY <1>6, <2>1, DockerRests DEF AdminPurge, DockerMove, Rows, Accounts, Asked
  <1>7. CASE UpgradeNone
    <2>1. Routes'
      BY <1>7, Idles DEF UpgradeNone, Routes
    <2> QED BY <1>7, <2>1, DockerRests DEF UpgradeNone, DockerMove, Rows, Accounts, Asked
  <1>8. ASSUME NEW s \in Sites, PurgeRow(s) PROVE Kept
    <2>1. Rows'
      BY <1>8, RowGone DEF PurgeRow
    <2>2. Routes'
      BY <1>8, Idles DEF PurgeRow, Routes, Admin
    <2> QED BY <1>8, <2>1, <2>2, DockerRests DEF PurgeRow, DockerMove, Accounts, Asked
  <1>9. ASSUME NEW s \in Sites, UpgradeHosting(s) PROVE Kept
    <2>1. Rows'
      BY <1>9 DEF UpgradeHosting, Rows, Hosting
    <2>2. Routes'
      BY <1>9, Idles DEF UpgradeHosting, Routes, Admin
    <2> QED BY <1>9, <2>1, <2>2, DockerRests DEF UpgradeHosting, DockerMove, Accounts, Asked
  <1>10. ASSUME NEW s \in Sites, NEW op \in AdminRequests, AdminHosting(op, s) PROVE Kept
    <2>1. Routes'
      BY <1>10 DEF AdminHosting, Routes, Admin
    <2> QED BY <1>10, <2>1, DockerRests DEF AdminHosting, DockerMove, Rows, Accounts, Asked
  <1>11. ASSUME NEW u \in Users, AdminUpgrade(u) PROVE Kept
    <2>1. Accounts'
      BY <1>11 DEF AdminUpgrade, Accounts, Account
    <2>2. Routes'
      BY <1>11 DEF AdminUpgrade, Routes, Admin, AdminRequests
    <2> QED BY <1>11, <2>1, <2>2, DockerRests DEF AdminUpgrade, DockerMove, Rows, Asked
  <1>12. ASSUME NEW u \in Users, NEW op \in AdminRequests, AdminFreePlan(op, u) PROVE Kept
    <2>1. NewExpiry(op) \in {"null", "future", "past", "2099"}
      <3>1. op \in {"extend", "forever", "deactivate"}
        BY <1>12 DEF AdminFreePlan
      <3> QED BY <3>1, ZenonT(60) DEF NewExpiry
    <2>2. Accounts'
      BY <1>12, <2>1 DEF AdminFreePlan, Accounts, Account
    <2> QED BY <1>12, <2>2, DockerRests DEF AdminFreePlan, DockerMove, Rows, Routes, Asked
  <1> QED BY <1>1, <1>2, <1>3, <1>4, <1>5, <1>6, <1>7, <1>8, <1>9, <1>10, <1>11, <1>12 DEF AdminStep

LEMMA ClientTypes ==
    ASSUME TypeOK, ClientStep
    PROVE  /\ Rows' /\ Accounts' /\ Routes' /\ Containers' /\ FaultsMove /\ Fewer /\ Asked
           /\ UNCHANGED <<age, job, worker, admin>>
  <1> USE TypeParts
  <1> DEFINE Kept == /\ Rows' /\ Accounts' /\ Routes' /\ Containers' /\ FaultsMove /\ Fewer /\ Asked
                     /\ UNCHANGED <<age, job, worker, admin>>
  <1>0. client.site \in Sites
    BY DEF Routes, Client
  <1>1. CASE DeleteRemove
    <2>1. Routes'
      BY <1>1 DEF DeleteRemove, Routes, Client
    <2>2. DockerMove
      BY <1>0, <1>1, DockerRemoves DEF DeleteRemove
    <2> QED BY <1>1, <2>1, <2>2 DEF DeleteRemove, DockerMove, Rows, Accounts, Asked
  <1>2. CASE DeleteVerify
    <2>1. Routes'
      BY <1>2, Idles DEF DeleteVerify, Routes, Client
    <2> QED BY <1>2, <2>1, DockerRests DEF DeleteVerify, DockerMove, Rows, Accounts, Asked
  <1>3. CASE DeleteRow
    <2>1. Rows'
      BY <1>0, <1>3, RowGone DEF DeleteRow
    <2>2. Routes'
      BY <1>3, Idles DEF DeleteRow, Routes
    <2> QED BY <1>3, <2>1, <2>2, DockerRests DEF DeleteRow, DockerMove, Accounts, Asked
  <1>4. ASSUME NEW s \in Sites, ClientStart(s) PROVE Kept
    BY <1>4, DockerStarts DEF ClientStart, NoFault, Rows, Accounts, Routes, Asked
  <1>5. ASSUME NEW s \in Sites, ClientStop(s) PROVE Kept
    BY <1>5, DockerStops DEF ClientStop, DockerMove, Rows, Accounts, Routes, Asked
  <1>6. ASSUME NEW s \in Sites, ClientDelete(s) PROVE Kept
    <2>1. Routes'
      BY <1>6 DEF ClientDelete, Routes, Client
    <2> QED BY <1>6, <2>1, DockerRests DEF ClientDelete, DockerMove, Rows, Accounts, Asked
  <1>7. ASSUME NEW u \in Users, PaymentApproved(u) PROVE Kept
    <2>1. Accounts'
      BY <1>7 DEF PaymentApproved, Accounts, Account
    <2> QED BY <1>7, <2>1, DockerRests DEF PaymentApproved, DockerMove, Rows, Routes, Asked
  <1> QED BY <1>1, <1>2, <1>3, <1>4, <1>5, <1>6, <1>7 DEF ClientStep

LEMMA TypeInit == Init => TypeOK
  <1> SUFFICES ASSUME Init PROVE TypeOK
    OBVIOUS
  <1>1. Rows /\ Accounts /\ Ages /\ Containers
    BY DEF Init, Rows, Accounts, Ages, Containers, Hosting, Account, Age, Container, Statuses
  <1>2. Jobs /\ Routes
    BY Idles DEF Init, Jobs, Routes, Worker
  <1>3. Bounds
    BY Constants DEF Init, Bounds
  <1> QED BY <1>1, <1>2, <1>3, TypeParts

LEMMA CrashTypes ==
    ASSUME TypeOK, Crash
    PROVE  Jobs' /\ DockerMove /\ UNCHANGED <<hosting, account, age, docker, admin, client, requests>>
  <1>1. Jobs'
    BY Idles DEF Crash, Jobs, Worker
  <1> QED BY <1>1, TypeParts, DockerRests DEF Crash

LEMMA TimeTypes ==
    ASSUME TypeOK, TimeStep
    PROVE  /\ Accounts' /\ Ages'
           /\ UNCHANGED <<hosting, docker, job, worker, admin, client, faults, requests, bound>>
  <1>1. ASSUME NEW s \in Sites, Aging(s) PROVE Accounts' /\ Ages'
    <2>1. age[s] \in {"fresh", "trial"} /\ Ages /\ Accounts
      BY <1>1, TypeParts DEF Aging, Ages, Age
    <2>2. Older[age[s]] \in Age
      BY <2>1 DEF Older, Age
    <2> QED BY <1>1, <2>1, <2>2 DEF Aging, Ages, Accounts
  <1>2. ASSUME NEW u \in Users, ExpiryPasses(u) PROVE Accounts' /\ Ages'
    BY <1>2, TypeParts DEF ExpiryPasses, Accounts, Account, Ages
  <1> QED BY <1>1, <1>2 DEF TimeStep, Aging, ExpiryPasses

LEMMA BoundSteps ==
    ASSUME TypeOK, Next
    PROVE  Bounds' /\ faults' >= faults /\ requests' >= requests
  <1>1. CASE TimeStep
    BY <1>1, TimeTypes, TypeParts DEF Bounds
  <1>2. CASE ~TimeStep
    <2>1. FaultsMove /\ UNCHANGED bound /\ Asked
      BY <1>2, JobTypes, WorkerTypes, AdminTypes, ClientTypes, CrashTypes
         DEF Next, DockerMove, Asked, JobStep, WorkerStep, AdminStep, ClientStep
    <2> QED BY <2>1, BoundsKept, TypeParts DEF Asked
  <1> QED BY <1>1, <1>2

LEMMA TypeNext == TypeOK /\ [Next]_vars => TypeOK'
  <1> SUFFICES ASSUME TypeOK, [Next]_vars PROVE TypeOK'
    OBVIOUS
  <1> DEFINE Parts == Rows' /\ Accounts' /\ Ages' /\ Containers' /\ Jobs' /\ Routes'
  <1>0. Rows /\ Accounts /\ Ages /\ Containers /\ Jobs /\ Routes /\ Bounds
    BY TypeParts
  <1>1. CASE UNCHANGED vars
    BY <1>1 DEF vars, TypeOK
  <1>2. CASE Next
    <2>1. ASSUME JobStep \/ \E s \in Sites : WorkerStep(s) PROVE Parts
      <3>1. Rows' /\ Jobs' /\ DockerMove /\ UNCHANGED <<account, age, admin, client>>
        BY <2>1, JobTypes, WorkerTypes
      <3> QED BY <1>0, <3>1 DEF Accounts, Ages, Routes, DockerMove
    <2>2. ASSUME AdminStep \/ ClientStep PROVE Parts
      <3>1. Rows' /\ Accounts' /\ Routes' /\ Containers' /\ UNCHANGED <<age, job, worker>>
        BY <2>2, AdminTypes, ClientTypes
      <3> QED BY <1>0, <3>1 DEF Ages, Jobs
    <2>3. ASSUME Crash PROVE Parts
      <3>1. Jobs' /\ Containers' /\ UNCHANGED <<hosting, account, age, admin, client>>
        BY <2>3, CrashTypes DEF DockerMove
      <3> QED BY <1>0, <3>1 DEF Rows, Accounts, Ages, Routes
    <2>4. ASSUME TimeStep PROVE Parts
      BY <1>0, <2>4, TimeTypes DEF Rows, Containers, Jobs, Routes
    <2>5. Parts
      BY <1>2, <2>1, <2>2, <2>3, <2>4 DEF Next
    <2>6. Bounds'
      BY <1>2, BoundSteps
    <2>7. TypeOK' <=> Rows' /\ Accounts' /\ Ages' /\ Containers' /\ Jobs' /\ Routes' /\ Bounds'
      BY DEF TypeOK, Rows, Accounts, Ages, Containers, Jobs, Routes, Bounds
    <2> QED BY <2>5, <2>6, <2>7
  <1> QED BY <1>1, <1>2

\* Every reachable state of the lifecycle is well typed, for any number of hostings, users,
\* faults and requests: the paged loops of the job run past the end of their rows by less
\* than a page, the locals of every route name hostings that exist.
THEOREM LifecycleTypeCorrect == Spec => []TypeOK
  BY TypeInit, TypeNext, PTL DEF Spec
-----------------------------------------------------------------------------
\* A hosting nobody but the job touches.  What has been stopped stays down: the exit code
\* of docker stop is still true when it is written to the row.

Untouched ==
    requests = 0 =>
        /\ admin.op = "idle" /\ client.op = "idle"
        /\ \A s \in Sites : hosting[s].status = "expired" \/ worker[s] = "stopped" => docker[s] # "up"
        /\ job.pc = "recovered" /\ job.ok => docker[job.site] # "up"

LEMMA UntouchedJob ==
    ASSUME TypeOK, Untouched, JobStep, requests = 0
    PROVE  Untouched'
  <1> USE TypeParts
  <1>1. /\ Calmer /\ UNCHANGED <<admin, client>> /\ Rows /\ Jobs
        /\ \A s \in Sites : docker[s] # "up" => docker'[s] # "up"
    BY JobTypes DEF DockerMove, Calmer
  <1>2. CASE BeginCycle \/ PoolDone
    BY <1>1, <1>2 DEF BeginCycle, PoolDone, IdleJob, Jobs, Job, Untouched
  <1>3. ASSUME NEW s \in Sites, RecoverStop(s) PROVE Untouched'
    <2>1. job'.pc = "recovered" /\ job'.ok => docker'[job'.site] # "up"
      <3>1. CASE StopSucceeds(s) /\ job' = [job EXCEPT !.pc = "recovered", !.site = s, !.ok = TRUE]
        <4>1. docker'[s] # "up" /\ job'.site = s
          BY <3>1, DockerStops DEF Jobs, Job
        <4> QED BY <4>1
      <3>2. CASE StopFails(s) /\ job' = [job EXCEPT !.pc = "recovered", !.site = s, !.ok = FALSE]
        BY <1>1, <3>2 DEF Jobs, Job
      <3>3. CASE StopTimesOut(s) /\ job' = [job EXCEPT !.pc = "scan", !.todo = {}]
        BY <1>1, <3>3 DEF Jobs, Job
      <3> QED BY <1>3, <3>1, <3>2, <3>3 DEF RecoverStop
    <2> QED BY <1>1, <1>3, <2>1 DEF RecoverStop, Untouched
  <1>4. CASE RecoverUpdate
    <2>1. job.site \in Sites /\ RecoveredStatus \in Statuses /\ job.ok \in BOOLEAN
      BY <1>1 DEF Jobs, Job, RecoveredStatus, Statuses
    <2>2. \A x \in Sites : \/ hosting'[x].status = hosting[x].status
                           \/ x = job.site /\ hosting'[x].status = RecoveredStatus
      BY <1>1, <1>4, <2>1, StatusWritten DEF RecoverUpdate
    <2>3. RecoveredStatus = "expired" => docker[job.site] # "up"
      BY <1>4 DEF RecoverUpdate, RecoveredStatus, Untouched
    <2>4. job'.pc # "recovered" /\ UNCHANGED <<docker, worker>>
      BY <1>1, <1>4 DEF RecoverUpdate, Jobs, Job
    <2> QED BY <1>1, <2>2, <2>3, <2>4 DEF Untouched
  <1>5. CASE ScanBatch
    <2>1. job'.pc # "recovered" /\ UNCHANGED <<docker, hosting>>
      BY <1>1, <1>5 DEF ScanBatch, Jobs, Job
    <2>2. \A s \in Sites : worker'[s] = "stopped" => worker[s] = "stopped"
      BY <1>5 DEF ScanBatch, Jobs
    <2> QED BY <1>1, <2>1, <2>2 DEF Untouched
  <1>6. CASE CleanBatch
    <2>1. job'.pc # "recovered"
      <3>1. PICK page \in Pages(AwaitingCleanup, job.offset) :
              \/ job' = IdleJob
              \/ job' = [job EXCEPT !.pc = "removing", !.todo = page, !.offset = @ + Batch]
        BY <1>6 DEF CleanBatch
      <3>2. CASE job' = IdleJob
        BY <3>2 DEF IdleJob
      <3>3. CASE job' = [job EXCEPT !.pc = "removing", !.todo = page, !.offset = @ + Batch]
        <4>1. job \in Job
          BY <1>1 DEF Jobs
        <4>2. job'.pc = "removing"
          BY <3>3, <4>1 DEF Job
        <4> QED BY <4>2
      <3> QED BY <3>1, <3>2, <3>3
    <2> QED BY <1>1, <1>6, <2>1 DEF CleanBatch, Untouched
  <1>7. ASSUME NEW s \in Sites, CleanRemove(s) PROVE Untouched'
    <2>1. job'.pc # "recovered"
      BY <1>1, <1>7 DEF CleanRemove, AfterRow, Jobs, Job
    <2> QED BY <1>1, <1>7, <2>1 DEF CleanRemove, Untouched
  <1>8. CASE MarkDeleted
    <2>1. job.site \in Sites /\ "deleted" \in Statuses
      BY <1>1 DEF Jobs, Job, Statuses
    <2>2. \A x \in Sites : hosting'[x].status \in {hosting[x].status, "deleted"}
      BY <1>1, <1>8, <2>1, StatusWritten DEF MarkDeleted
    <2>3. job'.pc # "recovered"
      BY <1>1, <1>8 DEF MarkDeleted, AfterRow, Jobs, Job
    <2> QED BY <1>1, <1>8, <2>2, <2>3 DEF MarkDeleted, Untouched
  <1> QED BY <1>2, <1>3, <1>4, <1>5, <1>6, <1>7, <1>8 DEF JobStep

LEMMA UntouchedWorker ==
    ASSUME TypeOK, Untouched, NEW s \in Sites, WorkerStep(s), requests = 0
    PROVE  Untouched'
  <1> USE TypeParts
  <1>1. /\ UNCHANGED <<admin, client>> /\ Rows /\ Jobs
        /\ \A x \in Sites : docker[x] # "up" => docker'[x] # "up"
    BY WorkerTypes DEF DockerMove, Calmer
  <1>2. UNCHANGED job /\ (job.pc = "recovered" => job.site \in Sites)
    BY <1>1 DEF WorkerStep, ExpireMark, ExpireStop, ExpireUpdate, Jobs, Job
  <1>3. CASE ExpireMark(s)
    <2>1. \A x \in Sites : hosting'[x].status \in {hosting[x].status, "expiring"}
      <3>1. "expiring" \in Statuses
        BY DEF Statuses
      <3> QED BY <1>1, <1>3, <3>1, StatusWritten DEF ExpireMark
    <2>2. \A x \in Sites : worker'[x] = "stopped" => worker[x] = "stopped"
      BY <1>1, <1>3 DEF ExpireMark, Jobs
    <2> QED BY <1>1, <1>2, <2>1, <2>2 DEF Untouched
  <1>4. CASE ExpireStop(s)
    <2>1. \A x \in Sites : worker'[x] = "stopped" => worker[x] = "stopped" \/ (x = s /\ docker'[s] # "up")
      <3>1. CASE StopSucceeds(s)
        BY <1>1, <1>4, <3>1, DockerStops DEF ExpireStop, Jobs
      <3>2. CASE ~StopSucceeds(s)
        BY <1>1, <1>4, <3>2 DEF ExpireStop, Jobs
      <3> QED BY <3>1, <3>2
    <2> QED BY <1>1, <1>2, <1>4, <2>1 DEF ExpireStop, Untouched
  <1>5. CASE ExpireUpdate(s)
    <2>1. ExpiredStatus(s) \in Statuses
      BY DEF ExpiredStatus, Statuses
    <2>2. \A x \in Sites : hosting'[x].status = hosting[x].status \/ (x = s /\ hosting'[x].status = ExpiredStatus(s))
      BY <1>1, <1>5, <2>1, StatusWritten DEF ExpireUpdate
    <2>3. ExpiredStatus(s) = "expired" => docker[s] # "up"
      BY DEF ExpiredStatus, Untouched
    <2>4. \A x \in Sites : worker'[x] = "stopped" => worker[x] = "stopped"
      BY <1>1, <1>5 DEF ExpireUpdate, Jobs
    <2> QED BY <1>1, <1>2, <1>5, <2>2, <2>3, <2>4 DEF ExpireUpdate, Untouched
  <1> QED BY <1>3, <1>4, <1>5 DEF WorkerStep

\* Only a request begins what the routes do.
LEMMA FirstRequest ==
    ASSUME TypeOK, (AdminStep /\ admin.op = "idle") \/ (ClientStep /\ client.op = "idle")
    PROVE  requests' # requests
  <1>1. requests \in Nat
    BY TypeParts, Constants DEF Bounds
  <1>2. Request => requests' # requests
    BY <1>1 DEF Request
  <1>3. CASE AdminStep /\ admin.op = "idle"
    BY <1>2, <1>3 DEF AdminStep, AdminStop, AdminStart, AdminSetStatus, AdminCleanup,
         AdminHardDelete, AdminPurge, UpgradeNone, PurgeRow, UpgradeHosting, AdminHosting,
         AdminUpgrade, AdminFreePlan
  <1>4. CASE ClientStep /\ client.op = "idle"
    BY <1>2, <1>4 DEF ClientStep, DeleteRemove, DeleteVerify, DeleteRow, ClientStart, ClientStop,
         ClientDelete, PaymentApproved
  <1> QED BY <1>3, <1>4

LEMMA UntouchedNext == TypeOK /\ Untouched /\ [Next]_vars => Untouched'
  <1> SUFFICES ASSUME TypeOK, Untouched, [Next]_vars, requests' = 0 PROVE Untouched'
    BY DEF Untouched
  <1>1. CASE UNCHANGED vars
    BY <1>1 DEF vars, Untouched
  <1>2. CASE Next
    <2>1. requests = 0
      <3>1. requests \in Nat
        BY TypeParts, Constants DEF Bounds
      <3> QED BY <1>2, <3>1, BoundSteps
    <2>2. admin.op = "idle" /\ client.op = "idle"
      BY <2>1 DEF Untouched
    <2>3. ~AdminStep /\ ~ClientStep
      BY <2>1, <2>2, FirstRequest
    <2>4. CASE Crash
      <3>1. job'.pc = "idle" /\ \A s \in Sites : worker'[s] = "none"
        BY <2>4 DEF Crash, IdleJob
      <3> QED BY <2>4, <3>1 DEF Crash, Untouched
    <2>5. CASE TimeStep
      BY <2>5, TimeTypes DEF Untouched
    <2> QED BY <1>2, <2>1, <2>3, <2>4, <2>5, UntouchedJob, UntouchedWorker DEF Next
  <1> QED BY <1>1, <1>2

\* A hosting that only the job has touched is down while it is shown as expired, whatever
\* docker command fails or times out, wherever the scheduler is restarted, and although a
\* recovery writes the outcome of a docker stop after another transaction came between.
THEOREM LifecycleExpiredIsDown == Spec => []ExpiredIsDown
  <1>1. Init => Untouched
    BY DEF Init, Untouched, IdleJob, IdleAdmin, IdleClient
  <1>2. Untouched => ExpiredIsDown
    BY DEF Untouched, ExpiredIsDown, WithStatus
  <1> QED BY <1>1, <1>2, TypeInit, TypeNext, UntouchedNext, PTL DEF Spec
-----------------------------------------------------------------------------
\* A client's DELETE.  A fault stands between docker and each step that goes on without it.

Looked ==
    /\ client.op = "verify" => docker[client.site] = "absent" \/ faults >= 1
    /\ client.op = "hard_delete" => docker[client.site] = "absent" \/ faults >= 2

LEMMA LookedNext == TypeOK /\ Looked /\ [Next]_vars => Looked'
  <1> SUFFICES ASSUME TypeOK, Looked, [Next]_vars PROVE Looked'
    OBVIOUS
  <1>0. /\ client.site \in Sites /\ client \in Client /\ Containers
        /\ faults \in Nat
    BY TypeParts, Counted DEF Routes, Client
  <1>1. CASE UNCHANGED vars
    BY <1>1 DEF vars, Looked
  <1>2. ASSUME UNCHANGED client, Fewer, Next PROVE Looked'
    <2>1. faults' >= faults /\ faults' \in Nat
      BY <1>2, BoundSteps, <1>0 DEF Bounds
    <2> QED BY <1>0, <1>2, <2>1 DEF Looked, Fewer
  <1>3. CASE JobStep \/ (Crash /\ UNCHANGED bound) \/ AdminStep \/ \E s \in Sites : WorkerStep(s)
    <2>1. Fewer /\ UNCHANGED client
      BY <1>3, JobTypes, AdminTypes, WorkerTypes, CrashTypes DEF DockerMove
    <2> QED BY <1>2, <1>3, <2>1 DEF Next
  <1>4. CASE TimeStep
    BY <1>4, TimeTypes DEF Looked
  <1>5. CASE ClientStep
    <2>1. CASE DeleteRemove
      <3>1. client'.op = "verify" /\ client'.site = client.site
        BY <1>0, <2>1 DEF DeleteRemove, Client
      <3>2. docker'[client.site] = "absent" \/ faults' = faults + 1
        BY <1>0, <2>1, DockerRemoves DEF DeleteRemove
      <3> QED BY <1>0, <3>1, <3>2 DEF Looked
    <2>2. CASE DeleteVerify
      <3>1. client'.op = "hard_delete" => client'.site = client.site
        BY <1>0, <2>2 DEF DeleteVerify, Client, IdleClient
      <3>2. client'.op # "verify" /\ UNCHANGED docker /\ client.op = "verify"
        BY <1>0, <2>2 DEF DeleteVerify, Client, IdleClient
      <3>3. client'.op = "hard_delete" => docker[client.site] = "absent" \/ faults' = faults + 1
        BY <1>0, <2>2 DEF DeleteVerify, Client, IdleClient, Survives, Fault
      <3> QED BY <1>0, <3>1, <3>2, <3>3 DEF Looked
    <2>3. CASE DeleteRow
      BY <2>3 DEF DeleteRow, IdleClient, Looked
    <2>4. ASSUME NEW s \in Sites, ClientStart(s) \/ ClientStop(s) PROVE Looked'
      <3>1. UNCHANGED client /\ Fewer
        BY <1>5, <2>4, ClientTypes DEF ClientStart, ClientStop
      <3> QED BY <1>2, <1>5, <3>1 DEF Next
    <2>5. ASSUME NEW s \in Sites, ClientDelete(s) PROVE Looked'
      BY <2>5 DEF ClientDelete, Looked
    <2>6. ASSUME NEW u \in Users, PaymentApproved(u) PROVE Looked'
      BY <2>6 DEF PaymentApproved, Looked
    <2> QED BY <1>5, <2>1, <2>2, <2>3, <2>4, <2>5, <2>6 DEF ClientStep
  <1> QED BY <1>1, <1>3, <1>4, <1>5 DEF Next

\* A client's DELETE takes the row away only once the container is gone, whatever the job,
\* the admin and the other routes do to the hosting meanwhile, unless both docker rm and
\* docker inspect have failed.
THEOREM LifecycleDeletedGone == Spec => DeletedContainerGone
  <1>1. Init => Looked
    BY DEF Init, Looked, IdleClient
  <1>2. TypeOK /\ Looked /\ [Next]_vars
          => [(client.op = "hard_delete" /\ client'.op = "idle" /\ faults <= 1)
                => docker[client.site] = "absent"]_client
    <2> SUFFICES ASSUME TypeOK, Looked, client.op = "hard_delete", faults <= 1
                 PROVE  docker[client.site] = "absent"
      OBVIOUS
    <2>1. faults \in Nat
      BY TypeParts, Counted
    <2> QED BY <2>1 DEF Looked
  <1> QED BY <1>1, <1>2, TypeInit, TypeNext, LookedNext, PTL DEF Spec, DeletedContainerGone

-----------------------------------------------------------------------------
\* GitDeploy: types

LEMMA GitConstants ==
    /\ MaxPushes \in Nat /\ MaxRedeploys \in Nat /\ MaxUses \in Nat /\ MaxFaults \in Nat
    /\ {Torn, Zip, Nothing} \cup 0..MaxPushes \subseteq Versions
    /\ Versions \subseteq Int
  BY GitDeployAssumption DEF Versions, Torn, Zip, Nothing

DeployStages == {"clone", "detect", "image", "install", "legacy", "build", "output", "check", "run",
                 "probe", "insert", "configure", "wait", "cleanup", "done", "failed"}
DeployState == [pc : DeployStages, site : BOOLEAN, made : BOOLEAN, row : BOOLEAN,
                pm : {"none", "npm", "pnpm", "yarn"}, left : BOOLEAN]

\* What is in which part of the state.
Repository == /\ strategy \in Strategies /\ project \in Projects \cup {NoProject}
              /\ remote \in 0..MaxPushes /\ hooks \subseteq 1..MaxPushes
Checkout == tree \in Versions /\ built \in Versions
SiteState == /\ container \in {"absent", "stopped", "running"} /\ loaded \in Versions
             /\ row \in {"none", "active", "expired", "deleted"} /\ wanted \in BOOLEAN
CallState == [pc : Stages, version : Versions]
GitBounds == redeploys \in 0..MaxRedeploys /\ uses \in 0..MaxUses /\ failures \in 0..MaxFaults

LEMMA GitTypeParts ==
    GitTypeOK <=> /\ Repository /\ Checkout /\ SiteState /\ GitBounds
                  /\ alone \in BOOLEAN
                  /\ deploy \in DeployState
                  /\ call \in [Calls -> CallState]
                  /\ upload \in [Uploads -> {"idle", "stream", "copy"}]
                  /\ spool \in {"absent", "whole", "mixed"}
  BY DEF GitTypeOK, Repository, Checkout, SiteState, DeployState, DeployStages, CallState, GitBounds

\* The same facts of the next state.
LEMMA GitTypePartsNext ==
    ASSUME Repository', Checkout', SiteState', GitBounds', alone' \in BOOLEAN, deploy' \in DeployState,
           call' \in [Calls -> CallState], upload' \in [Uploads -> {"idle", "stream", "copy"}],
           spool' \in {"absent", "whole", "mixed"}
    PROVE  GitTypeOK'
  BY DEF GitTypeOK, Repository, Checkout, SiteState, DeployState, DeployStages, CallState, GitBounds

LEMMA GitTypeInit == GitInit => GitTypeOK
  <1> SUFFICES ASSUME GitInit PROVE GitTypeOK
    OBVIOUS
  <1>1. Idle \in CallState
    BY GitConstants DEF Idle, CallState, Stages
  <1>2. Repository
    BY GitConstants DEF GitInit, Repository
  <1> QED BY <1>1, <1>2, GitConstants, GitTypeParts
       DEF GitInit, Checkout, SiteState, GitBounds, DeployState, DeployStages

\* Each step counts at most once, within its bound.
LEMMA GitBoundSteps ==
    ASSUME GitBounds, Fails \/ Use \/ Calm
    PROVE  GitBounds' /\ failures' >= failures
  BY GitConstants DEF GitBounds, Fails, Use, Calm, limits

\* A stage of the deploy keeps to its part of the state.
LEMMA StageTypes ==
    ASSUME GitTypeOK, NEW pc \in DeployStages, Stage(pc), deploy' \in DeployState, Checkout'
    PROVE  GitTypeOK'
  BY GitTypeParts, GitTypePartsNext, GitBoundSteps
     DEF Stage, Deploying, github, zips, Repository, SiteState, CallState

LEMMA GoesOn ==
    ASSUME deploy \in DeployState, NEW pc \in DeployStages, GoOn(pc)
    PROVE  deploy' \in DeployState
  BY DEF GoOn, DeployState

LEMMA DeployTypes == GitTypeOK /\ Deploy => GitTypeOK'
  <1> SUFFICES ASSUME GitTypeOK, Deploy PROVE GitTypeOK'
    OBVIOUS
  <1>0. /\ Repository /\ Checkout /\ SiteState /\ GitBounds /\ deploy \in DeployState
        /\ remote \in Versions /\ Nothing \in Versions
    BY GitTypeParts, GitTypePartsNext, GitConstants DEF Repository
  <1>1. CASE Clone
    BY <1>0, <1>1, StageTypes DEF Clone, Checkout, DeployState, DeployStages
  <1>2. CASE Detect
    <2>1. strategy \in {"dockerfile", "server", "static_pure"} \/ NodeBuild
      BY <1>0, GitDeployAssumption DEF Repository, NodeBuild
    <2>2. \E pc \in DeployStages : GoOn(pc)
      BY <1>2, <2>1 DEF Detect, Raise, Refuse, DeployStages, NodeBuild
    <2>3. deploy' \in DeployState
      BY <1>0, <2>2, GoesOn
    <2>4. Checkout' /\ Stage("detect")
      BY <1>0, <1>2 DEF Detect, Raise, Refuse, Checkout, files
    <2> QED BY <2>3, <2>4, StageTypes DEF DeployStages
  <1>3. CASE BuildImage
    BY <1>0, <1>3, StageTypes, GoesOn DEF BuildImage, Refuse, Checkout, DeployStages
  <1>4. CASE Install
    <2>1. DetectPackageManager(project) \in {"npm", "pnpm", "yarn"}
      BY DEF DetectPackageManager
    <2>2. deploy' \in DeployState
      BY <1>0, <1>4, <2>1, GoesOn DEF Install, DeployState, DeployStages
    <2> QED BY <1>0, <1>4, <2>2, StageTypes DEF Install, Checkout, files, DeployStages
  <1>5. CASE InstallLegacy
    <2>1. deploy' \in DeployState
      BY <1>0, <1>5, GoesOn DEF InstallLegacy, Raise, DeployState, DeployStages
    <2> QED BY <1>0, <1>5, <2>1, StageTypes DEF InstallLegacy, Raise, Checkout, files, DeployStages
  <1>6. CASE BuildSite
    BY <1>0, <1>6, StageTypes, GoesOn DEF BuildSite, Raise, Checkout, DeployStages, files
  <1>7. CASE Output
    BY <1>0, <1>7, StageTypes, GoesOn DEF Output, Raise, Refuse, Checkout, DeployStages, files
  <1>8. CASE CheckStatic
    BY <1>0, <1>8, StageTypes, GoesOn DEF CheckStatic, Raise, Refuse, Checkout, DeployStages, files
  <1>9. CASE Probe \/ Wait
    BY <1>0, <1>9, StageTypes, GoesOn DEF Probe, Wait, Checkout, DeployStages, files
  <1>10. CASE Run
    <2>1. deploy' \in DeployState
      BY <1>0, <1>10, GoesOn DEF Run, DeployState, DeployStages
    <2>2. Repository' /\ Checkout' /\ SiteState' /\ GitBounds'
      BY <1>0, <1>10, GitBoundSteps DEF Run, Deploying, github, files, Repository, Checkout, SiteState
    <2> QED BY <1>10, <2>1, <2>2, GitTypeParts, GitTypePartsNext DEF Run, Deploying, zips
  <1>11. CASE Insert
    <2>1. deploy' \in DeployState
      BY <1>0, <1>11, GoesOn DEF Insert, DeployState, DeployStages
    <2>2. Repository' /\ Checkout' /\ SiteState' /\ GitBounds'
      BY <1>0, <1>11, GitBoundSteps DEF Insert, Deploying, github, files, Repository, Checkout, SiteState
    <2> QED BY <1>11, <2>1, <2>2, GitTypeParts, GitTypePartsNext DEF Insert, Deploying, zips
  <1>12. CASE Configure
    <2>1. deploy' \in DeployState
      BY <1>0, <1>12, GoesOn DEF Configure, DeployStages
    <2>2. Repository' /\ Checkout' /\ SiteState' /\ GitBounds'
      BY <1>0, <1>12, GitBoundSteps DEF Configure, Deploying, github, files, Repository, Checkout, SiteState
    <2> QED BY <1>12, <2>1, <2>2, GitTypeParts, GitTypePartsNext DEF Configure, Deploying, zips
  <1>13. CASE Cleanup
    <2>1. deploy' \in DeployState
      <3>1. GoOn("failed") \/ deploy' = [deploy EXCEPT !.pc = "failed", !.left = TRUE]
        BY <1>13 DEF Cleanup
      <3> QED BY <1>0, <3>1, GoesOn DEF DeployState, DeployStages
    <2>2. Repository' /\ Checkout' /\ SiteState' /\ GitBounds'
      BY <1>0, <1>13, GitBoundSteps DEF Cleanup, Deploying, github, Repository, Checkout, SiteState
    <2> QED BY <1>13, <2>1, <2>2, GitTypeParts, GitTypePartsNext DEF Cleanup, Deploying, zips
  <1> QED BY <1>1, <1>2, <1>3, <1>4, <1>5, <1>6, <1>7, <1>8, <1>9, <1>10, <1>11, <1>12, <1>13 DEF Deploy

LEMMA CallStepTypes ==
    ASSUME GitTypeOK, NEW c \in Calls, CallStep(c)
    PROVE  GitTypeOK'
  <1>0. /\ Repository /\ Checkout /\ SiteState /\ GitBounds
        /\ call[c] \in CallState /\ call \in [Calls -> CallState]
        /\ remote \in Versions /\ Idle \in CallState
    BY GitTypeParts, GitTypePartsNext, GitConstants DEF Repository, Idle, CallState, Stages
  <1>1. /\ call' \in [Calls -> CallState] /\ Checkout' /\ GitBounds'
        /\ container' \in {"absent", "stopped", "running"} /\ loaded' \in Versions
    <2>1. CASE EndPull(c)
      <3>1. After("pull") \in Stages
        BY DEF After, Stages
      <3>2. tree' \in Versions
        BY <1>0, <2>1 DEF EndPull, Checkout
      <3>3. Busy(After("pull"), tree') \in CallState
        BY <3>1, <3>2 DEF Busy, CallState
      <3>4. call' \in [Calls -> CallState]
        BY <1>0, <2>1, <3>3 DEF EndPull, End
      <3> QED BY <1>0, <2>1, <3>2, <3>4, GitBoundSteps DEF EndPull, Checkout, SiteState
    <2>2. CASE BuildAgain(c)
      BY <1>0, <2>2, GitBoundSteps DEF BuildAgain, Goto, After, End, Checkout, SiteState, CallState, Stages
    <2>3. CASE Restart(c)
      BY <1>0, <2>3, GitBoundSteps DEF Restart, End, Checkout, SiteState, files
    <2>4. CASE StopOld(c)
      BY <1>0, <2>4, GitBoundSteps DEF StopOld, Goto, After, Checkout, SiteState, files, CallState, Stages
    <2>5. CASE RemoveOld(c)
      BY <1>0, <2>5, GitBoundSteps DEF RemoveOld, Goto, After, Checkout, SiteState, files, CallState, Stages
    <2>6. CASE RunNew(c)
      BY <1>0, <2>6, GitBoundSteps DEF RunNew, End, Checkout, SiteState, files
    <2> QED BY <2>1, <2>2, <2>3, <2>4, <2>5, <2>6 DEF CallStep
  <1>2. Beside
    BY DEF CallStep, EndPull, BuildAgain, Restart, StopOld, RemoveOld, RunNew
  <1> QED BY <1>0, <1>1, <1>2, GitTypeParts, GitTypePartsNext DEF Beside, github, zips, Repository, SiteState

LEMMA OtherTypes ==
    ASSUME GitTypeOK,
           \/ AppDies \/ Push \/ LoseDelivery \/ Start \/ Stop \/ Expire \/ Delete
           \/ \E c \in Calls : Redeploy(c) \/ Webhook(c)
           \/ \E u \in Uploads : BeginUpload(u) \/ UploadStep(u)
    PROVE  GitTypeOK'
  <1>0. /\ Repository /\ Checkout /\ SiteState /\ GitBounds /\ deploy \in DeployState
        /\ call \in [Calls -> CallState] /\ Idle \in CallState
        /\ upload \in [Uploads -> {"idle", "stream", "copy"}]
        /\ spool \in {"absent", "whole", "mixed"} /\ alone \in BOOLEAN
        /\ {Torn, Zip, Nothing} \subseteq Versions
    BY GitTypeParts, GitTypePartsNext, GitConstants DEF Idle, CallState, Stages
  <1>1. SwappedOutput \in Versions
    BY <1>0 DEF SwappedOutput, Checkout
  <1>2. CASE AppDies
    <2>1. deploy' \in DeployState /\ GitBounds'
      BY <1>0, <1>2, GitBoundSteps DEF AppDies, DeployState, DeployStages
    <2>2. Checkout'
      BY <1>0, <1>1, <1>2 DEF AppDies, Checkout, files
    <2>3. call' \in [Calls -> CallState] /\ upload' \in [Uploads -> {"idle", "stream", "copy"}]
      BY <1>0, <1>2 DEF AppDies
    <2> QED BY <1>0, <1>2, <2>1, <2>2, <2>3, GitTypeParts, GitTypePartsNext
         DEF AppDies, github, site, Repository, SiteState
  <1>3. CASE Push
    BY <1>0, <1>3, GitTypeParts, GitTypePartsNext, GitConstants
       DEF Push, Calm, limits, zips, site, files, Repository, SiteState, Checkout, GitBounds
  <1>4. CASE LoseDelivery
    BY <1>0, <1>4, GitTypeParts, GitTypePartsNext, GitBoundSteps
       DEF LoseDelivery, zips, site, files, Repository, SiteState, Checkout
  <1>5. CASE Start \/ Stop \/ Expire
    <2>1. GitBounds' /\ SiteState' /\ alone' \in BOOLEAN
      BY <1>0, <1>5, GitBoundSteps DEF Start, Stop, Expire, SiteState, Checkout, Quiet
    <2>2. Others
      BY <1>5 DEF Start, Stop, Expire
    <2> QED BY <1>0, <2>1, <2>2, GitTypeParts, GitTypePartsNext DEF Others, github, files, zips, Repository, Checkout
  <1>6. CASE Delete
    BY <1>0, <1>1, <1>6, GitTypeParts, GitTypePartsNext, GitBoundSteps
       DEF Delete, github, zips, Repository, SiteState, Checkout
  <1>7. ASSUME NEW c \in Calls, Redeploy(c) \/ Webhook(c) PROVE GitTypeOK'
    <2>1. call' \in [Calls -> CallState] /\ alone' \in BOOLEAN
      <3>1. Busy("pull", Nothing) \in CallState
        BY <1>0 DEF Busy, CallState, Stages
      <3> QED BY <1>0, <1>7, <3>1 DEF Redeploy, Webhook, BeginPull, Quiet
    <2>2. CASE Redeploy(c)
      BY <1>0, <2>1, <2>2, GitTypeParts, GitTypePartsNext, GitConstants
         DEF Redeploy, github, files, site, zips, Repository, SiteState, Checkout, GitBounds
    <2>3. CASE Webhook(c)
      BY <1>0, <2>1, <2>3, GitTypeParts, GitTypePartsNext, GitBoundSteps
         DEF Webhook, files, site, zips, Repository, SiteState, Checkout
    <2> QED BY <1>7, <2>2, <2>3
  <1>8. ASSUME NEW u \in Uploads, BeginUpload(u) \/ UploadStep(u) PROVE GitTypeOK'
    <2>1. /\ upload' \in [Uploads -> {"idle", "stream", "copy"}] /\ alone' \in BOOLEAN
          /\ spool' \in {"absent", "whole", "mixed"} /\ GitBounds' /\ Checkout'
      BY <1>0, <1>1, <1>8, GitBoundSteps
         DEF BeginUpload, UploadStep, Swap, EndUpload, UploadTo, Quiet, Checkout, files
    <2>2. Uploading
      BY <1>8 DEF BeginUpload, UploadStep, Swap, EndUpload
    <2> QED BY <1>0, <2>1, <2>2, GitTypeParts, GitTypePartsNext DEF Uploading, github, site, Repository, SiteState
  <1> QED BY <1>2, <1>3, <1>4, <1>5, <1>6, <1>7, <1>8

LEMMA GitTypeNext == GitTypeOK /\ [GitNext]_gvars => GitTypeOK'
  <1>1. GitTypeOK /\ UNCHANGED gvars => GitTypeOK'
    BY DEF GitTypeOK, gvars, github, files, site, zips, limits
  <1>2. GitTypeOK /\ GitNext => GitTypeOK'
    BY DeployTypes, CallStepTypes, OtherTypes DEF GitNext
  <1> QED BY <1>1, <1>2

\* The pipeline of the deploy, redeploys, webhooks, uploads and the routes keep to their types.
THEOREM DeployTypeCorrect == GitSpec => []GitTypeOK
  BY GitTypeInit, GitTypeNext, PTL DEF GitSpec

-----------------------------------------------------------------------------
\* GitDeploy: what a redeploy, or a deploy that fails, leaves

BeforeRun == {"clone", "detect", "image", "install", "legacy", "build", "output", "check", "run"}
BeforeRow == BeforeRun \cup {"probe", "insert"}
WithContainer == {"probe", "insert", "configure", "wait"}
WithRow == {"configure", "wait", "done"}

\* Until the deploy has inserted the row nobody else comes near the site.
Unreached ==
    /\ deploy.pc \in WithContainer => deploy.made
    /\ deploy.pc \in BeforeRow \/ (deploy.pc = "cleanup" /\ ~deploy.made) => row = "none" /\ Quiet

\* Unless docker or a death has left it something, the deploy knows what it has created.
Accounted ==
    /\ deploy.left => failures # 0
    /\ ~deploy.left =>
        /\ deploy.pc \in BeforeRun => container = "absent"
        /\ deploy.pc \in {"probe", "insert"} => container = "running"
        /\ deploy.pc = "cleanup" => deploy.made \/ container = "absent"
        /\ deploy.pc = "clone" => tree = Nothing
        /\ deploy.pc \notin {"clone", "done", "failed"} => deploy.site

At(pc) == \E c \in Calls : call[c].pc = pc

\* Of a site that was deployed the container is there, or the redeploy that has removed it is
\* about to run its successor; and it runs, unless its owner stopped it or the redeploy that
\* has stopped it is about to remove it.
Replaced ==
    failures = 0 /\ row = "active" /\ deploy.pc \in WithRow =>
        /\ container = "absent" => At("run")
        /\ container = "stopped" /\ wanted => At("rm")

\* Beside a deploy that has not ended well there is only what has overlapped with it.
Overlaps == alone /\ deploy.pc # "done" => Quiet

GitInv == GitTypeOK /\ Unreached /\ Accounted /\ Replaced /\ Overlaps /\ FailedDeployUndone

LEMMA Grown ==
    ASSUME GitTypeOK
    PROVE  failures \in Nat
  BY GitTypeParts, GitConstants DEF GitBounds

LEMMA QuietKept == UNCHANGED <<call, upload>> => (Quiet <=> Quiet')
  BY DEF Quiet

\* What a step of the deploy does, and what it leaves.
LEMMA DeployMoves ==
    ASSUME GitTypeOK, Deploy
    PROVE  /\ UNCHANGED <<call, upload, wanted, alone>>
           /\ failures' \in Nat /\ failures' >= failures
           /\ deploy \in DeployState /\ container \in {"absent", "stopped", "running"}
           /\ deploy'.pc \in BeforeRow => deploy.pc \in BeforeRow /\ UNCHANGED row
           /\ deploy'.pc \in WithRow =>
                 \/ deploy.pc \in WithRow /\ UNCHANGED <<row, container>>
                 \/ deploy.pc = "insert" /\ UNCHANGED container
           /\ deploy'.pc \in WithContainer => deploy'.made \/ (deploy.pc \in WithContainer /\ deploy'.made = deploy.made)
           /\ deploy'.pc = "cleanup" /\ ~deploy'.made =>
                 ~deploy.made /\ deploy.pc \in BeforeRow \cup WithContainer /\ UNCHANGED row
           /\ deploy.pc \notin {"done", "failed"}
  <1>0. deploy \in DeployState /\ GitBounds /\ container \in {"absent", "stopped", "running"}
    BY GitTypeParts DEF SiteState
  <1>1. Deploying /\ (Calm \/ Fails)
    BY DEF Deploy, Clone, Detect, BuildImage, Install, InstallLegacy, BuildSite, Output, CheckStatic,
         Run, Probe, Insert, Configure, Wait, Cleanup, Stage
  <1>2. GitBounds' /\ failures' >= failures
    BY <1>0, <1>1, GitBoundSteps
  <1>3. failures' \in Nat
    BY <1>2, GitConstants DEF GitBounds
  <1>4. /\ deploy'.pc \in BeforeRow => deploy.pc \in BeforeRow /\ UNCHANGED row
        /\ deploy'.pc \in WithRow =>
              \/ deploy.pc \in WithRow /\ UNCHANGED <<row, container>>
              \/ deploy.pc = "insert" /\ UNCHANGED container
        /\ deploy'.pc \in WithContainer => deploy'.made \/ (deploy.pc \in WithContainer /\ deploy'.made = deploy.made)
        /\ deploy'.pc = "cleanup" /\ ~deploy'.made =>
              ~deploy.made /\ deploy.pc \in BeforeRow \cup WithContainer /\ UNCHANGED row
        /\ deploy.pc \notin {"done", "failed"}
    <2>1. ASSUME NEW pc \in BeforeRun \ {"run"}, Stage(pc)
          PROVE  /\ deploy.pc \in BeforeRow /\ UNCHANGED row
                 /\ deploy.pc \notin {"done", "failed"}
      BY <2>1 DEF Stage, BeforeRow, BeforeRun
    <2>2. CASE Clone
      BY <1>0, <2>1, <2>2 DEF Clone, DeployState, BeforeRun, WithRow, WithContainer
    <2>3. CASE Detect
      <3>1. deploy'.pc \notin WithRow \cup WithContainer /\ deploy'.made = deploy.made
        <4>1. strategy \in {"dockerfile", "server", "static_pure"} \/ NodeBuild
          BY GitTypeParts, GitDeployAssumption DEF Repository, NodeBuild
        <4>2. \E pc \in BeforeRun \cup {"cleanup", "failed"} : GoOn(pc)
          BY <2>3, <4>1 DEF Detect, Raise, Refuse, BeforeRun, NodeBuild
        <4> QED BY <1>0, <4>2 DEF GoOn, Refuse, DeployState, BeforeRun, WithRow, WithContainer
      <3> QED BY <2>1, <2>3, <3>1 DEF Detect, BeforeRun
    <2>4. CASE BuildImage
      BY <1>0, <2>1, <2>4 DEF BuildImage, Refuse, GoOn, DeployState, BeforeRun, WithRow, WithContainer
    <2>5. CASE Install
      BY <1>0, <2>1, <2>5 DEF Install, GoOn, DeployState, BeforeRun, WithRow, WithContainer
    <2>6. CASE InstallLegacy
      BY <1>0, <2>1, <2>6 DEF InstallLegacy, Raise, GoOn, DeployState, BeforeRun, WithRow, WithContainer
    <2>7. CASE BuildSite
      BY <1>0, <2>1, <2>7 DEF BuildSite, Raise, GoOn, DeployState, BeforeRun, WithRow, WithContainer
    <2>8. CASE Output \/ CheckStatic
      BY <1>0, <2>1, <2>8 DEF Output, CheckStatic, Raise, Refuse, GoOn, DeployState, BeforeRun, WithRow, WithContainer
    <2>9. CASE Run
      BY <1>0, <2>9 DEF Run, GoOn, DeployState, BeforeRow, BeforeRun, WithRow, WithContainer
    <2>10. CASE Probe
      BY <1>0, <2>10 DEF Probe, Stage, GoOn, DeployState, BeforeRow, BeforeRun, WithRow, WithContainer
    <2>11. CASE Insert
      BY <1>0, <2>11 DEF Insert, GoOn, DeployState, BeforeRow, BeforeRun, WithRow, WithContainer
    <2>12. CASE Configure
      BY <1>0, <2>12 DEF Configure, GoOn, DeployState, BeforeRow, BeforeRun, WithRow, WithContainer
    <2>13. CASE Wait
      BY <1>0, <2>13 DEF Wait, Stage, GoOn, DeployState, BeforeRow, BeforeRun, WithRow, WithContainer
    <2>14. CASE Cleanup
      BY <1>0, <2>14 DEF Cleanup, GoOn, DeployState, BeforeRow, BeforeRun, WithRow, WithContainer
    <2> QED BY <2>2, <2>3, <2>4, <2>5, <2>6, <2>7, <2>8, <2>9, <2>10, <2>11, <2>12, <2>13, <2>14 DEF Deploy
  <1> QED BY <1>0, <1>1, <1>2, <1>3, <1>4 DEF Deploying, zips

LEMMA DeployAccounted ==
    ASSUME GitTypeOK, Unreached, Accounted, Deploy
    PROVE  Accounted' /\ (~deploy'.left /\ deploy'.pc = "failed" => container' = "absent" /\ tree' = Nothing)
  <1>0. /\ deploy \in DeployState /\ container \in {"absent", "stopped", "running"}
        /\ failures \in Nat /\ (Fails => failures' # 0) /\ (failures # 0 => failures' # 0)
    BY Grown, DeployMoves DEF Fails
  <1>1. CASE Clone
    BY <1>0, <1>1 DEF Clone, Stage, Unreached, Accounted, BeforeRun, WithContainer, DeployState
  <1>2. CASE Detect
    <2>1. strategy \in {"dockerfile", "server", "static_pure"} \/ NodeBuild
      BY GitTypeParts, GitDeployAssumption DEF Repository, NodeBuild
    <2>2. \/ \E pc \in {"image", "run", "check", "install", "cleanup"} : GoOn(pc)
          \/ Refuse
      BY <1>2, <2>1 DEF Detect, Raise, NodeBuild
    <2>3. Stage("detect")
      BY <1>2 DEF Detect
    <2> QED BY <1>0, <2>2, <2>3 DEF GoOn, Refuse, Stage, Unreached, Accounted, BeforeRun, WithContainer, DeployState
  <1>3. CASE BuildImage
    BY <1>0, <1>3 DEF BuildImage, Refuse, GoOn, Stage, Unreached, Accounted, BeforeRun, WithContainer, DeployState
  <1>4. CASE Install
    BY <1>0, <1>4 DEF Install, GoOn, Stage, Unreached, Accounted, BeforeRun, WithContainer, DeployState
  <1>5. CASE InstallLegacy
    BY <1>0, <1>5 DEF InstallLegacy, Raise, GoOn, Stage, Unreached, Accounted, BeforeRun, WithContainer, DeployState
  <1>6. CASE BuildSite
    BY <1>0, <1>6 DEF BuildSite, Raise, GoOn, Stage, Unreached, Accounted, BeforeRun, WithContainer, DeployState
  <1>7. CASE Output \/ CheckStatic
    BY <1>0, <1>7 DEF Output, CheckStatic, Raise, Refuse, GoOn, Stage, Unreached, Accounted, BeforeRun, WithContainer, DeployState
  <1>8. CASE Run
    <2>1. /\ deploy.pc = "run" /\ (deploy.site \/ deploy.left)
          /\ deploy.left => failures # 0
      BY <1>0, <1>8 DEF Run, Accounted, BeforeRun
    <2>2. CASE deploy' = [deploy EXCEPT !.pc = "probe", !.made = TRUE] /\ container' = "running"
      BY <1>0, <2>1, <2>2 DEF Accounted, BeforeRun, DeployState
    <2>3. CASE /\ deploy' = [deploy EXCEPT !.pc = "cleanup", !.left = @ \/ container' # "absent"]
               /\ Fails
      BY <1>0, <2>1, <2>3 DEF Accounted, BeforeRun, DeployState
    <2> QED BY <1>8, <2>2, <2>3 DEF Run
  <1>9. CASE Probe
    BY <1>0, <1>9 DEF Probe, GoOn, Stage, Unreached, Accounted, BeforeRun, WithContainer, DeployState
  <1>10. CASE Insert
    BY <1>0, <1>10 DEF Insert, GoOn, Unreached, Accounted, BeforeRun, WithContainer, DeployState
  <1>11. CASE Configure
    BY <1>0, <1>11 DEF Configure, GoOn, Unreached, Accounted, BeforeRun, WithContainer, DeployState
  <1>12. CASE Wait
    BY <1>0, <1>12 DEF Wait, GoOn, Stage, Unreached, Accounted, BeforeRun, WithContainer, DeployState
  <1>13. CASE Cleanup
    BY <1>0, <1>13 DEF Cleanup, GoOn, Unreached, Accounted, BeforeRun, WithContainer, DeployState
  <1> QED BY <1>1, <1>2, <1>3, <1>4, <1>5, <1>6, <1>7, <1>8, <1>9, <1>10, <1>11, <1>12, <1>13 DEF Deploy

LEMMA DeployInv == GitInv /\ Deploy => GitInv'
  <1> SUFFICES ASSUME GitInv, Deploy PROVE GitInv'
    OBVIOUS
  <1>0. GitTypeOK /\ GitTypeOK'
    BY DeployTypes DEF GitInv
  <1>1. Quiet <=> Quiet'
    BY <1>0, DeployMoves, QuietKept
  <1>2. Unreached' /\ Overlaps'
    BY <1>0, <1>1, DeployMoves DEF GitInv, Unreached, Overlaps, WithContainer
  <1>3. Accounted' /\ FailedDeployUndone'
    BY <1>0, DeployAccounted DEF GitInv, FailedDeployUndone
  <1>4. Replaced'
    <2> SUFFICES ASSUME failures' = 0, row' = "active", deploy'.pc \in WithRow
                 PROVE  /\ container' = "absent" => At("run")'
                        /\ container' = "stopped" /\ wanted' => At("rm")'
      BY DEF Replaced
    <2>1. failures = 0
      BY <1>0, Grown, DeployMoves
    <2>2. (At("run") <=> At("run")') /\ (At("rm") <=> At("rm")')
      BY <1>0, DeployMoves DEF At
    <2>3. CASE deploy.pc = "insert"
      BY <1>0, <2>1, <2>3, DeployMoves DEF GitInv, Accounted, WithRow
    <2> QED BY <1>0, <2>1, <2>2, <2>3, DeployMoves DEF GitInv, Replaced
  <1> QED BY <1>0, <1>2, <1>3, <1>4 DEF GitInv

\* A call that does not stand at a stage leaves it to the others.
LEMMA AtStays ==
    ASSUME NEW c \in Calls, NEW pc, call[c].pc # pc, At(pc),
           \A d \in Calls \ {c} : call'[d] = call[d]
    PROVE  At(pc)'
  BY DEF At

\* Who is at work has come after the row: nothing but what the deploy left to it changes.
LEMMA Reached ==
    ASSUME GitInv, row # "none" \/ ~Quiet, UNCHANGED deploy, failures' \in Nat, failures' >= failures
    PROVE  Unreached' /\ Accounted'
  BY Grown DEF GitInv, Unreached, Accounted, BeforeRow, BeforeRun

LEMMA CallInv ==
    ASSUME GitInv, NEW c \in Calls, CallStep(c)
    PROVE  GitInv'
  <1>0. /\ GitTypeOK /\ GitTypeOK' /\ call \in [Calls -> CallState]
        /\ container \in {"absent", "stopped", "running"}
    BY CallStepTypes, GitTypeParts DEF GitInv, SiteState
  <1>1. Beside /\ call[c].pc # "idle" /\ (Calm \/ Fails)
    BY DEF CallStep, EndPull, BuildAgain, Restart, StopOld, RemoveOld, RunNew
  <1>2. ~Quiet
    BY <1>1 DEF Quiet, Idle
  <1>3. failures' \in Nat /\ failures' >= failures
    BY <1>0, <1>1, Grown, GitTypeParts, GitBoundSteps, GitConstants DEF GitBounds
  <1>4. Unreached' /\ Accounted' /\ Overlaps' /\ FailedDeployUndone'
    BY <1>1, <1>2, <1>3, Reached DEF GitInv, Beside, Overlaps, FailedDeployUndone
  <1>5. Replaced'
    <2> SUFFICES ASSUME failures' = 0, row' = "active", deploy'.pc \in WithRow
                 PROVE  /\ container' = "absent" => At("run")'
                        /\ container' = "stopped" /\ wanted' => At("rm")'
      BY DEF Replaced
    <2>1. /\ failures = 0 /\ ~Fails /\ wanted' = wanted
          /\ container = "absent" => At("run")
          /\ container = "stopped" /\ wanted => At("rm")
      BY <1>0, <1>1, <1>3, Grown DEF GitInv, Replaced, Beside, Fails
    <2>2. \A d \in Calls \ {c} : call'[d] = call[d]
      BY <1>0 DEF CallStep, EndPull, BuildAgain, Restart, StopOld, RemoveOld, RunNew, Goto, End
    <2>3. CASE EndPull(c) \/ BuildAgain(c)
      BY <2>1, <2>2, <2>3, AtStays DEF EndPull, BuildAgain
    <2>4. CASE Restart(c)
      BY <2>1, <2>2, <2>4, AtStays DEF Restart
    <2>5. CASE StopOld(c)
      <3>1. call'[c].pc = "rm"
        BY <1>0, <2>5 DEF StopOld, Goto, After, CallState
      <3> QED BY <2>1, <2>2, <2>5, <3>1, AtStays DEF StopOld, At
    <2>6. CASE RemoveOld(c)
      <3>1. call'[c].pc = "run"
        BY <1>0, <2>6 DEF RemoveOld, Goto, After, CallState
      <3> QED BY <2>1, <2>2, <2>6, <3>1, AtStays DEF RemoveOld, At
    <2>7. CASE RunNew(c)
      BY <2>1, <2>2, <2>7, AtStays DEF RunNew
    <2> QED BY <2>3, <2>4, <2>5, <2>6, <2>7 DEF CallStep
  <1> QED BY <1>0, <1>4, <1>5 DEF GitInv

LEMMA RouteInv ==
    ASSUME GitInv, Start \/ Stop \/ Expire \/ Delete
    PROVE  GitInv'
  <1>0. GitTypeOK /\ GitTypeOK' /\ container \in {"absent", "stopped", "running"}
    BY OtherTypes, GitTypeParts DEF GitInv, SiteState
  <1>1. UNCHANGED <<deploy, call, upload>> /\ Use /\ row # "none"
    BY DEF Start, Stop, Expire, Delete, Others, zips
  <1>2. failures' \in Nat /\ failures' = failures
    BY <1>0, <1>1, Grown DEF Use
  <1>3. Unreached' /\ Accounted'
    BY <1>1, <1>2, Reached
  <1>4. (Quiet <=> Quiet') /\ (At("run") <=> At("run")') /\ (At("rm") <=> At("rm")')
    BY <1>1, QuietKept DEF At
  <1>5. Overlaps' /\ (alone' => alone)
    <2>1. alone' => alone
      <3>1. CASE Start \/ Stop
        BY <3>1 DEF Start, Stop
      <3>2. CASE Expire \/ Delete
        <4>1. alone' = alone
          BY <3>2 DEF Expire, Delete
        <4> QED BY <4>1
      <3> QED BY <3>1, <3>2
    <2> QED BY <1>1, <1>4, <2>1 DEF GitInv, Overlaps
  <1>6. FailedDeployUndone'
    BY <1>0, <1>1, <1>2, <1>5 DEF GitInv, FailedDeployUndone, Start, Stop, Expire, Delete, Others, files
  <1>7. Replaced'
    BY <1>0, <1>1, <1>2, <1>4 DEF GitInv, Replaced, Start, Stop, Expire, Delete
  <1> QED BY <1>0, <1>3, <1>5, <1>6, <1>7 DEF GitInv

LEMMA RequestInv ==
    ASSUME GitInv, NEW c \in Calls, Redeploy(c) \/ Webhook(c)
    PROVE  GitInv'
  <1>0. GitTypeOK /\ GitTypeOK' /\ call \in [Calls -> CallState]
    BY OtherTypes, GitTypeParts DEF GitInv
  <1>1. /\ UNCHANGED <<deploy, upload, container, row, wanted, tree>>
        /\ failures' \in Nat /\ failures' = failures
    BY <1>0, Grown DEF Redeploy, Webhook, zips, site, files, Calm, limits
  <1>2. row # "none" /\ BeginPull(c)
    BY DEF Redeploy, Webhook
  <1>3. Unreached' /\ Accounted'
    BY <1>1, <1>2, Reached
  <1>4. Overlaps' /\ FailedDeployUndone'
    BY <1>1, <1>2 DEF BeginPull, Overlaps, FailedDeployUndone
  <1>5. (At("run") => At("run")') /\ (At("rm") => At("rm")')
    <2>1. call[c].pc = "idle" /\ \A d \in Calls \ {c} : call'[d] = call[d]
      BY <1>0, <1>2 DEF BeginPull, Idle
    <2> QED BY <2>1, AtStays
  <1>6. Replaced'
    BY <1>0, <1>1, <1>5 DEF GitInv, Replaced
  <1> QED BY <1>0, <1>3, <1>4, <1>6 DEF GitInv

LEMMA UploadInv ==
    ASSUME GitInv, NEW u \in Uploads, BeginUpload(u) \/ UploadStep(u)
    PROVE  GitInv'
  <1>0. GitTypeOK /\ GitTypeOK'
    BY OtherTypes DEF GitInv
  <1>1. /\ UNCHANGED <<deploy, call, container, row, wanted>>
        /\ failures' \in Nat /\ failures' = failures
    BY <1>0, Grown DEF BeginUpload, UploadStep, Swap, EndUpload, Uploading, site, Use, Calm, limits
  <1>2. row # "none" \/ ~Quiet
    BY DEF BeginUpload, UploadStep, Swap, EndUpload, Quiet
  <1>3. Unreached' /\ Accounted'
    BY <1>1, <1>2, Reached
  <1>4. alone' => alone /\ deploy.pc = "done"
    BY DEF GitInv, Overlaps, BeginUpload, UploadStep, Swap, EndUpload, Quiet
  <1>5. Overlaps' /\ FailedDeployUndone'
    BY <1>1, <1>4 DEF Overlaps, FailedDeployUndone
  <1>6. Replaced'
    BY <1>0, <1>1 DEF GitInv, Replaced, At
  <1> QED BY <1>0, <1>3, <1>5, <1>6 DEF GitInv

LEMMA DeathInv == GitInv /\ AppDies => GitInv'
  <1> SUFFICES ASSUME GitInv, AppDies PROVE GitInv'
    OBVIOUS
  <1>0. GitTypeOK /\ GitTypeOK' /\ deploy \in DeployState
    BY OtherTypes, GitTypeParts DEF GitInv
  <1>1. deploy'.pc \in {"done", "failed"} /\ failures' # 0 /\ Quiet'
    BY <1>0, Grown DEF AppDies, Fails, DeployState, Quiet
  <1>2. FailedDeployUndone'
    <2> SUFFICES ASSUME deploy'.pc = "failed", ~deploy'.left, alone'
                 PROVE  container' = "absent" /\ tree' = Nothing
      BY DEF FailedDeployUndone
    <2>1. deploy' = deploy /\ alone /\ Quiet
      BY <1>0 DEF GitInv, Overlaps, AppDies, DeployState
    <2>2. UNCHANGED <<container, tree>>
      BY <2>1 DEF AppDies, Quiet, files, site
    <2> QED BY <2>1, <2>2 DEF GitInv, FailedDeployUndone
  <1>3. Accounted'
    BY <1>0, <1>1 DEF AppDies, GitInv, Accounted, BeforeRun, DeployState
  <1> QED BY <1>0, <1>1, <1>2, <1>3
       DEF GitInv, Unreached, Replaced, Overlaps, BeforeRow, BeforeRun, WithContainer

LEMMA GitHubInv == GitInv /\ (Push \/ LoseDelivery) => GitInv'
  <1> SUFFICES ASSUME GitInv, Push \/ LoseDelivery PROVE GitInv'
    OBVIOUS
  <1>1. GitTypeOK /\ GitTypeOK'
    BY OtherTypes DEF GitInv
  <1>2. /\ UNCHANGED <<deploy, call, upload, container, row, wanted, tree, alone>>
        /\ failures' \in Nat /\ failures' >= failures
    BY <1>1, Grown DEF Push, LoseDelivery, zips, site, files, Calm, limits, Fails
  <1>3. (Quiet <=> Quiet') /\ (At("run") <=> At("run")') /\ (At("rm") <=> At("rm")')
    BY <1>2, QuietKept DEF At
  <1> QED BY <1>1, <1>2, <1>3, Grown
       DEF GitInv, Unreached, Accounted, Replaced, Overlaps, FailedDeployUndone

LEMMA GitInvInit == GitInit => GitInv
  <1> SUFFICES ASSUME GitInit PROVE GitInv
    OBVIOUS
  <1>1. GitTypeOK
    BY GitTypeInit
  <1>2. Quiet /\ deploy.pc = "clone"
    BY DEF GitInit, Quiet
  <1> QED BY <1>1, <1>2
       DEF GitInit, GitInv, Unreached, Accounted, Replaced, Overlaps, FailedDeployUndone, BeforeRow,
           BeforeRun, WithContainer, WithRow

LEMMA GitInvNext == GitInv /\ [GitNext]_gvars => GitInv'
  <1>1. GitInv /\ UNCHANGED gvars => GitInv'
    <2> SUFFICES ASSUME GitInv, UNCHANGED gvars PROVE GitInv'
      OBVIOUS
    <2>1. GitTypeOK'
      BY GitTypeNext DEF GitInv
    <2> QED BY <2>1
         DEF gvars, github, files, site, zips, limits, GitInv, Unreached, Accounted, Replaced, Overlaps,
             FailedDeployUndone, Quiet, At
  <1>3. GitInv /\ GitNext => GitInv'
    BY DeployInv, CallInv, RouteInv, RequestInv, GitHubInv, UploadInv, DeathInv DEF GitNext
  <1> QED BY <1>1, <1>3

\* While docker does what it is told, redeploys and webhooks bring back a site that its owner
\* wants up: however many overlap, between whatever starts and stops, deletions and expiry, no
\* site that was deployed stays down but those its owner stopped (hosting.py:1118 and 1247).
THEOREM RedeploysComeBack == GitSpec => []RedeployComesBack
  <1>1. GitInv => RedeployComesBack
    BY GitTypeParts DEF GitInv, RedeployComesBack, Replaced, Up, At, WithRow, SiteState
  <1> QED BY <1>1, GitInvInit, GitInvNext, PTL DEF GitSpec

\* A first deploy that fails, at whichever stage, leaves neither container nor checkout
\* (github_deploy_service.py:101), unless docker failed or somebody overlapped with it.
THEOREM FailedDeploysUndone == GitSpec => []FailedDeployUndone
  <1>1. GitInv => FailedDeployUndone
    BY DEF GitInv
  <1> QED BY <1>1, GitInvInit, GitInvNext, PTL DEF GitSpec
=============================================================================
