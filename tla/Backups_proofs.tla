--------------------------- MODULE Backups_proofs ---------------------------
(***************************************************************************)
(* Proofs about the backups of a site, for any number of hostings, threads *)
(* and backups: type correctness, RunningUntouched, CompletedHasFiles and  *)
(* DeletedNotRestored of TenantBackup, then what Backups adds to it.       *)
(***************************************************************************)
EXTENDS Backups, TLAPS

\* A thread past its insert (or sent to delete) names a row; one about to mark
\* names the row whose directory it removed.
Located ==
    \A a \in Actors :
        /\ thread[a].pc \in {"produce", "commit", "retain", "fail", "rmtree",
                             "delete", "delmark"} => thread[a].bid \in Ids
        /\ thread[a].pc = "mark" => thread[a].cur \in Ids

\* The same fact as RunningUntouched, on the thread's fields.
TodoFinished ==
    \A a \in Actors :
        /\ \A b \in thread[a].todo : rows[b].status \notin {"unused", "running"}
        /\ thread[a].pc = "mark" => rows[thread[a].cur].status \notin {"unused", "running"}

IInv == TypeOK /\ Located /\ TodoFinished

-----------------------------------------------------------------------------
LEMMA IdleType == Idle \in Thread /\ Idle.pc = "idle" /\ Idle.todo = {}
  <1>1. AnyHosting \in Hostings
    BY ConstantsAssumption DEF AnyHosting
  <1> QED BY <1>1 DEF Idle, Thread, PC, Trigger, NoId

LEMMA NewRowType ==
    ASSUME NEW h \in Hostings, NEW t \in Trigger
    PROVE  /\ NewRow(h, t) \in Row
           /\ NewRow(h, t).status = "running"
           /\ [NewRow(h, t) EXCEPT !.status = "unused"] \in Row
  BY DEF NewRow, Row, Status

\* Every SELECT of a cleanup returns finished backups only.
LEMMA SelectsFinished ==
    ASSUME TypeOK
    PROVE  /\ ExpiredTtl \subseteq Ids
           /\ \A b \in ExpiredTtl : rows[b].status \notin {"unused", "running"}
           /\ \A h, n : /\ AutomaticPrevious(h, n) \subseteq Ids
                        /\ AutomaticAllButNewest(h) \subseteq Ids
                        /\ ManualExcess(h, n) \subseteq Ids
                        /\ \A b \in AutomaticPrevious(h, n) : rows[b].status = "completed"
                        /\ \A b \in AutomaticAllButNewest(h) : rows[b].status = "completed"
                        /\ \A b \in ManualExcess(h, n) : rows[b].status = "completed"
  BY DEF ExpiredTtl, AutomaticPrevious, AutomaticAllButNewest, ManualExcess, AllButNewest,
         Unprotected, CompletedAutomatic, CompletedManual, WithStatus

LEMMA InitIInv == Init => IInv
  <1> SUFFICES ASSUME Init PROVE IInv
    OBVIOUS
  <1>1. AnyHosting \in Hostings
    BY ConstantsAssumption DEF AnyHosting
  <1>2. TypeOK
    <2>1. [NewRow(AnyHosting, "manual") EXCEPT !.status = "unused"] \in Row
      BY <1>1, NewRowType DEF Trigger
    <2> QED BY <2>1, IdleType, ConstantsAssumption DEF Init, TypeOK
  <1>3. Located /\ TodoFinished
    BY IdleType DEF Init, Located, TodoFinished
  <1> QED BY <1>2, <1>3 DEF IInv

\* A thread that replaces its locals by t keeps IInv when t is well formed, the rows
\* it now claims are finished, and no finished row goes back to running.
LEMMA LocalsStep ==
    ASSUME IInv, NEW a \in Actors, NEW t \in Thread, Becomes(a, t),
           rows' \in [Ids -> Row],
           \A b \in Ids : rows'[b].status \in {"unused", "running"}
                            => rows[b].status \in {"unused", "running"},
           disk' \subseteq Ids, errors' \in 0..MaxErrors, faults' \in 0..MaxFaults,
           t.pc \in {"produce", "commit", "retain", "fail", "rmtree",
                     "delete", "delmark"} => t.bid \in Ids,
           t.pc = "mark" => /\ t.cur \in Ids
                            /\ rows[t.cur].status \notin {"unused", "running"},
           \A b \in t.todo : rows[b].status \notin {"unused", "running"}
    PROVE  IInv'
  <1>1. \A x \in Actors : thread'[x] = IF x = a THEN t ELSE thread[x]
    BY DEF IInv, TypeOK, Becomes
  <1>2. TypeOK'
    BY DEF IInv, TypeOK, Becomes
  <1>3. Located'
    BY <1>1 DEF IInv, Located
  <1>4. ASSUME NEW x \in Actors, NEW b \in thread'[x].todo
        PROVE  rows'[b].status \notin {"unused", "running"}
    <2>1. b \in Ids /\ rows[b].status \notin {"unused", "running"}
      BY <1>1, <1>4 DEF IInv, TypeOK, TodoFinished, Thread
    <2> QED BY <2>1
  <1>5. ASSUME NEW x \in Actors, thread'[x].pc = "mark"
        PROVE  rows'[thread'[x].cur].status \notin {"unused", "running"}
    <2> DEFINE b == thread'[x].cur
    <2>1. b \in Ids /\ rows[b].status \notin {"unused", "running"}
      BY <1>1, <1>5 DEF IInv, TodoFinished, Located
    <2> QED BY <2>1
  <1> QED BY <1>2, <1>3, <1>4, <1>5 DEF IInv, TodoFinished

-----------------------------------------------------------------------------
\* Steps that leave the rows alone, one fact per kind of move.

LEMMA GotoStep ==
    ASSUME IInv, NEW a \in Actors, NEW l \in PC, Goto(a, l), UNCHANGED rows,
           disk' \subseteq Ids, errors' \in 0..MaxErrors, faults' \in 0..MaxFaults,
           l \in {"produce", "commit", "retain", "fail", "rmtree",
                  "delete", "delmark"} => thread[a].bid \in Ids,
           l # "mark"
    PROVE  IInv'
  <1>1. CASE l = "idle"
    BY <1>1, LocalsStep, IdleType DEF Goto, IInv, TypeOK
  <1>2. CASE l # "idle"
    <2> DEFINE t == [thread[a] EXCEPT !.pc = l]
    <2>1. t \in Thread /\ t.pc = l /\ t.bid = thread[a].bid /\ t.todo = thread[a].todo
      BY DEF IInv, TypeOK, Thread
    <2>2. \A b \in t.todo : rows[b].status \notin {"unused", "running"}
      BY <2>1 DEF IInv, TodoFinished
    <2>3. Becomes(a, t)
      BY <1>2 DEF Goto
    <2> HIDE DEF t
    <2> QED BY <2>1, <2>2, <2>3, LocalsStep DEF IInv, TypeOK
  <1> QED BY <1>1, <1>2

LEMMA CleanStep ==
    ASSUME IInv, NEW a \in Actors, NEW S \in SUBSET Ids,
           NEW l \in {"idle", "multi", "bids", "manual"},
           CleanThen(a, S, l), UNCHANGED <<rows, disk, errors, faults>>,
           \A b \in S : rows[b].status \notin {"unused", "running"}
    PROVE  IInv'
  <1> DEFINE t == [thread[a] EXCEPT !.pc = "clean", !.todo = S, !.cont = l]
  <1>1. t \in Thread /\ t.pc = "clean" /\ t.todo = S
    BY DEF IInv, TypeOK, Thread, PC
  <1>2. Becomes(a, t)
    BY DEF CleanThen
  <1> HIDE DEF t
  <1> QED BY <1>1, <1>2, LocalsStep DEF IInv, TypeOK

\* An UPDATE of row b that sets its status, and hasty at most besides.
Marks(b, s) ==
    \E r \in Row : /\ rows' = [rows EXCEPT ![b] = r]
                   /\ r.status = s /\ r.local_path = rows[b].local_path

LEMMA SetStatusMarks ==
    ASSUME IInv, NEW b \in Ids, NEW s \in Status, SetStatus(b, s)
    PROVE  Marks(b, s)
  <1> DEFINE r == [rows[b] EXCEPT !.status = s]
  <1>1. rows[b] \in Row
    BY DEF IInv, TypeOK
  <1>2. r \in Row /\ r.status = s /\ r.local_path = rows[b].local_path
    BY <1>1 DEF Row
  <1>3. rows' = [rows EXCEPT ![b] = r]
    BY DEF SetStatus
  <1> HIDE DEF r
  <1> QED BY <1>2, <1>3 DEF Marks

LEMMA DeleteMarks ==
    ASSUME IInv, NEW a \in Actors, DeleteMark(a), thread[a].bid \in Ids
    PROVE  Marks(thread[a].bid, "deleted")
  <1> DEFINE b == thread[a].bid
             r == [rows[b] EXCEPT !.status = "deleted", !.hasty = Hasty(b)]
  <1>1. rows[b] \in Row /\ Hasty(b) \in BOOLEAN
    BY DEF IInv, TypeOK, Hasty, Row
  <1>2. r \in Row
    BY <1>1, Zenon DEF Row, Status
  <1>3. r.status = "deleted" /\ r.local_path = rows[b].local_path
    BY <1>1 DEF Row
  <1>4. rows' = [rows EXCEPT ![b] = r]
    BY DEF DeleteMark, IInv, TypeOK
  <1> HIDE DEF r
  <1> QED BY <1>2, <1>3, <1>4 DEF Marks

\* An UPDATE that finishes row b, while thread a moves on to t.
LEMMA StatusStep ==
    ASSUME IInv, NEW a \in Actors, NEW b \in Ids, NEW s \in {"completed", "failed", "deleted"},
           NEW t \in Thread, Becomes(a, t), Marks(b, s), UNCHANGED <<disk, errors, faults>>,
           t.pc \in {"produce", "commit", "retain", "fail", "rmtree",
                     "delete", "delmark"} => t.bid \in Ids,
           t.pc # "mark", t.todo \subseteq thread[a].todo
    PROVE  IInv'
  <1>1. rows' \in [Ids -> Row]
    BY DEF IInv, TypeOK, Marks
  <1>2. \A c \in Ids : rows'[c].status \in {"unused", "running"}
                         => rows[c].status \in {"unused", "running"}
    BY DEF IInv, TypeOK, Marks
  <1>3. \A c \in t.todo : rows[c].status \notin {"unused", "running"}
    BY DEF IInv, TodoFinished
  <1> QED BY <1>1, <1>2, <1>3, LocalsStep DEF IInv, TypeOK

-----------------------------------------------------------------------------
\* One lemma per group of actions.

LEMMA CreateSteps ==
    ASSUME IInv, NEW a \in Actors,
           \/ BackupTenantsJob(a) \/ CreateRequest(a) \/ InsertRecord(a) \/ Produce(a)
           \/ UpdateCompleted(a) \/ RetainSelect(a) \/ RaiseInBackup(a)
           \/ UpdateFailed(a) \/ RemoveFinalDir(a)
    PROVE  IInv'
  <1> USE DEF At
  <1>1. CASE BackupTenantsJob(a) \/ CreateRequest(a)
    <2>1. PICK h \in Hostings, t \in Trigger : CheckNoRunning(a, h, t)
      BY <1>1, ConstantsAssumption DEF BackupTenantsJob, CreateRequest, Trigger
    <2> DEFINE u == [Idle EXCEPT !.pc = "insert", !.hid = h, !.trig = t]
    <2>2. u \in Thread /\ u.pc = "insert" /\ u.todo = {}
      BY IdleType DEF Thread, PC
    <2>3. Becomes(a, u) /\ UNCHANGED <<rows, disk, errors, faults>>
      BY <2>1 DEF CheckNoRunning
    <2> HIDE DEF u
    <2> QED BY <2>2, <2>3, LocalsStep DEF IInv, TypeOK
  <1>2. CASE InsertRecord(a)
    <2>1. PICK b \in WithStatus("unused") :
              /\ rows' = [rows EXCEPT ![b] = NewRow(thread[a].hid, thread[a].trig)]
              /\ Becomes(a, [thread[a] EXCEPT !.pc = "produce", !.bid = b])
      BY <1>2 DEF InsertRecord
    <2> DEFINE u == [thread[a] EXCEPT !.pc = "produce", !.bid = b]
    <2>2. b \in Ids /\ rows[b].status = "unused"
      BY DEF WithStatus
    <2>3. u \in Thread /\ u.pc = "produce" /\ u.bid = b /\ u.todo = thread[a].todo
      BY <2>2 DEF IInv, TypeOK, Thread, PC
    <2>4. NewRow(thread[a].hid, thread[a].trig) \in Row
      BY NewRowType DEF IInv, TypeOK, Thread
    <2>5. rows' \in [Ids -> Row]
      BY <2>1, <2>2, <2>4 DEF IInv, TypeOK
    <2>6. \A c \in Ids : rows'[c].status \in {"unused", "running"}
                           => rows[c].status \in {"unused", "running"}
      BY <2>1, <2>2 DEF IInv, TypeOK
    <2>7. \A c \in u.todo : rows[c].status \notin {"unused", "running"}
      BY <2>3 DEF IInv, TodoFinished
    <2>8. Becomes(a, u) /\ UNCHANGED <<disk, errors, faults>>
      BY <1>2, <2>1 DEF InsertRecord
    <2> HIDE DEF u
    <2> QED BY <2>2, <2>3, <2>5, <2>6, <2>7, <2>8, LocalsStep DEF IInv, TypeOK
  <1>3. CASE Produce(a)
    <2>1. thread[a].bid \in Ids
      BY <1>3 DEF Produce, IInv, Located
    <2> QED BY <1>3, <2>1, GotoStep DEF Produce, PC, IInv, TypeOK
  <1>4. CASE UpdateCompleted(a)
    <2>1. thread[a].bid \in Ids
      BY <1>4 DEF UpdateCompleted, IInv, Located
    <2> DEFINE u == IF thread[a].trig = "internal" THEN Idle ELSE [thread[a] EXCEPT !.pc = "retain"]
    <2>2. u \in Thread /\ u.pc \in {"idle", "retain"} /\ u.todo \subseteq thread[a].todo
          /\ (u.pc = "retain" => u.bid \in Ids)
      BY <2>1, IdleType DEF IInv, TypeOK, Thread, PC
    <2>3. Becomes(a, u) /\ UNCHANGED <<disk, errors, faults>>
      BY <1>4 DEF UpdateCompleted, Goto
    <2>4. rows' \in [Ids -> Row]
      BY <1>4, <2>1 DEF UpdateCompleted, IInv, TypeOK, Row, Status
    <2>5. \A c \in Ids : rows'[c].status \in {"unused", "running"}
                           => rows[c].status \in {"unused", "running"}
      BY <1>4, <2>1 DEF UpdateCompleted, IInv, TypeOK, Row
    <2>6. \A c \in u.todo : rows[c].status \notin {"unused", "running"}
      BY <2>2 DEF IInv, TodoFinished
    <2> HIDE DEF u
    <2> QED BY <2>2, <2>3, <2>4, <2>5, <2>6, LocalsStep DEF IInv, TypeOK
  <1>5. CASE RetainSelect(a)
    <2>1. /\ RetentionOf(thread[a]) \subseteq Ids
          /\ \A b \in RetentionOf(thread[a]) : rows[b].status = "completed"
      BY SelectsFinished DEF RetentionOf, IInv
    <2> QED BY <1>5, <2>1, CleanStep DEF RetainSelect
  <1>6. CASE RaiseInBackup(a)
    <2>1. thread[a].bid \in Ids
      BY <1>6 DEF RaiseInBackup, IInv, Located
    <2>2. errors' \in 0..MaxErrors
      BY <1>6, ConstantsAssumption DEF RaiseInBackup, IInv, TypeOK
    <2> QED BY <1>6, <2>1, <2>2, GotoStep DEF RaiseInBackup, PC, IInv, TypeOK
  <1>7. CASE UpdateFailed(a)
    <2> DEFINE u == [thread[a] EXCEPT !.pc = "rmtree"]
    <2>1. thread[a].bid \in Ids
      BY <1>7 DEF UpdateFailed, IInv, Located
    <2>2. u \in Thread /\ u.pc = "rmtree" /\ u.bid = thread[a].bid /\ u.todo = thread[a].todo
      BY DEF IInv, TypeOK, Thread, PC
    <2>3. Becomes(a, u) /\ Marks(thread[a].bid, "failed") /\ UNCHANGED <<disk, errors, faults>>
      BY <1>7, <2>1, SetStatusMarks DEF UpdateFailed, Goto, Status
    <2> HIDE DEF u
    <2> QED BY <2>1, <2>2, <2>3, StatusStep
  <1>8. CASE RemoveFinalDir(a)
    BY <1>8, GotoStep DEF RemoveFinalDir, PC, IInv, TypeOK
  <1> QED BY <1>1, <1>2, <1>3, <1>4, <1>5, <1>6, <1>7, <1>8

LEMMA CleanupSteps ==
    ASSUME IInv, NEW a \in Actors,
           \/ DeleteFiles(a) \/ MarkDeleted(a) \/ MarkRaises(a) \/ CleanDone(a)
           \/ AdminCleanup(a)
    PROVE  IInv'
  <1> USE DEF At
  <1>1. CASE DeleteFiles(a)
    <2>1. PICK b \in thread[a].todo :
              /\ RemoveDir(b)
              /\ Becomes(a, [thread[a] EXCEPT !.pc = "mark", !.cur = b,
                                              !.todo = thread[a].todo \ {b}])
      BY <1>1 DEF DeleteFiles
    <2> DEFINE u == [thread[a] EXCEPT !.pc = "mark", !.cur = b, !.todo = thread[a].todo \ {b}]
    <2>2. b \in Ids /\ rows[b].status \notin {"unused", "running"}
      BY DEF IInv, TypeOK, Thread, TodoFinished
    <2>3. u \in Thread /\ u.pc = "mark" /\ u.cur = b /\ u.todo \subseteq thread[a].todo
      BY <2>2 DEF IInv, TypeOK, Thread, PC
    <2>4. Becomes(a, u) /\ disk' \subseteq Ids /\ UNCHANGED <<rows, errors, faults>>
      BY <1>1, <2>1 DEF DeleteFiles, RemoveDir, IInv, TypeOK
    <2>5. \A c \in u.todo : rows[c].status \notin {"unused", "running"}
      BY <2>3 DEF IInv, TodoFinished
    <2> HIDE DEF u
    <2> QED BY <2>2, <2>3, <2>4, <2>5, LocalsStep DEF IInv, TypeOK
  <1> DEFINE back == [thread[a] EXCEPT !.pc = "clean", !.cur = NoId]
  <1>2. back \in Thread /\ back.pc = "clean" /\ back.todo = thread[a].todo
    BY DEF IInv, TypeOK, Thread, PC
  <1>3. CASE MarkDeleted(a)
    <2>1. thread[a].cur \in Ids
      BY <1>3 DEF MarkDeleted, IInv, Located
    <2>2. Becomes(a, back) /\ Marks(thread[a].cur, "deleted")
          /\ UNCHANGED <<disk, errors, faults>>
      BY <1>3, <2>1, SetStatusMarks DEF MarkDeleted, BackToLoop, Status
    <2> HIDE DEF back
    <2> QED BY <1>2, <2>1, <2>2, StatusStep
  <1>4. CASE MarkRaises(a)
    <2>1. Becomes(a, back) /\ UNCHANGED <<rows, disk, errors>>
      BY <1>4 DEF MarkRaises, BackToLoop
    <2>2. faults' \in 0..MaxFaults
      BY <1>4, ConstantsAssumption DEF MarkRaises, Lose, IInv, TypeOK
    <2>3. \A c \in back.todo : rows[c].status \notin {"unused", "running"}
      BY <1>2 DEF IInv, TodoFinished
    <2> HIDE DEF back
    <2> QED BY <1>2, <2>1, <2>2, <2>3, LocalsStep DEF IInv, TypeOK
  <1>5. CASE CleanDone(a)
    <2>1. thread[a].cont \in {"idle", "multi", "bids", "manual"}
      BY DEF IInv, TypeOK, Thread
    <2> QED BY <1>5, <2>1, GotoStep DEF CleanDone, PC, IInv, TypeOK
  <1>6. CASE AdminCleanup(a)
    <2>1. PICK h \in Hostings :
            \E S \in {ExpiredTtl, AutomaticAllButNewest(h), ManualExcess(h, PolicyMax[h])} :
              CleanThen(a, S, "idle")
      BY <1>6 DEF AdminCleanup
    <2>2. PICK S \in {ExpiredTtl, AutomaticAllButNewest(h), ManualExcess(h, PolicyMax[h])} :
            CleanThen(a, S, "idle")
      BY <2>1
    <2>3. S \subseteq Ids /\ \A b \in S : rows[b].status \notin {"unused", "running"}
      BY SelectsFinished DEF IInv
    <2> QED BY <1>6, <2>2, <2>3, CleanStep DEF AdminCleanup
  <1> QED BY <1>1, <1>3, <1>4, <1>5, <1>6

LEMMA RetentionSteps ==
    ASSUME IInv, NEW a \in Actors,
           \/ RetentionTtl(a) \/ RetentionMulti(a) \/ RetentionBids(a) \/ RetentionPrevious(a)
           \/ RetentionManualHostings(a) \/ RetentionManual(a) \/ RetentionEnds(a)
    PROVE  IInv'
  <1> USE DEF At
  \* The loop's locals change, the backups it has claimed do not.
  <1> DEFINE Loops(u) == /\ u \in Thread
                         /\ u.pc \in {"bids", "previous", "manual"}
                         /\ u.todo = thread[a].todo
  <1>0. ASSUME NEW u, Loops(u), Becomes(a, u), UNCHANGED <<rows, disk, errors, faults>>
        PROVE  IInv'
    <2>1. \A c \in u.todo : rows[c].status \notin {"unused", "running"}
      BY <1>0 DEF IInv, TodoFinished
    <2> QED BY <1>0, <2>1, LocalsStep DEF IInv, TypeOK
  <1>1. CASE RetentionTtl(a)
    BY <1>1, SelectsFinished, CleanStep DEF RetentionTtl, IInv
  <1>2. CASE RetentionMulti(a)
    <2> DEFINE W == {h \in Hostings : Cardinality(CompletedAutomatic(h)) > 1}
               u == [thread[a] EXCEPT !.pc = "bids", !.work = W]
    <2>1. W \subseteq Hostings
      OBVIOUS
    <2>2. Becomes(a, u) /\ UNCHANGED <<rows, disk, errors, faults>>
      BY <1>2 DEF RetentionMulti
    <2> HIDE DEF W
    <2>3. Loops(u)
      BY <2>1 DEF IInv, TypeOK, Thread, PC
    <2> HIDE DEF u, Loops
    <2> QED BY <1>0, <2>2, <2>3
  <1>3. CASE RetentionBids(a)
    <2>1. PICK h \in thread[a].work :
            \/ \E b \in CompletedAutomatic(h) :
                 Becomes(a, [thread[a] EXCEPT !.pc = "previous", !.work = thread[a].work \ {h},
                                              !.hid = h, !.bid = b])
            \/ Becomes(a, [thread[a] EXCEPT !.work = thread[a].work \ {h}])
      BY <1>3 DEF RetentionBids
    <2>2. h \in Hostings
      BY DEF IInv, TypeOK, Thread
    <2>3. CASE Becomes(a, [thread[a] EXCEPT !.work = thread[a].work \ {h}])
      <3> DEFINE u == [thread[a] EXCEPT !.work = thread[a].work \ {h}]
      <3>1. Loops(u)
        BY <1>3 DEF RetentionBids, IInv, TypeOK, Thread
      <3>2. UNCHANGED <<rows, disk, errors, faults>>
        BY <1>3 DEF RetentionBids
      <3> HIDE DEF Loops
      <3> QED BY <1>0, <2>3, <3>1, <3>2
    <2>4. ASSUME NEW b \in CompletedAutomatic(h),
                 Becomes(a, [thread[a] EXCEPT !.pc = "previous", !.work = thread[a].work \ {h},
                                              !.hid = h, !.bid = b])
          PROVE  IInv'
      <3> DEFINE u == [thread[a] EXCEPT !.pc = "previous", !.work = thread[a].work \ {h},
                                        !.hid = h, !.bid = b]
      <3>1. b \in Ids
        BY DEF CompletedAutomatic, WithStatus
      <3>2. Loops(u)
        BY <2>2, <3>1 DEF IInv, TypeOK, Thread, PC
      <3>3. UNCHANGED <<rows, disk, errors, faults>>
        BY <1>3 DEF RetentionBids
      <3> HIDE DEF Loops
      <3> QED BY <1>0, <2>4, <3>2, <3>3
    <2> QED BY <2>1, <2>3, <2>4
  <1>4. CASE RetentionPrevious(a)
    <2>1. /\ AutomaticPrevious(thread[a].hid, thread[a].bid) \in SUBSET Ids
          /\ \A b \in AutomaticPrevious(thread[a].hid, thread[a].bid) : rows[b].status = "completed"
      BY SelectsFinished DEF IInv
    <2> QED BY <1>4, <2>1, CleanStep DEF RetentionPrevious
  <1>5. CASE RetentionManualHostings(a)
    <2> DEFINE W == {h \in Hostings : CompletedManual(h) # {}}
               u == [thread[a] EXCEPT !.pc = "manual", !.work = W]
    <2>1. W \subseteq Hostings
      OBVIOUS
    <2>2. Becomes(a, u) /\ UNCHANGED <<rows, disk, errors, faults>>
      BY <1>5 DEF RetentionManualHostings
    <2> HIDE DEF W
    <2>3. Loops(u)
      BY <2>1 DEF IInv, TypeOK, Thread, PC
    <2> HIDE DEF u, Loops
    <2> QED BY <1>0, <2>2, <2>3
  <1>6. CASE RetentionManual(a)
    <2>1. PICK h \in thread[a].work :
            Becomes(a, [thread[a] EXCEPT !.pc = "clean", !.todo = ManualExcess(h, EnvMax),
                                         !.cont = "manual", !.work = thread[a].work \ {h}])
      BY <1>6 DEF RetentionManual
    <2> DEFINE S == ManualExcess(h, EnvMax)
               u == [thread[a] EXCEPT !.pc = "clean", !.todo = S, !.cont = "manual",
                                      !.work = thread[a].work \ {h}]
    <2>2. Becomes(a, u) /\ UNCHANGED <<rows, disk, errors, faults>>
      BY <1>6, <2>1 DEF RetentionManual
    <2>3. S \subseteq Ids /\ \A b \in S : rows[b].status = "completed"
      BY SelectsFinished DEF IInv
    <2> HIDE DEF S
    <2>4. u \in Thread /\ u.pc = "clean" /\ u.todo = S
      BY <2>3 DEF IInv, TypeOK, Thread, PC
    <2> HIDE DEF u
    <2> QED BY <2>2, <2>3, <2>4, LocalsStep DEF IInv, TypeOK
  <1>7. CASE RetentionEnds(a)
    BY <1>7, GotoStep DEF RetentionEnds, PC, IInv, TypeOK
  <1> QED BY <1>1, <1>2, <1>3, <1>4, <1>5, <1>6, <1>7

LEMMA DeleteSteps ==
    ASSUME IInv, NEW a \in Actors,
           \/ \E b \in Ids, route \in DeleteRoutes : DeleteCheck(a, b, route)
           \/ DeleteProtected(a) \/ DeleteSelect(a) \/ DeleteMark(a)
    PROVE  IInv'
  <1> USE DEF At
  <1>1. ASSUME NEW b \in Ids, NEW route \in DeleteRoutes, DeleteCheck(a, b, route)
        PROVE  IInv'
    <2> DEFINE u == [Idle EXCEPT !.pc = "delete", !.bid = b]
    <2>1. u \in Thread /\ u.pc = "delete" /\ u.bid = b /\ u.todo = {}
      BY IdleType DEF Thread, PC
    <2>2. Becomes(a, u) /\ UNCHANGED <<rows, disk, errors, faults>>
      BY <1>1 DEF DeleteCheck
    <2> HIDE DEF u
    <2> QED BY <2>1, <2>2, LocalsStep DEF IInv, TypeOK
  <1>2. CASE DeleteProtected(a)
    BY <1>2, GotoStep DEF DeleteProtected, PC, IInv, TypeOK
  <1>3. CASE DeleteSelect(a)
    <2>1. thread[a].bid \in Ids
      BY <1>3 DEF DeleteSelect, IInv, Located
    <2>2. disk' \subseteq Ids
      BY <1>3 DEF DeleteSelect, RemoveDir, IInv, TypeOK
    <2> QED BY <1>3, <2>1, <2>2, GotoStep DEF DeleteSelect, PC, IInv, TypeOK
  <1>4. CASE DeleteMark(a)
    <2>1. thread[a].bid \in Ids
      BY <1>4 DEF DeleteMark, IInv, Located
    <2>2. Becomes(a, Idle) /\ Marks(thread[a].bid, "deleted") /\ UNCHANGED <<disk, errors, faults>>
      BY <1>4, <2>1, DeleteMarks DEF DeleteMark, Goto
    <2> QED BY <2>1, <2>2, IdleType, StatusStep
  <1> QED BY <1>1, <1>2, <1>3, <1>4

LEMMA EnvironmentSteps ==
    ASSUME IInv,
           \/ \E a \in Actors : Crash(a)
           \/ \E b \in Ids, v \in ProtectValues : SetBackupProtected(b, v)
           \/ \E b \in Ids : ExpiresAtPasses(b)
    PROVE  IInv'
  <1>1. ASSUME NEW a \in Actors, Crash(a) PROVE IInv'
    <2>1. faults' \in 0..MaxFaults
      BY <1>1, ConstantsAssumption DEF Crash, Lose, IInv, TypeOK
    <2> QED BY <1>1, <2>1, GotoStep DEF Crash, PC, IInv, TypeOK
  \* Neither a protection nor the passing of expires_at changes a status.
  <1>2. ASSUME rows' \in [Ids -> Row], \A b \in Ids : rows'[b].status = rows[b].status,
               UNCHANGED <<disk, thread, errors, faults>>
        PROVE  IInv'
    <2>1. TypeOK' /\ Located'
      BY <1>2 DEF IInv, TypeOK, Located
    <2>2. TodoFinished'
      <3>1. \A x \in Actors : \A b \in thread[x].todo : b \in Ids
        BY DEF IInv, TypeOK, Thread
      <3>2. \A x \in Actors : thread[x].pc = "mark" => thread[x].cur \in Ids
        BY DEF IInv, Located
      <3> QED BY <1>2, <3>1, <3>2 DEF IInv, TodoFinished
    <2> QED BY <2>1, <2>2 DEF IInv
  <1>3. ASSUME NEW b \in Ids, NEW v \in ProtectValues, SetBackupProtected(b, v) PROVE IInv'
    <2>1. v \in BOOLEAN
      BY ConstantsAssumption
    <2>2. rows[b] \in Row /\ rows \in [Ids -> Row]
      BY DEF IInv, TypeOK
    <2> DEFINE r == [rows[b] EXCEPT !.protected = v]
    <2>3. r \in Row
      BY <2>1, <2>2, Zenon DEF Row
    <2>4. r.status = rows[b].status
      BY <2>2 DEF Row
    <2>5. rows' = [rows EXCEPT ![b] = r]
      BY <1>3 DEF SetBackupProtected
    <2> HIDE DEF r
    <2>6. rows' \in [Ids -> Row] /\ \A c \in Ids : rows'[c].status = rows[c].status
      BY <2>2, <2>3, <2>4, <2>5
    <2> QED BY <1>2, <1>3, <2>6 DEF SetBackupProtected
  <1>4. ASSUME NEW b \in Ids, ExpiresAtPasses(b) PROVE IInv'
    <2>1. rows[b] \in Row /\ rows \in [Ids -> Row]
      BY DEF IInv, TypeOK
    <2> DEFINE r == [rows[b] EXCEPT !.expired = TRUE]
    <2>2. r \in Row
      BY <2>1, Zenon DEF Row
    <2>3. r.status = rows[b].status
      BY <2>1 DEF Row
    <2>4. rows' = [rows EXCEPT ![b] = r]
      BY <1>4 DEF ExpiresAtPasses
    <2> HIDE DEF r
    <2>5. rows' \in [Ids -> Row] /\ \A c \in Ids : rows'[c].status = rows[c].status
      BY <2>1, <2>2, <2>3, <2>4
    <2> QED BY <1>2, <1>4, <2>5 DEF ExpiresAtPasses
  <1> QED BY <1>1, <1>3, <1>4

-----------------------------------------------------------------------------
\* What is lost where nothing handles an exception is what a crash loses.
LEMMA UnhandledCrash ==
    ASSUME NEW a, MkdtempRaises(a) \/ FailedRaises(a)
    PROVE  Crash(a)
  BY DEF MkdtempRaises, FailedRaises, Crash, At

LEMMA NextIInv == IInv /\ [Next]_vars => IInv'
  <1> SUFFICES ASSUME IInv, [Next]_vars PROVE IInv'
    OBVIOUS
  <1>1. CASE UNCHANGED vars
    BY <1>1 DEF vars, IInv, TypeOK, Located, TodoFinished
  <1>2. CASE Next
    BY <1>2, CreateSteps, CleanupSteps, RetentionSteps, DeleteSteps, EnvironmentSteps, UnhandledCrash
       DEF Next, Step, Start, Fault
  <1> QED BY <1>1, <1>2

LEMMA IInvImplies == IInv => TypeOK /\ RunningUntouched
  BY DEF IInv, TodoFinished, RunningUntouched, Claimed, At

THEOREM Invariance == Spec => []IInv
  BY InitIInv, NextIInv, PTL DEF Spec

\* The rows, the directories and the locals of every thread keep their types.
THEOREM TypeCorrect == Spec => []TypeOK
  BY Invariance, IInvImplies, PTL

\* No cleanup ever holds a backup that is still being made: whatever happens
\* between its SELECT and its deletions, the rows it selected stay finished.
THEOREM CleanupSkipsRunning == Spec => []RunningUntouched
  BY Invariance, IInvImplies, PTL
-----------------------------------------------------------------------------
\* CompletedHasFiles.  A creation owns its row alone from the insert on; its directory is
\* there when it says "completed", and what it removes is no completed backup.

Makes == {"produce", "commit", "retain", "fail", "rmtree"}

Owned ==
    /\ \A a \in Actors : thread[a].pc \in Makes => rows[thread[a].bid].status # "unused"
    /\ \A a, c \in Actors : (thread[a].pc \in Makes /\ thread[c].pc \in Makes /\ a # c)
                              => thread[a].bid # thread[c].bid

Written ==
    \A a \in Actors :
        /\ thread[a].pc \in {"produce", "commit"} => ~rows[thread[a].bid].local_path
        /\ thread[a].pc = "commit" => thread[a].bid \in disk
        /\ thread[a].pc = "rmtree" => rows[thread[a].bid].status # "completed"

\* Some thread has removed the directory of b and marks the row next.
Taken(b) == \E a \in Actors : \/ thread[a].pc = "mark" /\ thread[a].cur = b
                              \/ thread[a].pc = "delmark" /\ thread[a].bid = b

Kept == faults = 0 => \A b \in Ids : rows[b].status = "completed" => (b \in disk \/ Taken(b))

FilesInv == Owned /\ Written /\ Kept

LEMMA FilesInit == Init => FilesInv
  BY IdleType DEF Init, FilesInv, Owned, Written, Kept, Makes, NewRow

\* Steps that leave rows and directories alone, of a thread that takes no directory.
LEMMA QuietStep ==
    ASSUME IInv, FilesInv, NEW a \in Actors, NEW t \in Thread, Becomes(a, t),
           UNCHANGED <<rows, disk>>, faults' \in Nat, faults' = 0 => faults = 0,
           thread[a].pc \in {"mark", "delmark"} => faults' # 0,
           \/ t.pc \notin Makes
           \/ t.pc \in {"retain", "fail"} /\ thread[a].pc \in Makes /\ t.bid = thread[a].bid
    PROVE  FilesInv'
  <1>1. \A x \in Actors : thread'[x] = IF x = a THEN t ELSE thread[x]
    BY DEF IInv, TypeOK, Becomes
  <1>2. Owned'
    BY <1>1 DEF FilesInv, Owned, Makes
  <1>3. Written'
    BY <1>1 DEF FilesInv, Written, Makes
  <1>4. ASSUME faults' = 0, NEW b \in Ids, Taken(b) PROVE Taken(b)'
    BY <1>1, <1>4 DEF Taken
  <1>5. Kept'
    BY <1>4 DEF FilesInv, Kept
  <1> QED BY <1>2, <1>3, <1>5 DEF FilesInv

\* A status UPDATE of row b that does not say "completed"; the creation of b, if there is
\* one, has been through its own.
LEMMA MarkStep ==
    ASSUME IInv, FilesInv, NEW a \in Actors, NEW t \in Thread, Becomes(a, t), NEW b \in Ids,
           NEW s \in {"failed", "deleted"}, Marks(b, s), UNCHANGED <<disk, faults>>,
           \/ t.pc \notin Makes
           \/ t.pc = "rmtree" /\ thread[a].pc \in Makes /\ t.bid = thread[a].bid /\ t.bid = b,
           thread[a].pc = "mark" => thread[a].cur = b,
           thread[a].pc = "delmark" => thread[a].bid = b
    PROVE  FilesInv'
  <1>1. \A x \in Actors : thread'[x] = IF x = a THEN t ELSE thread[x]
    BY DEF IInv, TypeOK, Becomes
  <1>2. \A c \in Ids : /\ rows'[c].status = IF c = b THEN s ELSE rows[c].status
                       /\ rows'[c].local_path = rows[c].local_path
    BY DEF IInv, TypeOK, Marks
  <1>3. \A x \in Actors : thread[x].pc \in Makes => thread[x].bid \in Ids
    BY DEF IInv, Located, Makes
  <1>4. Owned'
    BY <1>1, <1>2, <1>3 DEF FilesInv, Owned, Makes
  <1>5. Written'
    BY <1>1, <1>2, <1>3 DEF FilesInv, Written, Makes
  <1>6. ASSUME NEW c \in Ids, c # b, Taken(c) PROVE Taken(c)'
    BY <1>1, <1>6 DEF Taken
  <1>7. Kept'
    BY <1>2, <1>6 DEF FilesInv, Kept
  <1> QED BY <1>4, <1>5, <1>7 DEF FilesInv

\* A cleanup or a DELETE removes the directory of row b.
LEMMA RemoveStep ==
    ASSUME IInv, FilesInv, NEW a \in Actors, NEW t \in Thread, Becomes(a, t), NEW b \in Ids,
           RemoveDir(b), UNCHANGED <<rows, faults>>,
           thread[a].pc \notin {"mark", "delmark"},
           \/ t.pc = "mark" /\ t.cur = b
           \/ t.pc = "delmark" /\ t.bid = b
    PROVE  FilesInv'
  <1>1. \A x \in Actors : thread'[x] = IF x = a THEN t ELSE thread[x]
    BY DEF IInv, TypeOK, Becomes
  <1>2. Owned'
    BY <1>1 DEF FilesInv, Owned, Makes
  <1>3. Written'
    BY <1>1 DEF FilesInv, Written, RemoveDir
  <1>4. Taken(b)'
    BY <1>1 DEF Taken
  <1>5. ASSUME NEW c \in Ids, Taken(c) PROVE Taken(c)'
    BY <1>1, <1>5 DEF Taken
  <1>6. \A c \in Ids : c # b => (c \in disk => c \in disk')
    BY DEF RemoveDir
  <1>7. Kept'
    BY <1>4, <1>5, <1>6 DEF FilesInv, Kept
  <1> QED BY <1>2, <1>3, <1>7 DEF FilesInv

LEMMA FilesCreate ==
    ASSUME IInv, FilesInv, NEW a \in Actors,
           \/ InsertRecord(a) \/ Produce(a) \/ UpdateCompleted(a) \/ UpdateFailed(a)
           \/ RemoveFinalDir(a) \/ RaiseInBackup(a)
    PROVE  FilesInv'
  <1> USE DEF At
  <1>0. /\ \A x \in Actors : thread[x].pc \in Makes => thread[x].bid \in Ids
        /\ thread[a] \in Thread
    BY DEF IInv, TypeOK, Located, Makes
  <1>1. CASE InsertRecord(a)
    <2>1. PICK b \in WithStatus("unused") :
              /\ rows' = [rows EXCEPT ![b] = NewRow(thread[a].hid, thread[a].trig)]
              /\ Becomes(a, [thread[a] EXCEPT !.pc = "produce", !.bid = b])
      BY <1>1 DEF InsertRecord
    <2> DEFINE u == [thread[a] EXCEPT !.pc = "produce", !.bid = b]
    <2>2. b \in Ids /\ rows[b].status = "unused"
      BY DEF WithStatus
    <2>3. u.pc = "produce" /\ u.bid = b
      BY <1>0 DEF Thread
    <2>4. \A x \in Actors : thread'[x] = IF x = a THEN u ELSE thread[x]
      BY <2>1 DEF IInv, TypeOK, Becomes
    <2> HIDE DEF u
    <2>5. /\ rows'[b].status = "running" /\ ~rows'[b].local_path
          /\ \A c \in Ids : c # b => rows'[c] = rows[c]
      BY <2>1, <2>2 DEF IInv, TypeOK, NewRow
    <2>6. /\ thread[a].pc = "insert" /\ UNCHANGED <<disk, faults>>
          /\ \A x \in Actors : thread[x].pc \in Makes => thread[x].bid # b
      BY <1>1, <2>2 DEF InsertRecord, FilesInv, Owned
    <2>7. Owned'
      BY <1>0, <2>2, <2>3, <2>4, <2>5, <2>6 DEF FilesInv, Owned, Makes
    <2>8. Written'
      BY <1>0, <2>3, <2>4, <2>5, <2>6 DEF FilesInv, Written, Makes
    <2>9. \A c \in Ids : Taken(c) => Taken(c)'
      BY <2>4, <2>6 DEF Taken
    <2>10. Kept'
      BY <2>2, <2>5, <2>6, <2>9 DEF FilesInv, Kept
    <2> QED BY <2>7, <2>8, <2>10 DEF FilesInv
  <1>2. CASE Produce(a)
    <2> DEFINE u == [thread[a] EXCEPT !.pc = "commit"]
    <2>1. u.pc = "commit" /\ u.bid = thread[a].bid
      BY <1>0 DEF Thread
    <2>2. \A x \in Actors : thread'[x] = IF x = a THEN u ELSE thread[x]
      BY <1>2 DEF Produce, Goto, IInv, TypeOK, Becomes
    <2> HIDE DEF u
    <2>3. /\ thread[a].pc = "produce" /\ disk' = disk \cup {thread[a].bid}
          /\ UNCHANGED <<rows, faults>>
      BY <1>2 DEF Produce
    <2>4. Owned' /\ Written'
      BY <2>1, <2>2, <2>3 DEF FilesInv, Owned, Written, Makes
    <2>5. \A c \in Ids : Taken(c) => Taken(c)'
      BY <2>2, <2>3 DEF Taken
    <2>6. Kept'
      BY <2>3, <2>5 DEF FilesInv, Kept
    <2> QED BY <2>4, <2>6 DEF FilesInv
  <1>3. CASE UpdateCompleted(a)
    <2> DEFINE u == IF thread[a].trig = "internal" THEN Idle ELSE [thread[a] EXCEPT !.pc = "retain"]
               b == thread[a].bid
    <2>1. u.pc = "idle" \/ (u.pc = "retain" /\ u.bid = b)
      BY <1>0, IdleType DEF Thread
    <2>2. \A x \in Actors : thread'[x] = IF x = a THEN u ELSE thread[x]
      BY <1>3 DEF UpdateCompleted, Goto, IInv, TypeOK, Becomes
    <2>3. /\ thread[a].pc = "commit" /\ UNCHANGED <<disk, faults>>
          /\ b \in Ids /\ b \in disk
      BY <1>0, <1>3 DEF UpdateCompleted, Makes, FilesInv, Written
    <2>4. /\ rows'[b].status = "completed"
          /\ \A c \in Ids : c # b => rows'[c] = rows[c]
      BY <1>3, <2>3 DEF UpdateCompleted, IInv, TypeOK, Row
    <2>5. \A x \in Actors : (thread[x].pc \in Makes /\ x # a) => thread[x].bid # b
      BY <2>3 DEF FilesInv, Owned, Makes
    <2> HIDE DEF u, b
    <2>6. Owned'
      BY <1>0, <2>1, <2>2, <2>3, <2>4, <2>5 DEF FilesInv, Owned, Makes, b
    <2>7. Written'
      BY <1>0, <2>1, <2>2, <2>3, <2>4, <2>5 DEF FilesInv, Written, Makes
    <2>8. \A c \in Ids : Taken(c) => Taken(c)'
      BY <2>2, <2>3 DEF Taken
    <2>9. Kept'
      BY <2>3, <2>4, <2>8 DEF FilesInv, Kept
    <2> QED BY <2>6, <2>7, <2>9 DEF FilesInv
  <1>4. CASE UpdateFailed(a)
    <2> DEFINE u == [thread[a] EXCEPT !.pc = "rmtree"]
    <2>1. u \in Thread /\ u.pc = "rmtree" /\ u.bid = thread[a].bid
      BY <1>0 DEF Thread, PC
    <2>2. /\ Becomes(a, u) /\ thread[a].pc = "fail" /\ Marks(thread[a].bid, "failed")
          /\ UNCHANGED <<disk, faults>>
      BY <1>0, <1>4, SetStatusMarks DEF UpdateFailed, Goto, Status, Makes
    <2> HIDE DEF u
    <2> QED BY <1>0, <2>1, <2>2, MarkStep DEF Makes
  <1>5. CASE RemoveFinalDir(a)
    <2>1. \A x \in Actors : thread'[x] = IF x = a THEN Idle ELSE thread[x]
      BY <1>5 DEF RemoveFinalDir, Goto, IInv, TypeOK, Becomes
    <2>2. /\ thread[a].pc = "rmtree" /\ disk' = disk \ {thread[a].bid}
          /\ UNCHANGED <<rows, faults>>
      BY <1>5 DEF RemoveFinalDir
    <2>3. rows[thread[a].bid].status # "completed"
      BY <2>2 DEF FilesInv, Written
    <2>4. Owned' /\ Written'
      BY <1>0, <2>1, <2>2, IdleType DEF FilesInv, Owned, Written, Makes
    <2>5. \A c \in Ids : Taken(c) => Taken(c)'
      BY <2>1, <2>2 DEF Taken
    <2>6. Kept'
      BY <2>2, <2>3, <2>5 DEF FilesInv, Kept
    <2> QED BY <2>4, <2>6 DEF FilesInv
  <1>6. CASE RaiseInBackup(a)
    <2> DEFINE u == [thread[a] EXCEPT !.pc = "fail"]
    <2>1. u \in Thread /\ u.pc = "fail" /\ u.bid = thread[a].bid
      BY <1>0 DEF Thread, PC
    <2>2. Becomes(a, u) /\ UNCHANGED <<rows, disk, faults>>
          /\ thread[a].pc \in {"produce", "commit", "retain"} /\ faults \in Nat
      BY <1>6, ConstantsAssumption DEF RaiseInBackup, Goto, IInv, TypeOK
    <2> HIDE DEF u
    <2> QED BY <2>1, <2>2, QuietStep DEF Makes
  <1> QED BY <1>1, <1>2, <1>3, <1>4, <1>5, <1>6

\* The steps of a cleanup or a DELETE that take a directory, or mark the row of one.
LEMMA FilesTake ==
    ASSUME IInv, FilesInv, NEW a \in Actors,
           DeleteFiles(a) \/ MarkDeleted(a) \/ MarkRaises(a) \/ DeleteSelect(a) \/ DeleteMark(a)
    PROVE  FilesInv'
  <1> USE DEF At
  <1>0. /\ thread[a] \in Thread /\ faults \in Nat
        /\ thread[a].pc = "mark" => thread[a].cur \in Ids
        /\ thread[a].pc \in {"delete", "delmark"} => thread[a].bid \in Ids
    BY ConstantsAssumption DEF IInv, TypeOK, Located
  <1>1. CASE DeleteFiles(a)
    <2>1. PICK b \in thread[a].todo :
              /\ RemoveDir(b)
              /\ Becomes(a, [thread[a] EXCEPT !.pc = "mark", !.cur = b,
                                              !.todo = thread[a].todo \ {b}])
      BY <1>1 DEF DeleteFiles
    <2> DEFINE u == [thread[a] EXCEPT !.pc = "mark", !.cur = b, !.todo = thread[a].todo \ {b}]
    <2>2. b \in Ids /\ u \in Thread /\ u.pc = "mark" /\ u.cur = b
      BY <1>0 DEF Thread, PC
    <2>3. Becomes(a, u) /\ UNCHANGED <<rows, faults>> /\ thread[a].pc = "clean"
      BY <1>1, <2>1 DEF DeleteFiles
    <2> HIDE DEF u
    <2> QED BY <2>1, <2>2, <2>3, RemoveStep
  <1> DEFINE back == [thread[a] EXCEPT !.pc = "clean", !.cur = NoId]
  <1>2. back \in Thread /\ back.pc \notin Makes
    BY <1>0 DEF Thread, PC, Makes
  <1>3. CASE MarkDeleted(a)
    <2>1. Becomes(a, back) /\ Marks(thread[a].cur, "deleted")
          /\ UNCHANGED <<disk, faults>> /\ thread[a].pc = "mark"
      BY <1>0, <1>3, SetStatusMarks DEF MarkDeleted, BackToLoop, Status
    <2> HIDE DEF back
    <2> QED BY <1>0, <1>2, <2>1, MarkStep
  <1>4. CASE MarkRaises(a)
    <2>1. Becomes(a, back) /\ UNCHANGED <<rows, disk>> /\ faults' = faults + 1
      BY <1>4 DEF MarkRaises, BackToLoop, Lose
    <2> HIDE DEF back
    <2> QED BY <1>0, <1>2, <2>1, QuietStep
  <1>5. CASE DeleteSelect(a)
    <2> DEFINE u == [thread[a] EXCEPT !.pc = "delmark"]
    <2>1. u \in Thread /\ u.pc = "delmark" /\ u.bid = thread[a].bid
      BY <1>0 DEF Thread, PC
    <2>2. Becomes(a, u) /\ RemoveDir(thread[a].bid) /\ UNCHANGED <<rows, faults>>
          /\ thread[a].pc = "delete"
      BY <1>5 DEF DeleteSelect, Goto
    <2> HIDE DEF u
    <2> QED BY <1>0, <2>1, <2>2, RemoveStep
  <1>6. CASE DeleteMark(a)
    <2>1. Becomes(a, Idle) /\ UNCHANGED <<disk, faults>> /\ thread[a].pc = "delmark"
      BY <1>6 DEF DeleteMark, Goto
    <2>2. Marks(thread[a].bid, "deleted")
      BY <1>0, <1>6, <2>1, DeleteMarks
    <2> QED BY <1>0, <2>1, <2>2, IdleType, MarkStep DEF Makes
  <1> QED BY <1>1, <1>3, <1>4, <1>5, <1>6

\* The other steps of a thread change its own locals alone.
Quiet(a) ==
    \/ Start(a) \/ Crash(a)
    \/ RetainSelect(a) \/ CleanDone(a)
    \/ RetentionMulti(a) \/ RetentionBids(a) \/ RetentionPrevious(a)
    \/ RetentionManualHostings(a) \/ RetentionManual(a) \/ RetentionEnds(a)
    \/ DeleteProtected(a)

Aside == {"idle", "insert", "clean", "multi", "bids", "previous", "manual", "delete"}

LEMMA QuietShape ==
    ASSUME IInv, IInv', NEW a \in Actors, Quiet(a)
    PROVE  /\ Becomes(a, thread'[a])
           /\ UNCHANGED <<rows, disk>>
           /\ faults \in Nat /\ faults' \in Nat
           /\ faults' = 0 => faults = 0
           /\ thread[a].pc \in {"mark", "delmark"} => faults' # 0
           /\ thread'[a].pc \in Aside
           /\ thread'[a].pc = "delete" =>
                 \E b \in Ids, route \in DeleteRoutes : DeleteCheck(a, b, route)
  <1> USE DEF At, Quiet
  <1> DEFINE t == thread'[a]
  <1>0. thread[a] \in Thread /\ thread \in [Actors -> Thread] /\ t \in Thread
    BY DEF IInv, TypeOK
  <1>1. Becomes(a, t)
    <2>1. ASSUME NEW u, Becomes(a, u) PROVE Becomes(a, t)
      BY <1>0, <2>1 DEF Becomes
    <2>2. ASSUME NEW l, Goto(a, l) PROVE Becomes(a, t)
      BY <2>1, <2>2 DEF Goto
    <2>3. ASSUME NEW S, NEW l, CleanThen(a, S, l) PROVE Becomes(a, t)
      BY <2>1, <2>3 DEF CleanThen
    <2> HIDE DEF t
    <2>4. CASE Start(a)
      BY <2>1, <2>3, <2>4 DEF Start, BackupTenantsJob, CreateRequest, CheckNoRunning, RetentionTtl,
           AdminCleanup, DeleteCheck
    <2>5. CASE Crash(a) \/ CleanDone(a) \/ RetentionEnds(a) \/ DeleteProtected(a)
      BY <2>2, <2>5 DEF Crash, CleanDone, RetentionEnds, DeleteProtected
    <2>6. CASE RetainSelect(a) \/ RetentionPrevious(a)
      BY <2>3, <2>6 DEF RetainSelect, RetentionPrevious
    <2>7. CASE RetentionMulti(a) \/ RetentionManualHostings(a) \/ RetentionManual(a)
      BY <2>1, <2>7 DEF RetentionMulti, RetentionManualHostings, RetentionManual
    <2>8. CASE RetentionBids(a)
      BY <2>1, <2>8 DEF RetentionBids
    <2> QED BY <2>4, <2>5, <2>6, <2>7, <2>8
  <1>2. UNCHANGED <<rows, disk>>
    BY DEF Start, BackupTenantsJob, CreateRequest, CheckNoRunning, RetentionTtl, AdminCleanup,
           DeleteCheck, Crash, RetainSelect, CleanDone, RetentionMulti, RetentionBids,
           RetentionPrevious, RetentionManualHostings, RetentionManual, RetentionEnds,
           DeleteProtected
  <1>3. faults \in Nat /\ faults' \in Nat
    BY ConstantsAssumption DEF IInv, TypeOK
  <1>4. /\ faults' = 0 => faults = 0
        /\ thread[a].pc \in {"mark", "delmark"} => faults' # 0
    <2>1. CASE Crash(a)
      BY <1>3, <2>1 DEF Crash, Lose
    <2>2. CASE ~Crash(a)
      BY <2>2 DEF Start, BackupTenantsJob, CreateRequest, CheckNoRunning, RetentionTtl, AdminCleanup,
           DeleteCheck, RetainSelect, CleanDone, RetentionMulti, RetentionBids,
           RetentionPrevious, RetentionManualHostings, RetentionManual, RetentionEnds,
           DeleteProtected
    <2> QED BY <2>1, <2>2
  <1>5. /\ t.pc \in Aside
        /\ t.pc = "delete" => \E b \in Ids, route \in DeleteRoutes : DeleteCheck(a, b, route)
    <2>0. ASSUME NEW u, Becomes(a, u) PROVE t = u
      BY <1>0, <2>0 DEF Becomes
    <2>a. ASSUME NEW S, NEW l, CleanThen(a, S, l) PROVE t.pc = "clean"
      BY <1>0, <2>0, <2>a DEF CleanThen, Thread
    <2> HIDE DEF t
    <2>1. CASE Start(a)
      <3>1. ASSUME NEW h, NEW k, CheckNoRunning(a, h, k) PROVE t.pc = "insert"
        BY <2>0, <3>1, IdleType DEF CheckNoRunning, Thread
      <3>2. ASSUME NEW b, NEW route, DeleteCheck(a, b, route) PROVE t.pc = "delete"
        BY <2>0, <3>2, IdleType DEF DeleteCheck, Thread
      <3>3. CASE BackupTenantsJob(a) \/ CreateRequest(a)
        BY <3>1, <3>3 DEF BackupTenantsJob, CreateRequest, Aside
      <3>4. CASE RetentionTtl(a) \/ AdminCleanup(a)
        BY <2>a, <3>4 DEF RetentionTtl, AdminCleanup, Aside
      <3> QED BY <2>1, <3>2, <3>3, <3>4 DEF Start, Aside
    <2>2. CASE RetainSelect(a) \/ RetentionPrevious(a) \/ RetentionManual(a)
      <3>1. CASE RetentionManual(a)
        BY <1>0, <2>0, <3>1 DEF RetentionManual, Thread, Aside
      <3> QED BY <2>2, <2>a, <3>1 DEF RetainSelect, RetentionPrevious, Aside
    <2>3. CASE Crash(a) \/ RetentionEnds(a) \/ DeleteProtected(a)
      <3>1. t.pc = "idle"
        BY <2>0, <2>3, IdleType DEF Crash, RetentionEnds, DeleteProtected, Goto
      <3> QED BY <3>1 DEF Aside
    <2>4. CASE CleanDone(a)
      <3>1. thread[a].cont \in {"idle", "multi", "bids", "manual"}
        BY <1>0 DEF Thread
      <3>2. t.pc \in {"idle", "multi", "bids", "manual"}
        BY <1>0, <2>0, <2>4, <3>1, IdleType DEF CleanDone, Goto, Thread
      <3> QED BY <3>2 DEF Aside
    <2>5. CASE RetentionMulti(a) \/ RetentionBids(a) \/ RetentionManualHostings(a)
      <3>1. CASE RetentionMulti(a) \/ RetentionManualHostings(a)
        BY <1>0, <2>0, <3>1 DEF RetentionMulti, RetentionManualHostings, Thread, Aside
      <3>2. CASE RetentionBids(a)
        <4>1. PICK h : \/ \E b : t = [thread[a] EXCEPT !.pc = "previous", !.work = thread[a].work \ {h},
                                                     !.hid = h, !.bid = b]
                       \/ t = [thread[a] EXCEPT !.work = thread[a].work \ {h}]
          BY <2>0, <3>2 DEF RetentionBids
        <4>2. thread[a].pc = "bids"
          BY <3>2 DEF RetentionBids
        <4> QED BY <1>0, <4>1, <4>2 DEF Thread, Aside
      <3> QED BY <2>5, <3>1, <3>2
    <2> QED BY <2>1, <2>2, <2>3, <2>4, <2>5
  <1> QED BY <1>1, <1>2, <1>3, <1>4, <1>5

LEMMA FilesQuiet ==
    ASSUME IInv, IInv', FilesInv, NEW a \in Actors, Quiet(a)
    PROVE  FilesInv'
  <1>1. thread'[a] \in Thread
    BY DEF IInv, TypeOK
  <1>2. thread'[a].pc \notin Makes
    BY QuietShape DEF Aside, Makes
  <1> QED BY <1>1, <1>2, QuietShape, QuietStep

\* Steps that change neither threads nor directories nor a row's status and local_path.
SameFiles ==
    /\ UNCHANGED <<disk, thread>>
    /\ \A b \in Ids : rows'[b].status = rows[b].status /\ rows'[b].local_path = rows[b].local_path

LEMMA FilesSame ==
    ASSUME IInv, FilesInv, SameFiles, faults' = 0 => faults = 0
    PROVE  FilesInv'
  <1>1. \A x \in Actors : thread[x].pc \in Makes => thread[x].bid \in Ids
    BY DEF IInv, Located, Makes
  <1>2. Owned'
    BY <1>1 DEF SameFiles, FilesInv, Owned
  <1>3. Written'
    BY <1>1 DEF SameFiles, FilesInv, Written, Makes
  <1>4. Kept'
    BY DEF SameFiles, FilesInv, Kept, Taken
  <1> QED BY <1>2, <1>3, <1>4 DEF FilesInv

LEMMA EnvironmentSame ==
    ASSUME IInv,
           \/ \E b \in Ids, v \in ProtectValues : SetBackupProtected(b, v)
           \/ \E b \in Ids : ExpiresAtPasses(b)
    PROVE  SameFiles /\ UNCHANGED <<errors, faults>>
  BY DEF SetBackupProtected, ExpiresAtPasses, SameFiles, IInv, TypeOK, Row

LEMMA FilesNext == IInv /\ FilesInv /\ [Next]_vars => FilesInv'
  <1> SUFFICES ASSUME IInv, FilesInv, [Next]_vars PROVE FilesInv'
    OBVIOUS
  <1>0. IInv'
    BY NextIInv
  <1>1. CASE UNCHANGED vars
    BY <1>1, FilesSame DEF vars, SameFiles
  <1>2. ASSUME NEW a \in Actors, Step(a) \/ Start(a) \/ Fault(a) PROVE FilesInv'
    BY <1>0, <1>2, FilesCreate, FilesTake, FilesQuiet, UnhandledCrash DEF Step, Fault, Quiet
  <1>3. CASE \/ \E b \in Ids, v \in ProtectValues : SetBackupProtected(b, v)
             \/ \E b \in Ids : ExpiresAtPasses(b)
    BY <1>3, EnvironmentSame, FilesSame
  <1> QED BY <1>1, <1>2, <1>3 DEF Next

LEMMA FilesImplies == IInv /\ FilesInv => CompletedHasFiles
  BY DEF FilesInv, Kept, Taken, CompletedHasFiles, WithStatus, At

LEMMA FilesInvariance == Spec => [](IInv /\ FilesInv)
  <1>1. Init => IInv /\ FilesInv
    BY InitIInv, FilesInit
  <1>2. IInv /\ FilesInv /\ [Next]_vars => (IInv /\ FilesInv)'
    BY NextIInv, FilesNext
  <1> QED BY <1>1, <1>2, PTL DEF Spec

\* A backup that says completed can be restored from: whoever removes a directory, a
\* creation that failed, a cleanup or a DELETE, in whatever order, where no step is lost.
THEOREM CompletedRestorable == Spec => []CompletedHasFiles
  BY FilesInvariance, FilesImplies, PTL

-----------------------------------------------------------------------------
\* DeletedNotRestored: a creation finds its row running until it says "completed" itself,
\* or deleted under its hands, which the row remembers.

InProgress ==
    \A a \in Actors : thread[a].pc \in {"produce", "commit"} => Hasty(thread[a].bid)

\* How a step of thread a may change a row: its status and hasty not at all, from unused,
\* as its creation, or by a deletion that remembers the row it found in progress.
StatusMoves(a) ==
    \A c \in Ids : \/ rows'[c].status = rows[c].status /\ rows'[c].hasty = rows[c].hasty
                   \/ rows[c].status = "unused"
                   \/ thread[a].pc \in Makes /\ thread[a].bid = c
                   \/ rows'[c].status = "deleted" /\ (Hasty(c) => rows'[c].hasty)

\* Hasty in the next state, of a row named by the next state.
HastyNext(b) == rows'[b].status = "running" \/ (rows'[b].status = "deleted" /\ rows'[b].hasty)

LEMMA ProgressStep ==
    ASSUME IInv, IInv', Owned, InProgress, NEW a \in Actors, NEW t \in Thread, Becomes(a, t), StatusMoves(a),
           t.pc \in {"produce", "commit"} => HastyNext(t.bid)
    PROVE  InProgress'
  <1>1. \A x \in Actors : thread'[x] = IF x = a THEN t ELSE thread[x]
    BY DEF IInv, TypeOK, Becomes
  <1>2. ASSUME NEW x \in Actors, x # a, thread[x].pc \in {"produce", "commit"}
        PROVE  Hasty(thread[x].bid)'
    <2>1. thread[x].bid \in Ids /\ Hasty(thread[x].bid)
      BY <1>2 DEF IInv, Located, InProgress
    <2>2. thread[a].pc \in Makes => thread[a].bid # thread[x].bid
      BY <1>2 DEF Owned, Makes
    <2>3. thread'[x].bid = thread[x].bid
      BY <1>1, <1>2
    <2> QED BY <2>1, <2>2, <2>3 DEF StatusMoves, Hasty
  <1> QED BY <1>1, <1>2 DEF InProgress, Hasty, HastyNext

\* Only a creation that has written its files says "completed".
Restores == \E b \in Ids : rows[b].status = "deleted" /\ ~rows[b].hasty /\ rows'[b].status = "completed"

LEMMA ProgressThread ==
    ASSUME IInv, IInv', Owned, InProgress, NEW a \in Actors, Step(a) \/ Start(a) \/ Fault(a)
    PROVE  InProgress' /\ ~Restores
  <1> USE DEF At
  <1>0. /\ thread[a] \in Thread /\ thread \in [Actors -> Thread] /\ rows \in [Ids -> Row]
        /\ thread[a].pc \in Makes \cup {"delete", "delmark"} => thread[a].bid \in Ids
        /\ thread[a].pc = "mark" => thread[a].cur \in Ids /\ rows[thread[a].cur].status # "running"
    BY DEF IInv, TypeOK, Located, TodoFinished, Makes
  <1> DEFINE t == thread'[a]
  <1>a. ASSUME NEW u, Becomes(a, u) PROVE t = u /\ Becomes(a, t)
    BY <1>0, <1>a DEF Becomes
  <1>b. t \in Thread
    BY DEF IInv, TypeOK
  \* Steps that leave the rows alone.
  <1>c. ASSUME UNCHANGED rows, Becomes(a, t), t.pc \notin {"produce", "commit"}
        PROVE  InProgress' /\ ~Restores
    <2>1. InProgress'
      <3> HIDE DEF t
      <3> QED BY <1>b, <1>c, ProgressStep DEF StatusMoves
    <2> QED BY <1>c, <2>1 DEF Restores
  <1>1. CASE Quiet(a)
    <2>1. Becomes(a, t) /\ UNCHANGED rows /\ t.pc \in Aside
      BY <1>1, QuietShape
    <2> HIDE DEF t
    <2> QED BY <1>c, <2>1 DEF Aside
  <1>2. CASE InsertRecord(a)
    <2>1. PICK b \in WithStatus("unused") :
              /\ rows' = [rows EXCEPT ![b] = NewRow(thread[a].hid, thread[a].trig)]
              /\ Becomes(a, [thread[a] EXCEPT !.pc = "produce", !.bid = b])
      BY <1>2 DEF InsertRecord
    <2>2. b \in Ids /\ rows[b].status = "unused"
      BY DEF WithStatus
    <2>3. t.pc = "produce" /\ t.bid = b /\ Becomes(a, t)
      <3>1. t = [thread[a] EXCEPT !.pc = "produce", !.bid = b] /\ Becomes(a, t)
        BY <1>a, <2>1
      <3> HIDE DEF t
      <3> QED BY <1>0, <3>1 DEF Thread
    <2>4. rows'[b].status = "running" /\ \A c \in Ids : c # b => rows'[c] = rows[c]
      BY <1>0, <2>1, <2>2 DEF NewRow
    <2>5. InProgress'
      <3> HIDE DEF t
      <3> QED BY <1>b, <2>2, <2>3, <2>4, ProgressStep DEF StatusMoves, HastyNext
    <2> QED BY <2>2, <2>4, <2>5 DEF Restores
  <1>3. CASE Produce(a)
    <2>1. t.pc = "commit" /\ t.bid = thread[a].bid /\ Becomes(a, t) /\ UNCHANGED rows
      BY <1>0, <1>3, <1>a DEF Produce, Goto, Thread
    <2>2. Hasty(thread[a].bid)
      BY <1>3 DEF Produce, InProgress
    <2>3. InProgress'
      <3> HIDE DEF t
      <3> QED BY <1>b, <2>1, <2>2, ProgressStep DEF StatusMoves, Hasty, HastyNext
    <2> QED BY <2>1, <2>3 DEF Restores
  <1>4. CASE UpdateCompleted(a)
    <2>1. t.pc \in {"idle", "retain"} /\ Becomes(a, t)
      BY <1>0, <1>4, <1>a, IdleType DEF UpdateCompleted, Goto, Thread
    <2>2. thread[a].bid \in Ids /\ Hasty(thread[a].bid) /\ thread[a].pc \in Makes
      BY <1>0, <1>4 DEF UpdateCompleted, InProgress, Makes
    <2>3. \A c \in Ids : c # thread[a].bid => rows'[c] = rows[c]
      BY <1>0, <1>4, <2>2 DEF UpdateCompleted, Row
    <2>4. InProgress'
      <3> HIDE DEF t
      <3> QED BY <1>b, <2>1, <2>2, <2>3, ProgressStep DEF StatusMoves
    <2> QED BY <2>2, <2>3, <2>4 DEF Restores, Hasty
  \* The UPDATEs of another status.
  <1>d. ASSUME NEW b \in Ids, rows'[b].status # "completed", \A c \in Ids : c # b => rows'[c] = rows[c],
               Becomes(a, t), t.pc \notin {"produce", "commit"},
               \/ thread[a].pc \in Makes /\ thread[a].bid = b
               \/ rows'[b].status = "deleted" /\ (Hasty(b) => rows'[b].hasty)
        PROVE  InProgress' /\ ~Restores
    <2>1. InProgress'
      <3> HIDE DEF t
      <3> QED BY <1>b, <1>d, ProgressStep DEF StatusMoves
    <2> QED BY <1>d, <2>1 DEF Restores
  <1>5. CASE UpdateFailed(a)
    <2>1. t.pc = "rmtree" /\ Becomes(a, t)
      BY <1>0, <1>5, <1>a DEF UpdateFailed, Goto, Thread
    <2>2. rows'[thread[a].bid].status = "failed" /\ \A c \in Ids : c # thread[a].bid => rows'[c] = rows[c]
      BY <1>0, <1>5 DEF UpdateFailed, SetStatus, Row, Makes
    <2> HIDE DEF t
    <2> QED BY <1>0, <1>5, <1>d, <2>1, <2>2 DEF UpdateFailed, Makes
  <1>6. CASE MarkDeleted(a)
    <2>1. t.pc = "clean" /\ Becomes(a, t)
      <3>1. t = [thread[a] EXCEPT !.pc = "clean", !.cur = NoId] /\ Becomes(a, t)
        BY <1>6, <1>a DEF MarkDeleted, BackToLoop
      <3> HIDE DEF t
      <3> QED BY <1>0, <3>1 DEF Thread
    <2>2. /\ rows'[thread[a].cur].status = "deleted" /\ rows'[thread[a].cur].hasty = rows[thread[a].cur].hasty
          /\ \A c \in Ids : c # thread[a].cur => rows'[c] = rows[c]
      BY <1>0, <1>6 DEF MarkDeleted, SetStatus, Row
    <2> HIDE DEF t
    <2> QED BY <1>0, <1>6, <1>d, <2>1, <2>2 DEF MarkDeleted, Hasty
  <1>7. CASE DeleteMark(a)
    <2>1. t.pc = "idle" /\ Becomes(a, t)
      BY <1>7, <1>a, IdleType DEF DeleteMark, Goto
    <2>2. /\ rows'[thread[a].bid].status = "deleted" /\ rows'[thread[a].bid].hasty = Hasty(thread[a].bid)
          /\ \A c \in Ids : c # thread[a].bid => rows'[c] = rows[c]
      BY <1>0, <1>7 DEF DeleteMark, Row
    <2> HIDE DEF t
    <2> QED BY <1>0, <1>7, <1>d, <2>1, <2>2 DEF DeleteMark
  <1>8. CASE RemoveFinalDir(a) \/ RaiseInBackup(a) \/ DeleteSelect(a)
    <2>1. t.pc \in {"idle", "fail", "delmark"} /\ Becomes(a, t) /\ UNCHANGED rows
      BY <1>0, <1>8, <1>a, IdleType DEF RemoveFinalDir, RaiseInBackup, DeleteSelect, Goto, Thread
    <2> HIDE DEF t
    <2> QED BY <1>c, <2>1
  <1>9. CASE DeleteFiles(a) \/ MarkRaises(a)
    <2>1. PICK b : \/ t = [thread[a] EXCEPT !.pc = "mark", !.cur = b, !.todo = thread[a].todo \ {b}]
                   \/ t = [thread[a] EXCEPT !.pc = "clean", !.cur = NoId]
      BY <1>9, <1>a DEF DeleteFiles, MarkRaises, BackToLoop
    <2>2. Becomes(a, t) /\ UNCHANGED rows
      BY <1>9, <1>a DEF DeleteFiles, MarkRaises, BackToLoop
    <2>3. t.pc \in {"mark", "clean"}
      <3> HIDE DEF t
      <3> QED BY <1>0, <2>1 DEF Thread
    <2> HIDE DEF t
    <2> QED BY <1>c, <2>2, <2>3
  <1> QED BY <1>1, <1>2, <1>3, <1>4, <1>5, <1>6, <1>7, <1>8, <1>9, UnhandledCrash DEF Step, Fault, Quiet

LEMMA ProgressNext ==
    ASSUME IInv, Owned, InProgress, [Next]_vars
    PROVE  InProgress' /\ ~Restores
  <1>0. IInv'
    BY NextIInv
  <1>1. ASSUME NEW a \in Actors, Step(a) \/ Start(a) \/ Fault(a) PROVE InProgress' /\ ~Restores
    BY <1>0, <1>1, ProgressThread
  <1>2. ASSUME UNCHANGED thread, \A b \in Ids : rows'[b].status = rows[b].status /\ rows'[b].hasty = rows[b].hasty
        PROVE  InProgress' /\ ~Restores
    <2>1. \A x \in Actors : thread[x].pc \in {"produce", "commit"} => thread[x].bid \in Ids
      BY DEF IInv, Located
    <2> QED BY <1>2, <2>1 DEF InProgress, Hasty, Restores
  <1>3. CASE UNCHANGED vars
    BY <1>2, <1>3 DEF vars
  <1>4. CASE \/ \E b \in Ids, v \in ProtectValues : SetBackupProtected(b, v)
             \/ \E b \in Ids : ExpiresAtPasses(b)
    BY <1>2, <1>4 DEF SetBackupProtected, ExpiresAtPasses, IInv, TypeOK, Row
  <1> QED BY <1>1, <1>3, <1>4 DEF Next

\* A deleted backup does not come back, whatever the creations, cleanups and deletions under
\* way and by whichever route clients delete, unless the deletion met the backup while it
\* was being made: that DELETE does not refuse, and the completion's UPDATE does not look.
THEOREM DeletedStaysDeleted == Spec => DeletedNotRestored
  <1>1. Init => InProgress
    BY IdleType DEF Init, InProgress
  <1>2. IInv /\ FilesInv /\ InProgress /\ [Next]_vars => InProgress'
    BY ProgressNext DEF FilesInv
  <1>3. IInv /\ FilesInv /\ InProgress /\ [Next]_vars =>
            [\A b \in Ids : (rows[b].status = "deleted" /\ ~rows[b].hasty) => rows'[b].status # "completed"]_vars
    BY ProgressNext DEF FilesInv, Restores
  <1> QED BY <1>1, <1>2, <1>3, FilesInvariance, PTL DEF Spec, DeletedNotRestored

-----------------------------------------------------------------------------
\* PayloadsMatch of the instance backups.  Besides the types: a creation has its payloads on
\* disk, unless it shares its second; a deletion removes files of its row's second only; and
\* every payload is owned by a creation, or by a row whose deletions still have it to remove.

MakerType == [pc : {"idle", "dump", "tar", "nothing", "record"}, at : Nat, got : SUBSET {"db", "files"}, wrong : BOOLEAN]
RemoverType == [todo : SUBSET Legacy!RowIds, cur : Legacy!RowIds \cup {0}, files : SUBSET (Nat \X {"db", "files"})]
BackupType == [status : {"unused", "completed", "partial", "failed", "gone"}, at : Nat,
               paths : SUBSET {"db", "files"}, stale : BOOLEAN]

LegacyTypes ==
    /\ backups \in [Legacy!RowIds -> BackupType]
    /\ maker \in [Makers -> MakerType]
    /\ remover \in [Removers -> RemoverType]
    /\ second \in Nat /\ breaks \in Nat

Named ==
    /\ \A m \in Makers : /\ maker[m].pc = "idle" => maker[m].got = {}
                         /\ (maker[m].pc = "record" /\ ~maker[m].wrong) => "files" \in maker[m].got
    /\ \A r \in Removers : /\ \A b \in remover[r].todo : backups[b].status # "unused"
                           /\ remover[r].cur # 0 => backups[remover[r].cur].status # "unused"
                           /\ \A f \in remover[r].files : /\ remover[r].cur # 0
                                                          /\ f[1] = backups[remover[r].cur].at

\* No row and no other creation has the second of creation m.
Alone(m) ==
    /\ \A c \in Legacy!RowIds : backups[c].status # "unused" => backups[c].at # maker[m].at
    /\ \A n \in Makers : (n # m /\ maker[n].pc # "idle") => maker[n].at # maker[m].at

\* Some deletion is at row b.
Going(b) == \E r \in Removers : remover[r].cur = b

Whole ==
    \A b \in Legacy!RowIds : (backups[b].status = "completed" /\ ~Legacy!Shares(b)) =>
        Going(b) \/ (backups[b].paths # {} /\ Legacy!NamedBy(b) \subseteq payloads)

MakerWhole == \A m \in Makers : (maker[m].pc # "idle" /\ Alone(m)) => Legacy!NamedByMaker(m) \subseteq payloads

Owner(b, f) ==
    /\ Legacy!Present(b) /\ f \in Legacy!NamedBy(b)
    /\ \A r \in Removers : remover[r].cur = b => f \in remover[r].files

EveryOwned ==
    \A f \in payloads : \/ \E m \in Makers : f \in Legacy!NamedByMaker(m)
                        \/ \E b \in Legacy!RowIds : Owner(b, f)

LegacyInv == LegacyTypes /\ Named /\ (breaks = 0 => Whole /\ MakerWhole /\ EveryOwned)

LEMMA LegacyInit == Legacy!InstanceInit => LegacyInv
  BY DEF Legacy!InstanceInit, Legacy!Unused, Legacy!Making, Legacy!NotRemoving, LegacyInv, LegacyTypes,
         MakerType, RemoverType, BackupType, Named, Whole, MakerWhole, EveryOwned, Legacy!NamedByMaker

LEMMA LegacyImplies == LegacyInv => PayloadsMatch
  <1> SUFFICES ASSUME LegacyInv, breaks = 0
               PROVE  /\ \A b \in Legacy!RowIds : (backups[b].status = "completed" /\ ~Legacy!Shares(b)) =>
                            \/ Legacy!Downloadable(b) /\ Legacy!Package(b) = Legacy!NamedBy(b)
                            \/ Going(b)
                      /\ \A f \in payloads :
                            \/ \E b \in Legacy!RowIds : Legacy!Present(b) /\ f \in Legacy!NamedBy(b)
                            \/ \E m \in Makers : f \in Legacy!NamedByMaker(m)
    BY DEF PayloadsMatch, Legacy!PayloadsMatch, Going
  <1>1. ASSUME NEW b \in Legacy!RowIds, backups[b].paths # {}, Legacy!NamedBy(b) \subseteq payloads
        PROVE  Legacy!Package(b) = Legacy!NamedBy(b) /\ Legacy!Package(b) # {}
    BY <1>1 DEF Legacy!Package, Legacy!NamedBy
  <1>2. \A f \in payloads : \/ \E b \in Legacy!RowIds : Legacy!Present(b) /\ f \in Legacy!NamedBy(b)
                            \/ \E m \in Makers : f \in Legacy!NamedByMaker(m)
    BY DEF LegacyInv, EveryOwned, Owner
  <1> QED BY <1>1, <1>2 DEF LegacyInv, Whole, Legacy!Downloadable

-----------------------------------------------------------------------------
\* Creations.

LEMMA BeginStep ==
    ASSUME LegacyInv, NEW a \in Makers, Legacy!BeginBackup(a)
    PROVE  LegacyInv'
  <1>1. PICK next \in {"dump", "tar", "nothing"} :
          maker' = [maker EXCEPT ![a] = [pc |-> next, at |-> second, got |-> {}, wrong |-> FALSE]]
    BY DEF Legacy!BeginBackup, Legacy!MakerGoes, Legacy!Found, Legacy!Making
  <1> DEFINE u == [pc |-> next, at |-> second, got |-> {}, wrong |-> FALSE]
  <1>2. /\ UNCHANGED <<backups, payloads, remover, second, breaks>>
        /\ maker[a].pc = "idle" /\ maker \in [Makers -> MakerType]
    BY DEF Legacy!BeginBackup, Legacy!MakerAt, LegacyInv, LegacyTypes
  <1>3. u \in MakerType /\ u.pc \notin {"idle", "record"} /\ u.got = {}
    BY DEF LegacyInv, LegacyTypes, MakerType
  <1>4. \A m \in Makers : maker'[m] = IF m = a THEN u ELSE maker[m]
    BY <1>1, <1>2
  <1> HIDE DEF u
  <1>5. LegacyTypes'
    BY <1>1, <1>2, <1>3 DEF LegacyInv, LegacyTypes, u
  <1>6. Named'
    BY <1>2, <1>3, <1>4 DEF LegacyInv, Named
  <1>7. ASSUME breaks' = 0, NEW b \in Legacy!RowIds, Legacy!Shares(b) PROVE Legacy!Shares(b)'
    BY <1>2, <1>4, <1>7 DEF Legacy!Shares, Legacy!MakerAt
  <1>8. Whole' \/ breaks' # 0
    BY <1>2, <1>7 DEF LegacyInv, Whole, Going, Legacy!NamedBy
  <1>9. \A m \in Makers : m # a => (Alone(m)' => Alone(m))
    BY <1>2, <1>4 DEF Alone
  <1>10. MakerWhole' \/ breaks' # 0
    BY <1>2, <1>3, <1>4, <1>9 DEF LegacyInv, MakerWhole, Legacy!NamedByMaker
  <1>11. \A m \in Makers : \A f : f \in Legacy!NamedByMaker(m) => m # a
    BY <1>2 DEF LegacyInv, Named, Legacy!NamedByMaker
  <1>12. EveryOwned' \/ breaks' # 0
    BY <1>2, <1>4, <1>11 DEF LegacyInv, EveryOwned, Owner, Legacy!NamedByMaker, Legacy!Present, Legacy!NamedBy
  <1> QED BY <1>5, <1>6, <1>8, <1>10, <1>12 DEF LegacyInv

LEMMA SavesStep ==
    ASSUME LegacyInv, NEW a \in Makers, NEW kind \in {"db", "files"}, NEW next \in {"tar", "record"},
           Legacy!Saves(a, kind, next), maker[a].pc \in {"dump", "tar"}, next = "record" => kind = "files",
           UNCHANGED <<backups, remover, second, breaks>>
    PROVE  LegacyInv'
  <1>1. PICK u \in {[maker[a] EXCEPT !.pc = next, !.got = maker[a].got \cup {kind}],
                    [maker[a] EXCEPT !.pc = next, !.wrong = TRUE]} :
          /\ maker' = [maker EXCEPT ![a] = u]
          /\ \/ u = [maker[a] EXCEPT !.pc = next, !.wrong = TRUE] /\ payloads' = payloads
             \/ /\ u = [maker[a] EXCEPT !.pc = next, !.got = maker[a].got \cup {kind}]
                /\ payloads' = payloads \cup {<<maker[a].at, kind>>}
    BY DEF Legacy!Saves, Legacy!MakerGoes
  <1>2. maker[a] \in MakerType /\ maker \in [Makers -> MakerType]
    BY DEF LegacyInv, LegacyTypes
  <1>3. /\ u \in MakerType /\ u.pc = next /\ u.at = maker[a].at
        /\ \/ u.wrong = TRUE /\ u.got = maker[a].got /\ payloads' = payloads
           \/ u.got = maker[a].got \cup {kind} /\ payloads' = payloads \cup {<<u.at, kind>>}
    <2>1. CASE u = [maker[a] EXCEPT !.pc = next, !.wrong = TRUE] /\ payloads' = payloads
      BY <1>2, <2>1 DEF MakerType
    <2>2. CASE /\ u = [maker[a] EXCEPT !.pc = next, !.got = maker[a].got \cup {kind}]
               /\ payloads' = payloads \cup {<<maker[a].at, kind>>}
      <3>1. maker[a].got \cup {kind} \in SUBSET {"db", "files"}
        BY <1>2 DEF MakerType
      <3> DEFINE g == maker[a].got \cup {kind}
      <3> HIDE DEF g
      <3>2. u = [maker[a] EXCEPT !.pc = next, !.got = g] /\ g \in SUBSET {"db", "files"}
        BY <2>2, <3>1 DEF g
      <3>3. u \in MakerType
        BY <1>2, <3>2, Zenon DEF MakerType
      <3>4. u.pc = next /\ u.at = maker[a].at /\ u.got = g
        BY <1>2, <3>2 DEF MakerType
      <3> QED BY <2>2, <3>3, <3>4 DEF g
    <2> QED BY <1>1, <2>1, <2>2
  <1>4. \A m \in Makers : maker'[m] = IF m = a THEN u ELSE maker[m]
    BY <1>1, <1>2
  <1>5. LegacyTypes'
    BY <1>1, <1>3 DEF LegacyInv, LegacyTypes
  <1>6. Named'
    BY <1>3, <1>4 DEF LegacyInv, Named
  <1>7. \A b \in Legacy!RowIds : Legacy!Shares(b)' <=> Legacy!Shares(b)
    BY <1>3, <1>4 DEF Legacy!Shares, Legacy!MakerAt
  <1>8. Whole' \/ breaks' # 0
    BY <1>3, <1>7 DEF LegacyInv, Whole, Going, Legacy!NamedBy
  <1>9. \A m \in Makers : Alone(m)' => Alone(m)
    BY <1>3, <1>4 DEF Alone
  <1>10. MakerWhole' \/ breaks' # 0
    BY <1>3, <1>4, <1>9 DEF LegacyInv, MakerWhole, Legacy!NamedByMaker
  <1>11. \A m \in Makers : Legacy!NamedByMaker(m) \subseteq Legacy!NamedByMaker(m)'
    BY <1>3, <1>4 DEF Legacy!NamedByMaker
  <1>12. \A f \in payloads' : f \in payloads \/ f \in Legacy!NamedByMaker(a)'
    BY <1>3, <1>4 DEF Legacy!NamedByMaker
  <1>13. \A b, f : Owner(b, f)' <=> Owner(b, f)
    BY DEF Owner, Legacy!Present, Legacy!NamedBy
  <1>14. EveryOwned' \/ breaks' # 0
    BY <1>11, <1>12, <1>13 DEF LegacyInv, EveryOwned
  <1> QED BY <1>5, <1>6, <1>8, <1>10, <1>14 DEF LegacyInv

LEMMA RecordStep ==
    ASSUME LegacyInv, NEW a \in Makers, Legacy!SaveBackupRecord(a)
    PROVE  LegacyInv'
  <1>1. PICK b \in Legacy!RowIds :
          /\ backups[b].status = "unused"
          /\ backups' = [backups EXCEPT ![b] = [status |-> Legacy!Outcome(maker[a]), at |-> maker[a].at,
                                                paths |-> maker[a].got, stale |-> FALSE]]
    BY DEF Legacy!SaveBackupRecord
  <1> DEFINE row == [status |-> Legacy!Outcome(maker[a]), at |-> maker[a].at,
                     paths |-> maker[a].got, stale |-> FALSE]
             u == Legacy!Making
  <1>2. /\ maker[a].pc \in {"record", "nothing"}
        /\ maker' = [maker EXCEPT ![a] = u] /\ UNCHANGED <<payloads, remover, second, breaks>>
        /\ maker[a] \in MakerType /\ maker \in [Makers -> MakerType]
    BY DEF Legacy!SaveBackupRecord, Legacy!MakerGoes, LegacyInv, LegacyTypes
  <1>3. u \in MakerType /\ u.pc = "idle" /\ u.got = {}
    BY DEF Legacy!Making, MakerType
  <1>4. /\ row \in BackupType /\ row.status \in {"completed", "partial", "failed"}
        /\ row.at = maker[a].at /\ row.paths = maker[a].got
        /\ row.status = "completed" => maker[a].pc = "record" /\ ~maker[a].wrong
    BY <1>2 DEF Legacy!Outcome, MakerType, BackupType
  <1> HIDE DEF row, u
  <1>5. /\ \A m \in Makers : maker'[m] = IF m = a THEN u ELSE maker[m]
        /\ \A c \in Legacy!RowIds : backups'[c] = IF c = b THEN row ELSE backups[c]
    BY <1>1, <1>2 DEF LegacyInv, LegacyTypes, row
  <1>6. LegacyTypes'
    BY <1>1, <1>2, <1>3, <1>4 DEF LegacyInv, LegacyTypes, row
  <1>7. \A r \in Removers : remover[r].cur \in Legacy!RowIds \cup {0} /\ remover[r].todo \subseteq Legacy!RowIds
    BY DEF LegacyInv, LegacyTypes, RemoverType
  <1>8. \A r \in Removers : remover[r].cur # b \/ b = 0
    BY <1>1 DEF LegacyInv, Named
  <1>9. b # 0
    BY BackupsAssumption DEF Legacy!RowIds
  <1>10. Named'
    BY <1>1, <1>2, <1>3, <1>4, <1>5, <1>7, <1>8 DEF LegacyInv, Named
  <1>11. ASSUME NEW c \in Legacy!RowIds, c # b, Legacy!Shares(c) PROVE Legacy!Shares(c)'
    BY <1>1, <1>2, <1>3, <1>4, <1>5, <1>11 DEF Legacy!Shares, Legacy!MakerAt
  <1>12. ASSUME ~Legacy!Shares(b)' PROVE Alone(a)
    BY <1>1, <1>2, <1>3, <1>4, <1>5, <1>12 DEF Legacy!Shares, Legacy!MakerAt, Alone
  <1>13. Whole' \/ breaks' # 0
    <2> SUFFICES ASSUME breaks = 0, NEW c \in Legacy!RowIds, backups'[c].status = "completed", ~Legacy!Shares(c)'
                 PROVE  Going(c)' \/ (backups'[c].paths # {} /\ Legacy!NamedBy(c)' \subseteq payloads')
      BY <1>2 DEF Whole
    <2>1. CASE c = b
      <3>1. Legacy!NamedByMaker(a) \subseteq payloads
        BY <1>2, <1>12, <2>1 DEF LegacyInv, MakerWhole
      <3>2. "files" \in maker[a].got
        BY <1>4, <1>5, <2>1 DEF LegacyInv, Named
      <3> QED BY <1>2, <1>4, <1>5, <2>1, <3>1, <3>2 DEF Legacy!NamedBy, Legacy!NamedByMaker
    <2>2. CASE c # b
      BY <1>2, <1>5, <1>11, <2>2 DEF LegacyInv, Whole, Going, Legacy!NamedBy
    <2> QED BY <2>1, <2>2
  <1>14. \A m \in Makers : (m # a /\ Alone(m)') => Alone(m)
    BY <1>1, <1>2, <1>4, <1>5 DEF Alone
  <1>15. MakerWhole' \/ breaks' # 0
    BY <1>2, <1>3, <1>5, <1>14 DEF LegacyInv, MakerWhole, Legacy!NamedByMaker
  <1>16. ASSUME NEW f \in Legacy!NamedByMaker(a) PROVE Owner(b, f)'
    BY <1>2, <1>4, <1>5, <1>8, <1>9 DEF Owner, Legacy!Present, Legacy!NamedBy, Legacy!NamedByMaker
  <1>17. ASSUME NEW c \in Legacy!RowIds, NEW f, Owner(c, f) PROVE Owner(c, f)'
    BY <1>1, <1>2, <1>5, <1>17 DEF Owner, Legacy!Present, Legacy!NamedBy
  <1>18. ASSUME NEW m \in Makers, m # a, NEW f \in Legacy!NamedByMaker(m) PROVE f \in Legacy!NamedByMaker(m)'
    BY <1>5, <1>18 DEF Legacy!NamedByMaker
  <1>19. EveryOwned' \/ breaks' # 0
    BY <1>2, <1>16, <1>17, <1>18 DEF LegacyInv, EveryOwned
  <1> QED BY <1>6, <1>10, <1>13, <1>15, <1>19 DEF LegacyInv

LEMMA MakerRaises ==
    ASSUME LegacyInv, NEW a \in Makers, Legacy!BackupRaises(a)
    PROVE  LegacyInv'
  <1>1. /\ maker' = [maker EXCEPT ![a] = Legacy!Making] /\ breaks' = breaks + 1
        /\ UNCHANGED <<backups, payloads, remover, second>>
    BY DEF Legacy!BackupRaises, Legacy!MakerGoes
  <1>2. Legacy!Making \in MakerType /\ Legacy!Making.pc = "idle" /\ Legacy!Making.got = {}
    BY DEF Legacy!Making, MakerType
  <1>3. LegacyTypes' /\ breaks' # 0
    BY <1>1, <1>2 DEF LegacyInv, LegacyTypes
  <1>4. Named'
    BY <1>1, <1>2 DEF LegacyInv, LegacyTypes, Named
  <1> QED BY <1>3, <1>4 DEF LegacyInv

-----------------------------------------------------------------------------
\* Deletions.

\* A deletion's next locals: the rows it has yet to visit, the row it is at, and the files
\* of that row it has yet to remove.
LEMMA RemoverMoves ==
    ASSUME LegacyInv, NEW a \in Removers, NEW r \in RemoverType,
           remover' = [remover EXCEPT ![a] = r], UNCHANGED <<backups, payloads, maker, second, breaks>>,
           \A b \in r.todo : backups[b].status # "unused",
           r.cur # 0 => backups[r.cur].status # "unused",
           \A f \in r.files : r.cur # 0 /\ f[1] = backups[r.cur].at,
           remover[a].cur = 0,
           r.cur # 0 => r.files = Legacy!NamedBy(r.cur)
    PROVE  LegacyInv'
  <1>1. \A x \in Removers : remover'[x] = IF x = a THEN r ELSE remover[x]
    BY DEF LegacyInv, LegacyTypes
  <1>2. LegacyTypes'
    BY DEF LegacyInv, LegacyTypes
  <1>3. Named'
    BY <1>1 DEF LegacyInv, Named
  <1>4. \A b \in Legacy!RowIds : /\ Legacy!Shares(b)' <=> Legacy!Shares(b)
                                 /\ b # 0 /\ (Going(b) => Going(b)')
    BY <1>1, BackupsAssumption DEF Legacy!Shares, Legacy!MakerAt, Going, Legacy!RowIds
  <1>5. Whole' \/ breaks' # 0
    BY <1>4 DEF LegacyInv, Whole, Legacy!NamedBy
  <1>6. MakerWhole' \/ breaks' # 0
    BY DEF LegacyInv, MakerWhole, Alone, Legacy!NamedByMaker
  <1>7. ASSUME NEW b \in Legacy!RowIds, NEW f, Owner(b, f) PROVE Owner(b, f)'
    BY <1>1, <1>4, <1>7 DEF Owner, Legacy!Present, Legacy!NamedBy
  <1>8. EveryOwned' \/ breaks' # 0
    BY <1>7 DEF LegacyInv, EveryOwned, Legacy!NamedByMaker
  <1> QED BY <1>2, <1>3, <1>5, <1>6, <1>8 DEF LegacyInv

LEMMA SelectStep ==
    ASSUME LegacyInv, NEW a \in Removers,
           Legacy!DeleteBackup(a) \/ Legacy!CleanupStaleBackups(a) \/ Legacy!NextRow(a)
    PROVE  LegacyInv'
  <1>0. /\ remover[a] \in RemoverType /\ backups \in [Legacy!RowIds -> BackupType]
        /\ Legacy!NotRemoving \in RemoverType /\ Legacy!NotRemoving.cur = 0 /\ Legacy!NotRemoving.files = {}
    BY DEF LegacyInv, LegacyTypes, Legacy!NotRemoving, RemoverType
  <1>1. ASSUME NEW S \in SUBSET Legacy!RowIds, \A b \in S : backups[b].status # "unused",
               remover' = [remover EXCEPT ![a] = [Legacy!NotRemoving EXCEPT !.todo = S]],
               Legacy!Free(a), UNCHANGED <<backups, payloads, maker, second, breaks>>
        PROVE  LegacyInv'
    <2> DEFINE r == [Legacy!NotRemoving EXCEPT !.todo = S]
    <2>1. r \in RemoverType /\ r.todo = S /\ r.cur = 0 /\ r.files = {}
      BY <1>0 DEF RemoverType
    <2>2. remover[a].cur = 0
      BY <1>0, <1>1 DEF Legacy!Free
    <2> HIDE DEF r
    <2> QED BY <1>1, <2>1, <2>2, RemoverMoves DEF r
  <1>2. CASE Legacy!DeleteBackup(a)
    <2>1. PICK b \in Legacy!RowIds :
            /\ Legacy!Present(b)
            /\ remover' = [remover EXCEPT ![a] = [Legacy!NotRemoving EXCEPT !.todo = {b}]]
      BY <1>2 DEF Legacy!DeleteBackup, Legacy!RemoverGoes, Legacy!DeletableByClient, Legacy!DeletableByAdmin
    <2>2. Legacy!Free(a) /\ UNCHANGED <<backups, payloads, maker, second, breaks>>
      BY <1>2 DEF Legacy!DeleteBackup
    <2>3. {b} \in SUBSET Legacy!RowIds /\ \A c \in {b} : backups[c].status # "unused"
      BY <2>1 DEF Legacy!Present
    <2> DEFINE S == {b}
    <2>4. remover' = [remover EXCEPT ![a] = [Legacy!NotRemoving EXCEPT !.todo = S]]
      BY <2>1
    <2>5. S \in SUBSET Legacy!RowIds /\ \A c \in S : backups[c].status # "unused"
      BY <2>3
    <2> HIDE DEF S
    <2> QED BY <1>1, <2>2, <2>4, <2>5
  <1>3. CASE Legacy!CleanupStaleBackups(a)
    <2>1. /\ remover' = [remover EXCEPT ![a] = [Legacy!NotRemoving EXCEPT !.todo = Legacy!Stale]]
          /\ Legacy!Free(a) /\ UNCHANGED <<backups, payloads, maker, second, breaks>>
      BY <1>3 DEF Legacy!CleanupStaleBackups, Legacy!RemoverGoes
    <2>2. Legacy!Stale \in SUBSET Legacy!RowIds /\ \A c \in Legacy!Stale : backups[c].status # "unused"
      BY DEF Legacy!Stale
    <2> QED BY <1>1, <2>1, <2>2
  <1>4. CASE Legacy!NextRow(a)
    <2>1. PICK b \in remover[a].todo :
            remover' = [remover EXCEPT ![a] = [todo |-> remover[a].todo \ {b}, cur |-> b, files |-> Legacy!NamedBy(b)]]
      BY <1>4 DEF Legacy!NextRow, Legacy!RemoverGoes
    <2> DEFINE r == [todo |-> remover[a].todo \ {b}, cur |-> b, files |-> Legacy!NamedBy(b)]
    <2>2. b \in Legacy!RowIds /\ remover[a].todo \subseteq Legacy!RowIds
      BY <1>0 DEF RemoverType
    <2>3. backups[b].at \in Nat /\ backups[b].paths \subseteq {"db", "files"}
      BY <1>0, <2>2 DEF BackupType
    <2>4. Legacy!NamedBy(b) \subseteq Nat \X {"db", "files"} /\ \A f \in Legacy!NamedBy(b) : f[1] = backups[b].at
      BY <2>3 DEF Legacy!NamedBy
    <2>5. r \in RemoverType /\ r.todo \subseteq remover[a].todo /\ r.cur = b /\ r.files = Legacy!NamedBy(b)
      BY <2>2, <2>4 DEF RemoverType
    <2>6. b # 0 /\ backups[b].status # "unused"
      BY <2>2, BackupsAssumption DEF LegacyInv, Named, Legacy!RowIds
    <2>7. remover[a].cur = 0 /\ UNCHANGED <<backups, payloads, maker, second, breaks>>
      BY <1>4 DEF Legacy!NextRow
    <2>8. \A c \in r.todo : backups[c].status # "unused"
      BY <2>5 DEF LegacyInv, Named
    <2> HIDE DEF r
    <2> QED BY <2>1, <2>4, <2>5, <2>6, <2>7, <2>8, RemoverMoves DEF r
  <1> QED BY <1>2, <1>3, <1>4

LEMMA RemoveFileStep ==
    ASSUME LegacyInv, NEW a \in Removers, Legacy!RemoveFile(a)
    PROVE  LegacyInv'
  <1>1. PICK f \in remover[a].files :
          /\ payloads' = payloads \ {f}
          /\ remover' = [remover EXCEPT ![a] = [remover[a] EXCEPT !.files = remover[a].files \ {f}]]
    BY DEF Legacy!RemoveFile, Legacy!RemoverGoes
  <1> DEFINE r == [remover[a] EXCEPT !.files = remover[a].files \ {f}]
             b == remover[a].cur
  <1>2. /\ UNCHANGED <<backups, maker, second, breaks>>
        /\ remover[a] \in RemoverType
        /\ b \in Legacy!RowIds /\ backups[b].status # "unused" /\ f[1] = backups[b].at
    BY DEF Legacy!RemoveFile, LegacyInv, LegacyTypes, Named, RemoverType
  <1>3. r \in RemoverType /\ r.todo = remover[a].todo /\ r.cur = b /\ r.files = remover[a].files \ {f}
    BY <1>2 DEF RemoverType
  <1> HIDE DEF r, b
  <1>4. \A x \in Removers : remover'[x] = IF x = a THEN r ELSE remover[x]
    BY <1>1 DEF LegacyInv, LegacyTypes, r
  <1>5. LegacyTypes'
    BY <1>1, <1>2, <1>3 DEF LegacyInv, LegacyTypes, r
  <1>6. Named'
    BY <1>2, <1>3, <1>4 DEF LegacyInv, Named, b
  <1>7. \A c \in Legacy!RowIds : /\ Legacy!Shares(c)' <=> Legacy!Shares(c)
                                 /\ Going(c)' <=> Going(c)
    BY <1>2, <1>3, <1>4 DEF Legacy!Shares, Legacy!MakerAt, Going, b
  <1>8. ASSUME NEW c \in Legacy!RowIds, ~Legacy!Shares(c), ~Going(c) PROVE f \notin Legacy!NamedBy(c)
    <2>1. c # b
      BY <1>8 DEF Going, b
    <2>2. backups[c].at # backups[b].at
      BY <1>2, <1>8, <2>1 DEF Legacy!Shares
    <2> QED BY <1>2, <2>2 DEF Legacy!NamedBy
  <1>9. Whole' \/ breaks' # 0
    BY <1>1, <1>2, <1>7, <1>8 DEF LegacyInv, Whole, Legacy!NamedBy
  <1>10. ASSUME NEW m \in Makers, Alone(m) PROVE f \notin Legacy!NamedByMaker(m)
    BY <1>2, <1>10 DEF Alone, Legacy!NamedByMaker
  <1>11. \A m \in Makers : Alone(m)' <=> Alone(m)
    BY <1>2 DEF Alone
  <1>12. MakerWhole' \/ breaks' # 0
    BY <1>1, <1>2, <1>10, <1>11 DEF LegacyInv, MakerWhole, Legacy!NamedByMaker
  <1>13. ASSUME NEW c \in Legacy!RowIds, NEW g, g # f, Owner(c, g) PROVE Owner(c, g)'
    BY <1>2, <1>3, <1>4, <1>13 DEF Owner, Legacy!Present, Legacy!NamedBy, b
  <1>14. EveryOwned' \/ breaks' # 0
    BY <1>1, <1>2, <1>13 DEF LegacyInv, EveryOwned, Legacy!NamedByMaker
  <1> QED BY <1>5, <1>6, <1>9, <1>12, <1>14 DEF LegacyInv

LEMMA DeleteRowStep ==
    ASSUME LegacyInv, NEW a \in Removers, Legacy!DeleteBackupRow(a)
    PROVE  LegacyInv'
  <1> DEFINE b == remover[a].cur
             row == [Legacy!Unused EXCEPT !.status = "gone", !.at = backups[b].at]
             r == [remover[a] EXCEPT !.cur = 0]
  <1>1. /\ backups' = [backups EXCEPT ![b] = row] /\ remover' = [remover EXCEPT ![a] = r]
        /\ UNCHANGED <<payloads, maker, second, breaks>>
        /\ b # 0 /\ remover[a].files = {}
    BY DEF Legacy!DeleteBackupRow, Legacy!RemoverGoes
  <1>2. /\ remover[a] \in RemoverType /\ backups \in [Legacy!RowIds -> BackupType]
        /\ b \in Legacy!RowIds /\ backups[b].status # "unused"
    BY <1>1 DEF LegacyInv, LegacyTypes, Named, RemoverType
  <1>3. /\ row \in BackupType /\ row.status = "gone" /\ row.at = backups[b].at
        /\ r \in RemoverType /\ r.todo = remover[a].todo /\ r.cur = 0 /\ r.files = {}
    BY <1>1, <1>2 DEF RemoverType, BackupType, Legacy!Unused
  <1> HIDE DEF row, r, b
  <1>4. /\ \A x \in Removers : remover'[x] = IF x = a THEN r ELSE remover[x]
        /\ \A c \in Legacy!RowIds : backups'[c] = IF c = b THEN row ELSE backups[c]
    BY <1>1, <1>2 DEF LegacyInv, LegacyTypes
  <1>5. LegacyTypes'
    BY <1>1, <1>2, <1>3 DEF LegacyInv, LegacyTypes
  <1>6. /\ \A c \in Legacy!RowIds : backups'[c].at = backups[c].at
        /\ \A c \in Legacy!RowIds : backups'[c].status # "unused" <=> backups[c].status # "unused"
    BY <1>2, <1>3, <1>4
  <1>7. \A x \in Removers : remover[x].cur \in Legacy!RowIds \cup {0} /\ remover[x].todo \subseteq Legacy!RowIds
    BY DEF LegacyInv, LegacyTypes, RemoverType
  <1>8. Named'
    BY <1>1, <1>3, <1>4, <1>6, <1>7 DEF LegacyInv, Named
  <1>9. \A c \in Legacy!RowIds : /\ Legacy!Shares(c)' <=> Legacy!Shares(c)
                                 /\ (c # b /\ Going(c)) => Going(c)'
    BY <1>1, <1>4, <1>6 DEF Legacy!Shares, Legacy!MakerAt, Going, b
  <1>10. Whole' \/ breaks' # 0
    BY <1>1, <1>3, <1>4, <1>9 DEF LegacyInv, Whole, Legacy!NamedBy
  <1>11. \A m \in Makers : Alone(m)' <=> Alone(m)
    BY <1>1, <1>6 DEF Alone
  <1>12. MakerWhole' \/ breaks' # 0
    BY <1>1, <1>11 DEF LegacyInv, MakerWhole, Legacy!NamedByMaker
  <1>13. ASSUME NEW c \in Legacy!RowIds, NEW g, Owner(c, g) PROVE Owner(c, g)'
    <2>1. c # b
      BY <1>1, <1>13 DEF Owner, b
    <2>2. c # 0
      BY BackupsAssumption DEF Legacy!RowIds
    <2> QED BY <1>3, <1>4, <1>13, <2>1, <2>2 DEF Owner, Legacy!Present, Legacy!NamedBy
  <1>14. EveryOwned' \/ breaks' # 0
    BY <1>1, <1>13 DEF LegacyInv, EveryOwned, Legacy!NamedByMaker
  <1> QED BY <1>5, <1>8, <1>10, <1>12, <1>14 DEF LegacyInv

LEMMA RemoverRaises ==
    ASSUME LegacyInv, NEW a \in Removers, Legacy!RemovalRaises(a)
    PROVE  LegacyInv'
  <1> DEFINE r == [remover[a] EXCEPT !.cur = 0, !.files = {}]
  <1>1. /\ remover' = [remover EXCEPT ![a] = r] /\ breaks' = breaks + 1
        /\ UNCHANGED <<backups, payloads, maker, second>>
    BY DEF Legacy!RemovalRaises, Legacy!RemoverGoes
  <1>2. r \in RemoverType /\ r.todo = remover[a].todo /\ r.cur = 0 /\ r.files = {}
    BY DEF LegacyInv, LegacyTypes, RemoverType
  <1> HIDE DEF r
  <1>3. LegacyTypes' /\ breaks' # 0
    BY <1>1, <1>2 DEF LegacyInv, LegacyTypes
  <1>4. \A x \in Removers : remover'[x] = IF x = a THEN r ELSE remover[x]
    BY <1>1 DEF LegacyInv, LegacyTypes
  <1>5. Named'
    BY <1>1, <1>2, <1>4 DEF LegacyInv, Named
  <1> QED BY <1>3, <1>5 DEF LegacyInv

\* A row grows old, a second passes, or nothing happens.
LEMMA LegacySame ==
    ASSUME LegacyInv, UNCHANGED <<payloads, maker, remover, breaks>>, second' \in Nat,
           \/ UNCHANGED backups
           \/ \E b \in Legacy!RowIds : backups' = [backups EXCEPT ![b].stale = TRUE]
    PROVE  LegacyInv'
  <1>1. /\ backups' \in [Legacy!RowIds -> BackupType]
        /\ \A c \in Legacy!RowIds : /\ backups'[c].status = backups[c].status
                                    /\ backups'[c].at = backups[c].at /\ backups'[c].paths = backups[c].paths
    <2>1. CASE UNCHANGED backups
      BY <2>1 DEF LegacyInv, LegacyTypes
    <2>2. ASSUME NEW b \in Legacy!RowIds, backups' = [backups EXCEPT ![b].stale = TRUE]
          PROVE  <1>1!:
      <3> DEFINE row == [backups[b] EXCEPT !.stale = TRUE]
      <3>1. backups[b] \in BackupType /\ backups \in [Legacy!RowIds -> BackupType]
        BY DEF LegacyInv, LegacyTypes
      <3>2. row \in BackupType
        BY <3>1, Zenon DEF BackupType
      <3>3. row.status = backups[b].status /\ row.at = backups[b].at /\ row.paths = backups[b].paths
        BY <3>1 DEF BackupType
      <3>4. backups' = [backups EXCEPT ![b] = row]
        BY <2>2
      <3> HIDE DEF row
      <3> QED BY <3>1, <3>2, <3>3, <3>4
    <2> QED BY <2>1, <2>2
  <1>2. LegacyTypes'
    BY <1>1 DEF LegacyInv, LegacyTypes
  <1>3. \A r \in Removers : remover[r].cur \in Legacy!RowIds \cup {0} /\ remover[r].todo \subseteq Legacy!RowIds
    BY DEF LegacyInv, LegacyTypes, RemoverType
  <1>4. Named'
    BY <1>1, <1>3 DEF LegacyInv, Named
  <1>5. Whole' \/ breaks' # 0
    BY <1>1 DEF LegacyInv, Whole, Going, Legacy!Shares, Legacy!MakerAt, Legacy!NamedBy
  <1>6. MakerWhole' \/ breaks' # 0
    BY <1>1 DEF LegacyInv, MakerWhole, Alone, Legacy!NamedByMaker
  <1>7. EveryOwned' \/ breaks' # 0
    BY <1>1 DEF LegacyInv, EveryOwned, Owner, Legacy!Present, Legacy!NamedBy, Legacy!NamedByMaker
  <1> QED BY <1>2, <1>4, <1>5, <1>6, <1>7 DEF LegacyInv

LEMMA LegacyNext == LegacyInv /\ (Legacy!InstanceNext \/ UNCHANGED ivars) => LegacyInv'
  <1> SUFFICES ASSUME LegacyInv, Legacy!InstanceNext \/ UNCHANGED ivars PROVE LegacyInv'
    OBVIOUS
  <1>1. CASE Legacy!Tick \/ UNCHANGED ivars
    BY <1>1, LegacySame DEF Legacy!Tick, ivars, LegacyInv, LegacyTypes
  <1>2. ASSUME NEW b \in Legacy!RowIds, Legacy!Ages(b) PROVE LegacyInv'
    BY <1>2, LegacySame DEF Legacy!Ages, LegacyInv, LegacyTypes
  <1>3. ASSUME NEW a \in Makers, \/ Legacy!BeginBackup(a) \/ Legacy!DumpDatabase(a) \/ Legacy!ArchiveFiles(a)
                                 \/ Legacy!SaveBackupRecord(a) \/ Legacy!BackupRaises(a)
        PROVE  LegacyInv'
    BY <1>3, BeginStep, SavesStep, RecordStep, MakerRaises
       DEF Legacy!DumpDatabase, Legacy!ArchiveFiles, Legacy!MakerAt
  <1>4. ASSUME NEW a \in Removers, \/ Legacy!DeleteBackup(a) \/ Legacy!CleanupStaleBackups(a) \/ Legacy!NextRow(a)
                                   \/ Legacy!RemoveFile(a) \/ Legacy!DeleteBackupRow(a) \/ Legacy!RemovalRaises(a)
        PROVE  LegacyInv'
    BY <1>4, SelectStep, RemoveFileStep, DeleteRowStep, RemoverRaises
  <1> QED BY <1>1, <1>2, <1>3, <1>4 DEF Legacy!InstanceNext

-----------------------------------------------------------------------------
\* Backups: what its worlds do to the tenant backups is a step of TenantBackup, or a job's
\* lost policy lookup.

JobLoses == Lose /\ UNCHANGED <<rows, disk, thread, errors>>

bvars == <<vars, pvars, ivars, job, world>>

LEMMA WorldsMove ==
    ASSUME [BackupsNext]_bvars
    PROVE  [Next]_vars \/ JobLoses
  <1>1. CASE UNCHANGED bvars
    BY <1>1 DEF bvars
  <1>2. CASE PolicyWorld
    <2>1. ASSUME NEW a \in Schedulers, JobCreates(a) PROVE [Next]_vars
      <3>1. CASE UNCHANGED vars
        BY <3>1
      <3>2. ASSUME NEW h, CheckNoRunning(a, h, "schedule") PROVE Next
        <4>1. h \in Hostings
          BY <3>2, ConstantsAssumption DEF CheckNoRunning, Entitled
        <4>2. BackupTenantsJob(a)
          BY <3>2, <4>1 DEF BackupTenantsJob
        <4> QED BY <4>2 DEF Next, Start, Actors
      <3> QED BY <2>1, <3>1, <3>2 DEF JobCreates
    <2>2. ASSUME NEW a \in Schedulers, Step(a) \/ Crash(a) PROVE Next
      BY <2>2 DEF Next, Fault, Actors
    <2>3. ASSUME NEW a \in Schedulers, JobAskRaises(a) PROVE JobLoses
      BY <2>3 DEF JobAskRaises, JobLoses
    <2> QED BY <1>2, <2>1, <2>2, <2>3 DEF PolicyWorld, JobAsks
  <1> QED BY <1>1, <1>2 DEF BackupsNext, bvars

\* A lost lookup moves nothing but the count of faults.
LEMMA LostLookup ==
    ASSUME IInv, FilesInv, JobLoses
    PROVE  IInv' /\ FilesInv' /\ (InProgress => InProgress')
  <1>1. faults' \in 0..MaxFaults /\ faults' # 0
    BY ConstantsAssumption DEF JobLoses, Lose, IInv, TypeOK
  <1>2. IInv'
    BY <1>1 DEF JobLoses, IInv, TypeOK, Located, TodoFinished
  <1>3. FilesInv'
    BY <1>1, FilesSame DEF JobLoses, SameFiles
  <1>4. InProgress => InProgress'
    BY DEF JobLoses, InProgress, Hasty
  <1> QED BY <1>2, <1>3, <1>4

LEMMA BackupsInvariance == BackupsSpec => [](IInv /\ FilesInv)
  <1>1. BackupsInit => IInv /\ FilesInv
    BY InitIInv, FilesInit DEF BackupsInit
  <1>2. IInv /\ FilesInv /\ [BackupsNext]_bvars => (IInv /\ FilesInv)'
    BY WorldsMove, LostLookup, NextIInv, FilesNext
  <1> QED BY <1>1, <1>2, PTL DEF BackupsSpec, bvars

\* Under policies that change while jobs run as well, no cleanup ever holds a backup in
\* progress, and a backup that says completed has its files.
THEOREM BackupsSafe == BackupsSpec => []RunningUntouched /\ []CompletedHasFiles
  <1>1. IInv /\ FilesInv => RunningUntouched /\ CompletedHasFiles
    BY IInvImplies, FilesImplies
  <1> QED BY <1>1, BackupsInvariance, PTL

\* And a deleted backup stays deleted, unless it was deleted while it was being made.
THEOREM BackupsStayDeleted == BackupsSpec => DeletedNotRestored
  <1>1. BackupsInit => InProgress
    BY IdleType DEF BackupsInit, Init, InProgress
  <1>2. IInv /\ FilesInv /\ InProgress /\ [BackupsNext]_bvars => InProgress' /\ ~Restores
    <2> SUFFICES ASSUME IInv, FilesInv, InProgress, [BackupsNext]_bvars PROVE InProgress' /\ ~Restores
      OBVIOUS
    <2>1. CASE JobLoses
      BY <2>1, LostLookup DEF JobLoses, Restores
    <2>2. CASE [Next]_vars
      BY <2>2, ProgressNext DEF FilesInv
    <2> QED BY <2>1, <2>2, WorldsMove
  <1>3. IInv /\ FilesInv /\ InProgress /\ [BackupsNext]_bvars =>
            [\A b \in Ids : (rows[b].status = "deleted" /\ ~rows[b].hasty) => rows'[b].status # "completed"]_vars
    BY <1>2 DEF Restores
  <1> QED BY <1>1, <1>2, <1>3, BackupsInvariance, PTL DEF BackupsSpec, bvars, DeletedNotRestored

\* The rows of instance backups and their payload files match, however creations, deletions
\* and the cleanup of stale rows interleave, where none of their steps fails.
THEOREM InstancePayloads == BackupsSpec => []PayloadsMatch
  <1>1. BackupsInit => LegacyInv
    BY LegacyInit DEF BackupsInit
  <1>2. LegacyInv /\ [BackupsNext]_bvars => LegacyInv'
    BY LegacyNext DEF BackupsNext, bvars
  <1> QED BY <1>1, <1>2, LegacyImplies, PTL DEF BackupsSpec, bvars

-----------------------------------------------------------------------------
\* PauseHeld: while a job runs it knows every tenant that was ever unpaused, and those it
\* found eligible are among them.

Job == [pc : {"idle", "ask"}, ask : SUBSET Hostings, eligible : SUBSET Hostings, open : SUBSET Hostings]

JobsInv ==
    /\ job \in [Schedulers -> Job]
    /\ world # "policy" => job = [a \in Schedulers |-> NoJob]
    /\ faults = 0 => \A a \in Schedulers :
         job[a].pc # "idle" => job[a].eligible \subseteq job[a].open /\ Unpaused \subseteq job[a].open

\* A step of a thread moves its own locals only, and is no fault.
LEMMA OwnStep ==
    ASSUME NEW a, Step(a) \/ Crash(a)
    PROVE  /\ ~At(a, "idle") /\ \E t : Becomes(a, t)
           /\ UNCHANGED faults \/ Lose
  <1>1. CASE \/ InsertRecord(a) \/ Produce(a) \/ UpdateCompleted(a) \/ RetainSelect(a)
             \/ UpdateFailed(a) \/ RemoveFinalDir(a)
    <2>1. ~At(a, "idle") /\ UNCHANGED faults
      BY <1>1 DEF InsertRecord, Produce, UpdateCompleted, RetainSelect, UpdateFailed, RemoveFinalDir, At
    <2>2. \E t : Becomes(a, t)
      BY <1>1, Zenon DEF InsertRecord, Produce, UpdateCompleted, RetainSelect, UpdateFailed,
                         RemoveFinalDir, CleanThen, Goto
    <2> QED BY <2>1, <2>2
  <1>2. CASE \/ DeleteFiles(a) \/ MarkDeleted(a) \/ CleanDone(a)
             \/ DeleteProtected(a) \/ DeleteSelect(a) \/ DeleteMark(a)
    <2>1. ~At(a, "idle") /\ UNCHANGED faults
      BY <1>2 DEF DeleteFiles, MarkDeleted, CleanDone, DeleteProtected, DeleteSelect, DeleteMark, At
    <2>2. \E t : Becomes(a, t)
      BY <1>2, Zenon DEF DeleteFiles, MarkDeleted, CleanDone, BackToLoop, DeleteProtected,
                         DeleteSelect, DeleteMark, Goto
    <2> QED BY <2>1, <2>2
  <1>3. CASE \/ RetentionMulti(a) \/ RetentionBids(a) \/ RetentionPrevious(a)
             \/ RetentionManualHostings(a) \/ RetentionManual(a) \/ RetentionEnds(a)
    <2>1. ~At(a, "idle") /\ UNCHANGED faults
      BY <1>3 DEF RetentionMulti, RetentionBids, RetentionPrevious, RetentionManualHostings,
                  RetentionManual, RetentionEnds, At
    <2>2. \E t : Becomes(a, t)
      <3>1. CASE RetentionBids(a)
        <4>1. PICK h \in thread[a].work : \E t : Becomes(a, t)
          BY <3>1, Zenon DEF RetentionBids
        <4> QED BY <4>1
      <3>2. CASE ~RetentionBids(a)
        BY <1>3, <3>2, Zenon DEF RetentionMulti, RetentionPrevious, RetentionManualHostings,
                                 RetentionManual, RetentionEnds, CleanThen, Goto
      <3> QED BY <3>1, <3>2
    <2> QED BY <2>1, <2>2
  <1>4. CASE Crash(a)
    <2>1. \E t : Becomes(a, t)
      BY <1>4, Zenon DEF Crash, Goto
    <2> QED BY <1>4, <2>1 DEF Crash
  <1> QED BY <1>1, <1>2, <1>3, <1>4 DEF Step

LEMMA JobsInit == BackupsInit => JobsInv
  BY DEF BackupsInit, JobsInv, NoJob, Job

\* Where the policies do not change, the tenants not paused are the same.
LEMMA UnpausedSame ==
    ASSUME UNCHANGED policy
    PROVE  Unpaused' = Unpaused
  BY DEF Unpaused, Policies!Effective, Policies!PlanDefaults

\* One job moves to j, which is idle or knows what a job must know.
LEMMA JobMoves ==
    ASSUME JobsInv, UNCHANGED policy, world = "policy", UNCHANGED world,
           NEW a \in Schedulers, NEW j \in Job, job' = [job EXCEPT ![a] = j],
           faults' = 0 => faults = 0,
           (faults' = 0 /\ j.pc # "idle") => j.eligible \subseteq j.open /\ Unpaused \subseteq j.open
    PROVE  JobsInv'
  <1>1. \A b \in Schedulers : job'[b] = IF b = a THEN j ELSE job[b]
    BY DEF JobsInv
  <1>2. job' \in [Schedulers -> Job]
    BY DEF JobsInv
  <1>3. faults' = 0 => \A b \in Schedulers :
          job'[b].pc # "idle" => job'[b].eligible \subseteq job'[b].open /\ Unpaused' \subseteq job'[b].open
    BY <1>1, UnpausedSame DEF JobsInv
  <1> QED BY <1>2, <1>3 DEF JobsInv

LEMMA JobsDecide ==
    ASSUME JobsInv, UNCHANGED policy, world = "policy", UNCHANGED world, faults \in Nat,
           NEW a \in Schedulers, JobAsks(a) \/ JobAskRaises(a)
    PROVE  JobsInv'
  <1>1. PICK h \in job[a].ask, yes \in BOOLEAN :
          Decided(a, h, yes) /\ (faults' = 0 => faults = 0 /\ (yes => Eligible(h)))
    <2>1. CASE JobAsks(a)
      <3>1. PICK h \in job[a].ask : Decided(a, h, Eligible(h)) /\ UNCHANGED faults
        BY <2>1 DEF JobAsks, vars
      <3> QED BY <3>1 DEF Decided
    <2>2. CASE JobAskRaises(a)
      <3>1. PICK h \in job[a].ask : Decided(a, h, h \in Automatic)
        BY <2>2 DEF JobAskRaises
      <3>2. faults' # 0
        BY <2>2 DEF JobAskRaises, Lose
      <3> QED BY <3>1, <3>2 DEF Decided
    <2> QED BY <2>1, <2>2
  <1> DEFINE j == [job[a] EXCEPT !.ask = job[a].ask \ {h},
                                 !.eligible = IF yes THEN job[a].eligible \cup {h} ELSE job[a].eligible]
  <1>2. job[a] \in Job /\ h \in Hostings
    BY DEF JobsInv, Job
  <1>3. j \in Job /\ j.pc = job[a].pc /\ j.open = job[a].open
        /\ j.eligible = IF yes THEN job[a].eligible \cup {h} ELSE job[a].eligible
    BY <1>2 DEF Job
  <1>4. job' = [job EXCEPT ![a] = j]
    BY <1>1 DEF Decided, JobsInv
  <1>5. ASSUME faults' = 0, j.pc # "idle"
        PROVE  j.eligible \subseteq j.open /\ Unpaused \subseteq j.open
    <2>1. yes => h \in Unpaused
      BY <1>1, <1>2, <1>5 DEF Eligible, Unpaused
    <2> QED BY <1>1, <1>3, <1>5, <2>1 DEF JobsInv
  <1> HIDE DEF j
  <1> QED BY <1>1, <1>3, <1>4, <1>5, JobMoves

LEMMA JobsPolicy ==
    ASSUME JobsInv, world = "policy", UNCHANGED world, UNCHANGED faults,
           NEW a \in Editors, PolicyStep(a)
    PROVE  JobsInv'
  <1> DEFINE after(b) == IF job[b].pc = "idle" THEN job[b]
                         ELSE [job[b] EXCEPT !.open = job[b].open \cup Unpaused']
  <1>1. job' = [b \in Schedulers |-> after(b)]
    BY DEF PolicyStep
  <1>2. Unpaused' \subseteq Hostings
    BY DEF Unpaused
  <1>3. ASSUME NEW b \in Schedulers
        PROVE  /\ after(b) \in Job
               /\ after(b).pc = job[b].pc /\ after(b).eligible = job[b].eligible
               /\ job[b].pc # "idle" => after(b).open = job[b].open \cup Unpaused'
    BY <1>2 DEF JobsInv, Job
  <1> HIDE DEF after
  <1>4. job' \in [Schedulers -> Job]
    BY <1>1, <1>3
  <1>5. faults' = 0 => \A b \in Schedulers :
          job'[b].pc # "idle" => job'[b].eligible \subseteq job'[b].open /\ Unpaused' \subseteq job'[b].open
    BY <1>1, <1>3 DEF JobsInv
  <1> QED BY <1>4, <1>5 DEF JobsInv

LEMMA JobsNext == IInv /\ JobsInv /\ [BackupsNext]_bvars => JobsInv'
  <1> SUFFICES ASSUME IInv, JobsInv, [BackupsNext]_bvars PROVE JobsInv'
    OBVIOUS
  <1>0. faults \in Nat
    BY DEF IInv, TypeOK
  <1>1. CASE UNCHANGED bvars
    BY <1>1, UnpausedSame DEF bvars, vars, pvars, JobsInv
  <1>2. CASE world # "policy" /\ UNCHANGED <<world, job>>
    <2>1. \A a \in Schedulers : job'[a].pc = "idle"
      BY <1>2 DEF JobsInv, NoJob
    <2> QED BY <1>2, <2>1 DEF JobsInv
  <1>3. CASE world = "policy" /\ UNCHANGED world /\ PolicyWorld
    <2>1. ASSUME NEW a \in Editors, PolicyStep(a), UNCHANGED vars PROVE JobsInv'
      BY <1>3, <2>1, JobsPolicy DEF vars
    <2>2. ASSUME UNCHANGED pvars, NEW a \in Schedulers, JobAsks(a) \/ JobAskRaises(a) PROVE JobsInv'
      BY <1>0, <1>3, <2>2, JobsDecide DEF pvars
    <2>3. ASSUME UNCHANGED pvars, NEW a \in Schedulers, JobStarts(a) \/ JobEnds(a), UNCHANGED vars
          PROVE  JobsInv'
      <3> DEFINE j == [pc |-> "ask", ask |-> Hostings, eligible |-> {}, open |-> Unpaused]
      <3>1. j \in Job /\ NoJob \in Job /\ NoJob.pc = "idle"
        BY DEF Job, NoJob, Unpaused
      <3>2. j.eligible = {} /\ j.open = Unpaused
        OBVIOUS
      <3>3. job' = [job EXCEPT ![a] = j] \/ job' = [job EXCEPT ![a] = NoJob]
        BY <2>3 DEF JobStarts, JobEnds
      <3> HIDE DEF j
      <3> QED BY <1>3, <2>3, <3>1, <3>2, <3>3, JobMoves DEF pvars, vars
    <2>4. ASSUME UNCHANGED pvars, NEW a \in Schedulers, JobCreates(a) PROVE JobsInv'
      <3>1. PICK h \in job[a].eligible : job' = [job EXCEPT ![a].eligible = job[a].eligible \ {h}]
        BY <2>4 DEF JobCreates
      <3>2. UNCHANGED faults
        BY <2>4 DEF JobCreates, CheckNoRunning, vars
      <3> DEFINE j == [job[a] EXCEPT !.eligible = job[a].eligible \ {h}]
      <3>3. /\ j \in Job /\ j.pc = job[a].pc /\ j.open = job[a].open
            /\ j.eligible = job[a].eligible \ {h}
        BY DEF JobsInv, Job
      <3>4. job' = [job EXCEPT ![a] = j]
        BY <3>1 DEF JobsInv
      <3> HIDE DEF j
      <3>5. (faults' = 0 /\ j.pc # "idle") => j.eligible \subseteq j.open /\ Unpaused \subseteq j.open
        BY <3>2, <3>3 DEF JobsInv
      <3> QED BY <1>3, <2>4, <3>2, <3>3, <3>4, <3>5, JobMoves DEF pvars
    <2>5. ASSUME UNCHANGED pvars, NEW a \in Schedulers, Step(a) \/ Crash(a), UNCHANGED job PROVE JobsInv'
      <3>1. faults' = 0 => faults = 0
        BY <1>0, <2>5, OwnStep DEF Lose
      <3> QED BY <1>3, <2>5, <3>1, UnpausedSame DEF JobsInv, pvars
    <2> QED BY <1>3, <2>1, <2>2, <2>3, <2>4, <2>5 DEF PolicyWorld
  <1> QED BY <1>1, <1>2, <1>3 DEF BackupsNext

\* The thread of a job begins a backup only in JobCreates.
LEMMA JobInserts ==
    ASSUME IInv, JobsInv, [BackupsNext]_bvars, faults = 0,
           NEW a \in Schedulers, job[a].pc # "idle", At(a, "idle"), thread'[a].pc = "insert"
    PROVE  thread'[a].hid \in job[a].open
  <1>1. a \in Actors /\ thread \in [Actors -> Thread]
    BY DEF Actors, IInv, TypeOK
  <1>2. world = "policy" /\ thread'[a] # thread[a]
    BY DEF JobsInv, NoJob, At
  <1>3. PICK b \in Schedulers : JobCreates(b) \/ Step(b) \/ Crash(b)
    BY <1>2 DEF BackupsNext, bvars, vars, PolicyWorld, JobAsks, JobAskRaises
  <1>4. b = a
    <2>1. PICK t : Becomes(b, t)
      BY <1>2, <1>3, OwnStep DEF JobCreates, CheckNoRunning, vars
    <2> QED BY <1>1, <1>2, <2>1 DEF Becomes
  <1>5. JobCreates(a)
    BY <1>3, <1>4, OwnStep
  <1>6. PICK h \in job[a].eligible : CheckNoRunning(a, h, "schedule")
    BY <1>2, <1>5 DEF JobCreates, vars
  <1>7. thread'[a].hid = h
    BY <1>1, <1>6 DEF CheckNoRunning, Becomes, Idle
  <1> QED BY <1>6, <1>7 DEF JobsInv

\* A pause is respected: a tenant whose backups stayed paused for the whole of a daily job
\* gets no backup from it, however policies change while the job asks and works, where no
\* lookup fails.
THEOREM PauseRespected == BackupsSpec => PauseHeld
  <1>1. IInv /\ JobsInv /\ [BackupsNext]_bvars =>
          [faults = 0 => \A a \in Schedulers :
             (job[a].pc # "idle" /\ At(a, "idle") /\ thread'[a].pc = "insert") =>
                thread'[a].hid \in job[a].open]_bvars
    BY JobInserts
  <1> QED BY <1>1, JobsInit, JobsNext, BackupsInvariance, PTL DEF BackupsSpec, bvars, PauseHeld
=============================================================================
