------------------------ MODULE HostingCreation_proofs ------------------------
(***************************************************************************)
(* Type correctness of HostingCreation, that an untouched hosting has its  *)
(* containers, and that a user who asks for one site at a time keeps to    *)
(* the limit of the plan and to one trial, for any number of users and     *)
(* requests, whatever fails.                                               *)
(*                                                                         *)
(* The checks are read long before the row is inserted.  IInv says what    *)
(* keeps them true until then: the row of a request comes last (Unborn,    *)
(* Started), the job and the gate never meet (Young, Dropped), and the     *)
(* user's other requests have ended (OneAtATime), so that the number of    *)
(* rows the check saw can only have become smaller (Checked).              *)
(*                                                                         *)
(* The last part is Routes: container and route file of a deleted hosting  *)
(* stay gone, apart from what its deletion has missed (Gone, lost), and    *)
(* the files of custom domains are what their rows say, of rows where      *)
(* nothing overlapped (Orderly).                                           *)
(***************************************************************************)
EXTENDS HostingCreation, Routes, FiniteSetTheorems, TLAPS

\* A request whose row does not exist yet, or never will.
NotYet == {"new", "db", "web", "rollback", "probe", "insert", "refused", "failed"} \cup Checks

Unborn(r) ==
    req[r] \in NotYet =>
        /\ row[r].status = "none" /\ row[r].age = "young"
        /\ removal[r].pc = "none"
        /\ r \notin job.todo /\ job.cur # r

\* While a request is being answered its row is as new.
Young(r) ==
    req[r] \notin Ended => row[r].status \in {"none", "active"} /\ row[r].age = "young"

\* What the expiration job holds has expired.
Dropped(r) ==
    r \in job.todo \/ job.cur = r => row[r].status \in {"none", "expired", "deleted"}

\* The containers are there before the row is.
Started(r) ==
    /\ req[r] = "web" /\ Kind[r] = "wordpress" => r \in db
    /\ req[r] \in {"probe", "insert"} => Whole(r)
    /\ req[r] = "probe" => Kind[r] = "git"

\* RowBacked of one request.
Backed(r) ==
    /\ row[r].status \notin {"none", "expired", "deleted"}
    /\ removal[r].pc = "none"
    /\ req[r] # "undone"
    => Whole(r)

Kept(r) == Unborn(r) /\ Young(r) /\ Dropped(r) /\ Started(r) /\ Backed(r)

BInv == TypeOK /\ \A r \in Requests : Kept(r)

OneAtATime ==
    \A r, o \in Requests :
        Owner[r] \in Patient /\ Owner[o] = Owner[r] /\ InProgress(r) /\ InProgress(o) => r = o

PastLimit == {"db", "web", "rollback", "probe", "insert"}
PastTrial == {"limit"} \cup PastLimit

TrialUser(r) == Owner[r] \in Patient \ Paying /\ IsFree(r)

TrialChecked ==
    \A r \in Requests :
        TrialUser(r) /\ req[r] \in PastTrial => RecentFree(Owner[r]) = {}

LimitChecked ==
    \A r \in Requests :
        Owner[r] \in Patient /\ req[r] \in PastLimit => BelowLimit(Owner[r])

IInv == BInv /\ OneAtATime /\ TrialChecked /\ LimitChecked /\ OneTrial /\ LimitKept

-----------------------------------------------------------------------------
\* Types

LEMMA Constants ==
  /\ IsFiniteSet(Requests) /\ Nothing \notin Requests
  /\ \A r \in Requests : Owner[r] \in Users /\ Kind[r] \in {"static", "wordpress", "git"}
  /\ \A u \in Users : MaxSites[u] \in Nat
  /\ MaxFaults \in Nat
  BY CreationAssumption

\* Values that the actions write into a row.
LEMMA RowType ==
  /\ NoRow \in Row /\ NewRow \in Row
  /\ \A x \in Row :
        /\ \A s \in Statuses : [x EXCEPT !.status = s] \in Row
        /\ [x EXCEPT !.age = IF @ = "young" THEN "over14" ELSE "over30"] \in Row
  BY DEF NoRow, NewRow, Row, Statuses

LEMMA AfterType ==
  \A r \in Requests : \A c \in Checks : After(r, c) \in PC /\ After(r, c) \notin Ended
  BY DEF After, Checks, PC, Ended

\* Init and every action keep the types.
LEMMA TypeInit == Init => TypeOK
  BY Constants, RowType DEF Init, TypeOK, PC, Removal

\* The statuses the provisioning gate writes.
Verdicts == {"active_with_placeholder", "routing_degraded", "provisioning_failed"}

LEMMA GateRow ==
  ASSUME NEW r \in Requests, Gate(r)
  PROVE  \/ row' = row
         \/ row[r].status # "none" /\ \E s \in Verdicts : row' = [row EXCEPT ![r].status = s]
<1>1. CASE row' = IF row[r].status = "none" THEN row
                  ELSE [row EXCEPT ![r].status =
                          IF r \in web THEN "active_with_placeholder" ELSE "provisioning_failed"]
  <2>1. CASE row[r].status = "none"
    BY <1>1, <2>1
  <2>2. CASE row[r].status # "none" /\ r \in web
    <3>1. row' = [row EXCEPT ![r].status = "active_with_placeholder"]
      BY <1>1, <2>2
    <3>2. QED
      BY <2>2, <3>1 DEF Verdicts
  <2>3. CASE row[r].status # "none" /\ r \notin web
    <3>1. row' = [row EXCEPT ![r].status = "provisioning_failed"]
      BY <1>1, <2>3
    <3>2. QED
      BY <2>3, <3>1 DEF Verdicts
  <2>4. QED
    BY <2>1, <2>2, <2>3
<1>2. CASE row' \in {row} \cup {[row EXCEPT ![r].status = s] :
                        s \in IF row[r].status = "none" THEN {}
                              ELSE {"routing_degraded", "provisioning_failed"}}
  BY <1>2 DEF Verdicts
<1>3. QED
  BY <1>1, <1>2 DEF Gate

LEMMA TypeCreate ==
  ASSUME TypeOK, NEW r \in Requests, Create(r)
  PROVE  TypeOK'
<1> USE DEF TypeOK, Goto, Fault, PC, Ended, Checks
<1>1. CASE Begin(r)
  BY <1>1 DEF Begin
<1>2. CASE Check(r)
  BY <1>2, AfterType DEF Check
<1>3. CASE RunDb(r)
  BY <1>3, Constants DEF RunDb
<1>4. CASE RunWeb(r)
  BY <1>4, Constants DEF RunWeb
<1>5. CASE Rollback(r)
  BY <1>5, Constants DEF Rollback
<1>6. CASE Probe(r)
  BY <1>6 DEF Probe
<1>7. CASE Insert(r)
  BY <1>7, Constants, RowType DEF Insert
<1>8. CASE Gate(r)
  <2>1. row' \in [Requests -> Row]
    <3>1. CASE row' = row
      BY <3>1
    <3>2. CASE \E s \in Verdicts : row' = [row EXCEPT ![r].status = s]
      <4>1. PICK s \in Verdicts : row' = [row EXCEPT ![r].status = s]
        BY <3>2
      <4>2. s \in Statuses /\ row[r] \in Row
        BY DEF Verdicts, Statuses
      <4>3. [row[r] EXCEPT !.status = s] \in Row
        BY <4>2, RowType
      <4>4. QED
        BY <4>1, <4>3
    <3>3. QED
      BY <1>8, GateRow, <3>1, <3>2
  <2>2. /\ req' \in [Requests -> PC] /\ faults' \in 0..MaxFaults
        /\ UNCHANGED <<web, db, removal, job>>
    BY <1>8, Constants DEF Gate
  <2>3. QED
    BY <2>1, <2>2
<1>9. CASE Poll(r)
  BY <1>9 DEF Poll
<1>10. CASE Cleanup(r)
  BY <1>10, Constants DEF Cleanup
<1>11. QED
  BY <1>1, <1>2, <1>3, <1>4, <1>5, <1>6, <1>7, <1>8, <1>9, <1>10 DEF Create

LEMMA TypeDelete ==
  ASSUME TypeOK, NEW r \in Requests, Delete(r)
  PROVE  TypeOK'
<1> USE DEF TypeOK, Proceed, Fault, Removal
<1>1. CASE \E who \in {"client", "admin"} : DeleteStart(r, who)
  BY <1>1 DEF DeleteStart
<1>2. CASE DeleteWeb(r)
  BY <1>2, Constants DEF DeleteWeb
<1>3. CASE DeleteDb(r)
  BY <1>3, Constants DEF DeleteDb
<1>4. CASE DeleteVerify(r)
  BY <1>4, Constants DEF DeleteVerify
<1>5. CASE DeleteRow(r)
  BY <1>5, RowType DEF DeleteRow
<1>6. QED
  BY <1>1, <1>2, <1>3, <1>4, <1>5 DEF Delete

LEMMA TypeLater ==
  ASSUME TypeOK, NEW r \in Requests, Age(r) \/ Expire(r) \/ CleanRemove(r) \/ Purge(r)
  PROVE  TypeOK'
<1> USE DEF TypeOK, Fault
<1>1. CASE Age(r)
  BY <1>1, RowType DEF Age
<1>2. CASE Expire(r)
  BY <1>2, RowType DEF Expire, Statuses
<1>3. CASE CleanRemove(r)
  <2>1. job.todo \ {r} \in SUBSET Requests
    OBVIOUS
  <2>2. PICK c \in {r, Nothing} : job' = [todo |-> job.todo \ {r}, cur |-> c]
    BY <1>3 DEF CleanRemove
  <2>3. job' \in [todo: SUBSET Requests, cur: Requests \cup {Nothing}]
    BY <2>1, <2>2
  <2>4. /\ web' \subseteq Requests /\ faults' \in 0..MaxFaults
        /\ UNCHANGED <<req, row, db, removal>>
    BY <1>3, Constants DEF CleanRemove
  <2>5. QED
    BY <2>3, <2>4
<1>4. CASE Purge(r)
  BY <1>4, RowType DEF Purge
<1>5. QED
  BY <1>1, <1>2, <1>3, <1>4

LEMMA TypeJob ==
  ASSUME TypeOK, CleanBatch \/ CleanMark
  PROVE  TypeOK'
<1>1. CASE CleanBatch
  BY <1>1 DEF CleanBatch, TypeOK
<1>2. CASE CleanMark
  BY <1>2, RowType DEF CleanMark, TypeOK, Statuses
<1>3. QED
  BY <1>1, <1>2

LEMMA TypeNext == TypeOK /\ [Next]_vars => TypeOK'
<1> SUFFICES ASSUME TypeOK, [Next]_vars PROVE TypeOK'
  OBVIOUS
<1>1. CASE UNCHANGED vars
  BY <1>1 DEF vars, TypeOK
<1>2. QED
  BY <1>1, TypeCreate, TypeDelete, TypeLater, TypeJob DEF Next

\* Every variable keeps its type.
THEOREM CreationTypeCorrect == Spec => []TypeOK
<1>1. QED
  BY TypeInit, TypeNext, PTL DEF Spec

-----------------------------------------------------------------------------
\* Rows and their containers

LEMMA KeptInit == Init => \A r \in Requests : Kept(r)
  BY Constants DEF Init, Kept, Unborn, NotYet, NoRow, Young, Dropped, Started, Backed

\* What a step of another request leaves of this one: nothing of it changes.
Untouched(o) ==
    /\ req'[o] = req[o] /\ row'[o] = row[o] /\ removal'[o] = removal[o]
    /\ (o \in web') = (o \in web) /\ (o \in db') = (o \in db)
    /\ (o \in job'.todo) = (o \in job.todo) /\ (job'.cur = o) = (job.cur = o)

LEMMA Others ==
  ASSUME TypeOK, NEW r \in Requests, NEW o \in Requests \ {r},
         Create(r) \/ Delete(r) \/ Age(r) \/ Expire(r) \/ Purge(r)
  PROVE  Untouched(o)
<1> USE DEF TypeOK, Untouched, Goto, Proceed
<1>1. CASE Begin(r) \/ Check(r) \/ Probe(r) \/ Poll(r)
  BY <1>1 DEF Begin, Check, Probe, Poll
<1>2. CASE RunDb(r) \/ RunWeb(r) \/ Rollback(r) \/ Cleanup(r)
  BY <1>2 DEF RunDb, RunWeb, Rollback, Cleanup
<1>3. CASE Insert(r)
  BY <1>3 DEF Insert
<1>4. CASE Gate(r)
  BY <1>4 DEF Gate
<1>5. CASE Delete(r)
  BY <1>5 DEF Delete, DeleteStart, DeleteWeb, DeleteDb, DeleteVerify, DeleteRow
<1>6. CASE Age(r) \/ Expire(r) \/ Purge(r)
  BY <1>6 DEF Age, Expire, Purge
<1>7. QED
  BY <1>1, <1>2, <1>3, <1>4, <1>5, <1>6 DEF Create

LEMMA KeptOthers ==
  ASSUME NEW o \in Requests, Untouched(o), Kept(o)
  PROVE  Kept(o)'
  BY DEF Untouched, Kept, Unborn, Young, Dropped, Started, Backed, Whole

LEMMA KeptCreate ==
  ASSUME TypeOK, NEW r \in Requests, Kept(r), Create(r)
  PROVE  Kept(r)'
<1> USE Constants DEF TypeOK, Kept, Unborn, NotYet, Young, Dropped, Started, Backed, Whole,
                      Goto, Ended, Checks, Removal
<1>1. CASE Begin(r)
  BY <1>1 DEF Begin
<1>2. CASE Check(r)
  <2>1. req' = [req EXCEPT ![r] = "refused"] \/ req' = [req EXCEPT ![r] = After(r, req[r])]
    BY <1>2 DEF Check
  <2>2. /\ After(r, req[r]) \in {"cap", "trial", "limit", "db", "web"}
        /\ After(r, req[r]) = "web" => Kind[r] # "wordpress"
    BY <1>2 DEF Check, After
  <2>3. req'[r] \in {"refused", "cap", "trial", "limit", "db", "web"}
        /\ (req'[r] = "web" => Kind[r] # "wordpress")
    BY <2>1, <2>2
  <2>4. QED
    BY <1>2, <2>3 DEF Check
<1>3. CASE RunDb(r)
  BY <1>3 DEF RunDb
<1>4. CASE RunWeb(r)
  BY <1>4 DEF RunWeb
<1>5. CASE Rollback(r)
  BY <1>5 DEF Rollback
<1>6. CASE Probe(r)
  BY <1>6 DEF Probe
<1>7. CASE Insert(r)
  <2>1. CASE UNCHANGED row
    BY <1>7, <2>1 DEF Insert
  <2>2. CASE row' = [row EXCEPT ![r] = NewRow]
    BY <1>7, <2>2 DEF Insert, NewRow
  <2>3. QED
    BY <1>7, <2>1, <2>2 DEF Insert
<1>8. CASE Gate(r)
  <2>1. req[r] = "gate" /\ req'[r] = "done" /\ UNCHANGED <<web, db, removal, job>>
    BY <1>8 DEF Gate
  <2>2. CASE row' = row
    BY <2>1, <2>2
  <2>3. CASE row[r].status # "none" /\ \E s \in Verdicts : row' = [row EXCEPT ![r].status = s]
    <3>1. row'[r].status \in Verdicts /\ row[r].status = "active"
      BY <2>1, <2>3 DEF Row
    <3>2. QED
      BY <2>1, <3>1 DEF Verdicts
  <2>4. QED
    BY <1>8, GateRow, <2>2, <2>3
<1>9. CASE Poll(r)
  BY <1>9 DEF Poll
<1>10. CASE Cleanup(r)
  BY <1>10 DEF Cleanup
<1>11. QED
  BY <1>1, <1>2, <1>3, <1>4, <1>5, <1>6, <1>7, <1>8, <1>9, <1>10 DEF Create

LEMMA KeptDelete ==
  ASSUME TypeOK, NEW r \in Requests, Kept(r), Delete(r)
  PROVE  Kept(r)'
<1> USE DEF TypeOK, Kept, Unborn, Young, Dropped, Started, Backed, Whole, At, Proceed, Removal
<1>1. CASE \E who \in {"client", "admin"} : DeleteStart(r, who)
  BY <1>1 DEF DeleteStart
<1>2. CASE DeleteWeb(r)
  BY <1>2 DEF DeleteWeb, NotYet
<1>3. CASE DeleteDb(r)
  BY <1>3 DEF DeleteDb, NotYet
<1>4. CASE DeleteVerify(r)
  BY <1>4 DEF DeleteVerify
<1>5. CASE DeleteRow(r)
  BY <1>5 DEF DeleteRow, NoRow
<1>6. QED
  BY <1>1, <1>2, <1>3, <1>4, <1>5 DEF Delete

LEMMA KeptLater ==
  ASSUME TypeOK, NEW r \in Requests, Kept(r), Age(r) \/ Expire(r) \/ Purge(r)
  PROVE  Kept(r)'
<1> USE DEF TypeOK, Kept, Unborn, Young, Dropped, Started, Backed, Whole, Row, Ended
<1>1. CASE Age(r)
  BY <1>1 DEF Age, NotYet, Checks
<1>2. CASE Expire(r)
  BY <1>2 DEF Expire
<1>3. CASE Purge(r)
  BY <1>3 DEF Purge, NoRow
<1>4. QED
  BY <1>1, <1>2, <1>3

\* The job may touch any row.
LEMMA KeptJob ==
  ASSUME TypeOK, NEW o \in Requests, Kept(o),
         CleanBatch \/ CleanMark \/ \E r \in Requests : CleanRemove(r)
  PROVE  Kept(o)'
<1> USE Constants DEF TypeOK, Kept, Unborn, Young, Dropped, Started, Backed, Whole
<1>1. CASE CleanBatch
  BY <1>1 DEF CleanBatch
<1>2. CASE CleanMark
  <2>1. row' = row \/ row' = [row EXCEPT ![job.cur].status = "deleted"]
    BY <1>2 DEF CleanMark
  <2>2. QED
    BY <1>2, <2>1 DEF CleanMark, Row
<1>3. CASE \E r \in Requests : CleanRemove(r)
  <2>1. PICK r \in Requests : CleanRemove(r)
    BY <1>3
  <2>2. /\ o \in job'.todo \/ job'.cur = o => o \in job.todo \/ job.cur = o
        /\ (o \in web') = (o \in web) \/ (o = r /\ o \in job.todo)
        /\ UNCHANGED <<req, row, db, removal>>
    BY <2>1 DEF CleanRemove
  <2>3. QED
    BY <2>2 DEF NotYet
<1>4. QED
  BY <1>1, <1>2, <1>3

LEMMA BInvInit == Init => BInv
  BY TypeInit, KeptInit DEF BInv

LEMMA BInvNext == BInv /\ [Next]_vars => BInv'
<1> SUFFICES ASSUME BInv, [Next]_vars PROVE BInv'
  OBVIOUS
<1>1. TypeOK'
  BY TypeNext DEF BInv
<1>2. ASSUME NEW o \in Requests PROVE Kept(o)'
  <2>1. TypeOK /\ Kept(o)
    BY DEF BInv
  <2>2. CASE UNCHANGED vars
    BY <2>1, <2>2 DEF vars, Kept, Unborn, Young, Dropped, Started, Backed, Whole
  <2>3. ASSUME NEW r \in Requests, Create(r) \/ Delete(r) \/ Age(r) \/ Expire(r) \/ Purge(r)
        PROVE  Kept(o)'
    <3>1. CASE r = o
      BY <2>1, <2>3, <3>1, KeptCreate, KeptDelete, KeptLater
    <3>2. CASE r # o
      <4>1. Untouched(o)
        BY <2>1, <2>3, <3>2, Others
      <4>2. QED
        BY <2>1, <4>1, KeptOthers
    <3>3. QED
      BY <3>1, <3>2
  <2>4. CASE CleanBatch \/ CleanMark \/ \E r \in Requests : CleanRemove(r)
    BY <2>1, <2>4, KeptJob
  <2>5. QED
    BY <2>2, <2>3, <2>4 DEF Next
<1>3. QED
  BY <1>1, <1>2 DEF BInv

\* An untouched hosting has its containers.
THEOREM CreationRowBacked == Spec => []RowBacked
<1>1. BInv => RowBacked
  BY DEF BInv, Kept, Backed, RowBacked, At
<1>2. QED
  BY BInvInit, BInvNext, <1>1, PTL DEF Spec

-----------------------------------------------------------------------------
\* Limits

\* A row that is not inserted only moves towards being forgotten.
Smaller(o) ==
    /\ row'[o].status # "none" =>
          row[o].status # "none" /\ (row[o].age = "over30" => row'[o].age = "over30")
    /\ row'[o].status \notin {"none", "deleted"} => row[o].status \notin {"none", "deleted"}

Inserted(r) ==
    /\ req[r] = "insert" /\ req' = [req EXCEPT ![r] = req'[r]]
    /\ req'[r] \in {"gate", "done", "poll", "cleanup"}
    /\ row' = [row EXCEPT ![r] = NewRow]

LEMMA Unchanged ==
  ASSUME NEW o \in Requests, row'[o] = row[o]
  PROVE  Smaller(o)
  BY DEF Smaller

LEMMA SmallerOwn ==
  ASSUME TypeOK, NEW r \in Requests, Kept(r),
         Gate(r) \/ DeleteRow(r) \/ Age(r) \/ Expire(r) \/ Purge(r)
  PROVE  Smaller(r)
<1> USE DEF TypeOK, Smaller, Row
<1>1. CASE Gate(r)
  <2>1. row[r].status \in {"none", "active"}
    BY <1>1 DEF Gate, Kept, Young, Ended
  <2>2. QED
    BY <1>1, <2>1, GateRow DEF Verdicts
<1>2. CASE DeleteRow(r) \/ Purge(r)
  BY <1>2 DEF DeleteRow, Purge, NoRow
<1>3. CASE Age(r)
  BY <1>3 DEF Age
<1>4. CASE Expire(r)
  BY <1>4 DEF Expire
<1>5. QED
  BY <1>1, <1>2, <1>3, <1>4

LEMMA InsertOwn ==
  ASSUME TypeOK, NEW r \in Requests, Insert(r)
  PROVE  row' = row \/ Inserted(r)
  BY Constants DEF Insert, Inserted, Goto, TypeOK

LEMMA SmallerStep ==
  ASSUME BInv, [Next]_vars
  PROVE  (\A o \in Requests : Smaller(o)) \/ \E r \in Requests : Inserted(r)
<1> USE DEF BInv
<1>1. CASE UNCHANGED vars
  BY <1>1, Unchanged DEF vars
<1>2. ASSUME NEW r \in Requests, Create(r) \/ Delete(r) \/ Age(r) \/ Expire(r) \/ Purge(r)
      PROVE  (\A o \in Requests : Smaller(o)) \/ Inserted(r)
  <2>1. \A o \in Requests \ {r} : Smaller(o)
    BY <1>2, Others, Unchanged DEF Untouched
  <2>2. Smaller(r) \/ Inserted(r)
    <3>1. CASE Gate(r) \/ DeleteRow(r) \/ Age(r) \/ Expire(r) \/ Purge(r)
      BY <3>1, SmallerOwn
    <3>2. CASE Insert(r)
      BY <3>2, InsertOwn, Unchanged
    <3>3. CASE Begin(r) \/ Check(r) \/ RunDb(r) \/ RunWeb(r) \/ Rollback(r) \/ Probe(r)
               \/ Poll(r) \/ Cleanup(r)
      <4>1. row' = row
        BY <3>3 DEF Begin, Check, RunDb, RunWeb, Rollback, Probe, Poll, Cleanup
      <4>2. QED
        BY <4>1, Unchanged
    <3>4. CASE Delete(r) /\ ~DeleteRow(r)
      <4>1. row' = row
        BY <3>4 DEF Delete, DeleteStart, DeleteWeb, DeleteDb, DeleteVerify
      <4>2. QED
        BY <4>1, Unchanged
    <3>5. QED
      BY <1>2, <3>1, <3>2, <3>3, <3>4 DEF Create
  <2>3. QED
    BY <2>1, <2>2
<1>3. CASE CleanBatch \/ \E r \in Requests : CleanRemove(r)
  <2>1. row' = row
    BY <1>3 DEF CleanBatch, CleanRemove
  <2>2. QED
    BY <2>1, Unchanged
<1>4. CASE CleanMark
  BY <1>4 DEF CleanMark, TypeOK, Smaller, Row
<1>5. QED
  BY <1>1, <1>2, <1>3, <1>4 DEF Next

\* How a request gets past the checks.
LEMMA ReqStep ==
  ASSUME BInv, [Next]_vars, NEW r \in Requests
  PROVE  /\ InProgress(r)' => InProgress(r) \/ Begin(r)
         /\ req'[r] \in PastTrial =>
               req[r] \in PastTrial \/ (req[r] = "trial" /\ Passes(r, "trial"))
         /\ req'[r] \in PastLimit =>
               req[r] \in PastLimit \/ (req[r] = "limit" /\ Passes(r, "limit"))
<1> USE DEF BInv, TypeOK, InProgress, PastTrial, PastLimit, Ended
<1>1. CASE req'[r] = req[r]
  BY <1>1
<1>2. CASE Create(r)
  <2> USE DEF Goto
  <2>1. CASE Begin(r)
    BY <2>1 DEF Begin
  <2>2. CASE Check(r)
    <3>1. req'[r] = IF Passes(r, req[r]) THEN After(r, req[r]) ELSE "refused"
      BY <2>2 DEF Check
    <3>2. /\ req[r] = "ip" => After(r, req[r]) = "cap"
          /\ req[r] = "cap" => After(r, req[r]) = "trial"
          /\ req[r] = "trial" => After(r, req[r]) = "limit"
          /\ req[r] \in {"ip", "cap", "trial", "limit"}
      BY <2>2 DEF After, Check, Checks
    <3>3. QED
      BY <3>1, <3>2
  <2>3. CASE RunDb(r) \/ RunWeb(r) \/ Rollback(r) \/ Probe(r) \/ Poll(r) \/ Cleanup(r)
    BY <2>3 DEF RunDb, RunWeb, Rollback, Probe, Poll, Cleanup
  <2>4. CASE Insert(r) \/ Gate(r)
    BY <2>4, Constants DEF Insert, Gate
  <2>5. QED
    BY <1>2, <2>1, <2>2, <2>3, <2>4 DEF Create
<1>3. ASSUME NEW o \in Requests, Create(o) \/ Delete(o) \/ Age(o) \/ Expire(o) \/ Purge(o)
      PROVE  req'[r] = req[r] \/ Create(r)
  <2>1. CASE o # r
    BY <1>3, <2>1, Others DEF Untouched
  <2>2. CASE o = r
    BY <1>3, <2>2 DEF Delete, DeleteStart, DeleteWeb, DeleteDb, DeleteVerify, DeleteRow,
                      Age, Expire, Purge
  <2>3. QED
    BY <2>1, <2>2
<1>4. CASE UNCHANGED vars \/ CleanBatch \/ CleanMark \/ \E o \in Requests : CleanRemove(o)
  <2>1. req' = req
    BY <1>4 DEF vars, CleanBatch, CleanMark, CleanRemove
  <2>2. QED
    BY <1>1, <2>1
<1>5. QED
  BY <1>1, <1>2, <1>3, <1>4 DEF Next

\* Only the request itself begins; the user's others have ended by then.
LEMMA AloneStep ==
  ASSUME BInv, OneAtATime, [Next]_vars
  PROVE  OneAtATime'
<1> SUFFICES ASSUME NEW r \in Requests, NEW o \in Requests, Owner[r] \in Patient,
                    Owner[o] = Owner[r], InProgress(r)', InProgress(o)', r # o
             PROVE  FALSE
  BY DEF OneAtATime
<1>1. ~(InProgress(r) /\ InProgress(o))
  BY DEF OneAtATime
<1>2. ASSUME NEW i \in Requests, NEW j \in Requests, i # j, Owner[i] = Owner[j],
             Owner[i] \in Patient, Begin(i), InProgress(j)'
      PROVE  FALSE
  <2>1. ~InProgress(j)
    BY <1>2 DEF Begin
  <2>2. req'[j] = req[j]
    BY <1>2 DEF Begin, Goto, BInv, TypeOK
  <2>3. QED
    BY <1>2, <2>1, <2>2 DEF InProgress
<1>3. (InProgress(r) \/ Begin(r)) /\ (InProgress(o) \/ Begin(o))
  BY ReqStep
<1>4. QED
  BY <1>1, <1>2, <1>3

\* While a patient user's request is past a check, none of the user's rows is inserted but its own.
LEMMA NoOtherInsert ==
  ASSUME BInv, OneAtATime, NEW r \in Requests, NEW i \in Requests, Inserted(i),
         Owner[r] \in Patient, Owner[i] = Owner[r], req'[r] \in PastTrial
  PROVE  FALSE
<1>1. r # i
  BY DEF Inserted, PastTrial, PastLimit
<1>2. req'[r] = req[r]
  BY <1>1 DEF Inserted, BInv, TypeOK
<1>3. InProgress(r) /\ InProgress(i)
  BY <1>2 DEF InProgress, Inserted, PastTrial, PastLimit, Ended
<1>4. QED
  BY <1>1, <1>3 DEF OneAtATime

LEMMA InsertedElsewhere ==
  ASSUME BInv, NEW i \in Requests, Inserted(i), NEW o \in Requests, o # i
  PROVE  row'[o] = row[o]
  BY DEF Inserted, BInv, TypeOK

LEMMA InsertedRow ==
  ASSUME BInv, NEW i \in Requests, Inserted(i)
  PROVE  /\ row'[i].status = "active" /\ row'[i].age = "young"
         /\ row[i].status = "none"
  BY DEF Inserted, NewRow, BInv, TypeOK, Kept, Unborn, NotYet

\* The trial check stays true until the row is inserted.
LEMMA TrialStep ==
  ASSUME BInv, OneAtATime, TrialChecked, [Next]_vars
  PROVE  TrialChecked'
<1> SUFFICES ASSUME NEW r \in Requests, TrialUser(r), req'[r] \in PastTrial
             PROVE  RecentFree(Owner[r])' = {}
  BY DEF TrialChecked, TrialUser, IsFree
<1>1. RecentFree(Owner[r]) = {}
  <2>1. CASE req[r] \in PastTrial
    BY <2>1 DEF TrialChecked
  <2>2. CASE Passes(r, "trial")
    BY <2>2 DEF Passes, TrialUser
  <2>3. QED
    BY <2>1, <2>2, ReqStep
<1>2. SUFFICES ASSUME NEW o \in Requests, Owner[o] = Owner[r], row'[o].status # "none",
                      IsFree(o), row'[o].age # "over30"
               PROVE  FALSE
  BY DEF RecentFree, OfUser, IsFree
<1>3. ~Smaller(o)
  BY <1>1, <1>2 DEF Smaller, RecentFree, OfUser
<1>4. PICK i \in Requests : Inserted(i)
  BY <1>3, SmallerStep
<1>5. i = o
  BY <1>3, <1>4, InsertedElsewhere, Unchanged
<1>6. QED
  BY <1>2, <1>4, <1>5, NoOtherInsert DEF TrialUser

LEMMA OneTrialStep ==
  ASSUME BInv, TrialChecked, OneTrial, [Next]_vars
  PROVE  OneTrial'
<1> SUFFICES ASSUME NEW r \in Requests, NEW o \in Requests, Owner[r] \in Patient \ Paying,
                    Owner[o] = Owner[r], IsFree(r), IsFree(o), r # o,
                    row'[r].status # "none", row'[o].status # "none",
                    row'[r].age # "over30", row'[o].age # "over30"
             PROVE  FALSE
  BY DEF OneTrial, OfUser, IsFree
<1>1. CASE Smaller(r) /\ Smaller(o)
  BY <1>1 DEF Smaller, OneTrial, OfUser
<1>2. ASSUME NEW i \in Requests, NEW j \in Requests, Inserted(i), i # j,
             Owner[i] \in Patient \ Paying, Owner[j] = Owner[i], IsFree(i), IsFree(j),
             row'[j].status # "none", row'[j].age # "over30"
      PROVE  FALSE
  <2>1. RecentFree(Owner[i]) = {}
    BY <1>2 DEF TrialChecked, TrialUser, Inserted, PastTrial, PastLimit
  <2>2. row'[j] = row[j]
    BY <1>2, InsertedElsewhere
  <2>3. QED
    BY <1>2, <2>1, <2>2 DEF RecentFree, OfUser
<1>3. CASE \E i \in Requests : Inserted(i)
  <2>1. PICK i \in Requests : Inserted(i)
    BY <1>3
  <2>2. CASE i # r /\ i # o
    BY <1>1, <2>1, <2>2, InsertedElsewhere, Unchanged
  <2>3. CASE i = r \/ i = o
    BY <1>2, <2>1, <2>3
  <2>4. QED
    BY <2>2, <2>3
<1>4. QED
  BY <1>1, <1>3, SmallerStep

\* The rows that count.
LEMMA CountedFinite ==
  ASSUME NEW S \in SUBSET Requests
  PROVE  IsFiniteSet(S) /\ Cardinality(S) \in Nat
  BY Constants, FS_Subset, FS_CardinalityType

Counted(u) == Live(OfUser(u))

LEMMA CountedIs ==
  \A u : Counted(u) = {r \in Requests : Owner[r] = u /\ row[r].status \notin {"none", "deleted"}}
  BY DEF Counted, Live, OfUser

LEMMA CountedSmaller ==
  ASSUME NEW u, \A o \in Requests : Owner[o] = u => Smaller(o)
  PROVE  Cardinality(Counted(u)') <= Cardinality(Counted(u))
<1>1. Counted(u)' \subseteq Counted(u)
  BY DEF Counted, Live, OfUser, Smaller
<1>2. Counted(u) \in SUBSET Requests
  BY CountedIs
<1>3. QED
  BY <1>1, <1>2, CountedFinite, FS_Subset

LEMMA OneMore ==
  ASSUME NEW S, IsFiniteSet(S), NEW x
  PROVE  Cardinality(S \cup {x}) <= Cardinality(S) + 1
<1>1. Cardinality(S) \in Nat
  BY FS_CardinalityType
<1>2. Cardinality(S \cup {x}) = IF x \in S THEN Cardinality(S) ELSE Cardinality(S) + 1
  BY FS_AddElement
<1>3. QED
  BY <1>1, <1>2

\* The limit check stays true until the row is inserted.
LEMMA LimitStep ==
  ASSUME BInv, OneAtATime, LimitChecked, [Next]_vars
  PROVE  LimitChecked'
<1> SUFFICES ASSUME NEW r \in Requests, Owner[r] \in Patient, req'[r] \in PastLimit
             PROVE  BelowLimit(Owner[r])'
  BY DEF LimitChecked
<1> DEFINE u == Owner[r]
<1>1. Cardinality(Counted(u)) < MaxSites[u]
  <2>1. CASE req[r] \in PastLimit
    BY <2>1 DEF LimitChecked, BelowLimit, Counted
  <2>2. CASE Passes(r, "limit")
    BY <2>2 DEF Passes, BelowLimit, Counted
  <2>3. QED
    BY <2>1, <2>2, ReqStep
<1>2. ASSUME NEW o \in Requests, Owner[o] = u PROVE Smaller(o)
  <2>1. CASE \E i \in Requests : Inserted(i)
    <3>1. PICK i \in Requests : Inserted(i)
      BY <2>1
    <3>2. Owner[i] # u
      BY <3>1, NoOtherInsert DEF PastTrial
    <3>3. QED
      BY <1>2, <3>1, <3>2, InsertedElsewhere, Unchanged
  <2>2. QED
    BY <2>1, SmallerStep
<1>3. Cardinality(Counted(u)') <= Cardinality(Counted(u))
  BY <1>2, CountedSmaller
<1>4. Cardinality(Counted(u)) \in Nat /\ Cardinality(Counted(u)') \in Nat
  <2>1. Counted(u) \in SUBSET Requests /\ Counted(u)' \in SUBSET Requests
    BY DEF Counted, Live, OfUser
  <2>2. QED
    BY <2>1, CountedFinite
<1>5. MaxSites[u] \in Nat
  BY Constants
<1>6. Cardinality(Counted(u)') < MaxSites[u]
  BY <1>1, <1>3, <1>4, <1>5
<1>7. QED
  BY <1>6 DEF BelowLimit, Counted

LEMMA LimitKeptStep ==
  ASSUME BInv, LimitChecked, LimitKept, [Next]_vars
  PROVE  LimitKept'
<1> SUFFICES ASSUME NEW u \in Patient PROVE Cardinality(Counted(u)') <= MaxSites[u]
  BY DEF LimitKept, Counted
<1>1. /\ Counted(u) \in SUBSET Requests /\ Counted(u)' \in SUBSET Requests
      /\ MaxSites[u] \in Nat
  BY CreationAssumption DEF Counted, Live, OfUser
<1>2. Cardinality(Counted(u)) \in Nat /\ Cardinality(Counted(u)') \in Nat
      /\ IsFiniteSet(Counted(u))
  BY <1>1, CountedFinite
<1>3. CASE \A o \in Requests : Owner[o] = u => Smaller(o)
  <2>1. Cardinality(Counted(u)') <= Cardinality(Counted(u))
    BY <1>3, CountedSmaller
  <2>2. Cardinality(Counted(u)) <= MaxSites[u]
    BY DEF LimitKept, Counted
  <2>3. QED
    BY <1>1, <1>2, <2>1, <2>2
<1>4. CASE \E i \in Requests : Inserted(i)
  <2>1. PICK i \in Requests : Inserted(i)
    BY <1>4
  <2>2. CASE Owner[i] # u
    BY <1>3, <2>1, <2>2, InsertedElsewhere, Unchanged
  <2>3. CASE Owner[i] = u
    <3>1. Cardinality(Counted(u)) < MaxSites[u]
      BY <2>1, <2>3 DEF LimitChecked, BelowLimit, Counted, Inserted, PastLimit
    <3>2. Counted(u)' = Counted(u) \cup {i}
      BY <2>1, <2>3, InsertedElsewhere, InsertedRow DEF Counted, Live, OfUser
    <3>3. Cardinality(Counted(u)') <= Cardinality(Counted(u)) + 1
      <4>1. Cardinality(Counted(u) \cup {i}) <= Cardinality(Counted(u)) + 1
        BY <1>2, OneMore
      <4>2. QED
        BY <3>2, <4>1
    <3>4. QED
      BY <1>1, <1>2, <3>1, <3>3
  <2>4. QED
    BY <2>2, <2>3
<1>5. QED
  BY <1>3, <1>4, SmallerStep

LEMMA IInvInit == Init => IInv
<1> SUFFICES ASSUME Init PROVE IInv
  OBVIOUS
<1>1. OneAtATime /\ TrialChecked /\ LimitChecked
  BY DEF Init, OneAtATime, InProgress, TrialChecked, LimitChecked, PastTrial, PastLimit
<1>2. \A u : OfUser(u) = {}
  BY DEF Init, OfUser, NoRow
<1>3. OneTrial
  BY <1>2 DEF OneTrial
<1>4. LimitKept
  <2>1. \A u : Live(OfUser(u)) = {}
    BY <1>2 DEF Live
  <2>2. QED
    BY <2>1, CreationAssumption, FS_EmptySet DEF LimitKept
<1>5. QED
  BY BInvInit, <1>1, <1>3, <1>4 DEF IInv

LEMMA IInvNext == IInv /\ [Next]_vars => IInv'
  BY BInvNext, AloneStep, TrialStep, OneTrialStep, LimitStep, LimitKeptStep DEF IInv

\* The strengthening is an invariant: the checks stay true until the row is inserted.
THEOREM CreationInvariance == Spec => []IInv
  BY IInvInit, IInvNext, PTL DEF Spec

\* A user who asks for one site at a time keeps to the plan's limit.
THEOREM CreationLimitKept == Spec => []LimitKept
<1>1. IInv => LimitKept
  BY DEF IInv
<1>2. QED
  BY CreationInvariance, <1>1, PTL

\* Such a user of the free plan has one trial in 30 days, among the rows that are kept.
THEOREM CreationOneTrial == Spec => []OneTrial
<1>1. IInv => OneTrial
  BY DEF IInv
<1>2. QED
  BY CreationInvariance, <1>1, PTL

-----------------------------------------------------------------------------
\* Routes: nothing of a deleted hosting comes back

\* The admin's call is idle, about to report, or a repair.
Repair == [pc : {"open", "write", "stop", "rm", "run"}, site : Sites]
Operating == operator = Idle \/ operator.pc = "report" \/ operator \in Repair

Hostings ==
    /\ status \in [Sites -> {"active", "expired", "deleted"}]
    /\ container \in [Sites -> {"running", "stopped", "absent"}]
    /\ file \in [Sites -> {"created", "repaired", "torn", "absent"}]
    /\ deleting \in [Sites -> {"none", "rm", "verify", "unlink", "row"}]

\* What the deletion has put behind it, of the container and of the file
ContainerPast(s) == deleting[s] \in {"unlink", "row"} \/ status[s] = "deleted"
FilePast(s) == deleting[s] = "row" \/ status[s] = "deleted"

\* Unless the deletion has missed it, it is gone and no repair that would bring it back is at
\* work; and where the container is missed, so is the file.
Gone(s) ==
    /\ ContainerPast(s) /\ <<s, "container">> \notin lost => container[s] = "absent" /\ ~MountRepair(s)
    /\ FilePast(s) /\ <<s, "file">> \notin lost => file[s] = "absent" /\ ~RouteRepair(s)
    /\ <<s, "container">> \in lost => <<s, "file">> \in lost

RTypes == Hostings /\ Operating
RInv == RTypes /\ \A s \in Sites : Gone(s)

\* A site of which nothing changes
SiteKept(s) ==
    /\ status'[s] = status[s] /\ container'[s] = container[s] /\ file'[s] = file[s]
    /\ deleting'[s] = deleting[s]
    /\ <<s, "container">> \in lost' <=> <<s, "container">> \in lost
    /\ <<s, "file">> \in lost' <=> <<s, "file">> \in lost
    /\ MountRepair(s)' => MountRepair(s)
    /\ RouteRepair(s)' => RouteRepair(s)

LEMMA SiteKeptGone ==
    ASSUME NEW s \in Sites, Gone(s), SiteKept(s)
    PROVE  Gone(s)'
  BY DEF Gone, SiteKept, ContainerPast, FilePast

LEMMA GuardStays ==
    ASSUME RInv, Guard \/ Restart
    PROVE  RInv'
  <1>1. UNCHANGED <<status, container, file, operator, deleting, lost>>
    BY DEF Guard, Restart, CheckPlatform, OpenPlatformFile, WritePlatformFile, PlatformEnsured, ListTenants,
           Report, BlameProvider, ReportMount, EndPass, ProbeTenant, CheckMount, Job, routes, site
  <1>2. \A s \in Sites : SiteKept(s)
    BY <1>1 DEF SiteKept, MountRepair, RouteRepair
  <1> QED BY <1>1, <1>2, SiteKeptGone DEF RInv, RTypes, Hostings, Operating

LEMMA AdminStays ==
    ASSUME RInv, Admin
    PROVE  RInv'
  <1>0. UNCHANGED <<status, deleting, lost>> /\ Hostings /\ Operating
    BY DEF RInv, RTypes, Admin, AdminReport, OpenRoute, WriteRoute, StopContainer, RemoveContainer,
           RunContainer, AdminPlatform, AdminResolve, AdminProbe, AdminRoute, AdminMount, site
  <1>1. CASE AdminReport \/ AdminPlatform \/ AdminResolve \/ \E s \in Sites : AdminProbe(s)
    <2>1. UNCHANGED <<container, file>>
      BY <1>1 DEF AdminReport, AdminPlatform, AdminResolve, AdminProbe, site, routes
    <2>2. operator' = operator \/ operator' = Idle \/ operator'.pc = "report"
      BY <1>1 DEF AdminReport, AdminPlatform, AdminResolve, AdminProbe
    <2>3. \A s \in Sites : SiteKept(s)
      BY <1>0, <2>1, <2>2 DEF SiteKept, MountRepair, RouteRepair, Idle
    <2> QED BY <1>0, <2>1, <2>2, <2>3, SiteKeptGone DEF RInv, RTypes, Hostings, Operating
  <1>2. ASSUME NEW s \in Sites, AdminRoute(s) \/ AdminMount(s) PROVE RInv'
    <2>1. UNCHANGED <<container, file>> /\ operator' \in Repair /\ operator'.site = s /\ status[s] = "active"
      BY <1>2 DEF AdminRoute, AdminMount, site, routes, Repair
    <2>2. container[s] # "absent"
      BY <1>2 DEF AdminRoute, AdminMount, Mountless
    <2>3. \A t \in Sites \ {s} : SiteKept(t)
      BY <1>0, <2>1 DEF SiteKept, MountRepair, RouteRepair
    <2>4. Gone(s)'
      BY <1>0, <2>1, <2>2 DEF RInv, Gone, ContainerPast, FilePast
    <2> QED BY <1>0, <2>1, <2>3, <2>4, SiteKeptGone DEF RInv, RTypes, Hostings, Operating
  <1>3. CASE OpenRoute \/ WriteRoute \/ StopContainer \/ RemoveContainer \/ RunContainer
    <2>1. operator \in Repair
      BY <1>0, <1>3 DEF Operating, Idle, OpenRoute, WriteRoute, StopContainer, RemoveContainer, RunContainer
    <2>2. PICK s \in Sites : s = operator.site
      BY <2>1 DEF Repair
    <2>3. operator' = Idle \/ (operator' \in Repair /\ operator'.site = operator.site)
      BY <1>3, <2>1 DEF Repair, OpenRoute, WriteRoute, StopContainer, RemoveContainer, RunContainer
    <2>5. Hostings'
      <3>1. CASE OpenRoute \/ WriteRoute
        BY <1>0, <2>2, <3>1 DEF Hostings, OpenRoute, WriteRoute, site
      <3>2. CASE StopContainer
        BY <1>0, <2>2, <3>2 DEF Hostings, StopContainer, routes
      <3>3. CASE RemoveContainer
        BY <1>0, <2>2, <3>3 DEF Hostings, RemoveContainer, routes
      <3>4. CASE RunContainer
        BY <1>0, <2>2, <3>4 DEF Hostings, RunContainer, routes
      <3> QED BY <1>3, <3>1, <3>2, <3>3, <3>4
    <2>6. \A t \in Sites \ {s} : SiteKept(t)
      <3>1. \A t \in Sites \ {s} : container'[t] = container[t] /\ file'[t] = file[t]
        BY <1>0, <2>2, <1>3 DEF Hostings, OpenRoute, WriteRoute, StopContainer, RemoveContainer, RunContainer, site, routes
      <3> QED BY <1>0, <2>2, <2>3, <3>1 DEF SiteKept, MountRepair, RouteRepair, Idle
    <2>7. Gone(s)'
      <3>1. Gone(s)
        BY DEF RInv
      <3>2. CASE OpenRoute \/ WriteRoute
        <4>1. RouteRepair(s) /\ ~MountRepair(s)' /\ UNCHANGED container
          BY <1>0, <2>1, <2>2, <3>2 DEF RouteRepair, MountRepair, OpenRoute, WriteRoute, site, Idle, Repair
        <4> QED BY <1>0, <3>1, <4>1 DEF Gone, ContainerPast, FilePast
      <3>3. CASE StopContainer \/ RemoveContainer \/ RunContainer
        <4>1. MountRepair(s) /\ UNCHANGED file
          BY <2>2, <3>3 DEF MountRepair, StopContainer, RemoveContainer, RunContainer, routes
        <4>2. ~RouteRepair(s)'
          BY <2>1, <3>3 DEF RouteRepair, StopContainer, RemoveContainer, RunContainer, Idle, Repair
        <4> QED BY <1>0, <3>1, <4>1, <4>2 DEF Gone, ContainerPast, FilePast
      <3> QED BY <1>3, <3>2, <3>3
    <2>8. Operating'
      BY <2>3 DEF Operating
    <2> QED BY <2>2, <2>5, <2>6, <2>7, <2>8, SiteKeptGone DEF RInv, RTypes
  <1> QED BY <1>1, <1>2, <1>3 DEF Admin

\* The steps of the world that are not of a deletion: none of a site whose deletion is past
\* docker gets anything back.
LEMMA WorldStays ==
    ASSUME RInv,
           \/ RouteChange \/ PlatformChange
           \/ \E s \in Sites : TenantChange(s) \/ HostingExpires(s)
    PROVE  RInv'
  <1>0. Hostings /\ Operating /\ UNCHANGED <<operator, deleting, lost>>
    BY DEF RInv, RTypes, RouteChange, PlatformChange, TenantChange, HostingExpires
  <1>1. CASE RouteChange \/ PlatformChange
    <2>1. UNCHANGED <<status, container>>
      BY <1>1 DEF RouteChange, PlatformChange, site
    <2>2. /\ file' \in [Sites -> {"created", "repaired", "torn", "absent"}]
          /\ \A t \in Sites : file'[t] \in {file[t], "absent"}
      BY <1>0, <1>1 DEF Hostings, RouteChange, PlatformChange
    <2>3. \A t \in Sites : Gone(t)'
      BY <1>0, <2>1, <2>2 DEF RInv, Gone, ContainerPast, FilePast, MountRepair, RouteRepair
    <2> QED BY <1>0, <2>1, <2>2, <2>3 DEF RInv, RTypes, Hostings, Operating
  <1>2. ASSUME NEW s \in Sites, TenantChange(s) \/ HostingExpires(s) PROVE RInv'
    <2>1. UNCHANGED file /\ status[s] # "deleted" /\ deleting[s] = "none"
      BY <1>2 DEF TenantChange, HostingExpires, routes
    <2>2. /\ Hostings' /\ status'[s] # "deleted"
          /\ \A t \in Sites \ {s} : status'[t] = status[t] /\ container'[t] = container[t]
      <3>1. CASE TenantChange(s)
        BY <1>0, <2>1, <3>1 DEF TenantChange, Hostings
      <3>2. CASE HostingExpires(s)
        BY <1>0, <2>1, <3>2 DEF HostingExpires, Hostings
      <3> QED BY <1>2, <3>1, <3>2
    <2>3. \A t \in Sites \ {s} : SiteKept(t)
      BY <1>0, <2>1, <2>2 DEF SiteKept, MountRepair, RouteRepair
    <2>4. Gone(s)'
      BY <1>0, <2>1, <2>2 DEF RInv, Gone, ContainerPast, FilePast
    <2> QED BY <1>0, <2>2, <2>3, <2>4, SiteKeptGone DEF RInv, RTypes, Operating
  <1> QED BY <1>1, <1>2

\* The steps of a deletion, each of one site.
LEMMA DeletionStays ==
    ASSUME RInv, NEW s \in Sites,
           DeletionBegins(s) \/ DeletionStep(s) \/ RowDeleted(s) \/ DeletionDies(s)
    PROVE  RInv'
  <1>0. Hostings /\ Operating /\ UNCHANGED operator /\ Gone(s)
    BY DEF RInv, RTypes, DeletionBegins, DeletionStep, ContainerDeleted, VerifyGone, FileDeleted, RowDeleted,
           DeletionDies, Elsewhere
  <1>1. Operating' /\ (MountRepair(s)' <=> MountRepair(s)) /\ (RouteRepair(s)' <=> RouteRepair(s))
    BY <1>0 DEF Operating, MountRepair, RouteRepair
  <1>2. Hostings' /\ Gone(s)' /\ \A t \in Sites \ {s} : SiteKept(t)
    <2>1. CASE DeletionBegins(s)
      <3>1. /\ status[s] # "deleted" /\ deleting' = [deleting EXCEPT ![s] = "rm"] /\ lost' = lost \ Both(s)
            /\ UNCHANGED <<status, container, file>>
        BY <2>1 DEF DeletionBegins, Deletes, site
      <3>2. Hostings' /\ Gone(s)'
        BY <1>0, <3>1 DEF Hostings, Gone, ContainerPast, FilePast, Both
      <3>3. \A t \in Sites \ {s} : SiteKept(t)
        BY <1>0, <3>1 DEF Hostings, SiteKept, Both, MountRepair, RouteRepair
      <3> QED BY <3>2, <3>3
    <2>2. CASE ContainerDeleted(s)
      <3>1. /\ deleting[s] = "rm" /\ deleting' = [deleting EXCEPT ![s] = "verify"]
            /\ UNCHANGED <<status, file, lost>>
            /\ container' = [container EXCEPT ![s] = "absent"] \/ container' = container
        BY <2>2 DEF ContainerDeleted, Deletes
      <3>2. Hostings' /\ Gone(s)'
        BY <1>0, <1>1, <3>1 DEF Hostings, Gone, ContainerPast, FilePast
      <3>3. \A t \in Sites \ {s} : SiteKept(t)
        BY <1>0, <3>1 DEF Hostings, SiteKept, MountRepair, RouteRepair
      <3> QED BY <3>2, <3>3
    <2>3. CASE VerifyGone(s)
      <3>1. /\ deleting[s] = "verify" /\ UNCHANGED <<status, container, file>>
            /\ \/ deleting' = [deleting EXCEPT ![s] = "none"] /\ lost' = lost
               \/ /\ deleting' = [deleting EXCEPT ![s] = "unlink"]
                  /\ \/ lost' = lost \cup Both(s)
                     \/ container[s] = "absent" /\ ~MountRepair(s) /\ lost' = lost
        BY <2>3 DEF VerifyGone, Deletes, site
      <3>2. Hostings'
        BY <1>0, <3>1 DEF Hostings
      <3>3. Gone(s)'
        BY <1>0, <1>1, <3>1 DEF Hostings, Gone, ContainerPast, FilePast, Both
      <3>4. \A t \in Sites \ {s} : SiteKept(t)
        BY <1>0, <3>1 DEF Hostings, SiteKept, Both, MountRepair, RouteRepair
      <3> QED BY <3>2, <3>3, <3>4
    <2>4. CASE FileDeleted(s)
      <3>1. /\ deleting[s] = "unlink" /\ deleting' = [deleting EXCEPT ![s] = "row"]
            /\ UNCHANGED <<status, container>>
            /\ \/ file' = file /\ lost' = lost \cup {<<s, "file">>}
               \/ /\ file' = [file EXCEPT ![s] = "absent"]
                  /\ \/ lost' = lost \cup {<<s, "file">>}
                     \/ ~RouteRepair(s) /\ lost' = lost
        BY <2>4 DEF FileDeleted, Deletes, site
      <3>2. Hostings'
        BY <1>0, <3>1 DEF Hostings
      <3>3. Gone(s)'
        BY <1>0, <1>1, <3>1 DEF Hostings, Gone, ContainerPast, FilePast
      <3>4. \A t \in Sites \ {s} : SiteKept(t)
        BY <1>0, <3>1 DEF Hostings, SiteKept, MountRepair, RouteRepair
      <3> QED BY <3>2, <3>3, <3>4
    <2>5. CASE RowDeleted(s)
      <3>1. /\ deleting[s] = "row" /\ deleting' = [deleting EXCEPT ![s] = "none"]
            /\ status' = [status EXCEPT ![s] = "deleted"] /\ UNCHANGED <<container, file, lost>>
        BY <2>5 DEF RowDeleted, Deletes
      <3>2. Hostings' /\ Gone(s)'
        BY <1>0, <1>1, <3>1 DEF Hostings, Gone, ContainerPast, FilePast
      <3>3. \A t \in Sites \ {s} : SiteKept(t)
        BY <1>0, <3>1 DEF Hostings, SiteKept, MountRepair, RouteRepair
      <3> QED BY <3>2, <3>3
    <2>6. CASE DeletionDies(s)
      <3>1. deleting' = [deleting EXCEPT ![s] = "none"] /\ UNCHANGED <<status, container, file, lost>>
        BY <2>6 DEF DeletionDies, site
      <3>2. Hostings' /\ Gone(s)'
        BY <1>0, <1>1, <3>1 DEF Hostings, Gone, ContainerPast, FilePast
      <3>3. \A t \in Sites \ {s} : SiteKept(t)
        BY <1>0, <3>1 DEF Hostings, SiteKept, MountRepair, RouteRepair
      <3> QED BY <3>2, <3>3
    <2> QED BY <2>1, <2>2, <2>3, <2>4, <2>5, <2>6 DEF DeletionStep
  <1> QED BY <1>1, <1>2, SiteKeptGone DEF RInv, RTypes

LEMMA RoutesStay == RInv /\ [RoutesNext]_<<rvars, dvars>> => RInv'
  <1>1. RInv /\ UNCHANGED rvars => RInv'
    <2> SUFFICES ASSUME RInv, UNCHANGED rvars PROVE RInv'
      OBVIOUS
    <2>1. UNCHANGED <<status, container, file, operator, deleting, lost>>
      BY DEF rvars, site, routes
    <2>2. \A s \in Sites : SiteKept(s)
      BY <2>1 DEF SiteKept, MountRepair, RouteRepair
    <2> QED BY <2>1, <2>2, SiteKeptGone DEF RInv, RTypes, Hostings, Operating
  <1>2. RInv /\ Deletion => RInv'
    BY <1>1, DeletionStays DEF Deletion, DeleteRowAndDomains, TerminateGoesOn
  <1>3. RInv /\ RoutesNext => RInv'
    BY <1>1, <1>2, GuardStays, AdminStays, WorldStays, DeletionStays
       DEF RoutesNext, GuardStep, DeleteHosting
  <1> QED BY <1>1, <1>3

\* A hosting whose row is deleted has neither a container nor a route file, whatever the guard,
\* the admin's repairs, the expiration, the client's termination of domains and the world do to
\* it (hosting.py:515-580), apart from what its deletion missed: after an inspect that failed, an
\* unlink that failed, or beside a repair that had read "active" before.
THEOREM DeletedHostingsStayGone == RoutesSpec => []DeletedStaysGone
  <1>1. RoutesInit => RInv
    <2> SUFFICES ASSUME RoutesInit PROVE RInv
      OBVIOUS
    <2>1. RTypes /\ operator = Idle
      BY DEF RoutesInit, GuardInit, RTypes, Hostings, Operating
    <2>2. \A s \in Sites : Gone(s)
      BY <2>1 DEF RoutesInit, GuardInit, Gone, ContainerPast, FilePast, Idle, MountRepair, RouteRepair
    <2> QED BY <2>1, <2>2 DEF RInv
  <1>2. RInv => DeletedStaysGone
    BY DEF RInv, Gone, ContainerPast, FilePast, DeletedStaysGone
  <1> QED BY <1>1, <1>2, RoutesStay, PTL DEF RoutesSpec

-----------------------------------------------------------------------------
\* Routes: the files of custom domains are what their rows say

\* What the provers know of sequences, a replaced, an added or a rewritten element.
LEMMA SeqParts ==
    ASSUME NEW S, NEW s \in Seq(S)
    PROVE  Len(s) \in Nat /\ DOMAIN s = 1..Len(s) /\ s \in [DOMAIN s -> S]
  OBVIOUS

LEMMA SeqReplaced ==
    ASSUME NEW S, NEW s \in Seq(S), NEW i \in DOMAIN s, NEW e \in S
    PROVE  [s EXCEPT ![i] = e] \in Seq(S) /\ Len([s EXCEPT ![i] = e]) = Len(s)
  OBVIOUS

LEMMA SeqAppended ==
    ASSUME NEW S, NEW s \in Seq(S), NEW e \in S
    PROVE  /\ Append(s, e) \in Seq(S) /\ Len(Append(s, e)) = Len(s) + 1
           /\ DOMAIN Append(s, e) = 1..(Len(s) + 1)
           /\ Append(s, e)[Len(s) + 1] = e
           /\ \A i \in DOMAIN s : Append(s, e)[i] = s[i]
  OBVIOUS

LEMMA SeqRewritten ==
    ASSUME NEW S, NEW s \in Seq(S), NEW t \in [DOMAIN s -> S]
    PROVE  t \in Seq(S) /\ Len(t) = Len(s)
  OBVIOUS

DomainRow == [name : Names, host : Sites, dns : {"pending", "active"},
              ssl : {"pending", "active", "failed"}, here : BOOLEAN]
Ids == DOMAIN rows

DomainTables ==
    /\ rows \in Seq(DomainRow)
    /\ domainfile \in Seq({"absent", "torn", "whole"}) /\ Len(domainfile) = Len(rows)

VerifyStages == {"idle", "resolve", "refuse", "accept", "open", "write", "confirm", "fail"}
Verifying ==
    /\ queue \subseteq Ids
    /\ worker \in [Domains!Workers -> [pc : VerifyStages, id : Nat]]
    /\ \A w \in Domains!Workers : worker[w].id \in Ids \/ worker[w] = Domains!Rest

\* The route that deletes one domain holds a row that is gone.
Removing ==
    /\ remover \in [pc : {"idle", "file", "domains"}, host : Sites \cup {0}, ids : SUBSET Ids]
    /\ remover.pc = "file" => \E id \in Ids : remover.ids = {id} /\ ~Domains!Here(id)

DomainTypes == DomainTables /\ Verifying /\ Removing

Busy(id) == \E w \in Domains!Workers : worker[w].id = id
Shown(id) == Domains!Here(id) /\ rows[id].ssl = "active"

\* Of a row where nothing overlapped: one verification at a time, none beside its removal and
\* none once it is gone; while the file is not whole the row does not say "active", unless a
\* termination removed the file and not the row.
Orderly(id) ==
    /\ \A v, w \in Domains!Workers : worker[v].id = id /\ worker[w].id = id => v = w
    /\ Domains!Leaving(id) => ~Busy(id) /\ id \notin queue
    /\ Shown(id) /\ id \notin stray => domainfile[id] = "whole"
    /\ \A w \in Domains!Workers : worker[w].id = id =>
          /\ worker[w].pc \in {"open", "write", "fail"} => ~Shown(id)
          /\ worker[w].pc = "confirm" => domainfile[id] = "whole"
    /\ ~Domains!Here(id) /\ id \notin stray =>
          /\ ~Busy(id) /\ id \notin queue
          /\ domainfile[id] = "absent" \/ (remover.pc = "file" /\ id \in remover.ids)

DomainInv == DomainTypes /\ \A id \in Ids : id \notin mixed => Orderly(id)

LEMMA TableParts ==
    ASSUME DomainTables
    PROVE  /\ Ids = 1..Len(rows) /\ Len(rows) \in Nat /\ DOMAIN domainfile = Ids /\ 0 \notin Ids
           /\ rows \in [Ids -> DomainRow] /\ domainfile \in [Ids -> {"absent", "torn", "whole"}]
  BY SeqParts DEF DomainTables, Ids

\* A row changed where it is keeps the tables.
LEMMA RowChanged ==
    ASSUME DomainTables, NEW id \in Ids, NEW r \in DomainRow, rows' = [rows EXCEPT ![id] = r],
           UNCHANGED domainfile
    PROVE  DomainTables' /\ Ids' = Ids
  BY SeqReplaced, TableParts DEF DomainTables, Ids

LEMMA FileChanged ==
    ASSUME DomainTables, NEW id \in Ids, NEW f \in {"absent", "torn", "whole"},
           domainfile' = [domainfile EXCEPT ![id] = f], UNCHANGED rows
    PROVE  DomainTables' /\ Ids' = Ids
  BY SeqReplaced, TableParts DEF DomainTables, Ids

LEMMA BothChanged ==
    ASSUME DomainTables, NEW id \in Ids, NEW r \in DomainRow, rows' = [rows EXCEPT ![id] = r],
           NEW f \in {"absent", "torn", "whole"},
           domainfile' \in {domainfile, [domainfile EXCEPT ![id] = f]}
    PROVE  DomainTables' /\ Ids' = Ids
  BY SeqReplaced, TableParts DEF DomainTables, Ids

\* A verification that goes on, or ends, keeps to its row.
LEMMA WorkerMoves ==
    ASSUME DomainTables, Verifying, NEW w \in Domains!Workers, NEW pc \in VerifyStages,
           worker[w].id \in Ids, Domains!Goes(w, pc) \/ Domains!Ends(w), queue' \subseteq queue, Ids' = Ids
    PROVE  /\ Verifying'
           /\ \A v \in Domains!Workers : v # w => worker'[v] = worker[v]
           /\ worker'[w] = Domains!Rest \/ worker'[w] = [pc |-> pc, id |-> worker[w].id]
  BY DEF Verifying, Domains!Goes, Domains!Ends, Domains!Rest, VerifyStages

LEMMA UpdateIs ==
    ASSUME DomainTables, NEW id \in Ids, NEW r \in DomainRow, r.here = rows[id].here,
           rows' = Domains!Update(id, r), UNCHANGED domainfile
    PROVE  /\ DomainTables' /\ Ids' = Ids
           /\ rows'[id] = IF Domains!Here(id) THEN r ELSE rows[id]
           /\ \A d \in Ids : d # id => rows'[d] = rows[d]
           /\ \A d \in Ids : Domains!Here(d)' = Domains!Here(d)
  <1>1. CASE Domains!Here(id)
    BY <1>1, RowChanged, TableParts DEF Domains!Update, Domains!Here, Ids
  <1>2. CASE ~Domains!Here(id)
    BY <1>2, TableParts DEF Domains!Update, Domains!Here, Ids, DomainTables
  <1> QED BY <1>1, <1>2

\* A row whose file, verification and removal a step leaves alone stays orderly.
LEMMA OthersOrderly ==
    ASSUME DomainTypes, NEW d \in Ids, Orderly(d), d \in Ids',
           rows'[d] = rows[d], domainfile'[d] = domainfile[d], stray \subseteq stray',
           \A w \in Domains!Workers : worker'[w].id = d => worker'[w] = worker[w],
           d \in queue' => d \in queue,
           Domains!Leaving(d)' => Domains!Leaving(d),
           remover.pc = "file" /\ d \in remover.ids => (remover.pc = "file" /\ d \in remover.ids)'
    PROVE  Orderly(d)'
  <1>1. Domains!Here(d)' = Domains!Here(d) /\ Shown(d)' = Shown(d)
    BY DEF Domains!Here, Ids, Shown
  <1>2. Busy(d)' => Busy(d)
    BY DEF Busy
  <1> QED BY <1>1, <1>2 DEF Orderly

\* A step changes at most the row and the file of one domain, which stays where it is.
OneTouched(id) ==
    /\ DomainTables' /\ Ids' = Ids
    /\ \A d \in Ids : /\ Domains!Here(d)' = Domains!Here(d)
                      /\ d # id => rows'[d] = rows[d] /\ domainfile'[d] = domainfile[d]

\* The row of a verification, and the others.
LEMMA VerifyTypes ==
    ASSUME DomainTypes, NEW w \in Domains!Workers, Domains!Verify(w)
    PROVE  /\ DomainTypes' /\ Ids' = Ids /\ worker[w].id \in Ids
           /\ UNCHANGED <<queue, remover, mixed, stray>>
           /\ \A v \in Domains!Workers : v # w => worker'[v] = worker[v]
           /\ worker'[w] = Domains!Rest \/ worker'[w].id = worker[w].id
           /\ \A d \in Ids : /\ Domains!Here(d)' = Domains!Here(d)
                             /\ d # worker[w].id => rows'[d] = rows[d] /\ domainfile'[d] = domainfile[d]
  <1>0. DomainTables /\ Verifying /\ Removing
    BY DEF DomainTypes
  <1>1. worker[w].pc # "idle" /\ worker[w].id \in Ids
    BY <1>0 DEF Verifying, Domains!Rest, Domains!Verify, Domains!Resolve, Domains!Refuse, Domains!Accept,
                Domains!OpenFile, Domains!WriteFile, Domains!Confirm, Domains!Fail
  <1>2. UNCHANGED <<queue, remover, mixed, stray>>
    BY DEF Domains!Verify, Domains!Resolve, Domains!Refuse, Domains!Accept, Domains!OpenFile,
           Domains!WriteFile, Domains!Confirm, Domains!Fail, Domains!Idly
  <1>3. \E pc \in VerifyStages : Domains!Goes(w, pc) \/ Domains!Ends(w)
    BY DEF Domains!Verify, Domains!Resolve, Domains!Refuse, Domains!Accept, Domains!OpenFile,
           Domains!WriteFile, Domains!Confirm, Domains!Fail, VerifyStages
  <1>4. \/ UNCHANGED <<rows, domainfile>>
        \/ UNCHANGED rows /\ \E f \in {"torn", "whole"} : domainfile' = [domainfile EXCEPT ![worker[w].id] = f]
        \/ /\ UNCHANGED domainfile
           /\ \E r \in DomainRow : r.here = rows[worker[w].id].here /\ rows' = Domains!Update(worker[w].id, r)
    <2>1. CASE Domains!Resolve(w) \/ Domains!OpenFile(w) \/ Domains!WriteFile(w)
      BY <2>1 DEF Domains!Resolve, Domains!OpenFile, Domains!WriteFile
    <2>2. rows[worker[w].id] \in DomainRow
      BY <1>0, <1>1, TableParts
    <2>3. CASE Domains!Refuse(w) \/ Domains!Accept(w) \/ Domains!Confirm(w) \/ Domains!Fail(w)
      BY <2>2, <2>3 DEF Domains!Refuse, Domains!Accept, Domains!Confirm, Domains!Fail, DomainRow
    <2> QED BY <2>1, <2>3 DEF Domains!Verify
  <1>5. OneTouched(worker[w].id)
    <2>1. CASE UNCHANGED <<rows, domainfile>>
      BY <1>0, <2>1 DEF OneTouched, DomainTables, Ids, Domains!Here
    <2>2. ASSUME UNCHANGED rows, NEW f \in {"torn", "whole"},
                 domainfile' = [domainfile EXCEPT ![worker[w].id] = f]
          PROVE  OneTouched(worker[w].id)
      BY <1>0, <1>1, <2>2, FileChanged, TableParts DEF OneTouched, Ids, Domains!Here
    <2>3. ASSUME UNCHANGED domainfile, NEW r \in DomainRow, r.here = rows[worker[w].id].here,
                 rows' = Domains!Update(worker[w].id, r)
          PROVE  OneTouched(worker[w].id)
      BY <1>0, <1>1, <2>3, UpdateIs DEF OneTouched
    <2> QED BY <1>4, <2>1, <2>2, <2>3
  <1>6. Removing'
    BY <1>0, <1>2, <1>5 DEF Removing, OneTouched
  <1>7. PICK pc \in VerifyStages : Domains!Goes(w, pc) \/ Domains!Ends(w)
    BY <1>3
  <1>8. /\ Verifying'
        /\ \A v \in Domains!Workers : v # w => worker'[v] = worker[v]
        /\ worker'[w] = Domains!Rest \/ worker'[w] = [pc |-> pc, id |-> worker[w].id]
    BY <1>0, <1>1, <1>2, <1>5, <1>7, WorkerMoves DEF OneTouched
  <1> QED BY <1>1, <1>2, <1>5, <1>6, <1>8 DEF DomainTypes, OneTouched

LEMMA VerifyOrderly ==
    ASSUME DomainTypes, NEW w \in Domains!Workers, Domains!Verify(w), NEW d \in Ids, Orderly(d)
    PROVE  Orderly(d)'
  <1>0. DomainTables /\ Verifying
    BY DEF DomainTypes
  <1>1. CASE d # worker[w].id
    <2>1. 0 \notin Ids
      BY <1>0, TableParts
    <2> QED BY <1>1, <2>1, VerifyTypes, OthersOrderly DEF Domains!Rest, Domains!Leaving
  <1>2. CASE d = worker[w].id
    <2>1. /\ Ids' = Ids /\ UNCHANGED <<queue, remover, mixed, stray>>
          /\ \A v \in Domains!Workers : v # w => worker'[v].id # d
          /\ Domains!Here(d)' = Domains!Here(d)
      BY <1>2, VerifyTypes DEF Orderly
    <2>2. Domains!Here(d) \/ d \in stray
      BY <1>2 DEF Orderly, Busy
    <2>3. ~Domains!Leaving(d)
      BY <1>2 DEF Orderly, Busy
    <2>4. /\ Shown(d)' /\ d \notin stray' => domainfile'[d] = "whole"
          /\ worker'[w].id = d =>
               /\ worker'[w].pc \in {"open", "write", "fail"} => ~Shown(d)'
               /\ worker'[w].pc = "confirm" => domainfile'[d] = "whole"
      <3>1. /\ worker[w].pc \in {"open", "write", "fail"} => ~Shown(d)
            /\ worker[w].pc = "confirm" => domainfile[d] = "whole"
            /\ Shown(d) /\ d \notin stray => domainfile[d] = "whole"
        BY <1>2 DEF Orderly
      <3>2. /\ d # 0 /\ worker[w] \in [pc : VerifyStages, id : Nat] /\ rows[d] \in DomainRow
            /\ d \in DOMAIN domainfile
        BY <1>0, TableParts DEF Verifying
      <3>3. CASE Domains!Resolve(w)
        BY <1>0, <1>2, <2>1, <3>1, <3>2, <3>3 DEF Domains!Resolve, Domains!Goes, Verifying, Shown
      <3>4. CASE Domains!OpenFile(w)
        BY <1>0, <1>2, <2>1, <3>1, <3>2, <3>4 DEF Domains!OpenFile, Domains!Goes, Verifying, Shown
      <3>5. CASE Domains!WriteFile(w)
        BY <1>0, <1>2, <2>1, <3>1, <3>2, <3>5 DEF Domains!WriteFile, Domains!Goes, Verifying, Shown
      <3>6. CASE Domains!Refuse(w)
        <4>1. Shown(d)' => Shown(d)
          BY <1>0, <1>2, <2>1, <3>2, <3>6, UpdateIs DEF Domains!Refuse, DomainRow, Shown
        <4>2. UNCHANGED <<domainfile, stray>> /\ worker'[w] = Domains!Rest
          BY <1>0, <2>1, <3>6 DEF Domains!Refuse, Domains!Ends, Verifying
        <4> QED BY <3>1, <3>2, <4>1, <4>2 DEF Domains!Rest
      <3>7. CASE Domains!Accept(w)
        <4>1. ~Shown(d)'
          <5>1. [rows[d] EXCEPT !.dns = "active", !.ssl = "pending"] \in DomainRow
            BY <3>2 DEF DomainRow
          <5>2. [rows[d] EXCEPT !.dns = "active", !.ssl = "pending"].here = rows[d].here
            BY <3>2 DEF DomainRow
          <5>3. Domains!Here(d) =>
                   rows'[d] = [rows[d] EXCEPT !.dns = "active", !.ssl = "pending"]
            BY <1>0, <1>2, <3>7, <5>1, <5>2, UpdateIs DEF Domains!Accept
          <5> QED BY <2>1, <3>2, <5>3 DEF Shown, DomainRow
        <4> QED BY <1>0, <1>2, <3>1, <3>2, <3>7, <4>1 DEF Domains!Accept, Domains!Goes, Verifying
      <3>8. CASE Domains!Confirm(w)
        BY <1>0, <1>2, <3>1, <3>2, <3>8 DEF Domains!Confirm, Domains!Ends, Domains!Rest, Verifying
      <3>9. CASE Domains!Fail(w)
        <4>1. ~Shown(d)'
          BY <1>0, <1>2, <2>1, <3>2, <3>9, UpdateIs DEF Domains!Fail, DomainRow, Shown
        <4> QED BY <1>0, <1>2, <3>1, <3>2, <3>9, <4>1 DEF Domains!Fail, Domains!Ends, Domains!Rest, Verifying
      <3> QED BY <3>3, <3>4, <3>5, <3>6, <3>7, <3>8, <3>9 DEF Domains!Verify
    <2> QED BY <2>1, <2>2, <2>3, <2>4 DEF Orderly, Domains!Leaving
  <1> QED BY <1>1, <1>2

\* A verification begins, of a row the job selected or a client names; a process dies.
LEMMA BeginOrderly ==
    ASSUME DomainTypes, NEW w \in Domains!Workers, NEW id \in Ids, worker[w] = Domains!Rest,
           Domains!Begin(w, id), id \in queue \/ Domains!Here(id), queue' \subseteq queue
    PROVE  /\ DomainTypes'
           /\ \A d \in Ids' : d \notin mixed' => d \in Ids /\ (d \notin mixed /\ Orderly(d) => Orderly(d)')
  <1>0. DomainTables /\ Verifying /\ Removing /\ Ids' = Ids
    BY DEF DomainTypes, Domains!Begin, Ids
  <1>1. /\ UNCHANGED <<rows, domainfile, remover, stray>>
        /\ worker' = [worker EXCEPT ![w] = [pc |-> "resolve", id |-> id]]
        /\ mixed' = IF Domains!Handled(id) THEN mixed \cup {id} ELSE mixed
    BY DEF Domains!Begin
  <1>2. DomainTypes'
    <2>1. id \in Nat
      BY <1>0, TableParts
    <2> QED BY <1>0, <1>1, <2>1 DEF DomainTypes, DomainTables, Verifying, Removing, Ids, VerifyStages, Domains!Here
  <1>3. ASSUME NEW d \in Ids, d \notin mixed', Orderly(d) PROVE Orderly(d)'
    <2>1. CASE d # id
      BY <1>0, <1>1, <1>3, <2>1, OthersOrderly DEF Verifying, Domains!Leaving
    <2>2. CASE d = id
      <3>1. ~Busy(d) /\ ~Domains!Leaving(d)
        BY <1>1, <1>3, <2>2 DEF Domains!Handled, Domains!Leaving, Busy
      <3>2. Domains!Here(d) \/ d \in stray
        BY <1>3, <2>2 DEF Orderly
      <3>3. \A v \in Domains!Workers : worker'[v].id = d => v = w /\ worker'[v].pc = "resolve"
        BY <1>0, <1>1, <3>1 DEF Verifying, Busy
      <3>4. Domains!Here(d)' = Domains!Here(d) /\ Shown(d)' = Shown(d) /\ ~Domains!Leaving(d)'
        BY <1>1, <3>1 DEF Domains!Here, Shown, Domains!Leaving
      <3> QED BY <1>1, <1>3, <3>2, <3>3, <3>4 DEF Orderly
    <2> QED BY <2>1, <2>2
  <1> QED BY <1>0, <1>2, <1>3

LEMMA DieOrderly ==
    ASSUME DomainTypes, NEW w \in Domains!Workers, Domains!Die(w)
    PROVE  DomainTypes' /\ Ids' = Ids /\ UNCHANGED mixed /\ \A d \in Ids : Orderly(d) => Orderly(d)'
  <1>0. DomainTables /\ Verifying /\ Removing /\ Ids' = Ids
    BY DEF DomainTypes, Domains!Die, Ids
  <1>1. /\ UNCHANGED <<rows, domainfile, remover, mixed, stray>> /\ queue' \subseteq queue
        /\ worker' = [worker EXCEPT ![w] = Domains!Rest]
    BY DEF Domains!Die, Domains!Ends
  <1>2. DomainTypes'
    BY <1>0, <1>1 DEF DomainTypes, DomainTables, Verifying, Removing, Ids, VerifyStages, Domains!Rest, Domains!Here
  <1>3. 0 \notin Ids
    BY <1>0, TableParts
  <1> QED BY <1>0, <1>1, <1>2, <1>3, OthersOrderly DEF Verifying, Domains!Leaving, Domains!Rest

LEMMA SelectOrderly ==
    ASSUME DomainTypes, Domains!SelectPending
    PROVE  /\ DomainTypes' /\ Ids' = Ids /\ mixed \subseteq mixed'
           /\ \A d \in Ids : d \notin mixed' /\ Orderly(d) => Orderly(d)'
  <1>0. DomainTables /\ Verifying /\ Removing /\ Ids' = Ids
    BY DEF DomainTypes, Domains!SelectPending, Ids
  <1>1. /\ UNCHANGED <<rows, domainfile, worker, remover, stray>>
        /\ mixed' = mixed \cup {id \in queue' : Domains!Handled(id)}
        /\ \A id \in queue' : id \in Ids /\ Domains!Here(id)
    BY DEF Domains!SelectPending, Domains!BatchOf, Domains!Pending, Ids
  <1>2. DomainTypes'
    BY <1>0, <1>1 DEF DomainTypes, DomainTables, Verifying, Removing, Ids, Domains!Here
  <1>3. ASSUME NEW d \in Ids, d \notin mixed', Orderly(d) PROVE Orderly(d)'
    <2>1. CASE d \notin queue'
      BY <1>0, <1>1, <1>3, <2>1, OthersOrderly DEF Domains!Leaving
    <2>2. CASE d \in queue'
      <3>1. Domains!Here(d)' /\ Shown(d)' = Shown(d) /\ ~Domains!Leaving(d)' /\ Busy(d)' = Busy(d)
        BY <1>1, <1>3, <2>2 DEF Domains!Here, Shown, Domains!Leaving, Busy, Domains!Handled
      <3> QED BY <1>1, <1>3, <3>1 DEF Orderly
    <2> QED BY <2>1, <2>2
  <1> QED BY <1>0, <1>1, <1>2, <1>3

LEMMA AddOrderly ==
    ASSUME DomainTypes, NEW h \in Sites, NEW n \in Names, Domains!AddDomain(h, n)
    PROVE  /\ DomainTypes' /\ mixed' = mixed /\ Ids \subseteq Ids'
           /\ \A d \in Ids : Orderly(d) => Orderly(d)'
           /\ \A d \in Ids' \ Ids : Orderly(d)'
  <1> DEFINE r == [name |-> n, host |-> h, dns |-> "pending", ssl |-> "pending", here |-> TRUE]
  <1>0. DomainTables /\ Verifying /\ Removing
    BY DEF DomainTypes
  <1>new. PICK new \in Nat : new = Len(rows) + 1
    BY <1>0, TableParts
  <1>1. /\ rows' = Append(rows, r) /\ domainfile' = Append(domainfile, "absent")
        /\ UNCHANGED <<queue, worker, remover, mixed, stray>>
    BY DEF Domains!AddDomain, Domains!requests
  <1>2. r \in DomainRow
    BY DEF DomainRow
  <1>3. /\ DomainTables' /\ Ids' = Ids \cup {new} /\ new \notin Ids /\ new # 0
        /\ rows'[new] = r /\ domainfile'[new] = "absent"
        /\ \A d \in Ids : rows'[d] = rows[d] /\ domainfile'[d] = domainfile[d]
    <2> HIDE DEF r
    <2>1. /\ rows' \in Seq(DomainRow) /\ Len(rows') = Len(rows) + 1
          /\ DOMAIN rows' = 1..(Len(rows) + 1) /\ rows'[Len(rows) + 1] = r
          /\ \A d \in DOMAIN rows : rows'[d] = rows[d]
      BY <1>0, <1>1, <1>2, SeqAppended DEF DomainTables
    <2>2. /\ domainfile' \in Seq({"absent", "torn", "whole"}) /\ Len(domainfile') = Len(domainfile) + 1
          /\ domainfile'[Len(domainfile) + 1] = "absent"
          /\ \A d \in DOMAIN domainfile : domainfile'[d] = domainfile[d]
      BY <1>0, <1>1, SeqAppended DEF DomainTables
    <2> QED BY <1>0, <1>new, <2>1, <2>2, TableParts DEF DomainTables, Ids
  <1>4. \A d \in Ids : Domains!Here(d)' = Domains!Here(d)
    BY <1>3 DEF Domains!Here, Ids
  <1>5. DomainTypes'
    BY <1>0, <1>1, <1>3, <1>4 DEF DomainTypes, Verifying, Removing
  <1>6. ASSUME NEW d \in Ids, Orderly(d) PROVE Orderly(d)'
    BY <1>1, <1>3, <1>6, OthersOrderly DEF Domains!Leaving
  <1>7. Orderly(new)'
    <2>1. Domains!Here(new)' /\ ~Shown(new)'
      BY <1>3 DEF Domains!Here, Shown, Ids
    <2>2. ~Busy(new)' /\ new \notin queue' /\ ~Domains!Leaving(new)'
      BY <1>0, <1>1, <1>3 DEF Busy, Domains!Leaving, Verifying, Removing, Domains!Rest
    <2> QED BY <2>1, <2>2 DEF Orderly, Busy
  <1> QED BY <1>1, <1>3, <1>5, <1>6, <1>7

LEMMA DnsOrderly ==
    ASSUME DomainTypes,
           UNCHANGED <<rows, domainfile, queue, worker, remover, mixed, stray>>
    PROVE  DomainTypes' /\ Ids' = Ids /\ \A d \in Ids : Orderly(d) => Orderly(d)'
  BY OthersOrderly DEF DomainTypes, DomainTables, Verifying, Removing, Ids, Domains!Here, Domains!Leaving

\* DELETE of a domain: the row is gone, its file is next.
LEMMA DeleteOrderly ==
    ASSUME DomainTypes, NEW id \in Ids, Domains!AskDelete(id)
    PROVE  /\ DomainTypes' /\ Ids' = Ids /\ mixed \subseteq mixed'
           /\ \A d \in Ids : d \notin mixed' /\ Orderly(d) => Orderly(d)'
  <1>0. DomainTables /\ Verifying /\ Removing
    BY DEF DomainTypes
  <1>1. /\ remover.pc = "idle" /\ remover' = [pc |-> "file", host |-> 0, ids |-> {id}]
        /\ rows' = [rows EXCEPT ![id] = [rows[id] EXCEPT !.here = FALSE]]
        /\ UNCHANGED <<domainfile, stray, queue, worker>>
        /\ mixed' = mixed \cup {d \in {id} : Domains!Handled(d) \/ d \in queue}
    BY DEF Domains!AskDelete, Domains!Removed, Domains!Busied, Domains!Quietly
  <1>2. [rows[id] EXCEPT !.here = FALSE] \in DomainRow /\ rows[id] \in DomainRow
    BY <1>0, TableParts DEF DomainRow
  <1>3. DomainTables' /\ Ids' = Ids
    BY <1>0, <1>1, <1>2, RowChanged
  <1>4. rows'[id].here = FALSE /\ \A d \in Ids : d # id => rows'[d] = rows[d]
    BY <1>0, <1>1, <1>2, TableParts DEF DomainRow
  <1>5. DomainTypes'
    BY <1>0, <1>1, <1>3, <1>4 DEF DomainTypes, Verifying, Removing, Domains!Here
  <1>6. ASSUME NEW d \in Ids, d \notin mixed', Orderly(d) PROVE Orderly(d)'
    <2>1. CASE d # id
      BY <1>1, <1>3, <1>4, <1>6, <2>1, OthersOrderly DEF Domains!Leaving
    <2>2. CASE d = id
      <3>1. ~Busy(d) /\ d \notin queue
        BY <1>1, <1>6, <2>2 DEF Domains!Handled, Domains!Leaving, Busy
      <3>2. ~Domains!Here(d)' /\ ~Shown(d)' /\ ~Busy(d)'
        BY <1>1, <1>4, <2>2, <3>1 DEF Domains!Here, Shown, Busy
      <3> QED BY <1>1, <2>2, <3>1, <3>2 DEF Orderly, Busy
    <2> QED BY <2>1, <2>2
  <1> QED BY <1>1, <1>3, <1>5, <1>6

LEMMA TerminateAsked ==
    ASSUME DomainTypes, NEW h \in Sites, Domains!AskTerminate(h)
    PROVE  /\ DomainTypes' /\ Ids' = Ids /\ mixed \subseteq mixed'
           /\ \A d \in Ids : d \notin mixed' /\ Orderly(d) => Orderly(d)'
  <1>0. DomainTables /\ Verifying /\ Removing
    BY DEF DomainTypes
  <1> DEFINE R == Domains!RowsOf(h)
  <1>1. /\ remover.pc = "idle" /\ remover' = [pc |-> "domains", host |-> h, ids |-> R]
        /\ UNCHANGED <<rows, domainfile, stray, queue, worker>>
        /\ mixed' = mixed \cup {d \in R : Domains!Handled(d) \/ d \in queue}
    BY DEF Domains!AskTerminate, Domains!Busied, Domains!Quietly
  <1>2. R \subseteq Ids /\ \A d \in R : Domains!Here(d)
    BY DEF Domains!RowsOf, Ids
  <1> HIDE DEF R
  <1>3. Ids' = Ids /\ DomainTypes'
    BY <1>0, <1>1, <1>2 DEF DomainTypes, DomainTables, Verifying, Removing, Ids
  <1>4. ASSUME NEW d \in Ids, d \notin mixed', Orderly(d) PROVE Orderly(d)'
    <2>1. CASE d \notin R
      BY <1>1, <1>3, <1>4, <2>1, OthersOrderly DEF Domains!Leaving
    <2>2. CASE d \in R
      <3>1. ~Busy(d) /\ d \notin queue
        BY <1>1, <1>4, <2>2 DEF Domains!Handled, Domains!Leaving, Busy
      <3>2. Domains!Here(d)' /\ Shown(d)' = Shown(d) /\ ~Busy(d)'
        BY <1>1, <1>2, <2>2, <3>1 DEF Domains!Here, Shown, Busy
      <3> QED BY <1>1, <1>4, <3>1, <3>2 DEF Orderly, Busy
    <2> QED BY <2>1, <2>2
  <1> QED BY <1>1, <1>3, <1>4

\* A domain of a terminated hosting goes, or its file without its row.
LEMMA TerminateOrderly ==
    ASSUME DomainTypes, NEW id \in Ids, Domains!TerminateDomain(id)
    PROVE  /\ DomainTypes' /\ Ids' = Ids /\ mixed' = mixed
           /\ \A d \in Ids : Orderly(d) => Orderly(d)'
  <1>0. DomainTables /\ Verifying /\ Removing
    BY DEF DomainTypes
  <1> DEFINE gone == [rows[id] EXCEPT !.here = FALSE]
  <1>1. /\ remover.pc = "domains" /\ id \in remover.ids
        /\ remover' = [remover EXCEPT !.ids = @ \ {id}]
        /\ UNCHANGED <<mixed, queue, worker>>
    BY DEF Domains!TerminateDomain, Domains!Quietly
  <1>2. /\ rows' = [rows EXCEPT ![id] = gone] \/ (rows' = [rows EXCEPT ![id] = rows[id]] /\ id \in stray')
        /\ domainfile' = [domainfile EXCEPT ![id] = "absent"] \/ (UNCHANGED domainfile /\ id \in stray')
        /\ stray \subseteq stray'
    BY <1>0, TableParts DEF Domains!TerminateDomain, Domains!Removed, Domains!Unlinked, Domains!RowKept
  <1>3. gone \in DomainRow /\ rows[id] \in DomainRow /\ gone.here = FALSE
    BY <1>0, TableParts DEF DomainRow
  <1> HIDE DEF gone
  <1>4. DomainTables' /\ Ids' = Ids
    BY <1>0, <1>2, <1>3, BothChanged
  <1>5. /\ domainfile'[id] = "absent" \/ id \in stray'
        /\ rows'[id] = gone \/ (rows'[id] = rows[id] /\ id \in stray')
        /\ \A d \in Ids : d # id => rows'[d] = rows[d] /\ domainfile'[d] = domainfile[d]
    BY <1>0, <1>2, <1>3, TableParts
  <1>6. remover' \in [pc : {"idle", "file", "domains"}, host : Sites \cup {0}, ids : SUBSET Ids]
        /\ remover'.pc = "domains" /\ remover'.ids = remover.ids \ {id}
    BY <1>0, <1>1 DEF Removing
  <1>7. DomainTypes'
    BY <1>0, <1>1, <1>4, <1>6 DEF DomainTypes, Verifying, Removing
  <1>8. ASSUME NEW d \in Ids, Orderly(d) PROVE Orderly(d)'
    <2>1. CASE d # id
      BY <1>1, <1>2, <1>4, <1>5, <1>6, <1>8, <2>1, OthersOrderly DEF Domains!Leaving
    <2>2. CASE d = id
      <3>1. ~Busy(d) /\ d \notin queue
        BY <1>1, <1>8, <2>2 DEF Orderly, Domains!Leaving
      <3>2. ~Busy(d)' /\ d \notin queue' /\ ~Domains!Leaving(d)'
        BY <1>1, <1>6, <2>2, <3>1 DEF Busy, Domains!Leaving
      <3>3. Shown(d)' => d \in stray'
        BY <1>3, <1>5, <2>2 DEF Domains!Here, Shown
      <3> QED BY <1>5, <2>2, <3>2, <3>3 DEF Orderly, Busy
    <2> QED BY <2>1, <2>2
  <1> QED BY <1>1, <1>4, <1>7, <1>8

\* A removal that dies leaves, of a deletion, a stray file.
LEMMA RemoverDiesOrderly ==
    ASSUME DomainTypes, Domains!RemoverDies
    PROVE  /\ DomainTypes' /\ Ids' = Ids /\ mixed' = mixed
           /\ \A d \in Ids : Orderly(d) => Orderly(d)'
  <1>1. /\ remover' = [pc |-> "idle", host |-> 0, ids |-> {}]
        /\ UNCHANGED <<rows, domainfile, mixed, queue, worker>> /\ stray \subseteq stray'
        /\ remover.pc = "file" => remover.ids \subseteq stray'
    BY DEF Domains!RemoverDies, Domains!Quietly
  <1>2. DomainTypes' /\ Ids' = Ids
    BY <1>1 DEF DomainTypes, DomainTables, Verifying, Removing, Ids
  <1>3. ASSUME NEW d \in Ids, Orderly(d) PROVE Orderly(d)'
    <2>1. Domains!Here(d)' = Domains!Here(d) /\ Shown(d)' = Shown(d) /\ Busy(d)' = Busy(d)
      BY <1>1 DEF Domains!Here, Shown, Busy
    <2>2. ~Domains!Leaving(d)'
      BY <1>1 DEF Domains!Leaving
    <2> QED BY <1>1, <1>3, <2>1, <2>2 DEF Orderly
  <1> QED BY <1>1, <1>2, <1>3

LEMMA FileOrderly ==
    ASSUME DomainTypes, Domains!DeleteFile
    PROVE  /\ DomainTypes' /\ Ids' = Ids /\ mixed' = mixed
           /\ \A d \in Ids : Orderly(d) => Orderly(d)'
  <1>0. DomainTables /\ Verifying /\ Removing
    BY DEF DomainTypes
  <1>1. PICK id \in Ids : remover.ids = {id} /\ ~Domains!Here(id) /\ remover.pc = "file"
    BY <1>0 DEF Domains!DeleteFile, Removing
  <1>2. /\ remover' = [pc |-> "idle", host |-> 0, ids |-> {}]
        /\ UNCHANGED <<rows, mixed, queue, worker>>
        /\ \/ domainfile' = [domainfile EXCEPT ![id] = "absent"] /\ UNCHANGED stray
           \/ UNCHANGED domainfile /\ stray' = stray \cup {id}
    BY <1>1 DEF Domains!DeleteFile, Domains!Unlinked, Domains!Quietly
  <1>3. DomainTables' /\ Ids' = Ids
    <2>1. CASE UNCHANGED domainfile
      BY <1>0, <1>2, <2>1 DEF DomainTables, Ids
    <2> QED BY <1>0, <1>2, <2>1, FileChanged
  <1>4. /\ domainfile'[id] = "absent" \/ id \in stray'
        /\ \A d \in Ids : d # id => domainfile'[d] = domainfile[d]
    BY <1>0, <1>2, TableParts
  <1>5. DomainTypes'
    BY <1>0, <1>2, <1>3 DEF DomainTypes, Verifying, Removing
  <1>6. ASSUME NEW d \in Ids, Orderly(d) PROVE Orderly(d)'
    <2>1. CASE d # id
      BY <1>1, <1>2, <1>3, <1>4, <1>6, <2>1, OthersOrderly DEF Domains!Leaving
    <2>2. CASE d = id
      <3>1. ~Busy(d) /\ d \notin queue
        BY <1>1, <1>6, <2>2 DEF Orderly, Domains!Leaving
      <3>2. ~Domains!Here(d)' /\ ~Shown(d)' /\ ~Busy(d)' /\ d \notin queue' /\ ~Domains!Leaving(d)'
        BY <1>1, <1>2, <2>2, <3>1 DEF Domains!Here, Shown, Busy, Domains!Leaving
      <3> QED BY <1>4, <2>2, <3>2 DEF Orderly, Busy
    <2> QED BY <2>1, <2>2
  <1> QED BY <1>2, <1>3, <1>5, <1>6

LEMMA TerminatedOrderly ==
    ASSUME DomainTypes, NEW h \in Sites, Domains!DomainsTerminated(h)
    PROVE  /\ DomainTypes' /\ Ids' = Ids /\ mixed' = mixed
           /\ \A d \in Ids : Orderly(d) => Orderly(d)'
  BY OthersOrderly DEF DomainTypes, DomainTables, Verifying, Removing, Ids, Domains!Leaving, Domains!DomainsTerminated, Domains!Quietly

\* ON DELETE CASCADE: the files that stay are known as strays.
LEMMA CascadeOrderly ==
    ASSUME DomainTypes, NEW h \in Sites, Domains!Cascade(h)
    PROVE  /\ DomainTypes' /\ Ids' = Ids /\ mixed' = mixed
           /\ \A d \in Ids : Orderly(d) => Orderly(d)'
  <1>0. DomainTables /\ Verifying /\ Removing
    BY DEF DomainTypes
  <1>1. /\ UNCHANGED <<domainfile, queue, worker, remover, mixed>>
        /\ stray' = stray \cup Domains!RowsOf(h)
        /\ rows' = [d \in Ids |-> [rows[d] EXCEPT !.here = @ /\ d \notin Domains!RowsOf(h)]]
    BY DEF Domains!Cascade, Domains!requests, Ids
  <1>2. \A d \in Ids : rows[d] \in DomainRow
    BY <1>0, TableParts
  <1>3. rows' \in [Ids -> DomainRow]
    BY <1>1, <1>2 DEF DomainRow
  <1>4. DomainTables' /\ Ids' = Ids
    BY <1>0, <1>1, <1>3, SeqRewritten DEF DomainTables, Ids
  <1>5. \A d \in Ids : /\ rows'[d].here = (rows[d].here /\ d \notin Domains!RowsOf(h))
                       /\ rows'[d].ssl = rows[d].ssl
    BY <1>1, <1>2 DEF DomainRow
  <1>6. \A d \in Ids : /\ Domains!Here(d)' => Domains!Here(d)
                       /\ Domains!Here(d) /\ ~Domains!Here(d)' => d \in stray'
    BY <1>1, <1>2, <1>5 DEF Domains!Here, Ids, DomainRow
  <1>7. DomainTypes'
    BY <1>0, <1>1, <1>4, <1>6 DEF DomainTypes, Verifying, Removing
  <1>8. ASSUME NEW d \in Ids, Orderly(d) PROVE Orderly(d)'
    <2>1. Shown(d)' => Shown(d)
      BY <1>5, <1>6 DEF Shown
    <2>2. (Busy(d)' => Busy(d)) /\ (Domains!Leaving(d)' = Domains!Leaving(d))
      BY <1>1 DEF Busy, Domains!Leaving
    <2> QED BY <1>1, <1>6, <1>8, <2>1, <2>2 DEF Orderly
  <1> QED BY <1>1, <1>4, <1>7, <1>8

DomainStable ==
    UNCHANGED <<rows, domainfile, queue, worker, remover, mixed, stray>>

LEMMA DomainNextOrderly ==
    ASSUME DomainTypes, Domains!DomainNext
    PROVE  /\ DomainTypes' /\ Ids \subseteq Ids' /\ mixed \subseteq mixed'
           /\ \A d \in Ids : d \notin mixed' /\ Orderly(d) => Orderly(d)'
           /\ \A d \in Ids' \ Ids : Orderly(d)'
  <1>1. CASE \E h \in Sites, n \in Names : Domains!AddDomain(h, n)
    BY <1>1, AddOrderly
  <1>2. CASE \E n \in Names : Domains!PointDns(n)
    BY <1>2, DnsOrderly DEF Domains!PointDns, Domains!requests
  <1>3. CASE Domains!SelectPending
    BY <1>3, SelectOrderly
  <1>4. CASE Domains!JobTakes
    <2>1. PICK id \in queue : Domains!Begin("job", id) /\ queue' = queue \ {id}
      BY <1>4 DEF Domains!JobTakes
    <2>2. /\ "job" \in Domains!Workers /\ worker["job"] = Domains!Rest /\ id \in Ids
      BY <1>4, <2>1 DEF Domains!JobTakes, Domains!Workers, DomainTypes, Verifying
    <2>3. Ids' = Ids /\ mixed \subseteq mixed'
      BY <2>1 DEF Domains!Begin, Ids
    <2> QED BY <2>1, <2>2, <2>3, BeginOrderly
  <1>5. CASE \E c \in Clients, id \in Ids : Domains!AskVerify(c, id)
    <2>1. PICK c \in Clients, id \in Ids : Domains!AskVerify(c, id)
      BY <1>5
    <2>2. /\ c \in Domains!Workers /\ worker[c] = Domains!Rest /\ Domains!Here(id) /\ Domains!Begin(c, id)
          /\ queue' = queue
      BY <2>1 DEF Domains!AskVerify, Domains!Workers
    <2>3. Ids' = Ids /\ mixed \subseteq mixed'
      BY <2>2 DEF Domains!Begin, Ids
    <2> QED BY <2>2, <2>3, BeginOrderly
  <1>6. CASE \E w \in Domains!Workers : Domains!Verify(w)
    BY <1>6, VerifyTypes, VerifyOrderly
  <1>7. CASE \E w \in Domains!Workers : Domains!Die(w)
    BY <1>7, DieOrderly
  <1>8. CASE \E id \in Ids : Domains!AskDelete(id)
    BY <1>8, DeleteOrderly
  <1>9. CASE \E h \in Sites : Domains!AskTerminate(h)
    BY <1>9, TerminateAsked
  <1>10. CASE Domains!Removal
    BY <1>10, FileOrderly, TerminateOrderly DEF Domains!Removal, Ids
  <1>11. CASE Domains!RemoverDies
    BY <1>11, RemoverDiesOrderly
  <1> QED
    BY <1>1, <1>2, <1>3, <1>4, <1>5, <1>6, <1>7, <1>8, <1>9, <1>10, <1>11 DEF Domains!DomainNext, Ids

LEMMA RoutesMoveDomains ==
    ASSUME [RoutesNext]_<<rvars, dvars>>
    PROVE  \/ Domains!DomainNext
           \/ \E h \in Sites : Domains!DomainsTerminated(h) \/ Domains!Cascade(h)
           \/ DomainStable
  BY DEF RoutesNext, GuardStep, Deletion, DeleteRowAndDomains, TerminateGoesOn, dvars, DomainStable

LEMMA DomainInvNext == DomainInv /\ [RoutesNext]_<<rvars, dvars>> => DomainInv'
  <1> SUFFICES ASSUME DomainInv, [RoutesNext]_<<rvars, dvars>> PROVE DomainInv'
    OBVIOUS
  <1>0. DomainTypes /\ \A d \in Ids : d \notin mixed => Orderly(d)
    BY DEF DomainInv
  <1>1. CASE Domains!DomainNext
    BY <1>0, <1>1, DomainNextOrderly DEF DomainInv
  <1>2. CASE \E h \in Sites : Domains!DomainsTerminated(h) \/ Domains!Cascade(h)
    BY <1>0, <1>2, TerminatedOrderly, CascadeOrderly DEF DomainInv
  <1>3. CASE DomainStable
    BY <1>0, <1>3, DnsOrderly DEF DomainInv, DomainStable
  <1> QED BY <1>1, <1>2, <1>3, RoutesMoveDomains

LEMMA DomainInvInit == RoutesInit => DomainInv
  <1> SUFFICES ASSUME RoutesInit PROVE DomainInv
    OBVIOUS
  <1>1. /\ rows = << >> /\ domainfile = << >> /\ queue = {} /\ worker = [w \in Domains!Workers |-> Domains!Rest]
        /\ remover = [pc |-> "idle", host |-> 0, ids |-> {}]
    BY DEF RoutesInit, Domains!DomainInit
  <1>2. DomainTables /\ Ids = {}
    BY <1>1 DEF DomainTables, Ids
  <1>3. Verifying /\ Removing
    BY <1>1, <1>2 DEF Verifying, Removing, Domains!Rest, VerifyStages
  <1> QED BY <1>2, <1>3 DEF DomainInv, DomainTypes

\* A domain that is said to be served has its route, and one that is gone leaves none.
THEOREM DomainRoutesFollowRows == RoutesSpec => []DomainRoutesMatch
  <1>1. DomainInv => DomainRoutesMatch
    <2> SUFFICES ASSUME DomainInv, NEW id \in Ids, Domains!Apart(id), id \notin stray,
                        ~Domains!Leaving(id)
                 PROVE  Domains!Matches(id)
      BY DEF DomainRoutesMatch, Domains!Matches, Ids
    <2>1. Orderly(id)
      BY DEF DomainInv, Domains!Apart
    <2> QED BY <2>1 DEF Orderly, Shown, Domains!Leaving, Domains!Matches
  <1> QED BY <1>1, DomainInvInit, DomainInvNext, PTL DEF RoutesSpec
===============================================================================
