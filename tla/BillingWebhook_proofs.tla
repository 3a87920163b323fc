------------------------ MODULE BillingWebhook_proofs ------------------------
(***************************************************************************)
(* Type correctness of BillingWebhook, and that no plan is active without  *)
(* an approved payment for it, for any number of payments, users, requests *)
(* and notifications.                                                      *)
(*                                                                         *)
(* PlanPaid alone is not inductive: the status a task fetched may be older *)
(* than what MercadoPago says when the account is written.  IInv adds that *)
(* whatever was fetched as approved was approved once, and paid remembers  *)
(* that.  The protection of sites, which runs beside it in Backoffice,     *)
(* writes none of it.                                                      *)
(*                                                                         *)
(* The second half is SiteImport, for any number of imports, uploads,      *)
(* restarts and faults: an import that has ended leaves no upload behind,  *)
(* and one reported completed is on the site whole.  ImportInv says who    *)
(* still has to see to an upload (Tended), that a pipeline at the site     *)
(* works for a row in progress (Working), that only one import at a time   *)
(* is on its way there (Single), and what its stages so far have put there *)
(* (Done).                                                                 *)
(***************************************************************************)
EXTENDS Backoffice, SiteImport, TLAPS

\* Whoever is approved now has been approved.
ApprovedPaid == \A p \in Payments : Approved(p) => p \in paid

\* A request in progress has a notification, and what it fetched as approved was approved.
Noted(q) ==
    /\ work[q].pc # "idle" => work[q].note \in Notification
    /\ (/\ work[q].pc = "fetched"
        /\ EventType(work[q].note.pay, work[q].got) = "payment_approved")
          => work[q].note.pay \in paid

IInv == TypeOK /\ ApprovedPaid /\ (\A q \in Requests : Noted(q)) /\ PlanPaid

-----------------------------------------------------------------------------
\* The parts of the assumption, for the provers.
LEMMA Bounds == MaxEvents \in Nat /\ MaxFailures \in Nat
  BY BillingAssumption, Zenon

LEMMA Payment ==
  ASSUME NEW p \in Payments
  PROVE  /\ Owner[p] \in Users /\ PlanOf[p] \in Plans \cup {""} /\ Payer[p] \in Payers
         /\ p \notin Referenced => PlanOf[p] = ""
  BY BillingAssumption, Zenon

LEMMA IdleTaskType == IdleTask \in Task /\ IdleTask.pc = "idle"
  BY DEF IdleTask, Task, Statuses

LEMMA NewAccountType == NewAccount \in Account /\ NewAccount.plan = "free"
  BY BillingAssumption DEF NewAccount, Account

LEMMA NoteType == \A note \in Notification : note.pay \in Payments /\ ActionOf(note) \in Actions
  BY DEF Notification, ActionOf, Actions

LEMMA NextStatusType == \A p \in Payments : NextStatus(p) \subseteq Statuses
  BY DEF NextStatus, Statuses

LEMMA UsersForType == \A p \in Payments : UsersFor(p) \subseteq Users
<1> SUFFICES ASSUME NEW p \in Payments PROVE UsersFor(p) \subseteq Users
  OBVIOUS
<1>1. CASE p \in Referenced
  BY <1>1, Payment DEF UsersFor
<1>2. CASE p \notin Referenced /\ Payer[p] = ""
  BY <1>2 DEF UsersFor
<1>3. CASE p \notin Referenced /\ Payer[p] # ""
  BY <1>3 DEF UsersFor
<1>4. QED
  BY <1>1, <1>2, <1>3

\* A row written by an approval.
ActiveRow(v, c, x, y) ==
    [plan |-> v, status |-> "active", customer |-> c, payment |-> x, subscription |-> y]

\* Writing one column of a row.
LEMMA ColumnType ==
  ASSUME NEW b \in Account
  PROVE  /\ \A v \in {"none", "active", "past_due", "pending"} :
              /\ [b EXCEPT !.status = v] \in Account
              /\ [b EXCEPT !.status = v].plan = b.plan
         /\ \A v \in Payers :
              /\ [b EXCEPT !.customer = v] \in Account
              /\ [b EXCEPT !.customer = v].plan = b.plan
         /\ \A v \in Payments \cup {""} :
              /\ [b EXCEPT !.payment = v] \in Account
              /\ [b EXCEPT !.payment = v].plan = b.plan
  BY DEF Account

\* What update_billing_subscription leaves is a row, and only an approval changes the plan.
LEMMA UpdatedType ==
  ASSUME NEW a \in Account, NEW p \in Payments, NEW type,
         type = "payment_approved" => PlanOf[p] # ""
  PROVE  /\ Updated(a, p, type) \in Account
         /\ Updated(a, p, type).plan = IF type = "payment_approved" THEN PlanOf[p] ELSE a.plan
<1>1. /\ Payer[p] \in Payers
      /\ PaymentId(p) \in Payments \cup {""} /\ SubscriptionId(p) \in Payments \cup {""}
  BY Payment DEF PaymentId, SubscriptionId
<1>2. type = "payment_approved" => PlanOf[p] \in Plans
  BY Payment
<1>3. a.plan \in Plans \cup {"free"}
  BY DEF Account
<1>4. CASE type = "payment_approved"
  <2>1. Updated(a, p, type) = ActiveRow(PlanOf[p], Payer[p], PaymentId(p), SubscriptionId(p))
    BY <1>4 DEF Updated, PlanAfter, ActiveRow
  <2>2. PlanOf[p] \in Plans
    BY <1>2, <1>4
  <2> DEFINE v == PlanOf[p]
             c == Payer[p]
             x == PaymentId(p)
             y == SubscriptionId(p)
  <2>3. /\ v \in Plans /\ c \in Payers
        /\ x \in Payments \cup {""} /\ y \in Payments \cup {""}
    BY <1>1, <2>2
  <2>4. Updated(a, p, type) = ActiveRow(v, c, x, y)
    BY <2>1
  <2> HIDE DEF v, c, x, y
  <2>5. ActiveRow(v, c, x, y) \in Account /\ ActiveRow(v, c, x, y).plan = v
    BY <2>3 DEF ActiveRow, Account
  <2>6. QED
    BY <1>4, <2>4, <2>5 DEF v
<1>5. CASE type = "payment_failed"
  <2> DEFINE b == [a EXCEPT !.status = "past_due"]
             c == [b EXCEPT !.payment = PaymentId(p)]
  <2>1. b \in Account /\ b.plan = a.plan
    BY ColumnType
  <2>2. c \in Account /\ c.plan = a.plan
    BY <1>1, <2>1, ColumnType
  <2>3. [c EXCEPT !.customer = Payer[p]] \in Account
        /\ [c EXCEPT !.customer = Payer[p]].plan = a.plan
    BY <1>1, <2>2, ColumnType
  <2>4. Updated(a, p, type) = [a EXCEPT !.plan = a.plan, !.status = "past_due",
                                        !.payment = PaymentId(p), !.customer = Payer[p]]
    BY <1>5 DEF Updated, PlanAfter
  <2>5. [a EXCEPT !.plan = a.plan] = a
    BY DEF Account
  <2>6. QED
    BY <1>5, <2>3, <2>4, <2>5
<1>6. CASE type = "payment_pending"
  <2> DEFINE b == [a EXCEPT !.status = "pending"]
  <2>1. b \in Account /\ b.plan = a.plan
    BY ColumnType
  <2>2. [b EXCEPT !.payment = PaymentId(p)] \in Account
        /\ [b EXCEPT !.payment = PaymentId(p)].plan = a.plan
    BY <1>1, <2>1, ColumnType
  <2>3. Updated(a, p, type) = [a EXCEPT !.plan = a.plan, !.status = "pending",
                                        !.payment = PaymentId(p)]
    BY <1>6 DEF Updated, PlanAfter
  <2>4. [a EXCEPT !.plan = a.plan] = a
    BY DEF Account
  <2>5. QED
    BY <1>6, <2>2, <2>3, <2>4
<1>7. CASE type \notin {"payment_approved", "payment_failed", "payment_pending"}
  BY <1>7 DEF Updated
<1>8. QED
  BY <1>4, <1>5, <1>6, <1>7

LEMMA BillingInit == Init => IInv
<1> SUFFICES ASSUME Init PROVE IInv
  OBVIOUS
<1>1. TypeOK
  <2>1. status \in [Payments -> Statuses]
    BY DEF Init, Statuses
  <2>2. work \in [Requests -> Task] /\ account \in [Users -> Account]
    BY IdleTaskType, NewAccountType DEF Init
  <2>3. events \in [Payments -> 0..MaxEvents] /\ failures \in 0..MaxFailures
    BY Bounds DEF Init
  <2>4. unanswered \subseteq Notification /\ processed \subseteq Actions \X Payments
        /\ paid \subseteq Payments
    BY DEF Init
  <2>5. QED
    BY <2>1, <2>2, <2>3, <2>4 DEF TypeOK
<1>2. ApprovedPaid
  BY DEF Init, ApprovedPaid, Approved, EventType
<1>3. \A q \in Requests : Noted(q)
  BY IdleTaskType DEF Init, Noted
<1>4. PlanPaid
  BY NewAccountType DEF Init, PlanPaid
<1>5. QED
  BY <1>1, <1>2, <1>3, <1>4 DEF IInv

-----------------------------------------------------------------------------
\* MercadoPago's own steps.
LEMMA ChangeStep ==
  ASSUME IInv, NEW p \in Payments, Change(p)
  PROVE  IInv'
<1>1. PICK s \in NextStatus(p) :
        /\ status' = [status EXCEPT ![p] = s]
        /\ paid' = IF EventType(p, s) = "payment_approved" THEN paid \cup {p} ELSE paid
  BY DEF Change
<1>2. UNCHANGED <<processed, work, account, failures>> /\ paid \subseteq paid'
  BY <1>1 DEF Change
<1>3. TypeOK'
  <2>1. s \in Statuses
    BY <1>1, NextStatusType
  <2>2. [pay |-> p, n |-> events[p] + 1] \in Notification
        /\ events' \in [Payments -> 0..MaxEvents]
    <3>1. events \in [Payments -> 0..MaxEvents] /\ events[p] < MaxEvents
      BY DEF Change, IInv, TypeOK
    <3>2. events[p] + 1 \in 1..MaxEvents /\ events[p] + 1 \in 0..MaxEvents
      BY <3>1, Bounds
    <3>3. events' = [events EXCEPT ![p] = events[p] + 1]
      BY DEF Change
    <3>4. QED
      BY <3>1, <3>2, <3>3 DEF Notification
  <2>3. QED
    BY <1>1, <1>2, <2>1, <2>2 DEF Change, IInv, TypeOK
<1>4. ApprovedPaid'
  BY <1>1, <1>2 DEF IInv, TypeOK, ApprovedPaid, Approved
<1>5. \A q \in Requests : Noted(q)'
  BY <1>2 DEF IInv, Noted
<1>6. PlanPaid'
  BY <1>2 DEF IInv, PlanPaid
<1>7. QED
  BY <1>3, <1>4, <1>5, <1>6 DEF IInv

\* The endpoint: a new notification, or one already processed.
LEMMA ReceiveStep ==
  ASSUME IInv, NEW q \in Requests, NEW note \in unanswered, Receive(q, note)
  PROVE  IInv'
<1>1. note \in Notification /\ work[q] \in Task
  BY DEF IInv, TypeOK
<1>2. /\ UNCHANGED <<status, events, processed, account, failures, paid>>
      /\ unanswered' \subseteq unanswered
  BY DEF Receive
<1>3. \/ work' = work
      \/ work' = [work EXCEPT ![q] = [@ EXCEPT !.pc = "checked", !.note = note]]
  BY DEF Receive
<1>4. [work[q] EXCEPT !.pc = "checked", !.note = note] \in Task
  BY <1>1 DEF Task
<1>5. TypeOK'
  BY <1>2, <1>3, <1>4 DEF IInv, TypeOK
<1>6. \A r \in Requests : Noted(r)'
  <2>1. work'[q] = work[q]
        \/ (work'[q].pc = "checked" /\ work'[q].note = note)
    BY <1>1, <1>3 DEF IInv, TypeOK, Task
  <2>2. \A r \in Requests \ {q} : work'[r] = work[r]
    BY <1>3 DEF IInv, TypeOK
  <2>3. QED
    BY <1>1, <1>2, <2>1, <2>2 DEF IInv, Noted
<1>7. QED
  BY <1>2, <1>5, <1>6 DEF IInv, ApprovedPaid, Approved, PlanPaid

\* The steps of a request that leave the account alone.
LEMMA RequestStep ==
  ASSUME IInv, NEW q \in Requests, MarkProcessed(q) \/ Fetch(q) \/ Fail(q)
  PROVE  IInv'
<1>1. /\ UNCHANGED <<status, events, account, paid>>
      /\ unanswered' \subseteq unanswered
  BY DEF MarkProcessed, Fetch, Fail
<1>2. work[q] \in Task /\ work[q].pc # "idle" /\ work[q].note \in Notification
  BY DEF IInv, TypeOK, Noted, MarkProcessed, Fetch, Fail
<1>3. work[q].note.pay \in Payments /\ EventKey(work[q].note) \in Actions \X Payments
  BY <1>2, NoteType DEF EventKey
<1>4. PICK t \in Task :
        /\ work' = [work EXCEPT ![q] = t]
        /\ \/ t.pc = "queued" /\ t.note = work[q].note
           \/ t.pc = "fetched" /\ t.note = work[q].note /\ t.got = status[t.note.pay]
           \/ t.pc = "idle"
  <2>1. CASE MarkProcessed(q)
    <3>1. /\ work' = [work EXCEPT ![q] = [work[q] EXCEPT !.pc = "queued"]]
          /\ [work[q] EXCEPT !.pc = "queued"] \in Task
          /\ [work[q] EXCEPT !.pc = "queued"].pc = "queued"
          /\ [work[q] EXCEPT !.pc = "queued"].note = work[q].note
      BY <1>2, <2>1 DEF MarkProcessed, Task
    <3>2. QED
      BY <3>1
  <2>2. CASE Fetch(q)
    <3> DEFINE t == [work[q] EXCEPT !.pc = "fetched", !.got = status[work[q].note.pay]]
    <3>1. status[work[q].note.pay] \in Statuses
      BY <1>3 DEF IInv, TypeOK
    <3>2. t \in Task /\ t.pc = "fetched" /\ t.note = work[q].note
          /\ t.got = status[work[q].note.pay]
      BY <1>2, <3>1 DEF Task
    <3>3. work' = [work EXCEPT ![q] = t]
      BY <2>2 DEF Fetch
    <3>4. QED
      BY <3>2, <3>3
  <2>3. CASE Fail(q)
    BY <2>3, IdleTaskType DEF Fail
  <2>4. QED
    BY <2>1, <2>2, <2>3
<1>5. TypeOK'
  <2>1. processed' \subseteq Actions \X Payments /\ failures' \in 0..MaxFailures
    <3>1. processed \subseteq Actions \X Payments /\ failures \in 0..MaxFailures
      BY DEF IInv, TypeOK
    <3>2. processed' = processed \/ processed' = processed \cup {EventKey(work[q].note)}
      BY DEF MarkProcessed, Fetch, Fail
    <3>3. failures' = failures \/ (failures < MaxFailures /\ failures' = failures + 1)
      BY DEF MarkProcessed, Fetch, Fail
    <3>4. failures' \in 0..MaxFailures
      BY <3>1, <3>3, Bounds
    <3>5. QED
      BY <1>3, <3>1, <3>2, <3>4
  <2>2. work' \in [Requests -> Task]
    BY <1>4 DEF IInv, TypeOK
  <2>3. QED
    BY <1>1, <2>1, <2>2 DEF IInv, TypeOK
<1>6. \A r \in Requests : Noted(r)'
  <2>1. work'[q] = t /\ \A r \in Requests \ {q} : work'[r] = work[r]
    BY <1>4 DEF IInv, TypeOK
  <2>2. Noted(q)'
    BY <1>1, <1>2, <1>3, <1>4, <2>1 DEF IInv, Noted, ApprovedPaid, Approved
  <2>3. QED
    BY <1>1, <2>1, <2>2 DEF IInv, Noted
<1>7. QED
  BY <1>1, <1>5, <1>6 DEF IInv, ApprovedPaid, Approved, PlanPaid

\* The account is written: an approval brings its own payment.
LEMMA ApplyStep ==
  ASSUME IInv, NEW q \in Requests, Apply(q)
  PROVE  IInv'
<1> DEFINE p == work[q].note.pay
           type == EventType(p, work[q].got)
<1>1. p \in Payments
  BY NoteType DEF IInv, TypeOK, Noted, Apply
<1>2. /\ UNCHANGED <<status, events, unanswered, processed, failures, paid>>
      /\ work' = [work EXCEPT ![q] = IdleTask]
  BY DEF Apply
<1>3. \/ account' = account
      \/ /\ type = "payment_approved" => PlanOf[p] # ""
         /\ \E u \in UsersFor(p) : account' = [account EXCEPT ![u] = Updated(account[u], p, type)]
  BY DEF Apply
<1>4. \A r \in Requests : Noted(r)'
  BY <1>2, IdleTaskType DEF IInv, TypeOK, Noted
<1>5. CASE account' = account
  BY <1>2, <1>4, <1>5, IdleTaskType DEF IInv, TypeOK, ApprovedPaid, Approved, PlanPaid
<1>6. CASE account' # account
  <2>1. PICK u \in UsersFor(p) : account' = [account EXCEPT ![u] = Updated(account[u], p, type)]
    BY <1>3, <1>6
  <2>2. u \in Users /\ account[u] \in Account
    BY <1>1, UsersForType DEF IInv, TypeOK
  <2>3. /\ Updated(account[u], p, type) \in Account
        /\ Updated(account[u], p, type).plan =
              IF type = "payment_approved" THEN PlanOf[p] ELSE account[u].plan
    BY <1>1, <1>3, <1>6, <2>2, UpdatedType
  <2>4. TypeOK'
    BY <1>2, <2>1, <2>2, <2>3, IdleTaskType DEF IInv, TypeOK
  <2>5. type = "payment_approved" => p \in paid \cap Referenced /\ Owner[p] = u
    <3>1. type = "payment_approved" => p \in paid /\ p \in Referenced
      BY <1>1, <1>3, <1>6, Payment DEF IInv, Noted, Apply
    <3>2. QED
      BY <2>1, <3>1 DEF UsersFor
  <2>6. PlanPaid'
    <3>1. account'[u] = Updated(account[u], p, type)
          /\ \A v \in Users \ {u} : account'[v] = account[v]
      BY <2>1, <2>2 DEF IInv, TypeOK
    <3>2. QED
      BY <1>2, <2>2, <2>3, <2>5, <3>1 DEF IInv, PlanPaid
  <2>7. QED
    BY <1>2, <1>4, <2>4, <2>6 DEF IInv, ApprovedPaid, Approved
<1>7. QED
  BY <1>5, <1>6

LEMMA BillingNext == IInv /\ [Next]_vars => IInv'
<1> SUFFICES ASSUME IInv, [Next]_vars PROVE IInv'
  OBVIOUS
<1>1. CASE \E p \in Payments : Change(p)
  BY <1>1, ChangeStep
<1>2. CASE \E q \in Requests : \E note \in unanswered : Receive(q, note)
  BY <1>2, ReceiveStep
<1>3. CASE \E q \in Requests : Handle(q) \/ Fail(q)
  BY <1>3, RequestStep, ApplyStep DEF Handle
<1>4. CASE UNCHANGED vars
  BY <1>4 DEF vars, IInv, TypeOK, ApprovedPaid, Approved, Noted, PlanPaid
<1>5. QED
  BY <1>1, <1>2, <1>3, <1>4 DEF Next

-----------------------------------------------------------------------------
\* Every variable keeps its type.
THEOREM BillingTypeCorrect == Spec => []TypeOK
<1>1. IInv => TypeOK
  BY DEF IInv
<1>2. QED
  BY <1>1, BillingInit, BillingNext, PTL DEF Spec

\* No user has a paid plan without a payment, approved at some time, that names the user and
\* the plan: not by repeated, reordered, late or half-processed notifications.
THEOREM BillingPlanPaid == Spec => []PlanPaid
<1>1. IInv => PlanPaid
  BY DEF IInv
<1>2. QED
  BY <1>1, BillingInit, BillingNext, PTL DEF Spec

-----------------------------------------------------------------------------
(* The same beside the protection of sites: neither part writes the state  *)
(* of the other, so a step of Backoffice is one of BillingWebhook or       *)
(* leaves all of its variables alone.                                      *)
LEMMA BackofficeStep == [Billing \/ Protecting]_<<vars, pvars>> => [Next]_vars
  BY Zenon DEF Billing, Protecting

LEMMA BackofficeInvariance == BackofficeSpec => []IInv
<1>1. BackofficeInit => IInv
  BY BillingInit DEF BackofficeInit
<1>2. IInv /\ [Billing \/ Protecting]_<<vars, pvars>> => IInv'
  BY BillingNext, BackofficeStep, Zenon
<1>3. QED
  BY <1>1, <1>2, PTL DEF BackofficeSpec

\* No plan without its payment, in the whole back office: PlanPaid of BillingPlanPaid
\* for the specification the run checks, whatever admins, visitors and jobs do beside it.
THEOREM BackofficePlanPaid == BackofficeSpec => []PlanPaid
<1>1. IInv => PlanPaid
  BY DEF IInv
<1>2. QED
  BY <1>1, BackofficeInvariance, PTL

-----------------------------------------------------------------------------
\* SiteImport: types

ImportRow == [status : ImportStatuses, kind : {u.kind : u \in Uploads} \cup {"none"}, extra : BOOLEAN]
Origin == Jobs \cup {Original, Torn}
OnSite == [files : Origin, db : Origin, urls : BOOLEAN]
Left == [crashes : Nat, faults : Nat]

Setting == pool \in BOOLEAN /\ hasDb \in BOOLEAN
Stored == import \in [Jobs -> ImportRow] /\ upload \in [Jobs -> SUBSET {"main", "extra"}]
Asked == request \in [Jobs -> {"none", "create", "save", "save_extra", "enqueue", "over"}]
Queued == queue \in [Jobs -> {"out", "waiting", "held"}]
Threaded == thread \in [Jobs -> Stages]
Flags == /\ raced \in BOOLEAN /\ revived \in BOOLEAN /\ silent \in BOOLEAN
         /\ stale \subseteq Jobs /\ abandoned \subseteq Jobs

LEMMA ImportTypeParts ==
    ImportTypeOK <=> /\ Setting /\ Stored /\ Asked /\ Queued /\ Threaded /\ Flags
                     /\ worker \in {"up", "down"} /\ site \in OnSite /\ left \in Left
  BY DEF ImportTypeOK, Setting, Stored, Asked, Queued, Threaded, Flags, ImportRow, Origin, OnSite, Left

\* The same facts of the next state.
LEMMA ImportTypePartsNext ==
    ASSUME Setting', Stored', Asked', Queued', Threaded', Flags', worker' \in {"up", "down"},
           site' \in OnSite, left' \in Left
    PROVE  ImportTypeOK'
  BY DEF ImportTypeOK, Setting, Stored, Asked, Queued, Threaded, Flags, ImportRow, Origin, OnSite, Left

LEMMA ImportTypeInit == ImportInit => ImportTypeOK
  <1> SUFFICES ASSUME ImportInit PROVE ImportTypeOK
    OBVIOUS
  <1>1. Setting /\ Asked /\ Queued /\ Threaded /\ Flags
    BY DEF ImportInit, Setting, Asked, Queued, Threaded, Flags, Stages
  <1>2. Stored
    <2>1. [status |-> "none", kind |-> "none", extra |-> FALSE] \in ImportRow
      BY DEF ImportRow, ImportStatuses
    <2> QED BY <2>1 DEF ImportInit, Stored
  <1>3. worker \in {"up", "down"} /\ site \in OnSite
    BY DEF ImportInit, OnSite, Origin
  <1>4. left \in Left
    BY SiteImportAssumption DEF ImportInit, Left
  <1> QED BY <1>1, <1>2, <1>3, <1>4, ImportTypeParts

LEMMA Spent ==
    ASSUME left \in Left, Calm \/ Fault \/ Crash
    PROVE  left' \in Left
  BY DEF Left, Calm, Fault, Crash

LEMMA StatusTypes ==
    ASSUME Stored, NEW j \in Jobs, NEW s \in ImportStatuses, Status(j, s)
    PROVE  import' \in [Jobs -> ImportRow]
  BY DEF Stored, Status, ImportRow

LEMMA RequestTypes ==
    ASSUME ImportTypeOK, NEW j \in Jobs, Check(j) \/ Request(j)
    PROVE  ImportTypeOK'
  <1>0. /\ Setting /\ Stored /\ Asked /\ Queued /\ Threaded /\ Flags
        /\ worker \in {"up", "down"} /\ site \in OnSite /\ left \in Left
    BY ImportTypeParts
  <1>1. Requesting /\ (Calm \/ Fault)
    BY DEF Check, Request, CreateJob, SaveMain, SaveExtra, Enqueue, RequestRaises, Reject
  <1>2. left' \in Left /\ Setting'
    BY <1>0, <1>1, Spent DEF Requesting, world, Setting
  <1>3. Asked'
    BY <1>0 DEF Asked, Check, Request, CreateJob, SaveMain, SaveExtra, Enqueue, RequestRaises, Reject
  <1>4. Flags'
    BY <1>0, <1>1 DEF Flags, Requesting, Check, Request, CreateJob, SaveMain, SaveExtra, Enqueue, RequestRaises, Reject
  <1>5. Queued' /\ Threaded'
    BY <1>0 DEF Queued, Threaded, Stages, Check, Request, CreateJob, SaveMain, SaveExtra, Enqueue, RequestRaises
  <1>6. Stored'
    <2>1. CASE Check(j) \/ Enqueue(j)
      BY <1>0, <2>1 DEF Stored, Check, Enqueue, RequestRaises, rows
    <2>2. CASE CreateJob(j)
      <3>1. PICK u \in Uploads :
               import' = [import EXCEPT ![j] = [status |-> "uploading", kind |-> u.kind, extra |-> u.extra]]
        BY <2>2 DEF CreateJob
      <3>2. [status |-> "uploading", kind |-> u.kind, extra |-> u.extra] \in ImportRow
        BY SiteImportAssumption DEF ImportRow, ImportStatuses
      <3> QED BY <1>0, <2>2, <3>1, <3>2 DEF Stored, CreateJob
    <2>3. ASSUME Reject(j) PROVE Stored'
      BY <1>0, <2>3 DEF Stored, Reject, ImportRow, ImportStatuses, Terminal
    <2>4. CASE SaveMain(j) \/ SaveExtra(j)
      BY <1>0, <2>3, <2>4 DEF Stored, SaveMain, SaveExtra, RequestRaises
    <2> QED BY <2>1, <2>2, <2>4 DEF Request
  <1> QED BY <1>0, <1>1, <1>2, <1>3, <1>4, <1>5, <1>6, ImportTypePartsNext DEF Requesting

LEMMA PipelineTypes ==
    ASSUME ImportTypeOK, NEW j \in Jobs, Pipeline(j)
    PROVE  ImportTypeOK'
  <1>0. /\ Setting /\ Stored /\ Asked /\ Queued /\ Threaded /\ Flags
        /\ worker \in {"up", "down"} /\ site \in OnSite /\ left \in Left
    BY ImportTypeParts
  <1>1. /\ UNCHANGED <<world, request, queue, worker, raced>>
        /\ Calm \/ Fault
    BY DEF Pipeline, Start, Prepare, RestoreFiles, RestoreDump, RestoreExtra, Import, FixUrls, Verify,
           Complete, LogCompleted, RecordFailure, Unlink, Running
  <1>2. left' \in Left /\ Setting' /\ Asked' /\ Queued'
    BY <1>0, <1>1, Spent DEF world, Setting, Asked, Queued
  <1>3. Threaded'
    <2>1. \E pc \in Stages : To(j, pc)
      BY DEF Pipeline, Start, Prepare, RestoreFiles, RestoreDump, RestoreExtra, Import, FixUrls, Verify,
             Complete, LogCompleted, RecordFailure, Unlink, AfterFiles, AfterDump, Stages
    <2> QED BY <1>0, <2>1 DEF Threaded, To
  <1>4. Flags'
    BY <1>0, <1>1 DEF Flags, Pipeline, Start, Prepare, RestoreFiles, RestoreDump, RestoreExtra, Import,
           FixUrls, Verify, Complete, LogCompleted, RecordFailure, Unlink, Ended
  <1>5. site' \in OnSite
    <2>1. j \in Origin /\ Torn \in Origin
      BY DEF Origin
    <2>2. CASE RestoreFiles(j)
      BY <1>0, <2>1, <2>2 DEF RestoreFiles, OnSite
    <2>3. CASE RestoreDump(j) \/ RestoreExtra(j)
      BY <1>0, <2>1, <2>3 DEF RestoreDump, RestoreExtra, Import, OnSite
    <2>4. CASE FixUrls(j)
      BY <1>0, <2>4 DEF FixUrls, OnSite, Setting
    <2>5. CASE ~(RestoreFiles(j) \/ RestoreDump(j) \/ RestoreExtra(j) \/ FixUrls(j))
      BY <1>0, <2>5 DEF Pipeline, Start, Prepare, Verify, Complete, LogCompleted, RecordFailure, Unlink
    <2> QED BY <2>2, <2>3, <2>4, <2>5
  <1>6. Stored'
    <2>1. upload' \in [Jobs -> SUBSET {"main", "extra"}]
      BY <1>0 DEF Stored, rows, Pipeline, Start, Prepare, RestoreFiles, RestoreDump, RestoreExtra, Import,
             FixUrls, Verify, Complete, LogCompleted, RecordFailure, Unlink
    <2>2. UNCHANGED import \/ \E s \in ImportStatuses : Status(j, s)
      BY DEF Pipeline, Start, Prepare, RestoreFiles, RestoreDump, RestoreExtra, Import, FixUrls, Verify,
             Complete, LogCompleted, RecordFailure, Unlink, rows, ImportStatuses, Terminal
    <2> QED BY <1>0, <2>1, <2>2, StatusTypes DEF Stored
  <1> QED BY <1>0, <1>1, <1>2, <1>3, <1>4, <1>5, <1>6, ImportTypePartsNext

LEMMA ArqTypes ==
    ASSUME ImportTypeOK,
           \/ \E j \in Jobs : Take(j) \/ Return(j) \/ Requeue(j) \/ Age(j)
           \/ WorkerDown \/ WorkerUp \/ AppRestart
    PROVE  ImportTypeOK'
  <1>0. /\ Setting /\ Stored /\ Asked /\ Queued /\ Threaded /\ Flags
        /\ worker \in {"up", "down"} /\ site \in OnSite /\ left \in Left
    BY ImportTypeParts
  <1>1. UNCHANGED <<world, upload, site>> /\ (Calm \/ Crash)
    BY DEF Take, Return, Requeue, Age, WorkerDown, WorkerUp, AppRestart, Queueing, rows
  <1>2. left' \in Left /\ Setting'
    BY <1>0, <1>1, Spent DEF world, Setting
  <1>3. CASE \E j \in Jobs : Take(j) \/ Return(j) \/ Requeue(j) \/ Age(j)
    <2>1. Queueing
      BY <1>3 DEF Take, Return, Requeue, Age
    <2>2. Queued' /\ Threaded' /\ stale' \subseteq Jobs /\ worker' = worker
      BY <1>0, <1>3 DEF Take, Return, Requeue, Age, Queued, Threaded, Stages, Flags
    <2> QED BY <1>0, <1>1, <1>2, <2>1, <2>2, ImportTypePartsNext DEF Queueing, rows, history, Stored, Asked, Flags
  <1>4. CASE WorkerDown
    BY <1>0, <1>1, <1>2, <1>4, ImportTypePartsNext
       DEF WorkerDown, Queueing, rows, history, Stored, Asked, Flags, Queued, Threaded, Stages
  <1>5. CASE WorkerUp
    <2>1. import' \in [Jobs -> ImportRow] /\ stale' \subseteq Jobs
      BY <1>0, <1>5 DEF WorkerUp, Stored, ImportRow, ImportStatuses, Terminal, Flags
    <2> QED BY <1>0, <1>1, <1>2, <1>5, <2>1, ImportTypePartsNext
         DEF WorkerUp, history, Stored, Asked, Flags, Queued, Threaded
  <1>6. CASE AppRestart
    <2>1. Dying \subseteq Jobs
      BY DEF Dying
    <2> QED BY <1>0, <1>1, <1>2, <1>6, <2>1, ImportTypePartsNext
         DEF AppRestart, rows, Stored, Asked, Flags, Queued, Threaded, Stages
  <1> QED BY <1>3, <1>4, <1>5, <1>6

LEMMA ImportTypeNext == ImportTypeOK /\ [ImportNext]_ivars => ImportTypeOK'
  <1>1. ImportTypeOK /\ UNCHANGED ivars => ImportTypeOK'
    BY DEF ImportTypeOK, ivars, world, rows, place, history
  <1>2. ImportTypeOK /\ ImportNext => ImportTypeOK'
    BY RequestTypes, PipelineTypes, ArqTypes DEF ImportNext
  <1> QED BY <1>1, <1>2

\* Requests, pipelines, Arq and the restarts keep to their types.
THEOREM ImportTypeCorrect == ImportSpec => []ImportTypeOK
  BY ImportTypeInit, ImportTypeNext, PTL DEF ImportSpec

-----------------------------------------------------------------------------
\* SiteImport: what has ended leaves nothing, and what is completed is whole

\* Until a request is over it has its job to itself.
Asking(j) ==
    /\ request[j] \in {"none", "create"} => ~Recorded(j)
    /\ request[j] \in {"save", "save_extra", "enqueue"} => import[j].status = "uploading"
    /\ request[j] # "over" => thread[j] = "off" /\ queue[j] = "out" /\ j \notin stale
    /\ ~Recorded(j) => thread[j] = "off" /\ queue[j] = "out"

\* Arq holds the job whose pipeline runs in the worker, and what returns has tidied up.
Placed(j) ==
    /\ queue[j] # "out" => pool
    /\ pool /\ thread[j] # "off" => queue[j] = "held"
    /\ thread[j] = "return" => pool /\ upload[j] = {}

\* The uploads of a job are gone, or somebody is still to see to them.
Tended(j) ==
    request[j] = "over" /\ j \notin abandoned =>
        ~Recorded(j) \/ upload[j] = {} \/ queue[j] # "out" \/ thread[j] # "off"

\* A pipeline that touches the site works for a job in progress, whose upload is there.
AfterFilesDone == {"dump", "extra", "urls", "verify", "complete"}
Touching == {"prepare", "restore"} \cup AfterFilesDone
Live(j) == Recorded(j) /\ ~Ended(j) /\ "main" \in upload[j]
Working(j) == thread[j] \in Touching => Live(j) /\ j \notin stale

\* Unless two requests raced or an ended import ran again, one import at most is on its way
\* to the site.
Contends(j) == request[j] \in {"create", "save"} \/ Live(j)
Single == ~raced /\ ~revived => \A j, k \in Jobs : Contends(j) /\ Contends(k) => j = k

\* What the stages so far have put on the site is there.
Done(j) ==
    /\ thread[j] \in AfterFilesDone =>
          /\ HasFiles(j) => site.files = j
          /\ import[j].kind = "wpress" => site.db = j
    /\ thread[j] \in {"extra", "urls", "verify", "complete"} /\ hasDb /\ HasDump(j) => site.db = j
    /\ thread[j] \in {"urls", "verify", "complete"} /\ hasDb /\ import[j].extra => site.db = j
    /\ thread[j] \in {"verify", "complete"} /\ hasDb => site.urls

Clear == ~raced /\ ~revived /\ ~silent

ImportInv ==
    /\ ImportTypeOK
    /\ \A j \in Jobs : Asking(j) /\ Placed(j) /\ Tended(j) /\ Working(j)
    /\ Single
    /\ Clear => \A j \in Jobs : Done(j)

Safe(j) == Asking(j) /\ Placed(j) /\ Tended(j) /\ Working(j)

\* What the parts say of a job is unchanged.
Same(j) == /\ import'[j] = import[j] /\ upload'[j] = upload[j] /\ request'[j] = request[j]
           /\ queue'[j] = queue[j] /\ thread'[j] = thread[j]
           /\ (j \in stale') = (j \in stale) /\ (j \in abandoned') = (j \in abandoned)

StepOf(j) == Check(j) \/ Request(j) \/ Pipeline(j) \/ Take(j) \/ Return(j) \/ Requeue(j) \/ Age(j)
Restart == WorkerDown \/ WorkerUp \/ AppRestart

LEMMA SameSafe ==
    ASSUME NEW j \in Jobs, Safe(j), Same(j), UNCHANGED pool
    PROVE  Safe(j)'
  BY DEF Safe, Same, Asking, Placed, Tended, Working, Touching, AfterFilesDone, Live, Recorded, Ended, Terminal

LEMMA OthersSame ==
    ASSUME ImportTypeOK, NEW j \in Jobs, NEW k \in Jobs, j # k, StepOf(j)
    PROVE  Same(k)
  <1>0. Stored /\ Asked /\ Queued /\ Threaded
    BY ImportTypeParts
  <1>1. CASE Check(j) \/ Request(j)
    BY <1>0, <1>1 DEF Same, Check, Request, CreateJob, SaveMain, SaveExtra, Enqueue, RequestRaises, Reject, Requesting,
       rows, Stored, Asked, Queued, Threaded
  <1>2. CASE Pipeline(j)
    <2>1. /\ request'[k] = request[k] /\ queue'[k] = queue[k] /\ upload'[k] = upload[k]
          /\ (k \in abandoned') = (k \in abandoned)
      BY <1>0, <1>2 DEF Pipeline, Start, Prepare, RestoreFiles, RestoreDump, RestoreExtra, Import, FixUrls,
         Verify, Complete, LogCompleted, RecordFailure, Unlink, Running, rows, Stored
    <2>2. thread'[k] = thread[k]
      BY <1>0, <1>2 DEF Pipeline, Start, Prepare, RestoreFiles, RestoreDump, RestoreExtra, Import, FixUrls,
         Verify, Complete, LogCompleted, RecordFailure, Unlink, To, Threaded
    <2>3. import'[k] = import[k] /\ (k \in stale') = (k \in stale)
      BY <1>0, <1>2 DEF Pipeline, Start, Prepare, RestoreFiles, RestoreDump, RestoreExtra, Import, FixUrls,
         Verify, Complete, LogCompleted, RecordFailure, Unlink, rows, Stored, Status
    <2> QED BY <2>1, <2>2, <2>3 DEF Same
  <1>3. CASE Take(j) \/ Return(j) \/ Requeue(j) \/ Age(j)
    BY <1>0, <1>3 DEF Same, Take, Return, Requeue, Age, Queueing, rows, history, Queued, Threaded
  <1> QED BY <1>1, <1>2, <1>3 DEF StepOf

LEMMA RequestSafe ==
    ASSUME ImportTypeOK, NEW j \in Jobs, Safe(j), Check(j) \/ Request(j)
    PROVE  Safe(j)'
  <1>0. Stored /\ Asked /\ Queued /\ Threaded
    BY ImportTypeParts
  <1> USE DEF Safe, Asking, Placed, Tended, Working, Touching, AfterFilesDone, Live, Recorded, Ended,
              Terminal, Requesting, world, rows, Stored, Asked, Queued, Threaded
  <1>1. CASE Check(j)
    BY <1>0, <1>1 DEF Check
  <1>2. CASE CreateJob(j)
    BY <1>0, <1>2 DEF CreateJob
  <1>3. ASSUME Reject(j), request[j] \in {"save", "save_extra"},
               UNCHANGED <<queue, thread, raced>>, Requesting
        PROVE  Safe(j)'
    <2>1. thread'[j] = "off" /\ queue'[j] = "out" /\ upload'[j] = {} /\ request'[j] = "over"
      BY <1>0, <1>3 DEF Reject
    <2>2. import'[j].status # "none"
      BY <1>0, <1>3 DEF Reject, ImportRow
    <2> QED BY <2>1, <2>2, <1>3
  <1>4. CASE SaveMain(j)
    BY <1>0, <1>3, <1>4 DEF SaveMain, RequestRaises
  <1>5. CASE SaveExtra(j)
    BY <1>0, <1>3, <1>5 DEF SaveExtra
  <1>6. CASE Enqueue(j)
    BY <1>0, <1>6 DEF Enqueue, RequestRaises
  <1> QED BY <1>1, <1>2, <1>4, <1>5, <1>6 DEF Request

\* A step of a pipeline keeps a job in progress or moves it to the except or finally clause.
LEMMA PipelineSafe ==
    ASSUME ImportTypeOK, NEW j \in Jobs, Safe(j), Pipeline(j)
    PROVE  Safe(j)'
  <1>0. Stored /\ Asked /\ Queued /\ Threaded
    BY ImportTypeParts
  <1>1. thread[j] # "off" /\ UNCHANGED <<pool, request, queue>>
    BY DEF Pipeline, Start, Prepare, RestoreFiles, RestoreDump, RestoreExtra, Import, FixUrls,
         Verify, Complete, LogCompleted, RecordFailure, Unlink, Running, world
  <1>2. request[j] = "over" /\ Recorded(j) /\ (pool => queue[j] = "held") /\ (queue[j] # "out" => pool)
    BY <1>0, <1>1 DEF Safe, Asking, Placed, Recorded, Asked
  <1>3. \/ import'[j].status = import[j].status
        \/ import'[j].status \in {"processing", "restoring_files", "restoring_db", "fixing_urls"} \cup Terminal
    BY <1>0 DEF Pipeline, Start, Prepare, RestoreFiles, RestoreDump, RestoreExtra, Import, FixUrls,
         Verify, Complete, LogCompleted, RecordFailure, Unlink, rows, Stored, Status, Terminal, ImportRow
  <1>4. Asking(j)'
    BY <1>1, <1>2, <1>3 DEF Asking, Recorded, Terminal
  <1>5. Placed(j)' /\ Tended(j)' /\ Working(j)'
    <2>1. CASE Unlink(j)
      BY <1>0, <1>1, <1>2, <2>1 DEF Unlink, To, Stored, Threaded, Placed, Tended, Working, Touching, AfterFilesDone
    <2>2. CASE ~Unlink(j)
      <3>1. thread'[j] \notin {"off", "return"}
        BY <1>0, <2>2 DEF Pipeline, Start, Prepare, RestoreFiles, RestoreDump, RestoreExtra, Import, FixUrls,
          Verify, Complete, LogCompleted, RecordFailure, To, Threaded, AfterFiles, AfterDump
      <3>2. Placed(j)' /\ Tended(j)'
        BY <1>1, <1>2, <3>1 DEF Placed, Tended
      <3>3. CASE Start(j)
        <4>1. CASE "main" \in upload[j]
          <5>1. import'[j].status = "processing" /\ upload'[j] = upload[j] /\ j \notin stale'
            BY <1>0, <3>3 DEF Start, Status, Stored, ImportRow
          <5> QED BY <3>2, <4>1, <5>1 DEF Working, Live, Recorded, Ended, Terminal
        <4>2. CASE "main" \notin upload[j]
          BY <1>0, <3>2, <3>3, <4>2 DEF Start, To, Threaded, Working, Touching, AfterFilesDone
        <4> QED BY <4>1, <4>2
      <3>4. CASE ~Start(j)
        <4>1. thread'[j] \in Touching => thread[j] \in Touching
          BY <1>0, <2>2, <3>4 DEF Pipeline, Prepare, RestoreFiles, RestoreDump, RestoreExtra, Import, FixUrls,
            Verify, Complete, LogCompleted, RecordFailure, To, Threaded, Touching, AfterFilesDone, Running
        <4>2. thread'[j] \in Touching =>
                \/ import'[j].status = import[j].status
                \/ import'[j].status \in {"restoring_files", "restoring_db", "fixing_urls"}
          BY <1>0, <2>2, <3>4 DEF Pipeline, Prepare, RestoreFiles, RestoreDump, RestoreExtra, Import, FixUrls,
            Verify, Complete, LogCompleted, RecordFailure, To, Threaded, Touching, AfterFilesDone, Stored, Status,
            ImportRow, rows
        <4>3. UNCHANGED <<upload, stale>>
          BY <2>2, <3>4 DEF Pipeline, Prepare, RestoreFiles, RestoreDump, RestoreExtra, Import, FixUrls,
            Verify, Complete, LogCompleted, RecordFailure, rows
        <4> QED BY <4>1, <4>2, <4>3, <3>2 DEF Safe, Working, Live, Recorded, Ended, Terminal
      <3> QED BY <3>2, <3>3, <3>4
    <2> QED BY <2>1, <2>2
  <1> QED BY <1>4, <1>5 DEF Safe

LEMMA ArqSafe ==
    ASSUME ImportTypeOK, NEW j \in Jobs, Safe(j), Take(j) \/ Return(j) \/ Requeue(j) \/ Age(j)
    PROVE  Safe(j)'
  <1>0. Stored /\ Asked /\ Queued /\ Threaded
    BY ImportTypeParts
  <1> USE DEF Safe, Asking, Placed, Tended, Working, Touching, AfterFilesDone, Live, Recorded, Ended,
              Terminal, Queueing, world, rows, history, Stored, Asked, Queued, Threaded
  <1>1. CASE Take(j)
    BY <1>0, <1>1 DEF Take
  <1>2. CASE Return(j)
    BY <1>0, <1>2 DEF Return
  <1>3. CASE Requeue(j)
    BY <1>0, <1>3 DEF Requeue
  <1>4. CASE Age(j)
    BY <1>0, <1>4 DEF Age
  <1> QED BY <1>1, <1>2, <1>3, <1>4

\* A worker that starts fails only rows without a sign of life; an app that dies takes note of
\* whom it leaves behind.
LEMMA RestartSafe ==
    ASSUME ImportTypeOK, NEW j \in Jobs, Safe(j), Restart
    PROVE  Safe(j)'
  <1>0. Stored /\ Asked /\ Queued /\ Threaded
    BY ImportTypeParts
  <1> USE DEF Safe, Asking, Placed, Tended, Working, Touching, AfterFilesDone, Live, Recorded, Ended,
              Terminal, world, rows, history, Asked, Queued, Threaded
  <1>1. CASE WorkerDown
    BY <1>0, <1>1 DEF WorkerDown, Queueing
  <1>2. CASE WorkerUp
    <2>1. /\ import'[j].status # import[j].status => j \in stale /\ Recorded(j) /\ import'[j].status = "failed"
          /\ j \in stale' => j \in stale
      BY <1>0, <1>2 DEF WorkerUp, Orphans, Stored, ImportRow
    <2>2. UNCHANGED <<pool, upload, request, queue, thread, abandoned>>
      BY <1>2 DEF WorkerUp
    <2> QED BY <2>1, <2>2
  <1>3. CASE AppRestart
    BY <1>0, <1>3 DEF AppRestart, Dying
  <1> QED BY <1>1, <1>2, <1>3 DEF Restart

\* Nothing else than a check makes a contender out of a job that is none.
LEMMA ContendsGained ==
    ASSUME ImportTypeOK, NEW j \in Jobs, Safe(j), Contends(j)',
           \/ StepOf(j) /\ ~Check(j) /\ ~revived'
           \/ Same(j)
           \/ Restart
    PROVE  Contends(j)
  <1>0. Stored /\ Asked /\ Queued /\ Threaded
    BY ImportTypeParts
  <1> USE DEF Contends, Live, Recorded, Ended, Terminal
  <1>1. CASE Same(j)
    BY <1>1 DEF Same
  <1>2. CASE Restart
    <2>1. import'[j].status = import[j].status \/ import'[j].status = "failed"
      BY <1>0, <1>2 DEF Restart, WorkerDown, WorkerUp, AppRestart, Queueing, rows, Stored, ImportRow
    <2>2. upload' = upload /\ (request'[j] = request[j] \/ request'[j] = "over")
      BY <1>0, <1>2 DEF Restart, WorkerDown, WorkerUp, AppRestart, Queueing, rows, Asked
    <2> QED BY <2>1, <2>2
  <1>3. CASE Request(j)
    BY <1>0, <1>3 DEF Request, CreateJob, SaveMain, SaveExtra, Enqueue, RequestRaises, Reject, Requesting, rows, Stored, Asked,
       ImportRow, Safe, Asking
  <1>4. CASE Pipeline(j) /\ ~revived'
    <2>1. request[j] = "over" /\ Recorded(j) /\ request' = request
      BY <1>0, <1>4 DEF Pipeline, Start, Prepare, RestoreFiles, RestoreDump, RestoreExtra, Import, FixUrls,
          Verify, Complete, LogCompleted, RecordFailure, Unlink, Running, Safe, Asking, Asked
    <2>2. CASE Start(j)
      BY <1>0, <1>4, <2>1, <2>2 DEF Start, Status, Stored
    <2>3. CASE Unlink(j)
      BY <1>0, <1>4, <2>1, <2>3 DEF Unlink, Stored
    <2>4. CASE RecordFailure(j)
      BY <1>0, <1>4, <2>1, <2>4 DEF RecordFailure, Stored, Status, ImportRow
    <2>5. CASE LogCompleted(j)
      BY <1>0, <1>4, <2>1, <2>5 DEF LogCompleted, rows
    <2>6. CASE ~Start(j) /\ ~Unlink(j) /\ ~RecordFailure(j) /\ ~LogCompleted(j)
      <3>1. thread[j] \in Touching
        BY <1>4, <2>6 DEF Pipeline, Prepare, RestoreFiles, RestoreDump, RestoreExtra, Import, FixUrls,
          Verify, Complete, Running, Touching, AfterFilesDone
      <3> QED BY <3>1 DEF Safe, Working
    <2> QED BY <1>4, <2>2, <2>3, <2>4, <2>5, <2>6
  <1>5. CASE Take(j) \/ Return(j) \/ Requeue(j) \/ Age(j)
    BY <1>5 DEF Take, Return, Requeue, Age, Queueing, rows
  <1> QED BY <1>1, <1>2, <1>3, <1>4, <1>5 DEF StepOf

\* A request that finds no import in progress is the only one, but for those between their
\* check and their INSERT.
LEMMA CheckedAlone ==
    ASSUME ImportTypeOK, NEW j \in Jobs, NEW k \in Jobs, Safe(k), Check(j), ~raced'
    PROVE  ~Contends(k)
  <1>1. request[k] # "create" /\ ~(Recorded(k) /\ ~Ended(k))
    BY DEF Check, Active
  <1>2. request[k] # "save"
    BY <1>1 DEF Safe, Asking, Recorded, Ended, Terminal
  <1> QED BY <1>1, <1>2 DEF Contends, Live

LEMMA RacesStay ==
    ASSUME ImportTypeOK, ImportNext
    PROVE  (~raced' => ~raced) /\ (~revived' => ~revived) /\ (~silent' => ~silent)
  <1>0. Flags
    BY ImportTypeParts
  <1>1. ASSUME NEW j \in Jobs, StepOf(j)
        PROVE  (~raced' => ~raced) /\ (~revived' => ~revived) /\ (~silent' => ~silent)
    <2>0. CASE Check(j)
      BY <1>0, <2>0 DEF Check, Requesting, Flags
    <2>1. CASE Request(j)
      BY <2>1 DEF Request, CreateJob, SaveMain, SaveExtra, Enqueue, RequestRaises, Requesting
    <2>2. CASE Pipeline(j)
      BY <1>0, <2>2 DEF Flags, Pipeline, Start, Prepare, RestoreFiles, RestoreDump, RestoreExtra, Import, FixUrls,
          Verify, Complete, LogCompleted, RecordFailure, Unlink, Running
    <2>3. CASE Take(j) \/ Return(j) \/ Requeue(j) \/ Age(j)
      BY <2>3 DEF Take, Return, Requeue, Age, Queueing, history
    <2> QED BY <1>1, <2>0, <2>1, <2>2, <2>3 DEF StepOf
  <1>2. ASSUME Restart
        PROVE  (~raced' => ~raced) /\ (~revived' => ~revived) /\ (~silent' => ~silent)
    BY <1>2 DEF Restart, WorkerDown, WorkerUp, AppRestart, Queueing, history
  <1> QED BY <1>1, <1>2 DEF ImportNext, StepOf, Restart

LEMMA SafeNext ==
    ASSUME ImportTypeOK, \A k \in Jobs : Safe(k), ImportNext, NEW j \in Jobs
    PROVE  Safe(j)'
  <1>1. ASSUME NEW k \in Jobs, StepOf(k) PROVE Safe(j)'
    <2>1. CASE j = k
      BY <1>1, <2>1, RequestSafe, PipelineSafe, ArqSafe DEF StepOf
    <2>2. CASE j # k
      <3>1. Same(j)
        BY <1>1, <2>2, OthersSame
      <3>2. UNCHANGED pool
        BY <1>1 DEF StepOf, Check, Request, CreateJob, SaveMain, SaveExtra, Enqueue, RequestRaises, Requesting, Pipeline,
          Start, Prepare, RestoreFiles, RestoreDump, RestoreExtra, Import, FixUrls,
          Verify, Complete, LogCompleted, RecordFailure, Unlink, Running, Take, Return, Requeue, Age, Queueing, world
      <3> QED BY <3>1, <3>2, SameSafe
    <2> QED BY <2>1, <2>2
  <1> QED BY <1>1, RestartSafe DEF ImportNext, StepOf, Restart

LEMMA SingleNext ==
    ASSUME ImportTypeOK, \A k \in Jobs : Safe(k), Single, ImportNext
    PROVE  Single'
  <1> SUFFICES ASSUME ~raced', ~revived', NEW j \in Jobs, NEW k \in Jobs, Contends(j)', Contends(k)'
               PROVE  j = k
    BY DEF Single
  <1>1. ~raced /\ ~revived
    BY RacesStay
  <1>2. ASSUME NEW i \in Jobs, StepOf(i), ~Check(i) PROVE j = k
    <2>1. ASSUME NEW h \in Jobs, Contends(h)' PROVE Contends(h)
      BY <1>2, <2>1, OthersSame, ContendsGained
    <2> QED BY <1>1, <2>1 DEF Single
  <1>3. ASSUME Restart PROVE j = k
    BY <1>1, <1>3, ContendsGained DEF Single
  <1>4. ASSUME NEW i \in Jobs, Check(i) PROVE j = k
    <2>1. ASSUME NEW h \in Jobs, Contends(h)' PROVE h = i
      <3> SUFFICES ASSUME h # i PROVE FALSE
        OBVIOUS
      <3>1. Same(h)
        BY <1>4, OthersSame DEF StepOf
      <3> QED BY <1>4, <2>1, <3>1, ContendsGained, CheckedAlone
    <2> QED BY <2>1
  <1> QED BY <1>2, <1>3, <1>4 DEF ImportNext, StepOf, Restart

\* What a job has put on the site stays while the job is at work and no other step touches it.
LEMMA DoneKept ==
    ASSUME NEW j \in Jobs, Done(j), UNCHANGED <<site, hasDb>>,
           thread'[j] \in AfterFilesDone => /\ thread'[j] = thread[j]
                                            /\ import'[j].kind = import[j].kind
                                            /\ import'[j].extra = import[j].extra
    PROVE  Done(j)'
  BY DEF Done, AfterFilesDone, HasFiles, HasDump

\* Each stage adds to the site what the next one relies on.
LEMMA DoneOwn ==
    ASSUME ImportTypeOK, NEW j \in Jobs, Done(j), Pipeline(j), ~silent'
    PROVE  Done(j)'
  <1>0. Stored /\ Threaded /\ site \in OnSite /\ Setting
    BY ImportTypeParts
  <1>1. import'[j].kind = import[j].kind /\ import'[j].extra = import[j].extra
    BY <1>0 DEF Pipeline, Start, Prepare, RestoreFiles, RestoreDump, RestoreExtra, Import, FixUrls,
       Verify, Complete, LogCompleted, RecordFailure, Unlink, rows, Stored, Status, ImportRow
  <1>2. hasDb' = hasDb
    BY DEF Pipeline, Start, Prepare, RestoreFiles, RestoreDump, RestoreExtra, Import, FixUrls,
       Verify, Complete, LogCompleted, RecordFailure, Unlink, Running, world
  <1> USE <1>1, <1>2 DEF Done, AfterFilesDone, HasFiles, HasDump
  <1>3. CASE Start(j) \/ Prepare(j) \/ Complete(j) \/ LogCompleted(j) \/ RecordFailure(j) \/ Unlink(j)
    BY <1>0, <1>3 DEF Start, Prepare, Complete, LogCompleted, RecordFailure, Unlink, To, Threaded
  <1>4. CASE RestoreFiles(j)
    <2>1. CASE thread'[j] = "failing"
      BY <2>1
    <2>2. CASE thread'[j] # "failing"
      <3>1. thread'[j] = AfterFiles(j)
        BY <1>0, <1>4, <2>2 DEF RestoreFiles, To, Threaded
      <3>2. HasFiles(j) => site'.files = j
        BY <1>0, <1>4, <2>2 DEF RestoreFiles, To, Threaded, OnSite
      <3>3. import[j].kind = "wpress" => site'.db = j
        BY <1>0, <1>4, <2>2 DEF RestoreFiles, To, Threaded, OnSite
      <3> QED BY <3>1, <3>2, <3>3 DEF AfterFiles, AfterDump
    <2> QED BY <2>1, <2>2
  <1>5. CASE RestoreDump(j)
    <2>1. thread'[j] \in {AfterDump(j), "failing"} /\ thread[j] = "dump"
      BY <1>0, <1>5 DEF RestoreDump, Running, Import, To, Threaded
    <2>2. thread'[j] # "failing" => site'.files = site.files /\ site'.db = j
      BY <1>0, <1>5 DEF RestoreDump, Import, To, Threaded, OnSite
    <2> QED BY <2>1, <2>2 DEF AfterDump
  <1>6. CASE RestoreExtra(j)
    <2>1. thread'[j] \in {"urls", "failing"} /\ thread[j] = "extra"
      BY <1>0, <1>6 DEF RestoreExtra, Running, Import, To, Threaded
    <2>2. thread'[j] # "failing" => site'.files = site.files /\ site'.db = j
      BY <1>0, <1>6 DEF RestoreExtra, Import, To, Threaded, OnSite
    <2> QED BY <2>1, <2>2
  <1>7. CASE FixUrls(j)
    <2>1. thread'[j] \in {"verify", "failing"} /\ thread[j] = "urls"
      BY <1>0, <1>7 DEF FixUrls, Running, To, Threaded
    <2>2. thread'[j] # "failing" => site'.files = site.files /\ site'.db = site.db /\ (hasDb => site'.urls)
      BY <1>0, <1>7 DEF FixUrls, To, Threaded, OnSite, Setting
    <2> QED BY <2>1, <2>2
  <1>8. CASE Verify(j)
    BY <1>0, <1>8 DEF Verify, Running, To, Threaded
  <1> QED BY <1>3, <1>4, <1>5, <1>6, <1>7, <1>8 DEF Pipeline

\* A step of one pipeline leaves what another has done: with one contender only, two are
\* never at the site together.
LEMMA DoneOthers ==
    ASSUME ImportTypeOK, \A i \in Jobs : Safe(i), Single, Clear,
           NEW j \in Jobs, NEW k \in Jobs, j # k, Done(k), StepOf(j)
    PROVE  Done(k)'
  <1>1. Same(k)
    BY OthersSame
  <1>2. CASE thread[k] \notin AfterFilesDone
    BY <1>1, <1>2 DEF Same, Done, AfterFilesDone
  <1>3. CASE thread[k] \in AfterFilesDone
    <2>1. Contends(k)
      BY <1>3 DEF Safe, Working, Touching, Contends
    <2>2. ~Contends(j)
      BY <2>1 DEF Single, Clear
    <2>3. thread[j] \notin Touching
      BY <2>2 DEF Safe, Working, Contends
    <2>4. UNCHANGED <<site, hasDb>>
      <3>1. CASE Pipeline(j)
        BY <2>3, <3>1 DEF Pipeline, Start, Prepare, RestoreFiles, RestoreDump, RestoreExtra, FixUrls,
           Verify, Complete, LogCompleted, RecordFailure, Unlink, Running, Touching, AfterFilesDone, world
      <3>2. CASE ~Pipeline(j)
        BY <3>2 DEF StepOf, Check, Request, CreateJob, SaveMain, SaveExtra, Enqueue, RequestRaises, Requesting,
           Take, Return, Requeue, Age, Queueing, world
      <3> QED BY <3>1, <3>2
    <2> QED BY <1>1, <2>4, DoneKept DEF Same
  <1> QED BY <1>2, <1>3

LEMMA DoneNext ==
    ASSUME ImportTypeOK, \A i \in Jobs : Safe(i), Single, Clear => \A i \in Jobs : Done(i), ImportNext,
           Clear', NEW j \in Jobs
    PROVE  Done(j)'
  <1>0. Stored /\ Asked /\ Queued /\ Threaded
    BY ImportTypeParts
  <1>1. Clear /\ Done(j)
    BY RacesStay DEF Clear
  <1>2. ASSUME NEW i \in Jobs, StepOf(i) PROVE Done(j)'
    <2>1. CASE i # j
      BY <1>1, <1>2, <2>1, DoneOthers
    <2>2. CASE i = j /\ Pipeline(i)
      BY <1>1, <2>2, DoneOwn DEF Clear
    <2>3. CASE i = j /\ ~Pipeline(i)
      <3>1. thread'[j] \in AfterFilesDone =>
               request[j] = "over" /\ thread'[j] = thread[j]
        BY <1>0, <1>2, <2>3 DEF StepOf, Check, Request, CreateJob, SaveMain, SaveExtra, Enqueue, RequestRaises,
           Take, Return, Requeue, Age, AfterFilesDone, Threaded, Safe, Asking, Asked
      <3>2. UNCHANGED <<site, hasDb>> /\ (request[j] = "over" => import' = import)
        BY <1>2, <2>3 DEF StepOf, Check, Request, CreateJob, SaveMain, SaveExtra, Enqueue, RequestRaises, Requesting,
           Take, Return, Requeue, Age, Queueing, world, rows
      <3> QED BY <1>1, <3>1, <3>2, DoneKept
    <2> QED BY <2>1, <2>2, <2>3
  <1>3. ASSUME Restart PROVE Done(j)'
    <2>1. UNCHANGED <<site, hasDb>>
      BY <1>3 DEF Restart, WorkerDown, WorkerUp, AppRestart, Queueing, world
    <2>2. thread'[j] \in AfterFilesDone => thread'[j] = thread[j]
      BY <1>3 DEF Restart, WorkerDown, WorkerUp, AppRestart, AfterFilesDone
    <2>3. import'[j].kind = import[j].kind /\ import'[j].extra = import[j].extra
      BY <1>0, <1>3 DEF Restart, WorkerDown, WorkerUp, AppRestart, Queueing, rows, Stored, ImportRow
    <2> QED BY <1>1, <2>1, <2>2, <2>3, DoneKept
  <1> QED BY <1>2, <1>3 DEF ImportNext, StepOf, Restart

LEMMA ImportInvInit == ImportInit => ImportInv
  <1> SUFFICES ASSUME ImportInit PROVE ImportInv
    OBVIOUS
  <1>1. ImportTypeOK
    BY ImportTypeInit
  <1>2. ASSUME NEW j \in Jobs PROVE Asking(j) /\ Placed(j) /\ Tended(j) /\ Working(j) /\ Done(j) /\ ~Contends(j)
    BY DEF ImportInit, Asking, Placed, Tended, Working, Touching, AfterFilesDone, Done, Contends, Live, Recorded
  <1> QED BY <1>1, <1>2 DEF ImportInv, Single

LEMMA ImportInvNext == ImportInv /\ [ImportNext]_ivars => ImportInv'
  <1> SUFFICES ASSUME ImportInv, [ImportNext]_ivars PROVE ImportInv'
    OBVIOUS
  <1>1. ImportTypeOK'
    BY ImportTypeNext DEF ImportInv
  <1>2. CASE ImportNext
    <2>1. \A j \in Jobs : Safe(j)
      BY DEF ImportInv, Safe
    <2>2. \A j \in Jobs : Safe(j)'
      BY <1>2, <2>1, SafeNext DEF ImportInv
    <2>3. Single'
      BY <1>2, <2>1, SingleNext DEF ImportInv
    <2>4. Clear' => \A j \in Jobs : Done(j)'
      BY <1>2, <2>1, DoneNext DEF ImportInv
    <2> QED BY <1>1, <2>2, <2>3, <2>4 DEF ImportInv, Safe
  <1>3. CASE UNCHANGED ivars
    <2>1. UNCHANGED <<pool, hasDb, import, upload, request, queue, thread, stale, site, raced, revived, silent, abandoned>>
      BY <1>3 DEF ivars, world, rows, place, history
    <2>2. \A j \in Jobs : Safe(j)'
      BY <2>1, SameSafe DEF ImportInv, Safe, Same
    <2>3. Single'
      BY <2>1 DEF ImportInv, Single, Contends, Live, Recorded, Ended
    <2>4. Clear' => \A j \in Jobs : Done(j)'
      BY <2>1, DoneKept DEF ImportInv, Clear
    <2> QED BY <1>1, <2>2, <2>3, <2>4 DEF ImportInv, Safe
  <1> QED BY <1>2, <1>3

LEMMA ImportInvariant == ImportSpec => []ImportInv
  BY ImportInvInit, ImportInvNext, PTL DEF ImportSpec

\* Where an import has ended and nobody works on it, its uploads are gone, or a process died
\* with it.
THEOREM EndedImportsClean == ImportSpec => []EndedClean
  <1>1. ImportInv => EndedClean
    BY DEF ImportInv, EndedClean, Tended, Ended, Recorded, Terminal
  <1> QED BY <1>1, ImportInvariant, PTL

\* Only the last stage completes an import.
LEMMA OnlyCompleteCompletes ==
    ASSUME ImportTypeOK, ImportNext, NEW j \in Jobs, ~Ended(j), import'[j].status = "completed"
    PROVE  Complete(j)
  <1>0. Stored
    BY ImportTypeParts
  <1>1. import[j].status \notin Terminal
    BY DEF Ended
  <1>2. ASSUME NEW k \in Jobs, StepOf(k) PROVE Complete(j)
    <2>1. k = j
      BY <1>1, <1>2, OthersSame DEF Same, Terminal
    <2> QED BY <1>0, <1>1, <1>2, <2>1 DEF StepOf, Check, Request, CreateJob, SaveMain, SaveExtra, Enqueue, RequestRaises, Reject,
         Pipeline, Start, Prepare, RestoreFiles, RestoreDump, RestoreExtra, Import, FixUrls,
         Verify, LogCompleted, RecordFailure, Unlink, Take, Return, Requeue, Age, Queueing, rows, Status, Stored,
         ImportRow, Terminal
  <1>3. ~Restart
    BY <1>0, <1>1 DEF Restart, WorkerDown, WorkerUp, AppRestart, Queueing, rows, Stored, ImportRow, Terminal
  <1> QED BY <1>2, <1>3 DEF ImportNext, StepOf, Restart

\* An import that is reported completed is on the site whole, unless two requests raced, an
\* ended import ran again or a failed command was only logged.
THEOREM CompletedImportsWhole == ImportSpec => CompletedWhole
  <1>1. ASSUME ImportInv, [ImportNext]_ivars, NEW j \in Jobs,
               ~Ended(j), import'[j].status = "completed", ~(raced \/ revived \/ silent)
        PROVE  Whole(j)'
    <2>1. ImportNext
      BY <1>1 DEF ivars, rows, Ended, Terminal
    <2>2. Complete(j) /\ Stored
      BY <1>1, <2>1, OnlyCompleteCompletes, ImportTypeParts DEF ImportInv
    <2>3. Done(j) /\ thread[j] = "complete"
      BY <1>1, <2>2 DEF ImportInv, Clear, Complete, Running
    <2>4. UNCHANGED <<site, hasDb>>
      BY <2>2 DEF Complete, Running, world
    <2>5. import'[j].kind = import[j].kind /\ import'[j].extra = import[j].extra
      BY <2>2 DEF Complete, Status, Stored, ImportRow
    <2> QED BY <2>3, <2>4, <2>5 DEF Whole, Done, AfterFilesDone, HasFiles, HasDump
  <1>2. ImportInv /\ [ImportNext]_ivars =>
           [\A j \in Jobs :
              ~Ended(j) /\ import'[j].status = "completed" /\ ~(raced \/ revived \/ silent)
                 => Whole(j)']_ivars
    BY <1>1
  <1> QED BY <1>2, ImportInvariant, PTL DEF ImportSpec, CompletedWhole
=============================================================================
