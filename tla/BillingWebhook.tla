--------------------------- MODULE BillingWebhook ---------------------------
(***************************************************************************)
(* From a payment at MercadoPago to users.plan: the notifications, the     *)
(* webhook endpoint with its table of processed events, and the background *)
(* task that asks for the payment and writes the account                   *)
(* (app/api/routes/billing.py, app/services/billing/mercadopago_provider.py)*)
(*                                                                         *)
(* Payments holds single payments and subscriptions (preapprovals) alike;  *)
(* a member of Requests is a request of a web worker together with the     *)
(* background task that follows its answer.                                *)
(***************************************************************************)
EXTENDS Naturals, FiniteSets

CONSTANTS
    Users,
    Payments,       \* payments and subscriptions at MercadoPago
    Subscriptions,  \* those that are preapprovals
    Referenced,     \* those whose external_reference can be parsed
    Owner,          \* the user an external_reference names
    PlanOf,         \* the plan it names, "" when it names none of _VALID_PLANS
    Payer,          \* payer.id of a payment, "" when MercadoPago gives none
    Payers,
    Plans,          \* those of _PLAN_CATALOG
    Requests,
    MaxEvents,      \* bound: changes of one payment's status
    MaxChanges,     \* bound: changes of all of them
    MaxFailures     \* bound: requests or tasks cut short

ASSUME BillingAssumption ==
    /\ Subscriptions \subseteq Payments
    /\ Referenced \subseteq Payments
    /\ Owner \in [Payments -> Users]
    /\ PlanOf \in [Payments -> Plans \cup {""}]
    /\ \A p \in Payments \ Referenced : PlanOf[p] = ""
    /\ "" \in Payers /\ Payer \in [Payments -> Payers]
    /\ "free" \notin Plans /\ "" \notin Plans /\ "" \notin Payments
    /\ MaxEvents \in Nat /\ MaxChanges \in Nat
    /\ MaxFailures \in Nat

VARIABLES
    status,         \* what MercadoPago says of each payment
    events,         \* how often that has changed
    unanswered,     \* notifications MercadoPago has had no answer to
    processed,      \* billing_webhook_events
    work,           \* the progress of each request and its task
    account,        \* the billing columns of users
    failures,
    paid            \* (history) payments that were approved at some time

vars == <<status, events, unanswered, processed, work, account, failures, paid>>

Statuses == {"none", "pending", "in_process", "authorized", "approved", "rejected",
             "cancelled", "refunded", "paused"}

Actions == {"created", "updated"}

\* The n-th notification about a payment.
Notification == [pay: Payments, n: 1..MaxEvents]
NoNote == [pay |-> "", n |-> 0]

Task == [pc: {"idle", "checked", "queued", "fetched"}, note: Notification \cup {NoNote}, got: Statuses]
IdleTask == [pc |-> "idle", note |-> NoNote, got |-> "none"]

Account == [plan: Plans \cup {"free"},
            status: {"none", "active", "past_due", "pending"},
            customer: Payers,
            payment: Payments \cup {""},
            subscription: Payments \cup {""}]

NewAccount == [plan |-> "free", status |-> "none",
               customer |-> "", payment |-> "", subscription |-> ""]

-----------------------------------------------------------------------------
\* process_webhook_payload and _resolve_subscription_event: the status of a payment or of a
\* subscription, as the type of event the route distinguishes ("refunded" stands for
\* "charged_back" as well).
EventType(p, s) ==
    IF p \in Subscriptions
    THEN CASE s = "authorized" -> "payment_approved"
           [] s = "cancelled"  -> "payment_failed"
           [] s = "paused"     -> "payment_pending"
           [] OTHER            -> "unknown"
    ELSE CASE s = "approved" -> "payment_approved"
           [] s \in {"rejected", "cancelled", "refunded"}     -> "payment_failed"
           [] s \in {"pending", "in_process", "authorized"}   -> "payment_pending"
           [] OTHER -> "unknown"

Approved(p) == EventType(p, status[p]) = "payment_approved"

\* MercadoPago: how the status of a payment, and of a subscription, may change.
NextStatus(p) ==
    IF p \in Subscriptions
    THEN CASE status[p] = "none"       -> {"pending"}
           [] status[p] = "pending"    -> {"authorized", "cancelled"}
           [] status[p] = "authorized" -> {"paused", "cancelled"}
           [] status[p] = "paused"     -> {"authorized", "cancelled"}
           [] OTHER                    -> {}
    ELSE CASE status[p] = "none"       -> {"pending", "authorized", "approved", "rejected"}
           [] status[p] \in {"pending", "authorized"} -> {"in_process", "approved", "cancelled"}
           [] status[p] = "in_process" -> {"approved", "rejected"}
           [] status[p] = "approved"   -> {"refunded"}
           [] OTHER                    -> {}

\* A payment's first notification has the action created, every later one updated.
ActionOf(note) == IF note.n = 1 THEN "created" ELSE "updated"

\* (mutant) one event per payment, as the comment above the key has it
EventKeyPaymentOnly(note) == <<"payment", note.pay>>

\* event_key
EventKey(note) == <<ActionOf(note), note.pay>>

\* MercadoPago notifies every change, and again until it is answered.
Change(p) ==
    /\ events[p] < MaxEvents
    /\ Cardinality({note \in Notification : note.n <= events[note.pay]}) < MaxChanges
    /\ \E s \in NextStatus(p) :
        /\ status' = [status EXCEPT ![p] = s]
        /\ paid' = IF EventType(p, s) = "payment_approved" THEN paid \cup {p} ELSE paid
    /\ events' = [events EXCEPT ![p] = @ + 1]
    /\ unanswered' = unanswered \cup {[pay |-> p, n |-> events[p] + 1]}
    /\ UNCHANGED <<processed, work, account, failures>>

\* handle_mercadopago_webhook up to is_webhook_processed; a processed event is answered.
Receive(q, note) ==
    /\ work[q].pc = "idle"
    /\ note \in unanswered
    /\ IF EventKey(note) \in processed
       THEN unanswered' = unanswered \ {note} /\ UNCHANGED work
       ELSE /\ work' = [work EXCEPT ![q].pc = "checked", ![q].note = note]
            /\ UNCHANGED unanswered
    /\ UNCHANGED <<status, events, processed, account, failures, paid>>

\* mark_webhook_processed, the answer, and the background task; the answer may be lost.
MarkProcessed(q) ==
    /\ work[q].pc = "checked"
    /\ processed' = processed \cup {EventKey(work[q].note)}
    /\ unanswered' \in {unanswered, unanswered \ {work[q].note}}
    /\ work' = [work EXCEPT ![q].pc = "queued"]
    /\ UNCHANGED <<status, events, account, failures, paid>>

\* _fetch_payment, _fetch_subscription: the status at the time of the request.
Fetch(q) ==
    /\ work[q].pc = "queued"
    /\ work' = [work EXCEPT ![q].pc = "fetched", ![q].got = status[work[q].note.pay]]
    /\ UNCHANGED <<status, events, unanswered, processed, account, failures, paid>>

\* The user of a payment: of its external_reference, or whoever has its payer.
UsersFor(p) ==
    IF p \in Referenced THEN {Owner[p]}
    ELSE IF Payer[p] = "" THEN {}
    ELSE {u \in Users : account[u].customer = Payer[p]}

\* The ids a payment or a subscription brings; an absent one is written as "".
PaymentId(p) == IF p \in Subscriptions THEN "" ELSE p
SubscriptionId(p) == IF p \in Subscriptions THEN p ELSE ""

\* (mutant) a pending payment activates the plan
PlanAfterEager(a, p, type) == IF type \in {"unknown", "payment_failed"} THEN a.plan ELSE PlanOf[p]

\* Only an approved payment changes the plan, and no other takes it away.
PlanAfter(a, p, type) == IF type = "payment_approved" THEN PlanOf[p] ELSE a.plan

\* update_billing_subscription, as _process_webhook calls it for each type of event.
Updated(a, p, type) ==
    CASE type = "payment_approved" ->
            [plan |-> PlanAfter(a, p, type), status |-> "active",
             customer |-> Payer[p], payment |-> PaymentId(p), subscription |-> SubscriptionId(p)]
      [] type = "payment_failed" ->
            [a EXCEPT !.plan = PlanAfter(a, p, type), !.status = "past_due",
                      !.payment = PaymentId(p), !.customer = Payer[p]]
      [] type = "payment_pending" ->
            [a EXCEPT !.plan = PlanAfter(a, p, type), !.status = "pending",
                      !.payment = PaymentId(p)]
      [] OTHER -> a

\* The rest of _process_webhook: without a user, or approved without a plan, nothing.
Apply(q) ==
    LET p == work[q].note.pay
        type == EventType(p, work[q].got)
    IN  /\ work[q].pc = "fetched"
        /\ IF UsersFor(p) = {} \/ (type = "payment_approved" /\ PlanOf[p] = "")
           THEN UNCHANGED account
           ELSE \E u \in UsersFor(p) :
                    account' = [account EXCEPT ![u] = Updated(@, p, type)]
        /\ work' = [work EXCEPT ![q] = IdleTask]
        /\ UNCHANGED <<status, events, unanswered, processed, failures, paid>>

\* The worker is restarted, the database raises, or MercadoPago's API does not answer 200:
\* the request, or the task that nobody repeats, ends where it is.
Fail(q) ==
    /\ work[q].pc # "idle"
    /\ failures < MaxFailures
    /\ failures' = failures + 1
    /\ work' = [work EXCEPT ![q] = IdleTask]
    /\ UNCHANGED <<status, events, unanswered, processed, account, paid>>

-----------------------------------------------------------------------------
Init ==
    /\ status = [p \in Payments |-> "none"]
    /\ events = [p \in Payments |-> 0]
    /\ unanswered = {}
    /\ processed = {}
    /\ work = [q \in Requests |-> IdleTask]
    /\ account = [u \in Users |-> NewAccount]
    /\ failures = 0
    /\ paid = {}

Handle(q) == MarkProcessed(q) \/ Fetch(q) \/ Apply(q)

Next ==
    \/ \E p \in Payments : Change(p)
    \/ \E q \in Requests : \E note \in unanswered : Receive(q, note)
    \/ \E q \in Requests : Handle(q) \/ Fail(q)

Spec == Init /\ [][Next]_vars

\* MercadoPago repeats what it has no answer to, and a request runs on until it fails.
FairSpec ==
    /\ Spec
    /\ \A q \in Requests : WF_vars(Handle(q))
    /\ \A note \in Notification : SF_vars(\E q \in Requests : Receive(q, note))

-----------------------------------------------------------------------------
\* Properties

\* Every variable has its type.
TypeOK ==
    /\ status \in [Payments -> Statuses]
    /\ events \in [Payments -> 0..MaxEvents]
    /\ unanswered \subseteq Notification
    /\ processed \subseteq Actions \X Payments
    /\ work \in [Requests -> Task]
    /\ account \in [Users -> Account]
    /\ failures \in 0..MaxFailures
    /\ paid \subseteq Payments

\* A plan is only ever active by a payment the user made for it and MercadoPago approved
\* (billing.py:135-153), however notifications are repeated, reordered or half processed.
PlanPaid ==
    \A u \in Users : account[u].plan # "free" =>
        \E p \in paid \cap Referenced : Owner[p] = u /\ PlanOf[p] = account[u].plan

\* The payment has come to an end, and the account shows it: the plan of one approved is
\* active, one rejected, refunded or cancelled is past due.
Type(p) == EventType(p, status[p])
Settled(p) == Type(p) \in {"payment_approved", "payment_failed"}
Shown(p) ==
    LET user == account[Owner[p]] IN
    /\ Type(p) = "payment_approved" => user.status = "active" /\ user.plan = PlanOf[p]
    /\ Type(p) = "payment_failed" => user.status = "past_due"

\* Where the code keeps up: not after the third change of a payment, which has the key of the
\* second and is dropped (billing.py:252); nor after two tasks that had both asked for the
\* payment, which write in either order (:143); nor with another payment of the user, whose
\* events overwrite the account (:172).
Simple(p) ==
    /\ events[p] <= 2
    /\ \A q, r \in Requests :
          q # r /\ work[q].note.pay = p /\ work[r].note.pay = p =>
              work[q].pc # "fetched" \/ work[r].pc # "fetched"
    /\ \A o \in Payments \ {p} : Owner[o] = Owner[p] => events[o] = 0

\* In the end the account shows the payment ("consulta el pago y activa el plan del usuario",
\* billing.py:7, 101), however its notifications are repeated, overtaken by one another or
\* answered in vain: of a payment that stays Simple, where no request and no task is cut short.
AccountFollows ==
    \A p \in Referenced :
        []Simple(p) /\ <>[](Settled(p) /\ failures = 0) => <>[]Shown(p)

=============================================================================
