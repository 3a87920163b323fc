------------------------------ MODULE Autoscale ------------------------------
(***************************************************************************)
(* Paid boosts of a container and the orchestrator's protection            *)
(* (app/services/orchestrator.py), and the top-ups that pay for them       *)
(* (app/api/main.py).  Two processes run the orchestrator over the same    *)
(* containers: its own service (docker-compose.yml) and the scheduler      *)
(* (app/services/scheduler_runner.py); each has its own cache and its own  *)
(* registry of timers.                                                     *)
(*                                                                         *)
(* limit is what docker update was last told of a container: the limits of *)
(* its plan, half of their CPU, or the boost.  Procs are the processes     *)
(* with DRY_RUN off: a dry run changes nothing.  Money is counted in units *)
(* of which a boost costs Cost.                                            *)
(***************************************************************************)
EXTENDS Integers, FiniteSets

CONSTANTS
    Procs,          \* processes that run the orchestrator
    Sites,          \* containers with the prefix user_
    Users,
    Owner,          \* hostings.user_id of each site
    Start,          \* users.balance at the start
    Cost,           \* AUTOSCALE_COST
    Topups,         \* requests to POST /user/topup
    Payer,          \* who sends each of them
    Amount,         \* its amount
    Key,            \* its idempotency key
    MaxChanges,     \* bound: changes of a user's plan or configuration
    MaxFaults       \* bound: docker commands that fail or time out, database errors, restarts

ASSUME AutoscaleAssumption ==
    /\ IsFiniteSet(Procs)
    /\ Owner \in [Sites -> Users]
    /\ Start \in [Users -> Nat]
    /\ Cost \in Nat \ {0}
    /\ Payer \in [Topups -> Users]
    /\ Amount \in [Topups -> Nat \ {0}]
    /\ MaxChanges \in Nat /\ MaxFaults \in Nat

VARIABLES
    balance,        \* users.balance
    account,        \* the other columns of users that the orchestrator reads
    cache,          \* _user_cache of each process
    limit,          \* the limits of each container
    timer,          \* _active_timers of each process: the sites with a live timer
    work,           \* the container a process is handling, and how far it has come
    topup,          \* how far each top-up has come
    recorded,       \* topup_idempotency, whose primary key is the key alone
    boosts,         \* (history) boosts paid, logged and given a timer
    lost,           \* (history) charges neither refunded nor followed by a boost
    changes,
    faults

vars == <<balance, account, cache, limit, timer, work, topup, recorded, boosts, lost,
          changes, faults>>

-----------------------------------------------------------------------------
\* The columns of a user that handle_container and _is_paid_plan look at; wealthy is
\* "balance > 0" as it was when the row was read.
Account == [paid: BOOLEAN, autoscale: BOOLEAN, card: BOOLEAN]
Seen == [paid: BOOLEAN, autoscale: BOOLEAN, card: BOOLEAN, wealthy: BOOLEAN]
Nothing == [wealthy |-> "not read"]

Idle == [pc |-> "idle", site |-> ""]
Stages == {"half", "plan", "deduct", "update", "refund", "except", "log"}
Work == {Idle} \cup [pc: Stages, site: Sites]

TypeOK ==
    /\ balance \in [Users -> Nat]
    /\ account \in [Users -> Account]
    /\ cache \in [Procs -> [Users -> Seen \cup {Nothing}]]
    /\ limit \in [Sites -> {"plan", "half", "boost"}]
    /\ timer \in [Procs -> SUBSET Sites]
    /\ work \in [Procs -> Work]
    /\ topup \in [Topups -> {"new", "checked", "credited", "done"}]
    /\ recorded \subseteq [key: {Key[r] : r \in Topups}, user: Users]
    /\ boosts \in [Users -> Nat]
    /\ lost \in [Users -> Nat]
    /\ changes \in 0..MaxChanges
    /\ faults \in 0..MaxFaults

Init ==
    /\ balance = Start
    /\ account = [u \in Users |-> [paid |-> TRUE, autoscale |-> TRUE, card |-> TRUE]]
    /\ cache = [p \in Procs |-> [u \in Users |-> Nothing]]
    /\ limit = [s \in Sites |-> "plan"]
    /\ timer = [p \in Procs |-> {}]
    /\ work = [p \in Procs |-> Idle]
    /\ topup = [r \in Topups |-> "new"]
    /\ recorded = {}
    /\ boosts = [u \in Users |-> 0]
    /\ lost = [u \in Users |-> 0]
    /\ changes = 0
    /\ faults = 0

bounded == <<changes, faults>>
users == <<balance, account, topup, recorded>>

\* A docker command or a transaction that fails, or a restart.
Fault == faults < MaxFaults /\ faults' = faults + 1 /\ UNCHANGED changes

-----------------------------------------------------------------------------
\* What a user and an admin change meanwhile: POST /user/config (autoscale only on a paid
\* plan), and the plan, which payments and admins write.
Configure(u) ==
    /\ changes < MaxChanges /\ changes' = changes + 1
    /\ \/ \E on \in BOOLEAN :
             /\ on => account[u].paid
             /\ account' = [account EXCEPT ![u].autoscale = on]
       \/ \E card \in BOOLEAN : account' = [account EXCEPT ![u].card = card]
       \/ account' = [account EXCEPT ![u].paid = ~@]
    /\ UNCHANGED <<balance, cache, limit, timer, work, topup, recorded, boosts, lost, faults>>

\* POST /user/topup: the key is looked up, the balance credited and the key inserted, each
\* in a transaction of its own; a key that the same user has used ends the request.
Entry(r) == [key |-> Key[r], user |-> Payer[r]]

TopupCheck(r) ==
    /\ topup[r] = "new"
    /\ topup' = [topup EXCEPT ![r] = IF Entry(r) \in recorded THEN "done" ELSE "checked"]
    /\ UNCHANGED <<balance, account, cache, limit, timer, work, recorded, boosts, lost, bounded>>

TopupCredit(r) ==
    /\ topup[r] = "checked"
    /\ topup' = [topup EXCEPT ![r] = "credited"]
    /\ balance' = [balance EXCEPT ![Payer[r]] = @ + Amount[r]]
    /\ UNCHANGED <<account, cache, limit, timer, work, recorded, boosts, lost, bounded>>

TopupRecord(r) ==
    /\ topup[r] = "credited"
    /\ topup' = [topup EXCEPT ![r] = "done"]
    /\ \/ /\ recorded' = IF \E e \in recorded : e.key = Key[r] THEN recorded
                         ELSE recorded \cup {Entry(r)}
          /\ UNCHANGED bounded
       \/ Fault /\ UNCHANGED recorded
    /\ UNCHANGED <<balance, account, cache, limit, timer, work, boosts, lost>>

-----------------------------------------------------------------------------
\* _get_user_cached: the row, at most a minute old.
Read(u) == [paid |-> account[u].paid, autoscale |-> account[u].autoscale,
            card |-> account[u].card, wealthy |-> balance[u] > 0]
UserCached(p, u) == IF cache[p][u] = Nothing THEN Read(u) ELSE cache[p][u]

CacheExpires(p, u) ==
    /\ cache[p][u] # Nothing
    /\ cache' = [cache EXCEPT ![p][u] = Nothing]
    /\ UNCHANGED <<users, limit, timer, work, boosts, lost, bounded>>

WantsBoost(user) == user.autoscale /\ user.card /\ user.wealthy

\* handle_container for one line of docker stats: a burst while the server is not saturated
\* boosts the container of a user who wants that, and does nothing else; whoever cannot
\* have a boost falls through to the protection, which throttles (to half of the plan's CPU
\* or to the plan), restarts, or finds nothing to do.  _is_paid_plan guards all of them.
Handle(p, s, burst, protection) ==
    LET u == Owner[s]
        user == UserCached(p, u)
        boosting == burst /\ WantsBoost(user)
    IN /\ work[p] = Idle
       /\ cache' = [cache EXCEPT ![p][u] = user]
       /\ work' = [work EXCEPT ![p] =
             CASE boosting /\ user.paid /\ s \notin timer[p] -> [pc |-> "deduct", site |-> s]
               [] ~boosting /\ user.paid /\ protection \in {"half", "plan"} ->
                     [pc |-> protection, site |-> s]
               [] OTHER -> Idle]
       /\ UNCHANGED <<users, limit, timer, boosts, lost, bounded>>

At(p, pc) == work[p].pc = pc
Goto(p, pc) == work' = [work EXCEPT ![p].pc = pc]
Leave(p) == work' = [work EXCEPT ![p] = Idle]
Charge(p, u, amount) == balance' = [balance EXCEPT ![u] = amount]

\* throttle_container: docker update --cpus; the result only matters for the log.
Throttle(p) ==
    /\ At(p, "half") \/ At(p, "plan")
    /\ \/ limit' = [limit EXCEPT ![work[p].site] = work[p].pc] /\ UNCHANGED bounded
       \/ limit' \in {limit, [limit EXCEPT ![work[p].site] = work[p].pc]} /\ Fault
    /\ Leave(p)
    /\ UNCHANGED <<users, cache, timer, boosts, lost>>

\* deduct_balance_if_sufficient: UPDATE ... AND balance >= amount; an error ends the pass.
Deduct(p) ==
    LET u == Owner[work[p].site]
    IN /\ At(p, "deduct")
       /\ \/ /\ balance[u] >= Cost
             /\ Charge(p, u, balance[u] - Cost)
             /\ Goto(p, "update")
             /\ UNCHANGED bounded
          \/ balance[u] < Cost /\ Leave(p) /\ UNCHANGED <<balance, bounded>>
          \/ Fault /\ Leave(p) /\ UNCHANGED balance
       /\ UNCHANGED <<account, cache, limit, timer, topup, recorded, boosts, lost>>

\* docker update to the boost: a command that times out may have acted, and is refunded.
Update(p) ==
    LET boosted == [limit EXCEPT ![work[p].site] = "boost"]
    IN /\ At(p, "update")
       /\ \/ limit' = boosted /\ Goto(p, "log") /\ UNCHANGED bounded
          \/ limit' \in {limit, boosted} /\ Goto(p, "refund") /\ Fault
       /\ UNCHANGED <<users, cache, timer, boosts, lost>>

RefundForgotten(p) ==   \* (mutant) no money back
    /\ At(p, "refund")
    /\ Leave(p)
    /\ UNCHANGED <<users, cache, limit, timer, boosts, lost, bounded>>

\* The refund of a failed update; if it raises, the except clause tries once more.
Refund(p) ==
    LET u == Owner[work[p].site]
    IN /\ At(p, "refund")
       /\ \/ Charge(p, u, balance[u] + Cost) /\ Leave(p) /\ UNCHANGED bounded
          \/ Fault /\ Goto(p, "except") /\ UNCHANGED balance
       /\ UNCHANGED <<account, cache, limit, timer, topup, recorded, boosts, lost>>

\* The except clause, also for an error of the log, after the container was boosted.
Except(p) ==
    LET u == Owner[work[p].site]
    IN /\ At(p, "except")
       /\ \/ Charge(p, u, balance[u] + Cost) /\ UNCHANGED <<lost, bounded>>
          \/ Fault /\ lost' = [lost EXCEPT ![u] = @ + 1] /\ UNCHANGED balance
       /\ Leave(p)
       /\ UNCHANGED <<account, cache, limit, timer, topup, recorded, boosts>>

LogOnly(p) ==   \* (mutant) the timer is never started
    /\ At(p, "log")
    /\ boosts' = [boosts EXCEPT ![Owner[work[p].site]] = @ + 1]
    /\ Leave(p)
    /\ UNCHANGED <<users, cache, limit, timer, lost, bounded>>

\* log_orchestrator_event and threading.Timer.
Log(p) ==
    LET s == work[p].site
    IN /\ At(p, "log")
       /\ \/ /\ timer' = [timer EXCEPT ![p] = @ \cup {s}]
             /\ boosts' = [boosts EXCEPT ![Owner[s]] = @ + 1]
             /\ Leave(p)
             /\ UNCHANGED bounded
          \/ Fault /\ Goto(p, "except") /\ UNCHANGED <<timer, boosts>>
       /\ UNCHANGED <<users, cache, limit, lost>>

RevertForgotten(p, s) ==   \* (mutant) pops the timer and forgets the container
    /\ s \in timer[p]
    /\ timer' = [timer EXCEPT ![p] = @ \ {s}]
    /\ UNCHANGED <<users, cache, limit, work, boosts, lost, bounded>>

\* revert_scaling, in the timer's thread: a failure is logged, the timer is popped anyway.
Revert(p, s) ==
    /\ s \in timer[p]
    /\ \/ limit' = [limit EXCEPT ![s] = "plan"] /\ UNCHANGED bounded
       \/ limit' \in {limit, [limit EXCEPT ![s] = "plan"]} /\ Fault
    /\ timer' = [timer EXCEPT ![p] = @ \ {s}]
    /\ UNCHANGED <<users, cache, work, boosts, lost>>

\* The processes that have charged a user and not settled it yet.
Unsettled == {"update", "refund", "except", "log"}
InFlight(u) == {p \in Procs : work[p].pc \in Unsettled /\ Owner[work[p].site] = u}

\* A process that dies forgets its caches, its timers and what it was doing.
Crash(p) ==
    /\ Fault
    /\ lost' = [u \in Users |-> IF p \in InFlight(u) THEN lost[u] + 1 ELSE lost[u]]
    /\ cache' = [cache EXCEPT ![p] = [u \in Users |-> Nothing]]
    /\ timer' = [timer EXCEPT ![p] = {}]
    /\ Leave(p)
    /\ UNCHANGED <<users, limit, boosts>>

-----------------------------------------------------------------------------
Step(p) == Throttle(p) \/ Deduct(p) \/ Update(p) \/ Refund(p) \/ Except(p) \/ Log(p)

Next ==
    \/ \E u \in Users : Configure(u)
    \/ \E r \in Topups : TopupCheck(r) \/ TopupCredit(r) \/ TopupRecord(r)
    \/ \E p \in Procs, u \in Users : CacheExpires(p, u)
    \/ \E p \in Procs, s \in Sites, burst \in BOOLEAN, protection \in {"half", "plan", "none"} :
          Handle(p, s, burst, protection)
    \/ \E p \in Procs : Step(p) \/ Crash(p)
    \/ \E p \in Procs, s \in Sites : Revert(p, s)

Spec == Init /\ [][Next]_vars

\* A process goes on with what it has begun, and its timers go off.
FairSpec == Spec /\ \A p \in Procs : WF_vars(Step(p)) /\ \A s \in Sites : WF_vars(Revert(p, s))

-----------------------------------------------------------------------------
\* Implementation of Wallet: a boost and its price are atomic.  What a process has taken and
\* not yet settled still counts as the user's, and so does what a crash, or a second
\* failing refund, has lost (orchestrator.py:289); docker failures and a failing log lose
\* nothing.
Money(u) == balance[u] + Cost * (Cardinality(InFlight(u)) + lost[u])
Purse == [u \in Users |-> Money(u)]

Promise == INSTANCE Wallet WITH
    money <- Purse,
    Amounts <- {Amount[r] : r \in Topups}

Charged == Promise!Spec

\* While nothing has failed, a boosted container has somebody to revert it: a live timer of a
\* process, or a process about to start one, whatever the two processes and the protection
\* do to the container in between.
BoostHasTimer ==
    faults = 0 =>
        \A s \in Sites : limit[s] = "boost" =>
            \E p \in Procs : s \in timer[p] \/ work[p] = [pc |-> "log", site |-> s]

\* And every boost ends, unless a docker command failed or a process restarted on the way
\* (revert_scaling is not repeated, and its timer lives in the process).
BoostEnds == \A s \in Sites :
    limit[s] = "boost" ~> limit[s] # "boost" \/ faults > 0

==============================================================================
