-------------------------- MODULE Autoscale_proofs --------------------------
(***************************************************************************)
(* Autoscale for any number of processes, containers, users and top-ups:   *)
(* no boost on credit, a live timer for every boost while nothing fails,   *)
(* and the refinement of Wallet.                                           *)
(*                                                                         *)
(* TypeOK (balance is a natural number) and BoostHasTimer are inductive as *)
(* they stand.  The refinement needs to know how InFlight changes: every   *)
(* step changes the work of one process, and with it the membership of     *)
(* that process in one user's set.                                         *)
(***************************************************************************)
EXTENDS Autoscale, FiniteSetTheorems, TLAPS

\* The parts of the assumption, for the provers.
LEMMA Constants ==
  /\ IsFiniteSet(Procs)
  /\ \A s \in Sites : Owner[s] \in Users
  /\ Start \in [Users -> Nat]
  /\ Cost \in Nat \ {0}
  /\ \A r \in Topups : Payer[r] \in Users /\ Amount[r] \in Nat \ {0}
  /\ MaxChanges \in Nat /\ MaxFaults \in Nat
  BY AutoscaleAssumption, Zenon

\* A process that is not idle works on a site.
LEMMA Busy ==
  ASSUME TypeOK, NEW p \in Procs, work[p].pc # "idle"
  PROVE  /\ work[p] \in [pc: Stages, site: Sites]
         /\ work[p].site \in Sites /\ Owner[work[p].site] \in Users
<1>1. work[p] \in Work
  BY DEF TypeOK
<1>2. Idle.pc = "idle"
  BY DEF Idle
<1>3. work[p] \in [pc: Stages, site: Sites]
  BY <1>1, <1>2 DEF Work
<1>4. QED
  BY <1>3, Constants

LEMMA GotoType ==
  ASSUME TypeOK, NEW p \in Procs, work[p].pc # "idle", NEW x \in Stages, Goto(p, x)
  PROVE  work' \in [Procs -> Work]
  BY Busy DEF TypeOK, Work, Idle, Stages, Goto

LEMMA LeaveType ==
  ASSUME TypeOK, NEW p \in Procs, Leave(p)
  PROVE  work' \in [Procs -> Work]
  BY DEF TypeOK, Work, Leave

LEMMA Counters ==
  ASSUME TypeOK, UNCHANGED bounded \/ Fault
  PROVE  changes' \in 0..MaxChanges /\ faults' \in 0..MaxFaults
  BY Constants DEF TypeOK, bounded, Fault

LEMMA CachedType ==
  ASSUME TypeOK, NEW p \in Procs, NEW u \in Users
  PROVE  UserCached(p, u) \in Seen
<1>1. Read(u) \in Seen
  BY DEF TypeOK, Read, Seen, Account
<1>2. cache[p][u] \in Seen \cup {Nothing}
  BY DEF TypeOK
<1>3. QED
  BY <1>1, <1>2 DEF UserCached

-----------------------------------------------------------------------------
LEMMA InitType == Init => TypeOK
<1> SUFFICES ASSUME Init PROVE TypeOK
  OBVIOUS
<1>1. \A u \in Users : [paid |-> TRUE, autoscale |-> TRUE, card |-> TRUE] \in Account
  BY DEF Account
<1>2. QED
  BY <1>1, Constants DEF Init, TypeOK, Work

LEMMA NextType == TypeOK /\ [Next]_vars => TypeOK'
<1> SUFFICES ASSUME TypeOK, [Next]_vars PROVE TypeOK'
  OBVIOUS
<1> USE Constants
<1>1. ASSUME NEW u \in Users, Configure(u) PROVE TypeOK'
  <2>1. account' \in [Users -> Account]
    <3>1. account \in [Users -> Account]
      BY DEF TypeOK
    <3>2. ASSUME NEW x \in BOOLEAN
          PROVE  /\ [account[u] EXCEPT !.autoscale = x] \in Account
                 /\ [account[u] EXCEPT !.card = x] \in Account
                 /\ [account[u] EXCEPT !.paid = x] \in Account
      BY <3>1 DEF Account
    <3>3. ASSUME NEW b \in Account PROVE [account EXCEPT ![u] = b] \in [Users -> Account]
      BY <3>1
    <3>4. CASE \E on \in BOOLEAN : account' = [account EXCEPT ![u].autoscale = on]
      <4>1. PICK x \in BOOLEAN : account' = [account EXCEPT ![u].autoscale = x]
        BY <3>4
      <4>2. account' = [account EXCEPT ![u] = [account[u] EXCEPT !.autoscale = x]]
        BY <4>1
      <4>3. [account[u] EXCEPT !.autoscale = x] \in Account
        BY <3>2
      <4>4. QED
        BY <3>3, <4>2, <4>3
    <3>5. CASE \E card \in BOOLEAN : account' = [account EXCEPT ![u].card = card]
      <4>1. PICK x \in BOOLEAN : account' = [account EXCEPT ![u].card = x]
        BY <3>5
      <4>2. account' = [account EXCEPT ![u] = [account[u] EXCEPT !.card = x]]
        BY <4>1
      <4>3. [account[u] EXCEPT !.card = x] \in Account
        BY <3>2
      <4>4. QED
        BY <3>3, <4>2, <4>3
    <3>6. CASE account' = [account EXCEPT ![u].paid = ~@]
      <4>1. (~account[u].paid) \in BOOLEAN
        OBVIOUS
      <4>2. account' = [account EXCEPT ![u] = [account[u] EXCEPT !.paid = ~account[u].paid]]
        BY <3>6
      <4>3. [account[u] EXCEPT !.paid = ~account[u].paid] \in Account
        BY <3>2, <4>1
      <4>4. QED
        BY <3>3, <4>2, <4>3
    <3>7. QED
      BY <1>1, <3>4, <3>5, <3>6 DEF Configure
  <2>2. changes' \in 0..MaxChanges
    BY <1>1 DEF Configure, TypeOK
  <2>3. QED
    BY <1>1, <2>1, <2>2 DEF Configure, TypeOK
<1>2. ASSUME NEW r \in Topups, TopupCheck(r) PROVE TypeOK'
  BY <1>2 DEF TopupCheck, TypeOK, bounded
<1>3. ASSUME NEW r \in Topups, TopupCredit(r) PROVE TypeOK'
  <2>1. balance' \in [Users -> Nat]
    BY <1>3 DEF TopupCredit, TypeOK
  <2>2. QED
    BY <1>3, <2>1 DEF TopupCredit, TypeOK, bounded
<1>4. ASSUME NEW r \in Topups, TopupRecord(r) PROVE TypeOK'
  <2>1. Entry(r) \in [key: {Key[q] : q \in Topups}, user: Users]
    BY DEF Entry
  <2>2. recorded' \subseteq [key: {Key[q] : q \in Topups}, user: Users]
    BY <1>4, <2>1 DEF TopupRecord, TypeOK
  <2>3. UNCHANGED bounded \/ Fault
    BY <1>4 DEF TopupRecord
  <2>4. QED
    BY <1>4, <2>2, <2>3, Counters DEF TopupRecord, TypeOK
<1>5. ASSUME NEW p \in Procs, NEW u \in Users, CacheExpires(p, u) PROVE TypeOK'
  <2>1. cache' \in [Procs -> [Users -> Seen \cup {Nothing}]]
    BY <1>5 DEF CacheExpires, TypeOK
  <2>2. QED
    BY <1>5, <2>1 DEF CacheExpires, TypeOK, bounded, users
<1>6. ASSUME NEW p \in Procs, NEW s \in Sites, NEW burst \in BOOLEAN,
             NEW protection \in {"half", "plan", "none"}, Handle(p, s, burst, protection)
      PROVE  TypeOK'
  <2> DEFINE u == Owner[s]
             user == UserCached(p, u)
  <2>1. user \in Seen
    BY CachedType
  <2>2. cache' \in [Procs -> [Users -> Seen \cup {Nothing}]]
    BY <1>6, <2>1 DEF Handle, TypeOK
  <2>3. \E w \in Work : work' = [work EXCEPT ![p] = w]
    <3>1. /\ Idle \in Work
          /\ \A x \in {"deduct", "half", "plan"} : [pc |-> x, site |-> s] \in Work
      BY DEF Work, Stages
    <3>2. QED
      BY <1>6, <3>1 DEF Handle
  <2>4. work' \in [Procs -> Work]
    BY <2>3 DEF TypeOK
  <2>5. QED
    BY <1>6, <2>2, <2>4 DEF Handle, TypeOK, bounded, users
<1>7. ASSUME NEW p \in Procs, Throttle(p) PROVE TypeOK'
  <2>1. work' \in [Procs -> Work] /\ work[p].site \in Sites
    BY <1>7, LeaveType, Busy DEF Throttle, At
  <2>2. limit' \in [Sites -> {"plan", "half", "boost"}]
    BY <1>7, <2>1 DEF Throttle, At, TypeOK
  <2>3. QED
    BY <1>7, <2>1, <2>2, Counters DEF Throttle, TypeOK, users
<1>8. ASSUME NEW p \in Procs, Deduct(p) PROVE TypeOK'
  <2>1. Owner[work[p].site] \in Users
    BY <1>8, Busy DEF Deduct, At
  <2>2. balance' \in [Users -> Nat]
    BY <1>8, <2>1 DEF Deduct, Charge, TypeOK
  <2>3. work' \in [Procs -> Work]
    BY <1>8, LeaveType, GotoType DEF Deduct, At, Stages
  <2>4. QED
    BY <1>8, <2>2, <2>3, Counters DEF Deduct, TypeOK
<1>9. ASSUME NEW p \in Procs, Update(p) PROVE TypeOK'
  <2>1. work' \in [Procs -> Work] /\ work[p].site \in Sites
    BY <1>9, GotoType, Busy DEF Update, At, Stages
  <2>2. limit' \in [Sites -> {"plan", "half", "boost"}]
    BY <1>9, <2>1 DEF Update, TypeOK
  <2>3. QED
    BY <1>9, <2>1, <2>2, Counters DEF Update, TypeOK, users
<1>10. ASSUME NEW p \in Procs, Refund(p) PROVE TypeOK'
  <2>1. Owner[work[p].site] \in Users
    BY <1>10, Busy DEF Refund, At
  <2>2. balance' \in [Users -> Nat]
    BY <1>10, <2>1 DEF Refund, Charge, TypeOK
  <2>3. work' \in [Procs -> Work]
    BY <1>10, LeaveType, GotoType DEF Refund, At, Stages
  <2>4. QED
    BY <1>10, <2>2, <2>3, Counters DEF Refund, TypeOK
<1>11. ASSUME NEW p \in Procs, Except(p) PROVE TypeOK'
  <2>1. Owner[work[p].site] \in Users
    BY <1>11, Busy DEF Except, At
  <2>2. balance' \in [Users -> Nat]
    BY <1>11, <2>1 DEF Except, Charge, TypeOK
  <2>3. lost' \in [Users -> Nat]
    BY <1>11, <2>1 DEF Except, TypeOK
  <2>4. work' \in [Procs -> Work]
    BY <1>11, LeaveType DEF Except
  <2>5. UNCHANGED bounded \/ Fault
    BY <1>11 DEF Except
  <2>6. QED
    BY <1>11, <2>2, <2>3, <2>4, <2>5, Counters DEF Except, TypeOK
<1>12. ASSUME NEW p \in Procs, Log(p) PROVE TypeOK'
  <2>1. work[p].site \in Sites /\ Owner[work[p].site] \in Users
    BY <1>12, Busy DEF Log, At
  <2>2. boosts' \in [Users -> Nat]
    BY <1>12, <2>1 DEF Log, TypeOK
  <2>3. timer' \in [Procs -> SUBSET Sites]
    BY <1>12, <2>1 DEF Log, TypeOK
  <2>4. work' \in [Procs -> Work]
    BY <1>12, LeaveType, GotoType DEF Log, At, Stages
  <2>5. UNCHANGED bounded \/ Fault
    BY <1>12 DEF Log
  <2>6. QED
    BY <1>12, <2>2, <2>3, <2>4, <2>5, Counters DEF Log, TypeOK, users
<1>13. ASSUME NEW p \in Procs, Crash(p) PROVE TypeOK'
  <2>1. /\ lost' \in [Users -> Nat] /\ timer' \in [Procs -> SUBSET Sites]
        /\ cache' \in [Procs -> [Users -> Seen \cup {Nothing}]]
    BY <1>13 DEF Crash, TypeOK
  <2>2. work' \in [Procs -> Work]
    BY <1>13, LeaveType DEF Crash
  <2>3. QED
    BY <1>13, <2>1, <2>2, Counters DEF Crash, TypeOK, users
<1>14. ASSUME NEW p \in Procs, NEW s \in Sites, Revert(p, s) PROVE TypeOK'
  <2>1. limit' \in [Sites -> {"plan", "half", "boost"}] /\ timer' \in [Procs -> SUBSET Sites]
    BY <1>14 DEF Revert, TypeOK
  <2>2. QED
    BY <1>14, <2>1, Counters DEF Revert, TypeOK, users
<1>15. CASE UNCHANGED vars
  BY <1>15 DEF vars, TypeOK
<1>16. QED
  BY <1>1, <1>2, <1>3, <1>4, <1>5, <1>6, <1>7, <1>8, <1>9, <1>10, <1>11, <1>12, <1>13, <1>14,
     <1>15 DEF Next, Step

\* Every variable keeps its type: no balance is ever negative, although the balance that
\* decides a boost is read from a cache.
THEOREM AutoscaleTypeCorrect == Spec => []TypeOK
<1>1. QED
  BY InitType, NextType, PTL DEF Spec

-----------------------------------------------------------------------------
Cover(s) == \E p \in Procs : s \in timer[p] \/ work[p] = [pc |-> "log", site |-> s]
Calm == faults = 0

\* Nothing has failed after a step if nothing had before and the step has not.
LEMMA StaysCalm ==
  ASSUME TypeOK, [Next]_vars, Calm'
  PROVE  Calm
<1>1. ASSUME UNCHANGED bounded \/ Fault PROVE Calm
  BY <1>1 DEF TypeOK, Calm, bounded, Fault
<1>2. ASSUME NEW u \in Users, Configure(u) PROVE Calm
  BY <1>2 DEF Configure, Calm
<1>3. ASSUME NEW r \in Topups, TopupCheck(r) \/ TopupCredit(r) \/ TopupRecord(r) PROVE Calm
  BY <1>1, <1>3 DEF TopupCheck, TopupCredit, TopupRecord
<1>4. ASSUME NEW p \in Procs, NEW u \in Users, CacheExpires(p, u) PROVE Calm
  BY <1>1, <1>4 DEF CacheExpires
<1>5. ASSUME NEW p \in Procs, NEW s \in Sites, NEW burst \in BOOLEAN,
             NEW protection \in {"half", "plan", "none"}, Handle(p, s, burst, protection)
      PROVE  Calm
  BY <1>1, <1>5 DEF Handle
<1>6. ASSUME NEW p \in Procs, Step(p) PROVE Calm
  BY <1>1, <1>6 DEF Step, Throttle, Deduct, Update, Refund, Except, Log
<1>7. ASSUME NEW p \in Procs, Crash(p) PROVE Calm
  BY <1>1, <1>7 DEF Crash
<1>8. ASSUME NEW p \in Procs, NEW s \in Sites, Revert(p, s) PROVE Calm
  BY <1>1, <1>8 DEF Revert
<1>9. CASE UNCHANGED vars
  BY <1>1, <1>9 DEF vars, bounded
<1>10. QED
  BY <1>2, <1>3, <1>4, <1>5, <1>6, <1>7, <1>8, <1>9 DEF Next

LEMMA CalmStep ==
  ASSUME TypeOK, Calm'
  PROVE  ~Fault
  BY Constants DEF TypeOK, Calm, Fault

\* A step that leaves limit and timer alone, and no process that is about to start a timer.
LEMMA Uncovered ==
  ASSUME TypeOK, BoostHasTimer, Calm, UNCHANGED <<limit, timer>>,
         NEW p \in Procs, work[p].pc # "log", NEW w, work' = [work EXCEPT ![p] = w]
  PROVE  BoostHasTimer'
<1> SUFFICES ASSUME NEW s \in Sites, limit[s] = "boost" PROVE Cover(s)'
  BY DEF BoostHasTimer, Cover
<1>1. PICK q \in Procs : s \in timer[q] \/ work[q] = [pc |-> "log", site |-> s]
  BY DEF BoostHasTimer, Calm
<1>2. work[q] = [pc |-> "log", site |-> s] => q # p /\ work'[q] = work[q]
  BY DEF TypeOK
<1>3. QED
  BY <1>1, <1>2 DEF Cover

LEMMA NextCovered == TypeOK /\ BoostHasTimer /\ [Next]_vars => BoostHasTimer'
<1> SUFFICES ASSUME TypeOK, BoostHasTimer, [Next]_vars, Calm' PROVE BoostHasTimer'
  BY DEF BoostHasTimer, Calm
<1>1. Calm /\ ~Fault
  BY StaysCalm, CalmStep
<1>2. ASSUME UNCHANGED <<limit, timer, work>> PROVE BoostHasTimer'
  BY <1>1, <1>2 DEF BoostHasTimer, Calm
<1>3. ASSUME NEW u \in Users, Configure(u) PROVE BoostHasTimer'
  BY <1>2, <1>3 DEF Configure
<1>4. ASSUME NEW r \in Topups, TopupCheck(r) \/ TopupCredit(r) \/ TopupRecord(r)
      PROVE  BoostHasTimer'
  BY <1>2, <1>4 DEF TopupCheck, TopupCredit, TopupRecord
<1>5. ASSUME NEW p \in Procs, NEW u \in Users, CacheExpires(p, u) PROVE BoostHasTimer'
  BY <1>2, <1>5 DEF CacheExpires
<1>6. ASSUME NEW p \in Procs, NEW s \in Sites, NEW burst \in BOOLEAN,
             NEW protection \in {"half", "plan", "none"}, Handle(p, s, burst, protection)
      PROVE  BoostHasTimer'
  <2>1. UNCHANGED <<limit, timer>> /\ work[p].pc # "log"
    <3>1. UNCHANGED <<limit, timer>> /\ work[p] = Idle
      BY <1>6 DEF Handle
    <3>2. Idle.pc = "idle"
      BY DEF Idle
    <3>3. QED
      BY <3>1, <3>2
  <2>2. PICK w : work' = [work EXCEPT ![p] = w]
    BY <1>6 DEF Handle
  <2>3. QED
    BY <1>1, <2>1, <2>2, Uncovered
<1>7. ASSUME NEW p \in Procs, Throttle(p) PROVE BoostHasTimer'
  <2> SUFFICES ASSUME NEW s \in Sites, limit'[s] = "boost" PROVE Cover(s)'
    BY DEF BoostHasTimer, Cover
  <2>1. work[p].pc \in {"half", "plan"} /\ limit' = [limit EXCEPT ![work[p].site] = work[p].pc]
    BY <1>1, <1>7 DEF Throttle, At
  <2>2. limit[s] = "boost"
    BY <2>1 DEF TypeOK
  <2>3. PICK q \in Procs : s \in timer[q] \/ work[q] = [pc |-> "log", site |-> s]
    BY <1>1, <2>2 DEF BoostHasTimer, Calm
  <2>4. ASSUME work[q] = [pc |-> "log", site |-> s] PROVE work'[q] = [pc |-> "log", site |-> s]
    <3>1. q # p
      BY <2>1, <2>4
    <3>2. QED
      BY <1>7, <2>4, <3>1 DEF Throttle, Leave, TypeOK
  <2>5. QED
    BY <1>7, <2>3, <2>4 DEF Cover, Throttle
<1>8. ASSUME NEW p \in Procs, Deduct(p) \/ Refund(p) \/ Except(p) PROVE BoostHasTimer'
  <2>1. UNCHANGED <<limit, timer>> /\ work[p].pc # "log"
    BY <1>8 DEF Deduct, Refund, Except, At
  <2>2. PICK w : work' = [work EXCEPT ![p] = w]
    BY <1>8 DEF Deduct, Refund, Except, Goto, Leave
  <2>3. QED
    BY <1>1, <2>1, <2>2, Uncovered
<1>9. ASSUME NEW p \in Procs, Update(p) PROVE BoostHasTimer'
  <2> SUFFICES ASSUME NEW s \in Sites, limit'[s] = "boost" PROVE Cover(s)'
    BY DEF BoostHasTimer, Cover
  <2>1. /\ work[p].pc = "update" /\ limit' = [limit EXCEPT ![work[p].site] = "boost"]
        /\ work' = [work EXCEPT ![p].pc = "log"]
    BY <1>1, <1>9 DEF Update, At, Goto
  <2>2. work[p] \in [pc: Stages, site: Sites]
    BY <2>1, Busy
  <2>3. CASE s = work[p].site
    <3>1. work'[p] = [pc |-> "log", site |-> s]
      BY <2>1, <2>2, <2>3 DEF TypeOK
    <3>2. QED
      BY <3>1 DEF Cover
  <2>4. CASE s # work[p].site
    <3>1. limit[s] = "boost"
      BY <2>1, <2>4 DEF TypeOK
    <3>2. PICK q \in Procs : s \in timer[q] \/ work[q] = [pc |-> "log", site |-> s]
      BY <1>1, <3>1 DEF BoostHasTimer, Calm
    <3>3. work[q] = [pc |-> "log", site |-> s] => work'[q] = work[q]
      BY <2>1 DEF TypeOK
    <3>4. QED
      BY <1>9, <3>2, <3>3 DEF Cover, Update
  <2>5. QED
    BY <2>3, <2>4
<1>10. ASSUME NEW p \in Procs, Log(p) PROVE BoostHasTimer'
  <2> SUFFICES ASSUME NEW s \in Sites, limit[s] = "boost" PROVE Cover(s)'
    BY <1>10 DEF BoostHasTimer, Cover, Log
  <2>1. /\ work[p].pc = "log" /\ timer' = [timer EXCEPT ![p] = @ \cup {work[p].site}]
        /\ work' = [work EXCEPT ![p] = Idle]
    BY <1>1, <1>10 DEF Log, At, Leave
  <2>2. PICK q \in Procs : s \in timer[q] \/ work[q] = [pc |-> "log", site |-> s]
    BY <1>1 DEF BoostHasTimer, Calm
  <2>3. CASE s \in timer[q]
    <3>1. s \in timer'[q]
      BY <2>1, <2>3 DEF TypeOK
    <3>2. QED
      BY <3>1 DEF Cover
  <2>4. CASE work[q] = [pc |-> "log", site |-> s] /\ q = p
    <3>1. s \in timer'[p]
      BY <2>1, <2>4 DEF TypeOK
    <3>2. QED
      BY <3>1 DEF Cover
  <2>5. CASE work[q] = [pc |-> "log", site |-> s] /\ q # p
    <3>1. work'[q] = work[q]
      BY <2>1, <2>5 DEF TypeOK
    <3>2. QED
      BY <2>5, <3>1 DEF Cover
  <2>6. QED
    BY <2>2, <2>3, <2>4, <2>5
<1>11. ASSUME NEW p \in Procs, Crash(p) PROVE BoostHasTimer'
  BY <1>1, <1>11 DEF Crash
<1>12. ASSUME NEW p \in Procs, NEW x \in Sites, Revert(p, x) PROVE BoostHasTimer'
  <2> SUFFICES ASSUME NEW s \in Sites, limit'[s] = "boost" PROVE Cover(s)'
    BY DEF BoostHasTimer, Cover
  <2>1. /\ limit' = [limit EXCEPT ![x] = "plan"] /\ timer' = [timer EXCEPT ![p] = @ \ {x}]
        /\ work' = work
    BY <1>1, <1>12 DEF Revert
  <2>2. s # x /\ limit[s] = "boost"
    BY <2>1 DEF TypeOK
  <2>3. PICK q \in Procs : s \in timer[q] \/ work[q] = [pc |-> "log", site |-> s]
    BY <1>1, <2>2 DEF BoostHasTimer, Calm
  <2>4. s \in timer[q] => s \in timer'[q]
    BY <2>1, <2>2 DEF TypeOK
  <2>5. QED
    BY <2>1, <2>3, <2>4 DEF Cover
<1>13. CASE UNCHANGED vars
  BY <1>2, <1>13 DEF vars
<1>14. QED
  BY <1>3, <1>4, <1>5, <1>6, <1>7, <1>8, <1>9, <1>10, <1>11, <1>12, <1>13 DEF Next, Step

\* While nothing has failed, a boosted container has a timer that will revert it.
THEOREM AutoscaleBoostHasTimer == Spec => []BoostHasTimer
<1>1. Init => BoostHasTimer
  BY DEF Init, BoostHasTimer
<1>2. QED
  BY <1>1, InitType, NextType, NextCovered, PTL DEF Spec

-----------------------------------------------------------------------------
\* What a step of one process does to the set of those in flight for a user.
LEMMA FlightAfter ==
  ASSUME TypeOK, NEW p \in Procs, NEW w, work' = [work EXCEPT ![p] = w], NEW u
  PROVE  /\ w.pc \in Unsettled /\ Owner[w.site] = u => InFlight(u)' = InFlight(u) \cup {p}
         /\ ~(w.pc \in Unsettled /\ Owner[w.site] = u) => InFlight(u)' = InFlight(u) \ {p}
<1>1. work'[p] = w /\ \A q \in Procs \ {p} : work'[q] = work[q]
  BY DEF TypeOK
<1>2. QED
  BY <1>1 DEF InFlight

LEMMA FlightFinite ==
  ASSUME NEW u
  PROVE  IsFiniteSet(InFlight(u)) /\ Cardinality(InFlight(u)) \in Nat
<1>1. InFlight(u) \subseteq Procs /\ IsFiniteSet(Procs)
  BY Constants DEF InFlight
<1>2. IsFiniteSet(InFlight(u))
  BY <1>1, FS_Subset
<1>3. QED
  BY <1>2, FS_CardinalityType

LEMMA FlightFiniteAfter ==
  ASSUME NEW u
  PROVE  Cardinality(InFlight(u))' \in Nat
<1>1. InFlight(u)' \subseteq Procs /\ IsFiniteSet(Procs)
  BY Constants DEF InFlight
<1>2. IsFiniteSet(InFlight(u)')
  BY <1>1, FS_Subset
<1>3. QED
  BY <1>2, FS_CardinalityType

LEMMA Times ==
  ASSUME NEW a \in Nat
  PROVE  Cost * a \in Nat /\ Cost * (a + 1) = Cost * a + Cost
  BY Constants

LEMMA MoneyType ==
  ASSUME TypeOK, NEW u \in Users
  PROVE  Money(u) \in Nat
<1>1. Cardinality(InFlight(u)) + lost[u] \in Nat /\ balance[u] \in Nat
  BY FlightFinite DEF TypeOK
<1>2. QED
  BY <1>1, Times DEF Money

\* The balance changes, and the number of charges that are in flight or lost with it.
LEMMA MoneyAfter ==
  ASSUME TypeOK, TypeOK', NEW u \in Users
  PROVE  LET n == Cardinality(InFlight(u)) + lost[u]
         IN /\ (Cardinality(InFlight(u)) + lost[u])' = n =>
                 Money(u)' = Money(u) + (balance'[u] - balance[u])
            /\ (Cardinality(InFlight(u)) + lost[u])' = n + 1 =>
                 Money(u)' = Money(u) + (balance'[u] - balance[u]) + Cost
            /\ n = (Cardinality(InFlight(u)) + lost[u])' + 1 =>
                 Money(u)' = Money(u) + (balance'[u] - balance[u]) - Cost
<1> DEFINE n == Cardinality(InFlight(u)) + lost[u]
           m == (Cardinality(InFlight(u)) + lost[u])'
<1>1. Cardinality(InFlight(u)) \in Nat /\ Cardinality(InFlight(u))' \in Nat
  BY FlightFinite, FlightFiniteAfter
<1>2. n \in Nat /\ m \in Nat /\ balance[u] \in Nat /\ balance'[u] \in Nat /\ Cost \in Nat
  BY <1>1, Constants DEF TypeOK
<1>3. Money(u) = balance[u] + Cost * n /\ Money(u)' = balance'[u] + Cost * m
  BY DEF Money
<1> HIDE DEF n, m
<1>4. Cost * n \in Nat /\ Cost * m \in Nat
      /\ Cost * (n + 1) = Cost * n + Cost /\ Cost * (m + 1) = Cost * m + Cost
  BY <1>2, Times
<1>5. (m = n \/ m = n + 1 \/ n = m + 1) =>
         /\ m = n => Money(u)' = Money(u) + (balance'[u] - balance[u])
         /\ m = n + 1 => Money(u)' = Money(u) + (balance'[u] - balance[u]) + Cost
         /\ n = m + 1 => Money(u)' = Money(u) + (balance'[u] - balance[u]) - Cost
  <2>1. m = n => Money(u)' = Money(u) + (balance'[u] - balance[u])
    BY <1>2, <1>3, <1>4
  <2>2. m = n + 1 => Money(u)' = Money(u) + (balance'[u] - balance[u]) + Cost
    BY <1>2, <1>3, <1>4
  <2>3. n = m + 1 => Money(u)' = Money(u) + (balance'[u] - balance[u]) - Cost
    BY <1>2, <1>3, <1>4
  <2>4. QED
    BY <2>1, <2>2, <2>3
<1>6. QED
  BY <1>5 DEF n, m

\* A process enters or leaves the set: the count goes up or down by one.
LEMMA Entering ==
  ASSUME NEW u, NEW p, p \notin InFlight(u), InFlight(u)' = InFlight(u) \cup {p}
  PROVE  Cardinality(InFlight(u))' = Cardinality(InFlight(u)) + 1
<1>1. Cardinality(InFlight(u) \cup {p}) = Cardinality(InFlight(u)) + 1
  BY FlightFinite, FS_AddElement
<1>2. QED
  BY <1>1

LEMMA Leaving ==
  ASSUME NEW u, NEW p, p \in InFlight(u), InFlight(u)' = InFlight(u) \ {p}
  PROVE  Cardinality(InFlight(u)) = Cardinality(InFlight(u))' + 1
<1>1. Cardinality(InFlight(u) \ {p}) = Cardinality(InFlight(u)) - 1
  BY FlightFinite, FS_RemoveElement
<1>2. Cardinality(InFlight(u) \ {p}) \in Nat
  BY FlightFinite, FS_RemoveElement, FS_CardinalityType
<1>3. Cardinality(InFlight(u)) \in Nat
  BY FlightFinite
<1>4. QED
  BY <1>1, <1>2, <1>3

LEMMA PurseSame ==
  ASSUME \A u \in Users : Money(u)' = Money(u)
  PROVE  Purse' = Purse
  BY DEF Purse

\* A process that neither charges nor settles anything.
LEMMA Unmoved ==
  ASSUME TypeOK, TypeOK', NEW p \in Procs, NEW w, work' = [work EXCEPT ![p] = w],
         work[p].pc \in Unsettled <=> w.pc \in Unsettled,
         w.pc \in Unsettled => w.site = work[p].site,
         UNCHANGED <<balance, lost>>
  PROVE  Purse' = Purse
<1> SUFFICES ASSUME NEW u \in Users PROVE Money(u)' = Money(u)
  BY PurseSame
<1>1. InFlight(u)' = InFlight(u)
  BY FlightAfter DEF InFlight
<1>2. QED
  BY <1>1 DEF Money

LEMMA GotoIs ==
  ASSUME TypeOK, NEW p \in Procs, work[p].pc # "idle", NEW x, Goto(p, x)
  PROVE  \E w : /\ work' = [work EXCEPT ![p] = w]
                /\ w.pc = x /\ w.site = work[p].site
<1> DEFINE w == [work[p] EXCEPT !.pc = x]
<1>1. work' = [work EXCEPT ![p] = w]
  BY DEF Goto, TypeOK
<1>2. w.pc = x /\ w.site = work[p].site
  BY Busy
<1>3. QED
  BY <1>1, <1>2

LEMMA IdleIs == Idle.pc = "idle" /\ Idle.pc \notin Unsettled
<1>1. Idle.pc = "idle"
  BY DEF Idle
<1>2. QED
  BY <1>1 DEF Unsettled

\* A process settles with its user, or charges one: it leaves or enters the set of that
\* user, and no other set changes.
LEMMA Settles ==
  ASSUME TypeOK, NEW p \in Procs, work[p].pc \in Unsettled, Leave(p),
         NEW v \in Users, v = Owner[work[p].site]
  PROVE  /\ Cardinality(InFlight(v)) = Cardinality(InFlight(v))' + 1
         /\ \A u \in Users : u # v => InFlight(u)' = InFlight(u)
<1>1. ASSUME NEW u PROVE InFlight(u)' = InFlight(u) \ {p}
  BY FlightAfter, IdleIs DEF Leave
<1>2. p \in InFlight(v) /\ \A u \in Users : u # v => p \notin InFlight(u)
  BY DEF InFlight
<1>3. InFlight(v)' = InFlight(v) \ {p}
  BY <1>1
<1>4. Cardinality(InFlight(v)) = Cardinality(InFlight(v))' + 1
  BY <1>2, <1>3, Leaving
<1>5. QED
  BY <1>1, <1>2, <1>4

LEMMA Charges ==
  ASSUME TypeOK, NEW p \in Procs, At(p, "deduct"), Goto(p, "update"),
         NEW v \in Users, v = Owner[work[p].site]
  PROVE  /\ Cardinality(InFlight(v))' = Cardinality(InFlight(v)) + 1
         /\ \A u \in Users : u # v => InFlight(u)' = InFlight(u)
<1>1. PICK w : work' = [work EXCEPT ![p] = w] /\ w.pc = "update" /\ w.site = work[p].site
  BY GotoIs DEF At
<1>2. \A u \in Users : p \notin InFlight(u)
  BY DEF InFlight, At, Unsettled
<1>3. InFlight(v)' = InFlight(v) \cup {p}
  BY <1>1, FlightAfter DEF Unsettled
<1>4. ASSUME NEW u \in Users, u # v PROVE InFlight(u)' = InFlight(u)
  <2>1. Owner[w.site] # u
    BY <1>1, <1>4
  <2>2. InFlight(u)' = InFlight(u) \ {p}
    BY <1>1, <2>1, FlightAfter
  <2>3. QED
    BY <1>2, <2>2
<1>5. QED
  BY <1>2, <1>3, <1>4, Entering

\* What a user who is not concerned has.
LEMMA NotConcerned ==
  ASSUME NEW u \in Users, UNCHANGED <<balance[u], lost[u], InFlight(u)>>
  PROVE  Money(u)' = Money(u)
  BY DEF Money

-----------------------------------------------------------------------------
Stays == Purse' = Purse /\ boosts' = boosts

LEMMA DeductStays ==
  ASSUME TypeOK, TypeOK', NEW p \in Procs, Deduct(p)
  PROVE  Stays
<1> DEFINE v == Owner[work[p].site]
<1>1. v \in Users /\ work[p].pc = "deduct" /\ UNCHANGED <<lost, boosts>>
  BY Busy DEF Deduct, At
<1>2. CASE Leave(p) /\ UNCHANGED balance
  <2>1. Purse' = Purse
    BY <1>1, <1>2, Unmoved, IdleIs DEF Leave, Unsettled
  <2>2. QED
    BY <1>1, <2>1 DEF Stays
<1>3. CASE Charge(p, v, balance[v] - Cost) /\ Goto(p, "update")
  <2>1. balance'[v] = balance[v] - Cost /\ \A u \in Users : u # v => balance'[u] = balance[u]
    BY <1>1, <1>3 DEF Charge, TypeOK
  <2>2. PICK x \in Users : x = Owner[work[p].site]
    BY <1>1
  <2>3. /\ Cardinality(InFlight(x))' = Cardinality(InFlight(x)) + 1
        /\ \A u \in Users : u # x => InFlight(u)' = InFlight(u)
    BY <1>1, <1>3, <2>2, Charges DEF At
  <2>4. Money(x)' = Money(x)
    <3>1. (Cardinality(InFlight(x)) + lost[x])' = Cardinality(InFlight(x)) + lost[x] + 1
      BY <1>1, <2>3, FlightFinite DEF TypeOK
    <3>2. Money(x)' = Money(x) + (balance'[x] - balance[x]) + Cost
      BY <3>1, MoneyAfter
    <3>3. Money(x) \in Nat /\ balance[x] \in Nat /\ Cost \in Nat
      BY MoneyType, Constants DEF TypeOK
    <3>4. QED
      BY <2>1, <2>2, <3>2, <3>3
  <2>5. ASSUME NEW u \in Users, u # x PROVE Money(u)' = Money(u)
    BY <1>1, <2>1, <2>2, <2>3, <2>5, NotConcerned
  <2>6. Purse' = Purse
    BY <2>4, <2>5, PurseSame
  <2>7. QED
    BY <1>1, <2>6 DEF Stays
<1>4. QED
  BY <1>2, <1>3 DEF Deduct

LEMMA RefundStays ==
  ASSUME TypeOK, TypeOK', NEW p \in Procs, Refund(p) \/ Except(p)
  PROVE  Stays
<1>1. PICK v \in Users : v = Owner[work[p].site]
  BY Busy DEF Refund, Except, At
<1>2. work[p].pc \in {"refund", "except"} /\ UNCHANGED boosts
  BY DEF Refund, Except, At
<1>3. CASE Goto(p, "except") /\ work[p].pc = "refund" /\ UNCHANGED <<balance, lost>>
  <2>1. PICK w : work' = [work EXCEPT ![p] = w] /\ w.pc = "except" /\ w.site = work[p].site
    BY <1>3, GotoIs
  <2>2. Purse' = Purse
    BY <1>3, <2>1, Unmoved DEF Unsettled
  <2>3. QED
    BY <1>2, <2>2 DEF Stays
<1>4. CASE /\ Leave(p)
           /\ \/ Charge(p, v, balance[v] + Cost) /\ UNCHANGED lost
              \/ UNCHANGED balance /\ lost' = [lost EXCEPT ![v] = @ + 1]
  <2>1. \A u \in Users : u # v => balance'[u] = balance[u] /\ lost'[u] = lost[u]
    BY <1>4 DEF Charge, TypeOK
  <2>2. /\ Cardinality(InFlight(v)) = Cardinality(InFlight(v))' + 1
        /\ \A u \in Users : u # v => InFlight(u)' = InFlight(u)
    BY <1>1, <1>2, <1>4, Settles DEF Unsettled
  <2>3. Cardinality(InFlight(v))' \in Nat /\ Cardinality(InFlight(v)) \in Nat
    BY FlightFinite, FlightFiniteAfter
  <2>4. /\ Money(v) \in Nat /\ balance[v] \in Nat /\ Cost \in Nat /\ lost[v] \in Nat
    BY MoneyType, Constants DEF TypeOK
  <2>5. Money(v)' = Money(v)
    <3>1. CASE Charge(p, v, balance[v] + Cost) /\ UNCHANGED lost
      <4>1. balance'[v] = balance[v] + Cost
        BY <3>1 DEF Charge, TypeOK
      <4>2. Cardinality(InFlight(v)) + lost[v] = (Cardinality(InFlight(v)) + lost[v])' + 1
        BY <2>2, <2>3, <2>4, <3>1
      <4>3. Money(v)' = Money(v) + (balance'[v] - balance[v]) - Cost
        BY <4>2, MoneyAfter
      <4>4. QED
        BY <2>4, <4>1, <4>3
    <3>2. CASE UNCHANGED balance /\ lost' = [lost EXCEPT ![v] = @ + 1]
      <4>1. lost'[v] = lost[v] + 1
        BY <3>2 DEF TypeOK
      <4>2. (Cardinality(InFlight(v)) + lost[v])' = Cardinality(InFlight(v)) + lost[v]
        BY <2>2, <2>3, <2>4, <4>1
      <4>3. Money(v)' = Money(v) + (balance'[v] - balance[v])
        BY <4>2, MoneyAfter
      <4>4. QED
        BY <2>4, <3>2, <4>3
    <3>3. QED
      BY <1>4, <3>1, <3>2
  <2>6. ASSUME NEW u \in Users, u # v PROVE Money(u)' = Money(u)
    BY <2>1, <2>2, <2>6, NotConcerned
  <2>7. QED
    BY <1>2, <2>5, <2>6, PurseSame DEF Stays
<1>5. QED
  BY <1>1, <1>3, <1>4 DEF Refund, Except, At

\* The boost is paid when it is logged and has its timer.
LEMMA LogBoosts ==
  ASSUME TypeOK, TypeOK', NEW p \in Procs, Log(p)
  PROVE  Stays \/ \E u \in Users : Promise!Boost(u)
<1>1. PICK v \in Users : v = Owner[work[p].site]
  BY Busy DEF Log, At
<1>2. work[p].pc = "log" /\ UNCHANGED <<balance, lost>>
  BY DEF Log, At, users
<1>3. CASE Goto(p, "except") /\ UNCHANGED boosts
  <2>1. PICK w : work' = [work EXCEPT ![p] = w] /\ w.pc = "except" /\ w.site = work[p].site
    BY <1>2, <1>3, GotoIs
  <2>2. Purse' = Purse
    BY <1>2, <2>1, Unmoved DEF Unsettled
  <2>3. QED
    BY <1>3, <2>2 DEF Stays
<1>4. CASE Leave(p) /\ boosts' = [boosts EXCEPT ![v] = @ + 1]
  <2>1. /\ Cardinality(InFlight(v)) = Cardinality(InFlight(v))' + 1
        /\ \A u \in Users : u # v => InFlight(u)' = InFlight(u)
    BY <1>1, <1>2, <1>4, Settles DEF Unsettled
  <2>2. /\ Cardinality(InFlight(v))' \in Nat /\ Cardinality(InFlight(v)) \in Nat
        /\ balance[v] \in Nat /\ lost[v] \in Nat /\ Cost \in Nat
    BY FlightFinite, FlightFiniteAfter, Constants DEF TypeOK
  <2>3. Cardinality(InFlight(v)) + lost[v] = (Cardinality(InFlight(v)) + lost[v])' + 1
    BY <1>2, <2>1, <2>2
  <2>4. Money(v) \in Nat /\ Money(v)' \in Nat /\ Money(v)' = Money(v) - Cost
    <3>1. Money(v)' = Money(v) + (balance'[v] - balance[v]) - Cost
      BY <2>3, MoneyAfter
    <3>2. Money(v) \in Nat
      BY MoneyType
    <3>3. (Cardinality(InFlight(v)) + lost[v])' \in Nat /\ balance'[v] \in Nat
      BY <1>2, <2>2
    <3>4. Money(v)' \in Nat
      BY <3>3, Times DEF Money
    <3>5. QED
      BY <1>2, <2>2, <3>1, <3>2, <3>4
  <2>5. Money(v) >= Cost
    BY <2>2, <2>4
  <2>6. ASSUME NEW u \in Users, u # v PROVE Money(u)' = Money(u)
    BY <1>2, <2>1, <2>6, NotConcerned
  <2>7. Purse' = [Purse EXCEPT ![v] = @ - Cost] /\ Purse[v] >= Cost
    BY <2>4, <2>5, <2>6 DEF Purse
  <2>8. QED
    BY <1>4, <2>7 DEF Promise!Boost
<1>5. QED
  BY <1>1, <1>3, <1>4 DEF Log

LEMMA CreditPays ==
  ASSUME TypeOK, TypeOK', NEW r \in Topups, TopupCredit(r)
  PROVE  \E u \in Users : Promise!Pay(u)
<1> DEFINE v == Payer[r]
<1>1. v \in Users /\ UNCHANGED <<work, lost, boosts>> /\ Amount[r] \in Nat
  BY Constants DEF TopupCredit
<1>2. balance'[v] = balance[v] + Amount[r] /\ \A u \in Users : u # v => balance'[u] = balance[u]
  BY <1>1 DEF TopupCredit, TypeOK
<1>3. \A u \in Users : InFlight(u)' = InFlight(u)
  BY <1>1 DEF InFlight
<1>4. Money(v)' = Money(v) + Amount[r]
  <2>1. Money(v)' = Money(v) + (balance'[v] - balance[v])
    BY <1>1, <1>3, MoneyAfter
  <2>2. Money(v) \in Nat /\ balance[v] \in Nat
    BY <1>1, MoneyType DEF TypeOK
  <2>3. QED
    BY <1>1, <1>2, <2>1, <2>2
<1>5. ASSUME NEW u \in Users, u # v PROVE Money(u)' = Money(u)
  BY <1>1, <1>2, <1>3, <1>5, NotConcerned
<1>6. Purse' = [Purse EXCEPT ![v] = @ + Amount[r]]
  BY <1>1, <1>4, <1>5 DEF Purse
<1>7. QED
  BY <1>1, <1>6 DEF Promise!Pay

LEMMA CrashStays ==
  ASSUME TypeOK, TypeOK', NEW p \in Procs, Crash(p)
  PROVE  Stays
<1>1. UNCHANGED <<balance, boosts>> /\ Leave(p)
  BY DEF Crash, users
<1>2. ASSUME NEW v \in Users PROVE Money(v)' = Money(v)
  <2>1. CASE p \in InFlight(v)
    <3>1. work[p].pc \in Unsettled /\ v = Owner[work[p].site]
      BY <2>1 DEF InFlight
    <3>2. Cardinality(InFlight(v)) = Cardinality(InFlight(v))' + 1
      BY <1>1, <3>1, Settles
    <3>3. lost'[v] = lost[v] + 1
      BY <2>1 DEF Crash
    <3>4. /\ Cardinality(InFlight(v))' \in Nat /\ lost[v] \in Nat
          /\ balance[v] \in Nat /\ Money(v) \in Nat
      BY FlightFiniteAfter, MoneyType DEF TypeOK
    <3>5. (Cardinality(InFlight(v)) + lost[v])' = Cardinality(InFlight(v)) + lost[v]
      BY <3>2, <3>3, <3>4
    <3>6. Money(v)' = Money(v) + (balance'[v] - balance[v])
      BY <3>5, MoneyAfter
    <3>7. QED
      BY <1>1, <3>4, <3>6
  <2>2. CASE p \notin InFlight(v)
    <3>1. InFlight(v)' = InFlight(v) \ {p}
      BY <1>1, FlightAfter, IdleIs DEF Leave
    <3>2. InFlight(v)' = InFlight(v) /\ lost'[v] = lost[v]
      BY <2>2, <3>1 DEF Crash
    <3>3. QED
      BY <1>1, <3>2, NotConcerned
  <2>3. QED
    BY <2>1, <2>2
<1>3. QED
  BY <1>1, <1>2, PurseSame DEF Stays

\* Every step is a step of Wallet, or none.
LEMMA NextCharged ==
  ASSUME TypeOK, TypeOK', [Next]_vars
  PROVE  [Promise!Next]_<<Purse, boosts>>
<1>1. ASSUME UNCHANGED <<balance, lost, boosts, work>> PROVE Stays
  <2>1. \A u \in Users : InFlight(u)' = InFlight(u)
    BY <1>1 DEF InFlight
  <2>2. \A u \in Users : Money(u)' = Money(u)
    BY <1>1, <2>1, NotConcerned
  <2>3. QED
    BY <1>1, <2>2, PurseSame DEF Stays
<1>2. ASSUME NEW u \in Users, Configure(u) PROVE Stays
  BY <1>1, <1>2 DEF Configure
<1>3. ASSUME NEW r \in Topups, TopupCheck(r) \/ TopupRecord(r) PROVE Stays
  BY <1>1, <1>3 DEF TopupCheck, TopupRecord
<1>4. ASSUME NEW p \in Procs, NEW u \in Users, CacheExpires(p, u) PROVE Stays
  BY <1>1, <1>4 DEF CacheExpires, users
<1>5. ASSUME NEW p \in Procs, NEW s \in Sites, NEW burst \in BOOLEAN,
             NEW protection \in {"half", "plan", "none"}, Handle(p, s, burst, protection)
      PROVE  Stays
  <2>1. work[p].pc \notin Unsettled /\ UNCHANGED <<balance, lost, boosts>>
    BY <1>5, IdleIs DEF Handle, users
  <2>2. PICK w : work' = [work EXCEPT ![p] = w] /\ w.pc \notin Unsettled
    <3>1. \A x \in {"deduct", "half", "plan"} : [pc |-> x, site |-> s].pc \notin Unsettled
      BY DEF Unsettled
    <3>2. \E w : /\ work' = [work EXCEPT ![p] = w]
                 /\ w = Idle \/ \E x \in {"deduct", "half", "plan"} : w = [pc |-> x, site |-> s]
      BY <1>5 DEF Handle
    <3>3. QED
      BY <3>1, <3>2, IdleIs
  <2>3. Purse' = Purse
    BY <2>1, <2>2, Unmoved
  <2>4. QED
    BY <2>1, <2>3 DEF Stays
<1>6. ASSUME NEW p \in Procs, Throttle(p) PROVE Stays
  <2>1. work[p].pc \notin Unsettled /\ UNCHANGED <<balance, lost, boosts>> /\ Leave(p)
    BY <1>6 DEF Throttle, At, Unsettled, users
  <2>2. Purse' = Purse
    BY <2>1, Unmoved, IdleIs DEF Leave
  <2>3. QED
    BY <2>1, <2>2 DEF Stays
<1>7. ASSUME NEW p \in Procs, Update(p) PROVE Stays
  <2>1. work[p].pc = "update" /\ UNCHANGED <<balance, lost, boosts>>
    BY <1>7 DEF Update, At, users
  <2>2. PICK x \in {"log", "refund"} : Goto(p, x)
    BY <1>7 DEF Update
  <2>3. PICK w : work' = [work EXCEPT ![p] = w] /\ w.pc = x /\ w.site = work[p].site
    BY <2>1, <2>2, GotoIs
  <2>4. Purse' = Purse
    BY <2>1, <2>3, Unmoved DEF Unsettled
  <2>5. QED
    BY <2>1, <2>4 DEF Stays
<1>8. ASSUME NEW p \in Procs, NEW s \in Sites, Revert(p, s) PROVE Stays
  BY <1>1, <1>8 DEF Revert, users
<1>9. ASSUME UNCHANGED vars PROVE Stays
  BY <1>1, <1>9 DEF vars
<1>10. ASSUME NEW p \in Procs, Step(p) PROVE Stays \/ \E u \in Users : Promise!Boost(u)
  BY <1>6, <1>7, <1>10, DeductStays, RefundStays, LogBoosts DEF Step
<1>11. ASSUME NEW p \in Procs, Crash(p) PROVE Stays
  BY <1>11, CrashStays
<1>12. Stays \/ \E u \in Users : Promise!Pay(u) \/ Promise!Boost(u)
  BY <1>2, <1>3, <1>4, <1>5, <1>8, <1>9, <1>10, <1>11, CreditPays DEF Next
<1>13. QED
  BY <1>12 DEF Stays, Promise!Next

LEMMA InitCharged == Init => Promise!Init
<1> SUFFICES ASSUME Init PROVE Promise!Init
  OBVIOUS
<1>1. ASSUME NEW u \in Users PROVE Money(u) = Start[u]
  <2>1. InFlight(u) = {}
    BY IdleIs DEF Init, InFlight
  <2>2. Cardinality(InFlight(u)) + lost[u] = 0
    BY <2>1, FS_EmptySet DEF Init
  <2>3. Start[u] \in Nat /\ Cost \in Nat
    BY Constants
  <2>4. QED
    BY <2>2, <2>3 DEF Money, Init
<1>2. Purse = Start
  BY <1>1, Constants DEF Purse
<1>3. QED
  BY <1>2 DEF Init, Promise!Init

\* A boost and its price are atomic: what the code does is what Wallet promises.
THEOREM AutoscaleCharged == Spec => Charged
<1>1. TypeOK /\ TypeOK' /\ [Next]_vars => [Promise!Next]_<<Purse, boosts>>
  BY NextCharged
<1>2. QED
  BY <1>1, InitCharged, AutoscaleTypeCorrect, PTL DEF Spec, Charged, Promise!Spec

=============================================================================
