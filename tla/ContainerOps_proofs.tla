------------------------- MODULE ContainerOps_proofs -------------------------
(***************************************************************************)
(* Safety of the client's panel: container operations, approved fixes and  *)
(* the support desk, for any number of requests, processes, containers,    *)
(* proposals and tickets.                                                  *)
(*                                                                         *)
(* Operations.  The Redis lock is a lease without an owner token, and an   *)
(* operation may outlive it.  IInv says how the lease and the clock of an  *)
(* operation move together while the key lives, that such an operation is  *)
(* alone under the key (Alone), and that once its key is gone every other  *)
(* one came late (Elder): a release, which deletes whosever key it finds,  *)
(* then takes away only what nobody relies on.                             *)
(*                                                                         *)
(* Fixes.  FixShapes types what a request carries.  A proposal that was    *)
(* executed is no longer in Redis, as long as Redis answers (SpentGone); a *)
(* container nobody else commands still runs after a fix, unless the fix   *)
(* was a restart that failed, which a start then rolls back (AloneUp).     *)
(*                                                                         *)
(* Support.  Whoever took a ticket still has it because what a request has *)
(* pending was allowed when it was checked, and nothing else writes to the *)
(* ticket meanwhile (Kept).  A conversation misses nothing because what is *)
(* due to a socket was shown on it or is on its way (ChatInv).             *)
(***************************************************************************)
EXTENDS ClientPanel, SequenceTheorems, TLAPS

\* A request at its container under the key of Redis, and one whose key cannot have expired
\* or been deleted under it.
UnderKey(r) == InLock(r) /\ req[r].lock = "redis"
Safe(r) == UnderKey(r) /\ ~req[r].late /\ req[r].elapsed < Ttl

Lease(r) == key[Target[r]].by = r /\ key[Target[r]].ttl + req[r].elapsed = Ttl
Alone(r) == \A s \in Requests \ {r} : Target[s] = Target[r] => ~UnderKey(s)
Elder(r) == \A s \in Requests \ {r} : Target[s] = Target[r] /\ UnderKey(s) => req[s].late

Leased(r) ==
    /\ ~InLock(r) => req[r].elapsed = 0 /\ req[r].lock = "redis" /\ ~req[r].late
    /\ InLock(r) /\ req[r].lock = "local" => localLock[Process[r]][Target[r]] = r /\ ~req[r].late
    /\ Safe(r) => Lease(r) /\ Alone(r)
    /\ UnderKey(r) /\ ~req[r].late => Elder(r)

IInv == TypeOK /\ \A r \in Requests : Leased(r)

-----------------------------------------------------------------------------
LEMMA IdleType == IdleReq \in Req
  BY DEF IdleReq, Req

LEMMA KeyType == FreeKey \in Key /\ \A r \in Requests : [by |-> r, ttl |-> Ttl] \in Key
  BY OpsAssumption DEF FreeKey, Key

LEMMA AdmitType ==
  \A k \in Kinds : [IdleReq EXCEPT !.pc = "admitted", !.kind = k] \in Req
  BY OpsAssumption, IdleType DEF Req

LEMMA StepType ==
  \A x \in Req : \A c \in {"unlocked", "held", "running", "leaving"} :
        [x EXCEPT !.pc = c] \in Req
  BY DEF Req

LEMMA AcquireType ==
  \A x \in Req : \A l \in BOOLEAN : [[x EXCEPT !.pc = "held"] EXCEPT !.late = l] \in Req
  BY DEF Req

LEMMA LocalType ==
  \A x \in Req : [[x EXCEPT !.pc = "held"] EXCEPT !.lock = "local"] \in Req
  BY DEF Req

LEMMA TickType == \A x \in Req : [x EXCEPT !.elapsed = @ + 1] \in Req
  BY DEF Req

\* Writing one lock of one process.
LEMMA LocalLockType ==
  ASSUME TypeOK, NEW r \in Requests, NEW v \in Requests \cup {Nobody}
  PROVE  [localLock EXCEPT ![Process[r]][Target[r]] = v]
            \in [Processes -> [Containers -> Requests \cup {Nobody}]]
<1>1. Process[r] \in Processes /\ Target[r] \in Containers
  BY OpsAssumption
<1>2. localLock \in [Processes -> [Containers -> Requests \cup {Nobody}]]
  BY DEF TypeOK
<1>3. localLock[Process[r]] \in [Containers -> Requests \cup {Nobody}]
  BY <1>1, <1>2
<1>4. [localLock[Process[r]] EXCEPT ![Target[r]] = v] \in [Containers -> Requests \cup {Nobody}]
  BY <1>3
<1>5. QED
  BY <1>2, <1>4

LEMMA TypeInit == Init => TypeOK
  BY IdleType, KeyType, OpsAssumption DEF Init, TypeOK, FreeKey

\* The steps of one request keep every variable in its type.
LEMMA TypeRequest ==
  ASSUME TypeOK, NEW r \in Requests, Admit(r) \/ Serve(r)
  PROVE  TypeOK'
<1>1. CASE Admit(r)
  <2>1. PICK k \in Kinds :
            req' = [req EXCEPT ![r] = [IdleReq EXCEPT !.pc = "admitted", !.kind = k]]
    BY <1>1 DEF Admit
  <2>2. req' \in [Requests -> Req]
    BY <2>1, AdmitType DEF TypeOK
  <2>3. QED
    BY <1>1, <2>2 DEF TypeOK, Admit, GetRedis, HasRedis
<1>2. CASE CheckRedis(r)
  <2>1. req' \in [Requests -> Req]
    <3>1. req[r] \in Req
      BY DEF TypeOK
    <3>2. QED
      BY <1>2, <3>1, IdleType, StepType DEF TypeOK, CheckRedis
  <2>2. QED
    BY <1>2, <2>1 DEF TypeOK, CheckRedis, GetRedis, HasRedis
<1>3. CASE CheckLocal(r)
  <2>1. req[r] \in Req
    BY DEF TypeOK
  <2>2. req' \in [Requests -> Req]
    BY <1>3, <2>1, IdleType, LocalType DEF TypeOK, CheckLocal
  <2>3. localLock' \in [Processes -> [Containers -> Requests \cup {Nobody}]]
    <3>1. [localLock EXCEPT ![Process[r]][Target[r]] = r]
            \in [Processes -> [Containers -> Requests \cup {Nobody}]]
      BY LocalLockType
    <3>2. localLock' = localLock
            \/ localLock' = [localLock EXCEPT ![Process[r]][Target[r]] = r]
      BY <1>3 DEF CheckLocal
    <3>3. QED
      BY <3>1, <3>2 DEF TypeOK
  <2>4. QED
    BY <1>3, <2>2, <2>3 DEF TypeOK, CheckLocal
<1>4. CASE Acquire(r)
  <2>1. req[r] \in Req /\ [by |-> r, ttl |-> Ttl] \in Key
    BY KeyType DEF TypeOK
  <2>2. req' \in [Requests -> Req]
    <3>1. TookLate(Target[r]) \in BOOLEAN
      BY DEF TookLate
    <3>2. [[req[r] EXCEPT !.pc = "held"] EXCEPT !.late = TookLate(Target[r])] \in Req
      BY <2>1, <3>1, AcquireType
    <3>3. \/ req' = [req EXCEPT ![r] = [[@ EXCEPT !.pc = "held"] EXCEPT !.late = TookLate(Target[r])]]
          \/ req' = [req EXCEPT ![r] = IdleReq]
      BY <1>4 DEF Acquire, TypeOK
    <3>4. QED
      BY <3>2, <3>3, IdleType DEF TypeOK
  <2>3. key' \in [Containers -> Key]
    BY <1>4, <2>1 DEF TypeOK, Acquire
  <2>4. QED
    BY <1>4, <2>2, <2>3 DEF TypeOK, Acquire
<1>5. CASE Enter(r)
  <2>1. req' \in [Requests -> Req]
    BY <1>5, StepType DEF TypeOK, Enter
  <2>2. inflight' \in Nat /\ localInflight' \in [Processes -> Nat]
    BY <1>5, OpsAssumption DEF TypeOK, Enter
  <2>3. QED
    BY <1>5, <2>1, <2>2 DEF TypeOK, Enter, GetRedis, HasRedis
<1>6. CASE Leave(r)
  <2>1. req' \in [Requests -> Req]
    BY <1>6, StepType DEF TypeOK, Leave
  <2>2. \A n \in Nat : Decr(n) \in Nat
    BY DEF Decr
  <2>3. inflight' \in Nat /\ localInflight' \in [Processes -> Nat]
    BY <1>6, <2>2, OpsAssumption DEF TypeOK, Leave
  <2>4. QED
    BY <1>6, <2>1, <2>3 DEF TypeOK, Leave, GetRedis, HasRedis
<1>7. CASE Release(r)
  <2>1. req' \in [Requests -> Req]
    BY <1>7, IdleType DEF TypeOK, Release
  <2>2. key' \in [Containers -> Key]
    BY <1>7, KeyType DEF TypeOK, Release, DeleteKey
  <2>3. localLock' \in [Processes -> [Containers -> Requests \cup {Nobody}]]
    BY <1>7, LocalLockType DEF TypeOK, Release
  <2>4. QED
    BY <1>7, <2>1, <2>2, <2>3 DEF TypeOK, Release
<1>8. QED
  BY <1>1, <1>2, <1>3, <1>4, <1>5, <1>6, <1>7 DEF Serve

LEMMA TypeTick == TypeOK /\ Tick => TypeOK'
<1>1. SUFFICES ASSUME TypeOK, Tick PROVE TypeOK'
  OBVIOUS
<1>2. \A c \in Containers : AgeKey(key[c]) \in Key
  <2>1. SUFFICES ASSUME NEW c \in Containers PROVE AgeKey(key[c]) \in Key
    OBVIOUS
  <2>2. key[c] \in Key
    BY <1>1 DEF TypeOK
  <2>3. key[c].ttl > 1 => key[c].ttl - 1 \in 0..Ttl
    BY <2>2, OpsAssumption DEF Key
  <2>4. QED
    BY <2>2, <2>3, KeyType DEF AgeKey, Key
<1>3. key' \in [Containers -> Key]
  BY <1>1, <1>2 DEF Tick
<1>4. req' \in [Requests -> Req]
  BY <1>1, TickType DEF TypeOK, Tick
<1>5. QED
  BY <1>1, <1>3, <1>4 DEF Tick, TypeOK

LEMMA TypeEnvironment ==
  ASSUME TypeOK, RedisDown \/ RedisBack \/ \E p \in Processes : Crash(p)
  PROVE  TypeOK'
<1>1. CASE RedisDown
  <2>1. outages' \in 0..MaxOutages
    BY <1>1, OpsAssumption DEF TypeOK, RedisDown
  <2>2. QED
    BY <1>1, <2>1 DEF TypeOK, RedisDown
<1>2. CASE RedisBack
  BY <1>2 DEF TypeOK, RedisBack
<1>3. ASSUME NEW p \in Processes, Crash(p) PROVE TypeOK'
  <2>1. crashes' \in 0..MaxCrashes
    BY <1>3, OpsAssumption DEF TypeOK, Crash
  <2>2. req' \in [Requests -> Req]
    BY <1>3, IdleType DEF TypeOK, Crash
  <2>3. /\ localLock' \in [Processes -> [Containers -> Requests \cup {Nobody}]]
        /\ localInflight' \in [Processes -> Nat]
    BY <1>3 DEF TypeOK, Crash
  <2>4. client' \in [Processes -> BOOLEAN]
    BY <1>3 DEF TypeOK, Crash
  <2>5. QED
    BY <1>3, <2>1, <2>2, <2>3, <2>4 DEF TypeOK, Crash
<1>4. QED
  BY <1>1, <1>2, <1>3

LEMMA TypeNext == TypeOK /\ [Next]_vars => TypeOK'
<1>1. SUFFICES ASSUME TypeOK, [Next]_vars PROVE TypeOK'
  OBVIOUS
<1>2. CASE UNCHANGED vars
  BY <1>1, <1>2 DEF TypeOK, vars
<1>3. QED
  BY <1>1, <1>2, TypeRequest, TypeTick, TypeEnvironment DEF Next

\* The state of the locks, the counters and the requests keeps its type.
THEOREM OpsTypeCorrect == Spec => []TypeOK
  BY TypeInit, TypeNext, PTL DEF Spec

-----------------------------------------------------------------------------
\* What a step of request r means for the others: they do not move, their asyncio locks are
\* theirs, and so are the keys that some may still rely on.
Untouched(r) ==
    \A s \in Requests \ {r} :
        /\ req'[s] = req[s]
        /\ InLock(s) /\ req[s].lock = "local" =>
              localLock'[Process[s]][Target[s]] = localLock[Process[s]][Target[s]]
        /\ Safe(s) => key'[Target[s]] = key[Target[s]]

\* Request r does not begin to hold the key of Redis.
NotJoined(r) == UnderKey(r)' => UnderKey(r) /\ req'[r].late = req[r].late

\* Where r only steps back or goes on, the others keep what they have.
LEMMA LeaseKept ==
  ASSUME IInv, NEW r \in Requests, NEW s \in Requests \ {r}, Untouched(r), NotJoined(r)
  PROVE  Leased(s)'
<1>1. Leased(s) /\ req'[s] = req[s]
  BY DEF IInv, Untouched
<1>2. /\ InLock(s)' <=> InLock(s)
      /\ UnderKey(s)' <=> UnderKey(s)
      /\ Safe(s)' <=> Safe(s)
  BY <1>1 DEF InLock, UnderKey, Safe
<1>3. Safe(s) => Lease(s)'
  BY <1>1 DEF Leased, Lease, Untouched
<1>4. \A x \in Requests \ {s} : UnderKey(x)' => UnderKey(x) /\ req'[x].late = req[x].late
  BY DEF NotJoined, Untouched, UnderKey, InLock
<1>5. Safe(s) => Alone(s)'
  BY <1>1, <1>4 DEF Leased, Alone
<1>6. UnderKey(s) /\ ~req[s].late => Elder(s)'
  BY <1>1, <1>4 DEF Leased, Elder
<1>7. InLock(s) /\ req[s].lock = "local" => localLock'[Process[s]][Target[s]] = s
  BY <1>1 DEF Leased, Untouched
<1>8. QED
  BY <1>1, <1>2, <1>3, <1>5, <1>6, <1>7 DEF Leased

\* A request outside the lock relies on nothing, whatever the keys are.
LEMMA LeaseIdle ==
  ASSUME NEW s \in Requests, req'[s] = IdleReq
  PROVE  Leased(s)' /\ ~UnderKey(s)'
  BY DEF Leased, InLock, UnderKey, Safe, IdleReq

\* Two requests cannot hold one lock, except beside one that outlived its key.
LEMMA OneHolder ==
  ASSUME IInv, NEW r \in Requests, NEW s \in Requests, r # s, Target[r] = Target[s],
         InLock(r), InLock(s), ~req[r].late, ~req[s].late
  PROVE  \/ req[r].lock # req[s].lock
         \/ req[r].lock = "local" /\ Process[r] # Process[s]
<1>1. Leased(r) /\ Leased(s) /\ req[r].lock \in {"redis", "local"}
  BY DEF IInv, TypeOK, Req
<1>2. CASE req[r].lock = "redis"
  BY <1>1, <1>2 DEF Leased, UnderKey, Elder
<1>3. CASE req[r].lock = "local"
  BY <1>1, <1>3 DEF Leased
<1>4. QED
  BY <1>1, <1>2, <1>3

\* The key is set where it was free: who then still is under it, came late or outlived it.
LEMMA LeasedAcquire ==
  ASSUME IInv, NEW r \in Requests, Acquire(r)
  PROVE  \A s \in Requests : Leased(s)'
<1>1. Leased(r) /\ req[r] \in Req /\ Target[r] \in Containers /\ Ttl \in Nat
  BY OpsAssumption DEF IInv, TypeOK
<1>2. localLock' = localLock /\ \A s \in Requests \ {r} : req'[s] = req[s]
  BY DEF Acquire, IInv, TypeOK
<1>3. CASE redisUp /\ SetKey(Target[r])
  <2>1. key' = [key EXCEPT ![Target[r]] = [by |-> r, ttl |-> Ttl]]
    BY <1>3 DEF Acquire
  <2>2. req'[r] = [[req[r] EXCEPT !.pc = "held"] EXCEPT !.late = TookLate(Target[r])]
    BY <1>3 DEF Acquire, IInv, TypeOK
  <2>3. req[r].elapsed = 0 /\ req[r].lock = "redis" /\ ~InLock(r)
    BY <1>1 DEF Acquire, Leased, InLock
  <2>4. /\ req'[r].pc = "held" /\ req'[r].lock = "redis"
        /\ req'[r].late = TookLate(Target[r]) /\ req'[r].elapsed = 0
    BY <1>1, <2>2, <2>3 DEF Req
  <2>5. UnderKey(r)' /\ Lease(r)'
    BY <1>1, <2>1, <2>4 DEF UnderKey, InLock, Lease, IInv, TypeOK
  <2>6. ASSUME NEW s \in Requests, Target[s] = Target[r] PROVE ~Safe(s)
    <3>1. key[Target[s]].by # s
      BY <1>3, <2>6, OpsAssumption DEF SetKey
    <3>2. QED
      BY <3>1 DEF IInv, Leased, Lease
  <2>7. ASSUME NEW s \in Requests \ {r}, Target[s] = Target[r], UnderKey(s)
        PROVE  TookLate(Target[r])
    <3>1. req[s].late \/ req[s].elapsed >= Ttl
      <4>1. req[s] \in Req
        BY DEF IInv, TypeOK
      <4>2. QED
        BY <1>1, <2>6, <2>7, <4>1 DEF Safe, Req
    <3>2. QED
      BY <2>7, <3>1 DEF TookLate, UnderKey
  <2>8. Leased(r)'
    <3>1. ~req'[r].late => Alone(r)'
      BY <1>2, <2>4, <2>7 DEF Alone, UnderKey, InLock
    <3>2. Alone(r)' => Elder(r)'
      BY DEF Alone, Elder
    <3>3. QED
      BY <2>4, <2>5, <3>1, <3>2 DEF Leased, Safe, UnderKey
  <2>9. ASSUME NEW s \in Requests \ {r} PROVE Leased(s)'
    <3>1. Leased(s) /\ req'[s] = req[s] /\ Target[s] \in Containers
      BY <1>2, OpsAssumption DEF IInv
    <3>2. /\ InLock(s)' <=> InLock(s)
          /\ UnderKey(s)' <=> UnderKey(s)
          /\ Safe(s)' <=> Safe(s)
      BY <3>1 DEF InLock, UnderKey, Safe
    <3>3. CASE Target[s] = Target[r]
      <4>1. ~Safe(s)'
        BY <2>6, <3>2, <3>3
      <4>2. UnderKey(s) => req'[r].late
        BY <2>4, <2>7, <3>3
      <4>3. UnderKey(s) /\ ~req[s].late => Elder(s)'
        BY <1>2, <3>1, <4>2 DEF Leased, Elder, UnderKey, InLock
      <4>4. QED
        BY <1>2, <3>1, <3>2, <4>1, <4>3 DEF Leased
    <3>4. CASE Target[s] # Target[r]
      <4>1. key'[Target[s]] = key[Target[s]]
        BY <1>1, <2>1, <3>1, <3>4 DEF IInv, TypeOK
      <4>2. \A x \in Requests \ {s} : Target[x] = Target[s] => req'[x] = req[x]
        BY <1>2, <3>4
      <4>3. Safe(s) => Lease(s)' /\ Alone(s)'
        BY <3>1, <4>1, <4>2 DEF Leased, Lease, Alone, UnderKey, InLock
      <4>4. UnderKey(s) /\ ~req[s].late => Elder(s)'
        BY <3>1, <4>2 DEF Leased, Elder, UnderKey, InLock
      <4>5. QED
        BY <1>2, <3>1, <3>2, <4>3, <4>4 DEF Leased
    <3>5. QED
      BY <3>3, <3>4
  <2>10. QED
    BY <2>8, <2>9
<1>4. CASE ~(redisUp /\ SetKey(Target[r]))
  <2>1. key' = key /\ req'[r] = IdleReq
    BY <1>4 DEF Acquire, IInv, TypeOK
  <2>2. Untouched(r) /\ NotJoined(r)
    BY <1>2, <2>1, LeaseIdle DEF Untouched, NotJoined
  <2>3. QED
    BY <2>1, <2>2, LeaseIdle, LeaseKept
<1>5. QED
  BY <1>3, <1>4

\* A release deletes the key whoever set it; who could rely on it was alone.
LEMMA LeasedRelease ==
  ASSUME IInv, NEW r \in Requests, Release(r)
  PROVE  \A s \in Requests : Leased(s)'
<1>1. Leased(r) /\ req[r] \in Req /\ Process[r] \in Processes /\ Target[r] \in Containers
  BY OpsAssumption DEF IInv, TypeOK
<1>2. /\ \A s \in Requests \ {r} : req'[s] = req[s]
      /\ req'[r] = IdleReq
      /\ InLock(r)
  BY <1>1 DEF Release, InLock, IInv, TypeOK
<1>3. NotJoined(r) /\ Leased(r)'
  BY <1>2, LeaseIdle DEF NotJoined
<1>4. ASSUME NEW s \in Requests \ {r}, Safe(s) PROVE key'[Target[s]] = key[Target[s]]
  <2>1. Target[s] \in Containers /\ Alone(s)
    BY <1>4, OpsAssumption DEF IInv, Leased
  <2>2. req[r].lock = "redis" => Target[s] # Target[r]
    BY <1>2, <2>1 DEF Alone, UnderKey
  <2>3. CASE req[r].lock = "redis"
    BY <1>1, <2>1, <2>2, <2>3 DEF Release, IInv, TypeOK
  <2>4. CASE req[r].lock # "redis"
    BY <2>4 DEF Release
  <2>5. QED
    BY <2>3, <2>4
<1>5. ASSUME NEW s \in Requests \ {r}, InLock(s), req[s].lock = "local"
      PROVE  localLock'[Process[s]][Target[s]] = localLock[Process[s]][Target[s]]
  <2>1. CASE req[r].lock = "redis"
    BY <2>1 DEF Release
  <2>2. CASE req[r].lock # "redis"
    <3>1. req[r].lock = "local" /\ localLock' = [localLock EXCEPT ![Process[r]][Target[r]] = Nobody]
      BY <1>1, <2>2 DEF Release, Req
    <3>2. localLock[Process[s]][Target[s]] = s /\ localLock[Process[r]][Target[r]] = r
      BY <1>1, <1>2, <1>5, <3>1 DEF IInv, Leased
    <3>3. <<Process[s], Target[s]>> # <<Process[r], Target[r]>>
      BY <3>2
    <3>4. Process[s] \in Processes /\ Target[s] \in Containers
      BY OpsAssumption
    <3>5. QED
      BY <1>1, <3>1, <3>3, <3>4 DEF IInv, TypeOK
  <2>3. QED
    BY <2>1, <2>2
<1>6. Untouched(r)
  BY <1>2, <1>4, <1>5 DEF Untouched
<1>7. QED
  BY <1>3, <1>6, LeaseKept

LEMMA LeasedRequest ==
  ASSUME IInv, NEW r \in Requests, Admit(r) \/ Serve(r)
  PROVE  \A s \in Requests : Leased(s)'
<1>1. Leased(r) /\ req[r] \in Req /\ Process[r] \in Processes /\ Target[r] \in Containers
  BY OpsAssumption DEF IInv, TypeOK
<1>2. CASE Admit(r)
  <2>1. PICK k \in Kinds :
            req' = [req EXCEPT ![r] = [IdleReq EXCEPT !.pc = "admitted", !.kind = k]]
    BY <1>2 DEF Admit
  <2>2. key' = key /\ localLock' = localLock /\ \A s \in Requests \ {r} : req'[s] = req[s]
    BY <1>2, <2>1 DEF Admit, IInv, TypeOK
  <2>3. /\ req'[r].pc = "admitted" /\ req'[r].lock = "redis" /\ req'[r].elapsed = 0
        /\ ~req'[r].late
    BY <2>1 DEF IInv, TypeOK, IdleReq
  <2>4. Leased(r)' /\ NotJoined(r) /\ Untouched(r)
    BY <2>2, <2>3 DEF Leased, InLock, UnderKey, Safe, NotJoined, Untouched
  <2>5. QED
    BY <2>4, LeaseKept
<1>3. CASE CheckRedis(r)
  <2>1. key' = key /\ localLock' = localLock /\ \A s \in Requests \ {r} : req'[s] = req[s]
    BY <1>3 DEF CheckRedis, IInv, TypeOK
  <2>2. req'[r] = IdleReq \/ req'[r] = [req[r] EXCEPT !.pc = "unlocked"]
    BY <1>3 DEF CheckRedis, IInv, TypeOK
  <2>3. req[r].pc = "admitted" /\ req[r].lock = "redis" /\ req[r].elapsed = 0 /\ ~req[r].late
    BY <1>1, <1>3 DEF CheckRedis, Leased, InLock
  <2>4. /\ req'[r].pc \in {"idle", "unlocked"} /\ req'[r].lock = "redis"
        /\ req'[r].elapsed = 0 /\ ~req'[r].late
    BY <1>1, <2>2, <2>3 DEF IdleReq, Req
  <2>5. Leased(r)' /\ NotJoined(r) /\ Untouched(r)
    BY <2>1, <2>4 DEF Leased, InLock, UnderKey, Safe, NotJoined, Untouched
  <2>6. QED
    BY <2>5, LeaseKept
<1>4. CASE CheckLocal(r)
  <2>1. req[r].pc = "admitted" /\ key' = key /\ \A s \in Requests \ {r} : req'[s] = req[s]
    BY <1>4 DEF CheckLocal, IInv, TypeOK
  <2>2. CASE LocallyLocked(Process[r], Target[r])
    <3>1. req'[r] = IdleReq /\ localLock' = localLock
      BY <1>4, <2>2 DEF CheckLocal, IInv, TypeOK
    <3>2. Untouched(r) /\ NotJoined(r) /\ Leased(r)'
      BY <2>1, <3>1, LeaseIdle DEF Untouched, NotJoined
    <3>3. QED
      BY <3>2, LeaseKept
  <2>3. CASE ~LocallyLocked(Process[r], Target[r])
    <3>1. localLock' = [localLock EXCEPT ![Process[r]][Target[r]] = r]
      BY <1>4, <2>3 DEF CheckLocal
    <3>2. req'[r] = [[req[r] EXCEPT !.pc = "held"] EXCEPT !.lock = "local"]
      BY <1>4, <2>3 DEF CheckLocal, IInv, TypeOK
    <3>3. req'[r].pc = "held" /\ req'[r].lock = "local" /\ req'[r].late = req[r].late
      BY <1>1, <3>2 DEF Req
    <3>4. localLock'[Process[r]][Target[r]] = r
      BY <1>1, <3>1 DEF IInv, TypeOK
    <3>5. ~req'[r].late
      BY <1>1, <2>1, <3>3 DEF Leased, InLock
    <3>6. Leased(r)' /\ NotJoined(r)
      BY <3>3, <3>4, <3>5 DEF Leased, Safe, UnderKey, InLock, NotJoined
    <3>7. ASSUME NEW s \in Requests \ {r}, InLock(s), req[s].lock = "local"
          PROVE  localLock'[Process[s]][Target[s]] = localLock[Process[s]][Target[s]]
      <4>1. localLock[Process[s]][Target[s]] = s /\ s # Nobody
        BY <3>7, OpsAssumption DEF IInv, Leased
      <4>2. <<Process[s], Target[s]>> # <<Process[r], Target[r]>>
        BY <2>3, <4>1 DEF LocallyLocked
      <4>3. Process[s] \in Processes /\ Target[s] \in Containers
        BY OpsAssumption
      <4>4. QED
        BY <1>1, <3>1, <4>2, <4>3 DEF IInv, TypeOK
    <3>8. QED
      BY <2>1, <3>6, <3>7, LeaseKept DEF Untouched
  <2>4. QED
    BY <2>2, <2>3
<1>5. CASE Enter(r) \/ Leave(r)
  <2>1. key' = key /\ localLock' = localLock /\ \A s \in Requests \ {r} : req'[s] = req[s]
    BY <1>5 DEF Enter, Leave, IInv, TypeOK
  <2>2. InLock(r) /\ (req'[r] = [req[r] EXCEPT !.pc = "running"]
                       \/ req'[r] = [req[r] EXCEPT !.pc = "leaving"])
    BY <1>5 DEF Enter, Leave, InLock, IInv, TypeOK
  <2>3. /\ req'[r].lock = req[r].lock /\ req'[r].late = req[r].late
        /\ req'[r].elapsed = req[r].elapsed /\ req'[r].pc \in {"running", "leaving"}
    BY <1>1, <2>2 DEF Req
  <2>4. /\ InLock(r)' /\ (UnderKey(r)' <=> UnderKey(r)) /\ (Safe(r)' <=> Safe(r))
    BY <2>2, <2>3 DEF UnderKey, Safe, InLock
  <2>5. NotJoined(r) /\ Untouched(r)
    BY <2>1, <2>3, <2>4 DEF NotJoined, Untouched
  <2>6. \A s \in Requests \ {r} : UnderKey(s)' <=> UnderKey(s)
    BY <2>1 DEF UnderKey, InLock
  <2>7. Safe(r) => Lease(r)' /\ Alone(r)'
    BY <1>1, <2>1, <2>3, <2>6 DEF Leased, Lease, Alone
  <2>8. UnderKey(r) /\ ~req[r].late => Elder(r)'
    BY <1>1, <2>1, <2>6 DEF Leased, Elder
  <2>9. Leased(r)'
    BY <1>1, <2>1, <2>2, <2>3, <2>4, <2>7, <2>8 DEF Leased
  <2>10. QED
    BY <2>5, <2>9, LeaseKept
<1>6. QED
  BY <1>2, <1>3, <1>4, <1>5, LeasedAcquire, LeasedRelease DEF Serve

\* A tick moves the lease and the operation together for as long as the key lives.
LEMMA LeasedTick ==
  ASSUME IInv, Tick, NEW s \in Requests
  PROVE  Leased(s)'
<1>1. Leased(s) /\ req[s] \in Req /\ Target[s] \in Containers /\ key[Target[s]] \in Key
      /\ Ttl \in Nat
  BY OpsAssumption DEF IInv, TypeOK
<1>2. ASSUME NEW x \in Requests
      PROVE  /\ req'[x].pc = req[x].pc /\ req'[x].lock = req[x].lock
             /\ req'[x].late = req[x].late
             /\ req'[x].elapsed = IF InLock(x) THEN req[x].elapsed + 1 ELSE req[x].elapsed
  <2>1. req[x] \in Req
    BY DEF IInv, TypeOK
  <2>2. QED
    BY <2>1 DEF Tick, Req
<1>3. \A x \in Requests : (InLock(x)' <=> InLock(x)) /\ (UnderKey(x)' <=> UnderKey(x))
  BY <1>2 DEF InLock, UnderKey
<1>4. Safe(s)' => Safe(s) /\ Lease(s)'
  <2>1. SUFFICES ASSUME Safe(s)' PROVE Safe(s) /\ Lease(s)'
    OBVIOUS
  <2>2. UnderKey(s) /\ ~req[s].late /\ req[s].elapsed + 1 < Ttl /\ req[s].elapsed \in Nat
    BY <1>1, <1>2, <1>3, <2>1 DEF Safe, UnderKey, Req
  <2>3. Safe(s) /\ key[Target[s]].by = s /\ key[Target[s]].ttl + req[s].elapsed = Ttl
    BY <1>1, <2>2 DEF Safe, Leased, Lease
  <2>4. key[Target[s]].ttl > 1 /\ key[Target[s]].ttl \in Nat
    BY <1>1, <2>2, <2>3 DEF Key
  <2>5. key'[Target[s]] = [key[Target[s]] EXCEPT !.ttl = @ - 1]
    BY <1>1, <2>4 DEF Tick, AgeKey
  <2>6. key'[Target[s]].by = s /\ key'[Target[s]].ttl = key[Target[s]].ttl - 1
    BY <1>1, <2>3, <2>5 DEF Key
  <2>7. req'[s].elapsed = req[s].elapsed + 1
    BY <1>2, <2>2 DEF UnderKey
  <2>8. QED
    BY <1>1, <2>2, <2>3, <2>4, <2>6, <2>7 DEF Lease
<1>5. Safe(s) => Alone(s)'
  BY <1>1, <1>3 DEF Leased, Alone
<1>6. UnderKey(s) /\ ~req[s].late => Elder(s)'
  BY <1>1, <1>2, <1>3 DEF Leased, Elder
<1>7. localLock' = localLock
  BY DEF Tick
<1>8. QED
  BY <1>1, <1>2, <1>3, <1>4, <1>5, <1>6, <1>7 DEF Leased

\* A worker that dies takes its own requests and its own locks with it.
LEMMA LeasedEnvironment ==
  ASSUME IInv, RedisDown \/ RedisBack \/ (\E p \in Processes : Crash(p)) \/ UNCHANGED vars,
         NEW s \in Requests
  PROVE  Leased(s)'
<1>1. Leased(s) /\ Process[s] \in Processes /\ key' = key
  BY OpsAssumption DEF IInv, RedisDown, RedisBack, Crash, vars
<1>2. CASE req'[s] = req[s] /\ localLock'[Process[s]] = localLock[Process[s]]
  <2>1. \A x \in Requests : req'[x] = req[x] \/ req'[x] = IdleReq
    BY DEF RedisDown, RedisBack, Crash, vars
  <2>2. \A x \in Requests : UnderKey(x)' => UnderKey(x) /\ req'[x] = req[x]
    BY <2>1 DEF UnderKey, InLock, IdleReq
  <2>3. /\ InLock(s)' <=> InLock(s)
        /\ UnderKey(s)' <=> UnderKey(s)
        /\ Safe(s)' <=> Safe(s)
    BY <1>2 DEF InLock, UnderKey, Safe
  <2>4. Safe(s) => Lease(s)' /\ Alone(s)'
    BY <1>1, <1>2, <2>2 DEF Leased, Lease, Alone
  <2>5. UnderKey(s) /\ ~req[s].late => Elder(s)'
    BY <1>1, <2>2 DEF Leased, Elder
  <2>6. QED
    BY <1>1, <1>2, <2>3, <2>4, <2>5 DEF Leased
<1>3. CASE ~(req'[s] = req[s] /\ localLock'[Process[s]] = localLock[Process[s]])
  <2>1. PICK p \in Processes : Crash(p)
    BY <1>3 DEF RedisDown, RedisBack, vars
  <2>2. req'[s] = IdleReq
    BY <1>1, <1>3, <2>1 DEF Crash, IInv, TypeOK
  <2>3. QED
    BY <2>2, LeaseIdle
<1>4. QED
  BY <1>2, <1>3

LEMMA OpsInit == Init => IInv
<1>1. Init => \A r \in Requests : Leased(r)
  BY DEF Init, Leased, InLock, Safe, UnderKey, IdleReq
<1>2. QED
  BY <1>1, TypeInit DEF IInv

LEMMA OpsNext == IInv /\ [Next]_vars => IInv'
<1>1. SUFFICES ASSUME IInv, [Next]_vars PROVE IInv'
  OBVIOUS
<1>2. TypeOK'
  BY <1>1, TypeNext DEF IInv
<1>3. \A s \in Requests : Leased(s)'
  BY <1>1, LeasedRequest, LeasedTick, LeasedEnvironment DEF Next
<1>4. QED
  BY <1>2, <1>3 DEF IInv

\* However long the operations take, whatever fails and however many clients ask, no lock
\* has two holders but beside an operation that outlived its key.
THEOREM OpsMutualExclusion == Spec => []MutualExclusion
<1>1. IInv => MutualExclusion
  BY OneHolder DEF MutualExclusion
<1>2. QED
  BY <1>1, OpsInit, OpsNext, PTL DEF Spec

-----------------------------------------------------------------------------
\* The panel's other parts leave the locks alone.

LEMMA PanelOps == PanelNext => [Next]_vars \/ (UNCHANGED lockVars /\ redisUp' \in {redisUp, ~redisUp})
<1>1. SUFFICES ASSUME PanelNext PROVE [Next]_vars \/ (UNCHANGED lockVars /\ redisUp' \in {redisUp, ~redisUp})
  OBVIOUS
<1>2. CASE OpsStep
  BY <1>2 DEF OpsStep
<1>3. CASE FixStep
  <2>1. Fix!FixNext => redisUp' \in {redisUp, ~redisUp}
    BY DEF Fix!FixNext, Fix!LookUp, Fix!Answer, Fix!Propose, Fix!Inspect, Fix!GetFix, Fix!Refuse,
       Fix!Execute, Fix!RollBack, Fix!Finish, Fix!Take, Fix!Forget, Fix!DaemonRestarts,
       Fix!OwnerCommand, Fix!Trouble, Fix!Redis
  <2>2. QED
    BY <1>3, <2>1 DEF FixStep
<1>4. CASE DeskStep
  BY <1>4 DEF DeskStep
<1>5. QED
  BY <1>1, <1>2, <1>3, <1>4 DEF PanelNext

LEMMA PanelIInv ==
  ASSUME IInv, [PanelNext]_panelVars
  PROVE  IInv'
<1>1. CASE [Next]_vars
  BY <1>1, OpsNext
<1>2. CASE UNCHANGED lockVars /\ redisUp' \in {redisUp, ~redisUp}
  <2>1. TypeOK'
    BY <1>2 DEF IInv, TypeOK, lockVars
  <2>2. \A r \in Requests : Leased(r)'
    BY <1>2 DEF IInv, Leased, Safe, UnderKey, InLock, Lease, Alone, Elder, lockVars
  <2>3. QED
    BY <2>1, <2>2 DEF IInv
<1>3. CASE UNCHANGED panelVars
  <2>1. UNCHANGED vars
    BY <1>3 DEF panelVars, vars
  <2>2. QED
    BY <1>1, <2>1
<1>4. QED
  BY <1>1, <1>2, <1>3, PanelOps

\* OpsMutualExclusion where diagnoses, fixes and support are beside the operations: a fix,
\* which takes no container lock, gives none a second holder.
THEOREM PanelMutualExclusion == PanelSpec => []MutualExclusion
<1>1. PanelInit => IInv
  BY OpsInit DEF PanelInit
<1>2. IInv => MutualExclusion
  BY OneHolder DEF MutualExclusion
<1>3. QED
  BY <1>1, <1>2, PanelIInv, PTL DEF PanelSpec

-----------------------------------------------------------------------------
\* The fix engine.  What its actions write, without the fingerprints and the diagnoses.

IsProposal(p) ==
    /\ p \in [site : Sites, fingerprint : {p.fingerprint}, action : {p.action}]
    /\ p.action # Fix!None

IsDiagnosis(d) ==
    \/ d = Fix!Idle
    \/ d \in [pc : {"looking", "asking"}, site : Sites, worker : Processes, running : BOOLEAN,
              load : {d.load}, error : {d.error}]
    \/ d \in [pc : {"proposing"}, site : Sites, worker : Processes, running : BOOLEAN,
              load : {d.load}, error : {d.error}, failure : {d.failure}]

IsFix(f) ==
    \/ f = Fix!Idle
    \/ /\ f \in [pc : {"taken", "failed", "done"}, worker : Processes, proposal : {f.proposal},
                 alone : BOOLEAN]
       /\ IsProposal(f.proposal)

States == {"running", "exited", "restarting"}

StoreTypes ==
    /\ \A p \in remembered : IsProposal(p)
    /\ DOMAIN fallback = Processes
    /\ \A w \in Processes : \A p \in fallback[w] : IsProposal(p)

DiagnosisTypes == DOMAIN diagnosis = Diagnoses /\ \A d \in Diagnoses : IsDiagnosis(diagnosis[d])
FixTypes == DOMAIN fix = Fixes /\ \A r \in Fixes : IsFix(fix[r])
WorldTypes == wordpress \subseteq Sites /\ container \in [Sites -> States] /\ redisUp \in BOOLEAN
LeftTypes == left \in [FixKinds -> Nat]

FixShapes == StoreTypes /\ DiagnosisTypes /\ FixTypes /\ WorldTypes /\ LeftTypes

LEMMA FixInitial == Fix!FixInit => FixShapes
<1> SUFFICES ASSUME Fix!FixInit PROVE FixShapes
  OBVIOUS
<1>2. StoreTypes /\ WorldTypes
  BY DEF Fix!FixInit, StoreTypes, WorldTypes, States
<1>3. DiagnosisTypes /\ FixTypes
  BY DEF Fix!FixInit, DiagnosisTypes, FixTypes, IsDiagnosis, IsFix
<1>4. LeftTypes
  BY PanelAssumption DEF Fix!FixInit, LeftTypes
<1>5. QED
  BY <1>2, <1>3, <1>4 DEF FixShapes

LEMMA SpendTypes ==
  ASSUME LeftTypes, NEW kind \in FixKinds, Fix!Spend(kind)
  PROVE  LeftTypes' /\ left' # left
<1>1. left[kind] \in Nat /\ left[kind] > 0 /\ left' = [left EXCEPT ![kind] = left[kind] - 1]
  BY DEF LeftTypes, Fix!Spend
<1>2. left'[kind] = left[kind] - 1
  BY <1>1 DEF LeftTypes
<1>3. QED
  BY <1>1, <1>2 DEF LeftTypes

\* What SaveProposal keeps holds proposals.
LEMMA SavedTypes ==
  ASSUME StoreTypes, NEW w \in Processes, NEW s \in Sites, NEW fp, NEW action, action # Fix!None,
         Fix!SaveProposal(w, Fix!Proposal(s, fp, action))
  PROVE  StoreTypes'
<1>1. IsProposal(Fix!Proposal(s, fp, action))
  BY DEF IsProposal, Fix!Proposal
<1>2. QED
  BY <1>1 DEF StoreTypes, Fix!SaveProposal, Fix!Others

\* A command on a container disturbs those who are alone with it, and nobody else.
LEMMA TouchedShape ==
  ASSUME FixTypes, NEW s, NEW q \in Fixes
  PROVE  LET f == Fix!Touched(s)[q] IN
         /\ IsFix(f) /\ f.pc = fix[q].pc
         /\ f.pc # "idle" => f.proposal = fix[q].proposal
         /\ f.pc \in {"failed", "done"} /\ f.alone => fix[q].alone /\ Fix!Site(q) # s
<1>1. IsFix(fix[q])
  BY DEF FixTypes
<1>2. Fix!Touched(s)[q] = IF fix[q].pc \in {"failed", "done"} /\ Fix!Site(q) = s
                          THEN [fix[q] EXCEPT !.alone = FALSE] ELSE fix[q]
  BY DEF Fix!Touched
<1>3. CASE fix[q].pc \in {"failed", "done"} /\ Fix!Site(q) = s
  <2> DEFINE f == [fix[q] EXCEPT !.alone = FALSE]
  <2>1. /\ fix[q] \in [pc : {"taken", "failed", "done"}, worker : Processes,
                       proposal : {fix[q].proposal}, alone : BOOLEAN]
        /\ IsProposal(fix[q].proposal)
    BY <1>1, <1>3 DEF IsFix, Fix!Idle
  <2>2. /\ f \in [pc : {"taken", "failed", "done"}, worker : Processes,
                  proposal : {fix[q].proposal}, alone : BOOLEAN]
        /\ f.pc = fix[q].pc /\ f.proposal = fix[q].proposal /\ f.alone = FALSE
    BY <2>1
  <2>3. IsFix(f)
    BY <2>1, <2>2 DEF IsFix
  <2>4. QED
    BY <1>2, <1>3, <2>2, <2>3
<1>4. CASE ~(fix[q].pc \in {"failed", "done"} /\ Fix!Site(q) = s)
  BY <1>1, <1>2, <1>4
<1>5. QED
  BY <1>3, <1>4

\* A fix that is executed: it is alone with the container when that was running.
LEMMA StageShape ==
  ASSUME FixTypes, NEW r \in Fixes, NEW pc \in {"failed", "done"}, fix[r].pc = "taken",
         fix' = Fix!Stage(r, pc)
  PROVE  /\ FixTypes'
         /\ fix'[r].pc = pc /\ fix'[r].proposal = fix[r].proposal
         /\ fix'[r].alone = (container[Fix!Site(r)] = "running")
         /\ \A q \in Fixes \ {r} : fix'[q] = Fix!Touched(Fix!Site(r))[q]
<1> DEFINE alone == container[Fix!Site(r)] = "running"
           f == [fix[r] EXCEPT !.pc = pc, !.alone = alone]
<1>1. /\ fix[r] \in [pc : {"taken", "failed", "done"}, worker : Processes,
                     proposal : {fix[r].proposal}, alone : BOOLEAN]
      /\ IsProposal(fix[r].proposal)
  BY DEF FixTypes, IsFix, Fix!Idle
<1>2. alone \in BOOLEAN
  OBVIOUS
<1>3. fix' = [Fix!Touched(Fix!Site(r)) EXCEPT ![r] = f] /\ DOMAIN Fix!Touched(Fix!Site(r)) = Fixes
  BY DEF Fix!Stage, Fix!Touched
<1> HIDE DEF alone
<1>4. /\ f \in [pc : {"taken", "failed", "done"}, worker : Processes,
                proposal : {fix[r].proposal}, alone : BOOLEAN]
      /\ f.pc = pc /\ f.proposal = fix[r].proposal /\ f.alone = alone
  BY <1>1, <1>2
<1>5. IsFix(f)
  BY <1>1, <1>4 DEF IsFix
<1> HIDE DEF f
<1>6. fix'[r] = f /\ DOMAIN fix' = Fixes
      /\ \A q \in Fixes \ {r} : fix'[q] = Fix!Touched(Fix!Site(r))[q]
  BY <1>3
<1>7. \A q \in Fixes \ {r} : IsFix(fix'[q])
  BY <1>6, TouchedShape
<1>8. FixTypes'
  BY <1>5, <1>6, <1>7 DEF FixTypes
<1>9. QED
  BY <1>4, <1>6, <1>8 DEF alone

\* A fix that is over.
LEMMA EndShape ==
  ASSUME FixTypes, NEW s, NEW r \in Fixes,
         fix' = [Fix!Touched(s) EXCEPT ![r] = Fix!Idle] \/ fix' = [fix EXCEPT ![r] = Fix!Idle]
  PROVE  /\ FixTypes' /\ fix'[r] = Fix!Idle
         /\ fix' = [fix EXCEPT ![r] = Fix!Idle] => \A q \in Fixes \ {r} : fix'[q] = fix[q]
         /\ \A q \in Fixes \ {r} : fix'[q] \in {fix[q], Fix!Touched(s)[q]}
<1>1. DOMAIN Fix!Touched(s) = Fixes
  BY DEF Fix!Touched
<1>2. /\ DOMAIN fix' = Fixes /\ fix'[r] = Fix!Idle
      /\ \A q \in Fixes \ {r} : fix'[q] \in {fix[q], Fix!Touched(s)[q]}
      /\ fix' = [fix EXCEPT ![r] = Fix!Idle] => \A q \in Fixes \ {r} : fix'[q] = fix[q]
  BY <1>1 DEF FixTypes
<1>3. \A q \in Fixes \ {r} : IsFix(fix'[q])
  BY <1>2, TouchedShape DEF FixTypes
<1>4. FixTypes'
  BY <1>2, <1>3 DEF FixTypes, IsFix
<1>5. QED
  BY <1>2, <1>4

LEMMA SiteOf ==
  ASSUME FixTypes, NEW r \in Fixes, fix[r].pc # "idle"
  PROVE  Fix!Site(r) \in Sites /\ fix[r].worker \in Processes /\ fix[r] # Fix!Idle
  BY DEF FixTypes, IsFix, Fix!Idle, IsProposal, Fix!Site

\* The steps of a diagnosis.
LEMMA DiagnosisStep ==
  ASSUME FixShapes, NEW d \in Diagnoses,
         \/ Fix!LookUp(d) \/ Fix!Answer(d) \/ Fix!Propose(d)
         \/ \E s \in Sites, w \in Processes : Fix!Inspect(d, s, w)
  PROVE  FixShapes'
<1>0. /\ DOMAIN diagnosis = Diagnoses /\ IsDiagnosis(diagnosis[d])
      /\ \A e \in Diagnoses : IsDiagnosis(diagnosis[e])
  BY DEF FixShapes, DiagnosisTypes
<1>1. ASSUME NEW x, diagnosis' = [diagnosis EXCEPT ![d] = x], IsDiagnosis(x) PROVE DiagnosisTypes'
  <2>1. DOMAIN diagnosis' = Diagnoses /\ \A e \in Diagnoses : diagnosis'[e] = IF e = d THEN x ELSE diagnosis[e]
    BY <1>0, <1>1
  <2>2. QED
    BY <1>0, <1>1, <2>1 DEF DiagnosisTypes
<1>2. ASSUME NEW failure, diagnosis[d].pc \in {"looking", "asking"},
             diagnosis' = Fix!Diagnosed(d, failure)
      PROVE  DiagnosisTypes'
  <2> DEFINE said == IF diagnosis[d].error = "none" THEN "unknown" ELSE failure
             x == [pc |-> "proposing", site |-> diagnosis[d].site, worker |-> diagnosis[d].worker,
                   running |-> diagnosis[d].running, load |-> diagnosis[d].load,
                   error |-> diagnosis[d].error, failure |-> said]
  <2>1. diagnosis' = [diagnosis EXCEPT ![d] = x]
    BY <1>0, <1>2 DEF Fix!Diagnosed
  <2>2. diagnosis[d].site \in Sites /\ diagnosis[d].worker \in Processes /\ diagnosis[d].running \in BOOLEAN
    BY <1>0, <1>2 DEF IsDiagnosis, Fix!Idle
  <2>3. IsDiagnosis(x)
    BY <2>2 DEF IsDiagnosis
  <2> HIDE DEF x
  <2>4. QED
    BY <1>1, <2>1, <2>3
<1>3. CASE Fix!LookUp(d)
  <2>1. DiagnosisTypes'
    <3>1. CASE diagnosis' = [diagnosis EXCEPT ![d].pc = "asking"]
      <4>1. IsDiagnosis([diagnosis[d] EXCEPT !.pc = "asking"])
        <5>1. diagnosis[d].pc = "looking"
          BY <1>3 DEF Fix!LookUp
        <5>2. diagnosis[d] \in [pc : {"looking", "asking"}, site : Sites, worker : Processes,
                                running : BOOLEAN, load : {diagnosis[d].load},
                                error : {diagnosis[d].error}]
          BY <1>0, <5>1 DEF IsDiagnosis, Fix!Idle
        <5> DEFINE x == [diagnosis[d] EXCEPT !.pc = "asking"]
        <5>3. x \in [pc : {"looking", "asking"}, site : Sites, worker : Processes,
                     running : BOOLEAN, load : {diagnosis[d].load}, error : {diagnosis[d].error}]
              /\ x.load = diagnosis[d].load /\ x.error = diagnosis[d].error
          BY <5>2
        <5>4. QED
          BY <5>3 DEF IsDiagnosis
      <4>2. diagnosis' = [diagnosis EXCEPT ![d] = [diagnosis[d] EXCEPT !.pc = "asking"]]
        BY <3>1
      <4>3. QED
        BY <1>1, <4>1, <4>2
    <3>2. CASE \E failure : diagnosis' = Fix!Diagnosed(d, failure)
      <4>1. diagnosis[d].pc = "looking"
        BY <1>3 DEF Fix!LookUp
      <4>2. QED
        BY <1>2, <3>2, <4>1
    <3>3. QED
      BY <1>3, <3>1, <3>2 DEF Fix!LookUp
  <2>2. QED
    BY <1>3, <2>1 DEF Fix!LookUp, FixShapes, StoreTypes, FixTypes, WorldTypes, LeftTypes
<1>4. CASE Fix!Answer(d)
  <2>1. DiagnosisTypes'
    <3>1. diagnosis[d].pc = "asking" /\ \E failure : diagnosis' = Fix!Diagnosed(d, failure)
      BY <1>4, Zenon DEF Fix!Answer
    <3>2. QED
      BY <1>2, <3>1
  <2>2. QED
    BY <1>4, <2>1 DEF Fix!Answer, FixShapes, StoreTypes, FixTypes, WorldTypes, LeftTypes
<1>5. CASE Fix!Propose(d)
  <2>1. diagnosis[d].site \in Sites /\ diagnosis[d].worker \in Processes
    BY <1>0, <1>5 DEF Fix!Propose, IsDiagnosis, Fix!Idle
  <2>2. PICK action : IF action = Fix!None THEN UNCHANGED <<remembered, fallback, spent>>
                      ELSE Fix!SaveProposal(diagnosis[d].worker,
                               Fix!Proposal(diagnosis[d].site, Fix!SeenPrint(d), action))
    BY <1>5 DEF Fix!Propose
  <2>3. StoreTypes'
    <3>1. CASE action = Fix!None
      BY <2>2, <3>1 DEF FixShapes, StoreTypes
    <3>2. CASE action # Fix!None
      BY <2>1, <2>2, <3>2, SavedTypes DEF FixShapes
    <3>3. QED
      BY <3>1, <3>2
  <2>4. DiagnosisTypes'
    BY <1>1, <1>5 DEF Fix!Propose, IsDiagnosis
  <2>5. QED
    BY <1>5, <2>3, <2>4 DEF Fix!Propose, FixShapes, FixTypes, WorldTypes, LeftTypes
<1>6. ASSUME NEW s \in Sites, NEW w \in Processes, Fix!Inspect(d, s, w) PROVE FixShapes'
  <2>1. PICK running \in {container[s] = "running", FALSE} : diagnosis' = [diagnosis EXCEPT ![d] =
               [pc |-> "looking", site |-> s, worker |-> w, running |-> running,
                load |-> IF running THEN app[s].load ELSE "light", error |-> app[s].error]]
    BY <1>6 DEF Fix!Inspect
  <2> DEFINE load == IF running THEN app[s].load ELSE "light"
  <2>2. running \in BOOLEAN
    BY <2>1
  <2> HIDE DEF load
  <2>3. IsDiagnosis([pc |-> "looking", site |-> s, worker |-> w, running |-> running,
                     load |-> load, error |-> app[s].error])
    BY <2>2 DEF IsDiagnosis
  <2>4. DiagnosisTypes'
    BY <1>1, <2>1, <2>3 DEF load
  <2>5. LeftTypes'
    BY <1>6, SpendTypes DEF Fix!Inspect, FixShapes, FixKinds
  <2>6. QED
    BY <1>6, <2>4, <2>5 DEF Fix!Inspect, FixShapes, StoreTypes, FixTypes, WorldTypes
<1>7. QED
  BY <1>3, <1>4, <1>5, <1>6

\* What a command leaves of a container.
LEMMA CommandTypes ==
  ASSUME NEW action, NEW state \in States
  PROVE  Fix!After(action, state) \in States /\ Fix!Broken(action, state) \subseteq States
  BY DEF Fix!After, Fix!Broken, States

\* The steps of an application of a fix.
LEMMA ApplyStep ==
  ASSUME FixShapes, NEW r \in Fixes,
         \/ Fix!Refuse(r) \/ Fix!Execute(r) \/ Fix!RollBack(r) \/ Fix!Finish(r)
         \/ \E w \in Processes : \E p \in remembered \cup fallback[w] : Fix!Take(r, w, p.site, p.fingerprint)
  PROVE  FixShapes'
<1>0. FixTypes /\ WorldTypes /\ LeftTypes /\ StoreTypes /\ DiagnosisTypes
  BY DEF FixShapes
<1>1. CASE Fix!Refuse(r)
  <2>1. FixTypes'
    BY <1>0, <1>1, EndShape DEF Fix!Refuse
  <2>2. QED
    BY <1>1, <2>1 DEF Fix!Refuse, FixShapes, StoreTypes, DiagnosisTypes, WorldTypes, LeftTypes
<1>2. CASE Fix!Execute(r)
  <2>1. fix[r].pc = "taken" /\ Fix!Site(r) \in Sites /\ container[Fix!Site(r)] \in States
    BY <1>0, <1>2, SiteOf DEF Fix!Execute, WorldTypes
  <2>2. FixTypes'
    <3>1. \E pc \in {"failed", "done"} : fix' = Fix!Stage(r, pc)
      BY <1>2 DEF Fix!Execute
    <3>2. QED
      BY <1>0, <2>1, <3>1, StageShape
  <2>3. WorldTypes'
    <3>1. \A state \in States : [container EXCEPT ![Fix!Site(r)] = state] \in [Sites -> States]
      BY <1>0, <2>1 DEF WorldTypes
    <3>2. container' \in [Sites -> States]
      BY <1>0, <1>2, <2>1, <3>1, CommandTypes DEF Fix!Execute, WorldTypes
    <3>3. QED
      BY <1>0, <1>2, <3>2 DEF Fix!Execute, WorldTypes
  <2>4. LeftTypes'
    <3>1. "failures" \in FixKinds
      BY DEF FixKinds
    <3>2. QED
      BY <1>0, <1>2, <3>1, SpendTypes DEF Fix!Execute, LeftTypes
  <2>5. QED
    BY <1>2, <2>2, <2>3, <2>4 DEF Fix!Execute, FixShapes, StoreTypes, DiagnosisTypes
<1>3. CASE Fix!RollBack(r)
  <2>1. Fix!Site(r) \in Sites /\ container[Fix!Site(r)] \in States
    BY <1>0, <1>3, SiteOf DEF Fix!RollBack, WorldTypes
  <2>2. FixTypes'
    BY <1>0, <1>3, EndShape DEF Fix!RollBack
  <2>3. WorldTypes'
    <3>1. \A state \in States : [container EXCEPT ![Fix!Site(r)] = state] \in [Sites -> States]
      BY <1>0, <2>1 DEF WorldTypes
    <3>2. container' \in [Sites -> States]
      BY <1>0, <1>3, <2>1, <3>1, CommandTypes DEF Fix!RollBack, WorldTypes
    <3>3. QED
      BY <1>0, <1>3, <3>2 DEF Fix!RollBack, WorldTypes
  <2>4. LeftTypes'
    <3>1. "failures" \in FixKinds
      BY DEF FixKinds
    <3>2. QED
      BY <1>0, <1>3, <3>1, SpendTypes DEF Fix!RollBack, LeftTypes
  <2>5. QED
    BY <1>3, <2>2, <2>3, <2>4 DEF Fix!RollBack, FixShapes, StoreTypes, DiagnosisTypes
<1>4. CASE Fix!Finish(r)
  <2>1. FixTypes'
    BY <1>0, <1>4, EndShape DEF Fix!Finish
  <2>2. StoreTypes'
    BY <1>0, <1>4 DEF Fix!Finish, Fix!DeleteProposal, Fix!Others, StoreTypes
  <2>3. QED
    BY <1>4, <2>1, <2>2 DEF Fix!Finish, FixShapes, DiagnosisTypes, WorldTypes, LeftTypes
<1>5. ASSUME NEW w \in Processes, NEW s, NEW fp, Fix!Take(r, w, s, fp) PROVE FixShapes'
  <2>1. PICK p \in Fix!Remembered(w, s, fp) :
          fix' = [fix EXCEPT ![r] = [pc |-> "taken", worker |-> w, proposal |-> p, alone |-> FALSE]]
    BY <1>5 DEF Fix!Take
  <2>2. IsProposal(p)
    BY <1>0, <2>1 DEF Fix!Remembered, StoreTypes
  <2>3. IsFix([pc |-> "taken", worker |-> w, proposal |-> p, alone |-> FALSE])
    BY <2>2 DEF IsFix
  <2>4. FixTypes'
    BY <1>0, <2>1, <2>3 DEF FixTypes
  <2>5. QED
    BY <1>5, <2>4 DEF Fix!Take, FixShapes, StoreTypes, DiagnosisTypes, WorldTypes, LeftTypes
<1>6. QED
  BY <1>1, <1>2, <1>3, <1>4, <1>5

\* What happens around.
LEMMA AroundStep ==
  ASSUME FixShapes,
         \/ \E s \in Sites, w \in Processes : Fix!GetFix(s, w)
         \/ \E p : Fix!Forget(p)
         \/ \E s \in Sites : Fix!DaemonRestarts(s) \/ Fix!OwnerCommand(s) \/ Fix!Trouble(s)
         \/ Fix!Redis
  PROVE  FixShapes'
<1>0. FixTypes /\ WorldTypes /\ LeftTypes /\ StoreTypes /\ DiagnosisTypes
  BY DEF FixShapes
<1>1. ASSUME NEW s \in Sites, NEW w \in Processes, Fix!GetFix(s, w) PROVE FixShapes'
  <2> DEFINE last == rows[s][Len(rows[s])]
             fp == last.fingerprint
             Action(score) == Fix!SelectFix(s \in wordpress, last.failure, TRUE, score, 0)
  <2>1. PICK score \in {30, 60, 90} :
            Action(score) # Fix!None /\ Fix!SaveProposal(w, Fix!Proposal(s, fp, Action(score)))
    BY <1>1, Zenon DEF Fix!GetFix
  <2> HIDE DEF Action, fp
  <2>2. StoreTypes'
    BY <1>0, <2>1, SavedTypes
  <2>3. QED
    BY <1>1, <2>2 DEF Fix!GetFix, FixShapes, FixTypes, WorldTypes, LeftTypes, DiagnosisTypes
<1>2. ASSUME NEW p, Fix!Forget(p) PROVE FixShapes'
  <2>1. StoreTypes'
    BY <1>0, <1>2 DEF Fix!Forget, StoreTypes
  <2>2. QED
    BY <1>2, <2>1 DEF Fix!Forget, FixShapes, FixTypes, WorldTypes, LeftTypes, DiagnosisTypes
<1>3. ASSUME NEW s \in Sites, Fix!DaemonRestarts(s) PROVE FixShapes'
  BY <1>3 DEF Fix!DaemonRestarts, FixShapes, StoreTypes, FixTypes, WorldTypes, LeftTypes,
              DiagnosisTypes, States
<1>4. ASSUME NEW s \in Sites, Fix!OwnerCommand(s) PROVE FixShapes'
  <2>1. FixTypes'
    BY <1>0, <1>4, TouchedShape DEF Fix!OwnerCommand, Fix!Touched, FixTypes
  <2>2. LeftTypes'
    BY <1>0, <1>4, SpendTypes DEF Fix!OwnerCommand, FixKinds
  <2>3. WorldTypes'
    BY <1>0, <1>4 DEF Fix!OwnerCommand, WorldTypes, States
  <2>4. QED
    BY <1>4, <2>1, <2>2, <2>3 DEF Fix!OwnerCommand, FixShapes, StoreTypes, DiagnosisTypes
<1>5. ASSUME NEW s \in Sites, Fix!Trouble(s) PROVE FixShapes'
  <2>1. LeftTypes'
    BY <1>0, <1>5, SpendTypes DEF Fix!Trouble, FixKinds
  <2>2. QED
    BY <1>5, <2>1 DEF Fix!Trouble, FixShapes, StoreTypes, FixTypes, WorldTypes, DiagnosisTypes
<1>6. CASE Fix!Redis
  <2>1. LeftTypes'
    BY <1>0, <1>6, SpendTypes DEF Fix!Redis, FixKinds, LeftTypes
  <2>2. QED
    BY <1>6, <2>1 DEF Fix!Redis, FixShapes, StoreTypes, FixTypes, WorldTypes, DiagnosisTypes
<1>7. QED
  BY <1>1, <1>2, <1>3, <1>4, <1>5, <1>6

LEMMA FixShapesNext == FixShapes /\ Fix!FixNext => FixShapes'
  BY DiagnosisStep, ApplyStep, AroundStep DEF Fix!FixNext

-----------------------------------------------------------------------------
\* Proposals that were executed.

\* A proposal that was executed with success is no longer in Redis, as long as Redis answers;
\* the history starts afresh when it does not.
SpentGone ==
    /\ ~redisUp => spent = {}
    /\ redisUp => \A p \in remembered : <<p.site, p.fingerprint>> \notin spent

\* The steps that change what SpentGone is about.
LEMMA SpentSaved ==
  ASSUME SpentGone, NEW w, NEW p, Fix!SaveProposal(w, p), redisUp' = redisUp
  PROVE  SpentGone'
<1>1. CASE redisUp
  <2>1. /\ remembered' = Fix!Others(remembered, p.site, p.fingerprint) \cup {p}
        /\ spent' = spent \ {<<p.site, p.fingerprint>>}
    BY <1>1 DEF Fix!SaveProposal
  <2>2. \A x \in remembered' : <<x.site, x.fingerprint>> \notin spent'
    BY <1>1, <2>1 DEF Fix!Others, SpentGone
  <2>3. QED
    BY <1>1, <2>2 DEF SpentGone
<1>2. CASE ~redisUp
  BY <1>2 DEF Fix!SaveProposal, SpentGone
<1>3. QED
  BY <1>1, <1>2

LEMMA SpentNext ==
  ASSUME SpentGone, Fix!FixNext
  PROVE  SpentGone'
<1>1. ASSUME NEW d \in Diagnoses, Fix!Propose(d) PROVE SpentGone'
  <2>1. \/ UNCHANGED <<remembered, fallback, spent>>
        \/ \E w, p : Fix!SaveProposal(w, p)
    BY <1>1, Zenon DEF Fix!Propose
  <2>2. redisUp' = redisUp
    BY <1>1 DEF Fix!Propose
  <2>3. QED
    BY <2>1, <2>2, SpentSaved DEF SpentGone
<1>2. ASSUME NEW s \in Sites, NEW w \in Processes, Fix!GetFix(s, w) PROVE SpentGone'
  <2>1. \E p : Fix!SaveProposal(w, p)
    BY <1>2, Zenon DEF Fix!GetFix
  <2>2. redisUp' = redisUp
    BY <1>2 DEF Fix!GetFix
  <2>3. QED
    BY <2>1, <2>2, SpentSaved
<1>3. ASSUME NEW r \in Fixes, Fix!Finish(r) PROVE SpentGone'
  <2> DEFINE done == <<fix[r].proposal.site, fix[r].proposal.fingerprint>>
  <2>1. CASE redisUp
    <3>1. /\ remembered' = Fix!Others(remembered, fix[r].proposal.site, fix[r].proposal.fingerprint)
          /\ spent' = spent \cup {done} /\ redisUp'
      BY <1>3, <2>1 DEF Fix!Finish, Fix!DeleteProposal
    <3>2. \A p \in remembered' : <<p.site, p.fingerprint>> \notin spent'
      BY <2>1, <3>1 DEF Fix!Others, SpentGone
    <3>3. QED
      BY <3>1, <3>2 DEF SpentGone
  <2>2. CASE ~redisUp
    BY <1>3, <2>2 DEF Fix!Finish, Fix!DeleteProposal, SpentGone
  <2>3. QED
    BY <2>1, <2>2
<1>4. ASSUME NEW p, Fix!Forget(p) PROVE SpentGone'
  BY <1>4 DEF Fix!Forget, SpentGone
<1>5. CASE Fix!Redis
  BY <1>5 DEF Fix!Redis, SpentGone
<1>6. ASSUME UNCHANGED <<redisUp, remembered, spent>> PROVE SpentGone'
  BY <1>6 DEF SpentGone
<1>7. ASSUME NEW d \in Diagnoses,
             Fix!LookUp(d) \/ Fix!Answer(d) \/ \E s \in Sites, w \in Processes : Fix!Inspect(d, s, w)
      PROVE  UNCHANGED <<redisUp, remembered, spent>>
  BY <1>7 DEF Fix!LookUp, Fix!Answer, Fix!Inspect
<1>8. ASSUME NEW r \in Fixes, NEW w, NEW s, NEW fp,
             Fix!Refuse(r) \/ Fix!Execute(r) \/ Fix!RollBack(r) \/ Fix!Take(r, w, s, fp)
      PROVE  UNCHANGED <<redisUp, remembered, spent>>
  BY <1>8 DEF Fix!Refuse, Fix!Execute, Fix!RollBack, Fix!Take
<1>9. ASSUME NEW s \in Sites, Fix!DaemonRestarts(s) \/ Fix!OwnerCommand(s) \/ Fix!Trouble(s)
      PROVE  UNCHANGED <<redisUp, remembered, spent>>
  BY <1>9 DEF Fix!DaemonRestarts, Fix!OwnerCommand, Fix!Trouble
<1>10. QED
  BY <1>1, <1>2, <1>3, <1>4, <1>5, <1>6, <1>7, <1>8, <1>9 DEF Fix!FixNext

\* Only Take takes a proposal.
LEMMA TakesOne ==
  ASSUME FixShapes, Fix!FixNext, NEW r \in Fixes, fix[r].pc = "idle", fix'[r].pc = "taken"
  PROVE  \E w, s, fp : Fix!Take(r, w, s, fp)
<1>0. FixTypes
  BY DEF FixShapes
<1>1. fix' # fix
  OBVIOUS
<1>2. PICK q \in Fixes : \/ Fix!Refuse(q) \/ Fix!Execute(q) \/ Fix!RollBack(q) \/ Fix!Finish(q)
                         \/ \E w, s, fp : Fix!Take(q, w, s, fp)
                         \/ \E s : fix' = Fix!Touched(s)
  BY <1>1 DEF Fix!FixNext, Fix!LookUp, Fix!Answer, Fix!Propose, Fix!Inspect, Fix!GetFix, Fix!Forget,
     Fix!DaemonRestarts, Fix!OwnerCommand, Fix!Trouble, Fix!Redis
<1>3. CASE Fix!Refuse(q) \/ Fix!Finish(q) \/ Fix!RollBack(q)
  <2>1. \E s : fix' = [Fix!Touched(s) EXCEPT ![q] = Fix!Idle] \/ fix' = [fix EXCEPT ![q] = Fix!Idle]
    BY <1>3, Zenon DEF Fix!Refuse, Fix!Finish, Fix!RollBack
  <2>2. fix'[q] = Fix!Idle /\ \A p \in Fixes \ {q} : \E s : fix'[p] \in {fix[p], Fix!Touched(s)[p]}
    BY <1>0, <2>1, EndShape
  <2>3. \A p \in Fixes \ {q} : fix'[p].pc = fix[p].pc
    BY <1>0, <2>2, TouchedShape
  <2>4. QED
    BY <2>2, <2>3 DEF Fix!Idle
<1>4. CASE Fix!Execute(q)
  <2>1. fix[q].pc = "taken" /\ \E pc \in {"failed", "done"} : fix' = Fix!Stage(q, pc)
    BY <1>4 DEF Fix!Execute
  <2>2. fix'[q].pc \in {"failed", "done"} /\ \A p \in Fixes \ {q} : \E s : fix'[p] = Fix!Touched(s)[p]
    BY <1>0, <2>1, StageShape
  <2>3. \A p \in Fixes \ {q} : fix'[p].pc = fix[p].pc
    BY <1>0, <2>2, TouchedShape
  <2>4. QED
    BY <2>2, <2>3
<1>5. CASE \E s : fix' = Fix!Touched(s)
  BY <1>0, <1>5, TouchedShape
<1>6. CASE \E w, s, fp : Fix!Take(q, w, s, fp)
  <2>1. q = r
    BY <1>0, <1>6 DEF Fix!Take, FixTypes
  <2>2. QED
    BY <1>6, <2>1
<1>7. QED
  BY <1>2, <1>3, <1>4, <1>5, <1>6

LEMMA TakenOnceNext ==
  ASSUME FixShapes, SpentGone, Fix!FixNext, NEW r \in Fixes
  PROVE  Fix!TakenOnce(r)
<1>1. SUFFICES ASSUME fix[r].pc = "idle", fix'[r].pc = "taken"
               PROVE  <<fix'[r].proposal.site, fix'[r].proposal.fingerprint>> \notin spent
  BY DEF Fix!TakenOnce
<1>2. PICK w, s, fp : Fix!Take(r, w, s, fp)
  BY <1>1, TakesOne
<1>3. PICK p \in Fix!Remembered(w, s, fp) :
        fix' = [fix EXCEPT ![r] = [pc |-> "taken", worker |-> w, proposal |-> p, alone |-> FALSE]]
  BY <1>2 DEF Fix!Take
<1>4. fix'[r].proposal = p
  BY <1>3 DEF FixShapes, FixTypes
<1>5. redisUp => p \in remembered
  BY <1>3 DEF Fix!Remembered
<1>6. QED
  BY <1>4, <1>5 DEF SpentGone

-----------------------------------------------------------------------------
\* Fixes that are alone with a container.

\* A container that ran when a fix was applied to it, and that nobody else has commanded since,
\* still runs, unless it is a restart that failed: that one is rolled back by a start.
AloneAt(r) ==
    (fix[r].pc \in {"failed", "done"} /\ fix[r].alone) =>
        \/ container[Fix!Site(r)] = "running"
        \/ fix[r].pc = "failed" /\ Fix!Action(r) = "docker_restart"

AloneUp == \A r \in Fixes : AloneAt(r)

\* A command on the container of s leaves every other fix as it is.
LEMMA AloneKept ==
  ASSUME FixTypes, NEW q \in Fixes, AloneAt(q), NEW s,
         \/ fix'[q] = Fix!Touched(s)[q] /\ \A x \in Sites \ {s} : container'[x] = container[x]
         \/ fix'[q] = fix[q] /\ UNCHANGED container
  PROVE  AloneAt(q)'
<1>1. CASE fix'[q] = fix[q] /\ UNCHANGED container
  BY <1>1 DEF AloneAt, Fix!Site, Fix!Action
<1>2. CASE fix'[q] = Fix!Touched(s)[q] /\ \A x \in Sites \ {s} : container'[x] = container[x]
  <2>1. SUFFICES ASSUME fix'[q].pc \in {"failed", "done"}, fix'[q].alone
                 PROVE  \/ container'[fix'[q].proposal.site] = "running"
                        \/ fix'[q].pc = "failed" /\ fix'[q].proposal.action = "docker_restart"
    BY DEF AloneAt, Fix!Site, Fix!Action
  <2>2. /\ fix'[q].pc = fix[q].pc /\ fix'[q].proposal = fix[q].proposal
        /\ fix[q].alone /\ Fix!Site(q) # s
    BY <1>2, <2>1, TouchedShape
  <2>3. Fix!Site(q) \in Sites
    BY <2>1, <2>2, SiteOf
  <2>4. QED
    BY <1>2, <2>1, <2>2, <2>3 DEF AloneAt, Fix!Site, Fix!Action
<1>3. QED
  BY <1>1, <1>2

LEMMA AloneExecute ==
  ASSUME FixShapes, AloneUp, NEW r \in Fixes, Fix!Execute(r)
  PROVE  AloneUp'
<1>0. FixTypes /\ WorldTypes /\ fix[r].pc = "taken"
  BY DEF FixShapes, Fix!Execute
<1>1. Fix!Site(r) \in Sites
  BY <1>0, SiteOf
<1>2. PICK pc \in {"failed", "done"} : fix' = Fix!Stage(r, pc)
  BY DEF Fix!Execute
<1>3. /\ fix'[r].proposal = fix[r].proposal
      /\ fix'[r].alone = (container[Fix!Site(r)] = "running")
      /\ \A q \in Fixes \ {r} : fix'[q] = Fix!Touched(Fix!Site(r))[q]
      /\ fix'[r].pc = pc
  BY <1>0, <1>2, StageShape
<1>4. \A x \in Sites \ {Fix!Site(r)} : container'[x] = container[x]
  BY <1>0 DEF Fix!Execute, WorldTypes
<1>5. \A q \in Fixes \ {r} : AloneAt(q)'
  BY <1>0, <1>3, <1>4, AloneKept DEF AloneUp
<1>6. AloneAt(r)'
  <2>1. SUFFICES ASSUME container[Fix!Site(r)] = "running", Fix!Action(r) # "docker_restart" \/ pc = "done"
                 PROVE  container'[Fix!Site(r)] = "running"
    <3>1. fix'[r].proposal.site = Fix!Site(r) /\ fix'[r].proposal.action = Fix!Action(r)
      BY <1>3 DEF Fix!Site, Fix!Action
    <3>2. QED
      BY <1>2, <1>3, <3>1 DEF AloneAt, Fix!Site, Fix!Action
  <2>2. Fix!Works(Fix!Action(r), "running")
    BY DEF Fix!Works
  <2>3. Fix!After(Fix!Action(r), "running") = "running"
    BY DEF Fix!After
  <2>4. Fix!Stage(r, "done") # Fix!Stage(r, "failed")
    <3>1. ASSUME fix' = Fix!Stage(r, "done"), fix' = Fix!Stage(r, "failed") PROVE FALSE
      <4>1. fix'[r].pc = "done"
        BY <1>0, <3>1, StageShape
      <4>2. fix'[r].pc = "failed"
        BY <1>0, <3>1, StageShape
      <4>3. QED
        BY <4>1, <4>2
    <3>2. QED
      BY <1>2, <3>1
  <2>5. CASE pc = "done"
    <3>1. container' = [container EXCEPT ![Fix!Site(r)] = Fix!After(Fix!Action(r), @)]
      BY <1>2, <2>4, <2>5 DEF Fix!Execute
    <3>2. QED
      BY <1>0, <1>1, <2>1, <2>3, <3>1 DEF WorldTypes
  <2>6. CASE pc = "failed"
    <3>1. Fix!Broken(Fix!Action(r), "running") = {"running"}
      BY <2>1, <2>3, <2>6 DEF Fix!Broken
    <3>2. \/ container' = [container EXCEPT ![Fix!Site(r)] = Fix!After(Fix!Action(r), @)]
          \/ \E state \in Fix!Broken(Fix!Action(r), container[Fix!Site(r)]) :
                container' = [container EXCEPT ![Fix!Site(r)] = state]
      BY <2>1, <2>2 DEF Fix!Execute
    <3>3. QED
      BY <1>0, <1>1, <2>1, <2>3, <3>1, <3>2 DEF WorldTypes
  <2>7. QED
    BY <2>5, <2>6
<1>7. QED
  BY <1>5, <1>6 DEF AloneUp

\* What a rollback that does not fail does to the container.
LEMMA RollBackUp ==
  ASSUME FixShapes, NEW r \in Fixes, Fix!RollBack(r), left' = left,
         \/ container[Fix!Site(r)] = "running"
         \/ Fix!Action(r) = "docker_restart"
  PROVE  container'[Fix!Site(r)] # "exited"
<1> DEFINE s == Fix!Site(r)
           undo == Fix!Rollback(Fix!Action(r))
<1>0. WorldTypes /\ LeftTypes /\ FixTypes /\ s \in Sites /\ container[s] \in States
  BY SiteOf DEF FixShapes, Fix!RollBack, WorldTypes
<1>1. ~Fix!Spend("failures")
  <2>1. "failures" \in FixKinds
    BY DEF FixKinds
  <2>2. QED
    BY <1>0, <2>1, SpendTypes
<1>2. \/ (undo = Fix!None \/ ~Fix!Works(undo, container[s])) /\ UNCHANGED container
      \/ container' = [container EXCEPT ![s] = Fix!After(undo, container[s])]
  BY <1>1 DEF Fix!RollBack, Fix!UndoBy
<1>3. Fix!After(undo, "running") = "running"
  BY DEF Fix!After
<1>4. Fix!Action(r) = "docker_restart" => undo = "docker_start"
  BY DEF Fix!Rollback
<1> HIDE DEF undo, s
<1>5. CASE container[s] = "running"
  BY <1>0, <1>2, <1>3, <1>5 DEF WorldTypes, s
<1>6. CASE Fix!Action(r) = "docker_restart"
  <2>1. undo = "docker_start"
    BY <1>4, <1>6
  <2>2. undo # Fix!None /\ Fix!Works(undo, container[s])
    BY <2>1 DEF Fix!None, Fix!Works
  <2>3. Fix!After(undo, container[s]) # "exited"
    BY <2>1 DEF Fix!After
  <2>4. container' = [container EXCEPT ![s] = Fix!After(undo, container[s])]
    BY <1>2, <2>2
  <2>5. QED
    BY <1>0, <2>3, <2>4 DEF WorldTypes, s
<1>7. QED
  BY <1>5, <1>6 DEF s

LEMMA AloneNext ==
  ASSUME FixShapes, AloneUp, Fix!FixNext
  PROVE  AloneUp'
<1>0. FixTypes /\ WorldTypes
  BY DEF FixShapes
<1>1. ASSUME NEW r \in Fixes, Fix!Execute(r) PROVE AloneUp'
  BY <1>1, AloneExecute
<1>2. ASSUME NEW r \in Fixes, Fix!RollBack(r) PROVE AloneUp'
  <2> DEFINE s == Fix!Site(r)
  <2>1. fix' = [Fix!Touched(s) EXCEPT ![r] = Fix!Idle] /\ DOMAIN Fix!Touched(s) = Fixes
    BY <1>2 DEF Fix!RollBack, Fix!Touched
  <2>2. \A x \in Sites \ {s} : container'[x] = container[x]
    BY <1>0, <1>2 DEF Fix!RollBack, WorldTypes
  <2> HIDE DEF s
  <2>3. fix'[r] = Fix!Idle /\ \A q \in Fixes \ {r} : fix'[q] = Fix!Touched(s)[q]
    BY <2>1
  <2>4. \A q \in Fixes \ {r} : AloneAt(q)'
    BY <1>0, <2>2, <2>3, AloneKept DEF AloneUp
  <2>5. AloneAt(r)'
    BY <2>3 DEF AloneAt, Fix!Idle
  <2>6. QED
    BY <2>4, <2>5 DEF AloneUp
<1>3. ASSUME NEW r \in Fixes, NEW x, fix' = [fix EXCEPT ![r] = x], UNCHANGED container,
             x.pc \notin {"failed", "done"}
      PROVE  AloneUp'
  <2>1. fix'[r] = x /\ \A q \in Fixes \ {r} : fix'[q] = fix[q]
    BY <1>0, <1>3 DEF FixTypes
  <2>2. \A q \in Fixes \ {r} : AloneAt(q)'
    BY <1>0, <1>3, <2>1, AloneKept DEF AloneUp
  <2>3. AloneAt(r)'
    BY <1>3, <2>1 DEF AloneAt
  <2>4. QED
    BY <2>2, <2>3 DEF AloneUp
<1>4. ASSUME NEW r \in Fixes, Fix!Refuse(r) \/ Fix!Finish(r) PROVE AloneUp'
  <2>1. fix' = [fix EXCEPT ![r] = Fix!Idle] /\ UNCHANGED container
    BY <1>4 DEF Fix!Refuse, Fix!Finish
  <2>2. QED
    BY <1>3, <2>1 DEF Fix!Idle
<1>5. ASSUME NEW r \in Fixes, NEW w, NEW s, NEW fp, Fix!Take(r, w, s, fp) PROVE AloneUp'
  <2>1. /\ UNCHANGED container
        /\ \E x : fix' = [fix EXCEPT ![r] = x] /\ x.pc \notin {"failed", "done"}
    BY <1>5, Zenon DEF Fix!Take
  <2>2. QED
    BY <1>3, <2>1
<1>6. ASSUME NEW s \in Sites, Fix!OwnerCommand(s) PROVE AloneUp'
  <2>1. fix' = Fix!Touched(s) /\ \A x \in Sites \ {s} : container'[x] = container[x]
    BY <1>0, <1>6 DEF Fix!OwnerCommand, WorldTypes
  <2>2. QED
    BY <1>0, <2>1, AloneKept DEF AloneUp
<1>7. ASSUME NEW s \in Sites, Fix!DaemonRestarts(s) PROVE AloneUp'
  <2>1. fix' = fix /\ \A x \in Sites : container'[x] \in {container[x], "running"}
    BY <1>0, <1>7 DEF Fix!DaemonRestarts, WorldTypes
  <2>2. ASSUME NEW r \in Fixes PROVE AloneAt(r)'
    <3>1. fix[r].pc \in {"failed", "done"} => Fix!Site(r) \in Sites
      BY <1>0, SiteOf
    <3>2. QED
      BY <2>1, <3>1 DEF AloneUp, AloneAt, Fix!Site, Fix!Action
  <2>3. QED
    BY <2>2 DEF AloneUp
<1>8. ASSUME UNCHANGED <<fix, container>> PROVE AloneUp'
  BY <1>8 DEF AloneUp, AloneAt, Fix!Site, Fix!Action
<1>9. ASSUME NEW d \in Diagnoses, \/ Fix!LookUp(d) \/ Fix!Answer(d) \/ Fix!Propose(d)
                                  \/ \E s \in Sites, w \in Processes : Fix!Inspect(d, s, w)
      PROVE  UNCHANGED <<fix, container>>
  BY <1>9 DEF Fix!LookUp, Fix!Answer, Fix!Propose, Fix!Inspect
<1>10. ASSUME NEW s, NEW w, NEW p, Fix!GetFix(s, w) \/ Fix!Forget(p) \/ Fix!Trouble(s) \/ Fix!Redis
       PROVE  UNCHANGED <<fix, container>>
  BY <1>10 DEF Fix!GetFix, Fix!Forget, Fix!Trouble, Fix!Redis
<1>11. QED
  BY <1>1, <1>2, <1>4, <1>5, <1>6, <1>7, <1>8, <1>9, <1>10 DEF Fix!FixNext

\* A fix that ends was rolled back or is finished.
LEMMA EndsOne ==
  ASSUME FixShapes, Fix!FixNext, NEW r \in Fixes, Fix!Ends(r)
  PROVE  Fix!RollBack(r) \/ Fix!Finish(r)
<1>0. FixTypes /\ fix[r].pc \in {"failed", "done"} /\ fix'[r].pc = "idle"
  BY DEF FixShapes, Fix!Ends
<1>1. fix' # fix
  BY <1>0
<1>2. PICK q \in Fixes : \/ Fix!Refuse(q) \/ Fix!Execute(q) \/ Fix!RollBack(q) \/ Fix!Finish(q)
                         \/ \E w, s, fp : Fix!Take(q, w, s, fp)
                         \/ \E s : fix' = Fix!Touched(s)
  BY <1>1 DEF Fix!FixNext, Fix!LookUp, Fix!Answer, Fix!Propose, Fix!Inspect, Fix!GetFix, Fix!Forget,
     Fix!DaemonRestarts, Fix!OwnerCommand, Fix!Trouble, Fix!Redis
<1>3. CASE Fix!Finish(q) \/ Fix!RollBack(q)
  <2>1. \E s : fix' = [Fix!Touched(s) EXCEPT ![q] = Fix!Idle] \/ fix' = [fix EXCEPT ![q] = Fix!Idle]
    BY <1>3, Zenon DEF Fix!Finish, Fix!RollBack
  <2>2. \A p \in Fixes \ {q} : \E s : fix'[p] \in {fix[p], Fix!Touched(s)[p]}
    BY <1>0, <2>1, EndShape
  <2>3. \A p \in Fixes \ {q} : fix'[p].pc = fix[p].pc
    BY <1>0, <2>2, TouchedShape
  <2>4. q = r
    BY <1>0, <2>3
  <2>5. QED
    BY <1>3, <2>4
<1>4. CASE Fix!Execute(q)
  <2>1. fix[q].pc = "taken" /\ \E pc \in {"failed", "done"} : fix' = Fix!Stage(q, pc)
    BY <1>4 DEF Fix!Execute
  <2>2. q # r /\ \A p \in Fixes \ {q} : \E s : fix'[p] = Fix!Touched(s)[p]
    BY <1>0, <2>1, StageShape
  <2>3. QED
    BY <1>0, <2>2, TouchedShape
<1>5. CASE \E s : fix' = Fix!Touched(s)
  BY <1>0, <1>5, TouchedShape
<1>6. CASE Fix!Refuse(q) \/ \E w, s, fp : Fix!Take(q, w, s, fp)
  BY <1>0, <1>6 DEF Fix!Take, Fix!Refuse, FixTypes
<1>7. QED
  BY <1>2, <1>3, <1>4, <1>5, <1>6

LEMMA LeavesRunningNext ==
  ASSUME FixShapes, AloneUp, Fix!FixNext, NEW r \in Fixes
  PROVE  Fix!LeavesRunning(r)
<1>1. SUFFICES ASSUME Fix!Ends(r), fix[r].alone, left' = left
               PROVE  container'[Fix!Site(r)] # "exited"
  BY DEF Fix!LeavesRunning
<1>2. \/ container[Fix!Site(r)] = "running"
      \/ fix[r].pc = "failed" /\ Fix!Action(r) = "docker_restart"
  BY <1>1 DEF AloneUp, AloneAt, Fix!Ends
<1>3. CASE Fix!RollBack(r)
  BY <1>1, <1>2, <1>3, RollBackUp
<1>4. CASE Fix!Finish(r)
  BY <1>2, <1>4 DEF Fix!Finish
<1>5. QED
  BY <1>1, <1>3, <1>4, EndsOne

-----------------------------------------------------------------------------
\* The fix engine within the panel: it moves where the behaviour is about it.

PanelFix == part = "fix" => FixShapes /\ SpentGone /\ AloneUp

LEMMA PanelFixInit == PanelInit => PanelFix
<1>1. Fix!FixInit => SpentGone /\ AloneUp
  BY DEF Fix!FixInit, SpentGone, AloneUp, AloneAt, Fix!Idle
<1>2. QED
  BY <1>1, FixInitial DEF PanelInit, PanelFix

LEMMA PanelFixNext == PanelFix /\ [PanelNext]_panelVars => PanelFix'
<1> SUFFICES ASSUME PanelFix, [PanelNext]_panelVars PROVE PanelFix'
  OBVIOUS
<1>1. CASE FixStep
  BY <1>1, FixShapesNext, SpentNext, AloneNext DEF FixStep, PanelFix
<1>2. CASE OpsStep \/ DeskStep
  BY <1>2 DEF OpsStep, DeskStep, PanelFix
<1>3. CASE UNCHANGED panelVars
  BY <1>3 DEF panelVars, PanelFix, FixShapes, StoreTypes, DiagnosisTypes, FixTypes, WorldTypes,
              LeftTypes, SpentGone, AloneUp, AloneAt, Fix!Site, Fix!Action
<1>4. QED
  BY <1>1, <1>2, <1>3 DEF PanelNext

\* Elsewhere no fix is taken and none ends.
LEMMA FixesRest == OpsStep \/ DeskStep \/ UNCHANGED panelVars => fix' = fix
  BY DEF OpsStep, DeskStep, panelVars, fixVars

\* A proposal that was executed with success, and so deleted, is not taken again before a
\* diagnosis proposes it anew, whatever the requests, the workers and the sites, as long as
\* Redis answers.
THEOREM PanelTakenOnce == PanelSpec => TakenOnce
<1>1. ASSUME PanelFix, [PanelNext]_panelVars PROVE \A r \in Fixes : Fix!TakenOnce(r)
  <2>1. CASE FixStep
    BY <1>1, <2>1, TakenOnceNext DEF FixStep, PanelFix
  <2>2. CASE fix' = fix
    BY <2>2 DEF Fix!TakenOnce
  <2>3. QED
    BY <1>1, <2>1, <2>2, FixesRest DEF PanelNext
<1>2. QED
  BY <1>1, PanelFixInit, PanelFixNext, PTL DEF PanelSpec, TakenOnce

\* A fix applied to a running container leaves it up: its rollback starts again what a failed
\* restart stopped, unless the rollback fails too or somebody else commands the container.
THEOREM PanelLeavesRunning == PanelSpec => LeavesRunning
<1>1. ASSUME PanelFix, [PanelNext]_panelVars PROVE \A r \in Fixes : Fix!LeavesRunning(r)
  <2>1. CASE FixStep
    BY <1>1, <2>1, LeavesRunningNext DEF FixStep, PanelFix
  <2>2. CASE fix' = fix
    BY <2>2 DEF Fix!LeavesRunning, Fix!Ends
  <2>3. QED
    BY <1>1, <2>1, <2>2, FixesRest DEF PanelNext
<1>2. QED
  BY <1>1, PanelFixInit, PanelFixNext, PTL DEF PanelSpec, LeavesRunning

-----------------------------------------------------------------------------
\* The support tickets.

Statuses == {"none", "open", "ai_handled", "waiting", "in_progress", "resolved"}
Routes == {"assign", "escalate", "resolve", "message"}
Someone == Staff \cup {Desk!Nobody}

Asked == [pc : {"first", "second"}, op : Routes, ticket : Tickets, who : Someone]
IsCreation(c) == c = Desk!Idle \/ c \in [pc : {"asking", "answered", "saved"}, seen : {c.seen}]

TicketTypes ==
    /\ ticket \in [Tickets -> [status : Statuses, by : Someone]]
    /\ holder \in [Tickets -> Someone]
    /\ overlapped \subseteq Tickets
RequestTypes == DOMAIN request = DeskRequests /\ \A q \in DeskRequests : request[q] \in Asked \cup {Desk!Idle}
CreationTypes == DOMAIN creating = Tickets /\ \A t \in Tickets : IsCreation(creating[t])

TicketShapes == TicketTypes /\ RequestTypes /\ CreationTypes

About(q, t) == request[q].pc # "idle" /\ request[q].ticket = t

\* Nobody writes to a ticket that is not there; the creation of one, and the requests about it,
\* do not overlap; who took it still has it, and the request that is about it was allowed.
Kept(t) ==
    /\ ticket[t].status = "none" => ~Desk!Writing(t) /\ holder[t] = Desk!Nobody
    /\ t \notin overlapped =>
        /\ creating[t].pc # "idle" => holder[t] = Desk!Nobody /\ \A q \in DeskRequests : ~About(q, t)
        /\ \A q, p \in DeskRequests : About(q, t) /\ About(p, t) => p = q
        /\ holder[t] # Desk!Nobody => ticket[t] = [status |-> "in_progress", by |-> holder[t]]
        /\ \A q \in DeskRequests : About(q, t) =>
            /\ request[q].op = "escalate" => holder[t] = Desk!Nobody
            /\ request[q].op = "assign" => holder[t] \in {Desk!Nobody, request[q].who}

TicketsKept == TicketShapes /\ \A t \in Tickets : Kept(t)

\* A step that only ends what is being done to a ticket keeps it.
LEMMA KeptFrame ==
  ASSUME NEW t \in Tickets, Kept(t), ticket'[t] = ticket[t], holder'[t] = holder[t],
         t \in overlapped => t \in overlapped',
         creating'[t].pc # "idle" => creating[t].pc # "idle",
         \A q \in DeskRequests : About(q, t)' =>
            About(q, t) /\ request'[q].op = request[q].op /\ request'[q].who = request[q].who
  PROVE  Kept(t)'
<1>1. Desk!Writing(t)' => Desk!Writing(t)
  BY DEF Desk!Writing, About
<1>2. QED
  BY <1>1 DEF Kept

\* The creation of a ticket.
LEMMA CreationKept ==
  ASSUME TicketsKept, NEW t \in Tickets,
         \/ Desk!Create(t) \/ Desk!Generate(t) \/ Desk!SaveAnswer(t) \/ Desk!AiHandled(t)
         \/ Desk!CreationFails(t)
  PROVE  TicketsKept'
<1>0. TicketTypes /\ RequestTypes /\ CreationTypes /\ \A u \in Tickets : Kept(u)
  BY DEF TicketsKept, TicketShapes
<1>1. UNCHANGED <<request, holder, overlapped>> /\ RequestTypes'
  BY <1>0 DEF Desk!Create, Desk!Generate, Desk!SaveAnswer, Desk!AiHandled, Desk!CreationFails, RequestTypes
<1>2. PICK c : creating' = [creating EXCEPT ![t] = c] /\ IsCreation(c)
    /\ (~Desk!Create(t) /\ c.pc # "idle" => creating[t].pc # "idle")
  <2>1. creating[t].pc # "idle" => /\ IsCreation([creating[t] EXCEPT !.pc = "answered"])
                                   /\ IsCreation([creating[t] EXCEPT !.pc = "saved"])
    BY <1>0 DEF CreationTypes, IsCreation, Desk!Idle
  <2>2. CASE Desk!Create(t)
    <3>1. PICK seen : creating' = [creating EXCEPT ![t] = [pc |-> "asking", seen |-> seen]]
      BY <2>2 DEF Desk!Create
    <3>2. QED
      BY <2>2, <3>1 DEF IsCreation
  <2>3. CASE Desk!Generate(t) \/ Desk!SaveAnswer(t)
    <3>1. /\ creating[t].pc # "idle"
          /\ \/ creating' = [creating EXCEPT ![t] = [creating[t] EXCEPT !.pc = "answered"]]
             \/ creating' = [creating EXCEPT ![t] = [creating[t] EXCEPT !.pc = "saved"]]
      BY <2>3 DEF Desk!Generate, Desk!SaveAnswer
    <3>2. QED
      BY <2>1, <3>1
  <2>4. CASE Desk!AiHandled(t) \/ Desk!CreationFails(t)
    BY <2>4 DEF Desk!AiHandled, Desk!CreationFails, IsCreation, Desk!Idle
  <2>5. QED
    BY <2>2, <2>3, <2>4
<1>3. creating'[t] = c /\ \A u \in Tickets \ {t} : creating'[u] = creating[u]
  BY <1>0, <1>2 DEF CreationTypes
<1>4. CreationTypes'
  BY <1>0, <1>2, <1>3 DEF CreationTypes
<1>5. TicketTypes' /\ \A u \in Tickets \ {t} : ticket'[u] = ticket[u]
  <2>1. \/ ticket' = ticket
        \/ ticket' = [ticket EXCEPT ![t] = [status |-> "open", by |-> Desk!Nobody]]
        \/ ticket' = [ticket EXCEPT ![t].status = "ai_handled"]
    BY DEF Desk!Create, Desk!Generate, Desk!SaveAnswer, Desk!AiHandled, Desk!CreationFails, Desk!UpdateStatus
  <2>2. QED
    BY <1>0, <1>1, <2>1 DEF TicketTypes, Statuses, Someone
<1>6. ASSUME NEW u \in Tickets, u # t PROVE Kept(u)'
  BY <1>0, <1>1, <1>3, <1>5, <1>6, KeptFrame DEF About
<1>7. Kept(t)'
  <2>1. CASE Desk!Create(t)
    <3>1. ticket[t].status = "none" /\ ticket'[t].status = "open"
      BY <1>0, <2>1 DEF Desk!Create, TicketTypes
    <3>2. holder'[t] = Desk!Nobody /\ \A q \in DeskRequests : ~About(q, t)'
      BY <1>0, <1>1, <3>1 DEF Kept, Desk!Writing, About
    <3>3. QED
      BY <3>1, <3>2 DEF Kept
  <2>2. CASE Desk!AiHandled(t)
    <3>1. creating[t].pc = "saved" /\ ticket' = [ticket EXCEPT ![t].status = "ai_handled"]
      BY <2>2 DEF Desk!AiHandled, Desk!UpdateStatus
    <3>2. creating'[t].pc = "idle" /\ ticket'[t].status = "ai_handled"
      BY <1>0, <2>2, <3>1 DEF Desk!AiHandled, TicketTypes, CreationTypes, Desk!Idle
    <3>3. t \notin overlapped' => holder'[t] = Desk!Nobody /\ \A q \in DeskRequests : ~About(q, t)'
      BY <1>0, <1>1, <3>1 DEF Kept, About
    <3>4. QED
      BY <3>2, <3>3 DEF Kept
  <2>3. CASE Desk!Generate(t) \/ Desk!SaveAnswer(t) \/ Desk!CreationFails(t)
    <3>1. ticket' = ticket /\ ~Desk!Create(t)
      <4>1. creating[t].pc # "idle"
        BY <2>3 DEF Desk!Generate, Desk!SaveAnswer, Desk!CreationFails
      <4>2. ticket' = ticket
        BY <2>3 DEF Desk!Generate, Desk!SaveAnswer, Desk!CreationFails
      <4>3. ticket[t].status # "none"
        BY <1>0, <4>1 DEF Kept, Desk!Writing
      <4>4. QED
        BY <4>2, <4>3 DEF Desk!Create
    <3>2. QED
      BY <1>0, <1>1, <1>2, <1>3, <3>1, KeptFrame DEF About
  <2>4. QED
    BY <2>1, <2>2, <2>3
<1>8. QED
  BY <1>1, <1>4, <1>5, <1>6, <1>7 DEF TicketsKept, TicketShapes

\* What a request becomes: read, moved on, or over.
LEMMA RequestShape ==
  ASSUME RequestTypes, NEW q \in DeskRequests, NEW x \in Asked \cup {Desk!Idle},
         request' = [request EXCEPT ![q] = x]
  PROVE  RequestTypes' /\ request'[q] = x /\ \A p \in DeskRequests \ {q} : request'[p] = request[p]
  BY DEF RequestTypes

\* A ticket is read, and the answer allowed.
LEMMA ReadKept ==
  ASSUME TicketsKept, NEW q \in DeskRequests, NEW op \in Routes, NEW t \in Tickets,
         NEW who \in Someone, Desk!ReadTicket(q, op, t, who)
  PROVE  TicketsKept'
<1> DEFINE x == [pc |-> "first", op |-> op, ticket |-> t, who |-> who]
<1>0. TicketTypes /\ RequestTypes /\ CreationTypes /\ \A u \in Tickets : Kept(u)
  BY DEF TicketsKept, TicketShapes
<1>1. /\ request[q].pc = "idle" /\ ticket[t].status # "none" /\ Desk!Allowed(op, t, who)
      /\ request' = [request EXCEPT ![q] = x]
      /\ overlapped' = IF Desk!Writing(t) THEN overlapped \cup {t} ELSE overlapped
      /\ UNCHANGED <<ticket, creating, holder>>
  BY DEF Desk!ReadTicket
<1>2. x \in Asked /\ x.pc = "first" /\ x.op = op /\ x.ticket = t /\ x.who = who
  BY DEF Asked
<1> HIDE DEF x
<1>3. RequestTypes' /\ request'[q] = x /\ \A p \in DeskRequests \ {q} : request'[p] = request[p]
  BY <1>0, <1>1, <1>2, RequestShape
<1>4. TicketTypes' /\ CreationTypes'
  BY <1>0, <1>1 DEF TicketTypes, CreationTypes
<1>5. ASSUME NEW u \in Tickets, u # t PROVE Kept(u)'
  <2>1. \A p \in DeskRequests : About(p, u)' => p # q
    BY <1>2, <1>3, <1>5 DEF About
  <2>2. QED
    BY <1>0, <1>1, <1>3, <2>1, KeptFrame DEF About
<1>6. Kept(t)'
  <2>1. ticket'[t].status # "none"
    BY <1>1
  <2>2. ASSUME t \notin overlapped' PROVE
            /\ creating[t].pc = "idle" /\ \A p \in DeskRequests : ~About(p, t)
            /\ t \notin overlapped
    BY <1>1, <2>2 DEF Desk!Writing, About
  <2>3. ASSUME t \notin overlapped' PROVE
            /\ op = "escalate" => holder[t] = Desk!Nobody
            /\ op = "assign" => holder[t] \in {Desk!Nobody, who}
    <3>1. holder[t] # Desk!Nobody => ticket[t] = [status |-> "in_progress", by |-> holder[t]]
      BY <1>0, <2>2, <2>3 DEF Kept
    <3>2. CASE op = "escalate"
      BY <1>1, <3>1, <3>2 DEF Desk!Allowed, Desk!MayEscalate
    <3>3. CASE op = "assign"
      BY <1>1, <3>1, <3>3 DEF Desk!Allowed, Desk!MayAssign
    <3>4. QED
      BY <3>2, <3>3
  <2>4. \A p \in DeskRequests : t \notin overlapped' => (About(p, t)' => p = q)
    BY <1>3, <2>2 DEF About
  <2>5. QED
    BY <1>0, <1>1, <1>2, <1>3, <2>1, <2>2, <2>3, <2>4 DEF Kept
<1>7. QED
  BY <1>3, <1>4, <1>5, <1>6 DEF TicketsKept, TicketShapes

\* A status is written: by the one request about the ticket, unless they overlap.
LEMMA StatusKept ==
  ASSUME TicketsKept, NEW q \in DeskRequests, Desk!WriteStatus(q)
  PROVE  TicketsKept' /\ \A t \in Tickets : Desk!KeptBy(t)
<1>a. PICK t, who : t = request[q].ticket /\ who = request[q].who
  OBVIOUS
<1> DEFINE x == IF request[q].op = "escalate" THEN Desk!Idle ELSE [request[q] EXCEPT !.pc = "second"]
<1>0. TicketTypes /\ RequestTypes /\ CreationTypes /\ \A u \in Tickets : Kept(u)
  BY DEF TicketsKept, TicketShapes
<1>1. /\ request[q].pc # "idle" /\ request[q].op # "message" /\ request[q] \in Asked
      /\ UNCHANGED <<creating, overlapped>> /\ request' = [request EXCEPT ![q] = x]
  BY <1>0 DEF Desk!WriteStatus, RequestTypes, Desk!Idle
<1>2. t \in Tickets /\ who \in Someone /\ request[q].op \in {"assign", "escalate", "resolve"}
  BY <1>1, <1>a DEF Asked, Routes
<1>3. /\ x \in Asked \cup {Desk!Idle}
      /\ x.pc # "idle" => x.op = request[q].op /\ x.ticket = t /\ x.who = who /\ x.op # "escalate"
  BY <1>1, <1>a DEF Asked, Desk!Idle
<1> HIDE DEF x
<1>4. RequestTypes' /\ request'[q] = x /\ \A p \in DeskRequests \ {q} : request'[p] = request[p]
  BY <1>0, <1>1, <1>3, RequestShape
<1>5. /\ request[q].op = "escalate" => /\ ticket' = [ticket EXCEPT ![t] = [@ EXCEPT !.status = "waiting"]]
                                      /\ holder' = holder
      /\ request[q].op = "assign" =>
            /\ ticket' = [ticket EXCEPT ![t] = [status |-> "in_progress", by |-> who]]
            /\ holder' = [holder EXCEPT ![t] = who]
      /\ request[q].op = "resolve" => /\ ticket' = [ticket EXCEPT ![t] = [@ EXCEPT !.status = "resolved"]]
                                      /\ holder' = [holder EXCEPT ![t] = Desk!Nobody]
  <2>1. CASE request[q].op = "escalate"
    BY <1>a, <2>1 DEF Desk!WriteStatus
  <2>2. CASE request[q].op = "assign"
    BY <1>a, <2>2 DEF Desk!WriteStatus
  <2>3. CASE request[q].op = "resolve"
    BY <1>a, <2>3 DEF Desk!WriteStatus
  <2>4. QED
    BY <1>2, <2>1, <2>2, <2>3
<1>6. /\ TicketTypes'
      /\ \A u \in Tickets \ {t} : ticket'[u] = ticket[u] /\ holder'[u] = holder[u]
  <2>1. \A v \in {"waiting", "resolved"} : [ticket[t] EXCEPT !.status = v] \in [status : Statuses, by : Someone]
    BY <1>0, <1>2 DEF TicketTypes, Statuses
  <2>2. [status |-> "in_progress", by |-> who] \in [status : Statuses, by : Someone]
    BY <1>2 DEF Statuses
  <2>3. QED
    BY <1>0, <1>1, <1>2, <1>5, <2>1, <2>2 DEF TicketTypes, Someone
<1>7. About(q, t)
  BY <1>1, <1>a DEF About
<1>8. /\ t \notin overlapped => /\ creating[t].pc = "idle"
                                /\ \A p \in DeskRequests : About(p, t) => p = q
                                /\ request[q].op = "escalate" => holder[t] = Desk!Nobody
                                /\ request[q].op = "assign" => holder[t] \in {Desk!Nobody, who}
  BY <1>0, <1>2, <1>7, <1>a DEF Kept
<1>9. ASSUME NEW u \in Tickets, u # t PROVE Kept(u)'
  <2>1. \A p \in DeskRequests : About(p, u)' => p # q
    BY <1>3, <1>4, <1>9 DEF About
  <2>2. QED
    BY <1>0, <1>1, <1>4, <1>6, <1>9, <2>1, KeptFrame DEF About
<1>10. Kept(t)'
  <2>1. ticket'[t].status # "none"
    BY <1>0, <1>2, <1>5 DEF TicketTypes
  <2>2. t \notin overlapped' => \A p \in DeskRequests : About(p, t)' => p = q
    BY <1>1, <1>4, <1>8 DEF About
  <2>3. CASE request[q].op = "escalate"
    <3>1. t \notin overlapped' => \A p \in DeskRequests : ~About(p, t)'
      BY <1>3, <1>4, <2>2, <2>3 DEF About, x, Desk!Idle
    <3>2. t \notin overlapped' => holder'[t] = Desk!Nobody
      BY <1>1, <1>5, <1>8, <2>3
    <3>3. QED
      BY <1>1, <1>8, <2>1, <3>1, <3>2 DEF Kept
  <2>4. CASE request[q].op = "assign"
    <3>1. ticket'[t] = [status |-> "in_progress", by |-> who] /\ holder'[t] = who
      BY <1>0, <1>2, <1>5, <2>4 DEF TicketTypes
    <3>2. x.op = "assign" /\ x.who = who
      BY <1>1, <1>a, <2>4 DEF x, Asked
    <3>3. QED
      BY <1>1, <1>4, <1>8, <2>1, <2>2, <3>1, <3>2 DEF Kept
  <2>5. CASE request[q].op = "resolve"
    <3>1. holder'[t] = Desk!Nobody
      BY <1>0, <1>2, <1>5, <2>5 DEF TicketTypes
    <3>2. QED
      BY <1>1, <1>8, <2>1, <2>2, <3>1 DEF Kept
  <2>6. QED
    BY <1>2, <2>3, <2>4, <2>5
<1>11. CreationTypes'
  BY <1>0, <1>1 DEF CreationTypes
<1>12. ASSUME NEW u \in Tickets PROVE Desk!KeptBy(u)
  <2>1. CASE u # t
    BY <1>6, <2>1 DEF Desk!KeptBy
  <2>2. CASE u = t
    BY <1>0, <1>2, <1>5, <1>8, <2>2 DEF Desk!KeptBy, TicketTypes
  <2>3. QED
    BY <2>1, <2>2
<1>13. QED
  BY <1>4, <1>6, <1>9, <1>10, <1>11, <1>12 DEF TicketsKept, TicketShapes

\* A request writes its message, or fails.
LEMMA RequestKept ==
  ASSUME TicketsKept, NEW q \in DeskRequests, Desk!WriteMessage(q) \/ Desk!RequestFails(q)
  PROVE  TicketsKept'
<1>0. TicketTypes /\ RequestTypes /\ CreationTypes /\ \A u \in Tickets : Kept(u)
  BY DEF TicketsKept, TicketShapes
<1>1. /\ request[q].pc # "idle" /\ request[q] \in Asked
      /\ UNCHANGED <<ticket, creating, holder, overlapped>>
  BY <1>0 DEF Desk!WriteMessage, Desk!RequestFails, RequestTypes, Desk!Idle
<1>2. PICK y \in {Desk!Idle, [request[q] EXCEPT !.pc = "second"]} : request' = [request EXCEPT ![q] = y]
  BY DEF Desk!WriteMessage, Desk!RequestFails
<1>3. /\ y \in Asked \cup {Desk!Idle}
      /\ y.pc # "idle" => /\ y.op = request[q].op /\ y.ticket = request[q].ticket
                          /\ y.who = request[q].who
  <2>1. CASE y = Desk!Idle
    BY <2>1 DEF Desk!Idle
  <2>2. CASE y = [request[q] EXCEPT !.pc = "second"]
    BY <1>1, <2>2 DEF Asked
  <2>3. QED
    BY <1>2, <2>1, <2>2
<1>4. RequestTypes' /\ request'[q] = y /\ \A p \in DeskRequests \ {q} : request'[p] = request[p]
  BY <1>0, <1>2, <1>3, RequestShape
<1>5. ASSUME NEW t \in Tickets PROVE Kept(t)'
  <2>1. \A p \in DeskRequests : About(p, t)' =>
            About(p, t) /\ request'[p].op = request[p].op /\ request'[p].who = request[p].who
    BY <1>1, <1>3, <1>4 DEF About
  <2>2. QED
    BY <1>0, <1>1, <2>1, KeptFrame
<1>6. TicketTypes' /\ CreationTypes'
  BY <1>0, <1>1 DEF TicketTypes, CreationTypes
<1>7. QED
  BY <1>4, <1>5, <1>6 DEF TicketsKept, TicketShapes

LEMMA TicketsRest ==
  ASSUME TicketsKept, UNCHANGED <<ticket, creating, request, holder, overlapped>>
  PROVE  TicketsKept'
<1>1. TicketShapes'
  BY DEF TicketsKept, TicketShapes, TicketTypes, RequestTypes, CreationTypes
<1>2. \A t \in Tickets : Kept(t)'
  BY KeptFrame DEF TicketsKept, About
<1>3. QED
  BY <1>1, <1>2 DEF TicketsKept

LEMMA TicketKeptNext ==
  ASSUME TicketsKept, Desk!DeskNext
  PROVE  TicketsKept' /\ \A t \in Tickets : Desk!KeptBy(t)
<1>1. ASSUME NEW t \in Tickets, \/ Desk!Create(t) \/ Desk!Generate(t) \/ Desk!SaveAnswer(t)
                                \/ Desk!AiHandled(t) \/ Desk!CreationFails(t)
      PROVE  TicketsKept' /\ holder' = holder
  BY <1>1, CreationKept
     DEF Desk!Create, Desk!Generate, Desk!SaveAnswer, Desk!AiHandled, Desk!CreationFails
<1>2. ASSUME NEW t \in Tickets, NEW q \in DeskRequests, NEW op \in Routes, NEW who \in Someone,
             Desk!ReadTicket(q, op, t, who)
      PROVE  TicketsKept' /\ holder' = holder
  BY <1>2, ReadKept DEF Desk!ReadTicket
<1>3. ASSUME NEW q \in DeskRequests, Desk!WriteMessage(q) \/ Desk!RequestFails(q)
      PROVE  TicketsKept' /\ holder' = holder
  BY <1>3, RequestKept DEF Desk!WriteMessage, Desk!RequestFails
<1>4. ASSUME NEW q \in DeskRequests, Desk!WriteStatus(q)
      PROVE  TicketsKept' /\ \A t \in Tickets : Desk!KeptBy(t)
  BY <1>4, StatusKept
<1>5. ASSUME Desk!HostingChanges \/ (\E entry \in cache : Desk!CacheExpires(entry)) \/ Desk!Chat
      PROVE  TicketsKept' /\ holder' = holder
  <2>1. UNCHANGED <<ticket, creating, request, holder, overlapped>>
    BY <1>5 DEF Desk!HostingChanges, Desk!CacheExpires, Desk!Chat, Desk!Welcome, Desk!Receive,
       Desk!Sent, Desk!PeerLost, Desk!Disconnect, Desk!Send, Desk!Connect
  <2>2. QED
    BY <2>1, TicketsRest
<1>6. holder' = holder => \A t \in Tickets : Desk!KeptBy(t)
  BY DEF Desk!KeptBy
<1>7. "assign" \in Routes /\ {"escalate", "resolve", "message"} \subseteq Routes
      /\ Staff \subseteq Someone /\ Desk!Nobody \in Someone
  BY DEF Routes, Someone
<1>8. CASE Desk!Desk
  <2>1. CASE \E t \in Tickets : \/ Desk!Create(t) \/ Desk!Generate(t) \/ Desk!SaveAnswer(t)
                                \/ Desk!AiHandled(t) \/ Desk!CreationFails(t)
    BY <1>1, <1>6, <2>1
  <2>2. CASE \E t \in Tickets, q \in DeskRequests, op \in Routes, who \in Someone :
                Desk!ReadTicket(q, op, t, who)
    BY <1>2, <1>6, <2>2
  <2>3. CASE \E q \in DeskRequests : Desk!WriteMessage(q) \/ Desk!RequestFails(q) \/ Desk!WriteStatus(q)
    BY <1>3, <1>4, <1>6, <2>3
  <2>4. CASE Desk!HostingChanges \/ \E entry \in cache : Desk!CacheExpires(entry)
    BY <1>5, <1>6, <2>4
  <2>5. QED
    BY <1>7, <1>8, <2>1, <2>2, <2>3, <2>4, Zenon DEF Desk!Desk
<1>9. QED
  BY <1>5, <1>6, <1>8 DEF Desk!DeskNext

LEMMA TicketsInit == PanelInit => TicketsKept
<1> SUFFICES ASSUME PanelInit PROVE TicketsKept
  OBVIOUS
<1>1. TicketShapes
  BY DEF PanelInit, Desk!DeskInit, TicketShapes, TicketTypes, RequestTypes, CreationTypes,
     Statuses, Someone, IsCreation
<1>2. \A t \in Tickets : Kept(t)
  BY DEF PanelInit, Desk!DeskInit, Kept, Desk!Writing, About, Desk!Idle
<1>3. QED
  BY <1>1, <1>2 DEF TicketsKept

\* Who has taken a ticket keeps it until it is resolved, whoever else escalates, assigns or
\* answers it, as long as no two requests about it overlap.
THEOREM PanelTicketKept == PanelSpec => TicketKept
<1>1. ASSUME TicketsKept, [PanelNext]_panelVars
      PROVE  TicketsKept' /\ \A t \in Tickets : Desk!KeptBy(t)
  <2>1. CASE DeskStep
    BY <1>1, <2>1, TicketKeptNext DEF DeskStep
  <2>2. CASE OpsStep \/ FixStep \/ UNCHANGED panelVars
    <3>1. UNCHANGED <<ticket, creating, request, holder, overlapped>>
      BY <2>2 DEF OpsStep, FixStep, panelVars, deskVars
    <3>2. QED
      BY <1>1, <3>1, TicketsRest DEF Desk!KeptBy
  <2>3. QED
    BY <1>1, <2>1, <2>2 DEF PanelNext
<1>2. QED
  BY <1>1, TicketsInit, PTL DEF PanelSpec, TicketKept

-----------------------------------------------------------------------------
\* The conversations over WebSockets.

Message == [ticket : Tickets, by : Processes \cup {"rest"}]
Talking == [pc : {"registered", "open", "sending"}, worker : Processes, ticket : Tickets,
            alive : BOOLEAN, seen : SUBSET Nat, since : Nat, message : Nat,
            todo : SUBSET Sockets, dead : SUBSET Sockets]
Closed == [pc |-> "closed"]

ServingTypes == "serving" \in DOMAIN deskLeft /\ deskLeft.serving \in [Sockets -> Processes]
ChatTypes ==
    /\ messages \in Seq(Message)
    /\ connections \in [Processes -> SUBSET Sockets]
    /\ socket \in [Sockets -> Talking \cup {Desk!Idle, Closed}]
    /\ ServingTypes

Live(k) == socket[k].pc \in {"registered", "open", "sending"}
Hears(k) == Live(k) /\ socket[k].alive
Pending(k, n) == \E j \in Sockets :
    socket[j].pc = "sending" /\ socket[j].message = n /\ k \in socket[j].todo
Owed(k, n) ==
    /\ n \in DOMAIN messages /\ messages[n].ticket = socket[k].ticket
    /\ n > socket[k].since /\ messages[n].by = socket[k].worker

\* Who can be reached is registered with its worker; what it is owed it has seen or will be
\* sent; only those who cannot be reached are dropped; nobody is listed before it connects.
Registered(k) == Hears(k) => k \in connections[socket[k].worker]
Told(k) == Hears(k) => \A n \in Nat : Owed(k, n) => n \in socket[k].seen \/ Pending(k, n)
Dropped(k) == socket[k].pc = "sending" => \A j \in socket[k].dead : ~Hears(j)
Listed(k) == Live(k) => \A j \in socket[k].todo \cup socket[k].dead : socket[j].pc # "idle"
Met == \A w \in Processes : \A j \in connections[w] : socket[j].pc # "idle"

Conversing == \A k \in Sockets : Registered(k) /\ Told(k) /\ Dropped(k) /\ Listed(k)
ChatInv == ChatTypes /\ Conversing /\ Met

LEMMA LiveShape ==
  ASSUME ChatTypes, NEW k \in Sockets, Live(k)
  PROVE  socket[k] \in Talking
  BY DEF ChatTypes, Live, Desk!Idle, Closed

LEMMA SpendServing ==
  ASSUME ServingTypes, NEW kind, kind # "serving", Desk!Spend(kind)
  PROVE  ServingTypes'
  BY DEF ServingTypes, Desk!Spend

\* Messages of the REST routes are nobody's due.
LEMMA ChatRest ==
  ASSUME ChatInv, UNCHANGED <<socket, connections>>, ServingTypes', messages' \in Seq(Message),
         \A n \in DOMAIN messages' :
            (n \in DOMAIN messages /\ messages'[n] = messages[n]) \/ messages'[n].by = "rest"
  PROVE  ChatInv'
<1>1. ASSUME NEW k \in Sockets, NEW n \in Nat, Hears(k), Owed(k, n)' PROVE Owed(k, n)
  <2>1. socket[k].worker \in Processes
    BY <1>1, LiveShape DEF ChatInv, Hears, Talking
  <2>2. QED
    BY <1>1, <2>1, PanelAssumption DEF Owed
<1>2. Conversing'
  <2>1. ASSUME NEW k \in Sockets PROVE Told(k)'
    BY <1>1, <2>1 DEF ChatInv, Conversing, Told, Hears, Live, Pending
  <2>2. ASSUME NEW k \in Sockets PROVE Registered(k)' /\ Dropped(k)' /\ Listed(k)'
    BY <2>2 DEF ChatInv, Conversing, Registered, Dropped, Listed, Hears, Live
  <2>3. QED
    BY <2>1, <2>2 DEF Conversing
<1>3. QED
  BY <1>2 DEF ChatInv, ChatTypes, Met

\* A socket that goes on with the same conversation, and forgets nobody it has to send to.
LEMMA ChatMoves ==
  ASSUME ChatInv, NEW k \in Sockets, NEW x \in Talking, Live(k), ServingTypes',
         socket' = [socket EXCEPT ![k] = x], messages' = messages,
         x.worker = socket[k].worker, x.ticket = socket[k].ticket, x.since = socket[k].since,
         x.alive => socket[k].alive, socket[k].seen \subseteq x.seen,
         x.dead \subseteq socket[k].dead,
         \/ x.pc = "sending" /\ socket[k].pc = "sending" /\ x.message = socket[k].message
            /\ x.todo = socket[k].todo
         \/ x.pc # "sending" /\ (socket[k].pc = "sending" => socket[k].todo = {})
            /\ x.todo \subseteq socket[k].todo,
         connections' \in [Processes -> SUBSET Sockets],
         \A w \in Processes : connections'[w] \subseteq connections[w],
         \A j \in Sockets : Hears(j) /\ j \in connections[socket[j].worker]
                                => j \in connections'[socket[j].worker]
  PROVE  ChatInv'
<1>0. ChatTypes /\ Conversing /\ Met
  BY DEF ChatInv
<1>1. /\ socket'[k] = x /\ \A j \in Sockets \ {k} : socket'[j] = socket[j]
      /\ socket' \in [Sockets -> Talking \cup {Desk!Idle, Closed}]
  BY <1>0 DEF ChatTypes
<1>2. x.pc \in {"registered", "open", "sending"} /\ socket[k].pc \in {"registered", "open", "sending"}
  BY DEF Talking, Live
<1>3. \A j \in Sockets : Live(j)' <=> Live(j)
  BY <1>1, <1>2 DEF Live
<1>4. \A j \in Sockets : Hears(j)' => Hears(j) /\ socket'[j].worker = socket[j].worker
  BY <1>1, <1>3 DEF Hears
<1>5. \A j \in Sockets, n \in Nat : Pending(j, n) => Pending(j, n)'
  BY <1>1, <1>2 DEF Pending
<1>6. \A j \in Sockets, n \in Nat : Owed(j, n)' => Owed(j, n)
  BY <1>1 DEF Owed
<1>7. \A j \in Sockets : Registered(j)' /\ Told(j)'
  <2>1. ASSUME NEW j \in Sockets PROVE Registered(j)'
    BY <1>0, <1>4 DEF Conversing, Registered
  <2>2. ASSUME NEW j \in Sockets, NEW n \in Nat, Hears(j)', Owed(j, n)'
        PROVE  n \in socket'[j].seen \/ Pending(j, n)'
    <3>1. n \in socket[j].seen \/ Pending(j, n)
      BY <1>0, <1>4, <1>6, <2>2 DEF Conversing, Told
    <3>2. socket[j].seen \subseteq socket'[j].seen
      BY <1>1
    <3>3. QED
      BY <1>5, <3>1, <3>2
  <2>3. QED
    BY <2>1, <2>2 DEF Told
<1>8. \A j \in Sockets : Dropped(j)' /\ Listed(j)'
  <2>1. ASSUME NEW j \in Sockets PROVE Dropped(j)'
    <3>1. socket'[j].pc = "sending" => socket[j].pc = "sending" /\ socket'[j].dead \subseteq socket[j].dead
      BY <1>1
    <3>2. socket[j].pc = "sending" => socket[j].dead \subseteq Sockets
      BY <1>0, LiveShape DEF Live, Talking
    <3>3. QED
      BY <1>0, <1>4, <3>1, <3>2 DEF Conversing, Dropped
  <2>2. ASSUME NEW j \in Sockets PROVE Listed(j)'
    <3>1. Live(j) => socket'[j].todo \cup socket'[j].dead \subseteq socket[j].todo \cup socket[j].dead
      BY <1>1
    <3>2. Live(j) => socket[j].todo \cup socket[j].dead \subseteq Sockets
      BY <1>0, LiveShape DEF Talking
    <3>3. \A i \in Sockets : socket[i].pc # "idle" => socket'[i].pc # "idle"
      BY <1>1, <1>2
    <3>4. QED
      BY <1>0, <1>3, <3>1, <3>2, <3>3 DEF Conversing, Listed
  <2>3. QED
    BY <2>1, <2>2
<1>9. Met'
  BY <1>0, <1>1, <1>2 DEF Met, ChatTypes
<1>10. QED
  BY <1>0, <1>1, <1>7, <1>8, <1>9 DEF ChatInv, ChatTypes, Conversing

LEMMA ConnectChat ==
  ASSUME ChatInv, NEW k \in Sockets, NEW t \in Tickets, Desk!Connect(k, t)
  PROVE  ChatInv'
<1> DEFINE w == deskLeft.serving[k]
           x == [pc |-> "registered", worker |-> w, ticket |-> t, alive |-> TRUE,
                 seen |-> {}, since |-> Len(messages), message |-> 0, todo |-> {}, dead |-> {}]
<1>0. ChatTypes /\ Conversing /\ Met /\ w \in Processes /\ socket[k].pc = "idle"
  BY DEF ChatInv, ChatTypes, ServingTypes, Desk!Connect
<1>1. /\ socket' = [socket EXCEPT ![k] = x] /\ messages' = messages
      /\ connections' = [connections EXCEPT ![w] = @ \cup {k}] /\ Desk!Spend("connections")
  BY DEF Desk!Connect
<1>2. /\ x \in Talking /\ x.pc = "registered" /\ x.worker = w /\ x.ticket = t
      /\ x.since = Len(messages) /\ x.todo = {} /\ x.dead = {}
  <2>1. Len(messages) \in Nat
    BY <1>0 DEF ChatTypes
  <2> HIDE DEF w
  <2>2. QED
    BY <1>0, <2>1 DEF Talking
<1> HIDE DEF x, w
<1>3. /\ socket'[k] = x /\ \A j \in Sockets \ {k} : socket'[j] = socket[j]
      /\ socket' \in [Sockets -> Talking \cup {Desk!Idle, Closed}]
  BY <1>0, <1>1, <1>2 DEF ChatTypes
<1>4. /\ connections' \in [Processes -> SUBSET Sockets] /\ k \in connections'[w]
      /\ \A p \in Processes : connections[p] \subseteq connections'[p]
                               /\ connections'[p] \subseteq connections[p] \cup {k}
  BY <1>0, <1>1 DEF ChatTypes
<1>5. ServingTypes'
  BY <1>0, <1>1, SpendServing DEF ChatTypes
<1>6. \A j \in Sockets, n \in Nat : Pending(j, n) => Pending(j, n)'
  BY <1>0, <1>3 DEF Pending
<1>7. ASSUME NEW j \in Sockets PROVE Registered(j)' /\ Told(j)' /\ Dropped(j)' /\ Listed(j)'
  <2>1. CASE j = k
    <3>1. \A n \in Nat : ~Owed(k, n)'
      <4>1. DOMAIN messages = 1..Len(messages) /\ Len(messages) \in Nat
        BY <1>0 DEF ChatTypes
      <4>2. QED
        BY <1>1, <1>2, <1>3, <4>1 DEF Owed
    <3>2. QED
      BY <1>2, <1>3, <1>4, <2>1, <3>1 DEF Registered, Told, Dropped, Listed
  <2>2. CASE j # k
    <3>1. socket'[j] = socket[j] /\ (Hears(j)' => Hears(j)) /\ (Live(j)' => Live(j))
      BY <1>3, <2>2 DEF Hears, Live
    <3>2. Live(j) => /\ socket[j].worker \in Processes
                     /\ socket[j].todo \subseteq Sockets /\ socket[j].dead \subseteq Sockets
      BY <1>0, LiveShape DEF Talking
    <3>3. Registered(j)'
      BY <1>0, <1>4, <3>1, <3>2 DEF Conversing, Registered, Hears
    <3>4. Told(j)'
      <4>1. \A n \in Nat : Owed(j, n)' => Owed(j, n)
        BY <1>1, <3>1 DEF Owed
      <4>2. QED
        BY <1>0, <1>6, <3>1, <4>1 DEF Conversing, Told
    <3>5. Listed(j)'
      BY <1>0, <1>2, <1>3, <3>1, <3>2 DEF Conversing, Listed
    <3>6. Dropped(j)'
      <4>1. SUFFICES ASSUME socket[j].pc = "sending", NEW i \in socket[j].dead PROVE ~Hears(i)'
        BY <3>1 DEF Dropped
      <4>2. i \in Sockets /\ socket[i].pc # "idle" /\ ~Hears(i)
        BY <1>0, <3>2, <4>1 DEF Conversing, Listed, Dropped, Live
      <4>3. QED
        BY <1>0, <1>3, <4>2 DEF Hears, Live
    <3>7. QED
      BY <3>3, <3>4, <3>5, <3>6
  <2>3. QED
    BY <2>1, <2>2
<1>8. Met'
  <2>1. SUFFICES ASSUME NEW p \in Processes, NEW j \in connections'[p] PROVE socket'[j].pc # "idle"
    BY DEF Met
  <2>2. j \in Sockets /\ (j = k \/ j \in connections[p])
    BY <1>4, <2>1
  <2>3. QED
    BY <1>0, <1>2, <1>3, <2>2 DEF Met
<1>9. QED
  BY <1>0, <1>1, <1>3, <1>4, <1>5, <1>7, <1>8 DEF ChatInv, ChatTypes, Conversing

\* Nobody with the conversation open is left out when a message is saved.
LEMMA ReceiveChat ==
  ASSUME ChatInv, NEW k \in Sockets, Desk!Receive(k)
  PROVE  ChatInv'
<1> DEFINE said == [ticket |-> socket[k].ticket, by |-> socket[k].worker]
<1>0. /\ ChatTypes /\ Conversing /\ Met /\ socket[k].pc = "open" /\ socket[k] \in Talking
      /\ Live(k) /\ Len(messages) \in Nat
  <2>1. socket[k].pc = "open" /\ ChatTypes /\ Conversing /\ Met
    BY DEF ChatInv, Desk!Receive
  <2>2. Live(k)
    BY <2>1 DEF Live
  <2>3. QED
    BY <2>1, <2>2, LiveShape DEF ChatTypes
<1>2. Desk!Peers(k) \subseteq Sockets /\ \A j \in Desk!Peers(k) : socket[j].pc # "idle"
  BY <1>0 DEF Desk!Peers, Met, ChatTypes, Talking
<1>a. PICK peers \in SUBSET Sockets, number \in Nat :
          peers = Desk!Peers(k) /\ number = Len(messages) + 1
  <2>1. Len(messages) + 1 \in Nat
    BY <1>0
  <2>2. QED
    BY <1>2, <2>1
<1> DEFINE x == [socket[k] EXCEPT !.pc = "sending", !.message = number,
                                  !.todo = peers, !.dead = {}]
<1>1. /\ messages' = Append(messages, said) /\ UNCHANGED connections /\ Desk!Spend("messages")
      /\ socket' = [socket EXCEPT ![k] = x]
  BY <1>0, <1>a DEF Desk!Receive, Desk!Said, ChatTypes
<1>3. /\ x \in Talking /\ x.pc = "sending" /\ x.message = number
      /\ x.todo = peers /\ x.dead = {} /\ x.alive = socket[k].alive
      /\ x.worker = socket[k].worker /\ x.ticket = socket[k].ticket /\ x.since = socket[k].since
      /\ x.seen = socket[k].seen
  BY <1>0 DEF Talking
<1>4. said \in Message
  BY <1>0 DEF Message, Talking
<1> HIDE DEF x
<1>5. /\ socket'[k] = x /\ \A j \in Sockets \ {k} : socket'[j] = socket[j]
      /\ socket' \in [Sockets -> Talking \cup {Desk!Idle, Closed}]
  BY <1>0, <1>1, <1>3 DEF ChatTypes
<1>6. ChatTypes'
  <2>1. ServingTypes'
    BY <1>0, <1>1, SpendServing DEF ChatTypes
  <2>2. messages' \in Seq(Message)
    <3> HIDE DEF said
    <3>1. QED
      BY <1>0, <1>1, <1>4 DEF ChatTypes
  <2>3. QED
    BY <1>0, <1>1, <1>5, <2>1, <2>2 DEF ChatTypes
<1>7. \A j \in Sockets, n \in Nat : Pending(j, n) => Pending(j, n)'
  BY <1>0, <1>5 DEF Pending
<1>8. \A n \in DOMAIN messages' : IF n = Len(messages) + 1 THEN messages'[n] = said
                                  ELSE n \in DOMAIN messages /\ messages'[n] = messages[n]
  <2> HIDE DEF said
  <2>1. QED
    BY <1>0, <1>1, <1>4 DEF ChatTypes
<1>9. ASSUME NEW j \in Sockets
      PROVE  /\ (Hears(j)' <=> Hears(j)) /\ (Live(j)' <=> Live(j))
             /\ Live(j) => /\ socket'[j].worker = socket[j].worker
                           /\ socket'[j].ticket = socket[j].ticket
                           /\ socket'[j].since = socket[j].since /\ socket'[j].seen = socket[j].seen
                           /\ socket[j].todo \subseteq Sockets /\ socket[j].dead \subseteq Sockets
             /\ socket[j].pc # "idle" <=> socket'[j].pc # "idle"
  <2>1. CASE j = k
    BY <1>0, <1>3, <1>5, <2>1, LiveShape DEF Hears, Live, Talking
  <2>2. CASE j # k
    BY <1>0, <1>5, <2>2, LiveShape DEF Hears, Live, Talking
  <2>3. QED
    BY <2>1, <2>2
<1>10. ASSUME NEW j \in Sockets PROVE Registered(j)' /\ Told(j)' /\ Dropped(j)' /\ Listed(j)'
  <2>1. Registered(j)'
    BY <1>0, <1>1, <1>9 DEF Conversing, Registered, Hears
  <2>2. ASSUME Hears(j), NEW n \in Nat, Owed(j, n)' PROVE n \in socket'[j].seen \/ Pending(j, n)'
    <3>0. Live(j)
      BY <2>2 DEF Hears
    <3>1. CASE n = Len(messages) + 1
      <4>1. socket[j].ticket = socket[k].ticket /\ socket[j].worker = socket[k].worker
        BY <1>8, <1>9, <2>2, <3>0, <3>1 DEF Owed
      <4>2. j \in Desk!Peers(k)
        BY <1>0, <2>2, <4>1 DEF Conversing, Registered, Desk!Peers
      <4>3. QED
        BY <1>3, <1>5, <1>a, <3>1, <4>2 DEF Pending
    <3>2. CASE n # Len(messages) + 1
      <4>1. Owed(j, n)
        BY <1>8, <1>9, <2>2, <3>0, <3>2 DEF Owed
      <4>2. QED
        BY <1>0, <1>7, <1>9, <2>2, <3>0, <4>1 DEF Conversing, Told
    <3>3. QED
      BY <3>1, <3>2
  <2>3. Told(j)'
    BY <1>9, <2>2 DEF Told
  <2>4. Dropped(j)' /\ Listed(j)'
    <3>1. CASE j = k
      BY <1>2, <1>3, <1>5, <1>9, <1>a, <3>1 DEF Dropped, Listed
    <3>2. CASE j # k
      <4>1. socket'[j] = socket[j]
        BY <1>5, <3>2
      <4>2. Dropped(j)'
        BY <1>0, <1>9, <4>1 DEF Conversing, Dropped, Live
      <4>3. Listed(j)'
        BY <1>0, <1>9, <4>1 DEF Conversing, Listed
      <4>4. QED
        BY <4>2, <4>3
    <3>3. QED
      BY <3>1, <3>2
  <2>5. QED
    BY <2>1, <2>3, <2>4
<1>11. Met'
  BY <1>0, <1>1, <1>9 DEF Met, ChatTypes
<1>12. QED
  BY <1>6, <1>10, <1>11 DEF ChatInv, Conversing

\* A message is sent to one of those listed, who has it from then on or cannot be reached.
LEMMA SendChat ==
  ASSUME ChatInv, NEW k \in Sockets, NEW i \in Sockets, Desk!Send(k, i)
  PROVE  ChatInv'
<1> DEFINE n == socket[k].message
           up == socket[i].pc # "closed" /\ socket[i].alive
<1>0. /\ ChatTypes /\ Conversing /\ Met /\ socket[k].pc = "sending" /\ i \in socket[k].todo
      /\ socket[k] \in Talking /\ Live(k)
  <2>1. socket[k].pc = "sending" /\ i \in socket[k].todo /\ ChatTypes /\ Conversing /\ Met
    BY DEF ChatInv, Desk!Send
  <2>2. Live(k)
    BY <2>1 DEF Live
  <2>3. QED
    BY <2>1, <2>2, LiveShape
<1>1. UNCHANGED <<messages, connections, deskLeft>>
  BY DEF Desk!Send
<1>2. socket[i].pc # "idle" /\ (up => socket[i] \in Talking /\ Hears(i)) /\ (~up => ~Hears(i))
  <2>1. socket[i].pc # "idle"
    BY <1>0 DEF Conversing, Listed
  <2>2. up => socket[i] \in Talking
    BY <1>0, <2>1 DEF ChatTypes, Desk!Idle, Closed
  <2>3. QED
    BY <1>0, <2>1, <2>2 DEF Hears, Live, ChatTypes, Talking
<1>3. /\ \A j \in Sockets :
                         /\ socket'[j].pc = socket[j].pc /\ (Live(j)' <=> Live(j))
                         /\ Live(j) => /\ socket'[j] \in Talking
                                       /\ socket'[j].worker = socket[j].worker
                                       /\ socket'[j].ticket = socket[j].ticket
                                       /\ socket'[j].alive = socket[j].alive
                                       /\ socket'[j].since = socket[j].since
                                       /\ socket'[j].message = socket[j].message
                                       /\ socket[j].seen \subseteq socket'[j].seen
                                       /\ socket'[j].dead \subseteq socket[j].dead \cup {i}
                                       /\ socket'[j].todo \subseteq socket[j].todo
                                       /\ socket[j].todo \subseteq socket'[j].todo \cup {i}
                                       /\ j # k => socket'[j].todo = socket[j].todo /\ socket'[j].dead = socket[j].dead
                         /\ ~Live(j) => socket'[j] = socket[j]
      /\ up => n \in socket'[i].seen /\ socket'[k].dead = socket[k].dead
  <2>1. CASE up
    <3> DEFINE y == [socket[k] EXCEPT !.todo = @ \ {i}]
               mid == [socket EXCEPT ![k] = y]
    <3>1. socket' = [mid EXCEPT ![i] = [mid[i] EXCEPT !.seen = @ \cup {n}]]
      BY <1>0, <2>1 DEF Desk!Send, ChatTypes
    <3>2. /\ y \in Talking /\ y.pc = socket[k].pc /\ y.todo = socket[k].todo \ {i}
          /\ y.dead = socket[k].dead /\ y.seen = socket[k].seen /\ y.alive = socket[k].alive
          /\ y.worker = socket[k].worker /\ y.ticket = socket[k].ticket
          /\ y.since = socket[k].since /\ y.message = socket[k].message
      BY <1>0 DEF Talking
    <3> HIDE DEF y
    <3>3. /\ mid[k] = y /\ \A j \in Sockets \ {k} : mid[j] = socket[j]
          /\ DOMAIN mid = Sockets
      BY <1>0 DEF ChatTypes
    <3> HIDE DEF mid
    <3>4. mid[i] \in Talking /\ n \in Nat
      BY <1>0, <1>2, <2>1, <3>2, <3>3 DEF Talking
    <3> DEFINE z == [mid[i] EXCEPT !.seen = @ \cup {n}]
    <3>5. /\ z \in Talking /\ z.pc = mid[i].pc /\ z.todo = mid[i].todo
          /\ z.dead = mid[i].dead /\ mid[i].seen \subseteq z.seen /\ n \in z.seen /\ z.alive = mid[i].alive
          /\ z.worker = mid[i].worker /\ z.ticket = mid[i].ticket
          /\ z.since = mid[i].since /\ z.message = mid[i].message
      BY <3>4 DEF Talking
    <3>6. socket' = [mid EXCEPT ![i] = z]
      BY <3>1
    <3> HIDE DEF z, n
    <3>7. socket'[i] = z /\ \A j \in Sockets \ {i} : socket'[j] = mid[j]
      BY <3>3, <3>6
    <3>8. ASSUME NEW j \in Sockets, Live(j) PROVE socket[j] \in Talking
      BY <1>0, <3>8, LiveShape
    <3>9. Live(i)
      BY <1>2, <2>1 DEF Hears
    <3>10. QED
      BY <1>0, <3>2, <3>3, <3>5, <3>7, <3>8, <3>9 DEF Live
  <2>2. CASE ~up
    <3> DEFINE y == [socket[k] EXCEPT !.todo = @ \ {i}, !.dead = @ \cup {i}]
    <3>1. socket' = [socket EXCEPT ![k] = y]
      BY <1>0, <2>2 DEF Desk!Send, ChatTypes
    <3>2. /\ y \in Talking /\ y.pc = socket[k].pc /\ y.todo = socket[k].todo \ {i}
          /\ y.dead = socket[k].dead \cup {i} /\ y.seen = socket[k].seen
          /\ y.alive = socket[k].alive /\ y.worker = socket[k].worker
          /\ y.ticket = socket[k].ticket /\ y.since = socket[k].since
          /\ y.message = socket[k].message
      BY <1>0 DEF Talking
    <3> HIDE DEF y
    <3>3. socket'[k] = y /\ \A j \in Sockets \ {k} : socket'[j] = socket[j]
      BY <1>0, <3>1 DEF ChatTypes
    <3>4. ASSUME NEW j \in Sockets, Live(j) PROVE socket[j] \in Talking
      BY <1>0, <3>4, LiveShape
    <3>5. QED
      BY <1>0, <2>2, <3>2, <3>3, <3>4 DEF Live
  <2>3. QED
    BY <2>1, <2>2
<1>4. ASSUME NEW j \in Sockets, NEW m \in Nat, Pending(j, m)
      PROVE  Pending(j, m)' \/ (j = i /\ m = n)
  <2>1. PICK l \in Sockets : socket[l].pc = "sending" /\ socket[l].message = m /\ j \in socket[l].todo
    BY <1>4 DEF Pending
  <2>2. /\ Live(l) /\ socket'[l].pc = "sending" /\ socket'[l].message = m
        /\ j \in socket'[l].todo \/ (l = k /\ j = i)
    BY <1>3, <2>1 DEF Live
  <2>3. CASE j \in socket'[l].todo
    BY <2>2, <2>3 DEF Pending
  <2>4. CASE l = k /\ j = i
    BY <2>1, <2>4
  <2>5. QED
    BY <2>2, <2>3, <2>4
<1> HIDE DEF n, up
<1>5. \A j \in Sockets : Hears(j)' <=> Hears(j)
  BY <1>3 DEF Hears
<1>6. ASSUME NEW j \in Sockets PROVE Registered(j)' /\ Told(j)' /\ Dropped(j)' /\ Listed(j)'
  <2>1. Live(j) => socket[j].todo \subseteq Sockets /\ socket[j].dead \subseteq Sockets
    BY <1>0, LiveShape DEF Talking
  <2>2. Registered(j)'
    BY <1>0, <1>1, <1>3, <1>5 DEF Conversing, Registered, Hears
  <2>3. ASSUME Hears(j), NEW m \in Nat, Owed(j, m)' PROVE m \in socket'[j].seen \/ Pending(j, m)'
    <3>1. Live(j) /\ Owed(j, m)
      BY <1>1, <1>3, <2>3 DEF Hears, Owed
    <3>2. m \in socket[j].seen \/ Pending(j, m)
      BY <1>0, <2>3, <3>1 DEF Conversing, Told
    <3>3. m \in socket'[j].seen \/ Pending(j, m)' \/ (j = i /\ m = n)
      BY <1>3, <1>4, <3>1, <3>2
    <3>4. QED
      BY <1>2, <1>3, <2>3, <3>3
  <2>4. Told(j)'
    BY <1>5, <2>3 DEF Told
  <2>5. Dropped(j)'
    <3>1. SUFFICES ASSUME socket'[j].pc = "sending", NEW l \in socket'[j].dead PROVE ~Hears(l)'
      BY DEF Dropped
    <3>2. socket[j].pc = "sending" /\ Live(j)
      BY <1>3, <3>1 DEF Live
    <3>3. l \in socket[j].dead \/ (l = i /\ ~up)
      BY <1>3, <3>1, <3>2
    <3>4. QED
      BY <1>0, <1>2, <1>5, <2>1, <3>2, <3>3 DEF Conversing, Dropped
  <2>6. Listed(j)'
    <3>1. SUFFICES ASSUME Live(j), NEW l \in socket'[j].todo \cup socket'[j].dead
                   PROVE  socket'[l].pc # "idle"
      BY <1>3 DEF Listed
    <3>2. l \in socket[j].todo \cup socket[j].dead \/ l = i
      BY <1>3, <3>1
    <3>3. l \in Sockets /\ socket[l].pc # "idle"
      BY <1>0, <1>2, <2>1, <3>1, <3>2 DEF Conversing, Listed
    <3>4. QED
      BY <1>3, <3>3
  <2>7. QED
    BY <2>2, <2>4, <2>5, <2>6
<1>7. Met'
  BY <1>0, <1>1, <1>3 DEF Met, ChatTypes
<1>8. ChatTypes'
  <2>1. socket' \in [Sockets -> Talking \cup {Desk!Idle, Closed}]
    <3>1. DOMAIN socket' = Sockets /\ socket' = [j \in Sockets |-> socket'[j]]
      BY <1>0 DEF Desk!Send, ChatTypes
    <3>2. \A j \in Sockets : socket'[j] \in Talking \cup {Desk!Idle, Closed}
      BY <1>0, <1>3 DEF ChatTypes
    <3>3. QED
      BY <3>1, <3>2
  <2>2. QED
    BY <1>0, <1>1, <2>1 DEF ChatTypes, ServingTypes
<1>9. QED
  BY <1>6, <1>7, <1>8 DEF ChatInv, Conversing

LEMMA DisconnectChat ==
  ASSUME ChatInv, NEW k \in Sockets, Desk!Disconnect(k)
  PROVE  ChatInv'
<1>0. /\ ChatTypes /\ Conversing /\ Met /\ socket[k].pc \in {"registered", "open"}
      /\ socket[k] \in Talking /\ Live(k)
  <2>1. socket[k].pc \in {"registered", "open"} /\ ChatTypes /\ Conversing /\ Met
    BY DEF ChatInv, Desk!Disconnect
  <2>2. Live(k)
    BY <2>1 DEF Live
  <2>3. QED
    BY <2>1, <2>2, LiveShape
<1>1. /\ UNCHANGED <<messages, deskLeft>> /\ socket' = [socket EXCEPT ![k] = Closed]
      /\ connections' = [connections EXCEPT ![socket[k].worker] = @ \ {k}]
  BY DEF Desk!Disconnect, Desk!Leaving, Closed
<1>2. /\ socket'[k] = Closed /\ \A j \in Sockets \ {k} : socket'[j] = socket[j]
      /\ socket' \in [Sockets -> Talking \cup {Desk!Idle, Closed}]
  BY <1>0, <1>1 DEF ChatTypes
<1>3. /\ connections' \in [Processes -> SUBSET Sockets]
      /\ \A w \in Processes : /\ connections'[w] \subseteq connections[w]
                              /\ connections[w] \subseteq connections'[w] \cup {k}
  BY <1>0, <1>1 DEF ChatTypes, Talking
<1>4. ~Live(k)' /\ ~Hears(k)' /\ socket'[k].pc # "idle" /\ socket'[k].pc # "sending"
  BY <1>2 DEF Live, Hears, Closed
<1>5. \A j \in Sockets, n \in Nat : Pending(j, n) => Pending(j, n)'
  BY <1>0, <1>2 DEF Pending
<1>6. ASSUME NEW j \in Sockets PROVE Registered(j)' /\ Told(j)' /\ Dropped(j)' /\ Listed(j)'
  <2>1. CASE j = k
    BY <1>4, <2>1 DEF Registered, Told, Dropped, Listed
  <2>2. CASE j # k
    <3>1. socket'[j] = socket[j] /\ (Hears(j)' <=> Hears(j)) /\ (Live(j)' <=> Live(j))
      BY <1>2, <2>2 DEF Hears, Live
    <3>2. Live(j) => /\ socket[j].worker \in Processes
                     /\ socket[j].todo \subseteq Sockets /\ socket[j].dead \subseteq Sockets
      BY <1>0, LiveShape DEF Talking
    <3>3. Registered(j)'
      BY <1>0, <1>3, <2>2, <3>1, <3>2 DEF Conversing, Registered, Hears
    <3>4. Told(j)'
      <4>1. \A n \in Nat : Owed(j, n)' => Owed(j, n)
        BY <1>1, <3>1 DEF Owed
      <4>2. QED
        BY <1>0, <1>5, <3>1, <4>1 DEF Conversing, Told
    <3>5. Listed(j)'
      BY <1>0, <1>2, <1>4, <3>1, <3>2 DEF Conversing, Listed
    <3>6. Dropped(j)'
      <4>1. \A l \in Sockets : Hears(l)' => Hears(l)
        BY <1>2, <1>4 DEF Hears, Live
      <4>2. QED
        BY <1>0, <3>1, <3>2, <4>1 DEF Conversing, Dropped, Live
    <3>7. QED
      BY <3>3, <3>4, <3>5, <3>6
  <2>3. QED
    BY <2>1, <2>2
<1>7. Met'
  BY <1>0, <1>2, <1>3, <1>4 DEF Met, ChatTypes
<1>8. QED
  BY <1>0, <1>1, <1>2, <1>3, <1>6, <1>7 DEF ChatInv, ChatTypes, Conversing, ServingTypes

\* The history is sent; a broadcast ends; a peer is lost.
LEMMA GoOnChat ==
  ASSUME ChatInv, NEW k \in Sockets, Desk!Welcome(k) \/ Desk!Sent(k) \/ Desk!PeerLost(k)
  PROVE  ChatInv'
<1>0. ChatTypes /\ Conversing /\ Live(k) /\ socket[k] \in Talking
  <2>1. Live(k)
    BY DEF Desk!Welcome, Desk!Sent, Desk!PeerLost, Live, ChatInv, ChatTypes, Talking, Desk!Idle, Closed
  <2>2. QED
    BY <2>1, LiveShape DEF ChatInv
<1>1. CASE Desk!Welcome(k)
  <2>1. PICK seen \in SUBSET Nat : seen = Desk!InitEvent(k)
    <3>1. DOMAIN messages \subseteq Nat
      BY <1>0 DEF ChatTypes
    <3>2. Desk!InitEvent(k) \subseteq DOMAIN messages
      BY DEF Desk!InitEvent, Desk!Recent, Desk!Numbers
    <3>3. QED
      BY <3>1, <3>2
  <2> DEFINE x == [socket[k] EXCEPT !.pc = "open", !.seen = @ \cup seen]
  <2>2. socket[k].pc = "registered" /\ UNCHANGED <<messages, connections, deskLeft>>
        /\ socket' = [socket EXCEPT ![k] = x]
    BY <1>0, <1>1, <2>1 DEF Desk!Welcome, ChatTypes
  <2>3. /\ x \in Talking /\ x.pc = "open" /\ x.worker = socket[k].worker
        /\ x.ticket = socket[k].ticket /\ x.since = socket[k].since /\ x.alive = socket[k].alive
        /\ socket[k].seen \subseteq x.seen /\ x.dead = socket[k].dead /\ x.todo = socket[k].todo
    BY <1>0 DEF Talking
  <2> HIDE DEF x
  <2>4. QED
    BY <1>0, <2>2, <2>3, ChatMoves DEF ChatTypes, ServingTypes
<1>2. CASE Desk!Sent(k)
  <2> DEFINE x == [socket[k] EXCEPT !.pc = "open", !.message = 0, !.dead = {}]
  <2>1. /\ socket[k].pc = "sending" /\ socket[k].todo = {} /\ UNCHANGED <<messages, deskLeft>>
        /\ socket' = [socket EXCEPT ![k] = x]
        /\ connections' = [connections EXCEPT ![socket[k].worker] = @ \ socket[k].dead]
    BY <1>0, <1>2 DEF Desk!Sent, ChatTypes
  <2>2. /\ x \in Talking /\ x.pc = "open" /\ x.worker = socket[k].worker
        /\ x.ticket = socket[k].ticket /\ x.since = socket[k].since /\ x.alive = socket[k].alive
        /\ x.seen = socket[k].seen /\ x.dead = {} /\ x.todo = socket[k].todo
    BY <1>0 DEF Talking
  <2> HIDE DEF x
  <2>3. /\ connections' \in [Processes -> SUBSET Sockets]
        /\ \A w \in Processes : connections'[w] \subseteq connections[w]
        /\ \A w \in Processes : connections[w] \subseteq connections'[w] \cup socket[k].dead
    BY <1>0, <2>1 DEF ChatTypes, Talking
  <2>4. ASSUME NEW j \in Sockets, Hears(j), j \in connections[socket[j].worker]
        PROVE  j \in connections'[socket[j].worker]
    <3>1. j \notin socket[k].dead
      BY <1>0, <2>1, <2>4 DEF Conversing, Dropped
    <3>2. socket[j].worker \in Processes
      BY <1>0, <2>4, LiveShape DEF Hears, Talking
    <3>3. QED
      BY <2>3, <2>4, <3>1, <3>2
  <2>5. QED
    BY <1>0, <2>1, <2>2, <2>3, <2>4, ChatMoves DEF ChatTypes, ServingTypes
<1>3. CASE Desk!PeerLost(k)
  <2> DEFINE x == [socket[k] EXCEPT !.alive = FALSE]
  <2>1. /\ UNCHANGED <<messages, connections>> /\ Desk!Spend("lost")
        /\ socket' = [socket EXCEPT ![k] = x]
    BY <1>3 DEF Desk!PeerLost
  <2>2. /\ x \in Talking /\ x.pc = socket[k].pc /\ x.worker = socket[k].worker
        /\ x.ticket = socket[k].ticket /\ x.since = socket[k].since /\ x.alive = FALSE
        /\ x.seen = socket[k].seen /\ x.dead = socket[k].dead /\ x.todo = socket[k].todo
        /\ x.message = socket[k].message
    BY <1>0 DEF Talking
  <2>3. ServingTypes'
    BY <1>0, <2>1, SpendServing DEF ChatTypes
  <2> HIDE DEF x
  <2>4. QED
    BY <1>0, <2>1, <2>2, <2>3, ChatMoves DEF ChatTypes
<1>4. QED
  BY <1>1, <1>2, <1>3

\* Two messages at the end of a sequence.
LEMMA AddedTwo ==
  ASSUME NEW s \in Seq(Message), NEW m \in Message, NEW all, all = s \o [n \in 1..2 |-> m]
  PROVE  all \in Seq(Message) /\ \A n \in DOMAIN all : (n \in DOMAIN s /\ all[n] = s[n]) \/ all[n] = m
<1> DEFINE two == [n \in 1..2 |-> m]
<1>1. two \in Seq(Message) /\ Len(two) = 2 /\ two[1] = m /\ two[2] = m /\ all = s \o two
  OBVIOUS
<1> HIDE DEF two
<1>2. /\ all \in Seq(Message) /\ Len(all) = Len(s) + Len(two)
      /\ \A n \in 1..(Len(s) + Len(two)) :
            all[n] = IF n <= Len(s) THEN s[n] ELSE two[n - Len(s)]
  <2>1. /\ s \o two \in Seq(Message) /\ Len(s \o two) = Len(s) + Len(two)
        /\ \A n \in 1..(Len(s) + Len(two)) :
              (s \o two)[n] = IF n <= Len(s) THEN s[n] ELSE two[n - Len(s)]
    BY <1>1, ConcatProperties, Zenon
  <2>2. QED
    BY <1>1, <2>1, Zenon
<1>3. /\ Len(all) = Len(s) + 2 /\ Len(s) \in Nat
      /\ \A n \in 1..(Len(s) + 2) : all[n] = IF n <= Len(s) THEN s[n] ELSE two[n - Len(s)]
  BY <1>1, <1>2
<1>4. DOMAIN s = 1..Len(s) /\ DOMAIN all = 1..(Len(s) + 2)
  BY <1>2, <1>3
<1>5. ASSUME NEW n \in 1..(Len(s) + 2), n > Len(s) PROVE n - Len(s) = 1 \/ n - Len(s) = 2
  BY <1>3, <1>5
<1>6. QED
  BY <1>1, <1>2, <1>3, <1>4, <1>5

\* What the REST routes add to the messages.
LEMMA SaidRest ==
  ASSUME ChatInv, UNCHANGED <<socket, connections>>, ServingTypes', NEW t \in Tickets,
         \/ messages' = messages
         \/ Desk!Said(t, "rest")
         \/ messages' = messages \o [n \in 1..2 |-> [ticket |-> t, by |-> "rest"]]
  PROVE  ChatInv'
<1>0. messages \in Seq(Message)
  BY DEF ChatInv, ChatTypes
<1>1. PICK m \in Message : m = [ticket |-> t, by |-> "rest"] /\ m.by = "rest"
  BY DEF Message
<1>2. CASE messages' = messages
  BY <1>0, <1>2, ChatRest
<1>3. CASE Desk!Said(t, "rest")
  <2>1. messages' = Append(messages, m)
    BY <1>1, <1>3 DEF Desk!Said
  <2>2. messages' \in Seq(Message)
    BY <1>0, <2>1
  <2>3. \A n \in DOMAIN messages' : (n \in DOMAIN messages /\ messages'[n] = messages[n]) \/ messages'[n] = m
    BY <1>0, <2>1
  <2>4. QED
    BY <1>1, <2>2, <2>3, ChatRest
<1>4. CASE messages' = messages \o [n \in 1..2 |-> [ticket |-> t, by |-> "rest"]]
  <2>1. messages' = messages \o [n \in 1..2 |-> m]
    BY <1>1, <1>4, Zenon
  <2>2. /\ messages' \in Seq(Message)
        /\ \A n \in DOMAIN messages' : (n \in DOMAIN messages /\ messages'[n] = messages[n]) \/ messages'[n] = m
    BY <1>0, <1>1, <2>1, AddedTwo
  <2>3. QED
    BY <1>1, <2>2, ChatRest
<1>5. QED
  BY <1>2, <1>3, <1>4

LEMMA ChatNext ==
  ASSUME ChatInv, TicketsKept, Desk!DeskNext
  PROVE  ChatInv'
<1>0. ServingTypes
  BY DEF ChatInv, ChatTypes
<1>1. ASSUME NEW t \in Tickets, \/ Desk!Create(t) \/ Desk!Generate(t) \/ Desk!SaveAnswer(t)
                                \/ Desk!AiHandled(t) \/ Desk!CreationFails(t)
      PROVE  ChatInv'
  <2>1. UNCHANGED <<socket, connections>>
    BY <1>1 DEF Desk!Create, Desk!Generate, Desk!SaveAnswer, Desk!AiHandled, Desk!CreationFails
  <2>2. ServingTypes'
    BY <1>0, <1>1, SpendServing DEF Desk!Create, Desk!Generate, Desk!SaveAnswer, Desk!AiHandled,
       Desk!CreationFails, ServingTypes
  <2>3. \/ messages' = messages
        \/ Desk!Said(t, "rest")
        \/ messages' = messages \o [n \in 1..2 |-> [ticket |-> t, by |-> "rest"]]
    BY <1>1 DEF Desk!Create, Desk!Generate, Desk!SaveAnswer, Desk!AiHandled, Desk!CreationFails
  <2>4. QED
    BY <2>1, <2>2, <2>3, SaidRest
<1>2. ASSUME UNCHANGED <<socket, connections, messages>>, ServingTypes' PROVE ChatInv'
  <2>1. messages \in Seq(Message)
    BY DEF ChatInv, ChatTypes
  <2>2. QED
    BY <1>2, <2>1, ChatRest
<1>3. ASSUME NEW q \in DeskRequests, NEW op, NEW t, NEW who, Desk!ReadTicket(q, op, t, who)
      PROVE  ChatInv'
  BY <1>0, <1>2, <1>3, SpendServing DEF Desk!ReadTicket
<1>4. ASSUME NEW q \in DeskRequests, Desk!WriteStatus(q) \/ Desk!RequestFails(q) PROVE ChatInv'
  BY <1>0, <1>2, <1>4, SpendServing DEF Desk!WriteStatus, Desk!RequestFails, ServingTypes
<1>5. ASSUME NEW q \in DeskRequests, Desk!WriteMessage(q) PROVE ChatInv'
  <2>1. request[q].ticket \in Tickets /\ Desk!Said(request[q].ticket, "rest")
    BY <1>5 DEF Desk!WriteMessage, TicketsKept, TicketShapes, RequestTypes, Asked, Desk!Idle
  <2>2. UNCHANGED <<socket, connections, deskLeft>>
    BY <1>5 DEF Desk!WriteMessage
  <2>3. QED
    BY <1>0, <2>1, <2>2, SaidRest DEF ServingTypes
<1>6. ASSUME Desk!HostingChanges \/ \E entry \in cache : Desk!CacheExpires(entry) PROVE ChatInv'
  BY <1>0, <1>2, <1>6, SpendServing DEF Desk!HostingChanges, Desk!CacheExpires, ServingTypes
<1>7. CASE Desk!Desk
  BY <1>1, <1>3, <1>4, <1>5, <1>6, <1>7, Zenon DEF Desk!Desk
<1>8. CASE Desk!Chat
  BY <1>8, GoOnChat, ReceiveChat, SendChat, ConnectChat, DisconnectChat DEF Desk!Chat
<1>9. QED
  BY <1>7, <1>8 DEF Desk!DeskNext

LEMMA ChatHears == ChatInv => ChatMissesNone
<1> SUFFICES ASSUME ChatInv, NEW k \in Sockets, socket[k].pc \in {"open", "sending"}, socket[k].alive,
                    NEW n \in Desk!Numbers(socket[k].ticket), n > socket[k].since,
                    messages[n].by = socket[k].worker
             PROVE  n \in socket[k].seen \/ Pending(k, n)
  BY DEF ChatMissesNone, Desk!MissesNone, Pending
<1>1. n \in Nat /\ Owed(k, n)
  BY DEF Desk!Numbers, Owed, ChatInv, ChatTypes
<1>2. QED
  BY <1>1 DEF ChatInv, Conversing, Told, Hears, Live

LEMMA ChatInit == PanelInit => ChatInv
<1> SUFFICES ASSUME PanelInit PROVE ChatInv
  OBVIOUS
<1>1. /\ messages = << >> /\ connections = [w \in Processes |-> {}] /\ deskLeft \in DeskBudgets
      /\ socket = [k \in Sockets |-> Desk!Idle]
  BY DEF PanelInit, Desk!DeskInit
<1>2. ChatTypes
  BY <1>1, PanelAssumption DEF ChatTypes, ServingTypes
<1>3. Conversing /\ Met
  BY <1>1 DEF Conversing, Met, Registered, Told, Dropped, Listed, Hears, Live, Desk!Idle
<1>4. QED
  BY <1>2, <1>3 DEF ChatInv

LEMMA ChatStays ==
  ASSUME ChatInv, UNCHANGED <<socket, connections, messages, deskLeft>>
  PROVE  ChatInv'
  BY ChatRest DEF ChatInv, ChatTypes, ServingTypes

\* Who is connected to a conversation misses no message that another one connected to the same
\* process has sent, whoever connects, leaves or is lost while it is sent.
THEOREM PanelChatMissesNone == PanelSpec => []ChatMissesNone
<1>1. ASSUME ChatInv, TicketsKept, [PanelNext]_panelVars PROVE ChatInv' /\ TicketsKept'
  <2>1. CASE DeskStep
    BY <1>1, <2>1, ChatNext, TicketKeptNext DEF DeskStep
  <2>2. CASE OpsStep \/ FixStep \/ UNCHANGED panelVars
    <3>1. UNCHANGED <<ticket, creating, request, holder, overlapped, socket, connections,
                      messages, deskLeft>>
      BY <2>2 DEF OpsStep, FixStep, panelVars, deskVars
    <3>2. QED
      BY <1>1, <3>1, TicketsRest, ChatStays
  <2>3. QED
    BY <1>1, <2>1, <2>2 DEF PanelNext
<1>2. QED
  BY <1>1, ChatInit, TicketsInit, ChatHears, PTL DEF PanelSpec

-----------------------------------------------------------------------------
\* Type correctness of the panel.

\* What the answers to tickets are about.
Seen == {"active", "stopped", Desk!Nobody}
CacheTypes ==
    /\ hosting \in {"active", "stopped"} /\ cache \subseteq Seen
    /\ \A t \in Tickets : creating[t].pc # "idle" => creating[t].seen \in Seen

LEMMA CacheRest ==
  ASSUME CacheTypes, UNCHANGED <<hosting, cache, creating>>
  PROVE  CacheTypes'
  BY DEF CacheTypes

LEMMA CreationSeen ==
  ASSUME TicketsKept, CacheTypes, NEW t \in Tickets,
         \/ Desk!Create(t) \/ Desk!Generate(t) \/ Desk!SaveAnswer(t) \/ Desk!AiHandled(t)
         \/ Desk!CreationFails(t)
  PROVE  CacheTypes'
<1>0. CreationTypes /\ hosting' = hosting
  BY DEF TicketsKept, TicketShapes, Desk!Create, Desk!Generate, Desk!SaveAnswer, Desk!AiHandled,
     Desk!CreationFails
<1>1. cache' \subseteq Seen
  <2>1. CASE Desk!Generate(t)
    BY <2>1 DEF Desk!Generate, CacheTypes
  <2>2. CASE ~Desk!Generate(t)
    BY <2>2 DEF Desk!Create, Desk!SaveAnswer, Desk!AiHandled, Desk!CreationFails, CacheTypes
  <2>3. QED
    BY <2>1, <2>2
<1>2. PICK c : creating' = [creating EXCEPT ![t] = c] /\ (c.pc # "idle" => c.seen \in Seen)
  <2>1. ASSUME creating[t].pc # "idle", NEW pc \in {"answered", "saved"}
        PROVE  [creating[t] EXCEPT !.pc = pc].seen \in Seen
    <3>1. creating[t] \in [pc : {"asking", "answered", "saved"}, seen : {creating[t].seen}]
      BY <1>0, <2>1 DEF CreationTypes, IsCreation, Desk!Idle
    <3>2. [creating[t] EXCEPT !.pc = pc].seen = creating[t].seen
      BY <3>1
    <3>3. QED
      BY <2>1, <3>2 DEF CacheTypes
  <2>2. CASE Desk!Create(t)
    <3>1. PICK seen \in {hosting, Desk!Nobody} :
            creating' = [creating EXCEPT ![t] = [pc |-> "asking", seen |-> seen]]
      BY <2>2 DEF Desk!Create
    <3>2. [pc |-> "asking", seen |-> seen].seen \in Seen
      BY <3>1 DEF CacheTypes, Seen
    <3>3. QED
      BY <3>1, <3>2
  <2>3. CASE Desk!Generate(t) \/ Desk!SaveAnswer(t)
    <3>1. PICK pc \in {"answered", "saved"} :
            creating[t].pc # "idle" /\ creating' = [creating EXCEPT ![t] = [creating[t] EXCEPT !.pc = pc]]
      BY <2>3 DEF Desk!Generate, Desk!SaveAnswer
    <3>2. QED
      BY <2>1, <3>1
  <2>4. CASE Desk!AiHandled(t) \/ Desk!CreationFails(t)
    <3>1. creating' = [creating EXCEPT ![t] = Desk!Idle]
      BY <2>4 DEF Desk!AiHandled, Desk!CreationFails
    <3>2. Desk!Idle.pc = "idle"
      BY DEF Desk!Idle
    <3>3. QED
      BY <3>1, <3>2
  <2>5. QED
    BY <2>2, <2>3, <2>4
<1>3. \A u \in Tickets : creating'[u] = IF u = t THEN c ELSE creating[u]
  BY <1>0, <1>2 DEF CreationTypes
<1>4. QED
  BY <1>0, <1>1, <1>2, <1>3 DEF CacheTypes

LEMMA CacheNext ==
  ASSUME TicketsKept, CacheTypes, Desk!DeskNext
  PROVE  CacheTypes'
<1>1. ASSUME NEW q, \/ \E op, t, who : Desk!ReadTicket(q, op, t, who)
                    \/ Desk!WriteMessage(q) \/ Desk!WriteStatus(q) \/ Desk!RequestFails(q)
      PROVE  CacheTypes'
  BY <1>1, CacheRest DEF Desk!ReadTicket, Desk!WriteMessage, Desk!WriteStatus, Desk!RequestFails
<1>2. ASSUME Desk!HostingChanges \/ \E entry \in cache : Desk!CacheExpires(entry) PROVE CacheTypes'
  BY <1>2 DEF Desk!HostingChanges, Desk!CacheExpires, CacheTypes
<1>3. CASE Desk!Desk
  BY <1>1, <1>2, <1>3, CreationSeen, Zenon DEF Desk!Desk
<1>4. CASE Desk!Chat
  <2>1. UNCHANGED <<hosting, cache, creating>>
    BY <1>4 DEF Desk!Chat, Desk!Welcome, Desk!Receive, Desk!Sent, Desk!PeerLost, Desk!Disconnect,
       Desk!Send, Desk!Connect
  <2>2. QED
    BY <2>1, CacheRest
<1>5. QED
  BY <1>3, <1>4 DEF Desk!DeskNext

PanelTypes == TypeOK /\ FixShapes /\ TicketsKept /\ ChatInv /\ CacheTypes

\* The state of the locks, the fixes, the tickets and the conversations keeps its type.
THEOREM PanelTypeCorrect == PanelSpec => []PanelTypeOK
<1>1. PanelInit => PanelTypes
  <2> SUFFICES ASSUME PanelInit PROVE PanelTypes
    OBVIOUS
  <2>1. CacheTypes
    BY DEF PanelInit, Desk!DeskInit, CacheTypes, Seen, Desk!Idle
  <2>2. QED
    BY <2>1, TypeInit, FixInitial, TicketsInit, ChatInit DEF PanelInit, PanelTypes
<1>2. ASSUME PanelTypes, [PanelNext]_panelVars PROVE PanelTypes'
  <2>1. TypeOK'
    <3>1. CASE [Next]_vars
      BY <1>2, <3>1, TypeNext DEF PanelTypes
    <3>2. CASE UNCHANGED lockVars /\ redisUp' \in {redisUp, ~redisUp}
      BY <1>2, <3>2 DEF PanelTypes, TypeOK, lockVars
    <3>3. CASE UNCHANGED panelVars
      BY <1>2, <3>3 DEF panelVars, PanelTypes, TypeOK
    <3>4. QED
      BY <1>2, <3>1, <3>2, <3>3, PanelOps
  <2>2. FixShapes'
    <3>1. CASE FixStep
      BY <1>2, <3>1, FixShapesNext DEF PanelTypes, FixStep
    <3>2. CASE OpsStep \/ DeskStep \/ UNCHANGED panelVars
      <4>1. UNCHANGED fixVars /\ redisUp' \in BOOLEAN
        BY <2>1, <3>2 DEF OpsStep, DeskStep, panelVars, fixVars, TypeOK
      <4>2. QED
        BY <1>2, <4>1 DEF PanelTypes, FixShapes, fixVars, StoreTypes, DiagnosisTypes, FixTypes,
           WorldTypes, LeftTypes
    <3>3. QED
      BY <1>2, <3>1, <3>2 DEF PanelNext
  <2>3. TicketsKept' /\ ChatInv' /\ CacheTypes'
    <3>1. CASE DeskStep
      BY <1>2, <3>1, TicketKeptNext, ChatNext, CacheNext DEF PanelTypes, DeskStep
    <3>2. CASE OpsStep \/ FixStep \/ UNCHANGED panelVars
      <4>1. UNCHANGED <<ticket, creating, request, holder, overlapped, socket, connections,
                        messages, deskLeft, hosting, cache>>
        BY <3>2 DEF OpsStep, FixStep, panelVars, deskVars
      <4>2. QED
        BY <1>2, <4>1, TicketsRest, CacheRest, ChatStays DEF PanelTypes
    <3>3. QED
      BY <1>2, <3>1, <3>2 DEF PanelNext
  <2>4. QED
    BY <2>1, <2>2, <2>3 DEF PanelTypes
<1>3. PanelTypes => PanelTypeOK
  <2> SUFFICES ASSUME PanelTypes PROVE PanelTypeOK
    OBVIOUS
  <2>1. TypeOK /\ WorldTypes /\ StoreTypes /\ DiagnosisTypes /\ FixTypes /\ TicketTypes /\ ChatTypes
        /\ CacheTypes
    BY DEF PanelTypes, FixShapes, TicketsKept, TicketShapes, ChatInv
  <2>2. Fix!FixTypeOK
    BY <2>1 DEF Fix!FixTypeOK, WorldTypes, StoreTypes, DiagnosisTypes, FixTypes, States, IsProposal
  <2>3. Desk!DeskTypeOK
    BY <2>1 DEF Desk!DeskTypeOK, TicketTypes, Statuses, Someone, ChatTypes, CacheTypes, Seen
  <2>4. QED
    BY <2>1, <2>2, <2>3 DEF PanelTypeOK
<1>4. QED
  BY <1>1, <1>2, <1>3, PTL DEF PanelSpec

=============================================================================
