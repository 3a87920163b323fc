---------------------------- MODULE ContainerOps ----------------------------
(***************************************************************************)
(* The client's restart, stop and start of a container                     *)
(* (app/api/routes/hosting.py), serialised per container by a Redis lock   *)
(* (app/infra/container_locks.py) and limited in number by a Redis counter *)
(* (app/api/saturation_guard.py), from several web worker processes.       *)
(*                                                                         *)
(* Time is counted in ticks: an operation keeps the lock for at most       *)
(* HoldLimit ticks (the timeouts of its docker commands and of             *)
(* _verify_container_state), the key of the lock lives Ttl ticks.          *)
(***************************************************************************)
EXTENDS Naturals, FiniteSets

CONSTANTS
    Requests,       \* API requests; each may be sent again after its answer
    Processes,      \* web workers
    Containers,     \* container names
    Process,        \* the worker that serves a request
    Target,         \* the container a request is about
    Kinds,          \* the operations clients ask for, of {"restart", "stop", "start"}
    Ttl,            \* _LOCK_TTL
    HoldLimit,      \* longest time each kind of operation keeps the lock
    MaxInflight,    \* MAX_DOCKER_OPS_INFLIGHT
    MaxOutages,     \* bound: times Redis becomes unreachable
    MaxCrashes      \* bound: times a worker process is restarted

Nobody == "nobody"

ASSUME OpsAssumption ==
    /\ IsFiniteSet(Requests) /\ Nobody \notin Requests
    /\ Process \in [Requests -> Processes]
    /\ Target \in [Requests -> Containers]
    /\ Kinds \subseteq {"restart", "stop", "start"}
    /\ Ttl \in Nat \ {0}
    /\ HoldLimit \in [{"restart", "stop", "start"} -> Nat]
    /\ MaxInflight \in Nat \ {0}
    /\ MaxOutages \in Nat
    /\ MaxCrashes \in Nat

VARIABLES
    redisUp,        \* Redis answers
    client,         \* infra.redis_client._redis of a process is not None
    key,            \* lock:container:<name> in Redis: the request that set it and its TTL
    inflight,       \* system:docker_ops_inflight in Redis
    localLock,      \* _local_locks of each process
    localInflight,  \* _local_inflight of each process
    req,            \* the progress of each request
    outages, crashes

vars == <<redisUp, client, key, inflight, localLock, localInflight, req, outages, crashes>>

Key == [by: Requests \cup {Nobody}, ttl: 0..Ttl]
FreeKey == [by |-> Nobody, ttl |-> 0]

Req == [pc: {"idle", "admitted", "unlocked", "held", "running", "leaving"},
        kind: {"restart", "stop", "start"},
        lock: {"redis", "local"},
        elapsed: Nat,       \* ticks since the lock was taken
        late: BOOLEAN]      \* history: it took the key after one that had outlived it (TookLate)

IdleReq == [pc |-> "idle", kind |-> "stop", lock |-> "redis", elapsed |-> 0, late |-> FALSE]

-----------------------------------------------------------------------------
\* get_redis tries to connect again while the client is None, and keeps a client that
\* no longer answers.
HasRedis(p) == client[p] \/ redisUp
GetRedis(p) == client' = [client EXCEPT ![p] = HasRedis(p)]
Answers(p) == HasRedis(p) /\ redisUp

\* _get_inflight
Inflight(p) == IF Answers(p) THEN inflight ELSE localInflight[p]

\* Holding the lock, whichever it is.
InLock(r) == req[r].pc \in {"held", "running", "leaving"}

Capacity(r) == Inflight(Process[r]) < MaxInflight

\* docker_capacity, a dependency of the route: refused with 503 at the limit.
Admit(r) ==
    /\ req[r].pc = "idle"
    /\ Capacity(r)
    /\ GetRedis(Process[r])
    /\ \E k \in Kinds : req' = [req EXCEPT ![r] = [IdleReq EXCEPT !.pc = "admitted", !.kind = k]]
    /\ UNCHANGED <<redisUp, key, inflight, localLock, localInflight, outages, crashes>>

\* container_lock, then locked(): an unreachable Redis reads as unlocked.
CheckRedis(r) ==
    /\ req[r].pc = "admitted" /\ HasRedis(Process[r])
    /\ GetRedis(Process[r])
    /\ req' = [req EXCEPT ![r] = IF redisUp /\ key[Target[r]].by # Nobody THEN IdleReq
                                 ELSE [@ EXCEPT !.pc = "unlocked"]]
    /\ UNCHANGED <<redisUp, key, inflight, localLock, localInflight, outages, crashes>>

LocallyLocked(p, c) == localLock[p][c] # Nobody

\* Without a client: the asyncio.Lock of the process, acquired without a switch.
CheckLocal(r) ==
    LET p == Process[r] c == Target[r] IN
    /\ req[r].pc = "admitted" /\ ~HasRedis(p)
    /\ IF LocallyLocked(p, c)
       THEN req' = [req EXCEPT ![r] = IdleReq] /\ UNCHANGED localLock
       ELSE /\ localLock' = [localLock EXCEPT ![p][c] = r]
            /\ req' = [req EXCEPT ![r].pc = "held", ![r].lock = "local"]
    /\ UNCHANGED <<redisUp, client, key, inflight, localInflight, outages, crashes>>

\* (mutant) nx=True forgotten
SetKeyAlways(c) == TRUE

SetKey(c) == key[c].by = Nobody

\* History: an operation that outlived its key, or one that took the key while such an
\* operation went on, is still at the container.
TookLate(c) ==
    \E s \in Requests : /\ Target[s] = c /\ InLock(s) /\ req[s].lock = "redis"
                        /\ req[s].late \/ req[s].elapsed >= Ttl

\* __aenter__: SET NX EX; an exception answers 500, a key already set 409.
Acquire(r) ==
    LET c == Target[r] IN
    /\ req[r].pc = "unlocked"
    /\ IF redisUp /\ SetKey(c)
       THEN /\ key' = [key EXCEPT ![c] = [by |-> r, ttl |-> Ttl]]
            /\ req' = [req EXCEPT ![r].pc = "held", ![r].late = TookLate(c)]
       ELSE /\ UNCHANGED key
            /\ req' = [req EXCEPT ![r] = IdleReq]
    /\ UNCHANGED <<redisUp, client, inflight, localLock, localInflight, outages, crashes>>

\* docker_op begins: _incr_inflight
Enter(r) ==
    LET p == Process[r] IN
    /\ req[r].pc = "held"
    /\ GetRedis(p)
    /\ IF Answers(p) THEN inflight' = inflight + 1 /\ UNCHANGED localInflight
       ELSE localInflight' = [localInflight EXCEPT ![p] = @ + 1] /\ UNCHANGED inflight
    /\ req' = [req EXCEPT ![r].pc = "running"]
    /\ UNCHANGED <<redisUp, key, localLock, outages, crashes>>

\* DECR, then SET 0 when it went below
Decr(n) == IF n = 0 THEN 0 ELSE n - 1

\* docker_op ends: _decr_inflight does nothing when the client raises.
Leave(r) ==
    LET p == Process[r] IN
    /\ req[r].pc = "running"
    /\ GetRedis(p)
    /\ IF HasRedis(p)
       THEN inflight' = (IF redisUp THEN Decr(inflight) ELSE inflight) /\ UNCHANGED localInflight
       ELSE localInflight' = [localInflight EXCEPT ![p] = Decr(@)] /\ UNCHANGED inflight
    /\ req' = [req EXCEPT ![r].pc = "leaving"]
    /\ UNCHANGED <<redisUp, key, localLock, outages, crashes>>

\* DEL: whoever set the key
DeleteKey(c) == FreeKey

\* __aexit__; a failing delete is logged.
Release(r) ==
    LET c == Target[r] IN
    /\ req[r].pc = "leaving"
    /\ IF req[r].lock = "redis"
       THEN key' = [key EXCEPT ![c] = IF redisUp THEN DeleteKey(c) ELSE @] /\ UNCHANGED localLock
       ELSE localLock' = [localLock EXCEPT ![Process[r]][c] = Nobody] /\ UNCHANGED key
    /\ req' = [req EXCEPT ![r] = IdleReq]
    /\ UNCHANGED <<redisUp, client, inflight, localInflight, outages, crashes>>

-----------------------------------------------------------------------------
AgeKey(k) == IF k.ttl <= 1 THEN FreeKey ELSE [k EXCEPT !.ttl = @ - 1]

\* A tick: no operation outlives its timeouts.
Tick ==
    /\ \A r \in Requests : InLock(r) => req[r].elapsed < HoldLimit[req[r].kind]
    /\ \/ \E r \in Requests : InLock(r)
       \/ \E c \in Containers : key[c].by # Nobody
    /\ key' = [c \in Containers |-> AgeKey(key[c])]
    /\ req' = [r \in Requests |-> IF InLock(r) THEN [req[r] EXCEPT !.elapsed = @ + 1] ELSE req[r]]
    /\ UNCHANGED <<redisUp, client, inflight, localLock, localInflight, outages, crashes>>

RedisDown ==
    /\ redisUp /\ outages < MaxOutages
    /\ redisUp' = FALSE
    /\ outages' = outages + 1
    /\ UNCHANGED <<client, key, inflight, localLock, localInflight, req, crashes>>

RedisBack ==
    /\ ~redisUp
    /\ redisUp' = TRUE
    /\ UNCHANGED <<client, key, inflight, localLock, localInflight, req, outages, crashes>>

\* A worker process dies and is restarted; _build_client runs at import.
Crash(p) ==
    /\ crashes < MaxCrashes
    /\ crashes' = crashes + 1
    /\ req' = [r \in Requests |-> IF Process[r] = p THEN IdleReq ELSE req[r]]
    /\ client' = [client EXCEPT ![p] = redisUp]
    /\ localLock' = [localLock EXCEPT ![p] = [c \in Containers |-> Nobody]]
    /\ localInflight' = [localInflight EXCEPT ![p] = 0]
    /\ UNCHANGED <<redisUp, key, inflight, outages>>

-----------------------------------------------------------------------------
Init ==
    /\ redisUp = TRUE
    /\ client = [p \in Processes |-> TRUE]
    /\ key = [c \in Containers |-> FreeKey]
    /\ inflight = 0
    /\ localLock = [p \in Processes |-> [c \in Containers |-> Nobody]]
    /\ localInflight = [p \in Processes |-> 0]
    /\ req = [r \in Requests |-> IdleReq]
    /\ outages = 0
    /\ crashes = 0

Serve(r) ==
    CheckRedis(r) \/ CheckLocal(r) \/ Acquire(r) \/ Enter(r) \/ Leave(r) \/ Release(r)

Next ==
    \/ \E r \in Requests : Admit(r) \/ Serve(r)
    \/ Tick \/ RedisDown \/ RedisBack
    \/ \E p \in Processes : Crash(p)

Spec == Init /\ [][Next]_vars

-----------------------------------------------------------------------------
\* Properties

\* Every variable has its type.
TypeOK ==
    /\ redisUp \in BOOLEAN
    /\ client \in [Processes -> BOOLEAN]
    /\ key \in [Containers -> Key]
    /\ inflight \in Nat
    /\ localLock \in [Processes -> [Containers -> Requests \cup {Nobody}]]
    /\ localInflight \in [Processes -> Nat]
    /\ req \in [Requests -> Req]
    /\ outages \in 0..MaxOutages
    /\ crashes \in 0..MaxCrashes

\* No lock has two holders (container_locks.py:4-6, 83) through outages and restarts, unless
\* an operation outlived its key: a restart and a start may, for 39.5 s against 30 s, and
\* then whoever takes the key is beside it, and so on while one of them is there (late).
\* Nor does the property speak of different locks: one operation under Redis's and another
\* under a process's, or under those of two processes, started while Redis was away.
MutualExclusion ==
    \A r, s \in Requests :
        (/\ r # s /\ Target[r] = Target[s]
         /\ InLock(r) /\ InLock(s) /\ ~req[r].late /\ ~req[s].late) =>
            \/ req[r].lock # req[s].lock
            \/ req[r].lock = "local" /\ Process[r] # Process[s]

=============================================================================
