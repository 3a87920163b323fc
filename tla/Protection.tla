----------------------------- MODULE Protection -----------------------------
(***************************************************************************)
(* A site's protection against login floods: the policy an admin sets and  *)
(* its copy in Redis (security_policy_resolver.py), the collector of login *)
(* attempts (collect_wp_log_attacks.py), the rules that count them and     *)
(* block addresses (aggregate_wp_attacks.py, ip_blocklist.py), and         *)
(* Traefik's question before every request (routes/internal.py).           *)
(*                                                                         *)
(* Rows older than ten minutes are no rows here.  The event a rule records *)
(* is PlatformAlerts' Upserted; here only its failure matters.  Nothing    *)
(* writes the route blocks that forwardauth also asks for.                 *)
(***************************************************************************)
EXTENDS Integers, FiniteSets, FiniteSetsExt

CONSTANTS
    Sites,
    Addresses,      \* naturals but 0: the rules take the greatest (MAX(ip))
    Visitors,       \* requests under way
    Policies,       \* bound: what admins set, some of Policy
    Paths,          \* bound: what visitors ask for, of "page", "login" and "xmlrpc"
    Threshold,      \* bound: rows from which a rule acts, 5 and 3 in the code
    Worlds          \* bounds: changes by admins, removals and faults of a behaviour

None == 0
Kinds == {"login", "xmlrpc"}
Flags == {"block_xmlrpc", "rate_limit_wp_login", "block_scanner_paths", "elevated_sensitivity"}
Policy == [enabled : BOOLEAN, flags : SUBSET Flags]
NoPolicy == [enabled |-> FALSE, flags |-> {"none"}]      \* nothing is cached

VARIABLES
    protection,     \* hostings.protection_mode
    cached,         \* hg:policy:{hosting_id}, for 60 s
    known,          \* hg:host:{host}, for 300 s: kept for sites that are no longer active
    live,           \* sites whose status is active
    blocks,         \* hg:blocklist:{hosting_id}:{ip}
    log,            \* what is left of login attempts in a container's last lines
    counted,        \* activity_events of the last ten minutes, up to Threshold
    reader,         \* the callers of get_policy: the job's block and each request
    job,            \* aggregate_wp_attacks: its rule and the findings it has not handled
    admin,          \* the site whose cached policy a change has yet to evict
    limits          \* what is left of the behaviour's world

pvars == <<protection, cached, known, live, blocks, log, counted, reader, job, admin, limits>>

Off == [enabled |-> FALSE, flags |-> {}]

\* _derive_mode
Mode(p) == IF ~p.enabled THEN "off" ELSE IF p.flags = {} THEN "monitor" ELSE "protect"

Idle == [pc |-> "idle", site |-> None, ip |-> None, path |-> "page", policy |-> Off]
Quiet == [failed |-> FALSE, last |-> None]

ProtectionInit ==
    /\ protection \in [Sites -> Policies]
    /\ cached = [s \in Sites |-> NoPolicy]
    /\ known = {} /\ live = Sites /\ blocks = {}
    /\ log = [s \in Sites |-> Quiet]
    /\ counted = [s \in Sites |-> [k \in Kinds |-> [i \in Addresses \cup {None} |-> 0]]]
    /\ reader = [r \in Visitors \cup {"job"} |-> Idle]
    /\ job = [rule |-> 1, todo |-> {}]
    /\ admin = None
    /\ limits \in Worlds

Spend(what) == limits[what] > 0 /\ limits' = [limits EXCEPT ![what] = @ - 1]
Lose == Spend("fault")
Fine == UNCHANGED limits
-----------------------------------------------------------------------------
\* get_policy, for every caller

PolicyCached(r) ==
    /\ reader[r].pc = "look"
    /\ LET c == cached[reader[r].site] IN
         reader' = [reader EXCEPT ![r].pc = IF c = NoPolicy THEN "fetch" ELSE "decide",
                                  ![r].policy = IF c = NoPolicy THEN Off ELSE c]
    /\ UNCHANGED <<protection, cached, known, live, blocks, log, counted, job, admin>>
    /\ Fine

\* _fetch_from_db; a query that fails is a site without protection, and is cached like one.
FetchPolicy(r) ==
    /\ reader[r].pc = "fetch"
    /\ \/ reader' = [reader EXCEPT ![r].pc = "store", ![r].policy = protection[reader[r].site]] /\ Fine
       \/ reader' = [reader EXCEPT ![r].pc = "store", ![r].policy = Off] /\ Lose
    /\ UNCHANGED <<protection, cached, known, live, blocks, log, counted, job, admin>>

StorePolicy(r) ==
    /\ reader[r].pc = "store"
    /\ reader' = [reader EXCEPT ![r].pc = "decide"]
    /\ cached' = [cached EXCEPT ![reader[r].site] = reader[r].policy]
    /\ UNCHANGED <<protection, known, live, blocks, log, counted, job, admin>>
    /\ Fine

GetPolicy(r) == PolicyCached(r) \/ FetchPolicy(r) \/ StorePolicy(r)

\* (mutant) set instead of setex
PolicyStays(s) == FALSE

PolicyExpires(s) ==
    /\ cached[s] # NoPolicy
    /\ cached' = [cached EXCEPT ![s] = NoPolicy]
    /\ UNCHANGED <<protection, known, live, blocks, log, counted, reader, job, admin>>
    /\ Fine
-----------------------------------------------------------------------------
\* POST /admin/hostings/{hosting_id}/protection-mode: the UPDATE, then the eviction.
SetProtection(s, p) ==
    /\ admin = None
    /\ Spend("change")
    /\ protection' = [protection EXCEPT ![s] = p]
    /\ admin' = s
    /\ UNCHANGED <<cached, known, live, blocks, log, counted, reader, job>>

\* PUT of the same, by the name of a mode.
ModeSettings == {Off, [enabled |-> TRUE, flags |-> {}], [enabled |-> TRUE, flags |-> Flags]}

SetMode(s, p) == p \in ModeSettings /\ SetProtection(s, p)

\* invalidate_policy; without Redis the copy stays.
Invalidate ==
    /\ admin # None
    /\ \/ cached' = [cached EXCEPT ![admin] = NoPolicy] /\ Fine
       \/ UNCHANGED cached /\ Lose
    /\ admin' = None
    /\ UNCHANGED <<protection, known, live, blocks, log, counted, reader, job>>
-----------------------------------------------------------------------------
\* forwardauth

\* _resolve_hosting_id; a host that is neither cached nor active is let through.
Visit(v, s, i, path) ==
    /\ reader[v].pc = "idle"
    /\ s \in known \cup live
    /\ reader' = [reader EXCEPT ![v] = [Idle EXCEPT !.pc = "look", !.site = s, !.ip = i, !.path = path]]
    /\ UNCHANGED <<protection, cached, known, live, blocks, log, counted, job, admin>>
    /\ Fine

\* Of the pages, the login and xmlrpc.php are also among _SCANNER_PATHS.
Refused(x) ==
    /\ Mode(x.policy) = "protect"
    /\ \/ <<x.site, x.ip>> \in blocks
       \/ x.path = "xmlrpc" /\ "block_xmlrpc" \in x.policy.flags
       \/ x.path \in {"xmlrpc", "login"} /\ "block_scanner_paths" \in x.policy.flags

\* The lines the collector finds, after one more login, which may have failed.
Logged(lines, i, failed) == IF lines.failed \/ failed THEN [failed |-> TRUE, last |-> i] ELSE lines

\* A login that is let through leaves a line with its address, whether it succeeds or not.
Answer(v) ==
    /\ reader[v].pc = "decide"
    /\ LET x == reader[v] IN
         IF Refused(x)
         THEN reader' = [reader EXCEPT ![v] = [Idle EXCEPT !.pc = "refused", !.site = x.site]] /\ UNCHANGED log
         ELSE /\ reader' = [reader EXCEPT ![v] = Idle]
              /\ \/ x.path = "login" /\ x.site \in live /\ \E failed \in BOOLEAN :
                      log' = [log EXCEPT ![x.site] = Logged(@, x.ip, failed)]
                 \/ ~(x.path = "login" /\ x.site \in live) /\ UNCHANGED log
    /\ UNCHANGED <<protection, cached, known, live, blocks, counted, job, admin>>
    /\ Fine

\* The visitor of a refused request is gone.
Leave(v) ==
    /\ reader[v].pc = "refused"
    /\ reader' = [reader EXCEPT ![v] = Idle]
    /\ UNCHANGED <<protection, cached, known, live, blocks, log, counted, job, admin>>
    /\ Fine
-----------------------------------------------------------------------------
\* collect_wp_log_attacks: one row for a site whose last lines hold failed logins, with the
\* address of the last login line.  The lines are the last 500 of the access log, whatever
\* their age, or 90 s of the container's output; the pattern of xmlrpc.php matches no line.

Incremented(c, s, k, i) == [c EXCEPT ![s][k][i] = IF @ < Threshold THEN @ + 1 ELSE @]

Collect(s) ==
    /\ s \in live /\ log[s].failed
    /\ \/ counted' = Incremented(counted, s, "login", log[s].last) /\ Fine
       \/ UNCHANGED counted /\ Lose
    /\ UNCHANGED <<protection, cached, known, live, blocks, log, reader, job, admin>>

\* The plugin in the site reports a failed login: the row has no address.
PluginReports(s) ==
    /\ log[s].failed
    /\ counted' = Incremented(counted, s, "login", None)
    /\ UNCHANGED <<protection, cached, known, live, blocks, log, reader, job, admin>>
    /\ Fine

RowAges(s, k, i) ==
    /\ counted[s][k][i] > 0
    /\ counted' = [counted EXCEPT ![s][k][i] = @ - 1]
    /\ UNCHANGED <<protection, cached, known, live, blocks, log, reader, job, admin>>
    /\ Fine

\* Newer lines, or a rotation.
LogRolls(s) ==
    /\ log[s] # Quiet
    /\ log' = [log EXCEPT ![s] = Quiet]
    /\ UNCHANGED <<protection, cached, known, live, blocks, counted, reader, job, admin>>
    /\ Fine
-----------------------------------------------------------------------------
\* aggregate_wp_attacks

\* The rows of all addresses together.
Attempts(s, k) == {x \in (Addresses \cup {None}) \X (1..Threshold) : x[2] <= counted[s][k][x[1]]}

Enough(s, k) == Cardinality(Attempts(s, k)) >= Threshold

\* MAX(ip) of the rows, which skips NULL.
LastAddress(s, k) == LET is == {i \in Addresses : counted[s][k][i] > 0} IN IF is = {} THEN None ELSE Max(is)

\* _rule_wp_login
LoginRule == {<<s, LastAddress(s, "login")>> : s \in {x \in live : Enough(x, "login")}}

\* _rule_xmlrpc
XmlrpcRule == {<<s, LastAddress(s, "xmlrpc")>> : s \in {x \in live : Enough(x, "xmlrpc")}}

\* _rule_wp_login_rate_limit
RateLimitRule == {x \in live \X Addresses : counted[x[1]]["login"][x[2]] >= Threshold}

Found(rule) == CASE rule = 1 -> LoginRule [] rule = 2 -> XmlrpcRule [] rule = 3 -> RateLimitRule

Flag(rule) == IF rule = 2 THEN "block_xmlrpc" ELSE "rate_limit_wp_login"

\* The rules run one after the other, each over the answer of its own query; a query that
\* fails ends its rule alone.
QueryRule ==
    /\ reader["job"].pc = "idle" /\ job.todo = {}
    /\ LET rule == (job.rule % 3) + 1 IN
         \/ job' = [rule |-> rule, todo |-> Found(rule)] /\ Fine
         \/ job' = [rule |-> rule, todo |-> {}] /\ Lose
    /\ UNCHANGED <<protection, cached, known, live, blocks, log, counted, reader, admin>>

\* _upsert, and _maybe_block up to its question; a failed upsert skips the block.
RecordEvent(x) ==
    /\ reader["job"].pc = "idle" /\ x \in job.todo
    /\ job' = [job EXCEPT !.todo = @ \ {x}]
    /\ \/ /\ reader' = [reader EXCEPT !["job"] = IF x[2] = None THEN Idle
                            ELSE [Idle EXCEPT !.pc = "look", !.site = x[1], !.ip = x[2]]]
          /\ Fine
       \/ UNCHANGED reader /\ Lose
    /\ UNCHANGED <<protection, cached, known, live, blocks, log, counted, admin>>

\* _maybe_block and block_ip
MaybeBlock ==
    /\ reader["job"].pc = "decide"
    /\ LET x == reader["job"]  wanted == Mode(x.policy) = "protect" /\ Flag(job.rule) \in x.policy.flags IN
         \/ blocks' = (IF wanted THEN blocks \cup {<<x.site, x.ip>>} ELSE blocks) /\ Fine
         \/ wanted /\ UNCHANGED blocks /\ Lose
    /\ reader' = [reader EXCEPT !["job"] = Idle]
    /\ UNCHANGED <<protection, cached, known, live, log, counted, job, admin>>

BlockExpires(b) ==
    /\ b \in blocks
    /\ blocks' = blocks \ {b}
    /\ UNCHANGED <<protection, cached, known, live, log, counted, reader, job, admin>>
    /\ Fine

\* The site expires or is deleted; its name is cached if it was asked for in the last 300 s.
Removed(s) ==
    /\ s \in live /\ Spend("removal")
    /\ live' = live \ {s}
    /\ known' \in {known, known \cup {s}}
    /\ UNCHANGED <<protection, cached, blocks, log, counted, reader, job, admin>>

NameExpires(s) ==
    /\ s \in known
    /\ known' = known \ {s}
    /\ UNCHANGED <<protection, cached, live, blocks, log, counted, reader, job, admin>>
    /\ Fine

Aggregate == QueryRule \/ (\E x \in job.todo : RecordEvent(x)) \/ GetPolicy("job") \/ MaybeBlock
Ask(v) == GetPolicy(v) \/ Answer(v) \/ Leave(v)

ProtectionNext ==
    \/ Aggregate
    \/ \E v \in Visitors : Ask(v)
    \/ \E v \in Visitors, s \in Sites, i \in Addresses, path \in Paths :
            Visit(v, s, i, path)
    \/ \E s \in Sites : \/ \E p \in Policies : SetProtection(s, p) \/ SetMode(s, p)
                        \/ PolicyExpires(s) \/ NameExpires(s) \/ Removed(s)
                        \/ Collect(s) \/ PluginReports(s) \/ LogRolls(s)
                        \/ \E k \in Kinds, i \in Addresses \cup {None} : RowAges(s, k, i)
    \/ Invalidate
    \/ \E b \in blocks : BlockExpires(b)

\* The job comes round, a request that has begun goes on, and Redis forgets.
ProtectionSpec ==
    /\ ProtectionInit
    /\ [][ProtectionNext]_pvars
    /\ WF_pvars(Aggregate)
    /\ \A v \in Visitors : WF_pvars(Ask(v))
    /\ \A s \in Sites : WF_pvars(PolicyExpires(s))
-----------------------------------------------------------------------------
\* The policy that stays is the one that rules, through a copy up to a minute old, a reader
\* that stores what it read before the change, failed queries and an eviction that Redis
\* never saw (admin.py:2472, security_policy_resolver.py:57-75): of a site whose protection
\* stays off nobody is refused in the end, and an address with enough rows in the window
\* stays blocked, again and again, where the limit of logins stays on.
Rules(s) ==
    /\ <>[](~protection[s].enabled) => <>[](\A v \in Visitors : ~(reader[v].pc = "refused" /\ reader[v].site = s))
    /\ \A i \in Addresses :
        <>[](/\ s \in live /\ counted[s]["login"][i] = Threshold
             /\ protection[s].enabled /\ "rate_limit_wp_login" \in protection[s].flags)
            => []<>(<<s, i>> \in blocks)

=============================================================================
