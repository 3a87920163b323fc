--------------------------- MODULE IncidentAdvice ---------------------------
(***************************************************************************)
(* The advice on open incidents: the periodic job and the admin's button   *)
(* that diagnose them (app/services/ai/run_ai_diagnostics.py), the         *)
(* recommendations generated from a diagnosis and decided by admins        *)
(* (app/services/ai/action_recommendations.py), and the plans of approved  *)
(* ones (app/services/ai/execution_planner.py); routes in                  *)
(* app/api/routes/admin.py.                                                *)
(*                                                                         *)
(* What an incident looks like (count, last_seen, updated_at: the fields   *)
(* of compute_context_hash) is the number of times the feed has seen it.   *)
(* Rows are numbered in the order of their created_at.  'draft' and        *)
(* 'ready_for_review' plans are both "active": no query tells them apart.  *)
(***************************************************************************)
EXTENDS Naturals, Sequences, FiniteSets

CONSTANTS
    Queue,          \* incidents, one of each severity, as the job's query orders them: the
                    \* order of equals, the last seen first, is not modelled
    Limit,          \* how many of them a pass takes
    Source, Type,   \* source_type and incident_type of each incident
    Hosted,         \* incidents that name a hosting
    Generators,     \* background tasks that generate recommendations
    Planners,       \* requests that create a plan
    Budgets         \* bounds: how many events of each kind a behaviour has

Incidents == {Queue[n] : n \in DOMAIN Queue}
NoHash == 99    \* a NULL context_hash: no incident is seen as often
Kinds == {"seen", "diagnose", "generate", "decide", "resolve", "plan", "release", "fault"}

ASSUME AdviceAssumption ==
    /\ Limit \in Nat \ {0}
    /\ Source \in [Incidents -> {"deploy", "site", "security", "system"}]
    /\ Hosted \subseteq Incidents
    /\ Budgets \subseteq [Kinds -> 0 .. NoHash - 1]

VARIABLES
    incidents,      \* system_incidents: open, and how often seen
    diagnoses,      \* rows of ai_diagnosis
    actions,        \* rows of action_recommendations
    plans,          \* rows of execution_plans
    release,        \* RULES_VERSION and PLANNER_VERSION of the code that is deployed
    job,            \* run_ai_diagnostics: the incidents it selected, and the row to update
    demand,         \* the task of POST /incidents/{incident_id}/diagnose
    generator,      \* generate_for_incident, by task
    planner,        \* create_execution_plan, by request
    overlapped,     \* (history) two generations of an incident, or two plan requests of an
                    \* action, ran at once
    budget

vars == <<incidents, diagnoses, actions, plans, release, job, demand, generator, planner,
          overlapped, budget>>

None == 0
Idle == [pc |-> "idle"]

\* build_incident_context: the queries on site_alerts, wp_attack_log and orchestrator_events
\* name columns or tables that do not exist.  They are asked of incidents with a hosting, and
\* the statement that failed leaves a transaction in which every later one fails too.
Diagnosable == {i \in Incidents : Source[i] = "deploy" \/ i \notin Hosted}

\* _RULES and _DEFAULT_RULE: the action types
RuleTable == [
    node_sass_incompatible           |-> {"dependency_fix"},
    github_branch_not_found          |-> {"customer_fix"},
    github_private_repo_unauthorized |-> {"customer_fix"},
    build_failed                     |-> {"manual_check"},
    site_critical                    |-> {"admin_review", "redeploy_candidate"},
    site_recovery                    |-> {"monitor"},
    security_attack                  |-> {"security_review", "enable_protection_mode_monitor"},
    wordpress_malware                |-> {"security_review", "enable_protection_mode_monitor"}]

Rules(i) == IF Type[i] \in DOMAIN RuleTable THEN RuleTable[Type[i]] ELSE {"manual_check"}

\* The rows of the three tables.
\* struck (history): a failed call marked the row although it had the incident's hash.
Diagnosis == [incident : Incidents, hash : Nat, status : {"active", "error"}, struck : BOOLEAN]

\* A row without a history
Row(i, hash, status) == [incident |-> i, hash |-> hash, status |-> status, struck |-> FALSE]

Recommendation ==
    [incident : Incidents,
     hash : [diagnosis : Nat, type : UNION {Rules(i) : i \in Incidents}, seen : Nat, rules : Nat],
     status : {"pending_approval", "approved", "rejected", "superseded"}]

Plan == [action : Nat, status : {"active", "superseded", "cancelled"}, release : Nat]

Init ==
    /\ incidents = [i \in Incidents |-> [open |-> TRUE, seen |-> 0]]
    /\ diagnoses = << >> /\ actions = << >> /\ plans = << >>
    /\ release = 0
    /\ job = Idle /\ demand = Idle
    /\ generator = [g \in Generators |-> Idle]
    /\ planner = [p \in Planners |-> Idle]
    /\ overlapped = FALSE
    /\ budget \in Budgets

Spend(kind) == budget[kind] > 0 /\ budget' = [budget EXCEPT ![kind] = @ - 1]
-----------------------------------------------------------------------------
\* The feed sees an incident again, or resolves it, as an admin may.
Beside == UNCHANGED <<diagnoses, actions, plans, job, demand, generator, planner, overlapped>>

SeenAgain(i) ==
    /\ incidents[i].open
    /\ incidents' = [incidents EXCEPT ![i].seen = @ + 1]
    /\ Spend("seen") /\ Beside /\ UNCHANGED release

Resolve(i) ==
    /\ incidents[i].open
    /\ incidents' = [incidents EXCEPT ![i].open = FALSE]
    /\ Spend("resolve") /\ Beside /\ UNCHANGED release

\* A deployment with new rule texts and templates.
Release ==
    /\ release' = release + 1
    /\ Spend("release") /\ Beside /\ UNCHANGED incidents
-----------------------------------------------------------------------------
\* ai_diagnosis
RowsOf(i) == {d \in DOMAIN diagnoses : diagnoses[d].incident = i}
Newest(S) == IF S = {} THEN None ELSE CHOOSE d \in S : \A e \in S : e <= d

\* _get_existing_diagnosis
Existing(i) == Newest(RowsOf(i))

\* _needs_diagnosis
UpToDate(i, hash) == Existing(i) # None /\ diagnoses[Existing(i)].hash = hash

\* (mutant) an UPDATE that leaves the status as it is
StoredKeepsStatus(found, i, hash) ==
    IF found = None
      THEN Append(diagnoses, Row(i, hash, "active"))
      ELSE [diagnoses EXCEPT ![found].hash = hash]

\* _save_diagnosis: update the row found before the model was asked, or insert one.
Stored(found, i, hash) ==
    IF found = None
      THEN Append(diagnoses, Row(i, hash, "active"))
      ELSE [diagnoses EXCEPT ![found] = Row(i, hash, "active")]

\* _save_error: the row that is there now keeps its hash.
Marked(i) ==
    IF Existing(i) = None
      THEN Append(diagnoses, Row(i, NoHash, "error"))
      ELSE [diagnoses EXCEPT ![Existing(i)].status = "error",
                             ![Existing(i)].struck = UpToDate(i, incidents[i].seen)]

Open == SelectSeq(Queue, LAMBDA i : incidents[i].open)
Selected == SubSeq(Open, 1, IF Len(Open) < Limit THEN Len(Open) ELSE Limit)

Aside == UNCHANGED <<incidents, actions, plans, release, generator, planner, overlapped>>

\* _fetch_open_incidents, with what each looks like now
SelectIncidents ==
    /\ job.pc = "idle"
    /\ job' = [pc |-> "look", found |-> None,
               left |-> [n \in DOMAIN Selected |->
                           [incident |-> Selected[n], seen |-> incidents[Selected[n]].seen]]]
    /\ UNCHANGED <<diagnoses, demand, budget>> /\ Aside

InHand == Head(job.left)
NextIncident == [pc |-> "look", found |-> None, left |-> Tail(job.left)]

\* Read the context and the existing row.  A context that cannot be read has aborted the
\* transaction: every later statement of the incident raises, and nothing is written.
Look ==
    /\ job.pc = "look" /\ job.left # << >>
    /\ job' = IF InHand.incident \notin Diagnosable \/ UpToDate(InHand.incident, InHand.seen)
                THEN NextIncident
                ELSE [job EXCEPT !.pc = "save", !.found = Existing(InHand.incident)]
    /\ UNCHANGED <<diagnoses, demand, budget>> /\ Aside

\* The model, or the rules when it does not answer, has given a diagnosis.
SaveDiagnosis ==
    /\ job.pc = "save"
    /\ diagnoses' = Stored(job.found, InHand.incident, InHand.seen)
    /\ job' = NextIncident
    /\ UNCHANGED <<demand, budget>> /\ Aside

\* An exception instead: an error row, or nothing at all when the database raised it.
SaveRaises ==
    /\ job.pc = "save"
    /\ diagnoses' \in {Marked(InHand.incident), diagnoses}
    /\ job' = NextIncident
    /\ Spend("fault")
    /\ UNCHANGED demand /\ Aside

EndPass ==
    /\ job.pc = "look" /\ job.left = << >>
    /\ job' = Idle
    /\ UNCHANGED <<diagnoses, demand, budget>> /\ Aside

Job == SelectIncidents \/ Look \/ SaveDiagnosis \/ EndPass

\* The route reads the incident; the task looks for a row and asks the model whatever the
\* hash says; an exception rolls back.
Demand(i) ==
    /\ demand = Idle
    /\ demand' = [pc |-> "look", incident |-> i, seen |-> incidents[i].seen]
    /\ Spend("diagnose")
    /\ UNCHANGED <<diagnoses, job>> /\ Aside

DemandLook ==
    /\ demand.pc = "look"
    /\ demand' = IF demand.incident \notin Diagnosable THEN Idle
                 ELSE [pc |-> "save", incident |-> demand.incident, seen |-> demand.seen,
                       found |-> Existing(demand.incident)]
    /\ UNCHANGED <<diagnoses, job, budget>> /\ Aside

DemandSave ==
    /\ demand.pc = "save"
    /\ \/ diagnoses' = Stored(demand.found, demand.incident, demand.seen) /\ UNCHANGED budget
       \/ UNCHANGED diagnoses /\ Spend("fault")
    /\ demand' = Idle
    /\ UNCHANGED job /\ Aside
-----------------------------------------------------------------------------
\* action_recommendations
Away == UNCHANGED <<incidents, diagnoses, release, job, demand>>

ActiveDiagnosis(i) == Newest({d \in RowsOf(i) : diagnoses[d].status = "active"})

\* _idempotency_hash
Hash(g, type) == [diagnosis |-> generator[g].diagnosis, type |-> type,
                  seen |-> generator[g].seen, rules |-> generator[g].rules]

Of(i, type) == {a \in DOMAIN actions : actions[a].incident = i /\ actions[a].hash.type = type}

\* generate_for_incident: the newest active diagnosis, and the hashes that exist.
Generate(g, i) ==
    /\ generator[g] = Idle
    /\ ActiveDiagnosis(i) # None
    /\ \E force \in BOOLEAN :
        generator' = [generator EXCEPT ![g] =
            [pc |-> "next", incident |-> i, force |-> force, rules |-> release,
             diagnosis |-> ActiveDiagnosis(i), seen |-> diagnoses[ActiveDiagnosis(i)].hash,
             known |-> {actions[a].hash : a \in {b \in DOMAIN actions : actions[b].incident = i}},
             todo |-> Rules(i), type |-> "none", stale |-> {}]]
    /\ overlapped' = (overlapped \/ \E h \in Generators :
                                      generator[h] # Idle /\ generator[h].incident = i)
    /\ Spend("generate")
    /\ UNCHANGED <<actions, plans, planner>> /\ Away

Known(g, type) ==
    /\ generator[g].pc = "next" /\ type \in generator[g].todo
    /\ Hash(g, type) \in generator[g].known
    /\ generator' = [generator EXCEPT ![g].todo = @ \ {type}]
    /\ UNCHANGED <<actions, plans, planner, overlapped, budget>> /\ Away

\* (mutant) the status is not asked for
StaleAnyStatus(g, type) == {a \in Of(generator[g].incident, type) : actions[a].hash # Hash(g, type)}

\* _supersede_stale_pending: the rows its UPDATE finds
Stale(g, type) ==
    {a \in Of(generator[g].incident, type) :
        actions[a].status = "pending_approval" /\ actions[a].hash # Hash(g, type)}

Supersede(g, type) ==
    /\ generator[g].pc = "next" /\ type \in generator[g].todo
    /\ Hash(g, type) \notin generator[g].known
    /\ generator' = [generator EXCEPT ![g].pc = "insert", ![g].type = type,
                                      ![g].stale = Stale(g, type)]
    /\ UNCHANGED <<actions, plans, planner, overlapped, budget>> /\ Away

\* _has_approved
HasApproved(g) ==
    \E a \in Of(generator[g].incident, generator[g].type) : actions[a].status = "approved"

\* An admin's decision stands, unless force.
Decided(g) == ~generator[g].force /\ HasApproved(g)

\* (mutant) the new row is inserted and the old ones stay
SettledKeepsOld(g) == actions

\* The UPDATE waited for writers of its rows, and leaves those no longer as it found them.
Settled(g) ==
    [a \in DOMAIN actions |->
        IF a \in generator[g].stale /\ a \in Stale(g, generator[g].type)
          THEN [actions[a] EXCEPT !.status = "superseded"] ELSE actions[a]]

TypeDone(g) ==
    generator' = [generator EXCEPT ![g].pc = "next", ![g].stale = {},
                                   ![g].todo = @ \ {generator[g].type}]

\* One transaction for each type: both commits of _run_generation_loop.
Insert(g) ==
    /\ generator[g].pc = "insert"
    /\ actions' = IF Decided(g) THEN Settled(g)
                  ELSE Append(Settled(g), [incident |-> generator[g].incident,
                                           hash |-> Hash(g, generator[g].type),
                                           status |-> "pending_approval"])
    /\ TypeDone(g)
    /\ UNCHANGED <<plans, planner, overlapped, budget>> /\ Away

\* rollback; the loop goes on with the next type.
InsertRaises(g) ==
    /\ generator[g].pc = "insert"
    /\ TypeDone(g)
    /\ Spend("fault")
    /\ UNCHANGED <<actions, plans, planner, overlapped>> /\ Away

GenerateEnds(g) ==
    /\ generator[g].pc = "next" /\ generator[g].todo = {}
    /\ generator' = [generator EXCEPT ![g] = Idle]
    /\ UNCHANGED <<actions, plans, planner, overlapped, budget>> /\ Away

Decide(a, from, to) ==
    /\ actions[a].status \in from
    /\ actions' = [actions EXCEPT ![a].status = to]
    /\ Spend("decide")
    /\ UNCHANGED <<plans, generator, planner, overlapped>> /\ Away

Approve(a) == Decide(a, {"pending_approval"}, "approved")
Reject(a) == Decide(a, {"pending_approval", "approved"}, "rejected")
-----------------------------------------------------------------------------
\* execution_plans
ActivePlans(a) == {n \in DOMAIN plans : plans[n].action = a /\ plans[n].status = "active"}

\* _existing_plan_hash: any one of them.  Of the hash only the version can change.
ExistingPlan(a, n) == IF ActivePlans(a) = {} THEN n = None ELSE n \in ActivePlans(a)

\* create_execution_plan, up to its reads; the plan there is is returned when it is current.
PlanRead(p, a) ==
    /\ planner[p] = Idle
    /\ actions[a].status = "approved"
    /\ \E force \in BOOLEAN, n \in DOMAIN plans \cup {None} :
        /\ ExistingPlan(a, n)
        /\ planner' = [planner EXCEPT ![p] =
                        IF n # None /\ ~force /\ plans[n].release = release THEN Idle
                        ELSE [pc |-> IF n = None THEN "insert" ELSE "end", action |-> a,
                              force |-> force, release |-> release, ending |-> {}]]
    /\ overlapped' = (overlapped \/ \E q \in Planners : planner[q] # Idle /\ planner[q].action = a)
    /\ Spend("plan")
    /\ UNCHANGED <<actions, plans, generator>> /\ Away

\* (mutant) a forced plan leaves the plan it replaces
EndingUnlessForced(p) == IF planner[p].force THEN {} ELSE ActivePlans(planner[p].action)

\* The UPDATE of the active plans.
Ending(p) == ActivePlans(planner[p].action)

PlanEnds(p) ==
    /\ planner[p].pc = "end"
    /\ planner' = [planner EXCEPT ![p].pc = "insert", ![p].ending = Ending(p)]
    /\ UNCHANGED <<actions, plans, generator, overlapped, budget>> /\ Away

EndStatus(p) == IF planner[p].force THEN "cancelled" ELSE "superseded"

\* The INSERT, and the commit of both.
PlanCommit(p) ==
    /\ planner[p].pc = "insert"
    /\ LET ended == [n \in DOMAIN plans |->
                        IF n \in planner[p].ending /\ plans[n].status = "active"
                          THEN [plans[n] EXCEPT !.status = EndStatus(p)] ELSE plans[n]]
       IN  plans' = Append(ended, [action |-> planner[p].action, status |-> "active",
                                   release |-> planner[p].release])
    /\ planner' = [planner EXCEPT ![p] = Idle]
    /\ UNCHANGED <<actions, generator, overlapped, budget>> /\ Away

\* The route rolls back.
PlanRaises(p) ==
    /\ planner[p].pc = "insert"
    /\ planner' = [planner EXCEPT ![p] = Idle]
    /\ Spend("fault")
    /\ UNCHANGED <<actions, plans, generator, overlapped>> /\ Away

\* cancel_execution_plan: a superseded plan too.
CancelPlan(n) ==
    /\ plans[n].status # "cancelled"
    /\ plans' = [plans EXCEPT ![n].status = "cancelled"]
    /\ Spend("decide")
    /\ UNCHANGED <<actions, generator, planner, overlapped>> /\ Away
-----------------------------------------------------------------------------
Generation(g) ==
    \/ \E type \in UNION {Rules(i) : i \in Incidents} : Known(g, type) \/ Supersede(g, type)
    \/ Insert(g)
    \/ GenerateEnds(g)

Planning(p) == PlanEnds(p) \/ PlanCommit(p)

Next ==
    \/ \E i \in Incidents : SeenAgain(i) \/ Resolve(i) \/ Demand(i)
    \/ Release
    \/ Job \/ SaveRaises \/ DemandLook \/ DemandSave
    \/ \E g \in Generators :
        Generation(g) \/ InsertRaises(g) \/ \E i \in Incidents : Generate(g, i)
    \/ \E a \in DOMAIN actions : Approve(a) \/ Reject(a)
    \/ \E p \in Planners :
        Planning(p) \/ PlanRaises(p) \/ \E a \in DOMAIN actions : PlanRead(p, a)
    \/ \E n \in DOMAIN plans : CancelPlan(n)

Spec == Init /\ [][Next]_vars

\* The scheduler's job comes round again, and a background task that runs goes on.
FairSpec ==
    /\ Spec
    /\ WF_vars(Job)
    /\ WF_vars(DemandLook \/ DemandSave)
    /\ \A g \in Generators : WF_vars(Generation(g))
    /\ \A p \in Planners : WF_vars(Planning(p))
-----------------------------------------------------------------------------
(* "Approved and rejected rows are never touched" (action_recommendations.py, at
   _supersede_stale_pending): only an admin moves a row out of approved, only to
   rejected, and nothing moves it out of rejected or superseded. *)
DecisionKept ==
    [][\A a \in DOMAIN actions :
        LET was == actions[a].status
            is  == actions'[a].status
        IN  /\ was = "approved" => is \in {"approved", "rejected"}
            /\ was \in {"rejected", "superseded"} => is = was]_vars

OnePending ==
    \A a, b \in DOMAIN actions :
        /\ actions[a].status = "pending_approval" /\ actions[b].status = "pending_approval"
        /\ actions[a].incident = actions[b].incident /\ actions[a].hash.type = actions[b].hash.type
        => a = b

OnePlan == \A a \in DOMAIN actions : Cardinality(ActivePlans(a)) <= 1

(* As long as no two generations of an incident, and no two plan requests of an
   action, have overlapped, an admin has at most one recommendation of each kind
   to decide on and one plan to look at, whatever the diagnoses, releases and
   decisions in between. *)
OneCurrent == ~overlapped => OnePending /\ OnePlan

Covered(i) == \E n \in DOMAIN Selected : Selected[n] = i

(* run_ai_diagnostics keeps up: an open incident among those a pass takes has, again
   and again, an active diagnosis of what the incident looks like now, although
   calls of the model fail and an admin's own request may save an older view.
   Left out is a row the code gives up: an admin's request saved what the incident
   looks like now after the job had looked, the job's own call then failed, and
   _save_error marked that row, which keeps its hash and so is skipped until the
   incident changes (struck).  Left out too are incidents whose context cannot be
   read (Diagnosable). *)
Diagnosed ==
    \A i \in Diagnosable :
        []<>(Covered(i) =>
                /\ UpToDate(i, incidents[i].seen)
                /\ \/ diagnoses[Existing(i)].status = "active"
                   \/ diagnoses[Existing(i)].struck)
=============================================================================
