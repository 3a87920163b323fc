--------------------------- MODULE BackupPolicies ---------------------------
(***************************************************************************)
(* Backup policies (app/services/backup_policy_service.py) and the admin   *)
(* routes that change them (app/api/routes/admin_backup.py): one row per   *)
(* hosting, seeded from the plan, and an append-only history of changes.   *)
(*                                                                         *)
(* A change reads the row, writes all of its fields and records the        *)
(* history in three transactions; FOR UPDATE locks the row only until the  *)
(* connection goes back to the pool.                                       *)
(***************************************************************************)
EXTENDS Naturals, Sequences

CONSTANTS
    Sites,          \* hosting_id values
    PlanAutomatic,  \* hostings whose plan is in _AUTOMATIC_PLANS
    Editors,        \* API threads that change policies
    Updates,        \* the bodies admins send, each field optional
    MaxEdits,       \* bound: changes begun
    MaxStops        \* bound: changes that stop half way

VARIABLES
    policy,         \* tenant_backup_policies, or the plan's defaults where there is no row
    history,        \* tenant_backup_policy_history of each hosting
    editor,         \* the locals of every change
    edits,          \* changes begun
    stops           \* changes that stopped half way

pvars == <<policy, history, editor, edits, stops>>

Fields == {"paused", "automatic"}
Update == [Fields -> {{}, {FALSE}, {TRUE}}]   \* {}: the field is not given

\* _plan_defaults
PlanDefaults(h) == [exists |-> FALSE, paused |-> FALSE, automatic |-> h \in PlanAutomatic]

AnySite == CHOOSE h \in Sites : TRUE
Resting == [pc |-> "idle", site |-> AnySite, given |-> [f \in Fields |-> {}],
            old |-> PlanDefaults(AnySite), new |-> PlanDefaults(AnySite)]

PolicyInit ==
    /\ policy = [h \in Sites |-> PlanDefaults(h)]
    /\ history = [h \in Sites |-> <<>>]
    /\ editor = [a \in Editors |-> Resting]
    /\ edits = 0
    /\ stops = 0

\* The value of a field: the one given, else the row's.
Value(row, given, f) == TRUE \in given[f] \/ (given[f] = {} /\ row[f])

Applied(row, given) ==
    [exists |-> TRUE, paused |-> Value(row, given, "paused"), automatic |-> Value(row, given, "automatic")]

\* upsert_policy reads the row.
ReadPolicy(a, h, given) ==
    /\ editor[a].pc = "idle"
    /\ edits < MaxEdits
    /\ edits' = edits + 1
    /\ editor' = [editor EXCEPT ![a] =
                    [pc |-> "write", site |-> h, given |-> given, old |-> policy[h], new |-> policy[h]]]
    /\ UNCHANGED <<policy, history, stops>>

UpdatePolicy(a) == \E h \in Sites, u \in Updates : ReadPolicy(a, h, u)

\* The snapshot of the row before a change; {} where the change created the row.
Snapshot(e) == [f \in Fields |-> IF e.previous.exists THEN {e.previous[f]} ELSE {}]

\* revert_policy
RevertPolicy(a) == \E h \in Sites : \E i \in DOMAIN history[h] : ReadPolicy(a, h, Snapshot(history[h][i]))

Rest(a) == editor' = [editor EXCEPT ![a] = Resting]

\* INSERT, which the unique hosting_id refuses where another change inserted the row
\* meanwhile, or UPDATE of every field from the row read before.
WritePolicy(a) ==
    LET e == editor[a]
        row == Applied(e.old, e.given) IN
    /\ e.pc = "write"
    /\ IF ~e.old.exists /\ policy[e.site].exists
         THEN Rest(a) /\ UNCHANGED policy
         ELSE /\ policy' = [policy EXCEPT ![e.site] = row]
              /\ editor' = [editor EXCEPT ![a].pc = "history", ![a].new = row]
    /\ UNCHANGED <<history, edits, stops>>

\* _record_history
RecordHistory(a) ==
    /\ editor[a].pc = "history"
    /\ history' = [history EXCEPT ![editor[a].site] = Append(@, [previous |-> editor[a].old, new |-> editor[a].new])]
    /\ Rest(a)
    /\ UNCHANGED <<policy, edits, stops>>

\* A write fails, or the process dies, between two transactions of a change.
StopEdit(a) ==
    /\ editor[a].pc # "idle"
    /\ stops < MaxStops
    /\ stops' = stops + 1
    /\ Rest(a)
    /\ UNCHANGED <<policy, history, edits>>

EditorStep(a) == UpdatePolicy(a) \/ RevertPolicy(a) \/ WritePolicy(a) \/ RecordHistory(a) \/ StopEdit(a)

\* get_effective_policy: the row, or the plan's defaults.
Effective(h) == IF policy[h].exists THEN policy[h] ELSE PlanDefaults(h)
=============================================================================
