------------------------------- MODULE Mirror -------------------------------
(***************************************************************************)
(* What the incident feed promises of a source of alerts                   *)
(* (app/services/sync_incidents_feed.py:4, "Syncs open alerts from         *)
(* detection tables into system_incidents"): what is shown is what was     *)
(* raised when the source was last looked at, less what somebody cleared,  *)
(* and it catches up with every alert that stays.                          *)
(***************************************************************************)
CONSTANTS
    Sources,
    Keys        \* the alerts each source may raise

VARIABLES
    raised,     \* the alerts that are open, by source
    seen,       \* what a look at a source found, until it is shown or dropped
    shown       \* the incidents that are open, by source

vars == <<raised, seen, shown>>

Nothing == [src \in Sources |-> {}]

Init == raised = Nothing /\ seen = Nothing /\ shown = Nothing

Alter ==
    /\ DOMAIN raised' = Sources
    /\ \A src \in Sources : raised'[src] \subseteq Keys[src]
    /\ UNCHANGED <<seen, shown>>

Look(src) ==
    /\ seen' = [seen EXCEPT ![src] = raised[src]]
    /\ UNCHANGED <<raised, shown>>

Show(src) ==
    /\ shown' = [shown EXCEPT ![src] = seen[src]]
    /\ seen' = [seen EXCEPT ![src] = {}]
    /\ UNCHANGED raised

Drop(src) ==
    /\ seen' = [seen EXCEPT ![src] = {}]
    /\ UNCHANGED <<raised, shown>>

Clear(src) == \E k \in shown[src] :
    /\ shown' = [shown EXCEPT ![src] = @ \ {k}]
    /\ UNCHANGED <<raised, seen>>

Next == Alter \/ \E src \in Sources : Look(src) \/ Show(src) \/ Drop(src) \/ Clear(src)

\* Unless a source never settles, what is shown is what is raised again and again.
CatchesUp == \A src \in Sources :
    []<>(shown[src] = raised[src]) \/ []<><<raised'[src] # raised[src]>>_raised

\* The part of the promise about what is shown, and the whole of it.
Safe == Init /\ [][Next]_vars
Spec == Safe /\ CatchesUp

=============================================================================
