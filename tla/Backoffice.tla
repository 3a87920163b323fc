----------------------------- MODULE Backoffice -----------------------------
(***************************************************************************)
(* Billing and the protection of sites, which share no state: a behaviour  *)
(* is one of billing's or one of protection's.                             *)
(***************************************************************************)
EXTENDS BillingWebhook

CONSTANTS
    Sites, Addresses, Visitors, Policies, Paths, Threshold,
    Worlds,     \* bounds: changes by admins, removals and faults of a behaviour
    NoWorld     \* the one of them that is a behaviour of billing's

VARIABLES protection, cached, known, live, blocks, log, counted, reader, job, admin, limits

P == INSTANCE Protection

pvars == <<protection, cached, known, live, blocks, log, counted, reader, job, admin, limits>>

ASSUME ProtectionAssumption ==
    /\ Addresses \subseteq Nat \ {0}
    /\ Policies \subseteq P!Policy
    /\ Threshold \in Nat \ {0}
    /\ NoWorld \in Worlds

BackofficeInit ==
    /\ Init /\ P!ProtectionInit
    /\ limits = NoWorld => \A s \in Sites : protection[s] = P!Off

Billing == limits = NoWorld /\ Next /\ UNCHANGED pvars
Protecting == limits # NoWorld /\ P!ProtectionNext /\ UNCHANGED vars

HandleStep(q) == limits = NoWorld /\ Handle(q) /\ UNCHANGED pvars
Delivery(note) == limits = NoWorld /\ (\E q \in Requests : Receive(q, note)) /\ UNCHANGED pvars
AggregateStep == limits # NoWorld /\ P!Aggregate /\ UNCHANGED vars
AskStep(v) == limits # NoWorld /\ P!Ask(v) /\ UNCHANGED vars
Expiry(s) == limits # NoWorld /\ P!PolicyExpires(s) /\ UNCHANGED vars

\* The fairness of each part.
BackofficeSpec ==
    /\ BackofficeInit
    /\ [][Billing \/ Protecting]_<<vars, pvars>>
    /\ \A q \in Requests : WF_<<vars, pvars>>(HandleStep(q))
    /\ \A note \in Notification : SF_<<vars, pvars>>(Delivery(note))
    /\ WF_<<vars, pvars>>(AggregateStep)
    /\ \A v \in Visitors : WF_<<vars, pvars>>(AskStep(v))
    /\ \A s \in Sites : WF_<<vars, pvars>>(Expiry(s))
-----------------------------------------------------------------------------
\* The policy that stays is the one that rules (Protection: Rules).
PolicyRules == \A s \in Sites : P!Rules(s)
=============================================================================
