----------------------------- MODULE ClientPanel -----------------------------
(***************************************************************************)
(* What a client does to a site from the panel: container operations       *)
(* (ContainerOps), a diagnosis and its fix (FixEngine), and the            *)
(* conversation with support (SupportDesk).  Redis is the same for the     *)
(* first two; a fix takes no container lock, and has containers of its     *)
(* own here.  A behaviour is about one of the three: they share no other   *)
(* state, and TLC would only interleave them.                              *)
(***************************************************************************)
EXTENDS ContainerOps

CONSTANTS
    Sites, Diagnoses, Fixes, Errors, FixBudgets,
    Tickets, Staff, DeskRequests, Sockets, HistorySize, DeskBudgets

VARIABLES
    part,           \* what the behaviour is about
    wordpress, container, app, rows, remembered, fallback, diagnosis, fix, spent, left,
    table, hosting, cache, ticket, messages, creating, request, socket, connections, holder,
    overlapped, deskLeft

Fix == INSTANCE FixEngine WITH Workers <- Processes
Desk == INSTANCE SupportDesk WITH Workers <- Processes, Requests <- DeskRequests

FixKinds == {"diagnoses", "troubles", "owner", "failures", "outages"}

\* "rest" is who a message of a REST route is by, next to the workers' WebSockets.
ASSUME PanelAssumption ==
    /\ Errors \subseteq DOMAIN Fix!Quality
    /\ FixBudgets \subseteq [FixKinds -> Nat]
    /\ HistorySize \in Nat \ {0}
    /\ "rest" \notin Processes
    /\ \A b \in DeskBudgets : "serving" \in DOMAIN b /\ b.serving \in [Sockets -> Processes]

\* What only one of the parts uses
lockVars == <<client, key, inflight, localLock, localInflight, req, outages, crashes>>
fixVars == <<wordpress, container, app, rows, remembered, fallback, diagnosis, fix, spent, left>>
deskVars == <<table, hosting, cache, ticket, messages, creating, request, socket, connections,
              holder, overlapped, deskLeft>>
panelVars == <<redisUp, client, key, inflight, localLock, localInflight, req, outages, crashes,
               part, wordpress, container, app, rows, remembered, fallback, diagnosis, fix,
               spent, left, table, hosting, cache, ticket, messages, creating, request, socket,
               connections, holder, overlapped, deskLeft>>

PanelInit ==
    /\ Init /\ Fix!FixInit /\ Desk!DeskInit
    /\ part \in {"ops", "fix", "desk"}
    /\ part # "fix" => wordpress = {} /\ left = CHOOSE b \in FixBudgets : TRUE
    /\ part = "desk" /\ deskLeft.connections > 0 => ~table
    /\ part # "desk" => table /\ deskLeft = CHOOSE b \in DeskBudgets : TRUE

OpsStep == part = "ops" /\ Next /\ UNCHANGED <<part, fixVars, deskVars>>

FixStep == part = "fix" /\ Fix!FixNext /\ UNCHANGED <<part, lockVars, deskVars>>
DeskStep == part = "desk" /\ Desk!DeskNext /\ UNCHANGED <<part, redisUp, lockVars, fixVars>>

PanelNext == OpsStep \/ FixStep \/ DeskStep

PanelSpec == PanelInit /\ [][PanelNext]_panelVars
-----------------------------------------------------------------------------
\* Properties

\* Every variable has its type.
PanelTypeOK == TypeOK /\ Fix!FixTypeOK /\ Desk!DeskTypeOK

\* A fix applied to a running container leaves none stopped when one of its commands fails
\* and its rollback does not, while nobody else commands it (FixEngine!LeavesRunning).
LeavesRunning == [][\A r \in Fixes : Fix!LeavesRunning(r)]_panelVars

\* A proposal once executed with success is not taken again before a diagnosis proposes it
\* again, unless Redis has been away; of two applications that both took it before either was
\* done it says nothing (FixEngine!TakenOnce).
TakenOnce == [][\A r \in Fixes : Fix!TakenOnce(r)]_panelVars

\* A ticket that a collaborator has taken is not handed to another before it is resolved,
\* unless requests about it overlapped (SupportDesk!KeptBy).
TicketKept == [][\A t \in Tickets : Desk!KeptBy(t)]_panelVars

\* Who is connected to a ticket's conversation misses no message of another who is connected
\* to the same process (SupportDesk!MissesNone).
ChatMissesNone == \A k \in Sockets : Desk!MissesNone(k)
=============================================================================
