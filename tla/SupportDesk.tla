----------------------------- MODULE SupportDesk -----------------------------
(***************************************************************************)
(* The support chat: tickets and their first answer by the model           *)
(* (app/api/routes/support_chat.py, app/core/support_ai.py), the answers   *)
(* kept for later tickets (app/infra/audit/support_cache_repository.py),   *)
(* and the conversation over WebSockets (app/api/websocket/support_ws.py). *)
(*                                                                         *)
(* All tickets are of one category and ask the same about one hosting.     *)
(* The REST routes but the creation run in threads without an event loop:  *)
(* their broadcasts, and the model's answers to later messages, raise and  *)
(* are ignored.                                                            *)
(***************************************************************************)
EXTENDS Naturals, Sequences, FiniteSets

CONSTANTS
    Tickets,        \* their ids, numbers
    Staff,          \* collaborators
    Requests,       \* requests of the REST routes about a ticket that is there
    Sockets,        \* WebSocket connections, numbers in the order they are made
    Workers,        \* processes of the API, each with its _connections
    HistorySize,    \* messages of the init event (20)
    DeskBudgets     \* bounds, one per behaviour: tickets, requests, changes of the hosting,
                    \* connections, messages and lost peers, failures; and the worker that
                    \* serves each connection

VARIABLES
    table,          \* support_chat_cache is there: no migration creates it
    hosting,        \* status of the hosting
    cache,          \* rows of support_chat_cache that have not expired
    ticket,         \* support_tickets
    messages,       \* ticket_messages, in the order of their ids
    creating,       \* POST /support/tickets, by ticket
    request,        \* the other requests in progress
    socket,         \* the handler of each connection
    connections,    \* _connections of each worker
    holder,         \* (history) who took the ticket and has not seen it resolved
    overlapped,     \* (history) tickets that were taken while another request, or the
                    \* creation, was writing to them
    deskLeft

deskVars == <<table, hosting, cache, ticket, messages, creating, request, socket, connections,
              holder, overlapped, deskLeft>>

Nobody == "nobody"
Idle == [pc |-> "idle"]
Spend(kind) == deskLeft[kind] > 0 /\ deskLeft' = [deskLeft EXCEPT ![kind] = @ - 1]

\* add_message, of a worker's WebSocket or of a REST route
Said(t, by) == messages' = Append(messages, [ticket |-> t, by |-> by])
UpdateStatus(t, status) == ticket' = [ticket EXCEPT ![t].status = status]
-----------------------------------------------------------------------------
\* POST /support/tickets

\* _count_usage: record_ai_usage hands psycopg2 a dict, which it cannot adapt; the exception
\* is logged and no row is ever written.
Used == 0

\* check_ai_quota: ten in all and three a day for a free plan, the plan's own limit, which
\* 0 lifts, for another
QuotaLeft == \A limit \in {3, 10} : Used < limit

\* The ticket and its first messages; the hosting is the one given, or an active one.
Create(t) ==
    /\ ticket[t].status = "none" /\ QuotaLeft
    /\ \A u \in Tickets : u < t => ticket[u].status # "none"
    /\ Spend("tickets")
    /\ ticket' = [ticket EXCEPT ![t] = [status |-> "open", by |-> Nobody]]
    /\ messages' = messages \o [n \in 1..2 |-> [ticket |-> t, by |-> "rest"]]
    /\ \E seen \in {hosting, Nobody} :
        creating' = [creating EXCEPT ![t] = [pc |-> "asking", seen |-> seen]]
    /\ UNCHANGED <<table, hosting, cache, request, socket, connections, holder, overlapped>>

\* get_best_match, then the status: one with a better score may hide it.
Matches(seen) == cache \cap {seen}

\* generate_support_response: from the cache, the model, whose answer is kept, or the
\* fallback.  Without the table the first query raises.
Generate(t) ==
    /\ creating[t].pc = "asking" /\ table
    /\ \/ Matches(creating[t].seen) # {} /\ UNCHANGED cache
       \/ cache' \in {cache, cache \cup {creating[t].seen}}
    /\ creating' = [creating EXCEPT ![t].pc = "answered"]
    /\ UNCHANGED <<table, hosting, ticket, messages, request, socket, connections, holder,
                   overlapped, deskLeft>>

SaveAnswer(t) ==
    /\ creating[t].pc = "answered"
    /\ Said(t, "rest")
    /\ creating' = [creating EXCEPT ![t].pc = "saved"]
    /\ UNCHANGED <<table, hosting, cache, ticket, request, socket, connections, holder,
                   overlapped, deskLeft>>

\* The status is written whatever it has become since.
AiHandled(t) ==
    /\ creating[t].pc = "saved"
    /\ UpdateStatus(t, "ai_handled")
    /\ creating' = [creating EXCEPT ![t] = Idle]
    /\ UNCHANGED <<table, hosting, cache, messages, request, socket, connections, holder,
                   overlapped, deskLeft>>

\* 500: the database raises, or the worker dies.
CreationFails(t) ==
    /\ creating[t].pc # "idle"
    /\ IF creating[t].pc = "asking" /\ ~table THEN UNCHANGED deskLeft ELSE Spend("failures")
    /\ creating' = [creating EXCEPT ![t] = Idle]
    /\ UNCHANGED <<table, hosting, cache, ticket, messages, request, socket, connections,
                   holder, overlapped>>
-----------------------------------------------------------------------------
\* The other routes read the ticket, and write a status and a message.

\* (mutant) a ticket that somebody is working on can be escalated
MayEscalateTaken(t) == ticket[t].status # "resolved"

\* escalate_ticket
MayEscalate(t) == ticket[t].status \notin {"in_progress", "resolved"}

\* assign_ticket
MayAssign(t, who) == ~(ticket[t].status = "in_progress" /\ ticket[t].by # who)

Allowed(op, t, who) ==
    CASE op = "escalate" -> MayEscalate(t)
      [] op = "assign" -> MayAssign(t, who)
      [] OTHER -> TRUE

Writing(t) == creating[t].pc # "idle" \/ \E q \in Requests : request[q].pc # "idle" /\ request[q].ticket = t

ReadTicket(q, op, t, who) ==
    /\ request[q].pc = "idle" /\ ticket[t].status # "none"
    /\ Allowed(op, t, who)
    /\ Spend("requests")
    /\ request' = [request EXCEPT ![q] = [pc |-> "first", op |-> op, ticket |-> t, who |-> who]]
    /\ overlapped' = IF Writing(t) THEN overlapped \cup {t} ELSE overlapped
    /\ UNCHANGED <<table, hosting, cache, ticket, messages, creating, socket, connections, holder>>

\* escalate writes its message first, assign and resolve their status.
MessageFirst(op) == op \in {"escalate", "message"}

WriteMessage(q) ==
    LET r == request[q] IN
    /\ r.pc # "idle" /\ r.pc = IF MessageFirst(r.op) THEN "first" ELSE "second"
    /\ Said(r.ticket, "rest")
    /\ request' = [request EXCEPT ![q] = IF r.op = "escalate" THEN [r EXCEPT !.pc = "second"] ELSE Idle]
    /\ UNCHANGED <<table, hosting, cache, ticket, creating, socket, connections, holder,
                   overlapped, deskLeft>>

\* update_ticket_status
WriteStatus(q) ==
    LET r == request[q] IN
    /\ r.pc # "idle" /\ r.pc = IF MessageFirst(r.op) THEN "second" ELSE "first"
    /\ r.op # "message"
    /\ ticket' = [ticket EXCEPT ![r.ticket] =
           CASE r.op = "escalate" -> [@ EXCEPT !.status = "waiting"]
             [] r.op = "assign" -> [status |-> "in_progress", by |-> r.who]
             [] r.op = "resolve" -> [@ EXCEPT !.status = "resolved"]]
    /\ holder' = CASE r.op = "assign" -> [holder EXCEPT ![r.ticket] = r.who]
                   [] r.op = "resolve" -> [holder EXCEPT ![r.ticket] = Nobody]
                   [] OTHER -> holder
    /\ request' = [request EXCEPT ![q] = IF r.op = "escalate" THEN Idle ELSE [r EXCEPT !.pc = "second"]]
    /\ UNCHANGED <<table, hosting, cache, messages, creating, socket, connections, overlapped,
                   deskLeft>>

RequestFails(q) ==
    /\ request[q].pc # "idle"
    /\ Spend("failures")
    /\ request' = [request EXCEPT ![q] = Idle]
    /\ UNCHANGED <<table, hosting, cache, ticket, messages, creating, socket, connections,
                   holder, overlapped>>
-----------------------------------------------------------------------------
\* support_ws_handler
Numbers(t) == {n \in DOMAIN messages : messages[n].ticket = t}
Recent(t) == {n \in Numbers(t) : Cardinality({m \in Numbers(t) : m > n}) < HistorySize}

\* _connect: registered once it is accepted
Connect(k, t) ==
    /\ socket[k].pc = "idle" /\ ticket[t].status # "none"
    /\ \A j \in Sockets : socket[j].pc = "idle" => k <= j
    /\ Spend("connections")
    /\ socket' = [socket EXCEPT ![k] =
           [pc |-> "registered", worker |-> deskLeft.serving[k], ticket |-> t, alive |-> TRUE,
            seen |-> {}, since |-> Len(messages), message |-> 0, todo |-> {}, dead |-> {}]]
    /\ connections' = [connections EXCEPT ![deskLeft.serving[k]] = @ \cup {k}]
    /\ UNCHANGED <<table, hosting, cache, ticket, messages, creating, request, holder, overlapped>>

InitEvent(k) == Recent(socket[k].ticket)

Welcome(k) ==
    /\ socket[k].pc = "registered"
    /\ socket' = [socket EXCEPT ![k].pc = "open", ![k].seen = @ \cup InitEvent(k)]
    /\ UNCHANGED <<table, hosting, cache, ticket, messages, creating, request, connections,
                   holder, overlapped, deskLeft>>

Peers(k) == {j \in connections[socket[k].worker] : socket[j].ticket = socket[k].ticket}

\* A message is saved, and with no switch before it the sockets to send it to are listed.
Receive(k) ==
    /\ socket[k].pc = "open" /\ socket[k].alive
    /\ Spend("messages")
    /\ Said(socket[k].ticket, socket[k].worker)
    /\ socket' = [socket EXCEPT ![k].pc = "sending", ![k].message = Len(messages) + 1,
                                ![k].todo = Peers(k), ![k].dead = {}]
    /\ UNCHANGED <<table, hosting, cache, ticket, creating, request, connections, holder, overlapped>>

\* broadcast_to_ticket: one send_text after the other; the one to a peer that is gone raises.
Send(k, j) ==
    /\ socket[k].pc = "sending" /\ j \in socket[k].todo
    /\ socket' = IF socket[j].pc # "closed" /\ socket[j].alive
         THEN [socket EXCEPT ![k].todo = @ \ {j}, ![j].seen = @ \cup {socket[k].message}]
         ELSE [socket EXCEPT ![k].todo = @ \ {j}, ![k].dead = @ \cup {j}]
    /\ UNCHANGED <<table, hosting, cache, ticket, messages, creating, request, connections,
                   holder, overlapped, deskLeft>>

Sent(k) ==
    /\ socket[k].pc = "sending" /\ socket[k].todo = {}
    /\ connections' = [connections EXCEPT ![socket[k].worker] = @ \ socket[k].dead]
    /\ socket' = [socket EXCEPT ![k].pc = "open", ![k].message = 0, ![k].dead = {}]
    /\ UNCHANGED <<table, hosting, cache, ticket, messages, creating, request, holder,
                   overlapped, deskLeft>>

PeerLost(k) ==
    /\ socket[k].pc \notin {"idle", "closed"} /\ socket[k].alive
    /\ Spend("lost")
    /\ socket' = [socket EXCEPT ![k].alive = FALSE]
    /\ UNCHANGED <<table, hosting, cache, ticket, messages, creating, request, connections,
                   holder, overlapped>>

\* (mutant) the ticket's entry is deleted with its first socket
LeaveAll(k) == Peers(k)

\* _disconnect
Leaving(k) == {k}

\* receive_text raises WebSocketDisconnect.
Disconnect(k) ==
    /\ socket[k].pc \in {"registered", "open"} /\ ~socket[k].alive
    /\ connections' = [connections EXCEPT ![socket[k].worker] = @ \ Leaving(k)]
    /\ socket' = [socket EXCEPT ![k] = [pc |-> "closed"]]
    /\ UNCHANGED <<table, hosting, cache, ticket, messages, creating, request, holder,
                   overlapped, deskLeft>>
-----------------------------------------------------------------------------
HostingChanges ==
    /\ Spend("changes")
    /\ hosting' = IF hosting = "active" THEN "stopped" ELSE "active"
    /\ UNCHANGED <<table, cache, ticket, messages, creating, request, socket, connections,
                   holder, overlapped>>

\* expires_at
CacheExpires(entry) ==
    /\ entry \in cache
    /\ cache' = cache \ {entry}
    /\ UNCHANGED <<table, hosting, ticket, messages, creating, request, socket, connections,
                   holder, overlapped, deskLeft>>

DeskInit ==
    /\ table \in BOOLEAN
    /\ hosting = "active"
    /\ cache = {}
    /\ ticket = [t \in Tickets |-> [status |-> "none", by |-> Nobody]]
    /\ messages = << >>
    /\ creating = [t \in Tickets |-> Idle]
    /\ request = [q \in Requests |-> Idle]
    /\ socket = [k \in Sockets |-> Idle]
    /\ connections = [w \in Workers |-> {}]
    /\ holder = [t \in Tickets |-> Nobody]
    /\ overlapped = {}
    /\ deskLeft \in DeskBudgets

Desk ==
    \/ \E t \in Tickets :
        \/ Create(t) \/ Generate(t) \/ SaveAnswer(t) \/ AiHandled(t) \/ CreationFails(t)
        \/ \E q \in Requests, who \in Staff : ReadTicket(q, "assign", t, who)
        \/ \E q \in Requests, op \in {"escalate", "resolve", "message"} :
            ReadTicket(q, op, t, Nobody)
    \/ \E q \in Requests : WriteMessage(q) \/ WriteStatus(q) \/ RequestFails(q)
    \/ HostingChanges \/ \E entry \in cache : CacheExpires(entry)

Chat == \E k \in Sockets :
    \/ Welcome(k) \/ Receive(k) \/ Sent(k) \/ PeerLost(k) \/ Disconnect(k)
    \/ \E j \in Sockets : Send(k, j)
    \/ \E t \in Tickets : Connect(k, t)

DeskNext == Desk \/ Chat
-----------------------------------------------------------------------------
\* Properties

\* Every variable has its type.
DeskTypeOK ==
    /\ ticket \in [Tickets -> [status: {"none", "open", "ai_handled", "waiting", "in_progress", "resolved"},
                               by: Staff \cup {Nobody}]]
    /\ cache \subseteq {"active", "stopped", Nobody}
    /\ connections \in [Workers -> SUBSET Sockets]
    /\ holder \in [Tickets -> Staff \cup {Nobody}]
    /\ overlapped \subseteq Tickets

\* A ticket that a collaborator has taken is not handed to another before it is resolved
\* (support_chat.py:456: "ya fue tomado por otro colaborador"), neither by the client's
\* escalation nor by the other's taking it, unless requests about it overlapped.
KeptBy(t) ==
    (holder[t] # Nobody /\ holder'[t] # holder[t] /\ t \notin overlapped) => holder'[t] = Nobody

\* A client or collaborator who is connected misses no message that another one connected to
\* the same process has sent since (support_ws.py:4-6: a message is saved and sent to all who
\* are connected), whoever connects, leaves or is lost meanwhile: it was sent, will be, or was
\* in the history sent first.
MissesNone(k) ==
    socket[k].pc \in {"open", "sending"} /\ socket[k].alive =>
        \A n \in Numbers(socket[k].ticket) :
            (n > socket[k].since /\ messages[n].by = socket[k].worker) =>
                \/ n \in socket[k].seen
                \/ \E j \in Sockets :
                    socket[j].pc = "sending" /\ socket[j].message = n /\ k \in socket[j].todo
=============================================================================
