--------------------------- MODULE CustomDomains ---------------------------
(***************************************************************************)
(* The custom domains of hostings: the client's routes that add, verify    *)
(* and delete one (app/api/routes/custom_domains.py), the scheduler's job  *)
(* that verifies those that are pending and the file that makes Traefik    *)
(* route one (app/services/domain_checker.py), and what the ways to end a  *)
(* hosting do with them.                                                   *)
(*                                                                         *)
(* Rows are numbered in the order in which they are inserted; their number *)
(* is domain_id and names the file, domain-{id}.yml.  set-primary writes   *)
(* one column that nothing reads and is left out.                          *)
(***************************************************************************)
EXTENDS Naturals, Sequences, FiniteSets

CONSTANTS
    Hosts,          \* hosting ids
    Names,          \* domain names
    Batch,          \* rows a pass of the job takes (50)
    Clients,        \* requests to verify under way
    DomainBudgets   \* bounds: how many events of each kind a behaviour has

DomainKinds == {"add", "dns", "verify", "remove", "fault"}

VARIABLES
    hosted,         \* hostings that have a row
    rows,           \* custom_domains, and rows that are gone
    domainfile,     \* domain-{id}.yml: "absent", "torn" or "whole"
    pointing,       \* names whose DNS points to the platform
    queue,          \* check_pending_domains: the rows it selected and has not done, which it
                    \* takes in their order
    worker,         \* a verification: of the job, or of a client's request
    remover,        \* the removal of domains: of a client's request or a termination
    mixed,          \* (history) rows of which a verification overlapped another or a removal
    stray,          \* (history) rows that went without their file, files that went without
                    \* their row
    dbudget

requests == <<queue, worker, remover>>
dvars == <<rows, domainfile, pointing, requests, mixed, stray, dbudget>>

Workers == Clients \cup {"job"}
Rest == [pc |-> "idle", id |-> 0]

DomainInit ==
    /\ rows = << >> /\ domainfile = << >>
    /\ pointing = {}
    /\ queue = {}
    /\ worker = [w \in Workers |-> Rest]
    /\ remover = [pc |-> "idle", host |-> 0, ids |-> {}]
    /\ mixed = {} /\ stray = {}
    /\ dbudget \in DomainBudgets

DomainSpend(kind) == dbudget[kind] > 0 /\ dbudget' = [dbudget EXCEPT ![kind] = @ - 1]

Here(id) == id \in DOMAIN rows /\ rows[id].here
Removed(id) == [rows EXCEPT ![id].here = FALSE]
Leaving(id) == remover.pc # "idle" /\ id \in remover.ids
Handled(id) == (\E w \in Workers : worker[w].id = id) \/ Leaving(id)
-----------------------------------------------------------------------------
\* add_domain: UNIQUE(domain) stands behind the check of get_by_domain_name.
AddDomain(h, n) ==
    /\ h \in hosted
    /\ \A id \in DOMAIN rows : Here(id) => rows[id].name # n
    /\ rows' = Append(rows, [name |-> n, host |-> h, dns |-> "pending", ssl |-> "pending",
                             here |-> TRUE])
    /\ domainfile' = Append(domainfile, "absent")
    /\ DomainSpend("add")
    /\ UNCHANGED <<pointing, requests, mixed, stray>>

PointDns(n) ==
    /\ pointing' = IF n \in pointing THEN pointing \ {n} ELSE pointing \cup {n}
    /\ DomainSpend("dns")
    /\ UNCHANGED <<rows, domainfile, requests, mixed, stray>>
-----------------------------------------------------------------------------
Pending == {id \in DOMAIN rows : Here(id) /\ rows[id].dns = "pending"}

\* get_pending_domains: ORDER BY created_at LIMIT 50, whatever the hosting is.  A pass begins
\* five minutes after the last one ended, when no row has been checked too lately.
BatchOf == {id \in Pending : Cardinality({k \in Pending : k < id}) < Batch}

SelectPending ==
    /\ queue = {} /\ worker["job"] = Rest
    /\ BatchOf # {}
    /\ queue' = BatchOf
    /\ mixed' = mixed \cup {id \in BatchOf : Handled(id)}
    /\ UNCHANGED <<rows, domainfile, pointing, worker, remover, stray, dbudget>>

Begin(w, id) ==
    /\ worker' = [worker EXCEPT ![w] = [pc |-> "resolve", id |-> id]]
    /\ mixed' = IF Handled(id) THEN mixed \cup {id} ELSE mixed
    /\ UNCHANGED <<rows, domainfile, pointing, remover, stray>>

JobTakes ==
    /\ worker["job"] = Rest
    /\ \E id \in queue :
          /\ \A k \in queue : id <= k
          /\ Begin("job", id)
          /\ queue' = queue \ {id}
    /\ UNCHANGED dbudget

\* verify_domain: a domain of any status may be verified again.
AskVerify(c, id) ==
    /\ worker[c] = Rest
    /\ Here(id) /\ rows[id].host \in hosted
    /\ Begin(c, id)
    /\ DomainSpend("verify")
    /\ UNCHANGED queue

\* update_status: of a row that is gone it changes nothing.
Update(id, row) == IF Here(id) THEN [rows EXCEPT ![id] = row] ELSE rows

Goes(w, pc) == worker' = [worker EXCEPT ![w].pc = pc]
Ends(w) == worker' = [worker EXCEPT ![w] = Rest]
Idly == UNCHANGED <<pointing, queue, remover, mixed, stray>>

\* verify_dns, and the status that follows from it: the answer may be old when it is written.
Resolve(w) ==
    /\ worker[w].pc = "resolve"
    /\ Goes(w, IF rows[worker[w].id].name \in pointing THEN "accept" ELSE "refuse")
    /\ UNCHANGED <<rows, domainfile, dbudget>> /\ Idly

Refuse(w) ==
    /\ worker[w].pc = "refuse"
    /\ rows' = Update(worker[w].id, [rows[worker[w].id] EXCEPT !.dns = "pending"])
    /\ Ends(w)
    /\ UNCHANGED <<domainfile, dbudget>> /\ Idly

\* (mutant) the check is recorded, its result is not
AcceptForgets(w) ==
    /\ worker[w].pc = "accept"
    /\ rows' = Update(worker[w].id, [rows[worker[w].id] EXCEPT !.ssl = "pending"])
    /\ Goes(w, "open")
    /\ UNCHANGED <<domainfile, dbudget>> /\ Idly

Accept(w) ==
    /\ worker[w].pc = "accept"
    /\ rows' = Update(worker[w].id, [rows[worker[w].id] EXCEPT !.dns = "active", !.ssl = "pending"])
    /\ Goes(w, "open")
    /\ UNCHANGED <<domainfile, dbudget>> /\ Idly

\* write_traefik_config: open("w") empties the file, and the write may fail.
OpenFile(w) ==
    /\ worker[w].pc = "open"
    /\ \/ /\ domainfile' = [domainfile EXCEPT ![worker[w].id] = "torn"]
          /\ Goes(w, "write")
          /\ UNCHANGED dbudget
       \/ Goes(w, "fail") /\ DomainSpend("fault") /\ UNCHANGED domainfile
    /\ UNCHANGED rows /\ Idly

\* (mutant) a write that fails is taken for one that succeeded
WriteFileAnyhow(w) ==
    /\ worker[w].pc = "write"
    /\ \/ domainfile' = [domainfile EXCEPT ![worker[w].id] = "whole"] /\ UNCHANGED dbudget
       \/ UNCHANGED domainfile /\ DomainSpend("fault")
    /\ Goes(w, "confirm")
    /\ UNCHANGED rows /\ Idly

WriteFile(w) ==
    /\ worker[w].pc = "write"
    /\ \/ /\ domainfile' = [domainfile EXCEPT ![worker[w].id] = "whole"]
          /\ Goes(w, "confirm")
          /\ UNCHANGED dbudget
       \/ Goes(w, "fail") /\ DomainSpend("fault") /\ UNCHANGED domainfile
    /\ UNCHANGED rows /\ Idly

Confirm(w) ==
    /\ worker[w].pc = "confirm"
    /\ rows' = Update(worker[w].id, [rows[worker[w].id] EXCEPT !.ssl = "active"])
    /\ Ends(w)
    /\ UNCHANGED <<domainfile, dbudget>> /\ Idly

\* The domain stays verified, without a route: no pass of the job looks at it again.
Fail(w) ==
    /\ worker[w].pc = "fail"
    /\ rows' = Update(worker[w].id, [rows[worker[w].id] EXCEPT !.ssl = "failed"])
    /\ Ends(w)
    /\ UNCHANGED <<domainfile, dbudget>> /\ Idly

\* The process dies, the job with its queue, or the request with its client.
Die(w) ==
    /\ worker[w] # Rest
    /\ Ends(w)
    /\ queue' = IF w = "job" THEN {} ELSE queue
    /\ DomainSpend("fault")
    /\ UNCHANGED <<rows, domainfile, pointing, remover, mixed, stray>>

Verify(w) ==
    Resolve(w) \/ Refuse(w) \/ Accept(w) \/ OpenFile(w) \/ WriteFile(w) \/ Confirm(w) \/ Fail(w)
-----------------------------------------------------------------------------
\* A row the job has selected is verified though it is gone by then.
Busied(ids) == mixed' = mixed \cup {id \in ids : Handled(id) \/ id \in queue}
Quietly == UNCHANGED <<pointing, queue, worker>>

\* DELETE /hostings/{hosting_id}/domains/{domain_id}: the row, then the file.
AskDelete(id) ==
    /\ remover.pc = "idle"
    /\ Here(id) /\ rows[id].host \in hosted
    /\ rows' = Removed(id)
    /\ remover' = [pc |-> "file", host |-> 0, ids |-> {id}]
    /\ Busied({id})
    /\ DomainSpend("remove")
    /\ UNCHANGED <<domainfile, stray>> /\ Quietly

\* remove_traefik_config does not raise.
Unlinked(id) ==
    \/ /\ domainfile' = [domainfile EXCEPT ![id] = "absent"]
       /\ UNCHANGED <<stray, dbudget>>
    \/ /\ domainfile[id] # "absent" /\ UNCHANGED domainfile
       /\ stray' = stray \cup {id} /\ DomainSpend("fault")

DeleteFile ==
    /\ remover.pc = "file"
    /\ \E id \in remover.ids : Unlinked(id)
    /\ remover' = [pc |-> "idle", host |-> 0, ids |-> {}]
    /\ UNCHANGED <<rows, mixed>> /\ Quietly

\* POST /hostings/{hosting_id}/terminate: of each domain the file, then the row.
RowsOf(h) == {id \in DOMAIN rows : Here(id) /\ rows[id].host = h}

AskTerminate(h) ==
    /\ remover.pc = "idle" /\ h \in hosted
    /\ remover' = [pc |-> "domains", host |-> h, ids |-> RowsOf(h)]
    /\ Busied(RowsOf(h))
    /\ DomainSpend("remove")
    /\ UNCHANGED <<rows, domainfile, stray>> /\ Quietly

\* The row is not deleted and the termination goes on.
RowKept(id) ==
    /\ domainfile' = [domainfile EXCEPT ![id] = "absent"] /\ UNCHANGED rows
    /\ stray' = stray \cup {id} /\ DomainSpend("fault")

TerminateDomain(id) ==
    /\ remover.pc = "domains" /\ id \in remover.ids
    /\ (Unlinked(id) /\ rows' = Removed(id)) \/ RowKept(id)
    /\ remover' = [remover EXCEPT !.ids = @ \ {id}]
    /\ UNCHANGED mixed /\ Quietly

\* The hosting is deleted next: by the module that composes this one.
DomainsTerminated(h) ==
    /\ remover.pc = "domains" /\ remover.ids = {} /\ remover.host = h
    /\ remover' = [pc |-> "idle", host |-> 0, ids |-> {}]
    /\ UNCHANGED <<rows, domainfile, mixed, stray, dbudget>> /\ Quietly

\* The process dies: of a deletion the file stays.
RemoverDies ==
    /\ remover.pc # "idle"
    /\ remover' = [pc |-> "idle", host |-> 0, ids |-> {}]
    /\ stray' = IF remover.pc = "file" THEN stray \cup remover.ids ELSE stray
    /\ DomainSpend("fault")
    /\ UNCHANGED <<rows, domainfile, mixed>> /\ Quietly

Removal == DeleteFile \/ \E id \in DOMAIN rows : TerminateDomain(id)

\* The hosting's row goes and ON DELETE CASCADE takes its domains': their files stay.
Cascade(h) ==
    /\ rows' = [id \in DOMAIN rows |-> [rows[id] EXCEPT !.here = @ /\ id \notin RowsOf(h)]]
    /\ stray' = stray \cup RowsOf(h)
    /\ UNCHANGED <<domainfile, pointing, requests, mixed, dbudget>>

DomainNext ==
    \/ \E h \in Hosts, n \in Names : AddDomain(h, n)
    \/ \E n \in Names : PointDns(n)
    \/ SelectPending \/ JobTakes
    \/ \E c \in Clients, id \in DOMAIN rows : AskVerify(c, id)
    \/ \E w \in Workers : Verify(w) \/ Die(w)
    \/ \E id \in DOMAIN rows : AskDelete(id)
    \/ \E h \in Hosts : AskTerminate(h)
    \/ Removal \/ RemoverDies
-----------------------------------------------------------------------------
Apart(id) == id \notin mixed /\ \A w \in Workers : worker[w].id # id

\* A domain among the oldest that are pending is verified once its DNS points here, apart from
\* rows of which a verification overlapped another or the removal.
Follows(id) ==
    id \notin mixed /\ Here(id) /\ rows[id].name \in pointing =>
        rows[id].dns = "active" \/ id \notin BatchOf

\* A domain that is said to be served has its route until its removal, and one that is gone
\* leaves none once its removal has ended, whatever fails or dies on the way: apart from the
\* same rows, and from those of which the code loses the row or the file (stray).
Matches(id) ==
    Apart(id) /\ id \notin stray /\ ~Leaving(id) =>
        /\ Here(id) /\ rows[id].ssl = "active" => domainfile[id] = "whole"
        /\ ~Here(id) => domainfile[id] = "absent"
=============================================================================
