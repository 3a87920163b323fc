------------------------------- MODULE Routes -------------------------------
(***************************************************************************)
(* What is routed: RouterGuard and the custom domains of its tenants, who  *)
(* meet in the hostings that are terminated and deleted.                   *)
(***************************************************************************)
EXTENDS RouterGuard, Sequences

CONSTANTS
    Names, Batch, Clients, DomainBudgets,
    RouteWorlds     \* bounds: statuses to begin with and the budgets that go with them

VARIABLES rows, domainfile, pointing, queue, worker, remover, mixed, stray, dbudget

Domains == INSTANCE CustomDomains WITH Hosts <- Sites, hosted <- {s \in Sites : status[s] # "deleted"}

dvars == <<rows, domainfile, pointing, queue, worker, remover, mixed, stray, dbudget>>

ASSUME RoutesAssumption ==
    /\ Batch \in Nat \ {0}
    /\ DomainBudgets \subseteq [Domains!DomainKinds -> Nat]

RoutesInit == GuardInit /\ Domains!DomainInit /\ <<status, budget, dbudget>> \in RouteWorlds

\* delete_hosting, at the end, and with it the domains' rows.
DeleteRowAndDomains(s) == RowDeleted(s) /\ Domains!Cascade(s)

\* terminate_hosting_by_user goes on with delete_hosting.
TerminateGoesOn(s) ==
    /\ Domains!DomainsTerminated(s)
    /\ \/ DeletionBegins(s) /\ Calm
       \/ (status[s] = "deleted" \/ deleting[s] # "none") /\ UNCHANGED rvars

GuardStep == Guard /\ UNCHANGED dvars
AdminStep == (AdminReport \/ OpenRoute \/ WriteRoute \/ StopContainer \/ RemoveContainer
                \/ RunContainer) /\ UNCHANGED dvars
Deletion ==
    \E s \in Sites :
        \/ DeletionStep(s) /\ UNCHANGED dvars
        \/ DeleteRowAndDomains(s) \/ TerminateGoesOn(s)
JobStep == (Domains!SelectPending \/ Domains!JobTakes \/ Domains!Verify("job")) /\ UNCHANGED rvars
ClientStep(c) == Domains!Verify(c) /\ UNCHANGED rvars
RemovalStep == Domains!Removal /\ UNCHANGED rvars

RoutesNext ==
    \/ GuardStep
    \/ (Restart \/ Admin \/ RouteChange \/ PlatformChange) /\ UNCHANGED dvars
    \/ \E s \in Sites : /\ TenantChange(s) \/ HostingExpires(s) \/ DeleteHosting(s) \/ DeletionDies(s)
                        /\ UNCHANGED dvars
    \/ Deletion
    \/ Domains!DomainNext /\ UNCHANGED rvars

\* The fairness of RouterGuard; the job comes round, and a request that has begun goes on.
RoutesSpec ==
    /\ RoutesInit
    /\ [][RoutesNext]_<<rvars, dvars>>
    /\ WF_<<rvars, dvars>>(GuardStep)
    /\ WF_<<rvars, dvars>>(AdminStep)
    /\ WF_<<rvars, dvars>>(Deletion)
    /\ WF_<<rvars, dvars>>(JobStep)
    /\ \A c \in Clients : WF_<<rvars, dvars>>(ClientStep(c))
    /\ WF_<<rvars, dvars>>(RemovalStep)
-----------------------------------------------------------------------------
\* Custom domains follow their DNS, again and again (CustomDomains: Follows).
DomainsFollow == []<>(\A id \in DOMAIN rows : Domains!Follows(id))

\* What the jobs that come round bring back: in "protect" the platform is reachable again, its
\* files rewritten by the guard (PlatformRestored), and a custom domain that points here is
\* verified by the domains' job.  That the domain is also routed is not claimed: a route file
\* that could not be written is left so, with the row 'active' (domain_checker.py:282-287),
\* and no pass selects it again (domain_repository.py:132).
RoutesRecover == PlatformRestored /\ DomainsFollow

\* What Traefik routes of custom domains is what their rows say (custom_domains.py:176-180,
\* domain_checker.py:93), but where a verification overlapped another or the removal, and where
\* the code loses the row or the file (CustomDomains: Matches).
DomainRoutesMatch == \A id \in DOMAIN rows : Domains!Matches(id)
=============================================================================
