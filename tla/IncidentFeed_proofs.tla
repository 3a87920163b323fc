------------------------- MODULE IncidentFeed_proofs -------------------------
(***************************************************************************)
(* Proofs about the alerts and the incident feed, for any sites, alerts,   *)
(* budgets and faults: type correctness, the recovery event that fires     *)
(* once, and what the feed shows (the safety of Mirror).                   *)
(***************************************************************************)
EXTENDS IncidentFeed, TLAPS

Verdict == Problems \cup {"none"}

Entry == [class : Classes \cup {"none"}, alert : Verdict, message : Verdict]

Between == [pc : {"idle", "next"}, left : SUBSET Sites]
Alerting == [pc : {"alert"}, left : SUBSET Sites, site : Sites, class : Classes, alert : Problems]
Resolving == [pc : {"resolve", "recovery"}, left : SUBSET Sites, site : Sites,
              class : Classes, alert : {"none"}]
Saving == [pc : {"save"}, left : SUBSET Sites, site : Sites, class : Classes, alert : Verdict]
AtSite == Alerting \cup Resolving \cup Saving

SiteTypes ==
    /\ status \in [Sites -> {"active", "expiring", "expired", "deleted"}]
    /\ condition \in [Sites -> Classes]
    /\ alerts \in [Sites -> [Levels -> Nat]]
    /\ history \in [Sites -> Entry]
    /\ check \in Between \cup AtSite
    /\ dashboard \subseteq Sites
    /\ diagnosis \in [pc : {"idle"}] \cup [pc : {"entry", "alerts"}, site : Sites, class : Classes]
    /\ recoveries \in [Sites -> Nat]

PlatformTypes ==
    /\ firing \subseteq Names
    /\ poll \in [pc : {"idle", "store"}, names : SUBSET Names, todo : SUBSET Names]
    /\ active \subseteq Names
    /\ events \subseteq [place : Places, ip : IPs, fresh : BOOLEAN]
    /\ deploys \in Seq([branch : Branches, outcome : Codes \cup {"success"}])

KeysOf(src) == CASE src = "security" -> Places
                 [] src = "site"     -> Sites \X Levels
                 [] src = "system"   -> Names
                 [] src = "deploy"   -> Codes

FeedTypes ==
    /\ incidents \in [Sources -> SUBSET UNION {KeysOf(src) : src \in Sources}]
    /\ seen \in [Sources -> SUBSET UNION {KeysOf(src) : src \in Sources}]
    /\ \A src \in Sources : incidents[src] \subseteq KeysOf(src) /\ seen[src] \subseteq KeysOf(src)
    /\ feed \in [pc : {"read", "write"}, at : 1 .. 4]

BoundTypes == budget \in [Kinds -> Nat] /\ faults \in 0 .. MaxFaults

TypeOK == SiteTypes /\ PlatformTypes /\ FeedTypes /\ BoundTypes
-----------------------------------------------------------------------------
LEMMA BoundStep ==
    ASSUME BoundTypes, Fault \/ Calm \/ UNCHANGED <<budget, faults>> \/ \E kind \in Kinds : Change(kind)
    PROVE  BoundTypes' /\ (faults' = 0 => faults = 0)
  <1>1. CASE Calm \/ UNCHANGED <<budget, faults>>
    BY <1>1 DEF Calm, BoundTypes
  <1>2. CASE Fault
    BY <1>2, SiteAlertsAssumption DEF Fault, BoundTypes
  <1>3. ASSUME NEW kind \in Kinds, Change(kind) PROVE BoundTypes' /\ UNCHANGED faults
    BY <1>3 DEF Change, BoundTypes
  <1> QED BY <1>1, <1>2, <1>3

\* What the sites' steps do to the bounds.
LEMMA SiteBounds ==
    ASSUME SiteNext
    PROVE  Fault \/ Calm \/ \E kind \in Kinds : Change(kind)
  <1>1. Cycle => Fault \/ Calm
    BY DEF Cycle, StartCycle, CreateAlert, ResolveAlerts, RecoveryEvent, SaveEntry, EndCycle, Probe, ProbeFails
  <1>2. ASSUME NEW s \in Sites, \/ RepairOnRead(s) \/ Repair(s) \/ \E l \in Levels : ResolveAlert(s, l)
        PROVE  Calm
    BY <1>2 DEF RepairOnRead, Repair, ResolveAlert
  <1>3. DiagnosisStored \/ DiagnosisAlerts => Fault \/ Calm
    BY DEF DiagnosisStored, DiagnosisAlerts
  <1>4. ASSUME NEW s \in Sites, Diagnose(s) \/ Restatus(s) \/ \E class \in Classes : Fluctuate(s, class)
        PROVE  \E kind \in Kinds : Change(kind)
    BY <1>4 DEF Diagnose, Restatus, Fluctuate, Kinds
  <1> QED BY <1>1, <1>2, <1>3, <1>4 DEF SiteNext, Reader, World

LEMMA PlatformBounds ==
    ASSUME PlatformNext
    PROVE  Fault \/ Calm \/ \E kind \in Kinds : Change(kind)
  <1>1. Poller => Fault \/ Calm
    BY DEF Poller, Fetch, ResolveNotIn, UpsertFiring
  <1>2. Security => Calm \/ \E kind \in Kinds : Change(kind)
    BY DEF Security, LogEvent, Attack, EventAges, ResolveEvent, Kinds
  <1>3. Deploying => Calm \/ \E kind \in Kinds : Change(kind)
    BY DEF Deploying, DeployAges, RecordDeploy, Kinds
  <1>4. ASSUME NEW n \in Names, Fire(n) PROVE \E kind \in Kinds : Change(kind)
    BY <1>4 DEF Fire, Kinds
  <1> QED BY <1>1, <1>2, <1>3, <1>4 DEF PlatformNext

LEMMA AlertsTyped ==
    ASSUME SiteTypes, NEW s \in Sites
    PROVE  /\ \A l \in Levels : Opened(s, l) \in [Sites -> [Levels -> Nat]]
           /\ ResolveOpen(s) \in [Sites -> [Levels -> Nat]]
  BY DEF SiteTypes, Opened, ResolveOpen

LEMMA StoreTyped ==
    ASSUME SiteTypes, NEW s \in Sites, NEW entry \in Entry, NEW alert,
           Store(s, entry, alert) \/ UNCHANGED <<history, recoveries>>
    PROVE  history' \in [Sites -> Entry] /\ recoveries' \in [Sites -> Nat]
  <1>1. CASE UNCHANGED <<history, recoveries>>
    BY <1>1 DEF SiteTypes
  <1>2. CASE Store(s, entry, alert)
    <2>1. history' \in [Sites -> Entry]
      BY <1>2 DEF Store, SiteTypes
    <2>2. recoveries' = [recoveries EXCEPT ![s] = IF alert = "none" THEN recoveries[s] ELSE 0]
      BY <1>2 DEF Store
    <2>3. recoveries[s] \in Nat
      BY DEF SiteTypes
    <2> QED BY <2>1, <2>2, <2>3 DEF SiteTypes
  <1> QED BY <1>1, <1>2

LEMMA CycleTypes == SiteTypes /\ Cycle => SiteTypes'
  <1> SUFFICES ASSUME SiteTypes, Cycle PROVE SiteTypes'
    OBVIOUS
  <1>0. /\ check.pc = "next" => check \in Between
        /\ check.pc = "alert" => check \in Alerting
        /\ check.pc \in {"resolve", "recovery"} => check \in Resolving
        /\ check.pc = "save" => check \in Saving
    BY DEF SiteTypes, Between, AtSite, Alerting, Resolving, Saving
  <1>1. ASSUME StartCycle \/ EndCycle \/ \E s \in Sites : ProbeFails(s) PROVE SiteTypes'
    <2>1. check' \in Between
      <3>1. CASE StartCycle \/ EndCycle
        BY <3>1 DEF StartCycle, EndCycle, Between, Idle
      <3>2. ASSUME NEW s \in Sites, ProbeFails(s) PROVE check' \in Between
        BY <1>0, <3>2 DEF ProbeFails, Between
      <3> QED BY <1>1, <3>1, <3>2
    <2>2. UNCHANGED <<status, condition, alerts, history, dashboard, diagnosis, recoveries>>
      BY <1>1 DEF StartCycle, EndCycle, ProbeFails
    <2> QED BY <2>1, <2>2 DEF SiteTypes
  <1>2. ASSUME NEW s \in Sites, Probe(s) PROVE SiteTypes'
    <2> DEFINE class == condition[s]
               alert == ProcessAlerts(s, class)
               left == check.left \ {s}
    <2>1. alert \in Verdict
      BY DEF ProcessAlerts, Verdict
    <2>2. class \in Classes /\ left \subseteq Sites
      BY <1>0, <1>2 DEF Probe, SiteTypes, Between
    <2>3. CASE alert # "none"
      <3>1. check' = Busy("alert", left, s, class, alert)
        BY <1>2, <2>3, ZenonT(60) DEF Probe, Recovering
      <3>2. check' \in Alerting
        BY <2>1, <2>2, <2>3, <3>1 DEF Busy, Alerting, Verdict
      <3> QED BY <1>2, <3>2 DEF Probe, SiteTypes, AtSite
    <2>4. CASE alert = "none" /\ Recovering(s, class, alert)
      <3>1. check' = Busy("resolve", left, s, class, alert)
        BY <1>2, <2>4 DEF Probe
      <3>2. check' \in Resolving
        BY <2>2, <2>4, <3>1 DEF Busy, Resolving
      <3> QED BY <1>2, <3>2 DEF Probe, SiteTypes, AtSite
    <2>5. CASE alert = "none" /\ ~Recovering(s, class, alert)
      <3>1. check' = Busy("save", left, s, class, alert)
        BY <1>2, <2>5 DEF Probe
      <3>2. check' \in Saving
        BY <2>1, <2>2, <3>1 DEF Busy, Saving
      <3> QED BY <1>2, <3>2 DEF Probe, SiteTypes, AtSite
    <2> QED BY <2>3, <2>4, <2>5
  <1>3. CASE CreateAlert
    <2>1. check.site \in Sites /\ check.alert \in Levels /\ check' \in Saving
      BY <1>0, <1>3 DEF CreateAlert, Alerting, Saving, Levels, Verdict
    <2>2. alerts' \in [Sites -> [Levels -> Nat]]
      BY <1>3, <2>1, AlertsTyped DEF CreateAlert, SiteTypes
    <2> QED BY <1>3, <2>1, <2>2 DEF CreateAlert, SiteTypes, AtSite
  <1>4. CASE ResolveAlerts
    <2>1. check.site \in Sites /\ check' \in Resolving
      BY <1>0, <1>4 DEF ResolveAlerts, Resolving
    <2>2. alerts' \in [Sites -> [Levels -> Nat]]
      BY <1>4, <2>1, AlertsTyped DEF ResolveAlerts, SiteTypes
    <2> QED BY <1>4, <2>1, <2>2 DEF ResolveAlerts, SiteTypes, AtSite
  <1>5. CASE RecoveryEvent
    <2>1. check.site \in Sites /\ "recovery" \in Levels /\ check' \in Saving
      BY <1>0, <1>5 DEF RecoveryEvent, Resolving, Saving, Levels, Verdict
    <2>2. alerts' \in [Sites -> [Levels -> Nat]]
      BY <1>5, <2>1, AlertsTyped DEF RecoveryEvent, SiteTypes
    <2>3. recoveries' \in [Sites -> Nat]
      BY <1>5, <2>1 DEF RecoveryEvent, SiteTypes
    <2> QED BY <1>5, <2>1, <2>2, <2>3 DEF RecoveryEvent, SiteTypes, AtSite
  <1>6. CASE SaveEntry
    <2>1. check \in Saving
      BY <1>0, <1>6 DEF SaveEntry
    <2>2. check' \in Between
      BY <1>6, <2>1 DEF SaveEntry, Saving, Between
    <2>3. Saved \in Entry /\ check.site \in Sites
      BY <2>1 DEF Saved, Entry, Saving, SiteTypes
    <2>4. Store(check.site, Saved, check.alert) \/ UNCHANGED <<history, recoveries>>
      BY <1>6 DEF SaveEntry
    <2>5. history' \in [Sites -> Entry] /\ recoveries' \in [Sites -> Nat]
      BY <2>3, <2>4, StoreTyped
    <2> QED BY <1>6, <2>2, <2>5 DEF SaveEntry, SiteTypes
  <1> QED BY <1>1, <1>2, <1>3, <1>4, <1>5, <1>6 DEF Cycle

LEMMA ReaderTypes == SiteTypes /\ (Reader \/ World) => SiteTypes'
  <1> SUFFICES ASSUME SiteTypes, Reader \/ World PROVE SiteTypes'
    OBVIOUS
  <1>1. ASSUME NEW s \in Sites, RepairOnRead(s) \/ Repair(s) \/ \E l \in Levels : ResolveAlert(s, l)
        PROVE  SiteTypes'
    <2>1. ASSUME NEW l \in Levels, ResolveAlert(s, l) PROVE alerts' \in [Sites -> [Levels -> Nat]]
      <3>1. alerts[s] \in [Levels -> Nat] /\ alerts[s][l] - 1 \in Nat
        BY <2>1 DEF ResolveAlert, SiteTypes
      <3>2. [alerts[s] EXCEPT ![l] = alerts[s][l] - 1] \in [Levels -> Nat]
        BY <3>1
      <3> QED BY <2>1, <3>2 DEF ResolveAlert, SiteTypes
    <2>2. alerts' \in [Sites -> [Levels -> Nat]]
      BY <1>1, <2>1, AlertsTyped DEF RepairOnRead, Repair, SiteTypes
    <2> QED BY <1>1, <2>2 DEF RepairOnRead, Repair, ResolveAlert, SiteTypes
  <1>2. ASSUME NEW s \in Sites, Diagnose(s) PROVE SiteTypes'
    <2>1. PICK class \in {condition[s], "critical"} :
            diagnosis' = [pc |-> "entry", site |-> s, class |-> class]
      BY <1>2 DEF Diagnose
    <2>2. class \in Classes
      BY DEF SiteTypes, Classes, Problems
    <2>3. diagnosis' \in [pc : {"entry", "alerts"}, site : Sites, class : Classes]
      BY <2>1, <2>2
    <2> QED BY <1>2, <2>3 DEF Diagnose, SiteTypes
  <1>3. CASE DiagnosisStored
    <2>1. diagnosis \in [pc : {"entry"}, site : Sites, class : Classes]
      BY <1>3 DEF DiagnosisStored, SiteTypes
    <2> DEFINE alert == IF diagnosis.class \in Problems THEN diagnosis.class ELSE "none"
               entry == [class |-> diagnosis.class, alert |-> alert,
                         message |-> IF alert = "none" THEN history[diagnosis.site].message ELSE alert]
    <2>2. entry \in Entry
      <3>1. diagnosis.class \in Classes /\ diagnosis.site \in Sites /\ alert \in Verdict
        BY <2>1 DEF Verdict
      <3>2. history[diagnosis.site].message \in Verdict
        BY <3>1 DEF SiteTypes, Entry
      <3> QED BY <3>1, <3>2 DEF Entry
    <2>3. Store(diagnosis.site, entry, alert) \/ UNCHANGED <<history, recoveries>>
      BY <1>3 DEF DiagnosisStored
    <2> HIDE DEF alert, entry
    <2>4. history' \in [Sites -> Entry] /\ recoveries' \in [Sites -> Nat]
      BY <2>1, <2>2, <2>3, StoreTyped
    <2>5. diagnosis' \in [pc : {"idle"}] \cup [pc : {"entry", "alerts"}, site : Sites, class : Classes]
      BY <1>3, <2>1 DEF DiagnosisStored
    <2> QED BY <1>3, <2>4, <2>5 DEF DiagnosisStored, SiteTypes
  <1>4. CASE DiagnosisAlerts
    <2>1. diagnosis \in [pc : {"alerts"}, site : Sites, class : Classes]
      BY <1>4 DEF DiagnosisAlerts, SiteTypes
    <2>2. diagnosis.site \in Sites /\ (diagnosis.class \in Problems => diagnosis.class \in Levels)
      BY <2>1 DEF Levels
    <2>3. alerts' \in [Sites -> [Levels -> Nat]]
      BY <1>4, <2>2, AlertsTyped DEF DiagnosisAlerts, SiteTypes
    <2> QED BY <1>4, <2>3 DEF DiagnosisAlerts, SiteTypes
  <1>5. ASSUME NEW s \in Sites, Restatus(s) \/ \E class \in Classes : Fluctuate(s, class) PROVE SiteTypes'
    <2>1. ASSUME NEW st \in Successor[status[s]] PROVE st \in {"active", "expiring", "expired", "deleted"}
      BY <2>1 DEF Successor, SiteTypes
    <2>2. Restatus(s) => status' \in [Sites -> {"active", "expiring", "expired", "deleted"}]
      BY <2>1 DEF Restatus, SiteTypes
    <2>3. Restatus(s) => SiteTypes'
      BY <2>2 DEF Restatus, SiteTypes
    <2>4. ASSUME NEW class \in Classes, Fluctuate(s, class) PROVE SiteTypes'
      BY <2>4 DEF Fluctuate, SiteTypes
    <2> QED BY <1>5, <2>3, <2>4
  <1> QED BY <1>1, <1>2, <1>3, <1>4, <1>5 DEF Reader, World

LEMMA SiteTypesStep == SiteTypes /\ SiteNext => SiteTypes'
  BY CycleTypes, ReaderTypes DEF SiteNext

LEMMA PlatformTypesStep == PlatformTypes /\ PlatformNext => PlatformTypes'
  <1> SUFFICES ASSUME PlatformTypes, PlatformNext PROVE PlatformTypes'
    OBVIOUS
  <1>1. CASE Fetch \/ ResolveNotIn
    BY <1>1 DEF Fetch, ResolveNotIn, PlatformTypes
  <1>2. ASSUME NEW n \in Names, UpsertFiring(n) PROVE PlatformTypes'
    <2>1. poll' \in [pc : {"idle", "store"}, names : SUBSET Names, todo : SUBSET Names]
      BY <1>2 DEF UpsertFiring, PlatformTypes
    <2> QED BY <1>2, <2>1 DEF UpsertFiring, PlatformTypes
  <1>3. ASSUME NEW n \in Names, Fire(n) PROVE PlatformTypes'
    BY <1>3 DEF Fire, PlatformTypes
  <1>4. CASE Security
    <2>1. ASSUME NEW p \in Places, NEW ip \in IPs PROVE Event(p, ip) \in [place : Places, ip : IPs, fresh : BOOLEAN]
      BY DEF Event
    <2>2. ASSUME NEW e \in events PROVE [e EXCEPT !.fresh = FALSE] \in [place : Places, ip : IPs, fresh : BOOLEAN]
      <3>1. e \in [place : Places, ip : IPs, fresh : BOOLEAN]
        BY DEF PlatformTypes
      <3> QED BY <3>1
    <2>3. \A s \in Sites : s \in Places
      BY DEF Places
    <2>4. events' \subseteq [place : Places, ip : IPs, fresh : BOOLEAN]
      BY <1>4, <2>1, <2>2, <2>3 DEF Security, LogEvent, Attack, Upserted, EventAges, ResolveEvent, PlatformTypes
    <2> QED BY <1>4, <2>4 DEF Security, LogEvent, Attack, EventAges, ResolveEvent, PlatformTypes
  <1>5. CASE DeployAges
    BY <1>5 DEF DeployAges, PlatformTypes
  <1>6. ASSUME NEW b \in Branches, NEW o \in Codes \cup {"success"}, RecordDeploy(b, o) PROVE PlatformTypes'
    BY <1>6 DEF RecordDeploy, PlatformTypes
  <1> QED BY <1>1, <1>2, <1>3, <1>4, <1>5, <1>6 DEF PlatformNext, Poller, Deploying
-----------------------------------------------------------------------------
\* What a source may raise.
LEMMA RaisedKeys ==
    ASSUME SiteTypes, PlatformTypes, NEW src \in Sources
    PROVE  Raised(src) \subseteq KeysOf(src)
  <1>1. SecurityKeys \subseteq Places
    BY DEF SecurityKeys, PlatformTypes
  <1>2. SiteKeys \subseteq Sites \X Levels
    BY DEF SiteKeys
  <1>3. \A i \in Effective : deploys[i].outcome \in Codes
    <2> SUFFICES ASSUME NEW i \in Effective PROVE deploys[i].outcome \in Codes
      OBVIOUS
    <2>1. i \in DOMAIN deploys /\ deploys[i].outcome # "success"
      BY DEF Effective, Standing
    <2>2. deploys[i] \in [branch : Branches, outcome : Codes \cup {"success"}]
      <3> DEFINE T == [branch : Branches, outcome : Codes \cup {"success"}]
      <3>1. deploys \in Seq(T)
        BY DEF PlatformTypes
      <3> HIDE DEF T
      <3>2. deploys[i] \in T
        BY <2>1, <3>1
      <3> QED BY <3>2 DEF T
    <2> QED BY <2>1, <2>2
  <1>4. src \in {"security", "site", "system", "deploy"}
    BY DEF Sources, Order
  <1> QED BY <1>1, <1>2, <1>3, <1>4 DEF Raised, KeysOf, PlatformTypes

LEMMA SourceAt ==
    /\ \A i \in 1 .. 4 : Order[i] \in Sources
    /\ Sources = {"security", "site", "system", "deploy"}
    /\ Order[1] = "security" /\ Order[2] = "site" /\ Order[3] = "system" /\ Order[4] = "deploy"
  BY DEF Order, Sources

\* The keys of a source, put into a map.
LEMMA MapTyped ==
    ASSUME NEW f \in [Sources -> SUBSET UNION {KeysOf(src) : src \in Sources}],
           \A src \in Sources : f[src] \subseteq KeysOf(src),
           NEW at \in Sources, NEW S \in SUBSET KeysOf(at)
    PROVE  /\ [f EXCEPT ![at] = S] \in [Sources -> SUBSET UNION {KeysOf(src) : src \in Sources}]
           /\ \A src \in Sources : [f EXCEPT ![at] = S][src] \subseteq KeysOf(src)
  <1>1. S \subseteq UNION {KeysOf(src) : src \in Sources}
    OBVIOUS
  <1> QED BY <1>1

LEMMA FeedTypesStep ==
    ASSUME SiteTypes, PlatformTypes, FeedTypes,
           Feed \/ Restart \/ \E src \in Sources : \E k \in incidents[src] : AdminResolve(src, k)
    PROVE  FeedTypes'
  <1>1. CASE ReadSource
    <2> DEFINE src == Order[feed.at]
    <2>1. src \in Sources /\ feed' \in [pc : {"read", "write"}, at : 1 .. 4]
      BY <1>1, SourceAt DEF ReadSource, FeedTypes
    <2>2. Raised(src) \in SUBSET KeysOf(src)
      BY <2>1, RaisedKeys
    <2>3. seen' = [seen EXCEPT ![src] = Raised(src)] /\ UNCHANGED incidents
      BY <1>1 DEF ReadSource
    <2> HIDE DEF src
    <2> QED BY <2>1, <2>2, <2>3, MapTyped DEF FeedTypes
  <1>2. CASE WriteSource
    <2> DEFINE src == Order[feed.at]
    <2>1. src \in Sources /\ feed' \in [pc : {"read", "write"}, at : 1 .. 4]
      BY <1>2, SourceAt DEF WriteSource, Advance, Resting, FeedTypes
    <2>2. seen' = [seen EXCEPT ![src] = {}]
          /\ (incidents' = [incidents EXCEPT ![src] = Reconciled(src)] \/ UNCHANGED incidents)
      BY <1>2 DEF WriteSource
    <2> HIDE DEF src
    <2>3. Reconciled(src) \in SUBSET KeysOf(src)
      BY <2>1 DEF Reconciled, FeedTypes
    <2>4. {} \in SUBSET KeysOf(src)
      OBVIOUS
    <2>5. /\ seen' \in [Sources -> SUBSET UNION {KeysOf(x) : x \in Sources}]
          /\ \A x \in Sources : seen'[x] \subseteq KeysOf(x)
      BY <2>1, <2>2, <2>4, MapTyped DEF FeedTypes
    <2>6. /\ incidents' \in [Sources -> SUBSET UNION {KeysOf(x) : x \in Sources}]
          /\ \A x \in Sources : incidents'[x] \subseteq KeysOf(x)
      <3>1. CASE UNCHANGED incidents
        BY <3>1 DEF FeedTypes
      <3>2. CASE incidents' = [incidents EXCEPT ![src] = Reconciled(src)]
        BY <2>1, <2>3, <3>2, MapTyped DEF FeedTypes
      <3> QED BY <2>2, <3>1, <3>2
    <2> QED BY <2>1, <2>5, <2>6 DEF FeedTypes, KeysOf
  <1>3. CASE Restart
    BY <1>3 DEF Restart, Resting, FeedTypes
  <1>4. ASSUME NEW src \in Sources, NEW k \in incidents[src], AdminResolve(src, k) PROVE FeedTypes'
    <2>1. incidents[src] \ {k} \in SUBSET KeysOf(src)
      BY DEF FeedTypes
    <2>2. incidents' = [incidents EXCEPT ![src] = incidents[src] \ {k}] /\ UNCHANGED <<seen, feed>>
      BY <1>4 DEF AdminResolve
    <2> QED BY <2>1, <2>2, MapTyped DEF FeedTypes
  <1> QED BY <1>1, <1>2, <1>3, <1>4 DEF Feed

LEMMA TypeInit == Init => TypeOK
  <1> SUFFICES ASSUME Init PROVE TypeOK
    OBVIOUS
  <1>1. SiteTypes
    BY DEF Init, SiteInit, SiteTypes, Entry, Verdict, Between, Idle, Classes
  <1>2. PlatformTypes
    BY DEF Init, PlatformInit, PlatformTypes
  <1>3. FeedTypes
    BY DEF Init, FeedTypes, Resting
  <1>4. BoundTypes
    BY SiteAlertsAssumption DEF Init, BoundTypes
  <1> QED BY <1>1, <1>2, <1>3, <1>4 DEF TypeOK

LEMMA TypeNext == TypeOK /\ [Next]_vars => TypeOK'
  <1> SUFFICES ASSUME TypeOK, [Next]_vars PROVE TypeOK'
    OBVIOUS
  <1> USE DEF TypeOK
  <1>0. /\ UNCHANGED siteVars => SiteTypes'
        /\ UNCHANGED platformVars => PlatformTypes'
        /\ Beside => FeedTypes'
    BY DEF SiteTypes, PlatformTypes, FeedTypes, siteVars, platformVars, Beside
  <1>1. CASE UNCHANGED vars
    BY <1>0, <1>1, BoundStep DEF vars, Beside
  <1>2. CASE SiteNext /\ UNCHANGED platformVars /\ Beside
    BY <1>0, <1>2, SiteTypesStep, SiteBounds, BoundStep
  <1>3. CASE PlatformNext /\ UNCHANGED siteVars /\ Beside
    BY <1>0, <1>3, PlatformTypesStep, PlatformBounds, BoundStep
  <1>4. CASE Feed
    <2>1. Fault \/ Calm
      BY <1>4 DEF Feed, ReadSource, WriteSource
    <2> QED BY <1>0, <1>4, <2>1, FeedTypesStep, BoundStep DEF Feed
  <1>5. CASE Restart
    <2>1. SiteTypes'
      BY <1>5 DEF Restart, SiteTypes, Idle, Between
    <2>2. PlatformTypes'
      BY <1>5 DEF Restart, PlatformTypes
    <2>3. Fault
      BY <1>5 DEF Restart
    <2> QED BY <1>5, <2>1, <2>2, <2>3, FeedTypesStep, BoundStep
  <1>6. CASE \E src \in Sources : \E k \in incidents[src] : AdminResolve(src, k)
    <2>1. Calm /\ UNCHANGED <<siteVars, platformVars>>
      BY <1>6 DEF AdminResolve
    <2> QED BY <1>0, <1>6, <2>1, FeedTypesStep, BoundStep
  <1> QED BY <1>1, <1>2, <1>3, <1>4, <1>5, <1>6 DEF Next

\* Every reachable state of the alerts, their sources and the feed is well typed; a score
\* about to alert has a problem to alert of.
THEOREM FeedTypeCorrect == Spec => []TypeOK
  BY TypeInit, TypeNext, PTL DEF Spec
-----------------------------------------------------------------------------
\* RecoveryNotRepeated: while nothing has failed, a site whose recovery was announced has no
\* problem in its last entry, or the entry that says so is about to be saved, whatever a
\* diagnosis stores in between.

Announced ==
    faults = 0 => \A s \in Sites :
        /\ recoveries[s] <= 1
        /\ recoveries[s] = 1 =>
             \/ history[s].alert \notin Problems
             \/ check.pc = "save" /\ check.site = s /\ check.alert = "none"
        /\ (check.pc \in {"resolve", "recovery"} /\ check.site = s) => recoveries[s] = 0

\* A store forgets the recoveries, or leaves an entry without a problem.
LEMMA StoreAnnounced ==
    ASSUME SiteTypes, NEW s \in Sites, NEW entry \in Entry, NEW alert \in Verdict, entry.alert = alert,
           Store(s, entry, alert)
    PROVE  \A x \in Sites : /\ x # s => history'[x] = history[x] /\ recoveries'[x] = recoveries[x]
                            /\ x = s => \/ recoveries'[x] = 0
                                        \/ history'[x].alert = "none" /\ recoveries'[x] = recoveries[x]
  <1>1. history' = [history EXCEPT ![s] = entry]
        /\ recoveries' = [recoveries EXCEPT ![s] = IF alert = "none" THEN recoveries[s] ELSE 0]
    BY DEF Store
  <1> QED BY <1>1 DEF SiteTypes

LEMMA AnnouncedCycle ==
    ASSUME SiteTypes, BoundTypes, Announced, Cycle, faults' = 0, faults = 0
    PROVE  Announced'
  <1>0. /\ check.pc = "next" => check \in Between
        /\ check.pc = "alert" => check \in Alerting
        /\ check.pc \in {"resolve", "recovery"} => check \in Resolving
        /\ check.pc = "save" => check \in Saving
    BY DEF SiteTypes, Between, AtSite, Alerting, Resolving, Saving
  <1>1. ~Fault
    BY DEF Fault
  <1>2. CASE StartCycle \/ EndCycle
    BY <1>2 DEF StartCycle, EndCycle, Idle, Announced
  <1>3. ASSUME NEW s \in Sites, Probe(s) PROVE Announced'
    <2> DEFINE class == condition[s]
               alert == ProcessAlerts(s, class)
               left == check.left \ {s}
    <2>1. UNCHANGED <<recoveries, history>> /\ check.pc = "next"
      BY <1>3 DEF Probe
    <2>2. CASE alert # "none"
      <3>1. check' = Busy("alert", left, s, class, alert)
        BY <1>3, <2>2, ZenonT(60) DEF Probe, Recovering
      <3>2. check'.pc = "alert"
        BY <3>1 DEF Busy
      <3> QED BY <2>1, <3>2 DEF Announced
    <2>3. CASE alert = "none" /\ Recovering(s, class, alert)
      <3>1. check' = Busy("resolve", left, s, class, alert)
        BY <1>3, <2>3 DEF Probe
      <3>2. check'.pc = "resolve" /\ check'.site = s
        BY <3>1 DEF Busy
      <3>3. recoveries[s] = 0
        <4>1. history[s].alert \in Problems
          BY <2>3 DEF Recovering
        <4>2. recoveries[s] \in Nat
          BY DEF SiteTypes
        <4> HIDE DEF alert, class
        <4> QED BY <2>1, <4>1, <4>2 DEF Announced
      <3> QED BY <2>1, <3>2, <3>3 DEF Announced
    <2>4. CASE alert = "none" /\ ~Recovering(s, class, alert)
      <3>1. check' = Busy("save", left, s, class, alert)
        BY <1>3, <2>4 DEF Probe
      <3>2. check'.pc = "save"
        BY <3>1 DEF Busy
      <3> QED BY <2>1, <3>2 DEF Announced
    <2> QED BY <2>2, <2>3, <2>4
  <1>4. CASE CreateAlert
    BY <1>4 DEF CreateAlert, Announced, SiteTypes
  <1>5. CASE ResolveAlerts
    <2>1. check' = [check EXCEPT !.pc = "recovery"] /\ check \in Resolving
          /\ UNCHANGED <<recoveries, history>>
      BY <1>0, <1>5 DEF ResolveAlerts
    <2>2. check'.pc = "recovery" /\ check'.site = check.site /\ check.pc = "resolve"
      BY <1>5, <2>1 DEF ResolveAlerts, Resolving
    <2> QED BY <2>1, <2>2 DEF Announced
  <1>6. CASE RecoveryEvent
    <2>1. check \in Resolving /\ check' = [check EXCEPT !.pc = "save"] /\ UNCHANGED history
          /\ recoveries' = [recoveries EXCEPT ![check.site] = recoveries[check.site] + 1]
      BY <1>0, <1>1, <1>6 DEF RecoveryEvent
    <2>2. check'.pc = "save" /\ check'.site = check.site /\ check'.alert = "none" /\ check.pc = "recovery"
      BY <1>6, <2>1 DEF RecoveryEvent, Resolving
    <2>3. \A s \in Sites : recoveries'[s] = IF s = check.site THEN recoveries[s] + 1 ELSE recoveries[s]
      BY <2>1 DEF SiteTypes
    <2> QED BY <2>1, <2>2, <2>3 DEF Announced
  <1>7. CASE SaveEntry
    <2>1. check \in Saving /\ Store(check.site, Saved, check.alert) /\ check'.pc = "next"
      BY <1>0, <1>1, <1>7 DEF SaveEntry
    <2>2. Saved \in Entry /\ Saved.alert = check.alert /\ check.site \in Sites /\ check.alert \in Verdict
      BY <2>1 DEF Saved, Entry, Saving, SiteTypes
    <2>3. \A x \in Sites : /\ x # check.site => history'[x] = history[x] /\ recoveries'[x] = recoveries[x]
                           /\ x = check.site => \/ recoveries'[x] = 0
                                                \/ history'[x].alert = "none" /\ recoveries'[x] = recoveries[x]
      BY <2>1, <2>2, StoreAnnounced
    <2> QED BY <2>1, <2>3 DEF Announced, Problems
  <1> QED BY <1>1, <1>2, <1>3, <1>4, <1>5, <1>6, <1>7 DEF Cycle, ProbeFails

LEMMA AnnouncedOther ==
    ASSUME SiteTypes, Announced, Reader \/ World, faults' = 0, faults = 0
    PROVE  Announced'
  <1>1. CASE DiagnosisStored
    <2> DEFINE alert == IF diagnosis.class \in Problems THEN diagnosis.class ELSE "none"
               entry == [class |-> diagnosis.class, alert |-> alert,
                         message |-> IF alert = "none" THEN history[diagnosis.site].message ELSE alert]
    <2>1. diagnosis \in [pc : {"entry"}, site : Sites, class : Classes]
      BY <1>1 DEF DiagnosisStored, SiteTypes
    <2>2. diagnosis.site \in Sites /\ alert \in Verdict /\ entry.alert = alert
      BY <2>1 DEF Verdict
    <2>3. entry \in Entry
      <3>1. history[diagnosis.site].message \in Verdict /\ diagnosis.class \in Classes
        BY <2>1, <2>2 DEF SiteTypes, Entry
      <3> QED BY <2>2, <3>1 DEF Entry
    <2>4. Store(diagnosis.site, entry, alert) /\ UNCHANGED check
      BY <1>1 DEF DiagnosisStored, Fault
    <2> HIDE DEF alert, entry
    <2>5. \A x \in Sites : /\ x # diagnosis.site => history'[x] = history[x] /\ recoveries'[x] = recoveries[x]
                           /\ x = diagnosis.site => \/ recoveries'[x] = 0
                                                    \/ history'[x].alert = "none" /\ recoveries'[x] = recoveries[x]
      BY <2>2, <2>3, <2>4, StoreAnnounced
    <2> QED BY <2>4, <2>5 DEF Announced, Problems
  <1>2. CASE ~DiagnosisStored
    <2>1. UNCHANGED <<recoveries, history, check>>
      BY <1>2 DEF Reader, World, RepairOnRead, Repair, Diagnose, ResolveAlert, DiagnosisAlerts, Restatus, Fluctuate
    <2> QED BY <2>1 DEF Announced
  <1> QED BY <1>1, <1>2

LEMMA AnnouncedNext == TypeOK /\ Announced /\ [Next]_vars => Announced'
  <1> SUFFICES ASSUME TypeOK, Announced, [Next]_vars, faults' = 0 PROVE Announced'
    BY DEF Announced
  <1>1. CASE SiteNext
    <2>1. faults = 0
      BY <1>1, SiteBounds, BoundStep DEF TypeOK
    <2> QED BY <1>1, <2>1, AnnouncedCycle, AnnouncedOther DEF SiteNext, TypeOK
  <1>2. CASE PlatformNext /\ UNCHANGED siteVars
    <2>1. faults = 0
      BY <1>2, PlatformBounds, BoundStep DEF TypeOK
    <2> QED BY <1>2, <2>1 DEF Announced, siteVars
  <1>3. CASE UNCHANGED vars \/ Feed \/ \E src \in Sources : \E k \in incidents[src] : AdminResolve(src, k)
    <2>1. UNCHANGED siteVars /\ faults = 0
      BY <1>3 DEF vars, Feed, ReadSource, WriteSource, AdminResolve, Calm, Fault, TypeOK, BoundTypes
    <2> QED BY <2>1 DEF Announced, siteVars
  <1>4. CASE Restart
    BY <1>4 DEF Restart, Fault, TypeOK, BoundTypes
  <1> QED BY <1>1, <1>2, <1>3, <1>4 DEF Next

\* A site that goes from bad to good announces it at most once, whatever cycles, diagnoses and
\* alerts of other sites run beside it, until a save fails or the scheduler is restarted.
THEOREM RecoveryAnnouncedAtMostOnce == Spec => []RecoveryNotRepeated
  <1>1. Init => Announced
    BY DEF Init, SiteInit, Announced, Idle
  <1>2. Announced => RecoveryNotRepeated
    BY DEF Announced, RecoveryNotRepeated
  <1> QED BY <1>1, <1>2, TypeInit, TypeNext, AnnouncedNext, PTL DEF Spec
-----------------------------------------------------------------------------
\* The feed implements Mirror, its liveness apart: nothing is shown but what its source
\* raised when it was last read.  Only the source in hand has keys that were seen.

OneSeen == \A src \in Sources : seen[src] # {} => feed.pc = "write" /\ src = Order[feed.at]

LEMMA OneSeenNext == TypeOK /\ OneSeen /\ [Next]_vars => OneSeen'
  <1> SUFFICES ASSUME TypeOK, OneSeen, [Next]_vars PROVE OneSeen'
    OBVIOUS
  <1>1. CASE ReadSource
    BY <1>1, SourceAt DEF ReadSource, OneSeen, TypeOK, FeedTypes
  <1>2. CASE WriteSource
    <2>1. \A src \in Sources : seen'[src] = {}
      BY <1>2, SourceAt DEF WriteSource, OneSeen, TypeOK, FeedTypes
    <2> QED BY <2>1 DEF OneSeen
  <1>3. CASE Restart
    BY <1>3 DEF Restart, OneSeen
  <1>4. CASE UNCHANGED <<seen, feed>>
    BY <1>4 DEF OneSeen
  <1> QED BY <1>1, <1>2, <1>3, <1>4 DEF Next, vars, Feed, Beside, AdminResolve

LEMMA MirroredSources ==
    /\ Mirrored = {"security", "site", "system"}
    /\ Mirrored \subseteq Sources /\ "deploy" \notin Mirrored
    /\ \A src \in Sources : src \notin Mirrored => src = "deploy"
  BY SourceAt DEF Mirrored

LEMMA MirrorInit == Init => Promise!Init
  <1> SUFFICES ASSUME Init PROVE Promise!Init
    OBVIOUS
  <1>1. SecurityKeys = {} /\ SiteKeys = {} /\ active = {}
    BY DEF Init, SiteInit, PlatformInit, SecurityKeys, SiteKeys
  <1>2. \A src \in Mirrored : Raised(src) = {}
    BY <1>1 DEF Mirrored, Raised
  <1>3. \A src \in Mirrored : seen[src] = {} /\ incidents[src] = {}
    BY MirroredSources DEF Init
  <1> QED BY <1>2, <1>3 DEF Promise!Init, Promise!Nothing

\* Where the sources stay, so does what they raise.
LEMMA RaisedSame ==
    ASSUME UNCHANGED <<status, alerts, active, events, deploys>>
    PROVE  \A src \in Mirrored : Raised(src)' = Raised(src)
  BY DEF Mirrored, Raised, SecurityKeys, SiteKeys

\* The keys of a source that is mirrored, as Mirror is given them.
LEMMA MirroredKeys ==
    \A src \in Mirrored :
        [security |-> Places, site |-> Sites \X Levels, system |-> Names][src] = KeysOf(src)
  BY DEF Mirrored, KeysOf

\* RaisedKeys, in the next state.
LEMMA MirroredRange ==
    ASSUME TypeOK'
    PROVE  \A src \in Mirrored : Raised(src)' \subseteq KeysOf(src)
  <1>1. SecurityKeys' \subseteq Places
    BY DEF SecurityKeys, PlatformTypes, TypeOK
  <1>2. SiteKeys' \subseteq Sites \X Levels
    BY DEF SiteKeys
  <1>3. active' \subseteq Names
    BY DEF PlatformTypes, TypeOK
  <1> QED BY <1>1, <1>2, <1>3 DEF Mirrored, Raised, KeysOf

LEMMA AlterStep ==
    ASSUME TypeOK, TypeOK', Beside
    PROVE  Promise!Alter
  <1>1. \A src \in Mirrored : Raised(src)' \subseteq KeysOf(src)
    BY MirroredRange
  <1>2. UNCHANGED <<incidents, seen>>
    BY DEF Beside
  <1> QED BY <1>1, <1>2, MirroredKeys DEF Promise!Alter

LEMMA LookStep ==
    ASSUME TypeOK, ReadSource, UNCHANGED <<siteVars, platformVars>>
    PROVE  [Promise!Next]_Promise!vars
  <1>0. PICK at \in Sources : at = Order[feed.at]
    BY SourceAt DEF TypeOK, FeedTypes
  <1>1. seen' = [seen EXCEPT ![at] = Raised(at)] /\ UNCHANGED incidents
    BY <1>0 DEF ReadSource
  <1>2. \A src \in Mirrored : Raised(src)' = Raised(src)
    BY RaisedSame DEF siteVars, platformVars
  <1>3. \A src \in Sources : seen'[src] = IF src = at THEN Raised(at) ELSE seen[src]
    BY <1>1 DEF TypeOK, FeedTypes
  <1>4. CASE at \in Mirrored
    <2>1. [src \in Mirrored |-> seen'[src]]
            = [[src \in Mirrored |-> seen[src]] EXCEPT ![at] = [src \in Mirrored |-> Raised(src)][at]]
      BY <1>3, <1>4, MirroredSources
    <2>2. Promise!Look(at)
      BY <1>1, <1>2, <2>1 DEF Promise!Look
    <2> QED BY <1>4, <2>2 DEF Promise!Next
  <1>5. CASE at \notin Mirrored
    <2>1. [src \in Mirrored |-> seen'[src]] = [src \in Mirrored |-> seen[src]]
      BY <1>3, <1>5, MirroredSources
    <2> QED BY <1>1, <1>2, <2>1 DEF Promise!vars
  <1> QED BY <1>4, <1>5

LEMMA ShowStep ==
    ASSUME TypeOK, WriteSource, UNCHANGED <<siteVars, platformVars>>
    PROVE  [Promise!Next]_Promise!vars
  <1>0. PICK at \in Sources : at = Order[feed.at]
    BY SourceAt DEF TypeOK, FeedTypes
  <1>1. /\ seen' = [seen EXCEPT ![at] = {}]
        /\ incidents' = [incidents EXCEPT ![at] = Reconciled(at)] \/ UNCHANGED incidents
    BY <1>0 DEF WriteSource
  <1>2. \A src \in Mirrored : Raised(src)' = Raised(src)
    BY RaisedSame DEF siteVars, platformVars
  <1>3. \A src \in Sources : seen'[src] = IF src = at THEN {} ELSE seen[src]
    BY <1>1 DEF TypeOK, FeedTypes
  <1>4. CASE at \in Mirrored
    <2>1. [src \in Mirrored |-> seen'[src]] = [[src \in Mirrored |-> seen[src]] EXCEPT ![at] = {}]
      BY <1>3, <1>4, MirroredSources
    <2>2. CASE UNCHANGED incidents
      <3>1. Promise!Drop(at)
        BY <1>2, <2>1, <2>2 DEF Promise!Drop
      <3> QED BY <1>4, <3>1 DEF Promise!Next
    <2>3. CASE incidents' = [incidents EXCEPT ![at] = Reconciled(at)]
      <3>1. Reconciled(at) = seen[at]
        BY <1>4, MirroredSources DEF Reconciled
      <3>2. \A src \in Sources : incidents'[src] = IF src = at THEN seen[at] ELSE incidents[src]
        BY <1>1, <2>3, <3>1 DEF TypeOK, FeedTypes
      <3>3. [src \in Mirrored |-> incidents'[src]]
              = [[src \in Mirrored |-> incidents[src]] EXCEPT ![at] = [src \in Mirrored |-> seen[src]][at]]
        BY <1>4, <3>2, MirroredSources
      <3>4. Promise!Show(at)
        BY <1>2, <2>1, <3>3 DEF Promise!Show
      <3> QED BY <1>4, <3>4 DEF Promise!Next
    <2> QED BY <1>1, <2>2, <2>3
  <1>5. CASE at \notin Mirrored
    <2>1. [src \in Mirrored |-> seen'[src]] = [src \in Mirrored |-> seen[src]]
      BY <1>3, <1>5, MirroredSources
    <2>2. [src \in Mirrored |-> incidents'[src]] = [src \in Mirrored |-> incidents[src]]
      BY <1>1, <1>5, MirroredSources DEF TypeOK, FeedTypes
    <2> QED BY <1>2, <2>1, <2>2 DEF Promise!vars
  <1> QED BY <1>4, <1>5

LEMMA ClearStep ==
    ASSUME TypeOK, NEW src \in Sources, NEW k \in incidents[src], AdminResolve(src, k)
    PROVE  [Promise!Next]_Promise!vars
  <1>1. \A x \in Mirrored : Raised(x)' = Raised(x)
    BY RaisedSame DEF AdminResolve, siteVars, platformVars
  <1>2. \A x \in Sources : incidents'[x] = IF x = src THEN incidents[src] \ {k} ELSE incidents[x]
    BY DEF AdminResolve, TypeOK, FeedTypes
  <1>3. UNCHANGED seen
    BY DEF AdminResolve
  <1>4. CASE src \in Mirrored
    <2> DEFINE shown == [x \in Mirrored |-> incidents[x]]
    <2>1. shown[src] = incidents[src]
      BY <1>4
    <2>2. [x \in Mirrored |-> incidents'[x]] = [shown EXCEPT ![src] = shown[src] \ {k}]
      BY <1>2, <1>4, <2>1, MirroredSources
    <2>3. Promise!Clear(src)
      BY <1>1, <1>3, <2>1, <2>2 DEF Promise!Clear
    <2> QED BY <1>4, <2>3 DEF Promise!Next
  <1>5. CASE src \notin Mirrored
    <2>1. [x \in Mirrored |-> incidents'[x]] = [x \in Mirrored |-> incidents[x]]
      BY <1>2, <1>5, MirroredSources
    <2> QED BY <1>1, <1>3, <2>1 DEF Promise!vars
  <1> QED BY <1>4, <1>5

\* A restart forgets what the source in hand was seen to raise.
LEMMA RestartStep ==
    ASSUME TypeOK, OneSeen, Restart
    PROVE  [Promise!Next]_Promise!vars
  <1>0. PICK at \in Sources : at = Order[feed.at]
    BY SourceAt DEF TypeOK, FeedTypes
  <1>1. \A src \in Sources : src # at => seen[src] = {}
    BY <1>0 DEF OneSeen
  <1>2. \A src \in Mirrored : Raised(src)' = Raised(src)
    BY RaisedSame DEF Restart
  <1>3. UNCHANGED incidents /\ \A src \in Sources : seen'[src] = {}
    BY DEF Restart
  <1>4. CASE at \in Mirrored
    <2>1. [src \in Mirrored |-> seen'[src]] = [[src \in Mirrored |-> seen[src]] EXCEPT ![at] = {}]
      BY <1>1, <1>3, <1>4, MirroredSources
    <2>2. Promise!Drop(at)
      BY <1>2, <1>3, <2>1 DEF Promise!Drop
    <2> QED BY <1>4, <2>2 DEF Promise!Next
  <1>5. CASE at \notin Mirrored
    <2>1. [src \in Mirrored |-> seen'[src]] = [src \in Mirrored |-> seen[src]]
      BY <1>1, <1>3, <1>5, MirroredSources
    <2> QED BY <1>2, <1>3, <2>1 DEF Promise!vars
  <1> QED BY <1>4, <1>5

LEMMA MirrorNext == TypeOK /\ OneSeen /\ [Next]_vars => [Promise!Next]_Promise!vars
  <1> SUFFICES ASSUME TypeOK, OneSeen, [Next]_vars PROVE [Promise!Next]_Promise!vars
    OBVIOUS
  <1>0. TypeOK'
    BY TypeNext
  <1>1. CASE UNCHANGED vars
    <2>1. \A src \in Mirrored : Raised(src)' = Raised(src)
      BY <1>1, RaisedSame DEF vars, siteVars, platformVars
    <2> QED BY <1>1, <2>1 DEF vars, Promise!vars
  <1>2. CASE (SiteNext \/ PlatformNext) /\ Beside
    BY <1>0, <1>2, AlterStep DEF Promise!Next
  <1>3. CASE Feed
    BY <1>3, LookStep, ShowStep DEF Feed
  <1> QED BY <1>1, <1>2, <1>3, ClearStep, RestartStep DEF Next

\* The incidents of security events, site alerts and system alerts show what their source
\* raised when it was last read, less what an admin resolved: no other alert becomes an
\* incident, through rollbacks, restarts and sources that change between look and show.
THEOREM FeedShowsRaised == Spec => Promise!Safe
  <1>1. Init => OneSeen
    BY DEF Init, OneSeen
  <1> QED BY <1>1, TypeInit, TypeNext, OneSeenNext, MirrorInit, MirrorNext, PTL DEF Spec, Promise!Safe
=============================================================================
