------------------------ MODULE IncidentAdvice_proofs ------------------------
(* What admins are asked to decide on, for any incidents, rules, generators,    *)
(* planners and budgets: a decided recommendation is left as it was decided     *)
(* (DecisionKept), and there is one of each kind to decide on (OneCurrent).     *)
EXTENDS IncidentAdvice, FiniteSetTheorems, TLAPS

IsRow(r) == r = [incident |-> r.incident, hash |-> r.hash, status |-> r.status]

\* The table is a finite sequence of rows, none of which is ever taken away.
Rows(n) == /\ actions = [a \in 1 .. n |-> actions[a]]
           /\ \A a \in 1 .. n : IsRow(actions[a])

IInv == \E n \in Nat : Rows(n)

\* What Append does to a function on 1..n, whatever its values are.
LEMMA Appended ==
    ASSUME NEW f, NEW n \in Nat, f = [a \in 1 .. n |-> f[a]], NEW e
    PROVE  Append(f, e) = [a \in 1 .. n + 1 |-> IF a = n + 1 THEN e ELSE f[a]]
<1> DEFINE S == {f[a] : a \in 1 .. n} \cup {e}
<1>1. f \in [1 .. n -> S]
  OBVIOUS
<1>2. f \in Seq(S)
  BY <1>1
<1>3. Len(f) = n
  BY <1>1, <1>2
<1> QED
  BY <1>2, <1>3

\* What a step does to the table: nothing, a decision on one row, or a generation.
Decides ==
    \E a \in DOMAIN actions :
        \/ /\ actions[a].status = "pending_approval"
           /\ actions' = [actions EXCEPT ![a].status = "approved"]
        \/ /\ actions[a].status \in {"pending_approval", "approved"}
           /\ actions' = [actions EXCEPT ![a].status = "rejected"]

LEMMA Effects ==
    ASSUME [Next]_vars
    PROVE  UNCHANGED actions \/ Decides \/ \E g \in Generators : Insert(g)
<1>1. CASE UNCHANGED vars
  BY <1>1 DEF vars
<1>2. ASSUME NEW i \in Incidents, SeenAgain(i) \/ Resolve(i) \/ Demand(i)
      PROVE  UNCHANGED actions
  BY <1>2 DEF SeenAgain, Resolve, Demand, Beside, Aside
<1>3. CASE Release \/ Job \/ SaveRaises \/ DemandLook \/ DemandSave
  BY <1>3 DEF Release, Job, SelectIncidents, Look, SaveDiagnosis, EndPass, SaveRaises, DemandLook,
              DemandSave, Beside, Aside
<1>4. ASSUME NEW g \in Generators,
             Generation(g) \/ InsertRaises(g) \/ \E i \in Incidents : Generate(g, i)
      PROVE  UNCHANGED actions \/ Insert(g)
  BY <1>4 DEF Generation, Known, Supersede, GenerateEnds, InsertRaises, Generate
<1>5. ASSUME NEW a \in DOMAIN actions, Approve(a) \/ Reject(a)
      PROVE  Decides
  BY <1>5 DEF Approve, Reject, Decide, Decides
<1>6. ASSUME NEW p \in Planners,
             Planning(p) \/ PlanRaises(p) \/ \E a \in DOMAIN actions : PlanRead(p, a)
      PROVE  UNCHANGED actions
  BY <1>6 DEF Planning, PlanEnds, PlanCommit, PlanRaises, PlanRead
<1>7. ASSUME NEW n \in DOMAIN plans, CancelPlan(n)
      PROVE  UNCHANGED actions
  BY <1>7 DEF CancelPlan
<1> QED
  BY <1>1, <1>2, <1>3, <1>4, <1>5, <1>6, <1>7 DEF Next

\* A generation supersedes pending rows only, and keeps every other as it is.
LEMMA SettledRows ==
    ASSUME NEW n \in Nat, Rows(n), NEW g \in Generators
    PROVE  /\ Settled(g) = [a \in 1 .. n |-> Settled(g)[a]]
           /\ \A a \in 1 .. n :
                \/ Settled(g)[a] = actions[a]
                \/ /\ actions[a].status = "pending_approval"
                   /\ Settled(g)[a] = [incident |-> actions[a].incident, hash |-> actions[a].hash,
                                       status |-> "superseded"]
<1>1. DOMAIN actions = 1 .. n
  BY DEF Rows
<1>2. Settled(g) = [a \in 1 .. n |-> Settled(g)[a]]
  BY <1>1 DEF Settled
<1>3. ASSUME NEW a \in 1 .. n, a \in Stale(g, generator[g].type)
      PROVE  actions[a].status = "pending_approval"
  BY <1>3 DEF Stale
<1>4. ASSUME NEW a \in 1 .. n
      PROVE  [actions[a] EXCEPT !.status = "superseded"]
               = [incident |-> actions[a].incident, hash |-> actions[a].hash, status |-> "superseded"]
  BY DEF Rows, IsRow
<1>5. ASSUME NEW a \in 1 .. n
      PROVE  Settled(g)[a] = IF a \in generator[g].stale /\ a \in Stale(g, generator[g].type)
                               THEN [actions[a] EXCEPT !.status = "superseded"] ELSE actions[a]
  BY <1>1 DEF Settled
<1> QED
  BY <1>2, <1>3, <1>4, <1>5

\* The row a generation inserts.
New(g) == [incident |-> generator[g].incident, hash |-> Hash(g, generator[g].type),
           status |-> "pending_approval"]

LEMMA InsertRows ==
    ASSUME NEW n \in Nat, Rows(n), NEW g \in Generators, Insert(g)
    PROVE  \E m \in {n, n + 1} :
                /\ actions' = [a \in 1 .. m |-> IF a = n + 1 THEN New(g) ELSE Settled(g)[a]]
<1>1. Settled(g) = [a \in 1 .. n |-> Settled(g)[a]]
  BY SettledRows
<1>2. actions' = IF Decided(g) THEN Settled(g) ELSE Append(Settled(g), New(g))
  BY DEF Insert, New
<1>3. Append(Settled(g), New(g))
        = [a \in 1 .. n + 1 |-> IF a = n + 1 THEN New(g) ELSE Settled(g)[a]]
  BY <1>1, Appended
<1>4. CASE Decided(g)
  <2>1. [a \in 1 .. n |-> Settled(g)[a]]
          = [a \in 1 .. n |-> IF a = n + 1 THEN New(g) ELSE Settled(g)[a]]
    OBVIOUS
  <2> QED
    BY <1>1, <1>2, <1>4, <2>1
<1>5. CASE ~Decided(g)
  BY <1>2, <1>3, <1>5
<1> QED
  BY <1>4, <1>5

LEMMA Inductive == IInv /\ [Next]_vars => IInv'
<1> SUFFICES ASSUME IInv, [Next]_vars PROVE IInv'
  OBVIOUS
<1> PICK n \in Nat : Rows(n)
  BY DEF IInv
<1>1. CASE UNCHANGED actions
  BY <1>1 DEF IInv, Rows, IsRow
<1>2. CASE Decides
  <2> PICK b \in DOMAIN actions, s \in {"approved", "rejected"} :
        actions' = [actions EXCEPT ![b].status = s]
    BY <1>2 DEF Decides
  <2>1. DOMAIN actions = 1 .. n
    BY DEF Rows
  <2>2. actions' = [a \in 1 .. n |-> actions'[a]]
    BY <2>1
  <2>3. ASSUME NEW a \in 1 .. n PROVE IsRow(actions'[a])
    <3>1. actions[a] = [incident |-> actions[a].incident, hash |-> actions[a].hash,
                        status |-> actions[a].status]
      BY DEF Rows, IsRow
    <3>2. actions'[a] = actions[a] \/ actions'[a] = [actions[a] EXCEPT !.status = s]
      BY <2>1
    <3> QED
      BY <3>1, <3>2 DEF IsRow
  <2> QED
    BY <2>2, <2>3 DEF IInv, Rows, IsRow
<1>3. ASSUME NEW g \in Generators, Insert(g) PROVE IInv'
  <2> PICK m \in {n, n + 1} :
        actions' = [a \in 1 .. m |-> IF a = n + 1 THEN New(g) ELSE Settled(g)[a]]
    BY <1>3, InsertRows
  <2>1. actions' = [a \in 1 .. m |-> actions'[a]]
    OBVIOUS
  <2>2. ASSUME NEW a \in 1 .. m PROVE IsRow(actions'[a])
    <3>1. CASE a = n + 1
      BY <3>1 DEF New, IsRow
    <3>2. CASE a # n + 1
      <4>1. a \in 1 .. n /\ actions'[a] = Settled(g)[a]
        BY <3>2
      <4>2. IsRow(actions[a])
        BY <4>1 DEF Rows
      <4>3. \/ actions'[a] = actions[a]
            \/ actions'[a] = [incident |-> actions[a].incident, hash |-> actions[a].hash,
                              status |-> "superseded"]
        BY <4>1, SettledRows
      <4>4. CASE actions'[a] = actions[a]
        BY <4>2, <4>4 DEF IsRow
      <4> QED
        BY <4>3, <4>4 DEF IsRow
    <3> QED
      BY <3>1, <3>2
  <2> QED
    BY <2>1, <2>2 DEF IInv, Rows, IsRow
<1> QED
  BY <1>1, <1>2, <1>3, Effects

\* What a step may do to the status of a row that exists.
LEMMA Kept ==
    ASSUME IInv, [Next]_vars, NEW a \in DOMAIN actions
    PROVE  /\ actions[a].status = "approved" => actions'[a].status \in {"approved", "rejected"}
           /\ actions[a].status \in {"rejected", "superseded"}
                => actions'[a].status = actions[a].status
<1> PICK n \in Nat : Rows(n)
  BY DEF IInv
<1>0. DOMAIN actions = 1 .. n
  BY DEF Rows
<1>1. CASE UNCHANGED actions
  BY <1>1
<1>2. CASE Decides
  <2> PICK b \in DOMAIN actions :
        \/ /\ actions[b].status = "pending_approval"
           /\ actions' = [actions EXCEPT ![b].status = "approved"]
        \/ /\ actions[b].status \in {"pending_approval", "approved"}
           /\ actions' = [actions EXCEPT ![b].status = "rejected"]
    BY <1>2 DEF Decides
  <2>1. CASE a # b
    BY <2>1
  <2>2. CASE a = b
    <3>1. actions[a] = [incident |-> actions[a].incident, hash |-> actions[a].hash,
                        status |-> actions[a].status]
      BY <1>0 DEF Rows, IsRow
    <3> QED
      BY <2>2, <3>1
  <2> QED
    BY <2>1, <2>2
<1>3. ASSUME NEW g \in Generators, Insert(g)
      PROVE  \/ actions'[a] = actions[a]
             \/ actions[a].status = "pending_approval"
  <2> PICK m \in {n, n + 1} :
        actions' = [x \in 1 .. m |-> IF x = n + 1 THEN New(g) ELSE Settled(g)[x]]
    BY <1>3, InsertRows
  <2>1. a \in 1 .. m /\ a # n + 1
    BY <1>0
  <2> QED
    BY <1>0, <2>1, SettledRows
<1> QED
  BY <1>1, <1>2, <1>3, Effects

(* "Approved and rejected rows are never touched": once decided, a recommendation
   stays decided; once superseded, it stays superseded. *)
THEOREM DecisionsKept == Spec => DecisionKept
<1>1. Init => IInv
  <2> SUFFICES ASSUME Init PROVE Rows(0)
    BY DEF IInv
  <2> QED
    BY DEF Init, Rows
<1>2. IInv /\ [Next]_vars
        => [\A a \in DOMAIN actions :
                LET was == actions[a].status
                    is  == actions'[a].status
                IN  /\ was = "approved" => is \in {"approved", "rejected"}
                    /\ was \in {"rejected", "superseded"} => is = was]_vars
  BY Kept
<1> QED
  BY <1>1, <1>2, Inductive, PTL DEF Spec, DecisionKept
-----------------------------------------------------------------------------
\* OneCurrent, its recommendations.  A generation knows the hashes of all rows of its
\* incident, but those of the types it is done with; when it comes to insert, it is about
\* to supersede every pending row of the type.

HashOf(t, type) == [diagnosis |-> t.diagnosis, type |-> type, seen |-> t.seen, rules |-> t.rules]

IsTask(t) ==
    /\ t \in [pc : {t.pc}, incident : {t.incident}, force : {t.force}, rules : {t.rules},
              diagnosis : {t.diagnosis}, seen : {t.seen}, known : {t.known}, todo : {t.todo},
              type : {t.type}, stale : {t.stale}]
    /\ t.pc \in {"next", "insert"}
    /\ t.pc = "insert" => t.type \in t.todo

Aware(t) ==
    \A a \in DOMAIN actions : actions[a].incident = t.incident =>
        /\ actions[a].hash.type \in t.todo => actions[a].hash \in t.known
        /\ (t.pc = "insert" /\ actions[a].status = "pending_approval" /\ actions[a].hash.type = t.type)
             => a \in t.stale /\ actions[a].hash # HashOf(t, t.type)

\* No two generations of an incident.
Apart ==
    \A g, h \in Generators :
        (g # h /\ generator[g] # Idle /\ generator[h] # Idle) => generator[g].incident # generator[h].incident

PendingInv ==
    /\ generator = [g \in Generators |-> generator[g]]
    /\ \A g \in Generators : generator[g] = Idle \/ IsTask(generator[g])
    /\ ~overlapped => /\ OnePending /\ Apart
                      /\ \A g \in Generators : generator[g] # Idle => Aware(generator[g])

LEMMA IdleIsNoTask == \A t : IsTask(t) => t # Idle
  BY DEF IsTask, Idle

LEMMA PendingInit == Init => PendingInv
  BY DEF Init, PendingInv, OnePending, Apart

\* Generator g moves to t, and the table stays.
LEMMA TaskMoves ==
    ASSUME PendingInv, UNCHANGED actions, ~overlapped' => ~overlapped,
           NEW g \in Generators, NEW t, generator' = [generator EXCEPT ![g] = t],
           t = Idle \/ IsTask(t),
           (~overlapped' /\ t # Idle) =>
             /\ Aware(t)
             /\ \A h \in Generators : (h # g /\ generator[h] # Idle) => generator[h].incident # t.incident
    PROVE  PendingInv'
  <1>1. \A h \in Generators : generator'[h] = IF h = g THEN t ELSE generator[h]
    BY DEF PendingInv
  <1>2. generator' = [h \in Generators |-> generator'[h]]
    BY DEF PendingInv
  <1>3. \A h \in Generators : generator'[h] = Idle \/ IsTask(generator'[h])
    BY <1>1 DEF PendingInv
  <1>4. ASSUME ~overlapped' PROVE OnePending' /\ Apart'
    BY <1>1, <1>4 DEF PendingInv, OnePending, Apart
  <1>5. ASSUME ~overlapped', NEW h \in Generators, generator'[h] # Idle PROVE Aware(generator'[h])
    BY <1>1, <1>5 DEF PendingInv
  <1>6. \A u : Aware(u) => Aware(u)'
    BY DEF Aware
  <1>7. ASSUME ~overlapped', NEW h \in Generators, generator'[h] # Idle PROVE Aware(generator[h])'
    BY <1>5, <1>7 DEF Aware
  <1> QED BY <1>2, <1>3, <1>4, <1>7 DEF PendingInv

\* A decision, or a step of something else.
LEMMA PendingKept ==
    ASSUME IInv, PendingInv, UNCHANGED actions \/ Decides, UNCHANGED generator,
           ~overlapped' => ~overlapped
    PROVE  PendingInv'
  <1> PICK n \in Nat : Rows(n)
    BY DEF IInv
  <1>0. DOMAIN actions = 1 .. n
    BY DEF Rows
  <1>1. /\ DOMAIN actions' = DOMAIN actions
        /\ \A a \in DOMAIN actions :
             /\ actions'[a].incident = actions[a].incident /\ actions'[a].hash = actions[a].hash
             /\ actions'[a].status = "pending_approval" => actions[a].status = "pending_approval"
    <2>1. CASE UNCHANGED actions
      BY <2>1
    <2>2. CASE Decides
      <3> PICK b \in DOMAIN actions, s \in {"approved", "rejected"} :
            actions' = [actions EXCEPT ![b].status = s]
        BY <2>2 DEF Decides
      <3>1. actions[b] = [incident |-> actions[b].incident, hash |-> actions[b].hash,
                          status |-> actions[b].status]
        BY <1>0 DEF Rows, IsRow
      <3>2. \A a \in DOMAIN actions :
              actions'[a] = IF a = b THEN [actions[b] EXCEPT !.status = s] ELSE actions[a]
        OBVIOUS
      <3>3. /\ [actions[b] EXCEPT !.status = s].incident = actions[b].incident
            /\ [actions[b] EXCEPT !.status = s].hash = actions[b].hash
            /\ [actions[b] EXCEPT !.status = s].status = s
        BY <3>1
      <3> QED BY <3>2, <3>3
    <2> QED BY <2>1, <2>2
  <1>2. ASSUME ~overlapped PROVE OnePending' /\ Apart'
    BY <1>1, <1>2 DEF PendingInv, OnePending, Apart
  <1>3. ASSUME NEW g \in Generators, Aware(generator[g]) PROVE Aware(generator[g])'
    BY <1>1, <1>3 DEF Aware, HashOf
  <1> QED BY <1>2, <1>3 DEF PendingInv

\* The steps of a generation before and after its inserts.
LEMMA GenerateStep ==
    ASSUME PendingInv, NEW g \in Generators, NEW i \in Incidents, Generate(g, i)
    PROVE  PendingInv'
  <1> DEFINE t(force) == [pc |-> "next", incident |-> i, force |-> force, rules |-> release,
             diagnosis |-> ActiveDiagnosis(i), seen |-> diagnoses[ActiveDiagnosis(i)].hash,
             known |-> {actions[a].hash : a \in {b \in DOMAIN actions : actions[b].incident = i}},
             todo |-> Rules(i), type |-> "none", stale |-> {}]
  <1>1. PICK force \in BOOLEAN : generator' = [generator EXCEPT ![g] = t(force)]
    BY DEF Generate
  <1>2. IsTask(t(force)) /\ t(force).incident = i
    BY DEF IsTask
  <1>3. Aware(t(force))
    BY DEF Aware
  <1>4. UNCHANGED actions /\ (~overlapped' => ~overlapped)
    BY DEF Generate
  <1>5. ASSUME ~overlapped', NEW h \in Generators, h # g, generator[h] # Idle PROVE generator[h].incident # i
    BY <1>5 DEF Generate
  <1> HIDE DEF t
  <1> QED BY <1>1, <1>2, <1>3, <1>4, <1>5, TaskMoves

LEMMA KnownStep ==
    ASSUME PendingInv, NEW g \in Generators, NEW type, Known(g, type)
    PROVE  PendingInv'
  <1> DEFINE t == [generator[g] EXCEPT !.todo = generator[g].todo \ {type}]
  <1>1. generator[g] # Idle /\ IsTask(generator[g])
    BY DEF Known, PendingInv, Idle
  <1>2. /\ IsTask(t) /\ t.pc = "next" /\ t.incident = generator[g].incident
        /\ t.todo = generator[g].todo \ {type} /\ t.known = generator[g].known
    BY <1>1 DEF IsTask, Known
  <1>3. generator' = [generator EXCEPT ![g] = t]
    BY DEF Known, PendingInv
  <1> HIDE DEF t
  <1>4. ~overlapped => Aware(t)
    BY <1>1, <1>2 DEF PendingInv, Aware
  <1>5. UNCHANGED <<actions, overlapped>>
    BY DEF Known
  <1>6. ~overlapped => \A h \in Generators : (h # g /\ generator[h] # Idle) => generator[h].incident # t.incident
    BY <1>1, <1>2 DEF PendingInv, Apart
  <1> QED BY <1>2, <1>3, <1>4, <1>5, <1>6, TaskMoves

\* Every row of a type in hand has a hash the generation knows: the one it will insert is
\* not among them, so the rows to supersede are all the pending ones.
LEMMA SupersedeStep ==
    ASSUME PendingInv, NEW g \in Generators, NEW type, Supersede(g, type)
    PROVE  PendingInv'
  <1> DEFINE t == [generator[g] EXCEPT !.pc = "insert", !.type = type, !.stale = Stale(g, type)]
  <1>1. generator[g] # Idle /\ IsTask(generator[g])
    BY DEF Supersede, PendingInv, Idle
  <1>2. /\ IsTask(t) /\ t.pc = "insert" /\ t.incident = generator[g].incident
        /\ t.todo = generator[g].todo /\ t.known = generator[g].known
        /\ t.type = type /\ t.stale = Stale(g, type)
        /\ t.diagnosis = generator[g].diagnosis /\ t.seen = generator[g].seen /\ t.rules = generator[g].rules
    BY <1>1 DEF IsTask, Supersede
  <1>3. generator' = [generator EXCEPT ![g] = t]
    BY DEF Supersede, PendingInv
  <1> HIDE DEF t
  <1>4. HashOf(t, type) = Hash(g, type)
    BY <1>2 DEF HashOf, Hash
  <1>5. ASSUME ~overlapped, NEW a \in DOMAIN actions, actions[a].incident = t.incident
        PROVE  /\ actions[a].hash.type \in t.todo => actions[a].hash \in t.known
               /\ (actions[a].status = "pending_approval" /\ actions[a].hash.type = t.type)
                     => a \in t.stale /\ actions[a].hash # HashOf(t, t.type)
    <2>1. actions[a].hash.type \in t.todo => actions[a].hash \in t.known
      BY <1>1, <1>2, <1>5 DEF PendingInv, Aware
    <2>2. type \in t.todo /\ Hash(g, type) \notin t.known
      BY <1>2 DEF Supersede
    <2>3. ASSUME actions[a].status = "pending_approval", actions[a].hash.type = type
          PROVE  a \in Stale(g, type) /\ actions[a].hash # Hash(g, type)
      BY <1>2, <1>5, <2>1, <2>2, <2>3 DEF Stale, Of
    <2> QED BY <1>2, <1>4, <2>1, <2>3
  <1>6. ~overlapped => Aware(t)
    BY <1>2, <1>5 DEF Aware
  <1>7. UNCHANGED <<actions, overlapped>>
    BY DEF Supersede
  <1>8. ~overlapped => \A h \in Generators : (h # g /\ generator[h] # Idle) => generator[h].incident # t.incident
    BY <1>1, <1>2 DEF PendingInv, Apart
  <1> QED BY <1>2, <1>3, <1>6, <1>7, <1>8, TaskMoves

\* TypeDone, as a new task.
Onward(g) == [generator[g] EXCEPT !.pc = "next", !.stale = {}, !.todo = generator[g].todo \ {generator[g].type}]

LEMMA DoneTask ==
    ASSUME PendingInv, NEW g \in Generators, generator[g].pc = "insert", TypeDone(g)
    PROVE  /\ generator[g] # Idle /\ IsTask(generator[g]) /\ IsTask(Onward(g))
           /\ Onward(g).pc = "next" /\ Onward(g).incident = generator[g].incident
           /\ Onward(g).known = generator[g].known
           /\ Onward(g).todo = generator[g].todo \ {generator[g].type}
           /\ generator' = [generator EXCEPT ![g] = Onward(g)]
  <1>1. generator[g] # Idle /\ IsTask(generator[g])
    BY DEF PendingInv, Idle
  <1>2. /\ IsTask(Onward(g)) /\ Onward(g).pc = "next" /\ Onward(g).incident = generator[g].incident
        /\ Onward(g).known = generator[g].known
        /\ Onward(g).todo = generator[g].todo \ {generator[g].type}
    BY <1>1 DEF IsTask, Onward
  <1>3. generator' = [generator EXCEPT ![g] = Onward(g)]
    BY DEF TypeDone, Onward, PendingInv
  <1> QED BY <1>1, <1>2, <1>3

LEMMA RaisesStep ==
    ASSUME PendingInv, NEW g \in Generators, InsertRaises(g)
    PROVE  PendingInv'
  <1>1. generator[g].pc = "insert" /\ TypeDone(g) /\ UNCHANGED <<actions, overlapped>>
    BY DEF InsertRaises
  <1>2. ~overlapped => Aware(Onward(g))
    BY <1>1, DoneTask DEF PendingInv, Aware
  <1>3. ~overlapped => \A h \in Generators : (h # g /\ generator[h] # Idle) => generator[h].incident # Onward(g).incident
    BY <1>1, DoneTask DEF PendingInv, Apart
  <1> QED BY <1>1, <1>2, <1>3, DoneTask, TaskMoves

LEMMA GenerateEndsStep ==
    ASSUME PendingInv, NEW g \in Generators, GenerateEnds(g)
    PROVE  PendingInv'
  <1>1. UNCHANGED <<actions, overlapped>> /\ generator' = [generator EXCEPT ![g] = Idle]
    BY DEF GenerateEnds
  <1> QED BY <1>1, TaskMoves

\* An insert supersedes every pending row of the type: the new row is alone.
LEMMA InsertStep ==
    ASSUME IInv, PendingInv, NEW g \in Generators, Insert(g)
    PROVE  PendingInv'
  <1> PICK n \in Nat : Rows(n)
    BY DEF IInv
  <1> DEFINE i == generator[g].incident
             type == generator[g].type
             pending(a) == actions[a].status = "pending_approval"
  <1>0. DOMAIN actions = 1 .. n
    BY DEF Rows
  <1>1. generator[g].pc = "insert" /\ TypeDone(g) /\ UNCHANGED overlapped
    BY DEF Insert
  <1>2. Hash(g, type) = HashOf(generator[g], type) /\ Hash(g, type).type = type
    BY DEF Hash, HashOf
  <1>3. PICK m \in {n, n + 1} :
        actions' = [a \in 1 .. m |-> IF a = n + 1 THEN New(g) ELSE Settled(g)[a]]
    BY InsertRows
  <1>4. New(g).incident = i /\ New(g).hash.type = type
    BY <1>2 DEF New
  <1>5. ASSUME ~overlapped, NEW a \in 1 .. n
        PROVE  /\ Settled(g)[a].incident = actions[a].incident /\ Settled(g)[a].hash = actions[a].hash
               /\ Settled(g)[a].status = "pending_approval" =>
                    pending(a) /\ ~(actions[a].incident = i /\ actions[a].hash.type = type)
    <2>1. IsRow(actions[a])
      BY DEF Rows
    <2>2. Settled(g)[a] = IF a \in generator[g].stale /\ a \in Stale(g, type)
                            THEN [actions[a] EXCEPT !.status = "superseded"] ELSE actions[a]
      BY <1>0 DEF Settled
    <2>3. /\ [actions[a] EXCEPT !.status = "superseded"].incident = actions[a].incident
          /\ [actions[a] EXCEPT !.status = "superseded"].hash = actions[a].hash
          /\ [actions[a] EXCEPT !.status = "superseded"].status = "superseded"
      BY <2>1 DEF IsRow
    <2>4. (pending(a) /\ actions[a].incident = i /\ actions[a].hash.type = type) =>
            a \in generator[g].stale /\ a \in Stale(g, type)
      <3>1. generator[g] # Idle
        BY <1>1 DEF Idle
      <3> QED BY <1>0, <1>1, <1>2, <1>5, <3>1 DEF PendingInv, Aware, Stale, Of
    <2> QED BY <2>2, <2>3, <2>4
  <1>6. DOMAIN actions' = 1 .. m
    BY <1>3
  <1>7. \A a \in 1 .. m : a = n + 1 \/ a \in 1 .. n
    OBVIOUS
  <1>8. \A a \in 1 .. m : actions'[a] = IF a = n + 1 THEN New(g) ELSE Settled(g)[a]
    BY <1>3
  <1>9. ~overlapped => OnePending'
    <2> SUFFICES ASSUME ~overlapped, NEW a \in 1 .. m, NEW b \in 1 .. m,
                        actions'[a].status = "pending_approval", actions'[b].status = "pending_approval",
                        actions'[a].incident = actions'[b].incident,
                        actions'[a].hash.type = actions'[b].hash.type
                 PROVE  a = b
      BY <1>6 DEF OnePending
    <2>1. CASE a = n + 1 \/ b = n + 1
      BY <1>4, <1>5, <1>7, <1>8, <2>1
    <2>2. CASE a # n + 1 /\ b # n + 1
      <3>1. a \in 1 .. n /\ b \in 1 .. n
        BY <1>7, <2>2
      <3>2. pending(a) /\ pending(b) /\ actions[a].incident = actions[b].incident
            /\ actions[a].hash.type = actions[b].hash.type
        BY <1>5, <1>8, <2>2, <3>1
      <3> QED BY <1>0, <3>1, <3>2 DEF PendingInv, OnePending
    <2> QED BY <2>1, <2>2
  <1>10. \A h \in Generators : generator'[h] = IF h = g THEN Onward(g) ELSE generator[h]
    BY <1>1, DoneTask DEF PendingInv
  <1>11. ~overlapped => Apart'
    BY <1>1, <1>10, DoneTask DEF PendingInv, Apart
  <1>12. ASSUME ~overlapped, NEW h \in Generators, h # g, generator[h] # Idle
         PROVE  Aware(generator[h])'
    <2>1. generator[h].incident # i /\ Aware(generator[h])
      BY <1>1, <1>12, DoneTask DEF PendingInv, Apart
    <2>2. generator'[h] = generator[h]
      BY <1>10, <1>12
    <2>3. ASSUME NEW a \in 1 .. m, actions'[a].incident = generator[h].incident
          PROVE  /\ a \in 1 .. n /\ actions'[a].hash = actions[a].hash
                 /\ actions[a].incident = generator[h].incident
                 /\ actions'[a].status = "pending_approval" => pending(a)
      BY <1>4, <1>5, <1>7, <1>8, <1>12, <2>1, <2>3
    <2> QED BY <1>0, <1>6, <2>1, <2>2, <2>3 DEF Aware, HashOf
  <1>13. ~overlapped => Aware(generator[g])'
    <2> SUFFICES ASSUME ~overlapped, NEW a \in 1 .. m, actions'[a].incident = i,
                        actions'[a].hash.type \in Onward(g).todo
                 PROVE  actions'[a].hash \in Onward(g).known
      BY <1>1, <1>6, <1>10, DoneTask DEF Aware
    <2>1. a \in 1 .. n
      BY <1>1, <1>4, <1>7, <1>8, DoneTask
    <2>2. actions[a].incident = i /\ actions[a].hash = actions'[a].hash
      BY <1>5, <1>8, <2>1
    <2> QED BY <1>0, <1>1, <2>1, <2>2, DoneTask DEF PendingInv, Aware
  <1>14. generator' = [h \in Generators |-> generator'[h]]
    BY <1>1, DoneTask DEF PendingInv
  <1>15. \A h \in Generators : generator'[h] = Idle \/ IsTask(generator'[h])
    BY <1>1, <1>10, DoneTask DEF PendingInv
  <1> HIDE DEF i, type, pending
  <1> QED BY <1>1, <1>9, <1>10, <1>11, <1>12, <1>13, <1>14, <1>15 DEF PendingInv

LEMMA PendingNext == IInv /\ PendingInv /\ [Next]_vars => PendingInv'
  <1> SUFFICES ASSUME IInv, PendingInv, [Next]_vars PROVE PendingInv'
    OBVIOUS
  <1> DEFINE Beyond == UNCHANGED <<actions, generator, overlapped>>
  <1>1. CASE UNCHANGED vars
    BY <1>1, PendingKept DEF vars
  <1>2. ASSUME NEW i \in Incidents, SeenAgain(i) \/ Resolve(i) \/ Demand(i) PROVE Beyond
    BY <1>2 DEF SeenAgain, Resolve, Demand, Beside, Aside
  <1>3. CASE Release \/ Job \/ SaveRaises \/ DemandLook \/ DemandSave
    <2>1. Beyond
      BY <1>3 DEF Release, Job, SelectIncidents, Look, SaveDiagnosis, EndPass, SaveRaises, DemandLook,
                  DemandSave, Beside, Aside
    <2> QED BY <2>1, PendingKept
  <1>4. ASSUME NEW g \in Generators,
               Generation(g) \/ InsertRaises(g) \/ \E i \in Incidents : Generate(g, i)
        PROVE  PendingInv'
    BY <1>4, KnownStep, SupersedeStep, InsertStep, GenerateEndsStep, RaisesStep, GenerateStep DEF Generation
  <1>5. ASSUME NEW a \in DOMAIN actions, Approve(a) \/ Reject(a) PROVE PendingInv'
    <2>1. Decides /\ UNCHANGED <<generator, overlapped>>
      BY <1>5 DEF Approve, Reject, Decide, Decides
    <2> QED BY <2>1, PendingKept
  <1>6. ASSUME NEW p \in Planners,
               Planning(p) \/ PlanRaises(p) \/ \E a \in DOMAIN actions : PlanRead(p, a)
        PROVE  PendingInv'
    <2>1. UNCHANGED <<actions, generator>>
      BY <1>6 DEF Planning, PlanEnds, PlanCommit, PlanRaises, PlanRead
    <2>2. ~overlapped' => ~overlapped
      BY <1>6, Zenon DEF Planning, PlanEnds, PlanCommit, PlanRaises, PlanRead
    <2> QED BY <2>1, <2>2, PendingKept
  <1>7. ASSUME NEW n \in DOMAIN plans, CancelPlan(n) PROVE Beyond
    BY <1>7 DEF CancelPlan
  <1>8. Beyond => PendingInv'
    BY PendingKept
  <1> QED BY <1>1, <1>2, <1>3, <1>4, <1>5, <1>6, <1>7, <1>8 DEF Next
-----------------------------------------------------------------------------
\* OneCurrent, its plans.  A request that comes to insert is about to end every active plan
\* of its action.

IsPlan(r) == r \in [action : {r.action}, status : {r.status}, release : {r.release}]

PlanRows(n) == /\ plans = [k \in 1 .. n |-> plans[k]]
               /\ \A k \in 1 .. n : IsPlan(plans[k])

IsRequest(r) ==
    /\ r \in [pc : {r.pc}, action : {r.action}, force : {r.force}, release : {r.release}, ending : {r.ending}]
    /\ r.pc \in {"end", "insert"}

Ends(r) ==
    \A n \in DOMAIN plans : (plans[n].action = r.action /\ plans[n].status = "active") => n \in r.ending

PlannersApart ==
    \A p, q \in Planners :
        (p # q /\ planner[p] # Idle /\ planner[q] # Idle) => planner[p].action # planner[q].action

OneActive ==
    \A m, n \in DOMAIN plans :
        (plans[m].status = "active" /\ plans[n].status = "active" /\ plans[m].action = plans[n].action) => m = n

PlanInv ==
    /\ \E n \in Nat : PlanRows(n)
    /\ planner = [p \in Planners |-> planner[p]]
    /\ \A p \in Planners : planner[p] = Idle \/ IsRequest(planner[p])
    /\ ~overlapped => /\ OneActive /\ PlannersApart
                      /\ \A p \in Planners : planner[p].pc = "insert" => Ends(planner[p])

LEMMA PlanInit == Init => PlanInv
  <1> SUFFICES ASSUME Init PROVE PlanInv
    OBVIOUS
  <1>1. PlanRows(0)
    BY DEF Init, PlanRows
  <1>2. \A p \in Planners : planner[p] = Idle /\ planner[p].pc = "idle"
    BY DEF Init, Idle
  <1> QED BY <1>1, <1>2 DEF Init, PlanInv, OneActive, PlannersApart

\* Request p moves to r, and the table stays.
LEMMA RequestMoves ==
    ASSUME PlanInv, UNCHANGED plans, ~overlapped' => ~overlapped,
           NEW p \in Planners, NEW r, planner' = [planner EXCEPT ![p] = r],
           r = Idle \/ IsRequest(r),
           ~overlapped' =>
             /\ r.pc = "insert" => Ends(r)
             /\ \A q \in Planners : (q # p /\ planner[q] # Idle /\ r # Idle) => planner[q].action # r.action
    PROVE  PlanInv'
  <1>1. \A q \in Planners : planner'[q] = IF q = p THEN r ELSE planner[q]
    BY DEF PlanInv
  <1>2. planner' = [q \in Planners |-> planner'[q]]
    BY DEF PlanInv
  <1>3. \A q \in Planners : planner'[q] = Idle \/ IsRequest(planner'[q])
    BY <1>1 DEF PlanInv
  <1>4. ASSUME ~overlapped' PROVE OneActive' /\ PlannersApart'
    BY <1>1, <1>4 DEF PlanInv, OneActive, PlannersApart
  <1>5. ASSUME ~overlapped', NEW q \in Planners, planner'[q].pc = "insert" PROVE Ends(planner'[q])
    BY <1>1, <1>5 DEF PlanInv
  <1>6. ASSUME ~overlapped', NEW q \in Planners, planner'[q].pc = "insert" PROVE Ends(planner[q])'
    BY <1>5, <1>6 DEF Ends
  <1>7. \E n \in Nat : PlanRows(n)'
    BY DEF PlanInv, PlanRows
  <1> QED BY <1>2, <1>3, <1>4, <1>6, <1>7 DEF PlanInv

LEMMA PlanReadStep ==
    ASSUME PlanInv, NEW p \in Planners, NEW a, PlanRead(p, a)
    PROVE  PlanInv'
  <1>1. PICK force \in BOOLEAN, n \in DOMAIN plans \cup {None} :
          /\ ExistingPlan(a, n)
          /\ planner' = [planner EXCEPT ![p] =
                          IF n # None /\ ~force /\ plans[n].release = release THEN Idle
                          ELSE [pc |-> IF n = None THEN "insert" ELSE "end", action |-> a,
                                force |-> force, release |-> release, ending |-> {}]]
    BY DEF PlanRead
  <1> DEFINE r == [pc |-> IF n = None THEN "insert" ELSE "end", action |-> a,
                   force |-> force, release |-> release, ending |-> {}]
  <1>2. planner' = [planner EXCEPT ![p] = Idle] \/ planner' = [planner EXCEPT ![p] = r]
    BY <1>1
  <1>3. IsRequest(r) /\ r.action = a /\ (r.pc = "insert" => n = None)
    BY DEF IsRequest
  <1>4. r.pc = "insert" => Ends(r)
    <2> SUFFICES ASSUME r.pc = "insert" PROVE \A k \in DOMAIN plans :
                    ~(plans[k].action = a /\ plans[k].status = "active")
      BY <1>3 DEF Ends
    <2>1. n = None
      BY <1>3
    <2>2. ActivePlans(a) = {}
      <3> SUFFICES ASSUME ActivePlans(a) # {} PROVE FALSE
        OBVIOUS
      <3>1. None \in DOMAIN plans
        BY <1>1, <2>1 DEF ExistingPlan, ActivePlans
      <3> QED BY <3>1 DEF PlanInv, PlanRows, None
    <2> QED BY <2>2 DEF ActivePlans
  <1>5. UNCHANGED plans /\ (~overlapped' => ~overlapped)
        /\ (~overlapped' => \A q \in Planners : (q # p /\ planner[q] # Idle) => planner[q].action # a)
    BY DEF PlanRead
  <1>6. Idle.pc = "idle"
    BY DEF Idle
  <1> HIDE DEF r
  <1> QED BY <1>2, <1>3, <1>4, <1>5, <1>6, RequestMoves

LEMMA PlanEndsStep ==
    ASSUME PlanInv, NEW p \in Planners, PlanEnds(p)
    PROVE  PlanInv'
  <1> DEFINE r == [planner[p] EXCEPT !.pc = "insert", !.ending = Ending(p)]
  <1>1. planner[p] # Idle /\ IsRequest(planner[p])
    BY DEF PlanEnds, PlanInv, Idle
  <1>2. IsRequest(r) /\ r.action = planner[p].action /\ r.ending = Ending(p)
    BY <1>1 DEF IsRequest
  <1>3. planner' = [planner EXCEPT ![p] = r]
    BY DEF PlanEnds, PlanInv
  <1> HIDE DEF r
  <1>4. Ends(r)
    BY <1>2 DEF Ends, Ending, ActivePlans
  <1>5. UNCHANGED <<plans, overlapped>>
    BY DEF PlanEnds
  <1>6. ~overlapped => \A q \in Planners : (q # p /\ planner[q] # Idle) => planner[q].action # r.action
    BY <1>1, <1>2 DEF PlanInv, PlannersApart
  <1> QED BY <1>2, <1>3, <1>4, <1>5, <1>6, RequestMoves

\* The rows of plans change without a new active one.
LEMMA PlansFewer ==
    ASSUME PlanInv, UNCHANGED <<planner, overlapped>>, NEW k \in DOMAIN plans, CancelPlan(k)
    PROVE  PlanInv'
  <1> PICK n \in Nat : PlanRows(n)
    BY DEF PlanInv
  <1>0. DOMAIN plans = 1 .. n
    BY DEF PlanRows
  <1>1. \A j \in 1 .. n : plans'[j] = IF j = k THEN [plans[k] EXCEPT !.status = "cancelled"] ELSE plans[j]
    BY <1>0 DEF CancelPlan
  <1>2. IsPlan(plans[k])
    BY <1>0 DEF PlanRows
  <1>3. /\ IsPlan([plans[k] EXCEPT !.status = "cancelled"])
        /\ [plans[k] EXCEPT !.status = "cancelled"].action = plans[k].action
        /\ [plans[k] EXCEPT !.status = "cancelled"].status = "cancelled"
    BY <1>2 DEF IsPlan
  <1>4. plans' = [j \in 1 .. n |-> plans'[j]] /\ DOMAIN plans' = 1 .. n
    BY <1>0 DEF CancelPlan
  <1>5. \A j \in 1 .. n : IsPlan(plans'[j])
    BY <1>1, <1>3 DEF PlanRows
  <1>6. PlanRows(n)'
    BY <1>4, <1>5 DEF PlanRows, IsPlan
  <1>7. \A j \in 1 .. n : plans'[j].action = plans[j].action
                          /\ (plans'[j].status = "active" => plans[j].status = "active")
    BY <1>1, <1>3
  <1>8. ~overlapped => OneActive' /\ PlannersApart'
    BY <1>0, <1>4, <1>7 DEF PlanInv, OneActive, PlannersApart
  <1>9. ASSUME NEW p \in Planners, Ends(planner[p]) PROVE Ends(planner[p])'
    BY <1>0, <1>4, <1>7, <1>9 DEF Ends
  <1> QED BY <1>6, <1>8, <1>9 DEF PlanInv

LEMMA PlanCommitStep ==
    ASSUME PlanInv, NEW p \in Planners, PlanCommit(p)
    PROVE  PlanInv'
  <1> PICK n \in Nat : PlanRows(n)
    BY DEF PlanInv
  <1> DEFINE act == planner[p].action
             ended == [k \in DOMAIN plans |->
                        IF k \in planner[p].ending /\ plans[k].status = "active"
                          THEN [plans[k] EXCEPT !.status = EndStatus(p)] ELSE plans[k]]
             row == [action |-> act, status |-> "active", release |-> planner[p].release]
  <1>0. DOMAIN plans = 1 .. n
    BY DEF PlanRows
  <1>1. planner[p].pc = "insert" /\ UNCHANGED overlapped /\ planner' = [planner EXCEPT ![p] = Idle]
        /\ plans' = Append(ended, row)
    BY DEF PlanCommit
  <1>2. planner[p] # Idle /\ (~overlapped => Ends(planner[p]))
    BY <1>1 DEF PlanInv, Idle
  <1>3. ended = [k \in 1 .. n |-> ended[k]]
    BY <1>0
  <1>4. \A k \in 1 .. n : /\ IsPlan(ended[k]) /\ ended[k].action = plans[k].action
                          /\ ended[k].status = "active" => plans[k].status = "active"
                          /\ k \in planner[p].ending => ended[k].status # "active"
    <2> TAKE k \in 1 .. n
    <2>1. IsPlan(plans[k])
      BY DEF PlanRows
    <2>2. /\ IsPlan([plans[k] EXCEPT !.status = EndStatus(p)])
          /\ [plans[k] EXCEPT !.status = EndStatus(p)].action = plans[k].action
          /\ [plans[k] EXCEPT !.status = EndStatus(p)].status # "active"
      BY <2>1 DEF IsPlan, EndStatus
    <2>3. ended[k] = IF k \in planner[p].ending /\ plans[k].status = "active"
                       THEN [plans[k] EXCEPT !.status = EndStatus(p)] ELSE plans[k]
      BY <1>0
    <2> HIDE DEF ended
    <2> QED BY <2>1, <2>2, <2>3
  <1> HIDE DEF ended
  <1>5. plans' = [k \in 1 .. n + 1 |-> IF k = n + 1 THEN row ELSE ended[k]]
    BY <1>1, <1>3, Appended
  <1>6. IsPlan(row) /\ row.action = act
    BY DEF IsPlan
  <1> HIDE DEF row
  <1>7. /\ DOMAIN plans' = 1 .. n + 1
        /\ plans' = [k \in 1 .. n + 1 |-> plans'[k]]
        /\ plans'[n + 1] = row
        /\ \A k \in 1 .. n : plans'[k] = ended[k]
        /\ \A k \in 1 .. n + 1 : k = n + 1 \/ k \in 1 .. n
    BY <1>5
  <1>8. \A k \in 1 .. n + 1 : IsPlan(plans'[k])
    BY <1>4, <1>6, <1>7
  <1>9. PlanRows(n + 1)'
    BY <1>7, <1>8 DEF PlanRows, IsPlan
  <1>10. ~overlapped => \A k \in 1 .. n : plans'[k].status = "active" => plans[k].action # act
    BY <1>0, <1>2, <1>4, <1>7 DEF Ends
  <1>11. ASSUME ~overlapped PROVE OneActive'
    <2> SUFFICES ASSUME NEW k \in 1 .. n + 1, NEW j \in 1 .. n + 1, plans'[k].status = "active",
                        plans'[j].status = "active", plans'[k].action = plans'[j].action
                 PROVE  k = j
      BY <1>7 DEF OneActive
    <2>1. CASE k = n + 1 \/ j = n + 1
      BY <1>4, <1>6, <1>7, <1>10, <1>11, <2>1
    <2>2. CASE k # n + 1 /\ j # n + 1
      <3>1. k \in 1 .. n /\ j \in 1 .. n
        BY <1>7, <2>2
      <3> QED BY <1>0, <1>4, <1>7, <1>11, <3>1 DEF PlanInv, OneActive
    <2> QED BY <2>1, <2>2
  <1>12. \A q \in Planners : planner'[q] = IF q = p THEN Idle ELSE planner[q]
    BY <1>1 DEF PlanInv
  <1>13. ~overlapped => PlannersApart'
    BY <1>12 DEF PlanInv, PlannersApart
  <1>14. ASSUME ~overlapped, NEW q \in Planners, planner'[q].pc = "insert" PROVE Ends(planner[q])'
    <2>1. q # p /\ planner'[q] = planner[q] /\ planner[q] # Idle
      BY <1>12, <1>14 DEF Idle
    <2>2. planner[q].action # act /\ Ends(planner[q])
      BY <1>2, <1>14, <2>1 DEF PlanInv, PlannersApart
    <2> SUFFICES ASSUME NEW k \in 1 .. n + 1, plans'[k].action = planner[q].action, plans'[k].status = "active"
                 PROVE  k \in planner[q].ending
      BY <1>7, <2>1 DEF Ends
    <2>3. k \in 1 .. n
      BY <1>6, <1>7, <2>2
    <2> QED BY <1>0, <1>4, <1>7, <2>2, <2>3 DEF Ends
  <1>15. planner' = [q \in Planners |-> planner'[q]]
    BY <1>1 DEF PlanInv
  <1>16. \A q \in Planners : planner'[q] = Idle \/ IsRequest(planner'[q])
    BY <1>12 DEF PlanInv
  <1> QED BY <1>1, <1>9, <1>11, <1>13, <1>14, <1>15, <1>16 DEF PlanInv

LEMMA PlanNext == PlanInv /\ [Next]_vars => PlanInv'
  <1> SUFFICES ASSUME PlanInv, [Next]_vars PROVE PlanInv'
    OBVIOUS
  <1> DEFINE Beyond == UNCHANGED <<plans, planner, overlapped>>
  <1>0. ASSUME UNCHANGED <<plans, planner>>, ~overlapped' => ~overlapped PROVE PlanInv'
    BY <1>0 DEF PlanInv, PlanRows, OneActive, PlannersApart, Ends
  <1>1. CASE UNCHANGED vars
    BY <1>0, <1>1 DEF vars
  <1>2. ASSUME NEW i \in Incidents, SeenAgain(i) \/ Resolve(i) \/ Demand(i) PROVE Beyond
    BY <1>2, Zenon DEF SeenAgain, Resolve, Demand, Beside, Aside
  <1>3. CASE Release \/ Job \/ SaveRaises \/ DemandLook \/ DemandSave
    <2>1. Beyond
      BY <1>3 DEF Release, Job, SelectIncidents, Look, SaveDiagnosis, EndPass, SaveRaises, DemandLook,
                  DemandSave, Beside, Aside
    <2> QED BY <1>0, <2>1
  <1>4. ASSUME NEW g \in Generators,
               Generation(g) \/ InsertRaises(g) \/ \E i \in Incidents : Generate(g, i)
        PROVE  PlanInv'
    <2>1. UNCHANGED <<plans, planner>>
      BY <1>4 DEF Generation, Known, Supersede, Insert, GenerateEnds, InsertRaises, Generate
    <2>2. ~overlapped' => ~overlapped
      BY <1>4, Zenon DEF Generation, Known, Supersede, Insert, GenerateEnds, InsertRaises, Generate
    <2> QED BY <1>0, <2>1, <2>2
  <1>5. ASSUME NEW a \in DOMAIN actions, Approve(a) \/ Reject(a) PROVE Beyond
    BY <1>5 DEF Approve, Reject, Decide
  <1>6. ASSUME NEW p \in Planners,
               Planning(p) \/ PlanRaises(p) \/ \E a \in DOMAIN actions : PlanRead(p, a)
        PROVE  PlanInv'
    <2>1. CASE PlanRaises(p)
      BY <2>1, RequestMoves DEF PlanRaises, Idle
    <2> QED BY <1>6, <2>1, PlanReadStep, PlanEndsStep, PlanCommitStep DEF Planning
  <1>7. ASSUME NEW n \in DOMAIN plans, CancelPlan(n) PROVE PlanInv'
    BY <1>7, PlansFewer DEF CancelPlan
  <1>8. ASSUME Beyond PROVE PlanInv'
    BY <1>0, <1>8
  <1> QED BY <1>1, <1>2, <1>3, <1>4, <1>5, <1>6, <1>7, <1>8 DEF Next

LEMMA PlansSingle == OneActive => OnePlan
  <1> SUFFICES ASSUME OneActive, NEW a \in DOMAIN actions PROVE Cardinality(ActivePlans(a)) <= 1
    BY DEF OnePlan
  <1>1. CASE ActivePlans(a) = {}
    BY <1>1, FS_EmptySet
  <1>2. ASSUME NEW n \in ActivePlans(a) PROVE Cardinality(ActivePlans(a)) <= 1
    <2>1. ActivePlans(a) = {n}
      BY <1>2 DEF OneActive, ActivePlans
    <2>2. Cardinality(ActivePlans(a)) = 1
      BY <2>1, FS_Singleton, Zenon
    <2> QED BY <2>2
  <1> QED BY <1>1, <1>2

(* Where no two generations of an incident and no two plan requests of an action overlap,
   an admin has at most one recommendation of each kind to decide on, and at most one
   plan of each to look at, whatever is diagnosed, released and decided in between. *)
THEOREM CurrentIsOne == Spec => []OneCurrent
  <1>1. IInv /\ [Next]_vars => IInv'
    BY Inductive
  <1>2. PendingInv /\ PlanInv => OneCurrent
    BY PlansSingle DEF PendingInv, PlanInv, OneCurrent
  <1>3. Init => IInv
    <2> SUFFICES ASSUME Init PROVE Rows(0)
      BY DEF IInv
    <2> QED BY DEF Init, Rows
  <1> QED BY <1>1, <1>2, <1>3, PendingInit, PendingNext, PlanInit, PlanNext, PTL DEF Spec
=============================================================================
