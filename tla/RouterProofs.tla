---------------------------- MODULE RouterProofs ----------------------------
(***************************************************************************)
(* Proofs about Router: for any number of models, settings files, load and *)
(* unload calls, requests, loads and reloads.                              *)
(*                                                                         *)
(* None of the properties is inductive. RouterInv is, in parts: each call  *)
(* that is in progress owns its model (Owned), engines and executors have  *)
(* names of their own (Named), a call holds what no table has (InHand),    *)
(* what is in the tables belongs to a model in use (Placed), and requests  *)
(* are where the count says (Served).                                      *)
(***************************************************************************)
EXTENDS Router, TLAPS, FiniteSetTheorems

StateFields   == {"lifecycle", "inflight", "effective", "born"}
LoadCall      == {"pc", "model", "born", "id", "replicas", "held", "backend", "effective"}
UnloadCall    == {"pc", "model", "born", "executor", "held"}
RequestFields == {"pc", "model", "executor", "runtime"}
RequestSteps  == {"admitted", "queued", "running", "answered"}

CallShape(c) ==
  \/ c = Idle
  \/ DOMAIN c = LoadCall /\ c.pc \in LoadSteps
  \/ DOMAIN c = UnloadCall /\ c.pc \in UnloadSteps

RequestShape(r) == r = Idle \/ (DOMAIN r = RequestFields /\ r.pc \in RequestSteps)

StateShape(s) ==
  DOMAIN s = StateFields /\ s.lifecycle \in Lifecycles /\ s.inflight \in Nat

\* What every operation takes for granted of the data.
Shaped ==
  /\ DOMAIN states = DOMAIN configured /\ DOMAIN configured \subseteq Models
  /\ \A m \in DOMAIN states : StateShape(states[m])
  /\ DOMAIN engines = 1..MaxBuilds /\ builds \in 0..MaxBuilds
  /\ DOMAIN admin = Admins /\ \A a \in Admins : CallShape(admin[a])
  /\ DOMAIN request = Requests /\ \A q \in Requests : RequestShape(request[q])
  /\ DOMAIN closing = {"pc", "runtimes"}
  /\ closing.pc \in {"open", "clear"} => closing.runtimes = {}

SettingsOf(m) == [def |-> configured[m].def, decoding |-> tuning.decoding]

\* A call in progress has marked the state of its model, and nobody changes it.
Owns(c) ==
  /\ Open
  /\ c.model \in DOMAIN states
  /\ states[c.model].born = c.born
  /\ c.pc \in LoadSteps =>
       /\ states[c.model].lifecycle = "loading"
       /\ c.effective = SettingsOf(c.model)
       /\ c.backend = configured[c.model].backend
  /\ c.pc \in UnloadSteps => states[c.model].lifecycle = "unloading"

Owned ==
  /\ \A a \in Admins : admin[a] # Idle => Owns(admin[a])
  /\ \A a, b \in Admins :
       admin[a] # Idle /\ admin[b] # Idle /\ admin[a].model = admin[b].model => a = b

\* A name that a load has taken, and that nothing but its executor may get.
Fresh(i) ==
  /\ i \in 1..builds /\ i \notin shut
  /\ \A r \in DOMAIN engineOf : engineOf[r] # i
  /\ \A m \in DOMAIN registry : registry[m].id # i

Named ==
  /\ \A r \in DOMAIN engineOf : engineOf[r] \in 1..builds
  /\ \A m \in DOMAIN registry : registry[m].id \in 1..builds
  /\ \A m, n \in DOMAIN registry : registry[m].id = registry[n].id => m = n
  /\ shut \subseteq 1..builds
  /\ \A a \in Admins : admin[a].pc \in LoadSteps => Fresh(admin[a].id)
  /\ \A a, b \in Admins :
       admin[a].pc \in LoadSteps /\ admin[b].pc \in LoadSteps /\ admin[a].id = admin[b].id
       => a = b

\* The runtimes a call holds are of its model, and there are some only between
\* building and installing, or between taking out and cleaning up.
Holds(c) ==
  /\ \A x \in c.held : x[2][1] = c.model
  /\ c.pc \notin {"install", "clean", "reclaim"} => c.held = {}
  /\ c.pc \in LoadSteps =>
       c.replicas # {} /\ \A r \in c.replicas : r \in ReplicaSet /\ r[1] = c.model
  /\ c.pc = "install" =>
       c.held = {<<c.id, r>> : r \in c.replicas} /\ c.held \subseteq alive

InHand == \A a \in Admins : admin[a] # Idle => Holds(admin[a])

\* A replica in the tables: the executor of its model, its engine and its
\* runtime are those of the load that built it.
ReplicaPlaced(m, r) ==
  /\ r \in ReplicaSet /\ r[1] = m
  /\ r \in DOMAIN models /\ models[r] = registry[m].id
  /\ r \in DOMAIN engineOf /\ engineOf[r] = registry[m].engine
  /\ r \in DOMAIN engines[engineOf[r]] /\ engines[engineOf[r]][r] = models[r]
  /\ <<models[r], r>> \in alive

ModelPlaced(m) ==
  /\ m \in DOMAIN states /\ states[m].lifecycle \in {"loaded", "unloading"}
  /\ m \in DOMAIN registry /\ registry[m].replicas = replicaIds[m]
  /\ replicaIds[m] # {}
  /\ \A r \in replicaIds[m] : ReplicaPlaced(m, r)

\* What an unload knows of the tables.
Unloads(c) ==
  /\ c.pc \in {"reclaim", "unloaded"} => c.model \notin DOMAIN replicaIds
  /\ c.pc = "shut" => c.model \in DOMAIN registry /\ c.executor = {registry[c.model].id}

TablesPlaced ==
  /\ \A r \in DOMAIN models \cup DOMAIN engineOf :
       r[1] \in DOMAIN replicaIds /\ r \in replicaIds[r[1]]
  /\ DOMAIN registry \subseteq DOMAIN replicaIds
  /\ \A m \in DOMAIN replicaIds : ModelPlaced(m)
  /\ \A m \in DOMAIN states :
       states[m].lifecycle = "loaded" => m \in DOMAIN replicaIds /\ registry[m].id \notin shut

Placed ==
  /\ TablesPlaced
  /\ \A a \in Admins : admin[a] # Idle => Unloads(admin[a])

\* A request in progress is on the executor of its model, which is in use.
OnExecutor(r) ==
  /\ r.model \in DOMAIN registry /\ r.executor = registry[r.model]
  /\ r.pc = "running" => \E x \in r.executor.replicas : r.runtime = <<r.executor.id, x>>

Served ==
  /\ \A q \in Requests : request[q] # Idle => OnExecutor(request[q])
  /\ \A m \in DOMAIN states :
       IsFiniteSet(Admitted(m)) /\ states[m].inflight = Cardinality(Admitted(m))

RouterInv ==
  /\ Shaped
  /\ Owned
  /\ RuntimeMatchesSettings
  /\ Named
  /\ InHand
  /\ NoRuntimeLeaks
  /\ OneEnginePerBackend
  /\ Open => Placed
  /\ Open => Served

----------------------------------------------------------------------------
\* Requests between admission and release

\* The steps of a request in the executor touch neither tables nor counts.
LEMMA RequestStepsKeep ==
  ASSUME RouterInv, NEW q \in Requests,
         Enqueue(q) \/ Refused(q) \/ Start(q) \/ Drop(q) \/ Return(q)
  PROVE  RouterInv'
<1>1. RequestOnly /\ request[q] # Idle
  BY DEF Enqueue, Refused, Start, Drop, Return, Idle
<1> DEFINE r == request'[q]
<1>2. /\ request' = [request EXCEPT ![q] = r]
      /\ RequestShape(r) /\ r # Idle
      /\ r.model = request[q].model /\ r.executor = request[q].executor
      /\ r.pc = "running" => \/ request[q].pc = "running" /\ r.runtime = request[q].runtime
                             \/ \E x \in r.executor.replicas :
                                  /\ x \in DOMAIN engines[r.executor.engine]
                                  /\ r.runtime = <<engines[r.executor.engine][x], x>>
  <2>1. DOMAIN request[q] = RequestFields /\ DOMAIN request = Requests
    BY <1>1 DEF RouterInv, Shaped, RequestShape
  <2>2. CASE Enqueue(q)
    BY <2>1, <2>2 DEF Enqueue, Move, RequestShape, RequestFields, RequestSteps, Idle
  <2>3. CASE Refused(q)
    BY <2>1, <2>3 DEF Refused, Move, RequestShape, RequestFields, RequestSteps, Idle
  <2>4. CASE Start(q)
    BY <2>1, <2>4 DEF Start, Move, RequestShape, RequestFields, RequestSteps, Idle
  <2>5. CASE Drop(q)
    BY <2>1, <2>5 DEF Drop, Move, RequestShape, RequestFields, RequestSteps, Idle
  <2>6. CASE Return(q)
    BY <2>1, <2>6 DEF Return, RequestShape, RequestFields, RequestSteps, Idle
  <2> QED
    BY <2>2, <2>3, <2>4, <2>5, <2>6
<1> HIDE DEF r
<1>3. Shaped'
  BY <1>1, <1>2 DEF RouterInv, Shaped, RequestOnly, catalogVars, tableVars, execVars
<1>4. Owned' /\ RuntimeMatchesSettings' /\ Named' /\ InHand' /\ NoRuntimeLeaks'
        /\ OneEnginePerBackend' /\ (Open => Placed)'
  BY <1>1 DEF RouterInv, RequestOnly, catalogVars, tableVars, execVars, Owned, Owns, Open,
     SettingsOf, RuntimeMatchesSettings, Named, Fresh, InHand, Holds, NoRuntimeLeaks, Held,
     OneEnginePerBackend, Placed, TablesPlaced, ModelPlaced, ReplicaPlaced, Unloads
<1>5. (Open => Served)'
  <2> SUFFICES ASSUME Open PROVE Served'
    BY <1>1 DEF RequestOnly, Open
  <2>1. Served /\ Placed /\ Shaped
    BY DEF RouterInv
  <2>2. \A m : Admitted(m)' = Admitted(m)
    BY <1>1, <1>2, <2>1 DEF Admitted, Shaped
  <2>3. OnExecutor(r)
    <3>1. OnExecutor(request[q])
      BY <1>1, <2>1 DEF Served
    <3>2. r.model \in DOMAIN registry /\ r.executor = registry[r.model]
      BY <1>2, <3>1 DEF OnExecutor
    <3>3. ModelPlaced(r.model)
      BY <3>2, <2>1 DEF Placed, TablesPlaced
    <3>4. \A x \in r.executor.replicas : engines[r.executor.engine][x] = r.executor.id
      <4> TAKE x \in r.executor.replicas
      <4>1. ReplicaPlaced(r.model, x)
        BY <3>2, <3>3 DEF ModelPlaced
      <4> QED
        BY <3>2, <4>1 DEF ReplicaPlaced
    <3>5. r.pc = "running" => \E x \in r.executor.replicas : r.runtime = <<r.executor.id, x>>
      BY <1>2, <3>1, <3>4 DEF OnExecutor
    <3> QED
      BY <3>2, <3>5 DEF OnExecutor
  <2> QED
    BY <1>1, <1>2, <2>1, <2>2, <2>3 DEF Served, OnExecutor, RequestOnly, catalogVars, execVars,
       Shaped
<1> QED
  BY <1>3, <1>4, <1>5 DEF RouterInv

----------------------------------------------------------------------------
\* Loads and unloads, as long as they change no state object

\* d is what becomes of the call c in one of its steps, its end excepted.
Continues(c, d) ==
  /\ CallShape(d) /\ d # Idle
  /\ d.model = c.model /\ d.born = c.born
  /\ c.pc \in LoadSteps =>
       /\ d.pc \in LoadSteps /\ d.id = c.id /\ d.replicas = c.replicas
       /\ d.backend = c.backend /\ d.effective = c.effective
  /\ c.pc \in UnloadSteps => d.pc \in UnloadSteps /\ d.executor = c.executor

\* A step that changes at most the fields pc and held of a call continues it.
LEMMA StepContinues ==
  ASSUME NEW c, CallShape(c), NEW d,
         DOMAIN d = DOMAIN c, \A f \in DOMAIN c \ {"pc", "held"} : d[f] = c[f],
         \/ c.pc \in LoadSteps /\ d.pc \in LoadSteps
         \/ c.pc \in UnloadSteps /\ d.pc \in UnloadSteps
  PROVE  Continues(c, d)
<1>1. c.pc # "idle" /\ d # Idle
  BY DEF LoadSteps, UnloadSteps, Idle
<1>2. \/ /\ DOMAIN c = LoadCall /\ c.pc \in LoadSteps /\ c.pc \notin UnloadSteps
         /\ d.pc \in LoadSteps
      \/ /\ DOMAIN c = UnloadCall /\ c.pc \in UnloadSteps /\ c.pc \notin LoadSteps
         /\ d.pc \in UnloadSteps
  BY <1>1 DEF CallShape, LoadSteps, UnloadSteps, Idle
<1>3. d.model = c.model /\ d.born = c.born
  BY <1>2 DEF LoadCall, UnloadCall
<1>4. ASSUME DOMAIN c = LoadCall
      PROVE  /\ d.id = c.id /\ d.replicas = c.replicas /\ d.backend = c.backend
             /\ d.effective = c.effective
  BY <1>4 DEF LoadCall
<1>5. ASSUME DOMAIN c = UnloadCall
      PROVE  d.executor = c.executor
  BY <1>5 DEF UnloadCall
<1> QED
  BY <1>1, <1>2, <1>3, <1>4, <1>5 DEF Continues, CallShape

\* A call in progress has a step and what it holds.
LEMMA CallFields ==
  ASSUME NEW c, CallShape(c), c.pc \in LoadSteps \/ c.pc \in UnloadSteps
  PROVE  {"pc", "held"} \subseteq DOMAIN c
  BY DEF CallShape, LoadCall, UnloadCall, LoadSteps, UnloadSteps, Idle

\* In the form of a step that moves a call on, and of one that changes its hands.
LEMMA MoveContinues ==
  ASSUME NEW c, CallShape(c), NEW pc,
         \/ c.pc \in LoadSteps /\ pc \in LoadSteps
         \/ c.pc \in UnloadSteps /\ pc \in UnloadSteps
  PROVE  /\ Continues(c, [c EXCEPT !.pc = pc])
         /\ [c EXCEPT !.pc = pc].pc = pc /\ [c EXCEPT !.pc = pc].held = c.held
<1> DEFINE d == [c EXCEPT !.pc = pc]
<1>1. {"pc", "held"} \subseteq DOMAIN c
  BY CallFields
<1>2. d.pc = pc /\ d.held = c.held
  BY <1>1
<1>3. DOMAIN d = DOMAIN c /\ \A f \in DOMAIN c \ {"pc", "held"} : d[f] = c[f]
  OBVIOUS
<1> HIDE DEF d
<1>4. Continues(c, d)
  BY <1>2, <1>3, StepContinues
<1> QED
  BY <1>2, <1>4 DEF d

\* A call that changes its step and what it holds is still the same call.
LEMMA HandContinues ==
  ASSUME NEW c, CallShape(c), NEW pc, NEW held,
         \/ c.pc \in LoadSteps /\ pc \in LoadSteps
         \/ c.pc \in UnloadSteps /\ pc \in UnloadSteps
  PROVE  Continues(c, [c EXCEPT !.pc = pc, !.held = held])
<1> DEFINE d == [c EXCEPT !.pc = pc, !.held = held]
<1>1. {"pc", "held"} \subseteq DOMAIN c
  BY CallFields
<1>2. d.pc = pc /\ d.held = held
  BY <1>1
<1>3. DOMAIN d = DOMAIN c /\ \A f \in DOMAIN c \ {"pc", "held"} : d[f] = c[f]
  OBVIOUS
<1> HIDE DEF d
<1>4. Continues(c, d)
  BY <1>2, <1>3, StepContinues
<1> QED
  BY <1>2, <1>4 DEF d

\* A call in progress is a load or an unload.
LEMMA BusyCalls ==
  ASSUME Shaped, NEW a \in Admins
  PROVE  /\ admin[a] # Idle <=> admin[a].pc # "idle"
         /\ admin[a] # Idle <=> admin[a].pc \in LoadSteps \cup UnloadSteps
         /\ ~(admin[a].pc \in LoadSteps /\ admin[a].pc \in UnloadSteps)
  BY DEF Shaped, CallShape, LoadSteps, UnloadSteps, Idle

\* While a call goes on and leaves the states alone, the models remain owned.
LEMMA StillOwned ==
  ASSUME RouterInv, NEW a \in Admins, admin[a] # Idle,
         NEW d, Continues(admin[a], d), admin' = [admin EXCEPT ![a] = d],
         UNCHANGED <<configured, tuning, states, closing>>
  PROVE  Owned' /\ RuntimeMatchesSettings'
<1>1. RuntimeMatchesSettings'
  BY DEF RouterInv, RuntimeMatchesSettings
<1>2. Shaped /\ Owned
  BY DEF RouterInv
<1>3. ASSUME NEW b \in Admins, admin'[b] # Idle
      PROVE  /\ Owns(admin[b])' /\ admin[b] # Idle
             /\ admin'[b].model = admin[b].model
  <2>1. admin'[b] = IF b = a THEN d ELSE admin[b]
    BY <1>2 DEF Shaped
  <2>2. admin[b] # Idle /\ admin'[b].model = admin[b].model
    BY <1>3, <2>1 DEF Continues
  <2>3. Owns(admin[b])
    BY <1>2, <2>2 DEF Owned
  <2>4. /\ admin'[b].born = admin[b].born
        /\ admin'[b].pc \in LoadSteps =>
             /\ admin[b].pc \in LoadSteps /\ admin'[b].backend = admin[b].backend
             /\ admin'[b].effective = admin[b].effective
        /\ admin'[b].pc \in UnloadSteps => admin[b].pc \in UnloadSteps
    <3>1. CASE b # a
      BY <2>1, <3>1
    <3>2. CASE b = a
      BY <2>1, <3>2, <1>2, BusyCalls DEF Continues, LoadSteps, UnloadSteps
    <3> QED
      BY <3>1, <3>2
  <2>5. SettingsOf(admin[b].model)' = SettingsOf(admin[b].model)
    BY <2>2 DEF SettingsOf
  <2> QED
    BY <2>2, <2>3, <2>4, <2>5 DEF Owns, Open
<1>4. ASSUME NEW b \in Admins, NEW c \in Admins, admin'[b] # Idle, admin'[c] # Idle,
             admin'[b].model = admin'[c].model
      PROVE  b = c
  BY <1>2, <1>3, <1>4 DEF Owned
<1> QED
  BY <1>1, <1>3, <1>4 DEF Owned

\* The names stay, too, when no table and no executor changes.
LEMMA StillNamed ==
  ASSUME RouterInv, NEW a \in Admins, admin[a] # Idle,
         NEW d, Continues(admin[a], d), admin' = [admin EXCEPT ![a] = d],
         UNCHANGED <<engineOf, registry, shut, builds>>
  PROVE  Named'
<1>1. Shaped /\ Named
  BY DEF RouterInv
<1>2. ASSUME NEW b \in Admins, admin'[b].pc \in LoadSteps
      PROVE  admin[b].pc \in LoadSteps /\ admin'[b].id = admin[b].id
  <2>1. admin'[b] = IF b = a THEN d ELSE admin[b]
    BY <1>1 DEF Shaped
  <2> QED
    BY <1>1, <1>2, <2>1, BusyCalls DEF Continues, LoadSteps, UnloadSteps
<1>3. ASSUME NEW b \in Admins, admin'[b].pc \in LoadSteps
      PROVE  Fresh(admin[b].id)'
  BY <1>1, <1>2, <1>3 DEF Named, Fresh
<1>4. ASSUME NEW b \in Admins, NEW c \in Admins, admin'[b].pc \in LoadSteps,
             admin'[c].pc \in LoadSteps, admin'[b].id = admin'[c].id
      PROVE  b = c
  BY <1>1, <1>2, <1>4 DEF Named
<1> QED
  BY <1>1, <1>3, <1>4 DEF Named

\* A step of a call that only moves on: no table, no runtime and no state changes.
LEMMA MovesOn ==
  ASSUME RouterInv, NEW a \in Admins, admin[a] # Idle,
         NEW d, Continues(admin[a], d), admin' = [admin EXCEPT ![a] = d],
         d.held = admin[a].held, Holds(d), Open => Unloads(d),
         UNCHANGED <<catalogVars, states, tableVars, execVars, alive, builds, request, closing>>
  PROVE  RouterInv'
<1> USE DEF catalogVars, tableVars, execVars
<1>1. Shaped /\ Owned /\ InHand /\ NoRuntimeLeaks /\ OneEnginePerBackend
        /\ (Open => Placed) /\ (Open => Served)
  BY DEF RouterInv
<1>2. \A b \in Admins : admin'[b] = IF b = a THEN d ELSE admin[b]
  BY <1>1 DEF Shaped
<1>3. Shaped'
  BY <1>1 DEF Shaped, Continues
<1>4. Owned' /\ RuntimeMatchesSettings' /\ Named'
  BY StillOwned, StillNamed
<1>5. InHand'
  BY <1>1, <1>2 DEF InHand, Holds
<1>6. Held' = Held
  <2>1. \A b \in Admins : admin'[b] # Idle <=> admin[b] # Idle
    BY <1>2 DEF Continues
  <2>2. \A b \in Admins : admin'[b].held = admin[b].held
    BY <1>2
  <2> QED
    BY <2>1, <2>2 DEF Held
<1>7. NoRuntimeLeaks' /\ OneEnginePerBackend'
  BY <1>1, <1>6 DEF NoRuntimeLeaks, OneEnginePerBackend
<1>8. (Open => Placed)'
  BY <1>1, <1>2 DEF Placed, TablesPlaced, ModelPlaced, ReplicaPlaced, Unloads, Open
<1>9. (Open => Served)'
  BY <1>1 DEF Served, OnExecutor, Admitted, Open
<1> QED
  BY <1>3, <1>4, <1>5, <1>7, <1>8, <1>9 DEF RouterInv

\* The constructor of the engine raises.
LEMMA BuildRaisesKeeps ==
  ASSUME RouterInv, NEW a \in Admins, BuildRaises(a)
  PROVE  RouterInv'
<1> DEFINE d == [admin[a] EXCEPT !.pc = "fail"]
<1>1. Shaped /\ InHand /\ (Open => Placed) /\ admin[a].pc = "build"
  BY DEF RouterInv, BuildRaises
<1>2. CallShape(admin[a]) /\ admin[a] # Idle /\ admin' = [admin EXCEPT ![a] = d]
  BY <1>1 DEF BuildRaises, Become, Shaped, Idle
<1>3. Continues(admin[a], d) /\ d.pc = "fail" /\ d.held = admin[a].held
  BY <1>1, <1>2, MoveContinues DEF LoadSteps
<1> HIDE DEF d
<1>4. Holds(admin[a])
  BY <1>1, <1>2 DEF InHand
<1>5. Holds(d) /\ Unloads(d)
  BY <1>1, <1>3, <1>4 DEF Holds, Unloads, Continues, LoadSteps
<1> QED
  BY <1>2, <1>3, <1>5, MovesOn DEF BuildRaises

\* An unload waits for requests.
LEMMA SleepKeeps ==
  ASSUME RouterInv, NEW a \in Admins, Sleep(a)
  PROVE  RouterInv'
<1> DEFINE d == [admin[a] EXCEPT !.pc = "asleep"]
<1>1. Shaped /\ InHand /\ (Open => Placed) /\ admin[a].pc = "drain"
  BY DEF RouterInv, Sleep
<1>2. CallShape(admin[a]) /\ admin[a] # Idle /\ admin' = [admin EXCEPT ![a] = d]
  BY <1>1 DEF Sleep, Become, Shaped, Idle
<1>3. Continues(admin[a], d) /\ d.pc = "asleep" /\ d.held = admin[a].held
  BY <1>1, <1>2, MoveContinues DEF UnloadSteps
<1> HIDE DEF d
<1>4. Holds(admin[a])
  BY <1>1, <1>2 DEF InHand
<1>5. Holds(d) /\ Unloads(d)
  BY <1>1, <1>3, <1>4 DEF Holds, Unloads, Continues, LoadSteps
<1> QED
  BY <1>2, <1>3, <1>5, MovesOn DEF Sleep

\* What the runtimes in hand are after a step of one call.
LEMMA HeldAfter ==
  ASSUME Shaped, NEW a \in Admins, admin[a] # Idle,
         NEW d, d # Idle, admin' = [admin EXCEPT ![a] = d]
  PROVE  \A x : x \in Held' <=>
            \/ x \in d.held
            \/ \E b \in Admins : b # a /\ admin[b] # Idle /\ x \in admin[b].held
<1>1. \A b \in Admins : admin'[b] = IF b = a THEN d ELSE admin[b]
  BY DEF Shaped
<1> QED
  BY <1>1 DEF Held

\* The constructor returns with the replicas it could build, in the hands of the load.
LEMMA BuildKeeps ==
  ASSUME RouterInv, NEW a \in Admins, Build(a)
  PROVE  RouterInv'
<1>1. Shaped /\ Owned /\ Named /\ InHand /\ NoRuntimeLeaks /\ OneEnginePerBackend
        /\ (Open => Placed) /\ (Open => Served) /\ admin[a].pc = "build"
  BY DEF RouterInv, Build
<1>2. PICK R \in (SUBSET admin[a].replicas) \ {{}} :
        /\ alive' = alive \cup {<<admin[a].id, r>> : r \in R}
        /\ engines' = [engines EXCEPT ![admin[a].id] = [r \in R |-> admin[a].id]]
        /\ admin' = [admin EXCEPT ![a].pc = AfterBuild(R, admin[a].replicas),
                                  ![a].held = {<<admin[a].id, r>> : r \in R}]
  BY DEF Build
<1> DEFINE new == {<<admin[a].id, r>> : r \in R}
           pc == AfterBuild(R, admin[a].replicas)
           d == [admin[a] EXCEPT !.pc = pc, !.held = new]
<1>3. admin' = [admin EXCEPT ![a] = d]
  BY <1>2
<1> HIDE DEF new
<1>4. CallShape(admin[a]) /\ admin[a] # Idle /\ admin[a].pc \in LoadSteps
  BY <1>1 DEF Shaped, Idle, LoadSteps
<1>5. pc \in {"install", "clean"} /\ (pc = "install" => R = admin[a].replicas)
  BY DEF AfterBuild
<1> HIDE DEF pc
<1>51. pc \in LoadSteps
  BY <1>5 DEF LoadSteps
<1>6. Continues(admin[a], d) /\ d.pc = pc /\ d.held = new
  <2>1. Continues(admin[a], d)
    BY <1>4, <1>51, HandContinues
  <2>2. d.pc = pc /\ d.held = new
    BY <1>4, CallFields
  <2> QED
    BY <2>1, <2>2
<1> HIDE DEF d
<1>7. UNCHANGED <<catalogVars, states, models, engineOf, replicaIds, execVars, builds,
                  request, closing>>
  BY DEF Build
<1> USE DEF catalogVars, execVars
<1>8. Owned' /\ RuntimeMatchesSettings' /\ Named'
  BY <1>3, <1>4, <1>6, <1>7, StillOwned, StillNamed
<1>9. Shaped'
  BY <1>1, <1>2, <1>3, <1>6, <1>7 DEF Shaped, Continues
<1>10. alive \subseteq alive' /\ new \subseteq alive'
  BY <1>2 DEF new
<1>11. InHand'
  <2>1. Holds(admin[a])
    BY <1>1, <1>4 DEF InHand
  <2>2. \A x \in new : x[2] \in admin[a].replicas
    BY <1>2 DEF new
  <2>3. pc = "install" => new = {<<admin[a].id, r>> : r \in admin[a].replicas}
    BY <1>5 DEF new
  <2>5. ASSUME NEW b \in Admins, b # a, admin[b] # Idle PROVE Holds(admin[b])'
    <3>1. Holds(admin[b]) /\ admin'[b] = admin[b]
      BY <1>1, <1>3, <2>5 DEF InHand, Shaped
    <3> QED
      BY <3>1, <1>10 DEF Holds
  <2>6. admin'[a] = d /\ \A b \in Admins : b # a => admin'[b] = admin[b]
    BY <1>1, <1>3 DEF Shaped
  <2>7. Holds(admin[a])'
    BY <2>1, <2>2, <2>3, <2>6, <1>4, <1>5, <1>6, <1>10 DEF Holds, Continues
  <2> QED
    BY <2>5, <2>6, <2>7 DEF InHand
<1>12. NoRuntimeLeaks'
  <2>1. \A x \in Held : x \in Held'
    <3>1. admin[a].held = {}
      BY <1>1, <1>4 DEF InHand, Holds
    <3> QED
      BY <3>1, <1>1, <1>3, <1>4, <1>6, HeldAfter DEF Held, Continues
  <2>2. \A x \in new : x \in Held'
    BY <1>1, <1>3, <1>4, <1>6, HeldAfter DEF Continues
  <2>3. alive' = alive \cup new
    BY <1>2 DEF new
  <2> QED
    BY <1>1, <1>7, <2>1, <2>2, <2>3 DEF NoRuntimeLeaks
<1>13. OneEnginePerBackend'
  BY <1>1, <1>7 DEF OneEnginePerBackend
<1>14. (Open => Placed)'
  <2> SUFFICES ASSUME Open PROVE Placed'
    BY <1>7 DEF Open
  <2>1. ASSUME NEW m \in DOMAIN replicaIds PROVE ModelPlaced(m)'
    <3>1. ModelPlaced(m)
      BY <1>1 DEF Placed, TablesPlaced
    <3>2. ASSUME NEW r \in replicaIds[m] PROVE ReplicaPlaced(m, r)'
      <4>1. ReplicaPlaced(m, r)
        BY <3>1 DEF ModelPlaced
      <4>2. engineOf[r] # admin[a].id
        BY <1>1, <1>4, <4>1 DEF Named, Fresh, ReplicaPlaced
      <4>3. engines'[engineOf[r]] = engines[engineOf[r]]
        BY <1>1, <1>2, <4>1, <4>2 DEF Shaped, Named, ReplicaPlaced
      <4> QED
        BY <1>7, <1>10, <4>1, <4>3 DEF ReplicaPlaced
    <3> QED
      BY <1>7, <3>1, <3>2 DEF ModelPlaced
  <2>2. ASSUME NEW b \in Admins, admin'[b] # Idle PROVE Unloads(admin[b])'
    <3>1. admin'[b] = IF b = a THEN d ELSE admin[b]
      BY <1>1, <1>3 DEF Shaped
    <3> QED
      BY <1>1, <1>5, <1>6, <1>7, <2>2, <3>1 DEF Placed, TablesPlaced, Unloads
  <2> QED
    BY <1>1, <1>7, <2>1, <2>2 DEF Placed, TablesPlaced
<1>15. (Open => Served)'
  BY <1>1, <1>7 DEF Served, OnExecutor, Admitted, Open
<1> QED
  BY <1>8, <1>9, <1>11, <1>12, <1>13, <1>14, <1>15 DEF RouterInv

\* _cleanup_runtime of the runtimes a call holds.
LEMMA CleanKeeps ==
  ASSUME RouterInv, NEW a \in Admins, Clean(a)
  PROVE  RouterInv'
<1>1. Shaped /\ Owned /\ Named /\ InHand /\ NoRuntimeLeaks /\ OneEnginePerBackend
        /\ (Open => Placed) /\ (Open => Served) /\ admin[a].pc \in {"clean", "reclaim"}
  BY DEF RouterInv, Clean
<1>2. CallShape(admin[a]) /\ admin[a] # Idle
        /\ (admin[a].pc \in LoadSteps \/ admin[a].pc \in UnloadSteps)
  BY <1>1 DEF Shaped, Idle, LoadSteps, UnloadSteps
<1>3. Holds(admin[a]) /\ Owns(admin[a]) /\ (Open => Unloads(admin[a]))
  BY <1>1, <1>2 DEF InHand, Owned, Placed, TablesPlaced
<1>4. CASE admin[a].held = {}
  <2> DEFINE pc == IF admin[a].pc = "clean" THEN "fail" ELSE "unloaded"
             d == [admin[a] EXCEPT !.pc = pc]
  <2>1. admin' = [admin EXCEPT ![a] = d]
    BY <1>4 DEF Clean, Become
  <2>2. \/ admin[a].pc = "clean" /\ pc = "fail"
        \/ admin[a].pc = "reclaim" /\ pc = "unloaded"
    BY <1>1
  <2> HIDE DEF pc
  <2>3. Continues(admin[a], d) /\ d.pc = pc /\ d.held = admin[a].held
    <3>1. \/ admin[a].pc \in LoadSteps /\ pc \in LoadSteps
          \/ admin[a].pc \in UnloadSteps /\ pc \in UnloadSteps
      BY <2>2 DEF LoadSteps, UnloadSteps
    <3> QED
      BY <1>2, <3>1, MoveContinues
  <2> HIDE DEF d
  <2>4. Holds(d)
    BY <1>2, <1>3, <1>4, <2>2, <2>3 DEF Holds, Continues, LoadSteps, UnloadSteps
  <2>5. Open => Unloads(d)
    BY <1>3, <2>2, <2>3 DEF Unloads, Continues
  <2> QED
    BY <1>2, <1>4, <2>1, <2>3, <2>4, <2>5, MovesOn DEF Clean
<1>5. CASE admin[a].held # {}
  <2>1. PICK x \in admin[a].held : /\ alive' = alive \ {x}
                                   /\ admin' = [admin EXCEPT ![a].held = @ \ {x}]
    BY <1>5 DEF Clean
  <2> DEFINE d == [admin[a] EXCEPT !.held = @ \ {x}]
  <2>2. admin' = [admin EXCEPT ![a] = d]
    BY <2>1
  <2>3. Continues(admin[a], d) /\ d.pc = admin[a].pc /\ d.held = admin[a].held \ {x}
    <3>1. d.pc = admin[a].pc /\ d.held = admin[a].held \ {x}
      BY <1>2, CallFields
    <3>2. DOMAIN d = DOMAIN admin[a]
            /\ \A f \in DOMAIN admin[a] \ {"pc", "held"} : d[f] = admin[a][f]
      OBVIOUS
    <3> HIDE DEF d
    <3>3. Continues(admin[a], d)
      BY <1>2, <3>1, <3>2, StepContinues
    <3> QED
      BY <3>1, <3>3
  <2> HIDE DEF d
  <2>4. UNCHANGED <<catalogVars, states, tableVars, execVars, builds, request, closing>>
    BY DEF Clean
  <2> USE DEF catalogVars, tableVars, execVars
  <2>5. Owned' /\ RuntimeMatchesSettings' /\ Named'
    BY <1>2, <2>2, <2>3, <2>4, StillOwned, StillNamed
  <2>6. Shaped'
    BY <1>1, <2>2, <2>3, <2>4 DEF Shaped, Continues
  <2>7. \A b \in Admins : admin'[b] = IF b = a THEN d ELSE admin[b]
    BY <1>1, <2>2 DEF Shaped
  <2>8. InHand'
    <3>1. ASSUME NEW b \in Admins, b # a, admin[b] # Idle PROVE Holds(admin[b])'
      <4>1. Holds(admin[b]) /\ admin[b].model # admin[a].model
        BY <1>1, <1>2, <3>1 DEF InHand, Owned
      <4>2. x \notin admin[b].held
        BY <1>3, <2>1, <4>1 DEF Holds
      <4> QED
        BY <2>1, <2>7, <3>1, <4>1, <4>2 DEF Holds
    <3>2. Holds(admin[a])'
      BY <1>1, <1>2, <1>3, <2>3, <2>7 DEF Holds, Continues, LoadSteps, UnloadSteps
    <3> QED
      BY <2>7, <3>1, <3>2 DEF InHand
  <2>9. NoRuntimeLeaks'
    <3>1. \A y \in Held : y # x => y \in Held'
      BY <1>1, <1>2, <2>2, <2>3, HeldAfter DEF Held, Continues
    <3> QED
      BY <1>1, <2>1, <2>4, <3>1 DEF NoRuntimeLeaks
  <2>10. OneEnginePerBackend'
    BY <1>1, <2>4 DEF OneEnginePerBackend
  <2>11. (Open => Placed)'
    <3> SUFFICES ASSUME Open PROVE Placed'
      BY <2>4 DEF Open
    <3>1. admin[a].model \notin DOMAIN replicaIds
      <4>1. CASE admin[a].pc = "reclaim"
        BY <1>3, <4>1 DEF Unloads
      <4>2. CASE admin[a].pc = "clean"
        <5>1. states[admin[a].model].lifecycle = "loading"
          BY <1>3, <4>2 DEF Owns, LoadSteps
        <5> QED
          BY <1>1, <5>1 DEF Placed, TablesPlaced, ModelPlaced
      <4> QED
        BY <1>1, <4>1, <4>2
    <3>2. ASSUME NEW m \in DOMAIN replicaIds PROVE ModelPlaced(m)'
      <4>1. ModelPlaced(m)
        BY <1>1 DEF Placed, TablesPlaced
      <4>2. ASSUME NEW r \in replicaIds[m] PROVE ReplicaPlaced(m, r)'
        <5>1. ReplicaPlaced(m, r)
          BY <4>1 DEF ModelPlaced
        <5>2. <<models[r], r>> # x
          BY <1>3, <2>1, <3>1, <5>1 DEF Holds, ReplicaPlaced
        <5> QED
          BY <2>1, <2>4, <5>1, <5>2 DEF ReplicaPlaced
      <4> QED
        BY <2>4, <4>1, <4>2 DEF ModelPlaced
    <3>3. ASSUME NEW b \in Admins, admin'[b] # Idle PROVE Unloads(admin[b])'
      BY <1>1, <1>2, <1>3, <2>3, <2>4, <2>7, <3>3 DEF Placed, TablesPlaced, Unloads, Continues
    <3> QED
      BY <1>1, <2>4, <3>2, <3>3 DEF Placed, TablesPlaced
  <2>12. (Open => Served)'
    BY <1>1, <2>4 DEF Served, OnExecutor, Admitted, Open
  <2> QED
    BY <2>5, <2>6, <2>8, <2>9, <2>10, <2>11, <2>12 DEF RouterInv
<1> QED
  BY <1>4, <1>5

\* An unload shuts the executor down before it waits.
LEMMA ShutExecutorKeeps ==
  ASSUME RouterInv, NEW a \in Admins, ShutExecutor(a)
  PROVE  RouterInv'
<1> DEFINE d == [admin[a] EXCEPT !.pc = "drain"]
<1>1. Shaped /\ Owned /\ Named /\ InHand /\ NoRuntimeLeaks /\ OneEnginePerBackend
        /\ (Open => Placed) /\ (Open => Served) /\ admin[a].pc = "shut"
  BY DEF RouterInv, ShutExecutor
<1>2. CallShape(admin[a]) /\ admin[a] # Idle /\ admin[a].pc \in UnloadSteps
        /\ admin' = [admin EXCEPT ![a] = d]
  BY <1>1 DEF ShutExecutor, Become, Shaped, Idle, UnloadSteps
<1>3. Continues(admin[a], d) /\ d.pc = "drain" /\ d.held = admin[a].held
  BY <1>1, <1>2, MoveContinues DEF UnloadSteps
<1> HIDE DEF d
<1>4. shut' = shut \cup admin[a].executor
        /\ UNCHANGED <<catalogVars, states, tableVars, registry, alive, builds, request, closing>>
  BY DEF ShutExecutor
<1> USE DEF catalogVars, tableVars
<1>5. Owned' /\ RuntimeMatchesSettings'
  BY <1>2, <1>3, <1>4, StillOwned
<1>6. Shaped'
  BY <1>1, <1>2, <1>3, <1>4 DEF Shaped, Continues
<1>7. \A b \in Admins : admin'[b] = IF b = a THEN d ELSE admin[b]
  BY <1>1, <1>2 DEF Shaped
<1>8. /\ Open /\ admin[a].model \in DOMAIN registry
      /\ admin[a].executor = {registry[admin[a].model].id}
      /\ states[admin[a].model].lifecycle = "unloading"
  <2>1. Owns(admin[a])
    BY <1>1, <1>2 DEF Owned
  <2>2. Unloads(admin[a])
    BY <1>1, <1>2, <2>1 DEF Owns, Placed, TablesPlaced
  <2> QED
    BY <1>1, <1>2, <2>1, <2>2 DEF Owns, Unloads
<1>9. Named'
  <2>1. \A b \in Admins : admin'[b].pc \in LoadSteps =>
          admin[b].pc \in LoadSteps /\ admin'[b].id = admin[b].id
    BY <1>1, <1>2, <1>3, <1>7, BusyCalls DEF Continues, LoadSteps, UnloadSteps
  <2>2. ASSUME NEW b \in Admins, admin'[b].pc \in LoadSteps PROVE Fresh(admin[b].id)'
    BY <1>1, <1>4, <1>8, <2>1, <2>2 DEF Named, Fresh
  <2>3. shut' \subseteq 1..builds
    BY <1>1, <1>4, <1>8 DEF Named
  <2> QED
    BY <1>1, <1>4, <2>1, <2>2, <2>3 DEF Named
<1>10. InHand'
  <2>1. Holds(admin[a])
    BY <1>1, <1>2 DEF InHand
  <2>2. Holds(admin[a])'
    BY <1>1, <1>3, <1>4, <1>7, <2>1 DEF Holds, Continues, LoadSteps
  <2> QED
    BY <1>1, <1>4, <1>7, <2>2 DEF InHand, Holds
<1>11. NoRuntimeLeaks' /\ OneEnginePerBackend'
  <2>1. Held \subseteq Held'
    BY <1>1, <1>2, <1>3, HeldAfter DEF Held, Continues
  <2> QED
    BY <1>1, <1>4, <2>1 DEF NoRuntimeLeaks, OneEnginePerBackend
<1>12. (Open => Placed)'
  <2>1. ASSUME NEW m \in DOMAIN states, states[m].lifecycle = "loaded"
        PROVE  m \in DOMAIN replicaIds /\ registry[m].id \notin shut'
    <3>1. m \in DOMAIN replicaIds /\ m \in DOMAIN registry /\ registry[m].id \notin shut
      BY <1>1, <1>8, <2>1 DEF Placed, TablesPlaced, ModelPlaced
    <3>2. registry[m].id # registry[admin[a].model].id
      BY <1>1, <1>8, <2>1, <3>1 DEF Named
    <3> QED
      BY <1>4, <1>8, <3>1, <3>2
  <2>2. ASSUME NEW m \in DOMAIN replicaIds PROVE ModelPlaced(m)'
    BY <1>1, <1>4, <1>8 DEF Placed, TablesPlaced, ModelPlaced, ReplicaPlaced
  <2>3. ASSUME NEW b \in Admins, admin'[b] # Idle PROVE Unloads(admin[b])'
    BY <1>1, <1>3, <1>4, <1>7, <1>8, <2>3 DEF Placed, TablesPlaced, Unloads
  <2> QED
    BY <1>1, <1>4, <1>8, <2>1, <2>2, <2>3 DEF Placed, TablesPlaced
<1>13. (Open => Served)'
  BY <1>1, <1>4 DEF Served, OnExecutor, Admitted, Open
<1> QED
  BY <1>5, <1>6, <1>9, <1>10, <1>11, <1>12, <1>13 DEF RouterInv

\* An unload takes the model out of registry and tables and holds its runtimes.
LEMMA TakeOutKeeps ==
  ASSUME RouterInv, NEW a \in Admins, TakeOut(a)
  PROVE  RouterInv'
<1> DEFINE m == admin[a].model
           R == IF m \in DOMAIN replicaIds THEN replicaIds[m] ELSE {}
           held == {<<models[r], r>> : r \in R \cap DOMAIN models}
           d == [admin[a] EXCEPT !.pc = "reclaim", !.held = held]
<1>1. Shaped /\ Owned /\ Named /\ InHand /\ NoRuntimeLeaks /\ OneEnginePerBackend
        /\ (Open => Placed) /\ (Open => Served) /\ admin[a].pc = "drain"
  BY DEF RouterInv, TakeOut
<1>2. CallShape(admin[a]) /\ admin[a] # Idle /\ admin[a].pc \in UnloadSteps
  BY <1>1 DEF Shaped, Idle, UnloadSteps
<1>3. admin' = [admin EXCEPT ![a] = d]
  BY DEF TakeOut
<1>4. /\ ~MustWait(m)
      /\ replicaIds' = Without(replicaIds, {m})
      /\ models' = Without(models, R)
      /\ engineOf' = Without(engineOf, R)
      /\ engines' = [e \in DOMAIN engines |->
                       Without(engines[e], {r \in R \cap DOMAIN engineOf : engineOf[r] = e})]
      /\ registry' = Without(registry, {m})
      /\ UNCHANGED <<catalogVars, states, shut, alive, builds, request, closing>>
  BY DEF TakeOut, Unregister
<1> USE DEF catalogVars
<1>5. Open /\ Placed /\ Served /\ m \in DOMAIN states
        /\ states[m].lifecycle = "unloading"
  BY <1>1, <1>2 DEF Owned, Owns
<1>6. \A r \in R : m \in DOMAIN replicaIds /\ r[1] = m /\ r \in DOMAIN models
  <2>1. CASE m \in DOMAIN replicaIds
    <3>1. ModelPlaced(m) /\ R = replicaIds[m]
      BY <1>5, <2>1 DEF Placed, TablesPlaced
    <3> QED
      BY <2>1, <3>1 DEF ModelPlaced, ReplicaPlaced
  <2>2. CASE m \notin DOMAIN replicaIds
    BY <2>2
  <2> QED
    BY <2>1, <2>2
<1> HIDE DEF m, R, held
<1>7. Continues(admin[a], d) /\ d.pc = "reclaim" /\ d.held = held
  <2>1. Continues(admin[a], d)
    BY <1>2, HandContinues DEF UnloadSteps
  <2>2. d.pc = "reclaim" /\ d.held = held
    BY <1>2, CallFields
  <2> QED
    BY <2>1, <2>2
<1> HIDE DEF d
<1>8. /\ DOMAIN replicaIds' = DOMAIN replicaIds \ {m}
      /\ DOMAIN registry' = DOMAIN registry \ {m}
      /\ DOMAIN models' = DOMAIN models \ R /\ DOMAIN engineOf' = DOMAIN engineOf \ R
      /\ \A n \in DOMAIN replicaIds' : replicaIds'[n] = replicaIds[n]
      /\ \A n \in DOMAIN registry' : registry'[n] = registry[n]
      /\ \A r \in DOMAIN models' : models'[r] = models[r]
      /\ \A r \in DOMAIN engineOf' : engineOf'[r] = engineOf[r]
  BY <1>4 DEF Without, Restrict
<1>9. \A b \in Admins : admin'[b] = IF b = a THEN d ELSE admin[b]
  BY <1>1, <1>3 DEF Shaped
<1>10. Owned' /\ RuntimeMatchesSettings'
  BY <1>2, <1>3, <1>4, <1>7, StillOwned
<1>11. Shaped'
  BY <1>1, <1>3, <1>4, <1>7 DEF Shaped, Continues
<1>12. Named'
  <2>1. \A b \in Admins : admin'[b].pc \in LoadSteps =>
          admin[b].pc \in LoadSteps /\ admin'[b].id = admin[b].id
    BY <1>1, <1>2, <1>7, <1>9, BusyCalls DEF Continues, LoadSteps, UnloadSteps
  <2>2. /\ \A n \in DOMAIN registry' : n \in DOMAIN registry /\ registry'[n] = registry[n]
        /\ \A r \in DOMAIN engineOf' : r \in DOMAIN engineOf /\ engineOf'[r] = engineOf[r]
    BY <1>8
  <2>3. ASSUME NEW b \in Admins, admin'[b].pc \in LoadSteps PROVE Fresh(admin[b].id)'
    <3>1. Fresh(admin[b].id) /\ admin'[b].id = admin[b].id
      BY <1>1, <2>1, <2>3 DEF Named
    <3> QED
      BY <1>4, <2>2, <3>1 DEF Fresh
  <2>4. \A b, c \in Admins :
          admin'[b].pc \in LoadSteps /\ admin'[c].pc \in LoadSteps /\ admin'[b].id = admin'[c].id
          => b = c
    BY <1>1, <2>1 DEF Named
  <2> QED
    BY <1>1, <1>4, <2>2, <2>3, <2>4 DEF Named
<1>13. InHand'
  <2>1. \A x \in held : x[2][1] = m
    BY <1>6 DEF held
  <2>2. Holds(admin[a])'
    BY <1>2, <1>7, <1>9, <2>1 DEF Holds, Continues, LoadSteps, UnloadSteps, m, CallShape
  <2>3. ASSUME NEW b \in Admins, b # a, admin[b] # Idle PROVE Holds(admin[b])'
    BY <1>1, <1>4, <1>9, <2>3 DEF InHand, Holds
  <2> QED
    BY <1>9, <2>2, <2>3 DEF InHand
<1>14. NoRuntimeLeaks'
  <2>1. admin[a].held = {}
    BY <1>1, <1>2 DEF InHand, Holds
  <2>2. \A x : x \in Held \/ x \in held => x \in Held'
    <3>1. \A x : x \in Held' <=>
            \/ x \in held
            \/ \E b \in Admins : b # a /\ admin[b] # Idle /\ x \in admin[b].held
      BY <1>1, <1>2, <1>3, <1>7, HeldAfter DEF Continues
    <3> QED
      BY <2>1, <3>1 DEF Held
  <2>3. ASSUME NEW r \in DOMAIN models
        PROVE  <<models[r], r>> \in held \/ (r \in DOMAIN models' /\ models'[r] = models[r])
    BY <1>8 DEF held
  <2> QED
    BY <1>1, <1>4, <2>2, <2>3 DEF NoRuntimeLeaks
<1>15. OneEnginePerBackend'
  BY <1>1, <1>4, <1>8 DEF OneEnginePerBackend
<1>16. Placed'
  <2>1. ASSUME NEW n \in DOMAIN replicaIds' PROVE ModelPlaced(n)'
    <3>1. n \in DOMAIN replicaIds /\ n # m /\ ModelPlaced(n)
      BY <1>5, <1>8, <2>1 DEF Placed, TablesPlaced
    <3>2. ASSUME NEW r \in replicaIds[n] PROVE ReplicaPlaced(n, r)'
      <4>1. ReplicaPlaced(n, r)
        BY <3>1 DEF ModelPlaced
      <4>2. r \notin R
        BY <1>6, <3>1, <4>1 DEF ReplicaPlaced
      <4>3. engineOf[r] \in DOMAIN engines
        BY <1>1, <4>1, RouterAssumption DEF ReplicaPlaced, Named, Shaped
      <4>4. r \in DOMAIN engines'[engineOf[r]]
              /\ engines'[engineOf[r]][r] = engines[engineOf[r]][r]
        BY <1>4, <4>1, <4>2, <4>3 DEF ReplicaPlaced, Without, Restrict
      <4> QED
        BY <1>4, <1>8, <3>1, <4>1, <4>2, <4>4 DEF ReplicaPlaced, ModelPlaced
    <3> QED
      BY <1>4, <1>8, <3>1, <3>2, <2>1 DEF ModelPlaced
  <2>2. ASSUME NEW b \in Admins, admin'[b] # Idle PROVE Unloads(admin[b])'
    <3>1. CASE b = a
      BY <1>7, <1>8, <1>9, <3>1 DEF Unloads, Continues, m
    <3>2. CASE b # a
      <4>1. admin'[b] = admin[b] /\ admin[b].model # m /\ Unloads(admin[b])
        BY <1>1, <1>2, <1>5, <1>9, <2>2, <3>2 DEF Owned, Placed, TablesPlaced, m
      <4> QED
        BY <1>8, <4>1 DEF Unloads
    <3> QED
      BY <3>1, <3>2
  <2>3. ASSUME NEW n \in DOMAIN states, states[n].lifecycle = "loaded"
        PROVE  n \in DOMAIN replicaIds' /\ registry'[n].id \notin shut
    <3>1. n # m /\ n \in DOMAIN replicaIds /\ registry[n].id \notin shut
            /\ n \in DOMAIN registry
      BY <1>5, <2>3 DEF Placed, TablesPlaced, ModelPlaced
    <3> QED
      BY <1>8, <3>1
  <2>4. ASSUME NEW r \in DOMAIN models' \cup DOMAIN engineOf'
        PROVE  r[1] \in DOMAIN replicaIds' /\ r \in replicaIds'[r[1]]
    <3>1. r \notin R /\ r[1] \in DOMAIN replicaIds /\ r \in replicaIds[r[1]]
      BY <1>5, <1>8, <2>4 DEF Placed, TablesPlaced
    <3>2. r[1] # m
      BY <3>1 DEF R
    <3> QED
      BY <1>8, <3>1, <3>2
  <2> QED
    BY <1>4, <1>5, <1>8, <2>1, <2>2, <2>3, <2>4 DEF Placed, TablesPlaced
<1>17. Served'
  <2>1. Admitted(m) = {}
    <3>1. states[m].inflight = 0
      BY <1>1, <1>4, <1>5 DEF MustWait, Shaped, StateShape
    <3> QED
      BY <1>5, <3>1, FS_EmptySet DEF Served
  <2>2. \A n : Admitted(n)' = Admitted(n)
    BY <1>4 DEF Admitted
  <2>3. ASSUME NEW q \in Requests, request[q] # Idle PROVE OnExecutor(request[q])'
    <3>1. OnExecutor(request[q]) /\ request[q].model # m
      BY <1>5, <2>1, <2>3 DEF Served, Admitted
    <3> QED
      BY <1>4, <1>8, <3>1 DEF OnExecutor
  <2> QED
    BY <1>4, <1>5, <2>2, <2>3 DEF Served
<1> QED
  BY <1>10, <1>11, <1>12, <1>13, <1>14, <1>15, <1>16, <1>17 DEF RouterInv

----------------------------------------------------------------------------
\* Loads and unloads: the steps that mark the state of a model

\* A step that changes no other state object leaves a call of another model its own.
LEMMA OtherOwns ==
  ASSUME RouterInv, NEW m, DOMAIN states' = DOMAIN states,
         \A n \in DOMAIN states : n # m => states'[n] = states[n],
         UNCHANGED <<configured, tuning, closing>>,
         NEW b \in Admins, admin[b] # Idle, admin[b].model # m, admin'[b] = admin[b]
  PROVE  Owns(admin[b])'
<1>1. Owns(admin[b])
  BY DEF RouterInv, Owned
<1>2. states'[admin[b].model] = states[admin[b].model]
  BY <1>1 DEF Owns
<1>3. SettingsOf(admin[b].model)' = SettingsOf(admin[b].model)
  BY DEF SettingsOf
<1> QED
  BY <1>1, <1>2, <1>3 DEF Owns, Open

\* Marking a model that has nothing in the tables, with anything but loaded, leaves
\* the tables as they should be.
LEMMA MarkKeepsTables ==
  ASSUME TablesPlaced, NEW m, m \notin DOMAIN replicaIds, DOMAIN states' = DOMAIN states,
         \A n \in DOMAIN states : n # m => states'[n] = states[n],
         states'[m].lifecycle # "loaded",
         UNCHANGED <<tableVars, execVars, alive>>
  PROVE  TablesPlaced'
<1> USE DEF tableVars, execVars
<1>1. ASSUME NEW n \in DOMAIN replicaIds PROVE ModelPlaced(n)'
  <2>1. ModelPlaced(n) /\ n # m
    BY DEF TablesPlaced
  <2> QED
    BY <2>1 DEF ModelPlaced, ReplicaPlaced
<1>2. ASSUME NEW n \in DOMAIN states, states'[n].lifecycle = "loaded"
      PROVE  n \in DOMAIN replicaIds /\ registry[n].id \notin shut
  BY <1>2 DEF TablesPlaced
<1> QED
  BY <1>1, <1>2 DEF TablesPlaced

\* Marking leaves the requests where they are, whoever marks.
LEMMA MarkKeepsRequests ==
  ASSUME Served, DOMAIN states' = DOMAIN states,
         \A n \in DOMAIN states : states'[n].inflight = states[n].inflight,
         UNCHANGED <<registry, request>>
  PROVE  Served'
<1>1. \A n : Admitted(n)' = Admitted(n)
  BY DEF Admitted
<1> QED
  BY <1>1 DEF Served, OnExecutor

\* load_model marks the model and numbers the load.
LEMMA BeginLoadKeeps ==
  ASSUME RouterInv, NEW a \in Admins, NEW m \in DOMAIN configured, NEW n \in Replicas,
         BeginLoad(a, m, n)
  PROVE  RouterInv'
<1> DEFINE s == [states[m] EXCEPT !.lifecycle = "loading"]
           d == [pc |-> "build", model |-> m, born |-> states[m].born, id |-> builds + 1,
                 replicas |-> ReplicaIds(m, n), held |-> {},
                 backend |-> configured[m].backend, effective |-> SettingsOf(m)]
<1>1. Shaped /\ Owned /\ Named /\ InHand /\ NoRuntimeLeaks /\ OneEnginePerBackend
        /\ RuntimeMatchesSettings /\ (Open => Placed) /\ (Open => Served)
  BY DEF RouterInv
<1>2. /\ Open /\ admin[a] = Idle /\ builds < MaxBuilds /\ Loadable(m)
      /\ states' = [states EXCEPT ![m] = s]
      /\ builds' = builds + 1
      /\ admin' = [admin EXCEPT ![a] = d]
      /\ UNCHANGED <<catalogVars, tableVars, execVars, alive, request, closing>>
  BY DEF BeginLoad, SetState, SettingsOf
<1> USE DEF catalogVars, tableVars, execVars
<1>3. m \in DOMAIN states /\ m \in Models /\ StateShape(states[m])
  BY <1>1 DEF Shaped
<1>4. /\ StateShape(s) /\ s.lifecycle = "loading" /\ s.born = states[m].born
      /\ s.inflight = states[m].inflight
  BY <1>3 DEF StateShape, StateFields, Lifecycles
<1>5. /\ DOMAIN d = LoadCall /\ d.pc = "build" /\ d.model = m /\ d.born = states[m].born
      /\ d.id = builds + 1 /\ d.replicas = ReplicaIds(m, n) /\ d.held = {}
      /\ d.backend = configured[m].backend /\ d.effective = SettingsOf(m)
      /\ d # Idle
  BY DEF LoadCall, Idle
<1> HIDE DEF s, d
<1>6. /\ \A b \in Admins : admin'[b] = IF b = a THEN d ELSE admin[b]
      /\ \A k \in DOMAIN states : states'[k] = IF k = m THEN s ELSE states[k]
      /\ DOMAIN states' = DOMAIN states
  BY <1>1, <1>2, <1>3 DEF Shaped
<1>7. Shaped'
  <2>1. builds' \in 0..MaxBuilds
    BY <1>1, <1>2, RouterAssumption DEF Shaped
  <2> QED
    BY <1>1, <1>2, <1>4, <1>5, <1>6, <2>1 DEF Shaped, CallShape, LoadSteps
<1>8. ASSUME NEW b \in Admins, b # a, admin[b] # Idle PROVE admin[b].model # m
  BY <1>1, <1>2, <1>8, BusyCalls DEF Owned, Owns, Loadable
<1>9. Owned'
  <2>1. ASSUME NEW b \in Admins, b # a, admin[b] # Idle PROVE Owns(admin[b])'
    BY <1>2, <1>6, <1>8, <2>1, OtherOwns
  <2>2. SettingsOf(m)' = SettingsOf(m)
    BY <1>2 DEF SettingsOf
  <2>3. Owns(admin[a])'
    BY <1>2, <1>3, <1>4, <1>5, <1>6, <2>2 DEF Owns, Open, LoadSteps, UnloadSteps
  <2> QED
    BY <1>1, <1>5, <1>6, <1>8, <2>1, <2>3 DEF Owned
<1>10. RuntimeMatchesSettings'
  BY <1>1, <1>2, <1>4, <1>6 DEF RuntimeMatchesSettings
<1>11. Named'
  <2>1. builds \in Nat
    BY <1>1 DEF Shaped
  <2>2. \A i \in 1..builds : i \in 1..(builds + 1) /\ i # builds + 1
    BY <2>1
  <2>3. builds + 1 \in 1..(builds + 1)
    BY <2>1
  <2>4. Fresh(admin[a].id)'
    BY <1>1, <1>2, <1>5, <1>6, <2>2, <2>3 DEF Named, Fresh
  <2>5. ASSUME NEW b \in Admins, b # a, admin[b].pc \in LoadSteps
        PROVE  Fresh(admin[b].id)' /\ admin[b].id # builds + 1
    BY <1>1, <1>2, <1>6, <2>2, <2>5 DEF Named, Fresh
  <2>6. ASSUME NEW b \in Admins, NEW c \in Admins, admin'[b].pc \in LoadSteps,
               admin'[c].pc \in LoadSteps, admin'[b].id = admin'[c].id
        PROVE  b = c
    BY <1>1, <1>5, <1>6, <2>5, <2>6 DEF Named
  <2> QED
    BY <1>1, <1>2, <1>6, <2>2, <2>4, <2>5, <2>6 DEF Named
<1>12. InHand'
  <2>1. n \in Nat \ {0}
    BY RouterAssumption
  <2>2. ReplicaIds(m, n) # {} /\ \A r \in ReplicaIds(m, n) : r \in ReplicaSet /\ r[1] = m
    <3>1. <<m, 1>> \in ReplicaIds(m, n)
      BY <2>1 DEF ReplicaIds
    <3>2. \A r \in ReplicaIds(m, n) : r[1] = m
      BY DEF ReplicaIds
    <3>3. ReplicaIds(m, n) \in {ReplicaIds(k, i) : k \in Models, i \in Replicas}
      BY <1>3
    <3> QED
      BY <3>1, <3>2, <3>3 DEF ReplicaSet
  <2>3. Holds(admin[a])'
    BY <1>5, <1>6, <2>2 DEF Holds
  <2> QED
    BY <1>1, <1>2, <1>6, <2>3 DEF InHand, Holds
<1>13. NoRuntimeLeaks' /\ OneEnginePerBackend'
  <2>1. \A x \in Held : x \in Held'
    BY <1>2, <1>6 DEF Held
  <2> QED
    BY <1>1, <1>2, <2>1 DEF NoRuntimeLeaks, OneEnginePerBackend
<1>14. Placed'
  <2>1. Placed /\ m \notin DOMAIN replicaIds
    BY <1>1, <1>2 DEF Placed, TablesPlaced, ModelPlaced, Loadable
  <2>2. TablesPlaced'
    BY <1>2, <1>3, <1>4, <1>6, <2>1, MarkKeepsTables DEF Placed
  <2>3. ASSUME NEW b \in Admins, admin'[b] # Idle PROVE Unloads(admin[b])'
    BY <1>2, <1>5, <1>6, <2>1, <2>3 DEF Placed, Unloads
  <2> QED
    BY <2>2, <2>3 DEF Placed
<1>15. Served'
  BY <1>1, <1>2, <1>4, <1>6, MarkKeepsRequests
<1> QED
  BY <1>7, <1>9, <1>10, <1>11, <1>12, <1>13, <1>14, <1>15 DEF RouterInv

\* A rejected override leaves a model marked with no call that owns it.
LEMMA BeginLoadBadOverrideKeeps ==
  ASSUME RouterInv, NEW a \in Admins, NEW m \in DOMAIN configured,
         BeginLoadBadOverride(a, m)
  PROVE  RouterInv'
<1> DEFINE s == [states[m] EXCEPT !.lifecycle = "loading"]
<1>1. Shaped /\ Owned /\ Named /\ InHand /\ NoRuntimeLeaks /\ OneEnginePerBackend
        /\ RuntimeMatchesSettings /\ (Open => Placed) /\ (Open => Served)
  BY DEF RouterInv
<1>2. /\ Open /\ Loadable(m)
      /\ states' = [states EXCEPT ![m] = s]
      /\ UNCHANGED <<catalogVars, tableVars, execVars, alive, builds, admin, request, closing>>
  BY DEF BeginLoadBadOverride, SetState
<1> USE DEF catalogVars, tableVars, execVars
<1>3. m \in DOMAIN states /\ StateShape(states[m])
  BY <1>1 DEF Shaped
<1>4. StateShape(s) /\ s.lifecycle = "loading" /\ s.inflight = states[m].inflight
  BY <1>3 DEF StateShape, StateFields, Lifecycles
<1> HIDE DEF s
<1>5. /\ \A k \in DOMAIN states : states'[k] = IF k = m THEN s ELSE states[k]
      /\ DOMAIN states' = DOMAIN states
  BY <1>2, <1>3
<1>6. Shaped'
  BY <1>1, <1>2, <1>4, <1>5 DEF Shaped
<1>7. Owned'
  <2>1. ASSUME NEW b \in Admins, admin[b] # Idle PROVE Owns(admin[b])'
    <3>1. admin[b].model # m
      BY <1>1, <1>2, <2>1, BusyCalls DEF Owned, Owns, Loadable
    <3> QED
      BY <1>2, <1>5, <2>1, <3>1, OtherOwns
  <2> QED
    BY <1>1, <1>2, <2>1 DEF Owned
<1>8. RuntimeMatchesSettings'
  BY <1>1, <1>2, <1>4, <1>5 DEF RuntimeMatchesSettings
<1>9. Named' /\ InHand' /\ NoRuntimeLeaks' /\ OneEnginePerBackend'
  BY <1>1, <1>2 DEF Named, Fresh, InHand, Holds, NoRuntimeLeaks, Held, OneEnginePerBackend
<1>10. Placed'
  <2>1. Placed /\ m \notin DOMAIN replicaIds
    BY <1>1, <1>2 DEF Placed, TablesPlaced, ModelPlaced, Loadable
  <2>2. TablesPlaced'
    BY <1>2, <1>3, <1>4, <1>5, <2>1, MarkKeepsTables DEF Placed
  <2> QED
    BY <1>2, <2>1, <2>2 DEF Placed, Unloads
<1>11. Served'
  BY <1>1, <1>2, <1>4, <1>5, MarkKeepsRequests
<1> QED
  BY <1>6, <1>7, <1>8, <1>9, <1>10, <1>11 DEF RouterInv

\* A load that failed marks the model failed when it holds nothing any more.
LEMMA LoadFailsKeeps ==
  ASSUME RouterInv, NEW a \in Admins, LoadFails(a)
  PROVE  RouterInv'
<1> DEFINE m == admin[a].model
           s == [states[m] EXCEPT !.lifecycle = "failed"]
<1>1. Shaped /\ Owned /\ Named /\ InHand /\ NoRuntimeLeaks /\ OneEnginePerBackend
        /\ RuntimeMatchesSettings /\ (Open => Placed) /\ (Open => Served)
  BY DEF RouterInv
<1>2. /\ admin[a].pc = "fail"
      /\ states' = [states EXCEPT ![m] = s]
      /\ admin' = [admin EXCEPT ![a] = Idle]
      /\ UNCHANGED <<catalogVars, tableVars, execVars, alive, builds, request, closing>>
  BY DEF LoadFails, SetState, Done
<1> USE DEF catalogVars, tableVars, execVars
<1>3. admin[a] # Idle /\ Owns(admin[a]) /\ Holds(admin[a])
  BY <1>1, <1>2 DEF Idle, Owned, InHand
<1>4. Open /\ m \in DOMAIN states /\ StateShape(states[m]) /\ states[m].lifecycle = "loading"
        /\ admin[a].held = {}
  BY <1>1, <1>2, <1>3 DEF Owns, Shaped, Holds, LoadSteps
<1>5. StateShape(s) /\ s.lifecycle = "failed" /\ s.inflight = states[m].inflight
  BY <1>4 DEF StateShape, StateFields, Lifecycles
<1> HIDE DEF s
<1>6. /\ \A b \in Admins : admin'[b] = IF b = a THEN Idle ELSE admin[b]
      /\ \A k \in DOMAIN states : states'[k] = IF k = m THEN s ELSE states[k]
      /\ DOMAIN states' = DOMAIN states
  BY <1>1, <1>2, <1>4 DEF Shaped
<1>7. Shaped'
  BY <1>1, <1>2, <1>5, <1>6 DEF Shaped, CallShape
<1>8. Owned'
  <2>1. ASSUME NEW b \in Admins, admin'[b] # Idle PROVE Owns(admin[b])'
    <3>1. admin'[b] = admin[b] /\ admin[b].model # m
      BY <1>1, <1>3, <1>6, <2>1 DEF Owned
    <3> QED
      BY <1>2, <1>6, <2>1, <3>1, OtherOwns
  <2> QED
    BY <1>1, <1>6, <2>1 DEF Owned
<1>9. RuntimeMatchesSettings'
  BY <1>1, <1>2, <1>5, <1>6 DEF RuntimeMatchesSettings
<1>10. Named'
  <2>1. \A b \in Admins : admin'[b].pc \in LoadSteps => admin'[b] = admin[b]
    BY <1>6 DEF Idle, LoadSteps
  <2> QED
    BY <1>1, <1>2, <2>1 DEF Named, Fresh
<1>11. InHand' /\ OneEnginePerBackend'
  BY <1>1, <1>2, <1>6 DEF InHand, Holds, OneEnginePerBackend
<1>12. NoRuntimeLeaks'
  <2>1. \A x \in Held : x \in Held'
    BY <1>4, <1>6 DEF Held
  <2> QED
    BY <1>1, <1>2, <2>1 DEF NoRuntimeLeaks
<1>13. Placed'
  <2>1. Placed /\ m \notin DOMAIN replicaIds
    BY <1>1, <1>4 DEF Placed, TablesPlaced, ModelPlaced
  <2> HIDE DEF m
  <2>2. TablesPlaced'
    BY <1>2, <1>4, <1>5, <1>6, <2>1, MarkKeepsTables DEF Placed
  <2> QED
    BY <1>2, <1>6, <2>1, <2>2 DEF Placed, Unloads
<1>14. Served'
  BY <1>1, <1>2, <1>4, <1>5, <1>6, MarkKeepsRequests
<1> QED
  BY <1>7, <1>8, <1>9, <1>10, <1>11, <1>12, <1>13, <1>14 DEF RouterInv

\* unload_model marks the model; from here on its executor is this call's to shut.
LEMMA BeginUnloadKeeps ==
  ASSUME RouterInv, NEW a \in Admins, NEW m \in DOMAIN configured, BeginUnload(a, m)
  PROVE  RouterInv'
<1> DEFINE s == [states[m] EXCEPT !.lifecycle = "unloading"]
           d == [pc |-> "shut", model |-> m, born |-> states[m].born,
                 executor |-> IF m \in DOMAIN registry THEN {registry[m].id} ELSE {},
                 held |-> {}]
<1>1. Shaped /\ Owned /\ Named /\ InHand /\ NoRuntimeLeaks /\ OneEnginePerBackend
        /\ RuntimeMatchesSettings /\ (Open => Placed) /\ (Open => Served)
  BY DEF RouterInv
<1>2. /\ Open /\ admin[a] = Idle /\ states[m].lifecycle = "loaded"
      /\ states' = [states EXCEPT ![m] = s]
      /\ admin' = [admin EXCEPT ![a] = d]
      /\ UNCHANGED <<catalogVars, tableVars, execVars, alive, builds, request, closing>>
  BY DEF BeginUnload, SetState
<1> USE DEF catalogVars, tableVars, execVars
<1>3. m \in DOMAIN states /\ StateShape(states[m])
  BY <1>1 DEF Shaped
<1>4. /\ StateShape(s) /\ s.lifecycle = "unloading" /\ s.born = states[m].born
      /\ s.inflight = states[m].inflight /\ s.effective = states[m].effective
  BY <1>3 DEF StateShape, StateFields, Lifecycles
<1>5. m \in DOMAIN registry
  BY <1>1, <1>2, <1>3 DEF Placed, TablesPlaced, ModelPlaced
<1>6. /\ DOMAIN d = UnloadCall /\ d.pc = "shut" /\ d.model = m /\ d.born = states[m].born
      /\ d.executor = {registry[m].id} /\ d.held = {} /\ d # Idle
  BY <1>5 DEF UnloadCall, Idle
<1> HIDE DEF s, d
<1>7. /\ \A b \in Admins : admin'[b] = IF b = a THEN d ELSE admin[b]
      /\ \A k \in DOMAIN states : states'[k] = IF k = m THEN s ELSE states[k]
      /\ DOMAIN states' = DOMAIN states
  BY <1>1, <1>2, <1>3 DEF Shaped
<1>8. Shaped'
  BY <1>1, <1>2, <1>4, <1>6, <1>7 DEF Shaped, CallShape, UnloadSteps
<1>9. ASSUME NEW b \in Admins, admin[b] # Idle PROVE b # a /\ admin[b].model # m
  BY <1>1, <1>2, <1>9, BusyCalls DEF Owned, Owns
<1>10. Owned'
  <2>1. ASSUME NEW b \in Admins, admin[b] # Idle PROVE Owns(admin[b])'
    BY <1>2, <1>7, <1>9, <2>1, OtherOwns
  <2>2. Owns(admin[a])'
    BY <1>2, <1>3, <1>4, <1>6, <1>7 DEF Owns, Open, LoadSteps
  <2> QED
    BY <1>1, <1>6, <1>7, <1>9, <2>1, <2>2 DEF Owned
<1>11. RuntimeMatchesSettings'
  BY <1>1, <1>2, <1>4, <1>7 DEF RuntimeMatchesSettings
<1>12. Named'
  <2>1. \A b \in Admins : admin'[b].pc \in LoadSteps => admin'[b] = admin[b]
    BY <1>6, <1>7 DEF LoadSteps
  <2> QED
    BY <1>1, <1>2, <2>1 DEF Named, Fresh
<1>13. InHand' /\ OneEnginePerBackend'
  <2>1. Holds(admin[a])'
    BY <1>6, <1>7 DEF Holds, LoadSteps
  <2> QED
    BY <1>1, <1>2, <1>7, <2>1 DEF InHand, Holds, OneEnginePerBackend
<1>14. NoRuntimeLeaks'
  <2>1. \A x \in Held : x \in Held'
    BY <1>7, <1>9 DEF Held
  <2> QED
    BY <1>1, <1>2, <2>1 DEF NoRuntimeLeaks
<1>15. Placed'
  <2>1. Placed
    BY <1>1, <1>2
  <2>2. ASSUME NEW n \in DOMAIN replicaIds PROVE ModelPlaced(n)'
    BY <1>2, <1>4, <1>7, <2>1 DEF Placed, TablesPlaced, ModelPlaced, ReplicaPlaced
  <2>3. ASSUME NEW n \in DOMAIN states, states'[n].lifecycle = "loaded"
        PROVE  n \in DOMAIN replicaIds /\ registry[n].id \notin shut
    BY <1>2, <1>4, <1>7, <2>1, <2>3 DEF Placed, TablesPlaced
  <2>4. TablesPlaced'
    BY <1>2, <1>7, <2>1, <2>2, <2>3 DEF Placed, TablesPlaced
  <2>5. Unloads(admin[a])'
    BY <1>2, <1>5, <1>6, <1>7 DEF Unloads
  <2> QED
    BY <1>2, <1>7, <2>1, <2>4, <2>5 DEF Placed, Unloads
<1>16. Served'
  BY <1>1, <1>2, <1>4, <1>7, MarkKeepsRequests
<1> QED
  BY <1>8, <1>10, <1>11, <1>12, <1>13, <1>14, <1>15, <1>16 DEF RouterInv

\* load_model enters runtimes, engine and executor in the tables in one lock section.
LEMMA InstallKeeps ==
  ASSUME RouterInv, NEW a \in Admins, Install(a)
  PROVE  RouterInv'
<1>0. PICK m : m = admin[a].model
  OBVIOUS
<1> USE <1>0
<1> DEFINE R == admin[a].replicas
           i == admin[a].id
           found == EnginesOf(admin[a].backend)
           s == [states[m] EXCEPT !.lifecycle = "loaded", !.effective = admin[a].effective]
<1>1. Shaped /\ Owned /\ Named /\ InHand /\ NoRuntimeLeaks /\ OneEnginePerBackend
        /\ RuntimeMatchesSettings /\ (Open => Placed) /\ (Open => Served)
  BY DEF RouterInv
<1>2. admin[a].pc = "install" /\ admin[a] # Idle /\ admin[a].pc \in LoadSteps
  BY DEF Install, Idle, LoadSteps
<1>3. Owns(admin[a]) /\ Holds(admin[a])
  BY <1>1, <1>2 DEF Owned, InHand
<1>4. /\ Open /\ m \in DOMAIN states /\ StateShape(states[m])
      /\ states[m].lifecycle = "loading" /\ admin[a].effective = SettingsOf(m)
      /\ admin[a].backend = configured[m].backend
  BY <1>1, <1>2, <1>3 DEF Owns, Shaped
<1>5. Placed /\ Served /\ m \notin DOMAIN replicaIds /\ m \notin DOMAIN registry
  BY <1>1, <1>4 DEF Placed, TablesPlaced, ModelPlaced
<1>6. PICK e \in IF found = {} THEN {i} ELSE found :
        /\ models' = Put(models, R, i)
        /\ engineOf' = Put(engineOf, R, e)
        /\ replicaIds' = Put(replicaIds, {m}, R)
        /\ engines' = [engines EXCEPT ![e] = Put(@, R, i)]
        /\ registry' = Put(registry, {m}, [id |-> i, engine |-> e, replicas |-> R])
        /\ states' = [states EXCEPT ![m] = s]
  BY <1>5 DEF Install, SetState
<1>7. /\ admin' = [admin EXCEPT ![a] = Idle]
      /\ UNCHANGED <<catalogVars, shut, alive, builds, request, closing>>
  BY DEF Install, Done
<1> USE DEF catalogVars
<1>8. /\ StateShape(s) /\ s.lifecycle = "loaded" /\ s.inflight = states[m].inflight
      /\ s.effective = SettingsOf(m)
  BY <1>4 DEF StateShape, StateFields, Lifecycles
<1>9. \A x \in found : \E r \in DOMAIN engineOf :
        /\ r[1] \in DOMAIN configured /\ configured[r[1]].backend = configured[m].backend
        /\ engineOf[r] = x
  BY <1>4 DEF EnginesOf
<1>10. \A r \in DOMAIN engineOf :
         r[1] \in DOMAIN configured /\ configured[r[1]].backend = configured[m].backend
         => engineOf[r] \in found
  BY <1>4 DEF EnginesOf
<1> HIDE DEF found, s, R, i
<1>11. /\ R # {} /\ \A r \in R : r \in ReplicaSet /\ r[1] = m
       /\ admin[a].held = {<<i, r>> : r \in R} /\ admin[a].held \subseteq alive
  BY <1>2, <1>3 DEF Holds, R, i
<1>12. Fresh(i)
  BY <1>1, <1>2 DEF Named, i
<1>13. ASSUME NEW r \in DOMAIN models \cup DOMAIN engineOf PROVE r \notin R /\ r[1] # m
  BY <1>5, <1>11, <1>13 DEF Placed, TablesPlaced
<1>14. \A b \in Admins : b # a /\ admin[b].pc \in LoadSteps => admin[b].id # i /\ admin[b].id # e
  <2>1. \A b \in Admins : b # a /\ admin[b].pc \in LoadSteps => admin[b].id # i
    BY <1>1, <1>2 DEF Named, i
  <2>2. CASE found = {}
    BY <1>6, <2>1, <2>2
  <2>3. CASE found # {}
    BY <1>1, <1>6, <1>9, <2>1, <2>3 DEF Named, Fresh
  <2> QED
    BY <2>2, <2>3
<1>15. e \in 1..builds
  <2>1. CASE found = {}
    BY <1>6, <1>12, <2>1 DEF Fresh
  <2>2. CASE found # {}
    BY <1>1, <1>6, <1>9, <2>2 DEF Named
  <2> QED
    BY <2>1, <2>2
<1>16. e \in DOMAIN engines
  BY <1>1, <1>15, RouterAssumption DEF Shaped
<1>17. /\ DOMAIN models' = DOMAIN models \cup R /\ DOMAIN engineOf' = DOMAIN engineOf \cup R
       /\ \A r \in DOMAIN models : models'[r] = models[r]
       /\ \A r \in DOMAIN engineOf : engineOf'[r] = engineOf[r]
       /\ \A r \in R : models'[r] = i /\ engineOf'[r] = e
  BY <1>6, <1>13 DEF Put
<1>18. /\ DOMAIN replicaIds' = DOMAIN replicaIds \cup {m} /\ replicaIds'[m] = R
       /\ \A n \in DOMAIN replicaIds : replicaIds'[n] = replicaIds[n]
  BY <1>5, <1>6 DEF Put
<1>19. /\ DOMAIN registry' = DOMAIN registry \cup {m}
       /\ registry'[m].id = i /\ registry'[m].engine = e /\ registry'[m].replicas = R
       /\ \A n \in DOMAIN registry : registry'[n] = registry[n]
  BY <1>5, <1>6 DEF Put
<1>20. /\ DOMAIN engines' = DOMAIN engines
       /\ \A x \in DOMAIN engines : \A r \in DOMAIN engines[x] :
            r \notin R => r \in DOMAIN engines'[x] /\ engines'[x][r] = engines[x][r]
       /\ \A r \in R : r \in DOMAIN engines'[e] /\ engines'[e][r] = i
  BY <1>6, <1>16 DEF Put
<1>21. /\ \A b \in Admins : admin'[b] = IF b = a THEN Idle ELSE admin[b]
       /\ \A k \in DOMAIN states : states'[k] = IF k = m THEN s ELSE states[k]
       /\ DOMAIN states' = DOMAIN states
  BY <1>1, <1>4, <1>6, <1>7 DEF Shaped
<1>22. Shaped'
  BY <1>1, <1>7, <1>8, <1>20, <1>21 DEF Shaped, CallShape
<1>23. Owned'
  <2>1. ASSUME NEW b \in Admins, admin'[b] # Idle PROVE Owns(admin[b])'
    <3>1. admin'[b] = admin[b] /\ admin[b].model # m
      BY <1>1, <1>2, <1>21, <2>1 DEF Owned
    <3> QED
      BY <1>7, <1>21, <2>1, <3>1, OtherOwns
  <2> QED
    BY <1>1, <1>21, <2>1 DEF Owned
<1>24. RuntimeMatchesSettings'
  BY <1>1, <1>7, <1>8, <1>21 DEF RuntimeMatchesSettings, SettingsOf
<1>25. Named'
  <2>1. \A b \in Admins : admin'[b].pc \in LoadSteps => b # a /\ admin'[b] = admin[b]
    BY <1>21 DEF Idle, LoadSteps
  <2>2. ASSUME NEW b \in Admins, admin'[b].pc \in LoadSteps PROVE Fresh(admin[b].id)'
    <3>1. Fresh(admin[b].id) /\ admin'[b].id = admin[b].id /\ admin[b].id # i /\ admin[b].id # e
      BY <1>1, <1>14, <2>1, <2>2 DEF Named
    <3> QED
      BY <1>7, <1>17, <1>19, <3>1 DEF Fresh
  <2>3. \A r \in DOMAIN engineOf' : engineOf'[r] \in 1..builds
    BY <1>1, <1>15, <1>17 DEF Named
  <2>4. \A k \in DOMAIN registry' : registry'[k].id \in 1..builds
    BY <1>1, <1>12, <1>19 DEF Named, Fresh
  <2>5. \A k, n \in DOMAIN registry' : registry'[k].id = registry'[n].id => k = n
    BY <1>1, <1>12, <1>19 DEF Named, Fresh
  <2> QED
    BY <1>1, <1>7, <2>1, <2>2, <2>3, <2>4, <2>5 DEF Named
<1>26. InHand'
  BY <1>1, <1>7, <1>21 DEF InHand, Holds
<1>27. NoRuntimeLeaks'
  <2>1. \A x \in Held : x \in Held' \/ x \in admin[a].held
    BY <1>21 DEF Held
  <2>2. \A x \in admin[a].held : \E r \in DOMAIN models' : x = <<models'[r], r>>
    BY <1>11, <1>17
  <2>3. \A r \in DOMAIN models : r \in DOMAIN models' /\ models'[r] = models[r]
    BY <1>17
  <2> QED
    BY <1>1, <1>7, <2>1, <2>2, <2>3 DEF NoRuntimeLeaks
<1>28. OneEnginePerBackend'
  <2> DEFINE Same(r, k) == /\ r[1] \in DOMAIN configured /\ k[1] \in DOMAIN configured
                          /\ configured[r[1]].backend = configured[k[1]].backend
  <2>1. ASSUME NEW r \in DOMAIN engineOf, NEW k \in R, Same(r, k) PROVE engineOf[r] = e
    <3>1. engineOf[r] \in found
      BY <1>10, <1>11, <2>1
    <3>2. e \in found
      BY <1>6, <3>1
    <3>3. PICK x \in DOMAIN engineOf :
            /\ x[1] \in DOMAIN configured /\ configured[x[1]].backend = configured[m].backend
            /\ engineOf[x] = e
      BY <1>9, <3>2
    <3> QED
      BY <1>1, <1>11, <2>1, <3>3 DEF OneEnginePerBackend
  <2>2. ASSUME NEW r \in DOMAIN engineOf', NEW k \in DOMAIN engineOf', Same(r, k)
        PROVE  engineOf'[r] = engineOf'[k]
    <3> HIDE DEF Same
    <3>1. Same(k, r)
      BY <2>2 DEF Same
    <3>2. CASE r \in DOMAIN engineOf /\ k \in DOMAIN engineOf
      BY <1>1, <1>17, <2>2, <3>2 DEF OneEnginePerBackend, Same
    <3>3. CASE r \in DOMAIN engineOf /\ k \in R
      BY <1>17, <2>1, <2>2, <3>3
    <3>4. CASE r \in R /\ k \in DOMAIN engineOf
      BY <1>17, <2>1, <3>1, <3>4
    <3>5. CASE r \in R /\ k \in R
      BY <1>17, <3>5
    <3> QED
      BY <1>17, <2>2, <3>2, <3>3, <3>4, <3>5
  <2> QED
    BY <1>7, <2>2 DEF OneEnginePerBackend
<1>29. Placed'
  <2>1. ModelPlaced(m)'
    <3>1. ASSUME NEW r \in R PROVE ReplicaPlaced(m, r)'
      <4>1. <<i, r>> \in alive' /\ r \in ReplicaSet /\ r[1] = m
        BY <1>7, <1>11
      <4>2. models'[r] = i /\ engineOf'[r] = e /\ r \in DOMAIN models' /\ r \in DOMAIN engineOf'
        BY <1>17
      <4>3. r \in DOMAIN engines'[e] /\ engines'[e][r] = i
        BY <1>20
      <4>4. registry'[m].id = i /\ registry'[m].engine = e
        BY <1>19
      <4> QED
        BY <4>1, <4>2, <4>3, <4>4 DEF ReplicaPlaced
    <3>2. m \in DOMAIN states' /\ states'[m].lifecycle = "loaded"
      BY <1>4, <1>8, <1>21
    <3>3. m \in DOMAIN registry' /\ registry'[m].replicas = R /\ replicaIds'[m] = R
      BY <1>18, <1>19
    <3> QED
      BY <1>11, <3>1, <3>2, <3>3 DEF ModelPlaced
  <2>2. ASSUME NEW n \in DOMAIN replicaIds PROVE ModelPlaced(n)'
    <3>1. n # m /\ ModelPlaced(n)
      BY <1>5 DEF Placed, TablesPlaced
    <3>2. ASSUME NEW r \in replicaIds[n] PROVE ReplicaPlaced(n, r)'
      <4>1. ReplicaPlaced(n, r) /\ n \in DOMAIN registry
        BY <3>1 DEF ModelPlaced
      <4>2. r \notin R /\ engineOf[r] \in DOMAIN engines
        BY <1>1, <1>13, <4>1, RouterAssumption DEF ReplicaPlaced, Named, Shaped
      <4>3. r \in DOMAIN engines'[engineOf[r]]
              /\ engines'[engineOf[r]][r] = engines[engineOf[r]][r]
        BY <1>20, <4>1, <4>2 DEF ReplicaPlaced
      <4> QED
        BY <1>7, <1>17, <1>19, <4>1, <4>3 DEF ReplicaPlaced
    <3> QED
      BY <1>18, <1>19, <1>21, <3>1, <3>2 DEF ModelPlaced
  <2>3. ASSUME NEW n \in DOMAIN states, states'[n].lifecycle = "loaded"
        PROVE  n \in DOMAIN replicaIds' /\ registry'[n].id \notin shut
    <3>1. CASE n = m
      BY <1>12, <1>18, <1>19, <3>1 DEF Fresh
    <3>2. CASE n # m
      BY <1>5, <1>18, <1>19, <1>21, <2>3, <3>2 DEF Placed, TablesPlaced, ModelPlaced
    <3> QED
      BY <3>1, <3>2
  <2>4. ASSUME NEW r \in DOMAIN models' \cup DOMAIN engineOf'
        PROVE  r[1] \in DOMAIN replicaIds' /\ r \in replicaIds'[r[1]]
    <3>1. CASE r \in R
      BY <1>11, <1>18, <3>1
    <3>2. CASE r \notin R
      <4>1. r[1] \in DOMAIN replicaIds /\ r \in replicaIds[r[1]]
        BY <1>5, <1>17, <2>4, <3>2 DEF Placed, TablesPlaced
      <4> QED
        BY <1>18, <4>1
    <3> QED
      BY <3>1, <3>2
  <2>5. TablesPlaced'
    <3>1. DOMAIN registry' \subseteq DOMAIN replicaIds'
      BY <1>5, <1>18, <1>19 DEF Placed, TablesPlaced
    <3>2. \A n \in DOMAIN replicaIds' : ModelPlaced(n)'
      BY <1>18, <2>1, <2>2
    <3>3. \A n \in DOMAIN states' :
            states'[n].lifecycle = "loaded" =>
              n \in DOMAIN replicaIds' /\ registry'[n].id \notin shut'
      BY <1>7, <1>21, <2>3
    <3> QED
      BY <2>4, <3>1, <3>2, <3>3 DEF TablesPlaced
  <2>6. ASSUME NEW b \in Admins, admin'[b] # Idle PROVE Unloads(admin[b])'
    <3>1. admin'[b] = admin[b] /\ admin[b].model # m /\ Unloads(admin[b])
      BY <1>1, <1>2, <1>5, <1>21, <2>6 DEF Owned, Placed
    <3> QED
      BY <1>18, <1>19, <3>1 DEF Unloads
  <2> QED
    BY <2>5, <2>6 DEF Placed
<1>30. Served'
  <2>1. \A n : Admitted(n)' = Admitted(n)
    BY <1>7 DEF Admitted
  <2>2. \A n \in DOMAIN states : states'[n].inflight = states[n].inflight
    BY <1>8, <1>21
  <2>3. ASSUME NEW q \in Requests, request[q] # Idle PROVE OnExecutor(request[q])'
    BY <1>5, <1>7, <1>19, <2>3 DEF Served, OnExecutor
  <2> QED
    BY <1>5, <1>7, <1>21, <2>1, <2>2, <2>3 DEF Served
<1> QED
  BY <1>22, <1>23, <1>24, <1>25, <1>26, <1>27, <1>28, <1>29, <1>30 DEF RouterInv

----------------------------------------------------------------------------
\* What notify_all does to the calls: an unload that sleeps goes on

Woken(c, d) ==
  \/ d = c
  \/ c.pc = "asleep" /\ d.pc = "drain" /\ d.held = c.held /\ Continues(c, d)

\* notify_all changes nothing of a call but that it runs again.
LEMMA NotifiedAreWoken ==
  ASSUME NEW calls, \A b \in Admins : CallShape(calls[b])
  PROVE  /\ DOMAIN Notified(calls) = Admins
         /\ \A b \in Admins : /\ Woken(calls[b], Notified(calls)[b])
                              /\ CallShape(Notified(calls)[b])
<1>1. ASSUME NEW b \in Admins, calls[b].pc = "asleep"
      PROVE  LET d == [calls[b] EXCEPT !.pc = "drain"] IN Woken(calls[b], d) /\ CallShape(d)
  <2> DEFINE d == [calls[b] EXCEPT !.pc = "drain"]
  <2>1. Continues(calls[b], d) /\ d.pc = "drain" /\ d.held = calls[b].held
    BY <1>1, MoveContinues DEF UnloadSteps
  <2> HIDE DEF d
  <2>2. Woken(calls[b], d) /\ CallShape(d)
    BY <1>1, <2>1 DEF Woken, Continues
  <2> QED
    BY <2>2 DEF d
<1> QED
  BY <1>1 DEF Notified, Woken

\* Waking a call that is in progress changes nothing that the invariant says of it.
LEMMA WokenCalls ==
  ASSUME NEW c, NEW d, Woken(c, d), CallShape(c), CallShape(d)
  PROVE  /\ d # Idle <=> c # Idle
         /\ d.pc \in LoadSteps <=> c.pc \in LoadSteps
         /\ c # Idle => /\ d.model = c.model /\ d.born = c.born /\ d.held = c.held
                        /\ d.pc \in UnloadSteps <=> c.pc \in UnloadSteps
                        /\ d.pc \in {"shut", "reclaim", "unloaded"} => d = c
                        /\ d.pc \in LoadSteps => d = c
<1>1. CASE d = c
  BY <1>1
<1>2. CASE c.pc = "asleep" /\ d.pc = "drain" /\ d.held = c.held /\ Continues(c, d)
  BY <1>2 DEF Continues, LoadSteps, UnloadSteps, Idle
<1> QED
  BY <1>1, <1>2 DEF Woken

\* unload_model marks the model unloaded when it holds nothing any more.
LEMMA FinishUnloadKeeps ==
  ASSUME RouterInv, NEW a \in Admins, FinishUnload(a)
  PROVE  RouterInv'
<1> DEFINE m == admin[a].model
           s == [states[m] EXCEPT !.lifecycle = "unloaded", !.effective = NoSettings]
           calls == [admin EXCEPT ![a] = Idle]
<1>1. Shaped /\ Owned /\ Named /\ InHand /\ NoRuntimeLeaks /\ OneEnginePerBackend
        /\ RuntimeMatchesSettings /\ (Open => Placed) /\ (Open => Served)
  BY DEF RouterInv
<1>2. /\ admin[a].pc = "unloaded"
      /\ states' = [states EXCEPT ![m] = s]
      /\ admin' = Notified(calls)
      /\ UNCHANGED <<catalogVars, tableVars, execVars, alive, builds, request, closing>>
  BY DEF FinishUnload, SetState
<1> USE DEF catalogVars, tableVars, execVars
<1>3. admin[a] # Idle /\ Owns(admin[a]) /\ Holds(admin[a])
  BY <1>1, <1>2 DEF Idle, Owned, InHand
<1>4. Open /\ m \in DOMAIN states /\ StateShape(states[m]) /\ states[m].lifecycle = "unloading"
        /\ admin[a].held = {}
  BY <1>1, <1>2, <1>3 DEF Owns, Shaped, Holds, UnloadSteps
<1>5. StateShape(s) /\ s.lifecycle = "unloaded" /\ s.inflight = states[m].inflight
  BY <1>4 DEF StateShape, StateFields, Lifecycles
<1> HIDE DEF s
<1>6. /\ \A k \in DOMAIN states : states'[k] = IF k = m THEN s ELSE states[k]
      /\ DOMAIN states' = DOMAIN states
  BY <1>2, <1>4
<1>7. \A b \in Admins : calls[b] = IF b = a THEN Idle ELSE admin[b]
  BY <1>1 DEF Shaped
<1>8. \A b \in Admins : CallShape(calls[b])
  BY <1>1, <1>7 DEF Shaped, CallShape
<1> HIDE DEF calls
<1>9. /\ DOMAIN admin' = Admins
      /\ \A b \in Admins : Woken(calls[b], admin'[b]) /\ CallShape(admin'[b])
  BY <1>2, <1>8, NotifiedAreWoken
<1>10. ASSUME NEW b \in Admins, admin'[b] # Idle
       PROVE  /\ b # a /\ admin[b] # Idle /\ Woken(admin[b], admin'[b])
              /\ CallShape(admin[b]) /\ CallShape(admin'[b])
  <2>1. calls[b] # Idle
    BY <1>8, <1>9, <1>10, WokenCalls
  <2> QED
    BY <1>1, <1>7, <1>9, <2>1 DEF Shaped
<1>11. ASSUME NEW b \in Admins, b # a, admin[b] # Idle
       PROVE  /\ admin'[b] # Idle /\ admin'[b].held = admin[b].held
              /\ admin[b].model # m
  <2>1. calls[b] = admin[b] /\ admin[b].model # m
    BY <1>1, <1>3, <1>7, <1>11 DEF Owned
  <2> QED
    BY <1>8, <1>9, <1>11, <2>1, WokenCalls
<1>12. Shaped'
  BY <1>1, <1>2, <1>5, <1>6, <1>9 DEF Shaped
<1>13. Owned'
  <2>1. ASSUME NEW b \in Admins, admin'[b] # Idle
        PROVE  Owns(admin[b])' /\ admin[b] # Idle /\ admin'[b].model = admin[b].model
    <3>1. /\ admin[b] # Idle /\ admin[b].model # m /\ admin'[b].model = admin[b].model
          /\ admin'[b].born = admin[b].born
          /\ admin'[b].pc \in LoadSteps => admin'[b] = admin[b]
          /\ admin'[b].pc \in UnloadSteps <=> admin[b].pc \in UnloadSteps
      BY <1>10, <1>11, <2>1, WokenCalls
    <3>2. Owns(admin[b])
      BY <1>1, <3>1 DEF Owned
    <3>3. SettingsOf(admin[b].model)' = SettingsOf(admin[b].model)
      BY <1>2, <3>1 DEF SettingsOf
    <3>4. states'[admin[b].model] = states[admin[b].model]
      BY <1>6, <3>1, <3>2 DEF Owns
    <3> QED
      BY <1>2, <1>6, <3>1, <3>2, <3>3, <3>4 DEF Owns, Open
  <2> QED
    BY <1>1, <2>1 DEF Owned
<1>14. RuntimeMatchesSettings'
  BY <1>1, <1>2, <1>5, <1>6 DEF RuntimeMatchesSettings
<1>15. Named'
  <2>1. \A b \in Admins : admin'[b].pc \in LoadSteps => admin'[b] = admin[b]
    <3> TAKE b \in Admins
    <3> HAVE admin'[b].pc \in LoadSteps
    <3>1. admin'[b] # Idle
      BY DEF Idle, LoadSteps
    <3> QED
      BY <1>10, <3>1, WokenCalls
  <2> QED
    BY <1>1, <1>2, <2>1 DEF Named, Fresh
<1>16. InHand' /\ OneEnginePerBackend'
  <2>1. ASSUME NEW b \in Admins, admin'[b] # Idle PROVE Holds(admin[b])'
    <3>1. Holds(admin[b]) /\ admin[b] # Idle /\ Woken(admin[b], admin'[b])
      BY <1>1, <1>10, <2>1 DEF InHand
    <3>2. CASE admin'[b] = admin[b]
      BY <1>2, <3>1, <3>2 DEF Holds
    <3>3. CASE admin'[b] # admin[b]
      BY <3>1, <3>3 DEF Holds, Woken, LoadSteps
    <3> QED
      BY <3>2, <3>3
  <2> QED
    BY <1>1, <1>2, <2>1 DEF InHand, OneEnginePerBackend
<1>17. NoRuntimeLeaks'
  <2>1. \A x \in Held : x \in Held'
    BY <1>4, <1>11 DEF Held
  <2> QED
    BY <1>1, <1>2, <2>1 DEF NoRuntimeLeaks
<1>18. Placed'
  <2>1. Placed /\ m \notin DOMAIN replicaIds
    BY <1>1, <1>2, <1>3, <1>4 DEF Placed, Unloads
  <2> HIDE DEF m
  <2>2. TablesPlaced'
    BY <1>2, <1>4, <1>5, <1>6, <2>1, MarkKeepsTables DEF Placed
  <2>3. ASSUME NEW b \in Admins, admin'[b] # Idle PROVE Unloads(admin[b])'
    <3>1. Unloads(admin[b]) /\ Woken(admin[b], admin'[b])
      BY <1>10, <2>1, <2>3 DEF Placed
    <3>2. CASE admin'[b] = admin[b]
      BY <1>2, <3>1, <3>2 DEF Unloads
    <3>3. CASE admin'[b] # admin[b]
      BY <3>1, <3>3 DEF Unloads, Woken
    <3> QED
      BY <3>2, <3>3
  <2> QED
    BY <2>2, <2>3 DEF Placed
<1>19. Served'
  BY <1>1, <1>2, <1>4, <1>5, <1>6, MarkKeepsRequests
<1> QED
  BY <1>12, <1>13, <1>14, <1>15, <1>16, <1>17, <1>18, <1>19 DEF RouterInv

----------------------------------------------------------------------------
\* Admission and release

\* A request is admitted only by a loaded model, and counted.
LEMMA AdmitKeeps ==
  ASSUME RouterInv, NEW q \in Requests, NEW m \in DOMAIN configured, Admit(q, m)
  PROVE  RouterInv'
<1> DEFINE s == [states[m] EXCEPT !.inflight = @ + 1]
           r == [pc |-> "admitted", model |-> m, executor |-> registry[m], runtime |-> <<>>]
<1>1. Shaped /\ Owned /\ Named /\ InHand /\ NoRuntimeLeaks /\ OneEnginePerBackend
        /\ RuntimeMatchesSettings /\ (Open => Placed) /\ (Open => Served)
  BY DEF RouterInv
<1>2. /\ Open /\ request[q] = Idle /\ states[m].lifecycle = "loaded" /\ m \in DOMAIN registry
      /\ states' = [states EXCEPT ![m] = s]
      /\ request' = [request EXCEPT ![q] = r]
      /\ UNCHANGED <<catalogVars, tableVars, execVars, alive, builds, admin, closing>>
  BY DEF Admit, SetState
<1> USE DEF catalogVars, tableVars, execVars
<1>3. m \in DOMAIN states /\ StateShape(states[m])
  BY <1>1 DEF Shaped
<1>4. /\ StateShape(s) /\ s.lifecycle = "loaded" /\ s.born = states[m].born
      /\ s.inflight = states[m].inflight + 1 /\ s.effective = states[m].effective
  BY <1>2, <1>3 DEF StateShape, StateFields, Lifecycles
<1>5. /\ DOMAIN r = RequestFields /\ r.pc = "admitted" /\ r.model = m
      /\ r.executor = registry[m] /\ r # Idle
  BY DEF RequestFields, Idle
<1> HIDE DEF s, r
<1>6. /\ \A k \in DOMAIN states : states'[k] = IF k = m THEN s ELSE states[k]
      /\ DOMAIN states' = DOMAIN states
      /\ \A p \in Requests : request'[p] = IF p = q THEN r ELSE request[p]
  BY <1>1, <1>2, <1>3 DEF Shaped
<1>7. Shaped'
  BY <1>1, <1>2, <1>4, <1>5, <1>6 DEF Shaped, RequestShape, RequestSteps
<1>8. \A k \in DOMAIN states : /\ states'[k].lifecycle = states[k].lifecycle
                               /\ states'[k].born = states[k].born
                               /\ states'[k].effective = states[k].effective
  BY <1>2, <1>4, <1>6
<1>9. Owned'
  <2>1. ASSUME NEW b \in Admins, admin[b] # Idle PROVE Owns(admin[b])'
    <3>1. Owns(admin[b])
      BY <1>1, <2>1 DEF Owned
    <3> QED
      BY <1>2, <1>6, <1>8, <3>1 DEF Owns, Open, SettingsOf
  <2> QED
    BY <1>1, <1>2, <2>1 DEF Owned
<1>10. RuntimeMatchesSettings'
  BY <1>1, <1>2, <1>6, <1>8 DEF RuntimeMatchesSettings
<1>11. Named' /\ InHand' /\ NoRuntimeLeaks' /\ OneEnginePerBackend'
  BY <1>1, <1>2 DEF Named, Fresh, InHand, Holds, NoRuntimeLeaks, Held, OneEnginePerBackend
<1>12. Placed'
  <2>1. ASSUME NEW n \in DOMAIN replicaIds PROVE ModelPlaced(n)'
    BY <1>1, <1>2, <1>6, <1>8 DEF Placed, TablesPlaced, ModelPlaced, ReplicaPlaced
  <2> QED
    BY <1>1, <1>2, <1>6, <1>8, <2>1 DEF Placed, TablesPlaced, Unloads
<1>13. Served'
  <2>1. \A n : Admitted(n)' = IF n = m THEN Admitted(n) \cup {q} ELSE Admitted(n)
    BY <1>2, <1>5, <1>6 DEF Admitted
  <2>2. q \notin Admitted(m)
    BY <1>2 DEF Admitted
  <2>3. IsFiniteSet(Admitted(m)) /\ states[m].inflight = Cardinality(Admitted(m))
    BY <1>1, <1>2, <1>3 DEF Served
  <2>4. /\ IsFiniteSet(Admitted(m) \cup {q})
        /\ Cardinality(Admitted(m) \cup {q}) = Cardinality(Admitted(m)) + 1
    BY <2>2, <2>3, FS_AddElement
  <2>5. ASSUME NEW n \in DOMAIN states
        PROVE  IsFiniteSet(Admitted(n)') /\ states'[n].inflight = Cardinality(Admitted(n)')
    BY <1>1, <1>2, <1>4, <1>6, <2>1, <2>3, <2>4 DEF Served
  <2>6. ASSUME NEW p \in Requests, request'[p] # Idle PROVE OnExecutor(request[p])'
    BY <1>1, <1>2, <1>5, <1>6, <2>6 DEF Served, OnExecutor
  <2> QED
    BY <1>6, <2>5, <2>6 DEF Served
<1> QED
  BY <1>7, <1>9, <1>10, <1>11, <1>12, <1>13 DEF RouterInv

\* A request is counted down once, on the state object it was counted on.
LEMMA ReleaseKeeps ==
  ASSUME RouterInv, NEW q \in Requests, Release(q)
  PROVE  RouterInv'
<1> DEFINE m == request[q].model
           s == Released(states[m])
           counted == m \in DOMAIN states /\ states[m].inflight > 0
<1>1. Shaped /\ Owned /\ Named /\ InHand /\ NoRuntimeLeaks /\ OneEnginePerBackend
        /\ RuntimeMatchesSettings /\ (Open => Placed) /\ (Open => Served)
  BY DEF RouterInv
<1>2. /\ request[q].pc = "answered" /\ request[q] # Idle
      /\ request' = [request EXCEPT ![q] = Idle]
      /\ UNCHANGED <<catalogVars, tableVars, execVars, alive, builds, closing>>
      /\ IF counted THEN states' = [states EXCEPT ![m] = s] /\ admin' = Notified(admin)
                    ELSE UNCHANGED <<states, admin>>
  BY DEF Release, SetState, Idle
<1> USE DEF catalogVars, tableVars, execVars
<1>3. counted => /\ m \in DOMAIN states /\ StateShape(states[m]) /\ StateShape(s)
                 /\ s.lifecycle = states[m].lifecycle /\ s.born = states[m].born
                 /\ s.inflight = states[m].inflight - 1 /\ s.effective = states[m].effective
  BY <1>1 DEF Shaped, StateShape, StateFields, Lifecycles, Released
<1> HIDE DEF s
<1>4. /\ DOMAIN states' = DOMAIN states
      /\ \A k \in DOMAIN states : states'[k] = IF counted /\ k = m THEN s ELSE states[k]
  BY <1>2
<1>5. \A k \in DOMAIN states : /\ states'[k].lifecycle = states[k].lifecycle
                               /\ states'[k].born = states[k].born
                               /\ states'[k].effective = states[k].effective
  BY <1>3, <1>4
<1>6. \A p \in Requests : request'[p] = IF p = q THEN Idle ELSE request[p]
  BY <1>1, <1>2 DEF Shaped
<1>7. /\ DOMAIN admin' = Admins
      /\ \A b \in Admins : Woken(admin[b], admin'[b]) /\ CallShape(admin[b]) /\ CallShape(admin'[b])
  <2>1. \A b \in Admins : CallShape(admin[b])
    BY <1>1 DEF Shaped
  <2>2. CASE counted
    BY <1>2, <2>1, <2>2, NotifiedAreWoken
  <2>3. CASE ~counted
    BY <1>1, <1>2, <2>1, <2>3 DEF Shaped, Woken
  <2> QED
    BY <2>2, <2>3
<1>8. \A k \in DOMAIN states : StateShape(states'[k])
  BY <1>1, <1>3, <1>4 DEF Shaped
<1> HIDE DEF counted
<1>9. Shaped'
  BY <1>1, <1>2, <1>4, <1>6, <1>7, <1>8 DEF Shaped, RequestShape
<1>10. Owned'
  <2>1. ASSUME NEW b \in Admins, admin'[b] # Idle
        PROVE  Owns(admin[b])' /\ admin[b] # Idle /\ admin'[b].model = admin[b].model
    <3>1. /\ admin[b] # Idle /\ admin'[b].model = admin[b].model
          /\ admin'[b].born = admin[b].born
          /\ admin'[b].pc \in LoadSteps => admin'[b] = admin[b]
          /\ admin'[b].pc \in UnloadSteps <=> admin[b].pc \in UnloadSteps
      BY <1>7, <2>1, WokenCalls
    <3>2. Owns(admin[b])
      BY <1>1, <3>1 DEF Owned
    <3>3. SettingsOf(admin[b].model)' = SettingsOf(admin[b].model)
      BY <1>2, <3>1 DEF SettingsOf
    <3>4. /\ states'[admin[b].model].lifecycle = states[admin[b].model].lifecycle
          /\ states'[admin[b].model].born = states[admin[b].model].born
      BY <1>5, <3>2 DEF Owns
    <3> QED
      BY <1>2, <1>4, <3>1, <3>2, <3>3, <3>4 DEF Owns, Open
  <2> QED
    BY <1>1, <2>1 DEF Owned
<1>11. RuntimeMatchesSettings'
  BY <1>1, <1>2, <1>4, <1>5 DEF RuntimeMatchesSettings
<1>12. Named'
  <2>1. \A b \in Admins : admin'[b].pc \in LoadSteps => admin'[b] = admin[b]
    <3> TAKE b \in Admins
    <3> HAVE admin'[b].pc \in LoadSteps
    <3>1. admin'[b] # Idle
      BY DEF Idle, LoadSteps
    <3> QED
      BY <1>7, <3>1, WokenCalls
  <2> QED
    BY <1>1, <1>2, <2>1 DEF Named, Fresh
<1>13. InHand' /\ OneEnginePerBackend'
  <2>1. ASSUME NEW b \in Admins, admin'[b] # Idle PROVE Holds(admin[b])'
    <3>1. Holds(admin[b]) /\ admin[b] # Idle /\ Woken(admin[b], admin'[b])
      BY <1>1, <1>7, <2>1, WokenCalls DEF InHand
    <3>2. CASE admin'[b] = admin[b]
      BY <1>2, <3>1, <3>2 DEF Holds
    <3>3. CASE admin'[b] # admin[b]
      <4>1. admin'[b].model = admin[b].model
        BY <1>7, <3>1, WokenCalls
      <4> QED
        BY <3>1, <3>3, <4>1 DEF Holds, Woken, LoadSteps
    <3> QED
      BY <3>2, <3>3
  <2> QED
    BY <1>1, <1>2, <2>1 DEF InHand, OneEnginePerBackend
<1>14. NoRuntimeLeaks'
  <2>1. ASSUME NEW b \in Admins, admin[b] # Idle
        PROVE  admin'[b] # Idle /\ admin'[b].held = admin[b].held
    BY <1>7, <2>1, WokenCalls
  <2>2. \A x \in Held : x \in Held'
    BY <2>1 DEF Held
  <2> QED
    BY <1>1, <1>2, <2>2 DEF NoRuntimeLeaks
<1>15. (Open => Placed)'
  <2> SUFFICES ASSUME Open PROVE Placed'
    BY <1>2 DEF Open
  <2>1. ASSUME NEW n \in DOMAIN replicaIds PROVE ModelPlaced(n)'
    BY <1>1, <1>2, <1>4, <1>5 DEF Placed, TablesPlaced, ModelPlaced, ReplicaPlaced
  <2>2. ASSUME NEW b \in Admins, admin'[b] # Idle PROVE Unloads(admin[b])'
    <3>1. Unloads(admin[b]) /\ Woken(admin[b], admin'[b])
      BY <1>1, <1>7, <2>2, WokenCalls DEF Placed
    <3>2. CASE admin'[b] = admin[b]
      BY <1>2, <3>1, <3>2 DEF Unloads
    <3>3. CASE admin'[b] # admin[b]
      BY <3>1, <3>3 DEF Unloads, Woken
    <3> QED
      BY <3>2, <3>3
  <2> QED
    BY <1>1, <1>2, <1>4, <1>5, <2>1, <2>2 DEF Placed, TablesPlaced
<1>16. (Open => Served)'
  <2> SUFFICES ASSUME Open PROVE Served'
    BY <1>2 DEF Open
  <2>1. m \in DOMAIN states /\ q \in Admitted(m) /\ Served
    BY <1>1, <1>2 DEF Served, OnExecutor, Placed, TablesPlaced, ModelPlaced, Admitted
  <2>2. IsFiniteSet(Admitted(m)) /\ states[m].inflight = Cardinality(Admitted(m))
    BY <2>1 DEF Served
  <2>3. /\ IsFiniteSet(Admitted(m) \ {q})
        /\ Cardinality(Admitted(m) \ {q}) = Cardinality(Admitted(m)) - 1
    BY <2>1, <2>2, FS_RemoveElement
  <2>4. counted
    <3>1. Cardinality(Admitted(m)) \in Nat /\ Cardinality(Admitted(m)) # 0
      BY <2>1, <2>2, FS_EmptySet, FS_CardinalityType
    <3> QED
      BY <2>1, <2>2, <3>1 DEF counted
  <2>5. \A n : Admitted(n)' = IF n = m THEN Admitted(n) \ {q} ELSE Admitted(n)
    BY <1>6 DEF Admitted
  <2>6. ASSUME NEW n \in DOMAIN states
        PROVE  IsFiniteSet(Admitted(n)') /\ states'[n].inflight = Cardinality(Admitted(n)')
    BY <1>3, <1>4, <2>1, <2>2, <2>3, <2>4, <2>5 DEF Served
  <2>7. ASSUME NEW p \in Requests, request'[p] # Idle PROVE OnExecutor(request[p])'
    BY <1>2, <1>6, <2>1, <2>7 DEF Served, OnExecutor
  <2> QED
    BY <1>4, <2>6, <2>7 DEF Served
<1> QED
  BY <1>9, <1>10, <1>11, <1>12, <1>13, <1>14, <1>15, <1>16 DEF RouterInv

----------------------------------------------------------------------------
\* Reload and close

\* reload_settings replaces only what no load, unload or request is using.
LEMMA ReloadKeeps ==
  ASSUME RouterInv, NEW catalog \in Catalogs, NEW newTuning \in Tunings,
         Reload(catalog, newTuning)
  PROVE  RouterInv'
<1>1. Shaped /\ Owned /\ Named /\ InHand /\ NoRuntimeLeaks /\ OneEnginePerBackend
        /\ RuntimeMatchesSettings /\ Open /\ Placed /\ Served
  BY DEF RouterInv, Reload
<1>2. /\ ~Conflict(catalog, newTuning)
      /\ configured' = catalog /\ tuning' = newTuning /\ states' = StatesAfter(catalog)
      /\ IF newTuning.fairness = tuning.fairness
         THEN UNCHANGED execVars
         ELSE registry' = << >> /\ shut' = shut \cup {x.id : x \in Range(registry)}
      /\ UNCHANGED <<tableVars, alive, builds, admin, request, closing>>
  BY DEF Reload
<1> USE DEF tableVars, execVars
<1>3. \A m \in ActiveModels :
        /\ newTuning = tuning /\ m \in DOMAIN states'
        /\ states'[m] = states[m]
        /\ configured'[m].def = configured[m].def
        /\ configured'[m].backend = configured[m].backend
  <2>1. DOMAIN states = DOMAIN configured
    BY <1>1 DEF Shaped
  <2> QED
    BY <1>2, <2>1 DEF Conflict, Invalidates, Changed, StatesAfter, ActiveModels
<1>4. \A m \in DOMAIN states' :
        \/ m \in DOMAIN states /\ states'[m] = states[m]
        \/ /\ m \notin ActiveModels
           /\ StateShape(states'[m])
           /\ states'[m].lifecycle = "unloaded" /\ states'[m].inflight = 0
  <2>1. DOMAIN states = DOMAIN configured
    BY <1>1 DEF Shaped
  <2>2. StateShape(NewState(reloads + 1)) /\ NewState(reloads + 1).lifecycle = "unloaded"
          /\ NewState(reloads + 1).inflight = 0
    BY DEF NewState, StateShape, StateFields, Lifecycles
  <2> HIDE DEF NewState
  <2> TAKE m \in DOMAIN states'
  <2>3. \/ m \in DOMAIN states /\ states'[m] = states[m]
        \/ states'[m] = NewState(reloads + 1)
    BY <1>2, <2>1 DEF StatesAfter
  <2>4. m \in ActiveModels => m \in DOMAIN states /\ states'[m] = states[m]
    BY <1>3 DEF ActiveModels
  <2>5. CASE m \in DOMAIN states /\ states'[m] = states[m]
    BY <2>5
  <2>6. CASE states'[m] = NewState(reloads + 1) /\ m \notin ActiveModels
    BY <2>2, <2>6
  <2> QED
    BY <2>3, <2>4, <2>5, <2>6
<1>5. \A m \in DOMAIN replicaIds : m \in ActiveModels
  BY <1>1 DEF Placed, TablesPlaced, ModelPlaced, ActiveModels
<1>6. DOMAIN registry' = DOMAIN registry /\ shut' = shut
        /\ \A m \in DOMAIN registry : registry'[m] = registry[m]
  <2>1. CASE newTuning.fairness = tuning.fairness
    BY <1>2, <2>1
  <2>2. CASE newTuning.fairness # tuning.fairness
    <3>1. DOMAIN registry = {}
      BY <1>1, <1>3, <1>5, <2>2 DEF Placed, TablesPlaced
    <3>2. DOMAIN registry' = {}
      BY <1>2, <2>2
    <3>3. Range(registry) = {}
      BY <3>1 DEF Range
    <3> QED
      BY <1>2, <2>2, <3>1, <3>2, <3>3
  <2> QED
    BY <2>1, <2>2
<1>7. Shaped'
  <2>1. DOMAIN states' = DOMAIN configured' /\ DOMAIN configured' \subseteq Models
    BY <1>2, RouterAssumption DEF StatesAfter
  <2> QED
    BY <1>1, <1>2, <1>4, <2>1 DEF Shaped
<1>8. Owned'
  <2>1. ASSUME NEW b \in Admins, admin[b] # Idle PROVE Owns(admin[b])'
    <3>1. Owns(admin[b])
      BY <1>1, <2>1 DEF Owned
    <3>2. admin[b].pc \in LoadSteps \/ admin[b].pc \in UnloadSteps
      BY <1>1, <2>1, BusyCalls
    <3>3. admin[b].model \in ActiveModels
      BY <3>1, <3>2 DEF Owns, ActiveModels
    <3>4. SettingsOf(admin[b].model)' = SettingsOf(admin[b].model)
      BY <1>2, <1>3, <3>3 DEF SettingsOf
    <3> QED
      BY <1>2, <1>3, <3>1, <3>3, <3>4 DEF Owns, Open
  <2> QED
    BY <1>1, <1>2, <2>1 DEF Owned
<1>9. RuntimeMatchesSettings'
  <2>1. ASSUME NEW m \in DOMAIN states', states'[m].lifecycle \in {"loaded", "unloading"}
        PROVE  states'[m].effective = [def |-> configured'[m].def, decoding |-> tuning'.decoding]
    <3>1. m \in DOMAIN states /\ states'[m] = states[m] /\ m \in ActiveModels
      BY <1>4, <2>1 DEF ActiveModels
    <3> QED
      BY <1>1, <1>2, <1>3, <2>1, <3>1 DEF RuntimeMatchesSettings
  <2> QED
    BY <2>1 DEF RuntimeMatchesSettings
<1>10. Named' /\ InHand' /\ NoRuntimeLeaks'
  <2>1. ASSUME NEW b \in Admins, admin[b].pc \in LoadSteps PROVE Fresh(admin[b].id)'
    BY <1>1, <1>2, <1>6, <2>1 DEF Named, Fresh
  <2> QED
    BY <1>1, <1>2, <1>6, <2>1 DEF Named, InHand, Holds, NoRuntimeLeaks, Held
<1>11. OneEnginePerBackend'
  <2>1. \A r \in DOMAIN engineOf : r[1] \in ActiveModels
    BY <1>1, <1>5 DEF Placed, TablesPlaced
  <2>2. \A m \in ActiveModels : m \in DOMAIN configured
    BY <1>1 DEF ActiveModels, Shaped
  <2> QED
    BY <1>1, <1>2, <1>3, <2>1, <2>2 DEF OneEnginePerBackend
<1>12. Placed'
  <2>1. ASSUME NEW n \in DOMAIN replicaIds PROVE ModelPlaced(n)'
    <3>1. ModelPlaced(n) /\ n \in DOMAIN states' /\ states'[n] = states[n]
            /\ n \in DOMAIN registry /\ registry'[n] = registry[n] /\ n \in DOMAIN registry'
      BY <1>1, <1>3, <1>5, <1>6 DEF Placed, TablesPlaced, ModelPlaced
    <3> QED
      BY <1>2, <3>1 DEF ModelPlaced, ReplicaPlaced
  <2>2. ASSUME NEW n \in DOMAIN states', states'[n].lifecycle = "loaded"
        PROVE  n \in DOMAIN replicaIds /\ registry'[n].id \notin shut
    <3>1. n \in DOMAIN replicaIds /\ registry[n].id \notin shut /\ n \in DOMAIN registry
      BY <1>1, <1>4, <2>2 DEF Placed, TablesPlaced, ModelPlaced
    <3> QED
      BY <1>6, <3>1
  <2>3. TablesPlaced'
    <3>1. \A r \in DOMAIN models \cup DOMAIN engineOf :
            r[1] \in DOMAIN replicaIds /\ r \in replicaIds[r[1]]
      BY <1>1 DEF Placed, TablesPlaced
    <3>2. DOMAIN registry' \subseteq DOMAIN replicaIds
      BY <1>1, <1>6 DEF Placed, TablesPlaced
    <3> QED
      BY <1>2, <1>6, <2>1, <2>2, <3>1, <3>2 DEF TablesPlaced
  <2>4. ASSUME NEW b \in Admins, admin[b] # Idle PROVE Unloads(admin[b])'
    <3>1. Unloads(admin[b])
      BY <1>1, <2>4 DEF Placed
    <3> QED
      BY <1>2, <1>6, <3>1 DEF Unloads
  <2> QED
    BY <1>2, <2>3, <2>4 DEF Placed
<1>13. Served'
  <2>1. \A n : Admitted(n)' = Admitted(n)
    BY <1>2 DEF Admitted
  <2>2. ASSUME NEW q \in Requests, request[q] # Idle PROVE OnExecutor(request[q])'
    BY <1>1, <1>2, <1>6, <2>2 DEF Served, OnExecutor
  <2>3. ASSUME NEW n \in DOMAIN states'
        PROVE  IsFiniteSet(Admitted(n)) /\ states'[n].inflight = Cardinality(Admitted(n))
    <3>1. CASE n \in DOMAIN states /\ states'[n] = states[n]
      BY <1>1, <3>1 DEF Served
    <3>2. CASE n \notin ActiveModels /\ states'[n].inflight = 0
      <4>1. Admitted(n) = {}
        BY <1>1, <1>5, <3>2 DEF Served, OnExecutor, Admitted, Placed, TablesPlaced
      <4> QED
        BY <3>2, <4>1, FS_EmptySet
    <3> QED
      BY <1>4, <2>3, <3>1, <3>2
  <2> QED
    BY <1>2, <2>1, <2>2, <2>3 DEF Served
<1> QED
  BY <1>7, <1>8, <1>9, <1>10, <1>11, <1>12, <1>13 DEF RouterInv

\* close shuts every registered executor down.
LEMMA CloseSchedulerKeeps ==
  ASSUME RouterInv, CloseScheduler
  PROVE  RouterInv'
<1>1. Shaped /\ Owned /\ Named /\ InHand /\ NoRuntimeLeaks /\ OneEnginePerBackend
        /\ RuntimeMatchesSettings
  BY DEF RouterInv
<1>2. /\ \A a \in Admins : admin[a] = Idle
      /\ registry' = << >>
      /\ shut' = shut \cup {x.id : x \in Range(registry)}
      /\ closing' = [closing EXCEPT !.pc = "clear"]
      /\ UNCHANGED <<catalogVars, states, tableVars, alive, builds, admin, request>>
  BY DEF CloseScheduler
<1> USE DEF catalogVars, tableVars
<1>3. closing'.pc = "clear" /\ closing'.runtimes = {} /\ closing.runtimes = {}
        /\ DOMAIN closing' = {"pc", "runtimes"}
  BY <1>1, <1>2 DEF Shaped, CloseScheduler, Open
<1>4. ~Open'
  BY <1>3 DEF Open
<1>5. Shaped'
  BY <1>1, <1>2, <1>3 DEF Shaped
<1>6. Owned' /\ InHand'
  BY <1>2 DEF Owned, InHand
<1>7. Named'
  <2>1. DOMAIN registry' = {}
    BY <1>2
  <2>2. shut' \subseteq 1..builds
    BY <1>1, <1>2 DEF Named, Range
  <2>3. \A a \in Admins : admin'[a].pc \notin LoadSteps
    BY <1>2 DEF Idle, LoadSteps
  <2> QED
    BY <1>1, <1>2, <2>1, <2>2, <2>3 DEF Named
<1>8. NoRuntimeLeaks' /\ OneEnginePerBackend' /\ RuntimeMatchesSettings'
  BY <1>1, <1>2, <1>3 DEF NoRuntimeLeaks, Held, OneEnginePerBackend, RuntimeMatchesSettings
<1> QED
  BY <1>4, <1>5, <1>6, <1>7, <1>8 DEF RouterInv

\* close empties the tables and takes all runtimes.
LEMMA CloseTablesKeeps ==
  ASSUME RouterInv, CloseTables
  PROVE  RouterInv'
<1>1. Shaped /\ Owned /\ Named /\ InHand /\ NoRuntimeLeaks
        /\ RuntimeMatchesSettings /\ ~Open
  BY DEF RouterInv, CloseTables, Open
<1>2. /\ closing' = [pc |-> "clean", runtimes |-> {<<models[r], r>> : r \in DOMAIN models}]
      /\ engineOf' = << >>
      /\ states' = [m \in DOMAIN states |->
                      IF m \in ActiveModels
                      THEN [states[m] EXCEPT !.lifecycle = "unloaded", !.inflight = 0,
                                             !.effective = NoSettings]
                      ELSE states[m]]
      /\ UNCHANGED <<catalogVars, engines, execVars, alive, builds, admin, request>>
      /\ closing.runtimes = {}
  BY <1>1 DEF CloseTables, Shaped
<1> USE DEF catalogVars, execVars
<1>3. closing'.pc = "clean" /\ ~Open' /\ DOMAIN closing' = {"pc", "runtimes"}
        /\ closing'.runtimes = {<<models[r], r>> : r \in DOMAIN models}
  BY <1>2 DEF Open
<1>4. \A m \in DOMAIN states :
        /\ StateShape(states'[m])
        /\ states'[m].lifecycle \notin {"loaded", "unloading"}
  <2> TAKE m \in DOMAIN states
  <2>1. StateShape(states[m])
    BY <1>1 DEF Shaped
  <2>2. CASE m \in ActiveModels
    BY <1>2, <2>1, <2>2 DEF StateShape, StateFields, Lifecycles
  <2>3. CASE m \notin ActiveModels
    BY <1>2, <2>1, <2>3 DEF ActiveModels
  <2> QED
    BY <2>2, <2>3
<1>5. DOMAIN states' = DOMAIN states /\ DOMAIN engineOf' = {}
  <2>1. DOMAIN engineOf' = {}
    <3>1. engineOf' = << >>
      BY <1>2
    <3> QED
      BY <3>1
  <2>2. DOMAIN states' = DOMAIN states
    BY <1>2
  <2> QED
    BY <2>1, <2>2
<1>6. Shaped'
  BY <1>1, <1>2, <1>3, <1>4, <1>5 DEF Shaped
<1>7. \A a \in Admins : admin[a] = Idle
  BY <1>1 DEF Owned, Owns
<1>8. Owned' /\ InHand'
  BY <1>2, <1>7 DEF Owned, InHand
<1>9. RuntimeMatchesSettings'
  BY <1>4, <1>5 DEF RuntimeMatchesSettings
<1>10. Named'
  <2>1. \A a \in Admins : admin'[a].pc \notin LoadSteps
    <3>1. \A a \in Admins : admin'[a] = Idle
      BY <1>2, <1>7
    <3> QED
      BY <3>1 DEF Idle, LoadSteps
  <2> QED
    BY <1>1, <1>2, <1>5, <2>1 DEF Named
<1>11. NoRuntimeLeaks'
  <2>1. Held' = Held
    BY <1>2 DEF Held
  <2> QED
    BY <1>1, <1>2, <1>3, <2>1 DEF NoRuntimeLeaks
<1>12. OneEnginePerBackend'
  BY <1>5 DEF OneEnginePerBackend
<1> QED
  BY <1>3, <1>6, <1>8, <1>9, <1>10, <1>11, <1>12 DEF RouterInv

\* close cleans the runtimes up.
LEMMA CloseCleanKeeps ==
  ASSUME RouterInv, CloseClean
  PROVE  RouterInv'
<1>1. Shaped /\ Owned /\ Named /\ NoRuntimeLeaks /\ OneEnginePerBackend
        /\ RuntimeMatchesSettings /\ closing.pc = "clean"
  BY DEF RouterInv, CloseClean
<1>2. UNCHANGED <<catalogVars, states, tableVars, execVars, builds, admin, request>>
  BY DEF CloseClean
<1> USE DEF catalogVars, tableVars, execVars
<1>3. \A a \in Admins : admin[a] = Idle
  BY <1>1 DEF Owned, Owns, Open
<1>4. /\ closing'.pc \in {"clean", "closed"} /\ DOMAIN closing' = {"pc", "runtimes"}
      /\ \A x \in alive' : x \in alive /\ (x \in closing.runtimes => x \in closing'.runtimes)
  <2>1. CASE closing.runtimes = {}
    BY <1>1, <2>1 DEF CloseClean, Shaped
  <2>2. CASE closing.runtimes # {}
    <3>1. PICK r \in closing.runtimes : /\ alive' = alive \ {r}
                                        /\ closing' = [closing EXCEPT !.runtimes = @ \ {r}]
      BY <2>2 DEF CloseClean
    <3>2. closing'.pc = "clean" /\ closing'.runtimes = closing.runtimes \ {r}
            /\ DOMAIN closing' = {"pc", "runtimes"}
      BY <1>1, <3>1 DEF Shaped
    <3> QED
      BY <3>1, <3>2
  <2> QED
    BY <2>1, <2>2
<1>5. Shaped'
  BY <1>1, <1>2, <1>4 DEF Shaped
<1>6. Owned' /\ InHand'
  BY <1>2, <1>3 DEF Owned, InHand
<1>7. Named' /\ OneEnginePerBackend' /\ RuntimeMatchesSettings'
  BY <1>1, <1>2 DEF Named, Fresh, OneEnginePerBackend, RuntimeMatchesSettings
<1>8. NoRuntimeLeaks'
  <2>1. Held' = Held
    BY <1>2 DEF Held
  <2> QED
    BY <1>1, <1>2, <1>4, <2>1 DEF NoRuntimeLeaks
<1> QED
  BY <1>4, <1>5, <1>6, <1>7, <1>8 DEF RouterInv, Open

----------------------------------------------------------------------------
\* The invariant

\* The router starts with empty tables.
LEMMA InitHolds ==
  Init => RouterInv
<1> SUFFICES ASSUME Init PROVE RouterInv
  OBVIOUS
<1>1. /\ configured \in Catalogs /\ states = [m \in DOMAIN configured |-> NewState(0)]
      /\ DOMAIN models = {} /\ DOMAIN engineOf = {} /\ DOMAIN replicaIds = {}
      /\ DOMAIN registry = {} /\ shut = {} /\ alive = {} /\ builds = 0
      /\ DOMAIN engines = 1..MaxBuilds
      /\ admin = [a \in Admins |-> Idle] /\ request = [q \in Requests |-> Idle]
      /\ closing = [pc |-> "open", runtimes |-> {}]
  BY DEF Init
<1>2. NewState(0).lifecycle = "unloaded" /\ StateShape(NewState(0)) /\ NewState(0).inflight = 0
  BY DEF NewState, StateShape, StateFields, Lifecycles
<1> HIDE DEF NewState
<1>3. Shaped
  BY <1>1, <1>2, RouterAssumption DEF Shaped, CallShape, RequestShape
<1>4. Owned /\ InHand /\ NoRuntimeLeaks /\ OneEnginePerBackend
  BY <1>1 DEF Owned, InHand, NoRuntimeLeaks, OneEnginePerBackend
<1>5. RuntimeMatchesSettings
  BY <1>1, <1>2 DEF RuntimeMatchesSettings
<1>6. Named
  BY <1>1 DEF Named, Idle, LoadSteps
<1>7. Placed
  BY <1>1, <1>2 DEF Placed, TablesPlaced
<1>8. Served
  <2>1. \A m : Admitted(m) = {}
    BY <1>1 DEF Admitted
  <2> QED
    BY <1>1, <1>2, <2>1, FS_EmptySet DEF Served
<1> QED
  BY <1>3, <1>4, <1>5, <1>6, <1>7, <1>8 DEF RouterInv

\* Every step keeps the invariant.
LEMMA StepKeeps ==
  RouterInv /\ [Next]_vars => RouterInv'
<1> SUFFICES ASSUME RouterInv, [Next]_vars PROVE RouterInv'
  OBVIOUS
<1>1. CASE UNCHANGED vars
  BY <1>1 DEF vars, catalogVars, tableVars, execVars, RouterInv, Shaped, Owned, Owns, Open,
     SettingsOf, RuntimeMatchesSettings, Named, Fresh, InHand, Holds, NoRuntimeLeaks, Held,
     OneEnginePerBackend, Placed, TablesPlaced, ModelPlaced, ReplicaPlaced, Unloads, Served,
     OnExecutor, Admitted
<1>2. ASSUME NEW a \in Admins, NEW m \in DOMAIN configured,
             \/ \E n \in Replicas : BeginLoad(a, m, n)
             \/ BeginLoadBadOverride(a, m)
             \/ BeginUnload(a, m)
      PROVE  RouterInv'
  BY <1>2, BeginLoadKeeps, BeginLoadBadOverrideKeeps, BeginUnloadKeeps
<1>3. ASSUME NEW a \in Admins, AdminStep(a) PROVE RouterInv'
  BY <1>3, BuildRaisesKeeps, BuildKeeps, CleanKeeps, LoadFailsKeeps, InstallKeeps,
     ShutExecutorKeeps, SleepKeeps, TakeOutKeeps, FinishUnloadKeeps DEF AdminStep
<1>4. ASSUME NEW q \in Requests, NEW m \in DOMAIN configured, Admit(q, m) PROVE RouterInv'
  BY <1>4, AdmitKeeps
<1>5. ASSUME NEW q \in Requests, RequestStep(q) PROVE RouterInv'
  BY <1>5, RequestStepsKeep, ReleaseKeeps DEF RequestStep
<1>6. ASSUME NEW catalog \in Catalogs, NEW newTuning \in Tunings, Reload(catalog, newTuning)
      PROVE  RouterInv'
  BY <1>6, ReloadKeeps
<1>7. CASE CloseScheduler \/ CloseStep
  BY <1>7, CloseSchedulerKeeps, CloseTablesKeeps, CloseCleanKeeps DEF CloseStep
<1> QED
  BY <1>1, <1>2, <1>3, <1>4, <1>5, <1>6, <1>7 DEF Next

\* The invariant the others rest on: every call owns the model it works on, tables,
\* registry and engines agree on the models in use, and no request is forgotten.
THEOREM RouterInvariance == Spec => []RouterInv
<1>1. Init => RouterInv
  BY InitHolds
<1>2. RouterInv /\ [Next]_vars => RouterInv'
  BY StepKeeps
<1> QED
  BY <1>1, <1>2, PTL DEF Spec

----------------------------------------------------------------------------
\* The properties

\* What is placed where makes the tables agree.
LEMMA TablesFollow ==
  RouterInv => TablesAgree
<1> SUFFICES ASSUME RouterInv, Open, NEW m \in DOMAIN states
             PROVE  /\ states[m].lifecycle = "loaded" =>
                         /\ m \in DOMAIN registry /\ registry[m].id \notin shut
                         /\ Serving(m) # {} /\ Serving(m) = replicaIds[m]
                         /\ Serving(m) = registry[m].replicas
                         /\ \A r \in Serving(m) :
                              /\ <<models[r], r>> \in alive
                              /\ engineOf[r] = registry[m].engine
                              /\ r \in DOMAIN engines[engineOf[r]]
                              /\ engines[engineOf[r]][r] = models[r]
                    /\ states[m].lifecycle \in {"unloaded", "failed", "loading"} =>
                         /\ Serving(m) = {} /\ m \notin DOMAIN registry
                         /\ m \notin DOMAIN replicaIds
  BY DEF TablesAgree
<1>1. TablesPlaced
  BY DEF RouterInv, Placed
<1>2. ASSUME states[m].lifecycle = "loaded"
      PROVE  /\ m \in DOMAIN registry /\ registry[m].id \notin shut
             /\ Serving(m) # {} /\ Serving(m) = replicaIds[m]
             /\ Serving(m) = registry[m].replicas
             /\ \A r \in Serving(m) : ReplicaPlaced(m, r)
  <2>1. m \in DOMAIN replicaIds /\ registry[m].id \notin shut /\ ModelPlaced(m)
    BY <1>1, <1>2 DEF TablesPlaced
  <2>2. ASSUME NEW r PROVE r \in Serving(m) <=> r \in replicaIds[m]
    <3>1. r \in Serving(m) => r \in replicaIds[m]
      BY <1>1 DEF Serving, TablesPlaced
    <3>2. r \in replicaIds[m] => r \in Serving(m)
      BY <2>1 DEF ModelPlaced, ReplicaPlaced, Serving
    <3> QED
      BY <3>1, <3>2
  <2>3. Serving(m) = replicaIds[m]
    BY <2>2
  <2> QED
    BY <2>1, <2>3 DEF ModelPlaced
<1>3. ASSUME states[m].lifecycle \in {"unloaded", "failed", "loading"}
      PROVE  Serving(m) = {} /\ m \notin DOMAIN registry /\ m \notin DOMAIN replicaIds
  <2>1. m \notin DOMAIN replicaIds
    BY <1>1, <1>3 DEF TablesPlaced, ModelPlaced
  <2> QED
    BY <1>1, <2>1 DEF TablesPlaced, Serving
<1> QED
  BY <1>2, <1>3 DEF ReplicaPlaced

\* A backend call is on the runtime its executor is registered with.
LEMMA CallsFollow ==
  RouterInv => CallsOnLiveRuntimes
<1> SUFFICES ASSUME RouterInv, Open, NEW q \in Requests, request[q].pc = "running"
             PROVE  /\ request[q].runtime \in alive
                    /\ request[q].runtime[1] = request[q].executor.id
  BY DEF CallsOnLiveRuntimes
<1>1. TablesPlaced /\ Served
  BY DEF RouterInv, Placed
<1>2. OnExecutor(request[q])
  BY <1>1 DEF Served, Idle
<1>3. PICK x \in request[q].executor.replicas : request[q].runtime = <<request[q].executor.id, x>>
  BY <1>2 DEF OnExecutor
<1>4. ModelPlaced(request[q].model) /\ request[q].executor = registry[request[q].model]
  BY <1>1, <1>2 DEF TablesPlaced, OnExecutor
<1>5. ReplicaPlaced(request[q].model, x)
  BY <1>3, <1>4 DEF ModelPlaced
<1> QED
  BY <1>3, <1>4, <1>5 DEF ReplicaPlaced

\* The tables of the router, of its scheduler and of the backend engines agree on
\* every model, for every interleaving of loads, unloads, requests and reloads.
THEOREM TheTablesAgree == Spec => []TablesAgree
  BY RouterInvariance, TablesFollow, PTL

\* No backend call runs on a runtime that was cleaned up, or of another load.
THEOREM CallsRunOnLiveRuntimes == Spec => []CallsOnLiveRuntimes
  BY RouterInvariance, CallsFollow, PTL

\* Every runtime that was built is in a table, in a call's hands or with close,
\* until it is cleaned up.
THEOREM NoRuntimeIsForgotten == Spec => []NoRuntimeLeaks
<1>1. RouterInv => NoRuntimeLeaks
  BY DEF RouterInv
<1> QED
  BY <1>1, RouterInvariance, PTL

\* Models of one backend are served by one engine, however their loads interleave.
THEOREM OneEngineEach == Spec => []OneEnginePerBackend
<1>1. RouterInv => OneEnginePerBackend
  BY DEF RouterInv
<1> QED
  BY <1>1, RouterInvariance, PTL

\* The count that an unload waits for is the number of requests in progress.
THEOREM InflightIsExact == Spec => []InflightExact
<1>1. RouterInv => InflightExact
  BY DEF RouterInv, Served, InflightExact
<1> QED
  BY <1>1, RouterInvariance, PTL

\* No reload takes away the state object that a load or an unload has marked.
THEOREM StatesAreKept == Spec => []CallsKeepTheirState
<1>1. RouterInv => CallsKeepTheirState
  BY DEF RouterInv, Owned, Owns, CallsKeepTheirState
<1> QED
  BY <1>1, RouterInvariance, PTL

\* A model in use runs what the present settings say.
THEOREM SettingsAreCurrent == Spec => []RuntimeMatchesSettings
<1>1. RouterInv => RuntimeMatchesSettings
  BY DEF RouterInv
<1> QED
  BY <1>1, RouterInvariance, PTL

=============================================================================
