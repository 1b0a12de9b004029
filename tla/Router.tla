------------------------------- MODULE Router -------------------------------
(***************************************************************************)
(* ModelRouterEngine: which models are configured, loaded and served under *)
(* concurrent requests, loads, unloads and settings reloads, and the final *)
(* close. A step is one section under _state_lock, or one step outside it. *)
(*                                                                         *)
(* An executor is what JobContract promises: it refuses jobs once shut     *)
(* down, fails the queued ones, and answers a job whose call has returned. *)
(* Building and cleaning a runtime is the backend's business: here it only *)
(* exists or does not. Calls that are refused without changing anything    *)
(* are left out.                                                           *)
(***************************************************************************)
EXTENDS Integers, FiniteSets, Functions

CONSTANTS
  Models,       \* names that may be configured
  Catalogs,     \* contents of engine.models a settings file may have
  Tunings,      \* [fairness, decoding] a settings file may have
  Replicas,     \* numbers of replicas a load may ask for
  Admins,       \* threads of load_model and unload_model
  Requests,     \* threads of complete and stream
  Streams,      \* the requests sent with stream
  MaxBuilds,    \* bound on the loads
  MaxReloads    \* bound on the settings reloads

ASSUME RouterAssumption ==
  /\ \A c \in Catalogs : DOMAIN c \subseteq Models
  /\ Catalogs # {} /\ Tunings # {}
  /\ Replicas \subseteq Nat \ {0}
  /\ Streams \subseteq Requests
  /\ MaxBuilds \in Nat /\ MaxReloads \in Nat

VARIABLES
  configured,   \* _configured_models: name -> [def, backend]
  tuning,       \* the settings every model shares: fairness and decoding
  states,       \* _model_states: name -> [lifecycle, inflight, effective, born]
  models,       \* _models: replica -> the load that built its runtime
  engineOf,     \* _model_engines: replica -> engine, named by its load
  replicaIds,   \* _loaded_replica_ids: name -> replicas
  engines,      \* _models of each backend engine: replica -> load
  registry,     \* _executors of the scheduler: name -> [id, engine, replicas]
  shut,         \* executors told to shut down
  alive,        \* runtimes that were built and not cleaned up
  builds,       \* number of loads so far
  reloads,      \* number of reloads so far
  admin,        \* each load or unload in progress
  request,      \* each request in progress
  closing       \* where close is, and the runtimes it has still to clean up

catalogVars == <<configured, tuning, reloads>>
tableVars   == <<models, engineOf, replicaIds, engines>>
execVars    == <<registry, shut>>
vars == <<catalogVars, states, tableVars, execVars, alive, builds, admin, request, closing>>

----------------------------------------------------------------------------

NoSettings == [def |-> "none", decoding |-> "none"]     \* effective_settings is None

NewState(n) ==
  [lifecycle |-> "unloaded", inflight |-> 0, effective |-> NoSettings, born |-> n]

Idle == [pc |-> "idle"]

Init ==
  /\ configured \in Catalogs
  /\ tuning \in Tunings
  /\ states = [m \in DOMAIN configured |-> NewState(0)]
  /\ models = << >> /\ engineOf = << >> /\ replicaIds = << >>
  /\ engines = [b \in 1..MaxBuilds |-> << >>]
  /\ registry = << >> /\ shut = {}
  /\ alive = {}
  /\ builds = 0 /\ reloads = 0
  /\ admin = [a \in Admins |-> Idle]
  /\ request = [q \in Requests |-> Idle]
  /\ closing = [pc |-> "open", runtimes |-> {}]

\* The server takes calls until it runs the application's shutdown handler.
Open == closing.pc = "open"

ReplicaIds(m, n) == {<<m, i>> : i \in 1..n}

Without(f, S) == Restrict(f, DOMAIN f \ S)

\* f with the value y at every element of S.
Put(f, S, y) == [x \in DOMAIN f \cup S |-> IF x \in S THEN y ELSE f[x]]

SetState(m, s) == states' = [states EXCEPT ![m] = s]

Become(a, pc) == admin' = [admin EXCEPT ![a].pc = pc]

Done(a) == admin' = [admin EXCEPT ![a] = Idle]

\* Variant: wakes nobody.
Notified_Nobody(calls) == calls

\* notify_all on _state_changed: an unload that waits looks at the requests again.
Notified(calls) ==
  [a \in Admins |-> IF calls[a].pc = "asleep" THEN [calls[a] EXCEPT !.pc = "drain"]
                                              ELSE calls[a]]

----------------------------------------------------------------------------
\* load_model

Loadable(m) == states[m].lifecycle \in {"unloaded", "failed"}

BeginLoad(a, m, n) ==
  /\ Open /\ admin[a] = Idle /\ builds < MaxBuilds
  /\ Loadable(m)
  /\ SetState(m, [states[m] EXCEPT !.lifecycle = "loading"])
  /\ builds' = builds + 1
  /\ admin' = [admin EXCEPT ![a] =
       [pc |-> "build", model |-> m, born |-> states[m].born, id |-> builds + 1,
        replicas |-> ReplicaIds(m, n), held |-> {}, backend |-> configured[m].backend,
        effective |-> [def |-> configured[m].def, decoding |-> tuning.decoding]]]
  /\ UNCHANGED <<catalogVars, tableVars, execVars, alive, request, closing>>

\* _apply_load_override raises after the lifecycle was set, outside the try.
BeginLoadBadOverride(a, m) ==
  /\ Open /\ admin[a] = Idle
  /\ Loadable(m)
  /\ SetState(m, [states[m] EXCEPT !.lifecycle = "loading"])
  /\ UNCHANGED <<catalogVars, tableVars, execVars, alive, builds, admin, request, closing>>

\* The constructor of the engine raises: for one, when it can build no replica.
BuildRaises(a) ==
  /\ admin[a].pc = "build"
  /\ Become(a, "fail")
  /\ UNCHANGED <<catalogVars, states, tableVars, execVars, alive, builds, request, closing>>

\* Variant: forgets the replicas that were built when one was not.
AfterBuild_Forgets(built, wanted) == IF built = wanted THEN "install" ELSE "fail"

AfterBuild(built, wanted) == IF built = wanted THEN "install" ELSE "clean"

\* The constructor returns an engine with the replicas it could build.
Build(a) ==
  /\ admin[a].pc = "build"
  /\ \E R \in (SUBSET admin[a].replicas) \ {{}} :
       LET b == admin[a].id
           new == {<<b, r>> : r \in R}
       IN  /\ alive' = alive \cup new
           /\ engines' = [engines EXCEPT ![b] = [r \in R |-> b]]
           /\ admin' = [admin EXCEPT ![a].pc = AfterBuild(R, admin[a].replicas),
                                     ![a].held = new]
  /\ UNCHANGED <<catalogVars, states, models, engineOf, replicaIds, execVars, builds,
                 request, closing>>

\* _cleanup_runtime for each runtime the call holds: what a partial load leaves,
\* and what unload_model has taken out of the tables.
Clean(a) ==
  /\ admin[a].pc \in {"clean", "reclaim"}
  /\ IF admin[a].held = {}
     THEN Become(a, IF admin[a].pc = "clean" THEN "fail" ELSE "unloaded")
          /\ UNCHANGED alive
     ELSE \E r \in admin[a].held :
            /\ alive' = alive \ {r}
            /\ admin' = [admin EXCEPT ![a].held = @ \ {r}]
  /\ UNCHANGED <<catalogVars, states, tableVars, execVars, builds, request, closing>>

LoadFails(a) ==
  /\ admin[a].pc = "fail"
  /\ LET m == admin[a].model IN SetState(m, [states[m] EXCEPT !.lifecycle = "failed"])
  /\ Done(a)
  /\ UNCHANGED <<catalogVars, tableVars, execVars, alive, builds, request, closing>>

\* Variant: every load keeps the engine it has built.
EnginesOf_None(backend) == {}

\* Engines that already serve the backend (_find_backend_engine_locked).
EnginesOf(backend) ==
  {engineOf[r] : r \in {s \in DOMAIN engineOf :
                          s[1] \in DOMAIN configured /\ configured[s[1]].backend = backend}}

\* The last section: publish the runtimes, register the executor, be loaded.
\* The registry refuses a name it already has, after the tables were changed.
Install(a) ==
  LET call == admin[a]
      m == call.model
      found == EnginesOf(call.backend)
  IN  /\ call.pc = "install"
      /\ \E e \in IF found = {} THEN {call.id} ELSE found :
           /\ models' = Put(models, call.replicas, call.id)
           /\ engineOf' = Put(engineOf, call.replicas, e)
           /\ replicaIds' = Put(replicaIds, {m}, call.replicas)
           /\ engines' = [engines EXCEPT ![e] = Put(@, call.replicas, call.id)]
           /\ IF m \in DOMAIN registry
              THEN UNCHANGED <<registry, states>>
              ELSE /\ registry' = Put(registry, {m}, [id |-> call.id, engine |-> e,
                                                      replicas |-> call.replicas])
                   /\ SetState(m, [states[m] EXCEPT !.lifecycle = "loaded",
                                                    !.effective = call.effective])
      /\ Done(a)
      /\ UNCHANGED <<catalogVars, shut, alive, builds, request, closing>>

----------------------------------------------------------------------------
\* unload_model

BeginUnload(a, m) ==
  /\ Open /\ admin[a] = Idle
  /\ states[m].lifecycle = "loaded"
  /\ SetState(m, [states[m] EXCEPT !.lifecycle = "unloading"])
  /\ admin' = [admin EXCEPT ![a] =
       [pc |-> "shut", model |-> m, born |-> states[m].born,
        executor |-> IF m \in DOMAIN registry THEN {registry[m].id} ELSE {},
        held |-> {}]]
  /\ UNCHANGED <<catalogVars, tableVars, execVars, alive, builds, request, closing>>

ShutExecutor(a) ==
  /\ admin[a].pc = "shut"
  /\ shut' = shut \cup admin[a].executor
  /\ Become(a, "drain")
  /\ UNCHANGED <<catalogVars, states, tableVars, registry, alive, builds, request, closing>>

\* Variant: does not wait for the requests.
MustWait_Never(m) == FALSE

MustWait(m) == states[m].inflight > 0

Sleep(a) ==
  /\ admin[a].pc = "drain"
  /\ MustWait(admin[a].model)
  /\ Become(a, "asleep")
  /\ UNCHANGED <<catalogVars, states, tableVars, execVars, alive, builds, request, closing>>

\* Variant: leaves the model's executor in the registry.
Unregister_Forgotten(m) == UNCHANGED registry

Unregister(m) == registry' = Without(registry, {m})

\* Still under the lock: take the model out of every table.
TakeOut(a) ==
  LET m == admin[a].model
      R == IF m \in DOMAIN replicaIds THEN replicaIds[m] ELSE {}
  IN  /\ admin[a].pc = "drain"
      /\ ~MustWait(m)
      /\ replicaIds' = Without(replicaIds, {m})
      /\ models' = Without(models, R)
      /\ engineOf' = Without(engineOf, R)
      /\ engines' = [e \in DOMAIN engines |->
                       Without(engines[e], {r \in R \cap DOMAIN engineOf : engineOf[r] = e})]
      /\ Unregister(m)
      /\ admin' = [admin EXCEPT ![a].pc = "reclaim",
                                ![a].held = {<<models[r], r>> : r \in R \cap DOMAIN models}]
      /\ UNCHANGED <<catalogVars, states, shut, alive, builds, request, closing>>

FinishUnload(a) ==
  /\ admin[a].pc = "unloaded"
  /\ LET m == admin[a].model
     IN  SetState(m, [states[m] EXCEPT !.lifecycle = "unloaded", !.effective = NoSettings])
  /\ admin' = Notified([admin EXCEPT ![a] = Idle])
  /\ UNCHANGED <<catalogVars, tableVars, execVars, alive, builds, request, closing>>

----------------------------------------------------------------------------
\* reload_settings

\* Variant: thinks a model that is being unloaded is not in use any more.
ActiveModels_NotUnloading ==
  {m \in DOMAIN states : states[m].lifecycle \in {"loading", "loaded"}}

ActiveModels ==
  {m \in DOMAIN states : states[m].lifecycle \notin {"unloaded", "failed"}}

\* _runtime_definition_changed: everything but enabled.
Changed(old, new) == old.def # new.def \/ old.backend # new.backend

Invalidates(catalog, m) == m \notin DOMAIN catalog \/ Changed(configured[m], catalog[m])

\* Variant: forgets the decoding defaults.
Conflict_NotDecoding(catalog, newTuning) ==
  \E m \in ActiveModels : newTuning.fairness # tuning.fairness \/ Invalidates(catalog, m)

\* Settings that would invalidate a model in use.
Conflict(catalog, newTuning) ==
  \E m \in ActiveModels : newTuning # tuning \/ Invalidates(catalog, m)

StatesAfter(catalog) ==
  [m \in DOMAIN catalog |->
     IF m \in DOMAIN configured /\ ~Changed(configured[m], catalog[m])
     THEN states[m] ELSE NewState(reloads + 1)]

Reload(catalog, newTuning) ==
  /\ Open /\ reloads < MaxReloads
  /\ ~Conflict(catalog, newTuning)
  /\ reloads' = reloads + 1
  /\ configured' = catalog
  /\ tuning' = newTuning
  /\ states' = StatesAfter(catalog)
  /\ IF newTuning.fairness = tuning.fairness
     THEN UNCHANGED execVars
     ELSE registry' = << >> /\ shut' = shut \cup {x.id : x \in Range(registry)}
  /\ UNCHANGED <<tableVars, alive, builds, admin, request, closing>>

----------------------------------------------------------------------------
\* complete and stream

Admit(q, m) ==
  /\ Open /\ request[q] = Idle
  /\ states[m].lifecycle = "loaded" /\ m \in DOMAIN registry
  /\ SetState(m, [states[m] EXCEPT !.inflight = @ + 1])
  /\ request' = [request EXCEPT ![q] =
       [pc |-> "admitted", model |-> m, executor |-> registry[m], runtime |-> <<>>]]
  /\ UNCHANGED <<catalogVars, tableVars, execVars, alive, builds, admin, closing>>

Move(q, pc) == request' = [request EXCEPT ![q].pc = pc]

RequestOnly ==
  UNCHANGED <<catalogVars, states, tableVars, execVars, alive, builds, admin, closing>>

\* enqueue, outside the lock: the executor may have been shut down meanwhile.
Enqueue(q) ==
  /\ request[q].pc = "admitted"
  /\ request[q].executor.id \notin shut
  /\ Move(q, "queued")
  /\ RequestOnly

\* model_unloading, or a full queue.
Refused(q) ==
  /\ request[q].pc = "admitted"
  /\ Move(q, "answered")
  /\ RequestOnly

\* The worker of the executor enters the backend, which looks up the replica.
Start(q) ==
  /\ request[q].pc = "queued"
  /\ \E r \in request[q].executor.replicas :
       LET e == request[q].executor.engine
       IN  IF r \in DOMAIN engines[e]
           THEN request' = [request EXCEPT ![q].pc = "running",
                                           ![q].runtime = <<engines[e][r], r>>]
           ELSE Move(q, "answered")
  /\ RequestOnly

\* Taken back by its client, or failed by the shutdown of the executor.
Drop(q) ==
  /\ request[q].pc = "queued"
  /\ q \in Streams \/ request[q].executor.id \in shut
  /\ Move(q, "answered")
  /\ RequestOnly

Return(q) ==
  /\ request[q].pc = "running"
  /\ request' = [request EXCEPT ![q].pc = "answered", ![q].runtime = <<>>]
  /\ RequestOnly

\* Variant: forgets every other request.
Released_All(s) == [s EXCEPT !.inflight = 0]

Released(s) == [s EXCEPT !.inflight = @ - 1]

\* _release_inflight_request.
Release(q) ==
  LET m == request[q].model
  IN  /\ request[q].pc = "answered"
      /\ IF m \in DOMAIN states /\ states[m].inflight > 0
         THEN SetState(m, Released(states[m])) /\ admin' = Notified(admin)
         ELSE UNCHANGED <<states, admin>>
      /\ request' = [request EXCEPT ![q] = Idle]
      /\ UNCHANGED <<catalogVars, tableVars, execVars, alive, builds, closing>>

----------------------------------------------------------------------------
\* close, when every call but a stream that its client has left is over

Left(q) == q \in Streams /\ request[q].pc \in {"queued", "running", "answered"}

CloseScheduler ==
  /\ Open
  /\ \A a \in Admins : admin[a] = Idle
  /\ \A q \in Requests : request[q] = Idle \/ Left(q)
  /\ registry' = << >>
  /\ shut' = shut \cup {x.id : x \in Range(registry)}
  /\ closing' = [closing EXCEPT !.pc = "clear"]
  /\ UNCHANGED <<catalogVars, states, tableVars, alive, builds, admin, request>>

CloseTables ==
  /\ closing.pc = "clear"
  /\ closing' = [pc |-> "clean", runtimes |-> {<<models[r], r>> : r \in DOMAIN models}]
  /\ models' = << >> /\ engineOf' = << >> /\ replicaIds' = << >>
  /\ states' = [m \in DOMAIN states |->
                  IF m \in ActiveModels
                  THEN [states[m] EXCEPT !.lifecycle = "unloaded", !.inflight = 0,
                                         !.effective = NoSettings]
                  ELSE states[m]]
  /\ UNCHANGED <<catalogVars, engines, execVars, alive, builds, admin, request>>

CloseClean ==
  /\ closing.pc = "clean"
  /\ IF closing.runtimes = {}
     THEN closing' = [closing EXCEPT !.pc = "closed"] /\ UNCHANGED alive
     ELSE \E r \in closing.runtimes :
            /\ alive' = alive \ {r}
            /\ closing' = [closing EXCEPT !.runtimes = @ \ {r}]
  /\ UNCHANGED <<catalogVars, states, tableVars, execVars, builds, admin, request>>

----------------------------------------------------------------------------

AdminStep(a) ==
  \/ BuildRaises(a) \/ Build(a) \/ Clean(a) \/ LoadFails(a) \/ Install(a)
  \/ ShutExecutor(a) \/ Sleep(a) \/ TakeOut(a) \/ FinishUnload(a)

RequestStep(q) ==
  Enqueue(q) \/ Refused(q) \/ Start(q) \/ Drop(q) \/ Return(q) \/ Release(q)

CloseStep == CloseTables \/ CloseClean

Next ==
  \/ \E a \in Admins, m \in DOMAIN configured :
       \/ \E n \in Replicas : BeginLoad(a, m, n)
       \/ BeginLoadBadOverride(a, m)
       \/ BeginUnload(a, m)
  \/ \E a \in Admins : AdminStep(a)
  \/ \E q \in Requests, m \in DOMAIN configured : Admit(q, m)
  \/ \E q \in Requests : RequestStep(q)
  \/ \E catalog \in Catalogs, newTuning \in Tunings : Reload(catalog, newTuning)
  \/ CloseScheduler
  \/ CloseStep

Spec == Init /\ [][Next]_vars

\* Threads that are running go on running: an engine's constructor returns, and
\* the executor answers what it has accepted. Nobody has to make a call.
Fairness ==
  /\ \A a \in Admins : WF_vars(AdminStep(a))
  /\ \A q \in Requests : WF_vars(RequestStep(q))
  /\ WF_vars(CloseStep)

FairSpec == Spec /\ Fairness

----------------------------------------------------------------------------
\* Properties

Lifecycles == {"unloaded", "loading", "loaded", "unloading", "failed"}
LoadSteps == {"build", "clean", "fail", "install"}
UnloadSteps == {"shut", "drain", "asleep", "reclaim", "unloaded"}

ReplicaSet == UNION {ReplicaIds(m, n) : m \in Models, n \in Replicas}
Runtimes == (1..MaxBuilds) \X ReplicaSet
Executors == [id : 1..MaxBuilds, engine : 1..MaxBuilds, replicas : SUBSET ReplicaSet]

IsCall(c) ==
  \/ c = Idle
  \/ /\ c.model \in Models /\ c.born \in Nat /\ c.held \subseteq Runtimes
     /\ \/ c.pc \in UnloadSteps /\ c.executor \subseteq 1..MaxBuilds
        \/ c.pc \in LoadSteps /\ c.id \in 1..builds /\ c.replicas \subseteq ReplicaSet

IsRequest(r) ==
  \/ r = Idle
  \/ /\ r.pc \in {"admitted", "queued", "running", "answered"}
     /\ r.model \in Models /\ r.executor \in Executors
     /\ r.runtime \in Runtimes \cup {<<>>}

\* Every variable has its type.
TypeOK ==
  /\ configured \in Catalogs /\ tuning \in Tunings
  /\ DOMAIN states = DOMAIN configured
  /\ \A m \in DOMAIN states :
       states[m].lifecycle \in Lifecycles /\ states[m].inflight \in Nat
  /\ DOMAIN models \subseteq ReplicaSet /\ Range(models) \subseteq 1..builds
  /\ DOMAIN engineOf \subseteq ReplicaSet /\ Range(engineOf) \subseteq 1..builds
  /\ DOMAIN replicaIds \subseteq Models /\ Range(replicaIds) \subseteq SUBSET ReplicaSet
  /\ \A e \in DOMAIN engines : Range(engines[e]) \subseteq 1..builds
  /\ DOMAIN registry \subseteq Models /\ Range(registry) \subseteq Executors
  /\ shut \subseteq 1..builds
  /\ alive \subseteq Runtimes
  /\ \A a \in Admins : IsCall(admin[a])
  /\ \A q \in Requests : IsRequest(request[q])
  /\ closing.pc \in {"open", "clear", "clean", "closed"} /\ closing.runtimes \subseteq Runtimes

\* A backend call never runs on a runtime that was cleaned up, nor on another
\* one than that of the load that admitted its request, as long as the server is
\* up: unload_model cleans up with no lock held, long after it stopped admission.
CallsOnLiveRuntimes ==
  Open =>
    \A q \in Requests :
      request[q].pc = "running" =>
        request[q].runtime \in alive /\ request[q].runtime[1] = request[q].executor.id

Admitted(m) == {q \in Requests : request[q] # Idle /\ request[q].model = m}

\* What unload_model waits for is exact, in whatever state object the requests
\* were counted: reloads replace state objects, and release looks them up again.
InflightExact ==
  Open => \A m \in DOMAIN states : states[m].inflight = Cardinality(Admitted(m))

\* A load or an unload that leaves the lock finds its model configured when it
\* comes back, with the very state object it has marked.
CallsKeepTheirState ==
  \A a \in Admins :
    admin[a] # Idle =>
      /\ admin[a].model \in DOMAIN states
      /\ states[admin[a].model].born = admin[a].born

Serving(m) == {r \in ReplicaSet : r[1] = m /\ r \in DOMAIN models}

\* The tables of the router, of its scheduler and of the backend engines are
\* changed at different times by different calls, and agree: a loaded model has
\* an open executor over live replicas that are all in its engine, and a model
\* that is not in use has nothing anywhere.
TablesAgree ==
  Open => \A m \in DOMAIN states :
    /\ states[m].lifecycle = "loaded" =>
         /\ m \in DOMAIN registry /\ registry[m].id \notin shut
         /\ Serving(m) # {} /\ Serving(m) = replicaIds[m] /\ Serving(m) = registry[m].replicas
         /\ \A r \in Serving(m) :
              /\ <<models[r], r>> \in alive
              /\ engineOf[r] = registry[m].engine
              /\ r \in DOMAIN engines[engineOf[r]] /\ engines[engineOf[r]][r] = models[r]
    /\ states[m].lifecycle \in {"unloaded", "failed", "loading"} =>
         Serving(m) = {} /\ m \notin DOMAIN registry /\ m \notin DOMAIN replicaIds

Held == UNION {admin[a].held : a \in {c \in Admins : admin[c] # Idle}}

\* No runtime is forgotten: one that was built and not cleaned up is in the
\* table of models or in the hands of a call that has still to place it or clean
\* it up, and none is left when close is done.
NoRuntimeLeaks ==
  alive \subseteq {<<models[r], r>> : r \in DOMAIN models} \cup Held \cup closing.runtimes

\* Concurrent loads and unloads of models of one backend leave it one engine.
OneEnginePerBackend ==
  \A r, s \in DOMAIN engineOf :
    r[1] \in DOMAIN configured /\ s[1] \in DOMAIN configured
      /\ configured[r[1]].backend = configured[s[1]].backend
    => engineOf[r] = engineOf[s]

\* A model in use runs the definition and the decoding defaults of the present
\* settings: no reload slips in between the two halves of a load.
RuntimeMatchesSettings ==
  \A m \in DOMAIN states :
    states[m].lifecycle \in {"loaded", "unloading"} =>
      states[m].effective = [def |-> configured[m].def, decoding |-> tuning.decoding]

\* Every load and unload ends, whatever other calls do meanwhile.
CallsFinish == \A a \in Admins : admin[a] # Idle ~> admin[a] = Idle

Loading(m) == {a \in Admins : admin[a].pc \in LoadSteps /\ admin[a].model = m}

\* The admin API's document says that in state loading "a runtime load has
\* started but is not complete yet" and that a load that fails leads to failed:
\* a model that is loading is being loaded by somebody.
LoadingIsInProgress ==
  \A m \in DOMAIN states : states[m].lifecycle = "loading" => Loading(m) # {}

============================================================================
