# Verification of llm-pool

TLA+ models of the program in `src/`, checked with TLC and, where a theorem is
worth having for every size, proved with TLAPS. `PROJECT.json` lists the
components, the runs, the line of code each definition stands for, the hazards
of the code and the theorems. Source lines below are those of
`src/app/engine/` unless another path is given.

## The system

llm-pool is one process that serves several language models behind one HTTP
API. Everything runs in threads of that process; nothing is persisted.

| Part | State | Operations | What makes it correct |
|---|---|---|---|
| Fair queue, `_FairPendingQueue` (scheduler.py:170) | a bucket per fairness key: waiting jobs, running jobs with their pop times, service so far, idle time; `_pending_count` | `enqueue`, `pop_next`, `complete`, `abandon`, `remove`, `drain`; every read expires idle keys | limits hold, nothing is lost, FIFO per key, slot-time is shared by weight |
| Executor, `LoadedModelExecutor` with `_ReplicaExecutor`s (scheduler.py:385, 524) | the queue, per-replica counters and flags, one future per job, one cancellation token per stream | a loop thread that picks a replica and a job, a worker thread per job, `enqueue(_stream)`, `cancel`, `begin_shutdown`, `join` | each job is owned and answered by exactly one thread; slots are respected; no wake-up is lost; shutdown ends |
| Registry, `RuntimeScheduler` (scheduler.py:716) | executor of each loaded model | `register`, `get`, `unregister`, `close` | agrees with the router's tables |
| Router, `ModelRouterEngine` (router.py:116) | settings, lifecycle and inflight count of each model, tables of runtimes, engines and replicas | `load_model`, `unload_model`, `reload_settings`, `complete`, `stream`, `close` | requests only run on live runtimes; tables agree; nothing leaks; calls end |
| Streaming (`ScheduledStream`, `CancellationToken`, `_RoutedStream`, the generator of `src/app/main.py`:93, `VllmServeEngine.stream`) | event queue, future, token with an abort callback | `emit`, `poll`, `done`, `cancel`, `set_callback` | every delta before the end, one release, no connection left open, a client that leaves frees its slot |
| Forwarding backends (`vllm_serve`, `llama_server`, `sglang_serve`, `trtllm_serve`, `openai_remote`) | per runtime a server process, its port, log and generated file, or a remote endpoint; files uploaded for a request | `_build_runtime`, `_wait_until_ready`, `close`, `complete` | no process, file or call is forgotten; failures get the right status; everything ends |
| In-process backends (`llama_cpp`, `exllamav3`, `vllm`, `ct2`, `stub`) | library objects; a constant of llama.cpp that all models share | `_build_runtime`, `complete` | a model is loaded with the options asked for |
| Settings (`src/app/config.py`), load overrides (schema, router, constraints), admission | two files, one `ModelSettings` per model, the effective settings of a loaded one | `load_settings`, `_apply_load_override`, `_command`, `_admit_request_locked`, `_chat_completions_payload` | limits agree, what is asked for is launched, what is advertised is accepted, what is admitted has its effect |
| Other HTTP handlers, admin views, scripts | none, or per request | formatting | sequential; the unit tests reach it |

How they interact: a handler thread calls the router, which admits the request
under `_state_lock`, counts it, and hands it to the executor of the model
outside that lock. The executor's loop pops a job under the executor's
condition, reserves a slot under the condition of a replica and starts a worker
thread, which calls the backend. The worker frees the slot (replica's
condition), tells the queue (executor's condition), then resolves the future;
the handler wakes, or the future's callback runs, and the router decrements its
count (`_state_lock`) and notifies an unload that waits for it. Loads, unloads
and reloads run in other handler threads and leave the lock whenever they build,
wait or clean up.

Hard to test, and what the models are for: two locks around one fact (a slot is
freed under one condition and waited for on another), work done outside the lock
after a decision made inside it, times that are stale when they are used, cancel
against pop against shutdown, admin calls that overlap each other and requests,
processes that die, hang or ignore signals between any two steps of the thread
that starts or stops them, remote calls that fail half way, and settings that
pass through four representations in four files before a server is started with
them.

## Modules

| Module | Models |
|---|---|
| `PendingPool` | what the queue promises with no order and no time: admit under the limits, pop, settle, withdraw, drain |
| `FairQueue` | `_FairPendingQueue`, every operation that changes it, with the clock; implements `PendingPool` |
| `FairShare` | the queue under the executor's slots, with calls of bounded length, to say what fairness amounts to; what is checked of the queue is checked under this load |
| `JobContract` | what an executor promises its clients: the life of each job |
| `Executor` | loop, workers, cancelling and closing threads over the pool and the replicas; implements `JobContract` |
| `StreamCall` | one streamed response, from its handler to the vLLM server's stream, thread by thread |
| `Router` | the router's calls, one step per lock section, with each executor reduced to the contract |
| `ServeProcess` | the server processes: how a runtime is started, waited for and closed while the operating system lets processes fork, exit and listen |
| `Replies` | what each forwarding backend makes of an answer, or of its absence, up to the HTTP status |
| `Backend` | composes the two with calls: a completion on a server that may die, with the files of a remote one |
| `Settings` | the two settings files and the conversion of their fields |
| `LoadFields` | the fields of a load override in the schema, in the router's checks and in what is advertised |
| `LoadOptions` | composes the two: one model from its files through loads and reloads to its server's options and its requests |
| `LlamaCppLoad` | concurrent loads of models of llama.cpp and the constant they share |
| `ExecutorProofs` | theorems about types, slots and handing over in `Executor` |
| `ExecutorJobProofs` | who owns a job, the loop's sleep and its end, and that `Executor` implements `JobContract` (extends `ExecutorProofs`) |
| `FairQueueProofs` | the invariants of `FairQueue`, and that it implements `PendingPool` |
| `FairShareProofs` | what settling charges and what the order bounds (extends `FairQueueProofs`) |
| `LoadOptionsProofs` | that limits agree, that what is asked for is launched, that offers are accepted and that admitted controls are sent |
| `RouterProofs`, `BackendProofs`, `StreamCallProofs` | the invariants of these modules; `BackendProofs` covers `ServeProcess` and `Replies` |
| `MC*` | values for the constants; one `.cfg` per run |

**FairQueue.** `states` is `_states`, a function on the keys present; a state
record holds `fifo` (`pending_jobs`), `started` (`active_started_at`, by job
rather than by job id), `service` (`virtual_service_ms`), `activation`,
`lastPick` and `idle` (`idle_since`, -1 for `None`). Weights only divide, so the
model multiplies instead: `Rate[k]` stands for the inverse weight, and scores
are integers. The running part of a score, a sum over the active jobs of the time
since each was popped, is the number of pairs of a job and a tick it held its
slot (`Held`). The clock is `time.perf_counter()` in whole ticks. `complete` and
`abandon` are given times that lie between the job's pop and the call: they are
`\E`-bound, which includes every stale time another operation may have
overtaken. The rejection counters feed only the admin view and are left out.
The choice of `pop_next` is a predicate, `Selected`: a key with work that no
other such key precedes in rank.

**Executor.** `loop` is the program counter of the executor thread: `ready`
(about to take the condition), `scan` (holds it, asks replica after replica for
a snapshot into `view`), `wait`, then `reserve`, `spawn`, `abandon`, `fail` for
the sections of `submit` and of its handler. While `loop = "scan"` no other
thread can take the executor's condition (`CanLock`), but every thread can take
a replica's. `worker[j]` follows `_run_job`. The queue is the pool: the order in
which it pops is any order, which covers the fair one. The two scans of the loop
(for the exit test and for the choice) are one; `stopping` stands for
`_stop_requested` and the flag of new requests, which are set together; locals
that are dead are reset, so that states that differ in nothing are one state.
A drained job's token and future are settled in one step, since nobody else
writes that future. `slot`, `outcome` and `held` are locals of the threads.
`join` changes nothing, and its callers go on when its second is over.

**StreamCall.** Three threads meet in one response: the client's (handler, then
generator, then the `finally`s that cancel), the worker (`_run_job` around
`VllmServeEngine.stream`) and the one that shuts the executor down. `client` and
`worker` are their program counters, and a read of the token, the future or the
event queue is a step of its own wherever the code reads them one after the
other. Done callbacks are what they are in `concurrent.futures`: the thread that
completes the future runs them in the order of registration (`todo`), and one
that registers too late runs its own. The token's callback is taken under the
token's lock and runs after it (`aborting`). The server is free to send text, the
end or an error, or nothing for ever. A chunk is one delta; chunks without one
change nothing here, and trimming of white space is left out. `emit` refuses only
when the token is set, so that the `cancel` after a refused `emit` does nothing.
Until it is popped, taken back or drained the job is in the queue; everything
else about queue and slots is `Executor`'s. A client that leaves before the
generator's first step is answered by the `finally` of the response alone.

**Router.** A call of `load_model` or `unload_model` is a record in `admin` with
the locals that survive leaving the lock; a request is a record in `request`.
Each load has a number, which names the engine and the runtimes it builds, so
that a runtime of an earlier load is told from a new one of the same replica.
`born` tells state objects of one name apart. A runtime exists (`alive`) or does
not; `_cleanup_runtime` takes it out. Calls that are refused and change nothing
are left out. `IF m \in DOMAIN registry` in `Install` is `register` refusing a
name it knows; `TablesAgree` shows it cannot happen. `enabled` matters to the
admin view and at start only, and start is modelled as loads that may come in
any order. The ASGI server runs the shutdown handler (`src/app/main.py`:207)
when its requests are over; a stream whose client went away can be left behind,
and `Left` says so.

**ServeProcess, Replies, Backend.** A runtime is one object of one load, and
`phase` is where the thread that builds or closes it stands. The four server
backends share the module since their code is the same but for two things:
`sglang_serve` and `trtllm_serve` keep a log and signal a process group
(`Grouped`), and `trtllm_serve` writes a configuration. The write may fail, which
leaves an `"orphan"` whose name nobody knows, and so may its removal, which is
logged and not tried again (`"kept"`). `leader` is the child,
`workers` stands for all processes it starts. A process may exit at any time and
need not when it is asked to; `sent` remembers the signals, since what close can
promise is to have sent them. Time is left out: a timeout may be over whenever
what it waits for has not happened. Two runtimes may have the same port, because
both are configured with it or because a free port was picked by binding and
closing it; `ServerOf` is whoever listens, which need not be one's own child.
A call (`call`) is a thread in `complete`; `stored` is what has become of each
file at the remote service, whether or not the call knows. `Replies` has one
value for every case the code tells apart. A dropped connection
(`ConnectionResetError`, `IncompleteRead`) is raised by `urlopen` or `read`
after the request was sent, is no `URLError`, and is caught nowhere; `Unmapped`
is the bare 500 it ends in. The 500 `missing_api_key_env` of `_api_key` is left
out, because a load already checks the variable. Sampling of values is not needed in `Backend`: the
answers are chosen from all of `Replies` wherever one arrives.

**Settings, LoadFields, LoadOptions.** A field is a tagged value, so that a text
that looks like a number, a `null` and an absent field are three things.
`Fields[b]` gives for each field its default, the values that
`load_settings` takes and what it makes of them. A text is exact, blank or
loose, which is a spelling that the field's own conversion takes to the exact
one: capitals for most, surrounding blanks alone for `llama_server_spec_type`,
which is stripped and compared as it is. `f ++ g` is a table put over
another. The values are a constant: `ValuesAssumption` asks that they are tagged
as JSON tags them, and that the numbers in a text of cache bits are among the
numbers looked at. `ModelsAssumption` says of the models what `load_settings`
makes sure of (`src/app/config.py`:321 for the maximum of thinking tokens). `LoadFields` translates three
tables that the code keeps apart, `Schema`, `Overrides` and `Advertised`, and
`LoadOptions` relates them. `VllmOptions` and its siblings are the options of
the command line (or of the generated YAML, or of the library's constructor)
that a load can change; others only pass through. A load, an unload and a reload are one step, since their interleavings are
`Router`'s; `Reload` is refused while the model is in use, and stands for one
that is accepted. The admission of a request is modelled for the controls that
are forwarded; the checks of remote permission and of files, which only refuse,
are left out.

Three of the properties are stated with exceptions, which are what the code does
and not what one might expect; each is named in the comment of the property. The
ones worth knowing: an override of `sglang_chunked_prefill_size` of 0 lies
between the advertised bounds and is refused; the two cache bits of exllamav3 are
advertised one by one and accepted only together; a model with configured
reasoning efforts and a prompt format that cannot think accepts an effort,
forwards it as it is and sends no decision about thinking, while
`src/README.md`:268 says that an effort enables thinking; and `prompt_format` is
compared in lower case when thinking is admitted and exactly when `vllm_serve`
forwards it. The deletion of a remote file, "best-effort" in `src/README.md`:1103,
fails the request when the connection is dropped while its answer is awaited
(openai_remote.py:440), though the text was extracted. `LaunchedAsAsked` lets flash attention of llama.cpp be "auto" where
"off" was asked, which is the finding of `LlamaCppLoad`. `LimitsAgree` compares
the limit of the executor with the one the server is told; SGLang may run with
less (`docs/runtime-admin-api.md`:999). `FaultsAreUpstreams` permits, by name, the
bare 500 of a dropped connection.

**LlamaCppLoad.** The binding of llama.cpp has no way to say "auto"; the code
gives the constant for "off" that value for the time of a constructor. `disabled`
is that constant, `original` the local that is restored. The result is fed back
into `LoadOptions`, where a load with "off" may be launched with "auto".

Type invariants: every module with variables has one (`TypeOK`; `ProcTypeOK` for
the processes). `Executor`'s is checked by a run and proved; `StreamCall`'s and
`ServeProcess`'s are parts of proved invariants. The others document what the
variables are; they hold on the instances of the runs.

## Runs

| Run | Shows | Bounds |
|---|---|---|
| `fair_queue` | `CountAgrees`, `ActiveKept`, `IdleAgrees`, `FifoPerKey`, `SettlingNeverRaisesScore`, `LeadBounded`, `ImplementsPool` | 5 jobs of two keys whose weights are 3 to 1, 3 jobs of one of them, two slots, calls that take or are late by a tick, time to 4 with a grace period of 2, 2 jobs per key and 3 in all: several turns of both keys, two calls of one key at once, keys that go idle, expire and come back, and each limit binds without the other |
| `executor` | all safety properties and `ImplementsContract` | 2 replicas of one slot, 3 jobs (one a stream), limits of 1 and 2, one cancel, one shutdown: full queue, full replicas and an idle one, a loop that sleeps and is woken |
| `executor_live` | `EveryJobAnswered`, `LoopStops` | a job and a stream cancelled up to twice, 2 closers, one replica of one slot: everything that can end a job meets |
| `stream_call` | `CompletedMeansAll`, `ReleasedOnce`, `NothingLeftOpen`, `LeavingFreesSlot`, `AnswerArrives` | 2 chunks: one may still be in the queue while the next is put, and order can be told |
| `router` | `TablesAgree`, `NoRuntimeLeaks`, `OneEnginePerBackend` | 2 models of one backend, 1 or 2 replicas, 2 concurrent calls, 3 loads, 1 reload (a model removed or moved to another backend), 1 stream |
| `router_reload` | `CallsOnLiveRuntimes`, `InflightExact`, `CallsKeepTheirState`, `RuntimeMatchesSettings`, `CallsFinish` | 2 models, 1 admin call at a time, 2 reloads of any kind between its steps, 2 requests, 2 loads: an unload that waits for two requests while the catalogue changes |
| `router_stuck_load` | violates `LoadingIsInProgress` | one load with an override that is rejected |
| `backend` | `NoProcessEscapes`, `NothingLeftBehind`, `FilesSettled`, `FaultsAreUpstreams`, `EverythingEnds` | each forwarding backend alone, and two pairs that want one port (one pair with process groups, one without); one call with up to 2 files: a failure between files, and a server that another one stands in for |
| `backend_group` | violates `GroupIsTerminated` | as `backend` |
| `backend_config` | violates `ConfigIsCleanedUp` | as `backend` |
| `load_options` | `LimitsAgree`, `LaunchedAsAsked`, `AdvertisedIsAccepted`, `AdmittedReachesServer` | 11 models over 8 backends, each with one to three local files; overrides of every field with the limit, of a field of another backend, and of every set of fields that depend on one another; values on both sides of each bound of the three tables |
| `flash_attn` | violates `AutoForThisCallOnly` | 3 loads |

Two cancels per stream are what the HTTP layer makes at most: one in the
generator's `finally` and one in that of the response (`src/app/main.py`:173,
186). Deadlock is not checked, because every system here may stop: all jobs sent
and answered, bounds reached, or the server closed. Symmetry is used only over
jobs, requests or admin threads that differ in nothing, and never with liveness.

### Findings

`load_model` sets `lifecycle = "loading"` (router.py:389) and applies the load
override (392) before the `try` that would turn an error into `failed`. An
override the backend does not support raises `ValueError`, and the model stays
`loading` with nobody loading it: a later load returns its entry, an unload is
refused, and a reload of its definition conflicts. `docs/runtime-admin-api.md`
says of `loading` that "a runtime load has started but is not complete yet", and
that "if load fails, transition to `failed`". `router_stuck_load` shows it; in
all other runs of `Router` the same step is enabled, and the remaining
properties hold all the same.

`close` of a runtime with a process group waits, after SIGTERM, for the leader
only (trtllm_serve.py:79, sglang_serve.py:74). If the leader exits within the
grace period and a worker does not, close returns and nobody looks after the
worker, though a worker whose leader was dead before the close is waited for and
killed. `docs/trtllm-serve-backend.md`:29 says that the backend "terminates the
complete process group on unload or failed startup". `backend_group` shows it;
`NoProcessEscapes` says that this is the only way for a process to escape.

`_prepare_runtime_config` of `trtllm_serve` creates the generated configuration
with `delete=False` and writes it before the `try` that cleans up after a failed
start (trtllm_serve.py:341, 203), and returns its name only afterwards. If the
write or the flush fails, for instance on a full disk, the file stays and nobody
knows its name. A review in `docs/reviews/` (the findings of pull request 2, lines
276-281) looked at this cleanup and says that only a failure inside
`yaml.safe_dump` would leak, "which is not reachable with the values written
there": but the values are not all that can fail. `backend_config` shows it.
`NothingLeftBehind` says that this is the only way for a file not even to be
tried: once a name is known, its removal is. A removal that fails is logged
(lines 104-109, 219-224), and the file stays.

`_build_llama_with_auto_flash_attn` reads the constant it will restore before it
takes the lock (llama_cpp.py:504, 510). Of two loads with "auto" the second may
read the value the first has put there, and restore that: the constant keeps it,
and later loads with "off" get "auto". The comment says "for this constructor
call only". `flash_attn` shows it. A load with "off" takes no lock and gets
"auto" also while another load is under way.

### Fairness

Weak fairness of threads that have something to do: the loop, each worker
(a backend call returns, which the time limits of the backends are there for),
the rest of a `cancel` or of a `begin_shutdown` that has begun, a load or unload
that has begun, a request that was admitted. `StreamCall` assumes less: a worker
that waits for the server may wait for ever while its socket is open, and what
it shows of clients that leave does not rest on any timeout. `Backend` has
weak fairness of each thread that builds or closes a runtime and of each call,
because every wait in them has a timeout (`start_timeout_s`, `stop_timeout_s`,
the 5 seconds after SIGKILL, `timeout_s` of `urlopen`), and strong fairness of
the deadline of `_wait_until_ready`, which the loop tests in every round: a probe
that fails for ever must not keep it going. Nothing is assumed of processes,
which may ignore every signal. No fairness for clients and
administrators: nobody has to send, cancel, load, unload or close. Weak fairness
is enough because a thread that can run can always run until it does: the only
lock that is held over several steps is the loop's during a scan, which ends
after one step per replica. An operating system that lets a runnable thread take
a lock eventually provides it.

## Proofs

The theorems hold for every value of the constants that satisfies the
assumptions of the modules, which say no more than that the sets are finite
where something is counted and that limits and rates are numbers
(`ExecutorAssumption`: finitely many jobs, at least one replica, at least one
slot each; `QueueAssumption`; `ShareAssumption`; `RouterAssumption`;
`StreamAssumption`), or, for settings, what `load_settings` and JSON make sure of
(`ValuesAssumption`, `ModelsAssumption`). The
invariants and action properties below are those the runs check. The strengthened
invariants they rest on hold on the instances of the same runs, too, as TLC
confirms when they are put in the place of the properties.

**Executor.** `ExecutorProofs`: `TypeCorrect`, `SlotsAlwaysRespected`,
`UnloadingIsTrue`, from `Invariance` (`[]IndInv`). None of them is inductive.
That a slot is free when `submit` looks follows from what the loop saw earlier
only because nobody but the loop takes slots; that a counter never passes its
target needs the counter to be the number of slot holders; that a worker's
decrement is its own needs each job to have one place. `IndInv` says so in
parts: `Handover` (queue, loop and worker hold a job one at a time), `Decided` (a
thread about to answer knows the answer), `Counted` (each replica's counter is
the number of slot holders, the job between reservation and thread start
included, and at most the target) and `Foreseen` (what the loop has seen of a
replica is at least its present use, open unless stopping, and the replica it is
about to use has a free slot).

`ExecutorJobProofs`: `EveryJobHasOneOwner`, `ActiveIsExact`, `SlotIsFreeFirst`,
`NoWakeupIsLost`, and the action property `ExitIsForGood`, from `JobInvariance`.
It adds to `IndInv` that a job is unanswered exactly while a thread has it
(`Owned`), that no two have it (`Apart`), that a shut down queue stays empty
(`Drained`), and, for the wake-up that must not be lost between two locks, that
what the loop has seen in its scan is still true of every replica, or a worker is
about to notify (`Watched`): without it the loop could decide to sleep on a
snapshot that a worker has made false under the other lock.

At its end is `ExecutorKeepsContract`, the refinement of `JobContract`. Each step maps to a step in one job's life, to the closing, or to
a stutter. It needs two more facts. `Verdicts` says which outcome a job can have
where it is. `SlotIsSpare` says that when a thread is started fewer jobs run than
there are slots; `Counted` bounds each replica by itself, so the proof numbers
the jobs of all replicas by an injection into `Slots`, the pairs of a replica and
a number up to its target, whose cardinality is the contract's `Capacity`.

**FairQueue.** `FairQueueProofs`: `IdleKeysHaveNoWork`, `ActiveEntriesKept`,
`PendingCountIsExact`, `RefusalsAreJustified`, the action property
`KeysAreServedInOrder`, and `QueueIsAPool`, the refinement of `PendingPool` with
both limits, from `QueueInvariance`. The heart is `Shaped`: a key is idle exactly when nothing of
it waits or runs, so that the expiry that every read performs, at whatever stale
time, can only meet keys without work, and the work of all keys survives it
(`ForgettingKeepsWork`). FIFO needs buckets sorted by job id (`InOrder`), also
when a job is removed from the middle. The counter needs that no job stands in a
bucket twice, which follows from the same order. The limit per key is the length
of a bucket in the code and a cardinality in the pool; `BucketSize` relates them.
`FullnessIs` concludes that each check of `enqueue` is true exactly when its limit
is reached. The refinement needs one half of it, that nothing is admitted beyond a
limit. A refusal is a stutter there; that none is made without a reason is the
other half, which `ImplementsPool` asks for besides (`LimitsAreSeen`) and
`RefusalsAreJustified` proves. These theorems are about `FairQueue!Spec`, which pops
at any time and lets a call take any time; the run adds the load of an executor,
without which there is no bound on a lead.

`FairShareProofs`: the action property `SettlingIsNoSurcharge`, `LeadIsBounded`
for any number of keys, jobs and slots and any weights, and `SharedQueueIsAPool`.
Settling replaces an estimate by a measurement: the ticks of the job that leaves
are no fewer than those that `complete` or `abandon` adds to the service, since
the stopwatch starts no earlier than the pop (`Priced`). The bound on the lead is not
inductive, because the score of a key rises while its calls run. `ShareInv`
bounds its potential instead: the score it would have if each of its calls took
`MaxCall`. Time and settlements do not raise that, and a pop of the key raises it
by one longest call, just when the order has compared its score with that of
every waiting key; what is left between a score and a potential then is at most
a longest call for each slot. That the least score among the busy keys, where a
key that comes back starts, is one of their scores rests on the well-foundedness
of the subsets of a finite set. The assumptions are `QueueAssumption` and
`ShareAssumption`.

**Router.** `RouterProofs`: `TheTablesAgree`, `CallsRunOnLiveRuntimes`,
`NoRuntimeIsForgotten`, `OneEngineEach`, `InflightIsExact`, `StatesAreKept`,
`SettingsAreCurrent`, from `RouterInvariance`. Each of these properties is about
something that a call has decided in one lock section and relies on in a later
one. What makes that sound is stated in parts: a call in progress owns the state
object of its model, which nobody else changes, and the settings it has copied
are still the present ones (`Owned`); the name of an engine or executor is taken
once (`Named`); runtimes that are built and not installed, or taken out and not
cleaned up, are in the hands of one call and in no table (`InHand`); what is in
the tables belongs to a model that is loaded or unloading, and its executor,
engine and runtime are of one load (`Placed`); a request in progress is on the
executor of its model, and the count of each model is the number of its requests
(`Served`). Tables and requests are spoken of until the server closes: after
that only `NoRuntimeLeaks` says anything.

**Settings and loads.** `LoadOptionsProofs`: `LimitsAlwaysAgree`,
`LaunchedIsAsked`, `AdmittedAlwaysReaches` and `OfferIsAccepted`, from
`LoadInvariance` and the two assumptions of the modules: for any values, any
models over all ten backends, any local files and any override. The run looks at
eleven models and at overrides of two or three fields; the theorems at all of
them. The invariant `LoadInv` adds that a configured limit is a number whatever
the files say (`Settled`), that requests are admitted against the pixels the
server was launched for (`PixelsKept`), and that only a loaded model has sent
anything. The work is in the tables: `LoadPasses` follows a field from the
settings to the options of each backend, through the fields that speculation
leaves out, the draft tokens of sglang, the YAML file of trtllm and the mode of
flash attention of llama.cpp; `BackendOffers` compares the three tables of
overrides field by field. Each exception in the four properties turned up as a
case of these lemmas, and no other did.

**Processes and calls.** `BackendProofs` has no assumption: any number of
runtimes, ports, calls and files, any backend for each runtime.
`NoProcessIsForgotten` and `ClosedRuntimesAreTidy` follow from `ProcInvariance`,
which says for each step of the start and the close what the runtime knows of its
child and the child's group: a process may exit at any step and may fork until it
is dead, so that "the group is gone" is true only in the steps where close has
waited for it. `ClosedRuntimesAreTidy` says of log and configuration that an open
runtime has both and a closed one has settled both: the log is closed, the removal
of the configuration was tried, and a file nobody knows of belongs to a start that
never had a child. `NoFilePilesUp` and `FaultsArePutDownRightly` follow from
`CallInvariance`: which file is held at which step, and that a failure that is
kept over the deletion of the file is put down as it would have been at once. The
mapping of answers to outcomes is covered case by case by lemmas about the
operators of `Replies` (`OutcomeIsBlamedRightly`).

**Streaming.** `StreamCallProofs`, from `StreamAssumption` only (`MaxChunks` is a
number, so the stream may have any length): `CompletedResponsesAreWhole`,
`RequestIsReleasedOnce`, `ConnectionIsClosed`, from `StreamInvariance`. `Counted`
follows the callback that releases the request from list to list: at most one
thread owes it, and none once it was called. `Complete` says where each chunk is
(with the client, in the queue, or in the worker's hands), and that once the
future is done the client's look at the queue is final; it needs `Cut` (nobody
cancels but a client that is through, and a shutdown that has taken the job),
since a cancelled stream may drop chunks and still end.

**Only model-checked:**

- liveness under fairness, which is out of the prover's reach:
  `EveryJobAnswered`, `LoopStops`, `CallsFinish`, `LeavingFreesSlot`,
  `AnswerArrives`, `EverythingEnds`;
- the four properties that the code violates, whose runs are counterexamples.

## Not modelled

The text of messages and prompts, sampling parameters, token counts and other
metadata, the contents of the admin views, memory queries, the tokenization of
prompts, the environment of server processes, settings that only pass through,
and the scripts under `deploy/`: data that is copied, formatted or measured, and
decides nothing that other parts rely on. Generation in the in-process backends
is one call into a library under a lock of the runtime; what a model would say of
it is in the library. Two hazards of the code carry a note instead of a property:
a grace period that may be shorter than configured (scheduler.py:360), and the
event loop thread of an unloaded vLLM model (router.py:837). A third, a call left
behind at the end of the process (router.py:1515), the code accepts.

## Plan

1. `Router` over `JobContract` itself rather than over its steps, so that
   `ExecutorKeepsContract` carries over to what the router relies on.
2. A theorem for the repaired `LlamaCppLoad` (the constant is read under the
   lock), to be kept for the day the code is changed.
3. The fields of `src/app/config.py` that only pass through, if one of them
   comes to decide something.
