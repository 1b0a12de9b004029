------------------------------ MODULE Executor ------------------------------
(***************************************************************************)
(* LoadedModelExecutor with its _ReplicaExecutors: client threads that     *)
(* enqueue and cancel, the executor thread (_run_loop), one worker thread  *)
(* per submitted job (_run_job), and the threads that shut the executor    *)
(* down. A step is what a thread does while it holds one lock, or one step *)
(* outside every lock that other threads can see.                          *)
(*                                                                         *)
(* The queue is the pool of PendingPool, which FairQueue implements: here  *)
(* any waiting job may be the next one served. A thread's local variables  *)
(* go back to their first value when the thread is done with them.         *)
(***************************************************************************)
EXTENDS Integers, FiniteSets, Sequences

CONSTANTS
  Jobs, KeyOf, MaxPerKey, MaxTotal,   \* as in PendingPool
  Streams,      \* the jobs sent with enqueue_stream: only these can be cancelled
  Width,        \* number of replicas
  Target,       \* _effective_target_inflight of each replica
  Closers,      \* threads that call begin_shutdown: unload_model and close
  MaxCancels,   \* bound on the calls of cancel per stream
  NoJob

Replicas == 0..(Width - 1)

ASSUME ExecutorAssumption ==
  /\ IsFiniteSet(Jobs) /\ NoJob \notin Jobs
  /\ Streams \subseteq Jobs
  /\ Width \in Nat \ {0}
  /\ Target \in [Replicas -> Nat \ {0}]
  /\ MaxPerKey \in Nat \ {0} /\ MaxTotal \in Nat \ {0}
  /\ MaxCancels \in Nat

VARIABLES
  waiting, active,  \* the pool: _pending_queue
  stopping,     \* _stop_requested, and not _accepting_new_requests: set together
  roundRobin,   \* _round_robin_index
  loop,         \* where the executor thread is
  view,         \* replica snapshots it has taken under the condition
  picked,       \* selected_replica
  held,         \* the job it has popped and not handed over
  open,         \* _accepting_new_requests of each replica
  inflight,     \* _runtime_inflight of each replica
  worker,       \* where the worker thread of each job is
  slot,         \* the replica a job's worker runs on
  outcome,      \* result or error of _run_job, or the error submit raised
  future,       \* result_future of each job
  cancelled,    \* streams whose CancellationToken is set
  canceller,    \* where the call of cancel for each stream is
  cancels,      \* number of calls of cancel so far
  drained,      \* jobs each closer took out of the queue and has not failed yet
  toClose,      \* replicas each closer has still to shut down
  begun         \* closers that have called begin_shutdown

poolVars   == <<waiting, active>>
loopVars   == <<loop, view, picked, held, roundRobin>>
workerVars == <<worker, slot, outcome>>
cancelVars == <<cancelled, canceller, cancels>>
closeVars  == <<stopping, drained, toClose, begun>>
slotVars   == <<open, inflight>>
vars == <<poolVars, loopVars, workerVars, cancelVars, closeVars, slotVars, future>>

Pool == INSTANCE PendingPool

----------------------------------------------------------------------------

Init ==
  /\ Pool!Init
  /\ stopping = FALSE
  /\ roundRobin = 0
  /\ loop = "ready" /\ view = <<>> /\ picked = 0 /\ held = NoJob
  /\ open = [r \in Replicas |-> TRUE]
  /\ inflight = [r \in Replicas |-> 0]
  /\ worker = [j \in Jobs |-> "none"]
  /\ slot = [j \in Jobs |-> 0]
  /\ outcome = [j \in Jobs |-> "none"]
  /\ future = [j \in Jobs |-> "none"]
  /\ cancelled = {}
  /\ canceller = [j \in Streams |-> "idle"]
  /\ cancels = [j \in Streams |-> 0]
  /\ drained = [c \in Closers |-> {}]
  /\ toClose = [c \in Closers |-> {}]
  /\ begun = {}

\* The executor's condition is free: only the loop keeps it over several steps,
\* while it asks one replica after the other for a snapshot.
CanLock == loop # "scan"

\* Variant: forgets notify_all.
Wake_Nobody == UNCHANGED loop

\* notify_all on the executor's condition: the loop is the only waiter.
Wake == loop' = IF loop = "wait" THEN "ready" ELSE loop

\* set_result, set_exception and cancel leave a future that is done alone.
Answer(j, value) ==
  future' = [future EXCEPT ![j] = IF @ = "pending" THEN value ELSE @]

----------------------------------------------------------------------------
\* Clients

\* Variant: work is accepted whatever the executor's state.
Accepting_Always == TRUE

Accepting == ~stopping

\* enqueue and enqueue_stream raising model_unloading or a 429.
Refuse(j) ==
  /\ CanLock
  /\ future[j] = "none"
  /\ ~Accepting \/ Pool!KeyFull(j) \/ Pool!TotalFull
  /\ future' = [future EXCEPT ![j] = "refused"]
  /\ UNCHANGED <<poolVars, loopVars, workerVars, cancelVars, closeVars, slotVars>>

Enqueue(j) ==
  /\ CanLock
  /\ future[j] = "none"
  /\ Accepting
  /\ Pool!Admit(j)
  /\ future' = [future EXCEPT ![j] = "pending"]
  /\ Wake
  /\ UNCHANGED <<view, picked, held, roundRobin, workerVars, cancelVars, closeVars, slotVars>>

\* Variant: also takes back a job that was already popped.
CanTakeBack_Active(j) == j \in waiting \cup active

CanTakeBack(j) == j \in waiting

\* cancel, under the condition: take the job back if it still waits.
Cancel(j) ==
  /\ CanLock
  /\ canceller[j] = "idle" /\ cancels[j] < MaxCancels
  /\ future[j] \notin {"none", "refused"}
  /\ cancels' = [cancels EXCEPT ![j] = @ + 1]
  /\ canceller' = [canceller EXCEPT ![j] = IF CanTakeBack(j) THEN "removed" ELSE "signal"]
  /\ Pool!Withdraw(j)
  /\ Wake
  /\ UNCHANGED <<view, picked, held, roundRobin, workerVars, cancelled, closeVars,
                 slotVars, future>>

\* cancel, outside the lock: set the token, then cancel the future of a job taken back.
Signal(j) ==
  /\ canceller[j] \in {"removed", "signal"}
  /\ cancelled' = cancelled \cup {j}
  /\ canceller' = [canceller EXCEPT ![j] = IF @ = "removed" THEN "settle" ELSE "idle"]
  /\ UNCHANGED <<poolVars, loopVars, workerVars, cancels, closeVars, slotVars, future>>

CancelFuture(j) ==
  /\ canceller[j] = "settle"
  /\ Answer(j, "cancelled")
  /\ canceller' = [canceller EXCEPT ![j] = "idle"]
  /\ UNCHANGED <<poolVars, loopVars, workerVars, cancelled, cancels, closeVars, slotVars>>

----------------------------------------------------------------------------
\* The executor thread

Lock ==
  /\ loop = "ready"
  /\ loop' = "scan"
  /\ view' = <<>>
  /\ UNCHANGED <<poolVars, picked, held, roundRobin, workerVars, cancelVars, closeVars,
                 slotVars, future>>

\* One replica's snapshot, under that replica's own condition.
Scan ==
  /\ loop = "scan"
  /\ Len(view) < Width
  /\ view' = Append(view, [open     |-> open[Len(view)],
                           inflight |-> inflight[Len(view)]])
  /\ UNCHANGED <<poolVars, loop, picked, held, roundRobin, workerVars, cancelVars,
                 closeVars, slotVars, future>>

Scanned == loop = "scan" /\ Len(view) = Width

Seen(r) == view[r + 1]

\* Variant: counts a full replica as eligible.
Eligible_Full == {r \in Replicas : Seen(r).open /\ Seen(r).inflight <= Target[r]}

Eligible == {r \in Replicas : Seen(r).open /\ Seen(r).inflight < Target[r]}

LeastLoaded ==
  {r \in Eligible : \A o \in Eligible : Seen(r).inflight <= Seen(o).inflight}

\* Variant: the index runs past the last replica.
NextIndex_Unwrapped(r) == r + 1

NextIndex(r) == (r + 1) % Width

\* _pick_replica_locked: the first least loaded replica from the index on.
Distance(r) == (r - roundRobin + Width) % Width

Pick(r) ==
  /\ r \in LeastLoaded
  /\ \A o \in LeastLoaded : Distance(r) <= Distance(o)
  /\ roundRobin' = NextIndex(r)

\* Variant: does not wait for the calls in flight.
NothingLeft_InQueue == stopping /\ waiting = {}

NothingLeft ==
  /\ stopping
  /\ waiting = {}
  /\ \A r \in Replicas : Seen(r).inflight = 0

Exit ==
  /\ Scanned
  /\ NothingLeft
  /\ loop' = "exit"
  /\ view' = <<>>
  /\ UNCHANGED <<poolVars, picked, held, roundRobin, workerVars, cancelVars, closeVars,
                 slotVars, future>>

PopNext ==
  /\ Scanned
  /\ \E r \in Replicas : Pick(r) /\ picked' = r
  /\ \E j \in waiting : Pool!Pop(j) /\ held' = j
  /\ loop' = "reserve"
  /\ view' = <<>>
  /\ UNCHANGED <<workerVars, cancelVars, closeVars, slotVars, future>>

\* The replica is picked, and the index moved on, before the queue is looked at.
Wait ==
  /\ Scanned
  /\ ~NothingLeft
  /\ waiting = {} \/ Eligible = {}
  /\ IF Eligible = {} THEN UNCHANGED roundRobin ELSE \E r \in Replicas : Pick(r)
  /\ loop' = "wait"
  /\ view' = <<>>
  /\ UNCHANGED <<poolVars, picked, held, workerVars, cancelVars, closeVars, slotVars, future>>

\* submit, under the replica's condition.
Reserve ==
  /\ loop = "reserve"
  /\ IF open[picked] /\ inflight[picked] < Target[picked]
     THEN /\ inflight' = [inflight EXCEPT ![picked] = @ + 1]
          /\ loop' = "spawn"
          /\ UNCHANGED outcome
     ELSE /\ outcome' = [outcome EXCEPT ![held] = "unloading"]
          /\ loop' = "abandon"
          /\ UNCHANGED inflight
  /\ UNCHANGED <<poolVars, view, picked, held, roundRobin, worker, slot, cancelVars,
                 closeVars, open, future>>

Spawn ==
  /\ loop = "spawn"
  /\ worker' = [worker EXCEPT ![held] = "started"]
  /\ slot' = [slot EXCEPT ![held] = picked]
  /\ loop' = "ready"
  /\ held' = NoJob /\ picked' = 0
  /\ UNCHANGED <<poolVars, view, roundRobin, outcome, cancelVars, closeVars,
                 slotVars, future>>

\* worker.start raising: the slot is given back and the error goes to _run_loop.
SpawnFails ==
  /\ loop = "spawn"
  /\ inflight' = [inflight EXCEPT ![picked] = @ - 1]
  /\ outcome' = [outcome EXCEPT ![held] = "error"]
  /\ loop' = "abandon"
  /\ UNCHANGED <<poolVars, view, picked, held, roundRobin, worker, slot, cancelVars,
                 closeVars, open, future>>

Abandon ==
  /\ loop = "abandon"
  /\ Pool!Settle(held)
  /\ loop' = "fail"
  /\ UNCHANGED <<view, picked, held, roundRobin, workerVars, cancelVars, closeVars,
                 slotVars, future>>

Fail ==
  /\ loop = "fail"
  /\ Answer(held, outcome[held])
  /\ loop' = "ready"
  /\ held' = NoJob /\ picked' = 0
  /\ outcome' = [outcome EXCEPT ![held] = "none"]
  /\ UNCHANGED <<poolVars, view, roundRobin, worker, slot, cancelVars, closeVars, slotVars>>

----------------------------------------------------------------------------
\* Worker threads (_run_job)

\* A stream that was cancelled after its pop never reaches the backend.
Begin(j) ==
  /\ worker[j] = "started"
  /\ IF j \in cancelled
     THEN /\ worker' = [worker EXCEPT ![j] = "leaving"]
          /\ outcome' = [outcome EXCEPT ![j] = "aborted"]
     ELSE /\ worker' = [worker EXCEPT ![j] = "backend"]
          /\ UNCHANGED outcome
  /\ UNCHANGED <<poolVars, loopVars, slot, cancelVars, closeVars, slotVars, future>>

\* Variant: gives the slot back here as well as in finally.
Return_FreesSlot(j) ==
  /\ worker[j] = "backend"
  /\ \E o \in {"result", "error"} : outcome' = [outcome EXCEPT ![j] = o]
  /\ inflight' = [inflight EXCEPT ![slot[j]] = IF @ > 0 THEN @ - 1 ELSE @]
  /\ worker' = [worker EXCEPT ![j] = "leaving"]
  /\ UNCHANGED <<poolVars, loopVars, slot, cancelVars, closeVars, open, future>>

\* complete_fn or stream_fn returns or raises.
Return(j) ==
  /\ worker[j] = "backend"
  /\ \E o \in {"result", "error"} : outcome' = [outcome EXCEPT ![j] = o]
  /\ worker' = [worker EXCEPT ![j] = "leaving"]
  /\ UNCHANGED <<poolVars, loopVars, slot, cancelVars, closeVars, slotVars, future>>

\* Variant: answers the client before the executor knows the job is over.
Leave_Answers(j) ==
  /\ worker[j] = "leaving"
  /\ Answer(j, outcome[j])
  /\ inflight' = [inflight EXCEPT ![slot[j]] = IF @ > 0 THEN @ - 1 ELSE @]
  /\ worker' = [worker EXCEPT ![j] = "reporting"]
  /\ UNCHANGED <<poolVars, loopVars, slot, outcome, cancelVars, closeVars, open>>

\* finally, first lock: the replica's.
Leave(j) ==
  /\ worker[j] = "leaving"
  /\ inflight' = [inflight EXCEPT ![slot[j]] = IF @ > 0 THEN @ - 1 ELSE @]
  /\ worker' = [worker EXCEPT ![j] = "reporting"]
  /\ UNCHANGED <<poolVars, loopVars, slot, outcome, cancelVars, closeVars, open, future>>

\* finally, second lock: _notify_replica_completed.
Report(j) ==
  /\ CanLock
  /\ worker[j] = "reporting"
  /\ Pool!Settle(j)
  /\ Wake
  /\ worker' = [worker EXCEPT ![j] = "resolving"]
  /\ UNCHANGED <<view, picked, held, roundRobin, slot, outcome, cancelVars, closeVars,
                 slotVars, future>>

Resolve(j) ==
  /\ worker[j] = "resolving"
  /\ Answer(j, outcome[j])
  /\ worker' = [worker EXCEPT ![j] = "over"]
  /\ slot' = [slot EXCEPT ![j] = 0]
  /\ outcome' = [outcome EXCEPT ![j] = "none"]
  /\ UNCHANGED <<poolVars, loopVars, cancelVars, closeVars, slotVars>>

----------------------------------------------------------------------------
\* begin_shutdown

BeginShutdown(c) ==
  /\ CanLock
  /\ c \notin begun
  /\ begun' = begun \cup {c}
  /\ stopping' = TRUE
  /\ drained' = [drained EXCEPT ![c] = waiting]
  /\ Pool!DrainAll
  /\ toClose' = [toClose EXCEPT ![c] = Replicas]
  /\ Wake
  /\ UNCHANGED <<view, picked, held, roundRobin, workerVars, cancelVars, slotVars, future>>

CloseReplica(c) ==
  /\ \E r \in toClose[c] :
       /\ \A o \in toClose[c] : r <= o
       /\ open' = [open EXCEPT ![r] = FALSE]
       /\ toClose' = [toClose EXCEPT ![c] = @ \ {r}]
  /\ UNCHANGED <<poolVars, loopVars, workerVars, cancelVars, stopping, drained, begun,
                 inflight, future>>

\* The token and the future of one drained job, in any order of the jobs.
FailDrained(c) ==
  /\ toClose[c] = {}
  /\ \E j \in drained[c] :
       /\ cancelled' = cancelled \cup ({j} \cap Streams)
       /\ Answer(j, "unloading")
       /\ drained' = [drained EXCEPT ![c] = @ \ {j}]
  /\ UNCHANGED <<poolVars, loopVars, workerVars, canceller, cancels, stopping, toClose,
                 begun, slotVars>>

----------------------------------------------------------------------------

LoopStep ==
  \/ Lock \/ Scan \/ Exit \/ PopNext \/ Wait
  \/ Reserve \/ Spawn \/ SpawnFails \/ Abandon \/ Fail

WorkerStep(j) == Begin(j) \/ Return(j) \/ Leave(j) \/ Report(j) \/ Resolve(j)

CancelStep(j) == Signal(j) \/ CancelFuture(j)

CloseStep(c) == CloseReplica(c) \/ FailDrained(c)

Next ==
  \/ \E j \in Jobs : Refuse(j) \/ Enqueue(j) \/ WorkerStep(j)
  \/ \E j \in Streams : Cancel(j) \/ CancelStep(j)
  \/ LoopStep
  \/ \E c \in Closers : BeginShutdown(c) \/ CloseStep(c)

Spec == Init /\ [][Next]_vars

\* Threads that are running go on running, and backend calls return. Nobody has
\* to send, cancel or shut down.
Fairness ==
  /\ WF_vars(LoopStep)
  /\ \A j \in Jobs : WF_vars(WorkerStep(j))
  /\ \A j \in Streams : WF_vars(CancelStep(j))
  /\ \A c \in Closers : WF_vars(CloseStep(c))

FairSpec == Spec /\ Fairness

----------------------------------------------------------------------------
\* Properties

LoopStates == {"ready", "scan", "wait", "reserve", "spawn", "abandon", "fail", "exit"}
WorkerStates == {"none", "started", "backend", "leaving", "reporting", "resolving", "over"}
Outcomes == {"none", "result", "error", "aborted", "unloading"}
Futures == {"none", "refused", "pending", "result", "error", "aborted", "cancelled", "unloading"}

Snapshots == [open : BOOLEAN, inflight : Nat]

\* Every variable has its type.
TypeOK ==
  /\ waiting \subseteq Jobs /\ active \subseteq Jobs
  /\ stopping \in BOOLEAN
  /\ roundRobin \in Replicas
  /\ loop \in LoopStates
  /\ view \in Seq(Snapshots) /\ Len(view) <= Width
  /\ picked \in Replicas
  /\ held \in Jobs \cup {NoJob}
  /\ open \in [Replicas -> BOOLEAN]
  /\ inflight \in [Replicas -> Nat]
  /\ worker \in [Jobs -> WorkerStates]
  /\ slot \in [Jobs -> Replicas]
  /\ outcome \in [Jobs -> Outcomes]
  /\ future \in [Jobs -> Futures]
  /\ cancelled \subseteq Streams
  /\ canceller \in [Streams -> {"idle", "signal", "removed", "settle"}]
  /\ cancels \in [Streams -> 0..MaxCancels]
  /\ drained \in [Closers -> SUBSET Jobs]
  /\ toClose \in [Closers -> SUBSET Replicas]
  /\ begun \subseteq Closers

InWorker(j) == worker[j] \notin {"none", "over"}

TakenBack(j) == j \in Streams /\ canceller[j] \in {"removed", "settle"}

\* Who has to answer the future of j.
Owners(j) ==
  {o \in {"queue", "loop", "worker", "canceller"} :
     \/ o = "queue" /\ j \in waiting
     \/ o = "loop" /\ held = j
     \/ o = "worker" /\ InWorker(j)
     \/ o = "canceller" /\ TakenBack(j)}
  \cup {c \in Closers : j \in drained[c]}

\* Whatever way cancel, shutdown, submission and completion interleave, every
\* unanswered job is in exactly one thread's hands (so it cannot be lost, run
\* after it was taken back, or answered twice) and an answered one in nobody's
\* (so no result is swallowed by a future that is already done).
SoleOwner ==
  \A j \in Jobs :
    IF future[j] = "pending" THEN \E o \in Owners(j) : Owners(j) = {o}
                             ELSE Owners(j) = {}

HoldsSlot(r) ==
  {j \in Jobs : slot[j] = r /\ worker[j] \in {"started", "backend", "leaving"}}

\* A replica never has more calls than its effective target, although the loop
\* checks for a free slot long before it takes it and the counter is decremented
\* by other threads.
SlotsRespected ==
  \A r \in Replicas : Cardinality(HoldsSlot(r)) <= Target[r]

\* The fairness history has an active entry for exactly the jobs that were
\* popped and whose slot has not been reported free.
ActiveAgrees ==
  active = {j \in Jobs : \/ held = j /\ loop # "fail"
                         \/ worker[j] \in {"started", "backend", "leaving", "reporting"}}

\* A client that has its answer can rely on the job's slot and fairness entry
\* being gone: the next request it sends is judged without them.
ReleasedBeforeAnswered ==
  \A j \in Jobs :
    future[j] # "pending" =>
      j \notin active /\ \A r \in Replicas : j \notin HoldsSlot(r)

CanRun(r) == open[r] /\ inflight[r] < Target[r]

WakeupComing == \E j \in Jobs : worker[j] = "reporting"

\* The loop never sleeps on work it could start, nor on an executor that is
\* ready to stop, unless a worker that has freed its slot is about to notify it:
\* the slot is freed under another lock than the one the loop waits on.
NoLostWakeup ==
  loop = "wait" =>
    /\ waiting # {} /\ (\E r \in Replicas : CanRun(r)) => WakeupComing
    /\ stopping /\ (\A r \in Replicas : inflight[r] = 0) => WakeupComing

\* A client is told model_unloading only once the executor is shutting down: the
\* replica that was picked still has its slot free when submit looks again.
UnloadingOnlyWhenStopping ==
  \A j \in Jobs : future[j] = "unloading" \/ outcome[j] = "unloading" => stopping

\* When the loop has ended, nothing waits and no backend call is running or can
\* start, although the loop saw the replicas one after the other.
ExitIsFinal ==
  loop = "exit" =>
    /\ stopping /\ waiting = {} /\ held = NoJob
    /\ \A j \in Jobs : worker[j] \in {"none", "reporting", "resolving", "over"}

\* Every job that was admitted is answered, as long as backend calls return.
EveryJobAnswered ==
  \A j \in Jobs : (future[j] = "pending") ~> (future[j] # "pending")

\* Once shut down, the executor thread ends.
LoopStops == stopping ~> (loop = "exit")

\* The executor implements the contract with its clients.
Status ==
  [j \in Jobs |->
     IF future[j] = "none" THEN "new"
     ELSE IF future[j] # "pending" THEN future[j]
     ELSE IF worker[j] \in {"started", "backend", "leaving"} THEN "running"
     ELSE IF worker[j] \in {"reporting", "resolving"} THEN "served"
     ELSE "queued"]

\* One element for each call the replicas may run at the same time.
Slots == UNION {{r} \X (1..Target[r]) : r \in Replicas}

Contract == INSTANCE JobContract
              WITH status <- Status, closed <- stopping, Capacity <- Cardinality(Slots)
ImplementsContract == Contract!Spec

============================================================================
