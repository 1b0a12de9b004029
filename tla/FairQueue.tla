----------------------------- MODULE FairQueue -----------------------------
(***************************************************************************)
(* _FairPendingQueue: one FIFO bucket per fairness key, and a choice of    *)
(* the next key by least weighted slot-time. Every operation runs under    *)
(* the executor's condition, so each one is a single action.               *)
(*                                                                         *)
(* Time is a discrete clock. A weight w is given by Rate, a whole multiple *)
(* of 1/w, so that scores stay integers. The rejection counters, which     *)
(* only the admin view reads, are left out.                                *)
(***************************************************************************)
EXTENDS Integers, FiniteSets, Sequences, SequencesExt

CONSTANTS
  Jobs, KeyOf, MaxPerKey, MaxTotal,   \* as in PendingPool
  Rate,         \* score gained by a key per unit of slot-time: 1 / weight
  SoftCap,      \* soft_max_inflight_per_key
  Ttl,          \* idle_state_ttl_s
  MaxTime       \* bound on the clock

Keys == {KeyOf[j] : j \in Jobs}

ASSUME QueueAssumption ==
  /\ IsFiniteSet(Jobs)
  /\ MaxPerKey \in Nat \ {0} /\ MaxTotal \in Nat \ {0}
  /\ Rate \in [Keys -> Nat \ {0}]
  /\ SoftCap \in Nat \ {0}
  /\ Ttl \in Nat \ {0}
  /\ MaxTime \in Nat

VARIABLES
  clock,            \* time.perf_counter()
  states,           \* _states: key -> _FairnessState, for the keys present
  pendingCount,     \* _pending_count
  jobId,            \* job_id of each job, 0 until it is enqueued
  nextJobId,        \* _next_job_id
  nextActivation,   \* _next_activation_order
  nextSelection,    \* _next_selection_order
  dequeuedAt        \* pop time of each job taken and not settled yet (dequeued_at)

vars == <<clock, states, pendingCount, jobId, nextJobId, nextActivation,
          nextSelection, dequeuedAt>>

----------------------------------------------------------------------------
\* Per-key state

\* The function f with f[x] set to y, whether or not x was in its domain.
With(f, x, y) == [z \in DOMAIN f \cup {x} |-> IF z = x THEN y ELSE f[z]]

NotIdle == -1       \* idle_since is None

Busy(s) == s.fifo # <<>> \/ DOMAIN s.started # {}

\* The seconds, each with its job, in which a job of the key held its slot so far.
Held(s, now) ==
  {p \in (DOMAIN s.started) \X (0 .. (now - 1)) : s.started[p[1]] <= p[2]}

\* How many they are: the sum of what max(0, now - started_at) is for each job.
Elapsed(s, now) == Cardinality(Held(s, now))

Score(k, s, now) == s.service + Rate[k] * Elapsed(s, now)

\* Variant: forgets the active jobs.
MarkIdle_NoWaiting(s, now) == IF s.fifo # <<>> THEN s ELSE [s EXCEPT !.idle = now]

MarkIdle(s, now) == IF Busy(s) THEN s ELSE [s EXCEPT !.idle = now]

Expired(s, now) == s.idle # NotIdle /\ now - s.idle >= Ttl

\* _states once _expire_idle_states has run.
Fresh(now) ==
  Restrict(states, {k \in DOMAIN states : ~Expired(states[k], now)})

Baseline(live, now) ==
  LET busy == {k \in DOMAIN live : Busy(live[k])}
  IN  IF busy = {} THEN 0 ELSE Min({Score(k, live[k], now) : k \in busy})

NewState(live, now) ==
  [fifo |-> <<>>, service |-> Baseline(live, now), started |-> << >>,
   activation |-> nextActivation, lastPick |-> 0, idle |-> NotIdle]

\* Variant: takes turns, whatever service the keys have had.
Rank_ByTurn(k, s, now) == <<0, 0, s.lastPick, s.activation>>

\* The tuple pop_next minimises.
Rank(k, s, now) ==
  <<Score(k, s, now),
    IF Cardinality(DOMAIN s.started) >= SoftCap THEN 1 ELSE 0,
    s.lastPick,
    s.activation>>

Precedes(p, q) ==
  \E i \in 1..4 : p[i] < q[i] /\ \A m \in 1..(i - 1) : p[m] = q[m]

\* k is the key pop_next serves: activation orders are distinct, so while a job
\* waits there is exactly one.
Selected(live, now, k) ==
  /\ live[k].fifo # <<>>
  /\ \A o \in DOMAIN live \ {k} :
       live[o].fifo # <<>> => Precedes(Rank(k, live[k], now), Rank(o, live[o], now))

----------------------------------------------------------------------------
\* Operations

Init ==
  /\ clock = 0
  /\ states = << >>
  /\ pendingCount = 0
  /\ jobId = [j \in Jobs |-> 0]
  /\ nextJobId = 1
  /\ nextActivation = 0
  /\ nextSelection = 1
  /\ dequeuedAt = << >>

\* Variant: counts the jobs that run, too.
KeyQueueFull_WithRunning(live, k) ==
  k \in DOMAIN live /\ Len(live[k].fifo) + Cardinality(DOMAIN live[k].started) >= MaxPerKey

KeyQueueFull(live, k) ==
  k \in DOMAIN live /\ Len(live[k].fifo) >= MaxPerKey

QueueFull == pendingCount >= MaxTotal

\* enqueue raising 429: the expiry has happened all the same.
Refuse(j) ==
  /\ jobId[j] = 0
  /\ KeyQueueFull(Fresh(clock), KeyOf[j]) \/ QueueFull
  /\ states' = Fresh(clock)
  /\ UNCHANGED <<clock, pendingCount, jobId, nextJobId, nextActivation,
                 nextSelection, dequeuedAt>>

\* Variant: puts the job at the head of its bucket.
Pushed_AtHead(s, j) == [s EXCEPT !.fifo = <<j>> \o @, !.idle = NotIdle]

\* Variant: a returning key keeps the time it went idle.
Pushed_StaysIdle(s, j) == [s EXCEPT !.fifo = Append(@, j)]

Pushed(s, j) == [s EXCEPT !.fifo = Append(@, j), !.idle = NotIdle]

Enqueue(j) ==
  LET k    == KeyOf[j]
      live == Fresh(clock)
      s    == IF k \in DOMAIN live THEN live[k] ELSE NewState(live, clock)
  IN  /\ jobId[j] = 0
      /\ ~KeyQueueFull(live, k)
      /\ ~QueueFull
      /\ states' = With(live, k, Pushed(s, j))
      /\ nextActivation' = IF k \in DOMAIN live THEN nextActivation
                                                ELSE nextActivation + 1
      /\ pendingCount' = pendingCount + 1
      /\ jobId' = [jobId EXCEPT ![j] = nextJobId]
      /\ nextJobId' = nextJobId + 1
      /\ UNCHANGED <<clock, nextSelection, dequeuedAt>>

Popped(s, j) ==
  [s EXCEPT !.fifo = Tail(@), !.started = With(@, j, clock),
            !.lastPick = nextSelection, !.idle = NotIdle]

\* pop_next as _run_loop calls it, with pending_count > 0.
PopNext ==
  LET live == Fresh(clock)
  IN  \E k \in DOMAIN live :
        LET j == Head(live[k].fifo)
        IN  /\ pendingCount > 0
            /\ Selected(live, clock, k)
            /\ states' = [live EXCEPT ![k] = Popped(@, j)]
            /\ nextSelection' = nextSelection + 1
            /\ pendingCount' = pendingCount - 1
            /\ dequeuedAt' = With(dequeuedAt, j, clock)
            /\ UNCHANGED <<clock, jobId, nextJobId, nextActivation>>

\* Variant: the active entry stays.
Dropped_Kept(s, j) == s

\* The key's state without the active entry of j.
Dropped(s, j) == [s EXCEPT !.started = Restrict(@, DOMAIN @ \ {j})]

Charged(s, amount) == [s EXCEPT !.service = @ + amount]

HasEntry(j) ==
  KeyOf[j] \in DOMAIN states /\ j \in DOMAIN states[KeyOf[j]].started

\* complete: the stopwatch ran from begin to end, somewhere between the pop and
\* this call; end, not the clock, is the time complete is told.
Complete(j, begin, end) ==
  LET k == KeyOf[j]
      s == Charged(Dropped(states[k], j), Rate[k] * (end - begin))
  IN  /\ j \in DOMAIN dequeuedAt
      /\ dequeuedAt[j] <= begin /\ begin <= end
      /\ states' = IF HasEntry(j) THEN [states EXCEPT ![k] = MarkIdle(s, end)] ELSE states
      /\ dequeuedAt' = Restrict(dequeuedAt, DOMAIN dequeuedAt \ {j})
      /\ UNCHANGED <<clock, pendingCount, jobId, nextJobId, nextActivation, nextSelection>>

\* abandon: the job leaves uncharged, at a time between the pop and this call.
Abandon(j, now) ==
  LET k == KeyOf[j]
  IN  /\ j \in DOMAIN dequeuedAt
      /\ dequeuedAt[j] <= now
      /\ states' = IF k \in DOMAIN states
                   THEN [states EXCEPT ![k] = MarkIdle(Dropped(@, j), now)]
                   ELSE states
      /\ dequeuedAt' = Restrict(dequeuedAt, DOMAIN dequeuedAt \ {j})
      /\ UNCHANGED <<clock, pendingCount, jobId, nextJobId, nextActivation, nextSelection>>

Plucked(s, i) == [s EXCEPT !.fifo = RemoveAt(@, i)]

\* remove, as cancel calls it for a job that is still in its bucket.
Withdraw(j) ==
  LET k == KeyOf[j]
  IN  /\ k \in DOMAIN states
      /\ \E i \in 1..Len(states[k].fifo) :
           /\ states[k].fifo[i] = j
           /\ states' = [states EXCEPT ![k] = MarkIdle(Plucked(@, i), clock)]
      /\ pendingCount' = pendingCount - 1
      /\ UNCHANGED <<clock, jobId, nextJobId, nextActivation, nextSelection, dequeuedAt>>

Emptied(s) == [s EXCEPT !.fifo = <<>>]

\* drain empties every bucket and restarts the grace period of every key.
Drain ==
  /\ states' = [k \in DOMAIN states |-> MarkIdle(Emptied(states[k]), clock)]
  /\ pendingCount' = 0
  /\ UNCHANGED <<clock, jobId, nextJobId, nextActivation, nextSelection, dequeuedAt>>

\* snapshots and score: reading the queue expires idle keys.
Observe ==
  /\ states' = Fresh(clock)
  /\ UNCHANGED <<clock, pendingCount, jobId, nextJobId, nextActivation,
                 nextSelection, dequeuedAt>>

Tick ==
  /\ clock < MaxTime
  /\ clock' = clock + 1
  /\ UNCHANGED <<states, pendingCount, jobId, nextJobId, nextActivation,
                 nextSelection, dequeuedAt>>

Next ==
  \/ \E j \in Jobs : Refuse(j) \/ Enqueue(j) \/ Withdraw(j)
  \/ PopNext
  \/ \E j \in Jobs, begin, end \in 0..clock : Complete(j, begin, end)
  \/ \E j \in Jobs, now \in 0..clock : Abandon(j, now)
  \/ Drain
  \/ Observe
  \/ Tick

Spec == Init /\ [][Next]_vars

----------------------------------------------------------------------------
\* Properties

Queued == UNION {ToSet(states[k].fifo) : k \in DOMAIN states}
Active == UNION {DOMAIN states[k].started : k \in DOMAIN states}

\* Every variable has its type, and a job sits in the state of its own key.
TypeOK ==
  /\ clock \in 0..MaxTime
  /\ DOMAIN states \subseteq Keys
  /\ \A k \in DOMAIN states :
       /\ states[k].fifo \in Seq({j \in Jobs : KeyOf[j] = k})
       /\ states[k].service \in Nat
       /\ DOMAIN states[k].started \subseteq {j \in Jobs : KeyOf[j] = k}
       /\ \A j \in DOMAIN states[k].started : states[k].started[j] \in 0..clock
       /\ states[k].activation \in 0..(nextActivation - 1)
       /\ states[k].lastPick \in 0..(nextSelection - 1)
       /\ states[k].idle \in {NotIdle} \cup 0..clock
  /\ pendingCount \in Nat
  /\ jobId \in [Jobs -> 0..(nextJobId - 1)]
  /\ DOMAIN dequeuedAt \subseteq Jobs
  /\ \A j \in DOMAIN dequeuedAt : dequeuedAt[j] \in 0..clock

\* _pending_count, which the executor's loop and the total limit read, is the
\* number of jobs in the buckets, where no job stands twice; were it larger,
\* _run_loop would spin on a pop_next that returns None, and were it smaller,
\* jobs would wait for ever.
CountAgrees ==
  /\ pendingCount = Cardinality(Queued)
  /\ \A k \in DOMAIN states : IsInjective(states[k].fifo)

\* Expiring idle history never discards a key that still has work: every job
\* taken by the executor keeps its active entry, with its own pop time, until
\* it is settled, whatever order the operations and the stale times of complete
\* come in, and no other job has an entry.
ActiveKept ==
  /\ Active = DOMAIN dequeuedAt
  /\ \A j \in Active : states[KeyOf[j]].started[j] = dequeuedAt[j]

\* A key is idle exactly when it has neither a waiting nor an active job, so
\* that only such a key can expire.
IdleAgrees ==
  \A k \in DOMAIN states : (states[k].idle = NotIdle) <=> Busy(states[k])

\* Jobs of one key are popped in the order they were admitted, also when jobs
\* between them are withdrawn.
FifoPerKey ==
  [][\A j \in DOMAIN dequeuedAt' \ DOMAIN dequeuedAt :
       \A i \in Queued' : KeyOf[i] = KeyOf[j] => jobId[j] < jobId[i]]_vars

\* Settling a job never makes its key look more expensive than it did while
\* the job ran: the charge replaces the running estimate and is not added to it.
SettlingNeverRaisesScore ==
  [][\A j \in DOMAIN dequeuedAt \ DOMAIN dequeuedAt' :
       LET k == KeyOf[j]
       IN  Score(k, states[k], clock)' <= Score(k, states[k], clock)]_vars

Pool == INSTANCE PendingPool WITH waiting <- Queued, active <- Active

\* Each of the two checks of enqueue on a job is true exactly when its limit is reached:
\* what they read, a bucket among the keys that have not expired and a counter, tells
\* how many jobs wait, of the key and in all.
LimitsAreSeen(j) ==
  /\ KeyQueueFull(Fresh(clock), KeyOf[j]) <=> Pool!KeyFull(j)
  /\ QueueFull <=> Pool!TotalFull

\* The queue is the pool the executor is specified on: its jobs move as those of the
\* pool do, and it turns a job away, which changes nothing there, only when the pool
\* has no room for it.
ImplementsPool == Pool!Spec /\ [](\A j \in Jobs : LimitsAreSeen(j))

============================================================================
