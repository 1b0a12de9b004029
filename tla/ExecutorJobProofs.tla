-------------------------- MODULE ExecutorJobProofs --------------------------
(***************************************************************************)
(* Theorems about Executor that follow a job from thread to thread, and    *)
(* the loop to its sleep and its end, for any number of jobs, replicas,    *)
(* slots and closing threads. They strengthen the invariant of             *)
(* ExecutorProofs with                                                     *)
(*   Owned      a job is unanswered exactly while some thread has it;      *)
(*   Apart      no two threads have it;                                    *)
(*   Drained    a shut down queue stays empty, and a closer that has not   *)
(*              begun holds nothing;                                       *)
(*   ActiveAgrees, ExitIsFinal and NoLostWakeup themselves;                *)
(*   Watched    what the loop has seen is still true of the free slots,    *)
(*              unless a worker is about to notify it.                     *)
(*                                                                         *)
(* The last part shows that Executor implements JobContract: every step of *)
(* a thread is a step in the life of one job as its client sees it, the    *)
(* closing of the executor, or nothing the clients can see. That needs two *)
(* facts more:                                                             *)
(*   Verdicts      which outcome a job can have where it is, so that no    *)
(*                 worker says model_unloading and only streams end        *)
(*                 aborted;                                                *)
(*   SlotIsSpare   when a thread is about to be started, fewer jobs run    *)
(*                 than there are slots: the jobs that hold a slot can be  *)
(*                 numbered, replica by replica.                           *)
(***************************************************************************)
EXTENDS ExecutorProofs, FunctionTheorems

InDrain(j) == \E c \in Closers : j \in drained[c]

Kept(j) == j \in waiting \/ held = j \/ InWorker(j) \/ TakenBack(j) \/ InDrain(j)

Owned == \A j \in Jobs : (future[j] = "pending") <=> Kept(j)

Apart ==
  \A j \in Jobs :
    /\ j \in waiting => held # j /\ ~InWorker(j) /\ ~TakenBack(j) /\ ~InDrain(j)
    /\ held = j => ~InWorker(j) /\ ~TakenBack(j) /\ ~InDrain(j)
    /\ InWorker(j) => ~TakenBack(j) /\ ~InDrain(j)
    /\ TakenBack(j) => ~InDrain(j)
    /\ \A c, d \in Closers : j \in drained[c] /\ j \in drained[d] => c = d

Drained ==
  /\ stopping => waiting = {}
  /\ \A c \in Closers : c \notin begun => drained[c] = {}

Watched ==
  loop = "scan" =>
    \/ WakeupComing
    \/ \A r \in Replicas : r < Len(view) => /\ inflight[r] = Seen(r).inflight
                                            /\ open[r] => Seen(r).open

OwnerInv == Owned /\ Apart /\ Drained

JobInv == IndInv /\ OwnerInv /\ ActiveAgrees /\ ExitIsFinal /\ Watched /\ NoLostWakeup

----------------------------------------------------------------------------
\* Who has a job

\* At first no thread has a job.
LEMMA InitOwner == Init => OwnerInv
BY ExecutorAssumption
   DEF Init, Pool!Init, OwnerInv, Owned, Apart, Drained, Kept, InWorker, TakenBack, InDrain

\* Every step hands a job from one owner to at most one other.
LEMMA NextOwner == TypeOK /\ Handover /\ OwnerInv /\ [Next]_vars => OwnerInv'
<1> SUFFICES ASSUME TypeOK, Handover, OwnerInv, [Next]_vars PROVE OwnerInv'
  OBVIOUS
<1> USE ExecutorAssumption
    DEF OwnerInv, Owned, Apart, Drained, Kept, InWorker, TakenBack, InDrain,
        poolVars, loopVars, workerVars, cancelVars, closeVars, slotVars
<1>1. ASSUME NEW j \in Jobs, Refuse(j) PROVE OwnerInv'
  BY <1>1 DEF Refuse, TypeOK
<1>2. ASSUME NEW j \in Jobs, Enqueue(j) PROVE OwnerInv'
  BY <1>2 DEF Enqueue, Accepting, Wake, Pool!Admit, TypeOK
<1>3. ASSUME NEW j \in Jobs, Begin(j) PROVE OwnerInv'
  <2>1. \A k \in Jobs : InWorker(k)' <=> InWorker(k)
    BY <1>3 DEF Begin, TypeOK
  <2> QED
    BY <1>3, <2>1 DEF Begin
<1>4. ASSUME NEW j \in Jobs, Return(j) PROVE OwnerInv'
  BY <1>4 DEF Return, TypeOK
<1>5. ASSUME NEW j \in Jobs, Leave(j) PROVE OwnerInv'
  BY <1>5 DEF Leave, TypeOK
<1>6. ASSUME NEW j \in Jobs, Report(j) PROVE OwnerInv'
  BY <1>6 DEF Report, Wake, Pool!Settle, TypeOK
<1>7. ASSUME NEW j \in Jobs, Resolve(j) PROVE OwnerInv'
  <2>1. InWorker(j) /\ ~InWorker(j)'
    BY <1>7 DEF Resolve, TypeOK
  <2>2. j \notin waiting /\ held # j /\ ~TakenBack(j) /\ ~InDrain(j) /\ future[j] = "pending"
    BY <2>1
  <2>3. \A k \in Jobs \ {j} : InWorker(k)' <=> InWorker(k)
    BY <1>7 DEF Resolve, TypeOK
  <2>4. \A k \in Jobs : (TakenBack(k)' <=> TakenBack(k)) /\ (InDrain(k)' <=> InDrain(k))
    BY <1>7 DEF Resolve
  <2>5. future' = [future EXCEPT ![j] = outcome[j]] /\ outcome[j] # "pending"
    BY <1>7, <2>2 DEF Resolve, Answer, TypeOK, Outcomes
  <2> HIDE DEF InWorker, TakenBack, InDrain
  <2>6. Owned'
    BY <1>7, <2>1, <2>2, <2>3, <2>4, <2>5 DEF Resolve, TypeOK
  <2>7. Apart'
    BY <1>7, <2>1, <2>2, <2>3, <2>4 DEF Resolve
  <2> QED
    BY <1>7, <2>6, <2>7 DEF Resolve
<1>8. ASSUME NEW j \in Streams, Cancel(j) PROVE OwnerInv'
  <2>1. Owned'
    BY <1>8 DEF Cancel, CanTakeBack, Wake, Pool!Withdraw, TypeOK
  <2>2. Apart'
    BY <1>8 DEF Cancel, CanTakeBack, Wake, Pool!Withdraw, TypeOK
  <2> QED
    BY <1>8, <2>1, <2>2 DEF Cancel, Pool!Withdraw
<1>9. ASSUME NEW j \in Streams, Signal(j) PROVE OwnerInv'
  BY <1>9 DEF Signal, TypeOK
<1>10. ASSUME NEW j \in Streams, CancelFuture(j) PROVE OwnerInv'
  BY <1>10 DEF CancelFuture, Answer, TypeOK
<1>11. CASE Lock \/ Scan \/ Exit \/ Wait
  BY <1>11 DEF Lock, Scan, Exit, Wait
<1>12. CASE PopNext
  BY <1>12 DEF PopNext, Scanned, Handover, Carrying, Pool!Pop, TypeOK
<1>13. CASE Reserve
  BY <1>13 DEF Reserve
<1>14. CASE Spawn
  BY <1>14 DEF Spawn, Handover, Carrying, TypeOK
<1>15. CASE SpawnFails
  BY <1>15 DEF SpawnFails
<1>16. CASE Abandon
  BY <1>16 DEF Abandon, Pool!Settle
<1>17. CASE Fail
  <2>1. held \in Jobs /\ held' \notin Jobs
    BY <1>17 DEF Fail, Handover, Carrying
  <2>2. held \notin waiting /\ ~InWorker(held) /\ ~TakenBack(held) /\ ~InDrain(held)
    BY <2>1
  <2>3. \A k \in Jobs : /\ InWorker(k)' <=> InWorker(k)
                        /\ TakenBack(k)' <=> TakenBack(k)
                        /\ InDrain(k)' <=> InDrain(k)
    BY <1>17 DEF Fail
  <2>4. future' = [future EXCEPT ![held] = outcome[held]] /\ outcome[held] # "pending"
    BY <1>17, <2>1 DEF Fail, Answer, TypeOK, Outcomes
  <2> HIDE DEF InWorker, TakenBack, InDrain
  <2>5. Owned'
    BY <1>17, <2>1, <2>2, <2>3, <2>4 DEF Fail, TypeOK
  <2>6. Apart'
    BY <1>17, <2>1, <2>3 DEF Fail
  <2> QED
    BY <1>17, <2>5, <2>6 DEF Fail
<1>18. ASSUME NEW c \in Closers, BeginShutdown(c) PROVE OwnerInv'
  BY <1>18 DEF BeginShutdown, Wake, Pool!DrainAll, TypeOK
<1>19. ASSUME NEW c \in Closers, CloseReplica(c) PROVE OwnerInv'
  BY <1>19 DEF CloseReplica
<1>20. ASSUME NEW c \in Closers, FailDrained(c) PROVE OwnerInv'
  BY <1>20 DEF FailDrained, Answer, TypeOK
<1>21. CASE UNCHANGED vars
  BY <1>21 DEF vars
<1> QED
  BY <1>1, <1>2, <1>3, <1>4, <1>5, <1>6, <1>7, <1>8, <1>9, <1>10, <1>11, <1>12,
     <1>13, <1>14, <1>15, <1>16, <1>17, <1>18, <1>19, <1>20, <1>21
     DEF Next, LoopStep, WorkerStep, CancelStep, CloseStep

----------------------------------------------------------------------------
\* The fairness history's active entries

\* Only pop_next, complete and abandon change the active entries.
LEMMA NextActiveAgrees ==
  TypeOK /\ Handover /\ ActiveAgrees /\ [Next]_vars => ActiveAgrees'
<1> SUFFICES ASSUME TypeOK, Handover, ActiveAgrees, [Next]_vars PROVE ActiveAgrees'
  OBVIOUS
<1> USE ExecutorAssumption
    DEF ActiveAgrees, poolVars, loopVars, workerVars, cancelVars, closeVars, slotVars
<1>1. ASSUME NEW j \in Jobs, Refuse(j) PROVE ActiveAgrees'
  BY <1>1 DEF Refuse
<1>2. ASSUME NEW j \in Jobs, Enqueue(j) PROVE ActiveAgrees'
  BY <1>2 DEF Enqueue, Wake, Pool!Admit
<1>3. ASSUME NEW j \in Jobs, Begin(j) \/ Return(j) \/ Leave(j) PROVE ActiveAgrees'
  BY <1>3 DEF Begin, Return, Leave, TypeOK
<1>4. ASSUME NEW j \in Jobs, Report(j) PROVE ActiveAgrees'
  BY <1>4 DEF Report, Wake, Pool!Settle, Handover, TypeOK
<1>5. ASSUME NEW j \in Jobs, Resolve(j) PROVE ActiveAgrees'
  BY <1>5 DEF Resolve, TypeOK
<1>6. ASSUME NEW j \in Streams, Cancel(j) PROVE ActiveAgrees'
  BY <1>6 DEF Cancel, Wake, Pool!Withdraw
<1>7. ASSUME NEW j \in Streams, CancelStep(j) PROVE ActiveAgrees'
  BY <1>7 DEF CancelStep, Signal, CancelFuture
<1>8. CASE Lock \/ Scan \/ Exit \/ Wait
  BY <1>8 DEF Lock, Scan, Exit, Wait, Scanned
<1>9. CASE PopNext
  BY <1>9 DEF PopNext, Scanned, Pool!Pop, Handover, Carrying, TypeOK
<1>10. CASE Reserve \/ SpawnFails
  BY <1>10 DEF Reserve, SpawnFails
<1>11. CASE Spawn
  BY <1>11 DEF Spawn, Handover, Carrying, TypeOK
<1>12. CASE Abandon
  BY <1>12 DEF Abandon, Pool!Settle, Handover, Carrying
<1>13. CASE Fail
  BY <1>13 DEF Fail
<1>14. ASSUME NEW c \in Closers, BeginShutdown(c) PROVE ActiveAgrees'
  BY <1>14 DEF BeginShutdown, Wake, Pool!DrainAll
<1>15. ASSUME NEW c \in Closers, CloseStep(c) PROVE ActiveAgrees'
  BY <1>15 DEF CloseStep, CloseReplica, FailDrained
<1>16. CASE UNCHANGED vars
  BY <1>16 DEF vars
<1> QED
  BY <1>1, <1>2, <1>3, <1>4, <1>5, <1>6, <1>7, <1>8, <1>9, <1>10, <1>11, <1>12,
     <1>13, <1>14, <1>15, <1>16 DEF Next, LoopStep, WorkerStep

----------------------------------------------------------------------------
\* The end of the loop

\* A counter at zero means that no worker is before or in its backend call on it.
LEMMA NobodyRuns ==
  ASSUME TypeOK, Counted, \A r \in Replicas : inflight[r] = 0
  PROVE  \A j \in Jobs : worker[j] \notin Running
<1> SUFFICES ASSUME NEW j \in Jobs, worker[j] \in Running PROVE FALSE
  OBVIOUS
<1>1. slot[j] \in Replicas /\ j \in Occupants(slot[j])
  BY DEF TypeOK, Occupants
<1>2. Cardinality(Occupants(slot[j])) = 0
  BY <1>1 DEF Counted
<1> QED
  BY <1>1, <1>2, OccupantsFinite, FS_EmptySet

\* After the loop's return there is nothing left that could be popped.
LEMMA NextExitIsFinal ==
  IndInv /\ Drained /\ ExitIsFinal /\ [Next]_vars => ExitIsFinal'
<1> SUFFICES ASSUME IndInv, Drained, ExitIsFinal, [Next]_vars PROVE ExitIsFinal'
  OBVIOUS
<1> USE DEF ExitIsFinal, poolVars, loopVars, workerVars, cancelVars, closeVars, slotVars
<1>0. TypeOK /\ Handover /\ Counted /\ Foreseen
  BY DEF IndInv
<1>1. ASSUME NEW j \in Jobs, Refuse(j) \/ Enqueue(j) PROVE ExitIsFinal'
  BY <1>1 DEF Refuse, Enqueue, Accepting, Wake
<1>2. ASSUME NEW j \in Jobs, WorkerStep(j) PROVE ExitIsFinal'
  BY <1>0, <1>2
     DEF WorkerStep, Begin, Return, Leave, Report, Resolve, Wake, Pool!Settle, TypeOK
<1>3. ASSUME NEW j \in Streams, Cancel(j) \/ CancelStep(j) PROVE ExitIsFinal'
  BY <1>3 DEF CancelStep, Cancel, Signal, CancelFuture, Wake, Pool!Withdraw
<1>4. CASE Exit
  <2>1. \A r \in Replicas : inflight[r] <= 0
    BY <1>0, <1>4, ExecutorAssumption DEF Exit, Scanned, NothingLeft, Foreseen, Replicas
  <2>2. \A r \in Replicas : inflight[r] = 0
    BY <1>0, <2>1 DEF TypeOK
  <2>3. \A j \in Jobs : worker[j] \notin Running
    BY <1>0, <2>2, NobodyRuns
  <2> QED
    BY <1>0, <1>4, <2>3
       DEF Exit, Scanned, NothingLeft, Running, Handover, Carrying, TypeOK, WorkerStates
<1>5. CASE Lock \/ Scan \/ PopNext \/ Wait \/ Reserve \/ Spawn \/ SpawnFails \/ Abandon \/ Fail
  BY <1>5 DEF Lock, Scan, PopNext, Wait, Reserve, Spawn, SpawnFails, Abandon, Fail
<1>6. ASSUME NEW c \in Closers, BeginShutdown(c) \/ CloseStep(c) PROVE ExitIsFinal'
  BY <1>6 DEF BeginShutdown, CloseStep, CloseReplica, FailDrained, Wake, Pool!DrainAll
<1>7. CASE UNCHANGED vars
  BY <1>7 DEF vars
<1> QED
  BY <1>1, <1>2, <1>3, <1>4, <1>5, <1>6, <1>7 DEF Next, LoopStep

----------------------------------------------------------------------------
\* The loop's sleep

\* A slot that is freed after the loop has looked comes with a notification.
LEMMA NextWatched == TypeOK /\ Foreseen /\ Watched /\ [Next]_vars => Watched'
<1> SUFFICES ASSUME TypeOK, Foreseen, Watched, [Next]_vars, loop' = "scan",
                    ~WakeupComing'
             PROVE  \A r \in Replicas : r < Len(view') => /\ inflight'[r] = Seen(r)'.inflight
                                                          /\ open'[r] => Seen(r)'.open
  BY DEF Watched
<1> DEFINE Goal == \A r \in Replicas : r < Len(view') => /\ inflight'[r] = Seen(r)'.inflight
                                                         /\ open'[r] => Seen(r)'.open
<1> USE DEF Watched, Seen, poolVars, loopVars, workerVars, cancelVars, closeVars, slotVars
<1>1. ASSUME NEW j \in Jobs, Refuse(j) \/ Enqueue(j) \/ Report(j) PROVE Goal
  BY <1>1 DEF Refuse, Enqueue, Report, CanLock, Wake
<1>2. ASSUME NEW j \in Jobs, Leave(j) PROVE Goal
  BY <1>2 DEF Leave, WakeupComing, TypeOK
<1>3. ASSUME NEW j \in Jobs, Begin(j) \/ Return(j) \/ Resolve(j) PROVE Goal
  <2>1. ~WakeupComing
    BY <1>3 DEF Begin, Return, Resolve, WakeupComing, TypeOK
  <2> QED
    BY <1>3, <2>1 DEF Begin, Return, Resolve
<1>4. ASSUME NEW j \in Streams, Cancel(j) \/ CancelStep(j) PROVE Goal
  BY <1>4 DEF Cancel, CancelStep, Signal, CancelFuture, CanLock, Wake, WakeupComing
<1>5. CASE Lock
  <2>1. \A r \in Replicas : ~(r < Len(view'))
    BY <1>5, ReplicasFacts DEF Lock
  <2> QED
    BY <2>1
<1>6. CASE Scan
  <2>1. PICK n \in Replicas : n = Len(view)
    BY <1>6, ExecutorAssumption DEF Scan, Replicas, TypeOK
  <2>2. view' = Append(view, [open |-> open[n], inflight |-> inflight[n]])
    BY <1>6, <2>1 DEF Scan
  <2>3. \A r \in Replicas : r < Len(view) => /\ inflight[r] = view[r + 1].inflight
                                             /\ open[r] => view[r + 1].open
    BY <1>6 DEF Scan, WakeupComing
  <2>4. ASSUME NEW r \in Replicas, r < Len(view')
        PROVE  inflight[r] = view'[r + 1].inflight /\ (open[r] => view'[r + 1].open)
    <3>1. CASE r = n
      BY <2>1, <2>2, <3>1, ReplicasFacts DEF TypeOK
    <3>2. CASE r # n
      <4>1. r < Len(view) /\ r + 1 \in 1..Len(view)
        BY <2>1, <2>2, <2>4, <3>2, ReplicasFacts DEF TypeOK
      <4>2. view'[r + 1] = view[r + 1]
        BY <2>2, <4>1 DEF TypeOK
      <4> QED
        BY <2>3, <4>1, <4>2
    <3> QED
      BY <3>1, <3>2
  <2> QED
    BY <1>6, <2>4 DEF Scan
<1>7. CASE Exit \/ PopNext \/ Wait \/ Reserve \/ Spawn \/ SpawnFails \/ Abandon \/ Fail
  BY <1>7 DEF Exit, PopNext, Wait, Reserve, Spawn, SpawnFails, Abandon, Fail
<1>8. ASSUME NEW c \in Closers, BeginShutdown(c) PROVE Goal
  BY <1>8 DEF BeginShutdown, CanLock, Wake
<1>9. ASSUME NEW c \in Closers, CloseReplica(c) PROVE Goal
  BY <1>9 DEF CloseReplica, WakeupComing, TypeOK
<1>10. ASSUME NEW c \in Closers, FailDrained(c) PROVE Goal
  BY <1>10 DEF FailDrained, WakeupComing
<1>11. CASE UNCHANGED vars
  BY <1>11 DEF vars, WakeupComing
<1> QED
  BY <1>1, <1>2, <1>3, <1>4, <1>5, <1>6, <1>7, <1>8, <1>9, <1>10, <1>11
     DEF Next, LoopStep, WorkerStep, CloseStep

\* The loop goes to sleep only when nothing can be done, and what can be done later
\* wakes it.
LEMMA NextNoLostWakeup ==
  IndInv /\ Drained /\ Watched /\ NoLostWakeup /\ [Next]_vars => NoLostWakeup'
<1> SUFFICES ASSUME IndInv, Drained, Watched, NoLostWakeup, [Next]_vars,
                    loop' = "wait", ~WakeupComing'
             PROVE  /\ ~(waiting' # {} /\ \E r \in Replicas : CanRun(r)')
                    /\ ~(stopping' /\ \A r \in Replicas : inflight'[r] = 0)
  BY DEF NoLostWakeup
<1> DEFINE Goal == /\ ~(waiting' # {} /\ \E r \in Replicas : CanRun(r)')
                   /\ ~(stopping' /\ \A r \in Replicas : inflight'[r] = 0)
<1> USE DEF NoLostWakeup, CanRun, poolVars, loopVars, workerVars, cancelVars, closeVars, slotVars
<1>0. TypeOK /\ Foreseen
  BY DEF IndInv
<1>1. ASSUME NEW j \in Jobs, Refuse(j) PROVE Goal
  BY <1>1 DEF Refuse, WakeupComing
<1>2. ASSUME NEW j \in Jobs, Enqueue(j) \/ Report(j) PROVE Goal
  BY <1>2 DEF Enqueue, Report, Wake
<1>3. ASSUME NEW j \in Jobs, Leave(j) PROVE Goal
  BY <1>0, <1>3 DEF Leave, WakeupComing, TypeOK
<1>4. ASSUME NEW j \in Jobs, Begin(j) \/ Return(j) \/ Resolve(j) PROVE Goal
  <2>1. ~WakeupComing
    BY <1>0, <1>4 DEF Begin, Return, Resolve, WakeupComing, TypeOK
  <2> QED
    BY <1>4, <2>1 DEF Begin, Return, Resolve
<1>5. ASSUME NEW j \in Streams, Cancel(j) PROVE Goal
  BY <1>5 DEF Cancel, Wake
<1>6. ASSUME NEW j \in Streams, CancelStep(j) PROVE Goal
  BY <1>6 DEF CancelStep, Signal, CancelFuture, WakeupComing
<1>7. CASE Wait
  <2>1. ~WakeupComing
    BY <1>7 DEF Wait, WakeupComing
  <2>2. \A r \in Replicas : inflight[r] = Seen(r).inflight /\ (open[r] => Seen(r).open)
    BY <1>7, <2>1, ExecutorAssumption DEF Wait, Scanned, Watched, Replicas
  <2>3. \A r \in Replicas : CanRun(r) => r \in Eligible
    BY <2>2 DEF Eligible
  <2>4. ~(waiting # {} /\ \E r \in Replicas : CanRun(r))
    BY <1>7, <2>3 DEF Wait
  <2>5. ~(stopping /\ \A r \in Replicas : inflight[r] = 0)
    BY <1>7, <2>2 DEF Wait, NothingLeft, Drained
  <2> QED
    BY <1>7, <2>4, <2>5 DEF Wait
<1>8. CASE Lock \/ Scan \/ Exit \/ PopNext \/ Reserve \/ Spawn \/ SpawnFails \/ Abandon \/ Fail
  BY <1>8 DEF Lock, Scan, Exit, PopNext, Reserve, Spawn, SpawnFails, Abandon, Fail
<1>9. ASSUME NEW c \in Closers, BeginShutdown(c) PROVE Goal
  BY <1>9 DEF BeginShutdown, Wake
<1>10. ASSUME NEW c \in Closers, CloseReplica(c) PROVE Goal
  BY <1>0, <1>10 DEF CloseReplica, WakeupComing, TypeOK
<1>11. ASSUME NEW c \in Closers, FailDrained(c) PROVE Goal
  BY <1>11 DEF FailDrained, WakeupComing
<1>12. CASE UNCHANGED vars
  BY <1>12 DEF vars, WakeupComing
<1> QED
  BY <1>1, <1>2, <1>3, <1>4, <1>5, <1>6, <1>7, <1>8, <1>9, <1>10, <1>11, <1>12
     DEF Next, LoopStep, WorkerStep, CloseStep

----------------------------------------------------------------------------
\* The invariant and what follows from it

\* The initial states satisfy the invariant.
LEMMA InitJobInv == Init => JobInv
<1> SUFFICES ASSUME Init PROVE JobInv
  OBVIOUS
<1>1. ActiveAgrees
  BY ExecutorAssumption DEF Init, Pool!Init, ActiveAgrees
<1>2. ExitIsFinal /\ Watched /\ NoLostWakeup
  BY DEF Init, ExitIsFinal, Watched, NoLostWakeup
<1> QED
  BY <1>1, <1>2, InitIndInv, InitOwner DEF JobInv

\* Every step keeps the invariant.
LEMMA NextJobInv == JobInv /\ [Next]_vars => JobInv'
<1> SUFFICES ASSUME JobInv, [Next]_vars PROVE JobInv'
  OBVIOUS
<1>1. TypeOK /\ Handover /\ Foreseen /\ Drained
  BY DEF JobInv, IndInv, OwnerInv
<1> QED
  BY <1>1, NextIndInv, NextOwner, NextActiveAgrees, NextExitIsFinal, NextWatched,
     NextNoLostWakeup DEF JobInv

\* The strengthened invariant holds in every state the executor reaches.
THEOREM JobInvariance == Spec => []JobInv
BY InitJobInv, NextJobInv, PTL DEF Spec

\* An unanswered job is in exactly one thread's hands and an answered one in
\* nobody's: no interleaving of cancel, shutdown, submission and completion
\* loses a job, runs one that was taken back, or answers one twice.
THEOREM EveryJobHasOneOwner == Spec => []SoleOwner
<1>1. OwnerInv => SoleOwner
  <2> SUFFICES ASSUME OwnerInv, NEW j \in Jobs
               PROVE  IF future[j] = "pending" THEN \E o \in Owners(j) : Owners(j) = {o}
                                               ELSE Owners(j) = {}
    BY DEF SoleOwner
  <2>1. CASE future[j] # "pending"
    BY <2>1 DEF OwnerInv, Owned, Kept, InDrain, Owners
  <2>2. CASE future[j] = "pending"
    <3>1. Kept(j)
      BY <2>2 DEF OwnerInv, Owned
    <3>2. CASE j \in waiting
      <4>1. Owners(j) = {"queue"}
        BY <3>2 DEF OwnerInv, Apart, InDrain, Owners
      <4> QED
        BY <2>2, <4>1
    <3>3. CASE held = j
      <4>1. Owners(j) = {"loop"}
        BY <3>3 DEF OwnerInv, Apart, InDrain, Owners
      <4> QED
        BY <2>2, <4>1
    <3>4. CASE InWorker(j)
      <4>1. Owners(j) = {"worker"}
        BY <3>4 DEF OwnerInv, Apart, InDrain, Owners
      <4> QED
        BY <2>2, <4>1
    <3>5. CASE TakenBack(j)
      <4>1. Owners(j) = {"canceller"}
        BY <3>5 DEF OwnerInv, Apart, InDrain, Owners
      <4> QED
        BY <2>2, <4>1
    <3>6. CASE InDrain(j)
      <4>1. PICK c \in Closers : j \in drained[c]
        BY <3>6 DEF InDrain
      <4>2. Owners(j) = {c}
        BY <3>6, <4>1 DEF OwnerInv, Apart, Owners
      <4> QED
        BY <2>2, <4>2
    <3> QED
      BY <3>1, <3>2, <3>3, <3>4, <3>5, <3>6 DEF Kept
  <2> QED
    BY <2>1, <2>2
<1> QED
  BY <1>1, JobInvariance, PTL DEF JobInv

\* The fairness history charges exactly the jobs that are popped and whose slot
\* is not reported free.
THEOREM ActiveIsExact == Spec => []ActiveAgrees
BY JobInvariance, PTL DEF JobInv

\* When a client has its answer, the slot and the fairness entry of its job are
\* gone.
THEOREM SlotIsFreeFirst == Spec => []ReleasedBeforeAnswered
<1>1. JobInv => ReleasedBeforeAnswered
  BY DEF JobInv, OwnerInv, Owned, Kept, InWorker, ActiveAgrees, HoldsSlot, ReleasedBeforeAnswered
<1> QED
  BY <1>1, JobInvariance, PTL

\* The loop never sleeps on work it could start or on an executor that is ready
\* to stop, unless a worker that has freed its slot is about to wake it.
THEOREM NoWakeupIsLost == Spec => []NoLostWakeup
BY JobInvariance, PTL DEF JobInv

\* When the loop has ended, nothing waits and no backend call runs or can start.
THEOREM ExitIsForGood == Spec => []ExitIsFinal
BY JobInvariance, PTL DEF JobInv

----------------------------------------------------------------------------
\* The executor implements JobContract

\* Which outcome a job can have where it is.
Verdicts ==
  /\ \A j \in Jobs :
       /\ outcome[j] # "none" =>
            \/ held = j /\ loop \in {"abandon", "fail"}
            \/ worker[j] \in {"leaving", "reporting", "resolving"}
       /\ worker[j] \in {"leaving", "reporting", "resolving"} =>
            \/ outcome[j] \in {"result", "error"}
            \/ outcome[j] = "aborted" /\ j \in Streams
  /\ loop \in {"abandon", "fail"} => outcome[held] \in {"error", "unloading"}

ContractInv == JobInv /\ Verdicts

----------------------------------------------------------------------------
\* Outcomes

\* Every step keeps track of which outcome a job can have where it is.
LEMMA NextVerdicts == TypeOK /\ Handover /\ Verdicts /\ [Next]_vars => Verdicts'
<1> SUFFICES ASSUME TypeOK, Handover, Verdicts, [Next]_vars PROVE Verdicts'
  OBVIOUS
<1> USE ExecutorAssumption
    DEF Verdicts, poolVars, loopVars, workerVars, cancelVars, closeVars, slotVars
<1>1. ASSUME NEW j \in Jobs, Refuse(j) PROVE Verdicts'
  BY <1>1 DEF Refuse
<1>2. ASSUME NEW j \in Jobs, Enqueue(j) PROVE Verdicts'
  BY <1>2 DEF Enqueue, Wake
<1>3. ASSUME NEW j \in Jobs, Begin(j) PROVE Verdicts'
  BY <1>3 DEF Begin, TypeOK, Handover, Carrying
<1>4. ASSUME NEW j \in Jobs, Return(j) PROVE Verdicts'
  BY <1>4 DEF Return, TypeOK, Handover, Carrying
<1>5. ASSUME NEW j \in Jobs, Leave(j) PROVE Verdicts'
  BY <1>5 DEF Leave, TypeOK
<1>6. ASSUME NEW j \in Jobs, Report(j) PROVE Verdicts'
  BY <1>6 DEF Report, Wake, TypeOK
<1>7. ASSUME NEW j \in Jobs, Resolve(j) PROVE Verdicts'
  BY <1>7 DEF Resolve, TypeOK, Handover, Carrying
<1>8. ASSUME NEW j \in Streams, Cancel(j) PROVE Verdicts'
  BY <1>8 DEF Cancel, Wake
<1>9. ASSUME NEW j \in Streams, CancelStep(j) PROVE Verdicts'
  BY <1>9 DEF CancelStep, Signal, CancelFuture
<1>10. CASE Lock \/ Scan \/ Exit \/ PopNext \/ Wait
  BY <1>10 DEF Lock, Scan, Exit, PopNext, Wait, Scanned
<1>11. CASE Reserve
  BY <1>11 DEF Reserve, TypeOK, Handover, Carrying
<1>12. CASE Spawn
  BY <1>12 DEF Spawn, TypeOK, Handover, Carrying
<1>13. CASE SpawnFails
  BY <1>13 DEF SpawnFails, TypeOK, Handover, Carrying
<1>14. CASE Abandon
  BY <1>14 DEF Abandon
<1>15. CASE Fail
  BY <1>15 DEF Fail, TypeOK, Handover, Carrying
<1>16. ASSUME NEW c \in Closers, BeginShutdown(c) PROVE Verdicts'
  BY <1>16 DEF BeginShutdown, Wake
<1>17. ASSUME NEW c \in Closers, CloseStep(c) PROVE Verdicts'
  BY <1>17 DEF CloseStep, CloseReplica, FailDrained
<1>18. CASE UNCHANGED vars
  BY <1>18 DEF vars
<1> QED
  BY <1>1, <1>2, <1>3, <1>4, <1>5, <1>6, <1>7, <1>8, <1>9, <1>10, <1>11, <1>12,
     <1>13, <1>14, <1>15, <1>16, <1>17, <1>18 DEF Next, LoopStep, WorkerStep

\* The invariant under which the steps of the executor are steps of its contract.
LEMMA ContractInvariance == Spec => []ContractInv
<1>1. Init => ContractInv
  BY InitJobInv DEF Init, Verdicts, ContractInv
<1>2. ContractInv /\ [Next]_vars => ContractInv'
  <2> SUFFICES ASSUME ContractInv, [Next]_vars PROVE ContractInv'
    OBVIOUS
  <2>1. TypeOK /\ Handover
    BY DEF ContractInv, JobInv, IndInv
  <2> QED
    BY <2>1, NextJobInv, NextVerdicts DEF ContractInv
<1> QED
  BY <1>1, <1>2, PTL DEF Spec

----------------------------------------------------------------------------
\* The number of jobs that run

\* The slots of an executor can be counted.
LEMMA SlotsFinite == IsFiniteSet(Slots)
<1> DEFINE OfReplica == [r \in Replicas |-> {r} \X (1..Target[r])]
           Parts == {{r} \X (1..Target[r]) : r \in Replicas}
<1>1. IsFiniteSet(Replicas)
  BY ExecutorAssumption, FS_Interval DEF Replicas
<1>2. OfReplica \in [Replicas -> Parts] /\ \A t \in Parts : \E r \in Replicas : OfReplica[r] = t
  OBVIOUS
<1>3. OfReplica \in Surjection(Replicas, Parts)
  BY <1>2, Fun_IsSurj
<1>4. IsFiniteSet(Parts)
  BY <1>1, <1>3, FS_Surjection
<1>5. ASSUME NEW r \in Replicas PROVE IsFiniteSet({r} \X (1..Target[r]))
  <2>1. IsFiniteSet({r})
    BY FS_Singleton
  <2>2. IsFiniteSet(1..Target[r])
    BY ExecutorAssumption, FS_Interval
  <2> QED
    BY <2>1, <2>2, FS_Product
<1>6. \A T \in Parts : IsFiniteSet(T)
  BY <1>5
<1> QED
  BY <1>4, <1>6, FS_UNION DEF Slots

\* The jobs that hold a slot of some replica.
Holders == {j \in Jobs : \E r \in Replicas : j \in Occupants(r)}

\* Each of them can be given a slot of its own: on a replica it occupies, the
\* number it has among the replica's occupants.
LEMMA HoldersFit ==
  ASSUME TypeOK, Counted
  PROVE  IsFiniteSet(Holders) /\ Cardinality(Holders) <= Cardinality(Slots)
<1> DEFINE Number == [r \in Replicas |-> CHOOSE b : b \in Bijection(Occupants(r), 1..inflight[r])]
           On == [j \in Holders |-> CHOOSE r \in Replicas : j \in Occupants(r)]
           Place == [j \in Holders |-> <<On[j], Number[On[j]][j]>>]
<1>1. ASSUME NEW r \in Replicas
      PROVE  Number[r] \in Bijection(Occupants(r), 1..inflight[r])
  <2>1. IsFiniteSet(Occupants(r)) /\ Cardinality(Occupants(r)) = inflight[r]
    BY OccupantsFinite DEF Counted
  <2>2. inflight[r] \in Nat
    BY DEF TypeOK
  <2>3. IsFiniteSet(1..inflight[r]) /\ Cardinality(1..inflight[r]) = inflight[r]
    BY <2>2, FS_Interval
  <2>4. ExistsBijection(Occupants(r), 1..inflight[r])
    BY <2>1, <2>3, FS_SameCardinalityBij
  <2> QED
    BY <2>4 DEF ExistsBijection
<1>2. \A j \in Holders : On[j] \in Replicas /\ j \in Occupants(On[j])
  BY DEF Holders
<1>3. ASSUME NEW j \in Holders PROVE Place[j] \in Slots
  <2>1. On[j] \in Replicas /\ j \in Occupants(On[j])
    BY <1>2
  <2>2. Number[On[j]][j] \in 1..inflight[On[j]]
    <3> HIDE DEF On, Number
    <3>1. PICK r \in Replicas : r = On[j]
      BY <2>1
    <3>2. Number[r] \in [Occupants(r) -> 1..inflight[r]]
      BY <1>1 DEF Bijection, Injection
    <3> QED
      BY <2>1, <3>1, <3>2
  <2>3. inflight[On[j]] \in Nat /\ Target[On[j]] \in Nat /\ inflight[On[j]] <= Target[On[j]]
    BY <2>1, ExecutorAssumption DEF TypeOK, Counted
  <2>4. Number[On[j]][j] \in 1..Target[On[j]]
    BY <2>2, <2>3
  <2>5. Place[j] = <<On[j], Number[On[j]][j]>>
    OBVIOUS
  <2> HIDE DEF Place, On, Number
  <2> QED
    BY <2>1, <2>4, <2>5 DEF Slots
<1>4. ASSUME NEW i \in Holders, NEW j \in Holders, Place[i] = Place[j] PROVE i = j
  <2>1. On[i] = On[j] /\ Number[On[i]][i] = Number[On[j]][j]
    <3>1. Place[i] = <<On[i], Number[On[i]][i]>> /\ Place[j] = <<On[j], Number[On[j]][j]>>
      OBVIOUS
    <3>2. <<On[i], Number[On[i]][i]>> = <<On[j], Number[On[j]][j]>>
      BY <1>4, <3>1
    <3> HIDE DEF Place, On, Number
    <3> QED
      BY <3>2
  <2>2. i \in Occupants(On[i]) /\ j \in Occupants(On[i]) /\ On[i] \in Replicas
    BY <1>2, <2>1
  <2> HIDE DEF Place, On, Number
  <2> QED
    BY <1>1, <2>1, <2>2, Fun_BijectionProperties
<1>5. Place \in Injection(Holders, Slots)
  <2>1. Place \in [Holders -> Slots]
    BY <1>3
  <2> HIDE DEF Place
  <2> QED
    BY <1>4, <2>1, Fun_IsInj
<1> QED
  BY <1>5, SlotsFinite, FS_Injection

\* A thread is started for a job only when a slot is left for it.
LEMMA SlotIsSpare ==
  ASSUME TypeOK, Handover, Counted, loop = "spawn"
  PROVE  Cardinality(Contract!Running) < Cardinality(Slots)
<1>1. held \in Jobs /\ worker[held] = "none"
  BY ExecutorAssumption DEF Handover, Carrying
<1>2. \A j \in Contract!Running : j \in Jobs /\ worker[j] \in Running
  <2>1. \A j \in Jobs : Status[j] = "running" => worker[j] \in Running
    BY DEF Status, Running, TypeOK, Futures
  <2> QED
    BY <2>1 DEF Contract!Running
<1>3. held \notin Contract!Running
  BY <1>1, <1>2 DEF Running
<1>4. Contract!Running \cup {held} \subseteq Holders
  BY <1>1, <1>2 DEF Holders, Occupants, TypeOK
<1>5. /\ IsFiniteSet(Contract!Running) /\ IsFiniteSet(Contract!Running \cup {held})
      /\ Cardinality(Contract!Running \cup {held}) <= Cardinality(Holders)
  BY <1>4, HoldersFit, FS_Subset
<1>6. Cardinality(Contract!Running \cup {held}) = Cardinality(Contract!Running) + 1
  BY <1>3, <1>5, FS_AddElement
<1>7. /\ Cardinality(Contract!Running) \in Nat
      /\ Cardinality(Holders) \in Nat /\ Cardinality(Slots) \in Nat
  BY <1>5, HoldersFit, SlotsFinite, FS_CardinalityType
<1> QED
  BY <1>5, <1>6, <1>7, HoldersFit

----------------------------------------------------------------------------
\* Steps

\* A step that changes what the client of one job sees, and nothing else.
LEMMA OneStatusChanges ==
  ASSUME NEW j \in Jobs, NEW to,
         Status'[j] = to, \A k \in Jobs \ {j} : Status'[k] = Status[k]
  PROVE  Status' = [Status EXCEPT ![j] = to]
BY DEF Status

\* Steps that change no job's variables change nothing a client sees.
LEMMA SameStatus ==
  ASSUME UNCHANGED stopping, \A j \in Jobs : Status'[j] = Status[j]
  PROVE  UNCHANGED <<Status, stopping>>
BY DEF Status

\* Each step of the executor is a step of JobContract or a stutter.
LEMMA NextContract ==
  ContractInv /\ [Next]_vars => [Contract!Next]_<<Status, stopping>>
<1> SUFFICES ASSUME ContractInv, [Next]_vars
             PROVE  Contract!Next \/ UNCHANGED <<Status, stopping>>
  OBVIOUS
<1> DEFINE Goal == Contract!Next \/ UNCHANGED <<Status, stopping>>
<1> USE DEF poolVars, loopVars, workerVars, cancelVars, closeVars, slotVars
<1>0. TypeOK /\ Handover /\ Counted /\ Foreseen /\ OwnerInv /\ Verdicts
  BY DEF ContractInv, JobInv, IndInv
<1>1. ASSUME NEW j \in Jobs, Refuse(j) PROVE Goal
  <2>1. Status[j] = "new" /\ Status'[j] = "refused" /\ \A k \in Jobs \ {j} : Status'[k] = Status[k]
    BY <1>0, <1>1 DEF Refuse, Status, TypeOK
  <2>2. Contract!Refuse(j)
    BY <1>1, <2>1, OneStatusChanges DEF Contract!Refuse, Contract!Move, Refuse
  <2> QED
    BY <2>2 DEF Contract!Next
<1>2. ASSUME NEW j \in Jobs, Enqueue(j) PROVE Goal
  <2>1. worker[j] = "none"
    BY <1>0, <1>2 DEF Enqueue, Handover
  <2>2. Status[j] = "new" /\ Status'[j] = "queued" /\ \A k \in Jobs \ {j} : Status'[k] = Status[k]
    BY <1>0, <1>2, <2>1 DEF Enqueue, Status, TypeOK
  <2>3. Contract!Admit(j)
    BY <1>2, <2>2, OneStatusChanges DEF Contract!Admit, Contract!Move, Enqueue, Accepting
  <2> QED
    BY <2>3 DEF Contract!Next
<1>3. ASSUME NEW j \in Jobs, Begin(j) \/ Return(j) \/ Report(j) PROVE Goal
  <2>1. \A k \in Jobs : Status'[k] = Status[k]
    BY <1>0, <1>3 DEF Begin, Return, Report, Status, TypeOK
  <2> QED
    BY <1>3, <2>1, SameStatus DEF Begin, Return, Report
<1>4. ASSUME NEW j \in Jobs, Leave(j) PROVE Goal
  <2>1. future[j] = "pending"
    BY <1>0, <1>4 DEF Leave, OwnerInv, Owned, Kept, InWorker
  <2>2. Status[j] = "running" /\ Status'[j] = "served" /\ \A k \in Jobs \ {j} : Status'[k] = Status[k]
    BY <1>0, <1>4, <2>1 DEF Leave, Status, TypeOK
  <2>3. Contract!Release(j)
    BY <1>4, <2>2, OneStatusChanges DEF Contract!Release, Contract!Move, Leave
  <2> QED
    BY <2>3 DEF Contract!Next
<1>5. ASSUME NEW j \in Jobs, Resolve(j) PROVE Goal
  <2>1. future[j] = "pending"
    BY <1>0, <1>5 DEF Resolve, OwnerInv, Owned, Kept, InWorker
  <2>2. outcome[j] \in {"result", "error"} \/ (outcome[j] = "aborted" /\ j \in Streams)
    BY <1>0, <1>5 DEF Resolve, Verdicts
  <2>3. future' = [future EXCEPT ![j] = outcome[j]]
    BY <1>0, <1>5, <2>1 DEF Resolve, Answer, TypeOK
  <2>4. /\ Status[j] = "served" /\ Status'[j] = outcome[j]
        /\ \A k \in Jobs \ {j} : Status'[k] = Status[k]
    BY <1>0, <1>5, <2>1, <2>2, <2>3 DEF Resolve, Status, TypeOK
  <2>5. Contract!Finish(j)
    BY <1>5, <2>2, <2>4, OneStatusChanges DEF Contract!Finish, Contract!Move, Resolve
  <2> QED
    BY <2>5 DEF Contract!Next
<1>6. ASSUME NEW j \in Streams, Cancel(j) \/ Signal(j) PROVE Goal
  <2>1. \A k \in Jobs : Status'[k] = Status[k]
    BY <1>6 DEF Cancel, Signal, Status
  <2> QED
    BY <1>6, <2>1, SameStatus DEF Cancel, Signal
<1>7. ASSUME NEW j \in Streams, CancelFuture(j) PROVE Goal
  <2>1. j \in Jobs /\ TakenBack(j)
    BY <1>7, ExecutorAssumption DEF CancelFuture, TakenBack
  <2>2. future[j] = "pending" /\ ~InWorker(j)
    BY <1>0, <2>1 DEF OwnerInv, Owned, Apart, Kept
  <2>3. /\ Status[j] = "queued" /\ Status'[j] = "cancelled"
        /\ \A k \in Jobs \ {j} : Status'[k] = Status[k]
    BY <1>0, <1>7, <2>1, <2>2 DEF CancelFuture, Answer, Status, InWorker, TypeOK
  <2>4. Contract!TakeBack(j)
    BY <1>7, <2>1, <2>3, OneStatusChanges DEF Contract!TakeBack, Contract!Move, CancelFuture
  <2> QED
    BY <2>1, <2>4 DEF Contract!Next
<1>8. CASE Lock \/ Scan \/ Exit \/ PopNext \/ Wait \/ Reserve \/ SpawnFails \/ Abandon
  <2>1. \A k \in Jobs : Status'[k] = Status[k]
    BY <1>8 DEF Lock, Scan, Exit, PopNext, Wait, Reserve, SpawnFails, Abandon, Status
  <2> QED
    BY <1>8, <2>1, SameStatus DEF Lock, Scan, Exit, PopNext, Wait, Reserve, SpawnFails, Abandon
<1>9. CASE Spawn
  <2>1. held \in Jobs /\ worker[held] = "none" /\ future[held] = "pending"
    BY <1>0, <1>9, ExecutorAssumption DEF Spawn, Handover, Carrying, OwnerInv, Owned, Kept
  <2>2. /\ Status[held] = "queued" /\ Status'[held] = "running"
        /\ \A k \in Jobs \ {held} : Status'[k] = Status[k]
    BY <1>0, <1>9, <2>1 DEF Spawn, Status, TypeOK
  <2>3. Cardinality(Contract!Running) < Cardinality(Slots)
    BY <1>0, <1>9, SlotIsSpare DEF Spawn
  <2>4. Contract!Move(held, "queued", "running")
    BY <2>1, <2>2, OneStatusChanges DEF Contract!Move
  <2>5. Contract!Start(held)
    BY <1>9, <2>3, <2>4 DEF Contract!Start, Spawn, Contract!Cardinality, Cardinality
  <2> QED
    BY <2>1, <2>5 DEF Contract!Next
<1>10. CASE Fail
  <2>1. held \in Jobs /\ worker[held] = "none" /\ future[held] = "pending"
    BY <1>0, <1>10, ExecutorAssumption DEF Fail, Handover, Carrying, OwnerInv, Owned, Kept
  <2>2. outcome[held] \in {"error", "unloading"}
    BY <1>0, <1>10 DEF Fail, Verdicts
  <2>3. outcome[held] = "unloading" => stopping
    BY <1>0, <2>1 DEF Foreseen, UnloadingOnlyWhenStopping
  <2>4. /\ Status[held] = "queued" /\ Status'[held] = outcome[held]
        /\ \A k \in Jobs \ {held} : Status'[k] = Status[k]
    BY <1>0, <1>10, <2>1, <2>2 DEF Fail, Answer, Status, TypeOK
  <2>5. Contract!FailToStart(held) \/ Contract!FailUnloading(held)
    BY <1>10, <2>1, <2>2, <2>3, <2>4, OneStatusChanges
       DEF Contract!FailToStart, Contract!FailUnloading, Contract!Move, Fail
  <2> QED
    BY <2>1, <2>5 DEF Contract!Next
<1>11. ASSUME NEW c \in Closers, BeginShutdown(c) PROVE Goal
  <2>1. \A k \in Jobs : Status'[k] = Status[k]
    BY <1>11 DEF BeginShutdown, Status
  <2>2. Status' = Status
    BY <2>1 DEF Status
  <2>3. Contract!Close
    BY <1>11, <2>2 DEF BeginShutdown, Contract!Close
  <2> QED
    BY <2>3 DEF Contract!Next
<1>12. ASSUME NEW c \in Closers, CloseReplica(c) PROVE Goal
  <2>1. \A k \in Jobs : Status'[k] = Status[k]
    BY <1>12 DEF CloseReplica, Status
  <2> QED
    BY <1>12, <2>1, SameStatus DEF CloseReplica
<1>13. ASSUME NEW c \in Closers, FailDrained(c) PROVE Goal
  <2>1. PICK j \in drained[c] : Answer(j, "unloading")
    BY <1>13 DEF FailDrained
  <2>2. j \in Jobs /\ InDrain(j) /\ stopping
    BY <1>0 DEF InDrain, TypeOK, Foreseen
  <2>3. future[j] = "pending" /\ ~InWorker(j)
    BY <1>0, <2>2 DEF OwnerInv, Owned, Apart, Kept
  <2>4. /\ Status[j] = "queued" /\ Status'[j] = "unloading"
        /\ \A k \in Jobs \ {j} : Status'[k] = Status[k]
    BY <1>0, <1>13, <2>1, <2>2, <2>3 DEF FailDrained, Answer, Status, InWorker, TypeOK
  <2>5. Contract!FailUnloading(j)
    BY <1>13, <2>2, <2>4, OneStatusChanges DEF Contract!FailUnloading, Contract!Move, FailDrained
  <2> QED
    BY <2>2, <2>5 DEF Contract!Next
<1>14. CASE UNCHANGED vars
  BY <1>14 DEF vars, Status
<1> QED
  BY <1>1, <1>2, <1>3, <1>4, <1>5, <1>6, <1>7, <1>8, <1>9, <1>10, <1>11, <1>12,
     <1>13, <1>14 DEF Next, LoopStep, WorkerStep, CancelStep, CloseStep

\* The executor keeps its contract with its clients: jobs are admitted only while
\* it is open, run only in a slot, are answered once, after their slot is free,
\* with what really happened to them, and never start once they were taken back
\* or failed.
THEOREM ExecutorKeepsContract == Spec => ImplementsContract
<1>1. Init => Contract!Init
  BY DEF Init, Status, Contract!Init
<1>2. ContractInv /\ [Next]_vars => [Contract!Next]_(Contract!contractVars)
  BY NextContract DEF Contract!contractVars
<1> QED
  BY <1>1, <1>2, ContractInvariance, PTL DEF Spec, ImplementsContract, Contract!Spec

============================================================================
