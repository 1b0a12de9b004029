-------------------------- MODULE ExecutorProofs --------------------------
(***************************************************************************)
(* Theorems about Executor, for any number of jobs, replicas, slots and    *)
(* closing threads.                                                        *)
(*                                                                         *)
(* SlotsRespected and UnloadingOnlyWhenStopping both speak of a replica's  *)
(* counter, which four actions of two kinds of threads change under one    *)
(* lock while the loop relies on a copy of it taken under another. The     *)
(* invariant says what ties them together:                                 *)
(*   Handover   a job has at most one of: a place in the queue, the loop's *)
(*              local variable, a worker;                                  *)
(*   Counted    the counter of a replica is the number of jobs that hold   *)
(*              one of its slots, the job between submit's reservation and *)
(*              its thread's start included;                               *)
(*   Foreseen   what the loop has seen of a replica can only have become   *)
(*              less than the truth about its free slots.                  *)
(***************************************************************************)
EXTENDS Executor, FiniteSetTheorems, TLAPS

Carrying == {"reserve", "spawn", "abandon", "fail"}
Running == {"started", "backend", "leaving"}

Handover ==
  /\ IF loop \in Carrying THEN held \in Jobs ELSE held = NoJob
  /\ held # NoJob => worker[held] = "none" /\ held \notin waiting
  /\ \A j \in waiting : worker[j] = "none"
  /\ \A j \in Jobs : future[j] = "none" => worker[j] = "none" /\ j # held /\ j \notin waiting

\* The jobs that hold a slot of r.
Occupants(r) ==
  {j \in Jobs : \/ slot[j] = r /\ worker[j] \in Running
                \/ loop = "spawn" /\ held = j /\ picked = r}

Counted ==
  \A r \in Replicas : inflight[r] = Cardinality(Occupants(r)) /\ inflight[r] <= Target[r]

Foreseen ==
  /\ \A r \in Replicas : open[r] \/ stopping
  /\ loop = "scan" =>
       \A r \in Replicas : r < Len(view) => /\ Seen(r).open \/ stopping
                                            /\ inflight[r] <= Seen(r).inflight
  /\ loop = "reserve" => inflight[picked] < Target[picked]
  /\ UnloadingOnlyWhenStopping
  /\ \A c \in Closers : toClose[c] # {} \/ drained[c] # {} => stopping

\* A thread that is about to answer knows what.
Decided ==
  /\ loop \in {"abandon", "fail"} => outcome[held] # "none"
  /\ \A j \in Jobs :
       worker[j] \in {"leaving", "reporting", "resolving"} => outcome[j] # "none"

IndInv == TypeOK /\ Handover /\ Decided /\ Counted /\ Foreseen

----------------------------------------------------------------------------
\* Types

\* Replicas are numbered from 0.
LEMMA ReplicasFacts == 0 \in Replicas /\ Replicas \subseteq Nat
BY ExecutorAssumption DEF Replicas

\* The round robin over replicas stays within them.
LEMMA NextIndexType == \A r \in Replicas : NextIndex(r) \in Replicas
BY ExecutorAssumption DEF Replicas, NextIndex

\* The jobs on a replica can be counted.
LEMMA OccupantsFinite == \A r \in Replicas : IsFiniteSet(Occupants(r))
<1> TAKE r \in Replicas
<1>1. Occupants(r) \subseteq Jobs
  BY DEF Occupants
<1> QED
  BY <1>1, FS_Subset, ExecutorAssumption

\* Whoever holds a slot is counted, so giving it back never takes the counter below 0.
LEMMA OccupantCounted ==
  ASSUME Counted, NEW r \in Replicas, NEW j \in Occupants(r)
  PROVE  /\ Cardinality(Occupants(r) \ {j}) = inflight[r] - 1
         /\ inflight[r] > 0
<1>1. IsFiniteSet(Occupants(r) \ {j}) /\ IsFiniteSet(Occupants(r))
  BY OccupantsFinite, FS_RemoveElement
<1>2. Cardinality(Occupants(r) \ {j}) = Cardinality(Occupants(r)) - 1
  BY <1>1, FS_RemoveElement
<1>3. Cardinality(Occupants(r) \ {j}) \in Nat /\ Cardinality(Occupants(r)) \in Nat
  BY <1>1, FS_CardinalityType
<1> QED
  BY <1>2, <1>3 DEF Counted

\* The initial states are well typed.
LEMMA InitTypeOK == Init => TypeOK
<1> SUFFICES ASSUME Init PROVE TypeOK
  OBVIOUS
<1>1. view \in Seq(Snapshots) /\ Len(view) <= Width
  BY ExecutorAssumption DEF Init
<1>2. cancels \in [Streams -> 0..MaxCancels]
  BY ExecutorAssumption DEF Init
<1> QED
  BY <1>1, <1>2, ReplicasFacts
     DEF Init, TypeOK, Pool!Init, LoopStates, WorkerStates, Outcomes, Futures

\* Every step keeps the types, given who holds slots.
LEMMA NextTypeOK == TypeOK /\ Handover /\ Counted /\ [Next]_vars => TypeOK'
<1> SUFFICES ASSUME TypeOK, Handover, Counted, [Next]_vars PROVE TypeOK'
  OBVIOUS
<1> USE DEF TypeOK, poolVars, loopVars, workerVars, cancelVars, closeVars, slotVars
<1> USE DEF LoopStates, WorkerStates, Outcomes, Futures
<1>1. ASSUME NEW j \in Jobs, Refuse(j) PROVE TypeOK'
  BY <1>1 DEF Refuse
<1>2. ASSUME NEW j \in Jobs, Enqueue(j) PROVE TypeOK'
  BY <1>2 DEF Enqueue, Wake, Pool!Admit
<1>3. ASSUME NEW j \in Jobs, Begin(j) PROVE TypeOK'
  BY <1>3 DEF Begin
<1>4. ASSUME NEW j \in Jobs, Return(j) PROVE TypeOK'
  BY <1>4 DEF Return
<1>5. ASSUME NEW j \in Jobs, Leave(j) PROVE TypeOK'
  BY <1>5 DEF Leave
<1>6. ASSUME NEW j \in Jobs, Report(j) PROVE TypeOK'
  BY <1>6 DEF Report, Wake, Pool!Settle
<1>7. ASSUME NEW j \in Jobs, Resolve(j) PROVE TypeOK'
  BY <1>7, ReplicasFacts DEF Resolve, Answer
<1>8. ASSUME NEW j \in Streams, Cancel(j) PROVE TypeOK'
  BY <1>8, ExecutorAssumption DEF Cancel, Wake, Pool!Withdraw
<1>9. ASSUME NEW j \in Streams, Signal(j) PROVE TypeOK'
  BY <1>9 DEF Signal
<1>10. ASSUME NEW j \in Streams, CancelFuture(j) PROVE TypeOK'
  BY <1>10 DEF CancelFuture, Answer
<1>11. CASE Lock
  BY <1>11, ExecutorAssumption DEF Lock
<1>12. CASE Scan
  <2>1. Len(view) \in Replicas
    BY <1>12, ExecutorAssumption DEF Scan, Replicas
  <2>2. [open |-> open[Len(view)], inflight |-> inflight[Len(view)]] \in Snapshots
    BY <2>1 DEF Snapshots
  <2>3. view' \in Seq(Snapshots) /\ Len(view') <= Width
    BY <1>12, <2>2, ExecutorAssumption DEF Scan
  <2> QED
    BY <1>12, <2>3 DEF Scan
<1>13. CASE Exit
  BY <1>13, ExecutorAssumption DEF Exit
<1>14. CASE PopNext
  BY <1>14, NextIndexType, ExecutorAssumption DEF PopNext, Pick, Pool!Pop
<1>15. CASE Wait
  BY <1>15, NextIndexType, ExecutorAssumption DEF Wait, Pick
<1>16. CASE Reserve
  BY <1>16 DEF Reserve
<1>17. CASE Spawn
  BY <1>17, ReplicasFacts DEF Spawn
<1>18. CASE SpawnFails
  <2>1. held \in Occupants(picked)
    BY <1>18 DEF SpawnFails, Occupants, Handover, Carrying
  <2>2. inflight[picked] > 0
    BY <2>1, OccupantCounted
  <2>3. inflight' \in [Replicas -> Nat]
    BY <1>18, <2>2 DEF SpawnFails
  <2>4. outcome' \in [Jobs -> Outcomes]
    BY <1>18 DEF SpawnFails
  <2> QED
    BY <1>18, <2>3, <2>4 DEF SpawnFails
<1>19. CASE Abandon
  BY <1>19 DEF Abandon, Pool!Settle
<1>20. CASE Fail
  BY <1>20, ReplicasFacts DEF Fail, Answer
<1>21. ASSUME NEW c \in Closers, BeginShutdown(c) PROVE TypeOK'
  BY <1>21 DEF BeginShutdown, Wake, Pool!DrainAll
<1>22. ASSUME NEW c \in Closers, CloseReplica(c) PROVE TypeOK'
  BY <1>22 DEF CloseReplica
<1>23. ASSUME NEW c \in Closers, FailDrained(c) PROVE TypeOK'
  BY <1>23 DEF FailDrained, Answer
<1>24. CASE UNCHANGED vars
  BY <1>24 DEF vars
<1> QED
  BY <1>1, <1>2, <1>3, <1>4, <1>5, <1>6, <1>7, <1>8, <1>9, <1>10, <1>11, <1>12,
     <1>13, <1>14, <1>15, <1>16, <1>17, <1>18, <1>19, <1>20, <1>21, <1>22, <1>23, <1>24
     DEF Next, LoopStep, WorkerStep, CancelStep, CloseStep

----------------------------------------------------------------------------
\* Handing a job over

\* Queue, loop and workers hold a job one at a time.
LEMMA NextHandover == TypeOK /\ Handover /\ Decided /\ [Next]_vars => Handover'
<1> SUFFICES ASSUME TypeOK, Handover, Decided, [Next]_vars PROVE Handover'
  OBVIOUS
<1> USE ExecutorAssumption
    DEF Handover, Carrying, poolVars, loopVars, workerVars, cancelVars, closeVars, slotVars
<1>1. ASSUME NEW j \in Jobs, Refuse(j) PROVE Handover'
  BY <1>1 DEF Refuse, TypeOK
<1>2. ASSUME NEW j \in Jobs, Enqueue(j) PROVE Handover'
  BY <1>2 DEF Enqueue, Wake, Pool!Admit, TypeOK
<1>3. ASSUME NEW j \in Jobs, Begin(j) PROVE Handover'
  BY <1>3 DEF Begin, TypeOK
<1>4. ASSUME NEW j \in Jobs, Return(j) PROVE Handover'
  BY <1>4 DEF Return, TypeOK
<1>5. ASSUME NEW j \in Jobs, Leave(j) PROVE Handover'
  BY <1>5 DEF Leave, TypeOK
<1>6. ASSUME NEW j \in Jobs, Report(j) PROVE Handover'
  BY <1>6 DEF Report, Wake, Pool!Settle, TypeOK
<1>7. ASSUME NEW j \in Jobs, Resolve(j) PROVE Handover'
  BY <1>7 DEF Resolve, Answer, TypeOK, Decided
<1>8. ASSUME NEW j \in Streams, Cancel(j) PROVE Handover'
  BY <1>8 DEF Cancel, Wake, Pool!Withdraw
<1>9. ASSUME NEW j \in Streams, Signal(j) PROVE Handover'
  BY <1>9 DEF Signal
<1>10. ASSUME NEW j \in Streams, CancelFuture(j) PROVE Handover'
  BY <1>10 DEF CancelFuture, Answer, TypeOK
<1>11. CASE Lock
  BY <1>11 DEF Lock
<1>12. CASE Scan
  BY <1>12 DEF Scan
<1>13. CASE Exit
  BY <1>13 DEF Exit, Scanned
<1>14. CASE PopNext
  BY <1>14 DEF PopNext, Scanned, Pool!Pop, TypeOK
<1>15. CASE Wait
  BY <1>15 DEF Wait, Scanned
<1>16. CASE Reserve
  BY <1>16 DEF Reserve
<1>17. CASE Spawn
  BY <1>17 DEF Spawn, TypeOK
<1>18. CASE SpawnFails
  BY <1>18 DEF SpawnFails
<1>19. CASE Abandon
  BY <1>19 DEF Abandon, Pool!Settle
<1>20. CASE Fail
  BY <1>20 DEF Fail, Answer, TypeOK, Decided
<1>21. ASSUME NEW c \in Closers, BeginShutdown(c) PROVE Handover'
  BY <1>21 DEF BeginShutdown, Wake, Pool!DrainAll
<1>22. ASSUME NEW c \in Closers, CloseReplica(c) PROVE Handover'
  BY <1>22 DEF CloseReplica
<1>23. ASSUME NEW c \in Closers, FailDrained(c) PROVE Handover'
  BY <1>23 DEF FailDrained, Answer, TypeOK
<1>24. CASE UNCHANGED vars
  BY <1>24 DEF vars
<1> QED
  BY <1>1, <1>2, <1>3, <1>4, <1>5, <1>6, <1>7, <1>8, <1>9, <1>10, <1>11, <1>12,
     <1>13, <1>14, <1>15, <1>16, <1>17, <1>18, <1>19, <1>20, <1>21, <1>22, <1>23, <1>24
     DEF Next, LoopStep, WorkerStep, CancelStep, CloseStep

\* A thread about to answer a job knows its answer.
LEMMA NextDecided == TypeOK /\ Handover /\ Decided /\ [Next]_vars => Decided'
<1> SUFFICES ASSUME TypeOK, Handover, Decided, [Next]_vars PROVE Decided'
  OBVIOUS
<1> USE DEF Decided, poolVars, loopVars, workerVars, cancelVars, closeVars, slotVars
<1>1. ASSUME NEW j \in Jobs, Refuse(j) PROVE Decided'
  BY <1>1 DEF Refuse
<1>2. ASSUME NEW j \in Jobs, Enqueue(j) PROVE Decided'
  BY <1>2 DEF Enqueue, Wake
<1>3. ASSUME NEW j \in Jobs, Begin(j) PROVE Decided'
  BY <1>3 DEF Begin, TypeOK, Handover, Carrying
<1>4. ASSUME NEW j \in Jobs, Return(j) PROVE Decided'
  BY <1>4 DEF Return, TypeOK, Handover, Carrying
<1>5. ASSUME NEW j \in Jobs, Leave(j) PROVE Decided'
  BY <1>5 DEF Leave, TypeOK
<1>6. ASSUME NEW j \in Jobs, Report(j) PROVE Decided'
  BY <1>6 DEF Report, Wake, TypeOK
<1>7. ASSUME NEW j \in Jobs, Resolve(j) PROVE Decided'
  BY <1>7, ExecutorAssumption DEF Resolve, TypeOK, Handover, Carrying
<1>8. ASSUME NEW j \in Streams, Cancel(j) PROVE Decided'
  BY <1>8 DEF Cancel, Wake
<1>9. ASSUME NEW j \in Streams, Signal(j) \/ CancelFuture(j) PROVE Decided'
  BY <1>9 DEF Signal, CancelFuture
<1>10. CASE Lock \/ Scan \/ Exit \/ PopNext \/ Wait
  BY <1>10 DEF Lock, Scan, Exit, PopNext, Wait
<1>11. CASE Reserve
  BY <1>11 DEF Reserve, TypeOK, Handover, Carrying
<1>12. CASE Spawn
  BY <1>12 DEF Spawn, TypeOK
<1>13. CASE SpawnFails
  BY <1>13 DEF SpawnFails, TypeOK, Handover, Carrying
<1>14. CASE Abandon
  BY <1>14 DEF Abandon
<1>15. CASE Fail
  BY <1>15, ExecutorAssumption DEF Fail, TypeOK, Handover, Carrying
<1>16. ASSUME NEW c \in Closers, BeginShutdown(c) PROVE Decided'
  BY <1>16 DEF BeginShutdown, Wake
<1>17. ASSUME NEW c \in Closers, CloseReplica(c) \/ FailDrained(c) PROVE Decided'
  BY <1>17 DEF CloseReplica, FailDrained
<1>18. CASE UNCHANGED vars
  BY <1>18 DEF vars
<1> QED
  BY <1>1, <1>2, <1>3, <1>4, <1>5, <1>6, <1>7, <1>8, <1>9, <1>10, <1>11, <1>12,
     <1>13, <1>14, <1>15, <1>16, <1>17, <1>18
     DEF Next, LoopStep, WorkerStep, CancelStep, CloseStep

----------------------------------------------------------------------------
\* Slots

\* A step that neither moves the loop to or from "spawn" nor changes the worker
\* of a job that holds a slot.
LEMMA SameOccupants ==
  ASSUME Counted, UNCHANGED inflight,
         \A r \in Replicas : Occupants(r)' = Occupants(r)
  PROVE  Counted'
BY DEF Counted

\* A step that changes the counter of one replica, and who holds its slots, by one.
LEMMA OneSlotChanges ==
  ASSUME TypeOK, Counted, NEW s \in Replicas, NEW n \in Nat, n <= Target[s],
         inflight' = [inflight EXCEPT ![s] = n],
         Cardinality(Occupants(s)') = n,
         \A r \in Replicas : r # s => Occupants(r)' = Occupants(r)
  PROVE  Counted'
<1>1. ASSUME NEW r \in Replicas
      PROVE  inflight'[r] = Cardinality(Occupants(r)') /\ inflight'[r] <= Target[r]
  <2>1. CASE r = s
    BY <2>1 DEF TypeOK
  <2>2. CASE r # s
    BY <2>2 DEF TypeOK, Counted
  <2> QED
    BY <2>1, <2>2
<1> QED
  BY <1>1 DEF Counted

\* Each replica's counter stays the number of its slot holders.
LEMMA NextCounted == TypeOK /\ Handover /\ Foreseen /\ Counted /\ [Next]_vars => Counted'
<1> SUFFICES ASSUME TypeOK, Handover, Foreseen, Counted, [Next]_vars PROVE Counted'
  OBVIOUS
<1> USE DEF poolVars, loopVars, workerVars, cancelVars, closeVars, slotVars
<1>1. ASSUME NEW j \in Jobs, Refuse(j) PROVE Counted'
  BY <1>1, SameOccupants DEF Refuse, Occupants, Running
<1>2. ASSUME NEW j \in Jobs, Enqueue(j) PROVE Counted'
  BY <1>2, SameOccupants DEF Enqueue, Wake, Occupants, Running
<1>3. ASSUME NEW j \in Jobs, Begin(j) PROVE Counted'
  BY <1>3, SameOccupants DEF Begin, TypeOK, Occupants, Running
<1>4. ASSUME NEW j \in Jobs, Return(j) PROVE Counted'
  BY <1>4, SameOccupants DEF Return, TypeOK, Occupants, Running
<1>5. ASSUME NEW j \in Jobs, Leave(j) PROVE Counted'
  <2>1. PICK s \in Replicas : s = slot[j]
    BY DEF TypeOK
  <2>2. j \in Occupants(s) /\ worker[j] # "none"
    BY <1>5, <2>1 DEF Leave, Occupants, Running
  <2>3. Occupants(s)' = Occupants(s) \ {j}
    BY <1>5, <2>1, <2>2, ExecutorAssumption DEF Leave, TypeOK, Handover, Carrying, Occupants, Running
  <2>4. \A r \in Replicas : r # s => Occupants(r)' = Occupants(r)
    BY <1>5, <2>1, <2>2, ExecutorAssumption DEF Leave, TypeOK, Handover, Carrying, Occupants, Running
  <2>5. Cardinality(Occupants(s) \ {j}) = inflight[s] - 1 /\ inflight[s] > 0
    BY <2>2, OccupantCounted
  <2>6. inflight' = [inflight EXCEPT ![s] = inflight[s] - 1]
    BY <1>5, <2>1, <2>5 DEF Leave, TypeOK
  <2>7. inflight[s] - 1 \in Nat /\ inflight[s] - 1 <= Target[s]
    BY <2>5, ExecutorAssumption DEF TypeOK, Counted
  <2> QED
    BY <2>3, <2>4, <2>5, <2>6, <2>7, OneSlotChanges
<1>6. ASSUME NEW j \in Jobs, Report(j) PROVE Counted'
  BY <1>6, SameOccupants DEF Report, Wake, TypeOK, Occupants, Running
<1>7. ASSUME NEW j \in Jobs, Resolve(j) PROVE Counted'
  BY <1>7, SameOccupants DEF Resolve, TypeOK, Occupants, Running
<1>8. ASSUME NEW j \in Streams, Cancel(j) PROVE Counted'
  BY <1>8, SameOccupants DEF Cancel, Wake, Occupants, Running
<1>9. ASSUME NEW j \in Streams, Signal(j) \/ CancelFuture(j) PROVE Counted'
  BY <1>9, SameOccupants DEF Signal, CancelFuture, Occupants, Running
<1>10. CASE Lock \/ Scan \/ Exit \/ PopNext \/ Wait
  BY <1>10, SameOccupants DEF Lock, Scan, Exit, PopNext, Wait, Scanned, Occupants, Running
<1>11. CASE Reserve
  <2>1. held \in Jobs /\ worker[held] = "none"
    BY <1>11, ExecutorAssumption DEF Reserve, Handover, Carrying
  <2>2. CASE open[picked] /\ inflight[picked] < Target[picked]
    <3>1. PICK s \in Replicas : s = picked
      BY DEF TypeOK
    <3>2. Occupants(s)' = Occupants(s) \cup {held} /\ held \notin Occupants(s)
      BY <1>11, <2>1, <2>2, <3>1 DEF Reserve, Occupants, Running
    <3>3. \A r \in Replicas : r # s => Occupants(r)' = Occupants(r)
      BY <1>11, <2>1, <2>2, <3>1 DEF Reserve, Occupants, Running
    <3>4. Cardinality(Occupants(s)') = inflight[s] + 1
      BY <3>2, OccupantsFinite, FS_AddElement DEF Counted
    <3>5. inflight' = [inflight EXCEPT ![s] = inflight[s] + 1]
      BY <1>11, <2>2, <3>1 DEF Reserve
    <3>6. inflight[s] + 1 \in Nat /\ inflight[s] + 1 <= Target[s]
      BY <2>2, <3>1, ExecutorAssumption DEF TypeOK
    <3> QED
      BY <3>3, <3>4, <3>5, <3>6, OneSlotChanges
  <2>3. CASE ~(open[picked] /\ inflight[picked] < Target[picked])
    BY <1>11, <2>3, SameOccupants DEF Reserve, Occupants, Running
  <2> QED
    BY <2>2, <2>3
<1>12. CASE Spawn
  <2>1. held \in Jobs /\ worker[held] = "none"
    BY <1>12, ExecutorAssumption DEF Spawn, Handover, Carrying
  <2>2. \A r \in Replicas : Occupants(r)' = Occupants(r)
    BY <1>12, <2>1 DEF Spawn, TypeOK, Occupants, Running
  <2> QED
    BY <1>12, <2>2, SameOccupants DEF Spawn
<1>13. CASE SpawnFails
  <2>1. held \in Jobs /\ worker[held] = "none"
    BY <1>13, ExecutorAssumption DEF SpawnFails, Handover, Carrying
  <2>2. PICK s \in Replicas : s = picked
    BY DEF TypeOK
  <2>3. Occupants(s)' = Occupants(s) \ {held} /\ held \in Occupants(s)
    BY <1>13, <2>1, <2>2 DEF SpawnFails, Occupants, Running
  <2>4. \A r \in Replicas : r # s => Occupants(r)' = Occupants(r)
    BY <1>13, <2>1, <2>2 DEF SpawnFails, Occupants, Running
  <2>5. Cardinality(Occupants(s) \ {held}) = inflight[s] - 1 /\ inflight[s] > 0
    BY <2>3, OccupantCounted
  <2>6. inflight' = [inflight EXCEPT ![s] = inflight[s] - 1]
    BY <1>13, <2>2 DEF SpawnFails
  <2>7. inflight[s] - 1 \in Nat /\ inflight[s] - 1 <= Target[s]
    BY <2>5, ExecutorAssumption DEF TypeOK, Counted
  <2> QED
    BY <2>3, <2>4, <2>5, <2>6, <2>7, OneSlotChanges
<1>14. CASE Abandon
  BY <1>14, SameOccupants DEF Abandon, Occupants, Running
<1>15. CASE Fail
  BY <1>15, SameOccupants DEF Fail, Occupants, Running
<1>16. ASSUME NEW c \in Closers, BeginShutdown(c) PROVE Counted'
  BY <1>16, SameOccupants DEF BeginShutdown, Wake, Occupants, Running
<1>17. ASSUME NEW c \in Closers, CloseReplica(c) \/ FailDrained(c) PROVE Counted'
  BY <1>17, SameOccupants DEF CloseReplica, FailDrained, Occupants, Running
<1>18. CASE UNCHANGED vars
  BY <1>18, SameOccupants DEF vars, Occupants, Running
<1> QED
  BY <1>1, <1>2, <1>3, <1>4, <1>5, <1>6, <1>7, <1>8, <1>9, <1>10, <1>11, <1>12,
     <1>13, <1>14, <1>15, <1>16, <1>17, <1>18
     DEF Next, LoopStep, WorkerStep, CancelStep, CloseStep

----------------------------------------------------------------------------
\* What the loop has seen

\* Slots the loop has seen free stay free, since only the loop takes them.
LEMMA NextForeseen == TypeOK /\ Handover /\ Foreseen /\ [Next]_vars => Foreseen'
<1> SUFFICES ASSUME TypeOK, Handover, Foreseen, [Next]_vars PROVE Foreseen'
  OBVIOUS
<1> USE DEF Foreseen, UnloadingOnlyWhenStopping, Seen,
            poolVars, loopVars, workerVars, cancelVars, closeVars, slotVars
<1>1. ASSUME NEW j \in Jobs, Refuse(j) PROVE Foreseen'
  BY <1>1 DEF Refuse, TypeOK
<1>2. ASSUME NEW j \in Jobs, Enqueue(j) PROVE Foreseen'
  BY <1>2 DEF Enqueue, Wake, TypeOK
<1>3. ASSUME NEW j \in Jobs, Begin(j) PROVE Foreseen'
  BY <1>3 DEF Begin, TypeOK
<1>4. ASSUME NEW j \in Jobs, Return(j) PROVE Foreseen'
  BY <1>4 DEF Return, TypeOK
<1>5. ASSUME NEW j \in Jobs, Leave(j) PROVE Foreseen'
  <2>1. \A r \in Replicas : inflight'[r] <= inflight[r] /\ inflight'[r] \in Nat
    BY <1>5 DEF Leave, TypeOK
  <2>2. loop = "scan" =>
          \A r \in Replicas : r < Len(view) => inflight'[r] <= Seen(r).inflight
    <3> SUFFICES ASSUME loop = "scan", NEW r \in Replicas, r < Len(view)
                 PROVE  inflight'[r] <= Seen(r).inflight
      OBVIOUS
    <3>1. Seen(r) \in Snapshots
      BY ReplicasFacts DEF TypeOK
    <3>2. Seen(r).inflight \in Nat
      BY <3>1 DEF Snapshots
    <3> QED
      BY <2>1, <3>2 DEF TypeOK
  <2>3. loop = "reserve" => inflight'[picked] < Target[picked]
    BY <2>1, ExecutorAssumption DEF TypeOK
  <2> QED
    BY <1>5, <2>2, <2>3 DEF Leave, TypeOK
<1>6. ASSUME NEW j \in Jobs, Report(j) PROVE Foreseen'
  BY <1>6 DEF Report, Wake, TypeOK
<1>7. ASSUME NEW j \in Jobs, Resolve(j) PROVE Foreseen'
  BY <1>7 DEF Resolve, Answer, TypeOK
<1>8. ASSUME NEW j \in Streams, Cancel(j) PROVE Foreseen'
  BY <1>8 DEF Cancel, Wake
<1>9. ASSUME NEW j \in Streams, Signal(j) \/ CancelFuture(j) PROVE Foreseen'
  BY <1>9 DEF Signal, CancelFuture, Answer, TypeOK
<1>10. CASE Lock
  <2>1. Len(view') = 0
    BY <1>10 DEF Lock
  <2>2. \A r \in Replicas : ~(r < Len(view'))
    BY <2>1, ReplicasFacts
  <2> QED
    BY <1>10, <2>2 DEF Lock
<1>11. CASE Scan
  <2>1. PICK n \in Replicas : n = Len(view)
    BY <1>11, ExecutorAssumption DEF Scan, Replicas, TypeOK
  <2>2. view' = Append(view, [open |-> open[n], inflight |-> inflight[n]])
    BY <1>11, <2>1 DEF Scan
  <2>3. ASSUME NEW r \in Replicas, r < Len(view')
        PROVE  (view'[r + 1].open \/ stopping) /\ inflight[r] <= view'[r + 1].inflight
    <3>1. CASE r = n
      BY <2>1, <2>2, <3>1, ReplicasFacts DEF TypeOK
    <3>2. CASE r # n
      <4>1. r < Len(view) /\ r + 1 \in 1..Len(view)
        BY <2>1, <2>2, <2>3, <3>2, ReplicasFacts DEF TypeOK
      <4>2. view'[r + 1] = view[r + 1]
        BY <2>2, <4>1 DEF TypeOK
      <4> QED
        BY <1>11, <4>1, <4>2 DEF Scan
    <3> QED
      BY <3>1, <3>2
  <2> QED
    BY <1>11, <2>3 DEF Scan
<1>12. CASE Exit \/ Wait
  BY <1>12 DEF Exit, Wait
<1>13. CASE PopNext
  <2>1. PICK r \in Replicas : Pick(r) /\ picked' = r
    BY <1>13 DEF PopNext
  <2>2. r < Len(view)
    BY <1>13, ExecutorAssumption DEF PopNext, Scanned, Replicas
  <2>3. Seen(r).inflight < Target[r] /\ inflight[r] <= Seen(r).inflight
    BY <1>13, <2>1, <2>2 DEF PopNext, Scanned, Pick, LeastLoaded, Eligible
  <2>4. Seen(r) \in Snapshots
    BY <2>2, ReplicasFacts DEF TypeOK
  <2>5. inflight[r] < Target[r]
    BY <2>3, <2>4, ExecutorAssumption DEF Snapshots, TypeOK
  <2> QED
    BY <1>13, <2>1, <2>5 DEF PopNext
<1>14. CASE Reserve
  BY <1>14 DEF Reserve, TypeOK
<1>15. CASE Spawn
  BY <1>15 DEF Spawn, TypeOK
<1>16. CASE SpawnFails
  BY <1>16 DEF SpawnFails, TypeOK
<1>17. CASE Abandon
  BY <1>17 DEF Abandon
<1>18. CASE Fail
  BY <1>18 DEF Fail, Answer, TypeOK, Handover, Carrying
<1>19. ASSUME NEW c \in Closers, BeginShutdown(c) PROVE Foreseen'
  BY <1>19 DEF BeginShutdown, Wake, CanLock
<1>20. ASSUME NEW c \in Closers, CloseReplica(c) PROVE Foreseen'
  BY <1>20 DEF CloseReplica, TypeOK
<1>21. ASSUME NEW c \in Closers, FailDrained(c) PROVE Foreseen'
  BY <1>21 DEF FailDrained, Answer, TypeOK
<1>22. CASE UNCHANGED vars
  BY <1>22 DEF vars
<1> QED
  BY <1>1, <1>2, <1>3, <1>4, <1>5, <1>6, <1>7, <1>8, <1>9, <1>10, <1>11, <1>12,
     <1>13, <1>14, <1>15, <1>16, <1>17, <1>18, <1>19, <1>20, <1>21, <1>22
     DEF Next, LoopStep, WorkerStep, CancelStep, CloseStep

----------------------------------------------------------------------------
\* The invariant and what follows from it

\* The initial states satisfy the invariant.
LEMMA InitIndInv == Init => IndInv
<1> SUFFICES ASSUME Init PROVE IndInv
  OBVIOUS
<1>1. TypeOK
  BY InitTypeOK
<1>2. Handover
  BY ExecutorAssumption DEF Init, Handover, Carrying, Pool!Init
<1>3. Decided
  BY DEF Init, Decided
<1>4. Counted
  <2>1. \A r \in Replicas : Occupants(r) = {}
    BY DEF Init, Occupants, Running
  <2>2. \A r \in Replicas : inflight[r] = 0 /\ Target[r] \in Nat
    BY ExecutorAssumption DEF Init
  <2> QED
    BY <2>1, <2>2, FS_EmptySet DEF Counted
<1>5. Foreseen
  BY DEF Init, Foreseen, UnloadingOnlyWhenStopping
<1> QED
  BY <1>1, <1>2, <1>3, <1>4, <1>5 DEF IndInv

\* Every step keeps the invariant.
LEMMA NextIndInv == IndInv /\ [Next]_vars => IndInv'
BY NextTypeOK, NextHandover, NextDecided, NextCounted, NextForeseen DEF IndInv

\* The invariant holds in every state the executor reaches.
THEOREM Invariance == Spec => []IndInv
BY InitIndInv, NextIndInv, PTL DEF Spec

\* Every variable of the executor keeps its type; in particular the counter of a
\* replica never goes below zero where submit gives a slot back unconditionally.
THEOREM TypeCorrect == Spec => []TypeOK
<1>1. IndInv => TypeOK
  BY DEF IndInv
<1> QED
  BY <1>1, Invariance, PTL

\* A replica never has more calls than its effective target, however many jobs,
\* replicas and closers there are: the loop's check and submit's reservation are
\* under different locks, and workers free slots in between.
THEOREM SlotsAlwaysRespected == Spec => []SlotsRespected
<1>1. IndInv => SlotsRespected
  <2> SUFFICES ASSUME IndInv, NEW r \in Replicas
               PROVE  Cardinality(HoldsSlot(r)) <= Target[r]
    BY DEF SlotsRespected
  <2>1. HoldsSlot(r) \subseteq Occupants(r)
    BY DEF HoldsSlot, Occupants, Running
  <2>2. IsFiniteSet(Occupants(r)) /\ IsFiniteSet(HoldsSlot(r))
    BY <2>1, OccupantsFinite, FS_Subset
  <2>3. Cardinality(HoldsSlot(r)) <= Cardinality(Occupants(r))
    BY <2>1, <2>2, FS_Subset
  <2>4. Cardinality(Occupants(r)) = inflight[r] /\ inflight[r] <= Target[r]
    BY DEF IndInv, Counted
  <2>5. Cardinality(HoldsSlot(r)) \in Nat /\ inflight[r] \in Nat /\ Target[r] \in Nat
    BY <2>2, FS_CardinalityType, ExecutorAssumption DEF IndInv, TypeOK
  <2> QED
    BY <2>3, <2>4, <2>5
<1> QED
  BY <1>1, Invariance, PTL

\* Nobody is told model_unloading by an executor that is not shutting down: the
\* slot the loop saw free is still free when submit looks again.
THEOREM UnloadingIsTrue == Spec => []UnloadingOnlyWhenStopping
<1>1. IndInv => UnloadingOnlyWhenStopping
  BY DEF IndInv, Foreseen
<1> QED
  BY <1>1, Invariance, PTL

============================================================================
