---------------------------- MODULE JobContract ----------------------------
(***************************************************************************)
(* What a loaded model's executor promises to the clients that send it     *)
(* jobs, with no queue, thread or replica: the life of each job as its     *)
(* client sees it. Executor implements it.                                 *)
(***************************************************************************)
EXTENDS Naturals, FiniteSets

CONSTANTS
  Jobs,
  Streams,      \* jobs whose client may cancel them
  Capacity      \* calls the model's replicas may run at the same time

VARIABLES
  status,       \* of each job
  closed        \* the executor has been told to shut down

contractVars == <<status, closed>>

Running == {j \in Jobs : status[j] = "running"}

Move(j, from, to) == status[j] = from /\ status' = [status EXCEPT ![j] = to]

Init == status = [j \in Jobs |-> "new"] /\ closed = FALSE

Refuse(j) == Move(j, "new", "refused") /\ UNCHANGED closed

Admit(j) == ~closed /\ Move(j, "new", "queued") /\ UNCHANGED closed

\* Only as many jobs run as the replicas have slots, and one that was taken
\* back by its client or failed never starts to.
Start(j) ==
  /\ Cardinality(Running) < Capacity
  /\ Move(j, "queued", "running")
  /\ UNCHANGED closed

\* The slot is free again before the client has its answer.
Release(j) == Move(j, "running", "served") /\ UNCHANGED closed

Finish(j) ==
  /\ \/ Move(j, "served", "result")
     \/ Move(j, "served", "error")
     \/ j \in Streams /\ Move(j, "served", "aborted")
  /\ UNCHANGED closed

FailToStart(j) == Move(j, "queued", "error") /\ UNCHANGED closed

TakeBack(j) == j \in Streams /\ Move(j, "queued", "cancelled") /\ UNCHANGED closed

\* Nobody hears model_unloading before the executor is shut down.
FailUnloading(j) == closed /\ Move(j, "queued", "unloading") /\ UNCHANGED closed

Close == closed' = TRUE /\ UNCHANGED status

Next ==
  \/ \E j \in Jobs :
       \/ Refuse(j) \/ Admit(j) \/ Start(j) \/ Release(j) \/ Finish(j)
       \/ FailToStart(j) \/ TakeBack(j) \/ FailUnloading(j)
  \/ Close

Spec == Init /\ [][Next]_contractVars

============================================================================
