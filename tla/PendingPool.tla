---------------------------- MODULE PendingPool ----------------------------
(***************************************************************************)
(* What LoadedModelExecutor relies on in _FairPendingQueue, without the    *)
(* order in which jobs are served: which jobs wait, which were popped and  *)
(* are not settled yet, and the two limits on waiting jobs. FairQueue      *)
(* implements this pool; Executor is built on it.                          *)
(***************************************************************************)
EXTENDS Naturals, FiniteSets

CONSTANTS
  Jobs,         \* the requests clients may send
  KeyOf,        \* fairness key of each job
  MaxPerKey,    \* max_pending_per_key
  MaxTotal      \* max_pending_per_executor

VARIABLES
  waiting,      \* jobs in a per-key deque
  active        \* jobs with an entry in active_started_at

poolVars == <<waiting, active>>

----------------------------------------------------------------------------

SameKey(j) == {i \in waiting : KeyOf[i] = KeyOf[j]}

KeyFull(j) == Cardinality(SameKey(j)) >= MaxPerKey

TotalFull == Cardinality(waiting) >= MaxTotal

Init == waiting = {} /\ active = {}

Admit(j) ==
  /\ ~KeyFull(j)
  /\ ~TotalFull
  /\ waiting' = waiting \cup {j}
  /\ UNCHANGED active

Pop(j) ==
  /\ j \in waiting
  /\ waiting' = waiting \ {j}
  /\ active' = active \cup {j}

\* Variant: leaves the active entry behind.
Settle_KeepsEntry(j) == UNCHANGED poolVars

\* complete and abandon differ only in what they charge.
Settle(j) ==
  /\ active' = active \ {j}
  /\ UNCHANGED waiting

Withdraw(j) ==
  /\ waiting' = waiting \ {j}
  /\ UNCHANGED active

DrainAll ==
  /\ waiting' = {}
  /\ UNCHANGED active

Next ==
  \/ \E j \in Jobs \ (waiting \cup active) : Admit(j)
  \/ \E j \in Jobs : Pop(j) \/ Settle(j) \/ Withdraw(j)
  \/ DrainAll

Spec == Init /\ [][Next]_poolVars

============================================================================
