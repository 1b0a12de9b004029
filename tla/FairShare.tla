----------------------------- MODULE FairShare -----------------------------
(***************************************************************************)
(* What the order of _FairPendingQueue is for. The queue is put under the  *)
(* load its executor gives it (a job is popped only into a free slot, and  *)
(* a call ends within MaxCall or is given up), and a history variable      *)
(* remembers which key was served while which other key had work waiting.  *)
(***************************************************************************)
EXTENDS FairQueue

CONSTANTS
  Slots,        \* sum of the replicas' effective_target_inflight
  MaxCall       \* longest time between a pop and its settlement

ASSUME ShareAssumption == Slots \in Nat \ {0} /\ MaxCall \in Nat \ {0}

\* Pairs <<k, o>>: k was served while o waited, in o's present backlog.
VARIABLE served

shareVars == <<vars, served>>

----------------------------------------------------------------------------

Waiting == {k \in DOMAIN states : states[k].fifo # <<>>}

PopIntoSlot == Cardinality(DOMAIN dequeuedAt) < Slots /\ PopNext

CallsInTime == \A j \in DOMAIN dequeuedAt : clock - dequeuedAt[j] < MaxCall

ShareInit == Init /\ served = {}

Taken == DOMAIN dequeuedAt' \ DOMAIN dequeuedAt

\* The key has kept its state: what has expired is forgotten.
Kept(k) ==
  k \in DOMAIN states \cap DOMAIN states' /\ states'[k].activation = states[k].activation

Record ==
  served' = {p \in served \cup ({KeyOf[j] : j \in Taken} \X Waiting) :
               p[1] # p[2] /\ p[2] \in Waiting' /\ Kept(p[1])}

ShareNext ==
  /\ \/ \E j \in Jobs : Refuse(j) \/ Enqueue(j) \/ Withdraw(j)
     \/ PopIntoSlot
     \/ \E j \in Jobs, begin, end \in 0..clock : Complete(j, begin, end)
     \/ \E j \in Jobs, now \in 0..clock : Abandon(j, now)
     \/ Drain
     \/ Observe
     \/ CallsInTime /\ Tick
  /\ Record

ShareSpec == ShareInit /\ [][ShareNext]_shareVars

----------------------------------------------------------------------------

\* A key that was served while another key had work waiting is never ahead of
\* that key by more, in weighted slot-time, than what was running when it was
\* served: one call in each slot of its own, and one call in each remaining
\* slot of the waiting key whose estimate may settle lower. This holds across
\* any number of turns until the history of the key is forgotten, so a backlog
\* shares slot-time by weight.
LeadBounded ==
  \A p \in served :
    LET k == p[1]
        o == p[2]
    IN  k \in DOMAIN states /\ o \in DOMAIN states =>
          Score(k, states[k], clock)
            <= states[o].service + Rate[k] * Slots * MaxCall
                                 + Rate[o] * (Slots - 1) * MaxCall

============================================================================
