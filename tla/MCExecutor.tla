----------------------------- MODULE MCExecutor -----------------------------
(***************************************************************************)
(* Instances of the executor: which job has which key, and the capacity of *)
(* each replica.                                                           *)
(***************************************************************************)
EXTENDS Executor, TLC

CONSTANTS j1, j2, j3

\* A stream of one key and two plain jobs of another, which differ in nothing.
MCKeyOf == (j1 :> "a") @@ (j2 :> "b") @@ (j3 :> "b")
JobSymmetry == Permutations({j2, j3})

OneSlotEach == [r \in Replicas |-> 1]
TwoSlotsEach == [r \in Replicas |-> 2]

============================================================================
