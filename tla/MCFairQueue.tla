---------------------------- MODULE MCFairQueue ----------------------------
(***************************************************************************)
(* Two keys that share two slots; the first has three times the weight of  *)
(* the second, and more to do than fits into its bucket.                   *)
(***************************************************************************)
EXTENDS FairShare

CONSTANTS a1, a2, b1, b2, b3

MCKeyOf == (a1 :> "a") @@ (a2 :> "a") @@ (b1 :> "b") @@ (b2 :> "b") @@ (b3 :> "b")
MCRate == ("a" :> 1) @@ ("b" :> 3)

\* Jobs of one key differ in nothing but their name.
JobSymmetry == Permutations({a1, a2}) \cup Permutations({b1, b2, b3})

============================================================================
