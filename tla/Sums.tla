-------------------------------- MODULE Sums --------------------------------
(***************************************************************************)
(* The sum of the values of a function to the naturals, as the number of   *)
(* tokens <<x, i>> with i in 1..f[x]: a definition without recursion,      *)
(* which the proofs can reason about with the theorems on finite sets.     *)
(***************************************************************************)
EXTENDS Naturals, FiniteSets

Tokens(f) == UNION {{x} \X (1..f[x]) : x \in DOMAIN f}
Total(f) == Cardinality(Tokens(f))
=============================================================================
