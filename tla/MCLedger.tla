------------------------------ MODULE MCLedger ------------------------------
(* A small instance of Ledger for TLC. *)
EXTENDS Ledger, TLC, Functions

CONSTANTS s1, o1, o2, o3, b1, b2, r1, r2, root, call, token, m1, c1

(* "call" is declared; "token" is a unit the manifest does not declare. *)
MCAllowances == call :> 2
MCCapChoices == {call :> 1, [u \in {} |-> 0]}
MCReservations == {call :> 1, [u \in {} |-> 0]}
MCUsages == {call :> 1, call :> 3, call :> 0 @@ token :> 1, [u \in {} |-> 0]}
MCSymmetry == Permutations(OpIds) \cup Permutations(Bodies)
                \cup Permutations(Scopes)

(* The token count is the ordinary sum. *)
ASSUME TotalIsTheSum ==
    \A f \in [1..3 -> 0..3] :
        Total(f) = FoldFunction(LAMBDA x, y : x + y, 0, f)
=============================================================================
