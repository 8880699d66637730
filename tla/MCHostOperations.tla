-------------------------- MODULE MCHostOperations --------------------------
(* Two runs.  The first asks for a computation and for an effect shared by *)
(* all runs, of which a receipt is kept; the second asks for the same      *)
(* computation twice and, last, for something nobody offers.               *)
EXTENDS HostOperations, TLC

CONSTANTS a, b, root, s1

MCBatch == a :> <<"compute", "send">> @@ b :> <<"compute", "compute", "junk">>
MCOpIds == UNION {{r} \X DOMAIN MCBatch[r] : r \in {a, b}}
MCRecordIds == {<<o[1], o[2], k>> : o \in MCOpIds, k \in {"input", "reuse", "refused"}}
MCRaw == {Captured, Shown, Unmeasured, Earlier, Budget} \cup MCOpIds
MCReserves == "compute" :> ("op" :> 2) @@ "send" :> ("mail" :> 1)
MCReservations == {"op" :> 2, "mail" :> 1}
MCCapChoices == {[u \in {} |-> 0]}

(* Two computations at their bound; one may use more than it reserved. *)
MCAllowances == "op" :> 4 @@ "mail" :> 1
MCUsages == {"op" :> 1, "op" :> 2, "op" :> 3, "mail" :> 1}
=============================================================================
