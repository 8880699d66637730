----------------------------- MODULE MCEpisode ------------------------------
(* Two episodes: e1 in a run's scope, e2 in the root scope. *)
EXTENDS Episode, TLC

CONSTANTS e1, e2, r1, root, s1

MCUnits == {"model", "tool"}
MCOpIds == Episodes \X MCUnits \X (1..MaxSteps)
MCRecordIds == (Episodes \X {"episode", "finished"})
                 \cup (MCOpIds \X {"request"})
MCRaw == ModelRaw \cup ToolRaw \cup {Failure}
MCBodies == UNION {[1..n -> MCRaw] : n \in 0..(2 * MaxSteps)}
MCScopeOf == e1 :> r1 @@ e2 :> root
MCCapChoices == {[u \in {} |-> 0]}
MCReservations == {"model" :> 1, "tool" :> 1}

(* Two attempts of each kind for the whole project; a model attempt may report  *)
(* more than it reserved.                                                  *)
MCAllowances == "model" :> 2 @@ "tool" :> 2
MCUsages == {"model" :> 1, "model" :> 2, "tool" :> 1}

=============================================================================
