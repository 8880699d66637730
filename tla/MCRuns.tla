------------------------------- MODULE MCRuns -------------------------------
(* Two runs.  The first has three submissions under one contract, and the  *)
(* worker goes back and forth between two candidates that are near to each *)
(* other; the second has two, of which the second is decided under a       *)
(* revised contract, which drops the check of shared state.                *)
EXTENDS Runs, TLC

CONSTANTS r1, r2, unit, shared, a, b

MCContract == r1 :> <<<<unit>>, <<unit>>, <<unit>>>>
                @@ r2 :> <<<<unit, shared>>, <<unit>>>>
MCVersion == r1 :> <<0, 0, 0>> @@ r2 :> <<0, 1>>
MCCandidates == r1 :> {a, b} @@ r2 :> {a}
MCNear == {<<a, b>>, <<b, a>>}
MCReturns == unit :> {"passed", "unproved", "unsupported"}
               @@ shared :> {"passed", "rejected", "infrastructure_failure"}
=============================================================================
