------------------------------ MODULE MCClaims ------------------------------
(* Two requests that share an operation id and one proof; claims about a   *)
(* document, the theorem the proof request is for, and its solution.       *)
EXTENDS Claims, TLC

CONSTANTS check1, check2, proof

Draft(target, assumptions, validation, complete) ==
    [target |-> target, assumptions |-> assumptions, validation |-> validation,
     complete |-> complete]
By(request, field) == [request |-> request, field |-> field]

MCDrafts ==
    {Draft("document", "offset" :> 1, By(check1, "ok"), TRUE),
     Draft("document", "offset" :> 2, None, TRUE),
     Draft("document", <<>>, By(check1, "else"), FALSE),
     Draft("theorem", <<>>, By(proof, "proof"), TRUE),
     Draft("solution", <<>>, By(proof, "proof"), TRUE)}
MCOperationId == check1 :> "check" @@ check2 :> "check" @@ proof :> "proof"
MCCites == check1 :> {"document"} @@ check2 :> {"document"}
             @@ proof :> {"theorem", "solution"}
MCTheorem == check1 :> None @@ check2 :> None @@ proof :> "theorem"
MCCheckResults ==
    {"ok" :> "true", "ok" :> "false", "ok" :> "other"}
=============================================================================
