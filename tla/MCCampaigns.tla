---------------------------- MODULE MCCampaigns ----------------------------
(* Two tasks that share a memory scope.  The first has two submissions and *)
(* a scheduled revision of the file its memory depends on between them;    *)
(* one project revision of it changes that file too.                       *)
EXTENDS Campaigns, TLC

CONSTANTS t1, t2, small

Offset(v) == "offset" :> v
MCScope == t1 :> "scope" @@ t2 :> "scope"
MCDepends == t1 :> {"offset"} @@ t2 :> {"offset"}
MCContracts ==
    t1 :> <<<<Offset(1), Offset(2)>>, <<Offset(2), Offset(2)>>>>
      @@ t2 :> <<<<Offset(1)>>>>

Row(t, split) == [task |-> t, split |-> split]
Campaign(id, rows, n) ==
    [id |-> id, rows |-> rows, repetitions |-> n, config |-> small]
MCSpecs ==
    {Campaign("a", <<Row(t1, "training")>>, 1),
     Campaign("b", <<Row(t2, "training")>>, 2),
     Campaign("b", <<Row(t2, "held-out")>>, 2)}

(* The id the second campaign planned is used outside it. *)
MCSoloStarts ==
    {[task |-> t2, config |-> small, run |-> PlannedRun("b", 1)]}

=============================================================================
