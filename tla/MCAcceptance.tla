---------------------------- MODULE MCAcceptance ----------------------------
(* One candidate; two revisions with a gate and a rule.  The second        *)
(* revision changes the request of the gate's check and keeps the rule's.  *)
EXTENDS Acceptance, TLC

CONSTANTS t1, r1, r2, test1, test2, lint

MCPolicy == "gate" :> [kind |-> "gate", check |-> "test"]
         @@ "style" :> [kind |-> "rule", check |-> "lint"]
MCPolicies == [r \in Revisions |-> MCPolicy]
MCCheckRequest ==
    [r \in Revisions |-> [t \in Targets |->
        "test" :> (IF r = r1 THEN test1 ELSE test2) @@ "lint" :> lint]]
MCCites == test1 :> {t1} @@ test2 :> {t1} @@ lint :> {}
MCCheckValues ==
    test1 :> [{"gate"} -> BOOLEAN] @@ test2 :> [{"gate"} -> BOOLEAN]
      @@ lint :> [{"style"} -> BOOLEAN]
MCReceiptChoices ==
    {"test" :> test1 @@ "lint" :> lint, "test" :> test2 @@ "lint" :> lint}
Excepted(r) == Exception([target |-> t1, revision |-> r], "style")
MCExceptionChoices ==
    {<<>>, "gate" :> Excepted(r1)} \cup {"style" :> Excepted(r) : r \in Revisions}
=============================================================================
