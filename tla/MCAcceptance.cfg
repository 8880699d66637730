SPECIFICATION AcceptanceSpec
CONSTANTS
    t1 = t1
    r1 = r1
    r2 = r2
    test1 = test1
    test2 = test2
    lint = lint
    None = None
    Forged = Forged
    Targets = {t1}
    Revisions = {r1, r2}
    Policies <- MCPolicies
    CheckRequest <- MCCheckRequest
    Cites <- MCCites
    CheckValues <- MCCheckValues
    ReceiptChoices <- MCReceiptChoices
    ExceptionChoices <- MCExceptionChoices
    CheckOutcomes = {"succeeded"}
    MaxEntries = 2
INVARIANTS
    AcceptedIsJustified
    BreachBlocksAcceptance
CHECK_DEADLOCK FALSE
