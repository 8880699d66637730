SPECIFICATION ClaimsSpec
CONSTANTS
    None = None
    check1 = check1
    check2 = check2
    proof = proof
    Requests = {check1, check2, proof}
    Names = {"offset"}
    Versions = {1, 2}
    Drafts <- MCDrafts
    OperationId <- MCOperationId
    Cites <- MCCites
    Theorem <- MCTheorem
    CheckResults <- MCCheckResults
    ProofUnits = 1
    MaxEvents = 3
INVARIANTS
    SupportMatchesAncestry
    PassedIsEarned
    OneAttemptPerUnit
CHECK_DEADLOCK FALSE
