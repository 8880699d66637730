SPECIFICATION RunsSpec
CONSTANTS
    unit = unit
    shared = shared
    a = a
    b = b
    r1 = r1
    r2 = r2
    Run = {r1, r2}
    Version <- MCVersion
    Contract <- MCContract
    Isolated = {unit}
    Candidates <- MCCandidates
    Returns <- MCReturns
    CheckBudget = 5
    CheckAllowance = 5
    Guarded = {r1, r2}
    Near <- MCNear
    ExactRepeats = 1
    NearRepeats = 2
    Window = 2
INVARIANTS
    ListedRunsResume
CHECK_DEADLOCK FALSE
