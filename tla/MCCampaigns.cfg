SPECIFICATION CampaignsSpec
CONSTANTS
    None = None
    t1 = t1
    t2 = t2
    small = small
    Tasks = {t1, t2}
    Scope <- MCScope
    Depends <- MCDepends
    Contracts <- MCContracts
    Specs <- MCSpecs
    SoloStarts <- MCSoloStarts
    FactSizes = {1}
    MemoryLimit = 1
INVARIANTS
    SplitsStayApart
    OneSplit
    ShownFactsHold
    RunsMatchThePlan
    WorkUnderCurrentContract
CHECK_DEADLOCK FALSE
