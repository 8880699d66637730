SPECIFICATION FairEpisodeSpec
CONSTANTS
    e1 = e1
    e2 = e2
    r1 = r1
    root = root
    s1 = s1
    Sessions = {s1}
    Episodes = {e1, e2}
    Scopes = {r1}
    Root = root
    OpIds <- MCOpIds
    RecordIds <- MCRecordIds
    Bodies <- MCBodies
    Units <- MCUnits
    CapChoices <- MCCapChoices
    Reservations <- MCReservations
    Outcomes = {"succeeded", "infrastructure_failure"}
    Raw <- MCRaw
    MaxHistory = 30
    ScopeOf <- MCScopeOf
    Allowances <- MCAllowances
    Usages <- MCUsages
    Receipted = {"model"}
    MaxSteps = 2
    MaxCrashes = 1
INVARIANTS
    ReplayNeverConflicts
    FinishedIsFinal
PROPERTIES
    ImplementsAttempts
    EveryEpisodeSettles
    AbandonedStays
