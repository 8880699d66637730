SPECIFICATION FairSubmissionSpec
CONSTANTS
    MaxSteps = 2
    MaxSessions = 2
    MaxWrites = 1
    PromptBound = 2
    MaxTokens = 1
    Usages <- SomeUsages
INVARIANTS
    KnownIsStopped
    CandidateIsWhole
    CommandsInOrder
    ChargedAsSent
    DispatchIsPinned
    VerdictIsDeserved
PROPERTY EverySessionEnds
CHECK_DEADLOCK FALSE
