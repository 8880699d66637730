SPECIFICATION SubmissionSpec
CONSTANTS
    MaxSteps = 2
    MaxSessions = 1
    MaxWrites = 0
    PromptBound = 2
    MaxTokens = 1
    Usages <- SomeUsages
INVARIANT EndedByWorkerAttempt
CHECK_DEADLOCK FALSE
