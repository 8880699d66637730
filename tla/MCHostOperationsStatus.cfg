SPECIFICATION OperationsSpec
CONSTANTS
    a = a
    b = b
    root = root
    s1 = s1
    Sessions = {s1}
    Scopes = {a, b}
    Root = root
    Batch <- MCBatch
    Offered = {"compute", "send"}
    External = {"send"}
    Receipted = {"send"}
    Shared = {"send"}
    Reusable = {"compute"}
    Reserves <- MCReserves
    OpIds <- MCOpIds
    RecordIds <- MCRecordIds
    Bodies = {"compute", "send"}
    Units = {"op", "mail"}
    CapChoices <- MCCapChoices
    Reservations <- MCReservations
    Outcomes = {"succeeded", "infrastructure_failure"}
    Raw <- MCRaw
    MaxHistory = 30
    Allowances <- MCAllowances
    Usages <- MCUsages
    MaxCrashes = 2
INVARIANT InProgressHasNotEnded
