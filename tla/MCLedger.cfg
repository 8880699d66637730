SPECIFICATION Spec
CONSTANTS
    s1 = s1
    o1 = o1
    o2 = o2
    o3 = o3
    b1 = b1
    b2 = b2
    r1 = r1
    r2 = r2
    root = root
    call = call
    token = token
    m1 = m1
    c1 = c1
    Sessions = {s1}
    OpIds = {o1, o2, o3}
    RecordIds = {c1}
    Bodies = {b1, b2}
    Scopes = {r1, r2}
    Root = root
    Units = {call, token}
    Allowances <- MCAllowances
    CapChoices <- MCCapChoices
    Reservations <- MCReservations
    Usages <- MCUsages
    Outcomes = {"succeeded"}
    Raw = {m1}
    MaxHistory = 1
SYMMETRY MCSymmetry
INVARIANTS
    RowsLoad
    WithinBudgets
    DoubtAndBreachStop
CHECK_DEADLOCK FALSE
