SPECIFICATION Spec
CONSTANTS
    t1 = t1
    t2 = t2
    t3 = t3
    Threads <- MCThreads
    Nobody = Nobody
    BudgetNum = 1
    BudgetDen = 2
    MinRequests = 1
    Window = 1
    MaxTotal = 4
SYMMETRY ThreadSymmetry
INVARIANTS
    BoundedOvershoot
PROPERTIES
    GrantsWithinBudget
