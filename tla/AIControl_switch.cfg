SPECIFICATION Spec
CONSTANTS
    Threads = {t1, t2}
    Caps = {0, 1}
    MaxCost = 2
    MaxSpent = 3
    Bootstrap = TRUE
INVARIANTS
    TypeOK
    SwitchStaysOff
    SwitchAgrees
    BudgetHolds
    RouteExists
SYMMETRY Alike
