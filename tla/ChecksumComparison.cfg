SPECIFICATION Spec
CONSTANTS
    Objects = {a, b, n}
    a = a
    b = b
    n = n
    InPlace = {a, b}
    MaxFaults = 2
SYMMETRY Symmetry
CHECK_DEADLOCK FALSE
INVARIANTS
    TypeOK
    DamageIsRaised
    AlarmsNameACause
    TotalsAddUp
