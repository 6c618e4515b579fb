\* Two clients, and a second sync that reports another amount.
SPECIFICATION Spec
CONSTANTS
    m1 = m1
    m2 = m2
    Clients <- Both
    Bodies <- AllBodies
    Amounts <- TwoAmounts
    Categories = {groceries, dining}
    SplitSumTolerance = 10
    MaxPuts = 3
    MaxUpserts = 1
SYMMETRY Symmetry
INVARIANTS
    TypeOK
    NoHalfBody
    OnlyOverlappingStay
    SumNearChecked
