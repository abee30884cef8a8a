CONSTANTS
    Requests = {r1, r2}
    Members = {m1, m2}
    NoMember = NoMember
    Amounts = {3}
    ChosenTiers = {"gold"}
    MaxBatch = 2
    MaxSpending = 3
    MaxEarned = 1
CHECK_DEADLOCK FALSE
SPECIFICATION Spec
INVARIANT NoOverdraft
