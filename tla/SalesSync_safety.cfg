CONSTANTS
    Requests = {r1, r2}
    Sales = {s1, s2}
    Statuses = {"completed"}
    c1 = c1
    Cashiers = {c1}
    SoldBy <- OneCashier
    Shifts = {h1, h2}
    NoShift = NoShift
    Limit = 1
    Months = 2
    MaxBatch = 2
SYMMETRY Symmetric
CHECK_DEADLOCK FALSE
SPECIFICATION Spec
INVARIANTS
    TypeOK
    OneOpenShift
    SalesCounted
    OvershootBounded
    ShiftsBacked
