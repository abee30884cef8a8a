CONSTANTS
    Requests = {r1, r2}
    Items = {i1}
    Terms = {t1, t2}
    Charges = {c1, c2}
    NoCharge = NoCharge
    Notices <- SafetyNotices
SYMMETRY Symmetric
SPECIFICATION Spec
INVARIANTS
    TypeOK
    PaidIsBacked
    PaymentAccounted
    PaidAtIffPaid
    SingleFlight
PROPERTY LedgerSpec
