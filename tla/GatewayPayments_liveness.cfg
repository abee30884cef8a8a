CONSTANTS
    Requests = {r1, r2}
    Items = {i1}
    Terms = {t1}
    Charges = {c1, c2}
    NoCharge = NoCharge
    Notices <- LivenessNotices
SPECIFICATION FairSpec
PROPERTIES
    RequestEnds
    PaymentSettles
