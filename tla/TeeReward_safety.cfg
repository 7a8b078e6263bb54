SPECIFICATION Spec
CONSTANTS
    Members = {m1, m2, m3}
    Requests = {r1, r2, r3}
    Quantity = 2
    RequiredStamps = 1
    MaxStamps = 1
    Times = {t1, t2}
    Null = Null
SYMMETRY Symmetry
INVARIANTS
    OnePlacePerMember
    ConfirmedIsDurable
PROPERTIES
    NoPlaceWhenClosed
    ImplementsAllocation
