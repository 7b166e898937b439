\* Two requests about the parcel of one order that is paid twice, with lost answers and crashes.
SPECIFICATION Spec
CONSTANTS
    None = None
    Workers = {w1, w2}
    Orders = {o1}
    Payments = {p1, p2}
    Parcels = {q1, q2}
    Crashes = TRUE
SYMMETRY Symmetry
CHECK_DEADLOCK FALSE
INVARIANTS TypeOK OneClaim RecordedParcel PaidOnce FreeMeansPaid
PROPERTY LifeSpec
