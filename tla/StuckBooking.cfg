\* An order moved by hand while the courier is called, without any crash.
SPECIFICATION Spec
CONSTANTS
    None = None
    Workers = {w1}
    Orders = {o1}
    Payments = {}
    Parcels = {q1}
    Crashes = FALSE
SYMMETRY Symmetry
CHECK_DEADLOCK FALSE
INVARIANT BookingMeansUnderWay
