\* Two requests that may wait for each other: every one of them ends.
SPECIFICATION FairSpec
CONSTANTS
    None = None
    Workers = {w1, w2}
    Carts = {c1}
    Variants = {1, 2}
    Codes = {}
    Orders = {o1, o2}
    Prices = {10}
    Deltas = {}
    MaxQty = 1
    MaxStock = 2
    MaxUses = 1
PROPERTY RequestsEnd
