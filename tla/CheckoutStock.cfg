\* Two requests, two variants, no codes: stock, prices, cancellations, deletions.
SPECIFICATION Spec
CONSTANTS
    None = None
    Workers = {w1, w2}
    Carts = {c1}
    Variants = {1, 2}
    Codes = {}
    Orders = {o1, o2}
    Prices = {10}
    Deltas <- OneUpOneDown
    MaxQty = 1
    MaxStock = 2
    MaxUses = 1
SYMMETRY Symmetry
INVARIANTS TypeOK StockExplained OrderMovesMatch CheckedStillHolds NoCheckoutCircle
