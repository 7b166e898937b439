\* Two requests, two bags, one variant, one code: prices, limits and uses.
SPECIFICATION Spec
CONSTANTS
    None = None
    Workers = {w1, w2}
    Carts = {c1, c2}
    Variants = {1}
    Codes = {d1}
    Orders = {o1, o2}
    Prices = {10, 20}
    Deltas = {}
    MaxQty = 1
    MaxStock = 2
    MaxUses = 2
SYMMETRY Symmetry
INVARIANT UsesAreOrders
PROPERTY SalesSpec
