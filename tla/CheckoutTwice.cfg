\* One bag, two requests: both may place it.
SPECIFICATION Spec
CONSTANTS
    None = None
    Workers = {w1, w2}
    Carts = {c1}
    Variants = {1}
    Codes = {}
    Orders = {o1, o2}
    Prices = {10}
    Deltas = {}
    MaxQty = 1
    MaxStock = 2
    MaxUses = 1
PROPERTY OrderIsTheBag
