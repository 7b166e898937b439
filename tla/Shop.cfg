\* Two requests at once on: a guest's bag and a customer's; a product of two variants; the texts of
\* an order; one row of settings.  One bag of two lines to price, three rows to list a page at a
\* time, two addresses to limit.
SPECIFICATION ShopSpec
CONSTANTS
    None = None
    Workers = {w1, w2}
    Guests = {g1}
    Owners = {o1}
    Things = {t1}
    Marks = {m1, m2}
    Pieces = {0, 2}
    Most = 3
    Variants = {v1, v2}
    Prices = {1, 2}
    Orders = {n1}
    MaxAttempts = 2
    Slots = 1
    MaxChanges = 2
    Values = {10, 33, 101, 20000}
    Caps = {1500}
    Minima = {0, 10000}
    Amounts = {99, 12345}
    Weights = {0, 1000, 1001}
    Counts = {1, 2}
    MaxLines = 2
    Charges = {6000}
    PerKg = {2000}
    FreeFrom = {20000}
    VatRates = {0, 750}
    IntMax = 3000
    Rows = {1, 2, 3}
    SortKeys = {2, 3}
    PageSize = 1
    Callers = {c1, c2}
    Every = 2
    Burst = 2
    Forget = 6
    Window = 4
    Contents = {s1, s2}
    MaxEntries = 3
INVARIANTS
    ShopTypeOK
    JoinsOnce CirclesExplained
    PriceRangeKept
    TextsTrue FewTexts
    PricedRight
    SeenOnce
    MinuteBound
    AuditTells
PROPERTIES MergeAddsUp TextsEnd
\* An order's life ends, and so does the pricing of a bag.
CHECK_DEADLOCK FALSE
