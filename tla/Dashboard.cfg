\* Two requests at once on: three accounts; three zones that share two districts; two gateways and
\* a courier with two keys; three categories and a product; two products and a category
\* that share two web addresses; one product two customers review;
\* two pages that ask the same two couriers.
SPECIFICATION DashboardSpec
CONSTANTS
    None = None
    Workers = {w1, w2}
    Users = {u1, u2, u3}
    Districts = {d1, d2}
    Zones = {z1, z2, z3}
    Providers = {sms1, sms2, courier}
    Gateways = {sms1, sms2}
    Keys = {k1, k2}
    Cats = {c1, c2, c3}
    Products = {p1}
    ProductPages = {p1, p2}
    CategoryPages = {q1}
    Slugs = {s1, s2}
    MaxTries = 2
    Customers = {x1, x2}
    Ratings = {2, 5}
    Panels = {steadfast, pathao}
    Views = {v1, v2}
SYMMETRY Symmetry
INVARIANTS
    DashboardTypeOK
    AdminLeft
    OneZoneEach
    OthersOff
    OnlyStaleLoops
    AddressesApart
    TallyUnlessOverlapped
PROPERTIES KeysKept HiddenStays
