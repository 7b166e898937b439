\* Two requests that share refreshes, and two pages that ask the same two couriers: each ends.
SPECIFICATION WaitsSpec
CONSTANTS
    None = None
    Sessions = {s1}
    Requests = {r1, r2}
    Calls = {k1, k2}
    MaxGen = 2
    Copies = FALSE
    Losses = FALSE
    Panels = {steadfast, pathao}
    Views = {v1, v2}
CHECK_DEADLOCK FALSE
PROPERTIES Answered LookupsEnd
