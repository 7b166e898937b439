\* Two requests of one browser and an app with copies of its tokens, with losses.
SPECIFICATION Spec
CONSTANTS
    None = None
    Sessions = {s1}
    Requests = {r1, r2}
    Calls = {k1, k2}
    MaxGen = 3
    Copies = TRUE
    Losses = TRUE
CHECK_DEADLOCK FALSE
SYMMETRY Symmetry
INVARIANTS TypeOK WorksOnce StaysSignedIn
