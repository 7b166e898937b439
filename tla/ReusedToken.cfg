\* An app presents a token from two refreshes ago.
SPECIFICATION Spec
CONSTANTS
    None = None
    Sessions = {s1}
    Requests = {r1}
    Calls = {k1, k2}
    MaxGen = 3
    Copies = TRUE
    Losses = FALSE
CHECK_DEADLOCK FALSE
INVARIANT ReuseEnds
