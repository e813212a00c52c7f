SPECIFICATION Spec
CONSTANTS
    q1 = q1  q2 = q2  q3 = q3  q4 = q4  q5 = q5  q6 = q6
    k1 = k1  k2 = k2  k3 = k3  k4 = k4  k5 = k5  u1 = u1  u2 = u2
    NoUrl = NoUrl
    IndexOf <- Indices
    MaxEntries = 2
    MaxLive = 2
    Requests = {q1, q2}
    KeyOf <- TwoOfOne
    Keys = {k1, k2, k3, k4, k5}
    Ledgered = {q1, q2}
    Rows <- TwoRows
    Ineligible <- AnyDialect
    Flap = TRUE
PROPERTY GivesUpExhausted
CHECK_DEADLOCK FALSE
