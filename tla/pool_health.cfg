SPECIFICATION Spec
CONSTANTS
    l1 = l1  p1 = p1
    Locals = {l1}
    Peers = {p1}
    Requests = {r1, r2}
    MaxFailures = 2
    Kinds <- AllKinds
    Width <- TwoOnOne
INVARIANTS DisplayFollowsCache SelectionFinds
