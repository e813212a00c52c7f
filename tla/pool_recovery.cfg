SPECIFICATION FairSpec
CONSTANTS
    l1 = l1  p1 = p1
    Locals = {l1}
    Peers = {p1}
    Requests = {r1, r2}
    MaxFailures = 1
    Kinds <- UpOrDown
    Width <- TwoOnOne
PROPERTIES NoBlackhole DeadLeaves
