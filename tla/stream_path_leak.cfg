SPECIFICATION Spec
CONSTANTS
    r1 = r1  r2 = r2  r3 = r3  s1 = s1  l1 = l1  c1 = c1  p1 = p1  u1 = u1  u2 = u2
    NoUrl = NoUrl
    Requests = {r1, r2}
    Sources <- OneSource
    SrcOf <- SrcOne
    Cap <- CapTwo
    Streams = {r1, r2}
    LocalOnly = {}
    Batch = {}
    Messages = {}
    LocalUrls = {l1}
    CloudUrls = {c1}
    Peers = {p1}
    Homes <- TwoHomes
    AgentMax = 0
    MaxLoad = 0
    Flap = {}
INVARIANT NoPhantomHops
