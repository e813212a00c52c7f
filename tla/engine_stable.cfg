SPECIFICATION FairSpec
CONSTANTS
    r1 = r1  r2 = r2  r3 = r3  s1 = s1  l1 = l1  c1 = c1  p1 = p1  u1 = u1  u2 = u2
    NoUrl = NoUrl
    Requests = {r1, r2, r3}
    Sources <- TwoSources
    SrcOf <- SrcMix
    Cap <- CapMix
    Streams = {r2}
    LocalOnly = {r1, r3}
    Batch = {}
    Messages = {r2}
    LocalUrls = {l1}
    CloudUrls = {c1}
    Peers = {p1}
    Homes <- OneHome
    AgentMax = 1
    MaxLoad = 1
    Flap = {"peer"}
INVARIANTS SourceLedgerExact SourceCapHeld LocalAdmissionBound
PROPERTIES AdmissionImplemented AdmittedEnds
