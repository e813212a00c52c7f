SPECIFICATION MeshSpec
CONSTANTS
    n1 = n1  n2 = n2  r1 = r1  r2 = r2
    NoAgent = NoAgent
    Agents = {n1, n2}
    Requests = {r1, r2}
    Entry <- Entries
    AgentMax <- Ceilings
    Depth = 4
    Stories <- Plain
INVARIANT ForwardsTerminate
PROPERTY MeshRests
