SPECIFICATION AgentSpec
CONSTANTS
    h1 = h1 h2 = h2 h3 = h3 cl = cl r1 = r1 r2 = r2
    g = g gt = gt n = n a = a e = e o = o
    u = u v = v w = w good = good bad = bad s1 = s1 s2 = s2 s3 = s3
    p1 = p1 p2 = p2 p3 = p3 c1 = c1 c2 = c2 any = any loop = loop
    Requests = {r1, r2}
    Rows = {h1, h2, h3, cl}
    NoRow = NoRow
    Names = {g, gt, n, a, e, o}
    NoModel = NoModel
    Arm <- Arms
    Capability <- Capabilities
    Family <- Families
    Text <- Places
    Score <- Scores
    Number <- Numbers
    Turns = 6
    Stories <- Tales
    Urls = {u, v}
    Ports = {u}
    Providers = {"ollama", "vllm"}
    ProviderOf <- Makers
    ModelCount <- Counts
    Keys = {good, bad}
    Valid = {good}
    NoKey = NoKey
    Named = Named
    Operations = 3
    Menus <- AllMenus
    Procs = {p1, p2, p3}
    NoProc = NoProc
    Clients = {c1}
    Other = Other
    Hosts = {any, loop}
    Launches <- AllLaunches
    Browsers = {c1, c2}
    NoSecret = NoSecret
    Saves = 3
    Files <- AllFiles
    Spans <- BothSpans
    Ladder = 2
    KeyCap = 2
    TallyCap = 1
    SaveInterval = 2
    Tags = {g, n, a, o}
    NoTag = NoTag
    Overflow = Overflow
    Since = 6
    Until = 12
    Diaries <- AllDiaries
INVARIANTS HeaderIsCeiling RowsFollowConfig ShownIsTheGate OneAgentPerAddress WindowsExact
PROPERTIES SubstitutesLast StickyUntilReload EnabledKeyWasChecked SecretsFollowRows PristineKept AlltimeKept
CHECK_DEADLOCK FALSE
