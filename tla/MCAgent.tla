------------------------------- MODULE MCAgent -------------------------------
(* Instances of the agent's parts that share no state in the model: routing, *)
(* the control plane, the processes of one machine, the configuration file.  *)
(* A behaviour moves one part; the others rest in one initial state.         *)
EXTENDS Routing, ControlPlane, AgentLifecycle, ConfigStore, UsageLedger

CONSTANTS
    h1, h2, h3, cl, r1, r2,         \* rows, requests
    g, gt, n, a, e, o,              \* models
    u, v, w, good, bad, s1, s2, s3, \* urls, keys, secrets
    p1, p2, p3, c1, c2, any, loop   \* processes, clients, listen hosts

VARIABLE part

---------------------------------------------------------------------------
(* Routing: two hosts, a third one, a cloud provider; g is served also as    *)
(* g:tag, a and n are other chat models, e an embedding model, o a remote    *)
(* one.                                                                      *)

Capabilities == (g :> "chat") @@ (gt :> "chat") @@ (n :> "chat") @@ (a :> "chat") @@ (e :> "embedding") @@ (o :> "chat")
Families == (g :> "gemma") @@ (gt :> "gemma") @@ (n :> "nemotron") @@ (a :> "apple") @@ (e :> "bge") @@ (o :> "opus")
Places == (a :> 1) @@ (e :> 2) @@ (g :> 3) @@ (gt :> 4) @@ (n :> 5) @@ (o :> 6)
Arms == [p \in Names \X Names |-> IF p[1] = p[2] THEN 1 ELSE IF p = <<g, gt>> THEN 2 ELSE 0]
Scores == [p \in {"", "k", "17"} \X Rows |-> CASE p[2] = h1 -> 1 [] p[2] = h2 -> 3 [] p[2] = h3 -> 2 [] OTHER -> 0]
Numbers == "17" :> 17

RowOf(kind) ==
    [local |-> kind = "local", peer |-> kind = "peer", cloud |-> IF kind = "cloud" THEN "acme" ELSE "",
     provider |-> IF kind = "cloud" THEN "anthropic" ELSE "ollama",
     cap |-> 0, view |-> [max |-> 0, perRow |-> 0], up |-> TRUE, gated |-> FALSE, ms |-> 0]
Ask(m) == [model |-> m, source |-> "", key |-> "", secret |-> "", agent |-> "", signals |-> {},
           surface |-> "chat", local |-> FALSE, hops |-> 0, strategy |-> "", pin |-> NoRow,
           session |-> "", shard |-> 0]
Base ==
    [rows |-> (h1 :> RowOf("local")) @@ (h2 :> RowOf("peer")) @@ (h3 :> RowOf("peer")) @@ (cl :> RowOf("cloud")),
     order |-> <<h2, h1>>, groups |-> <<>>, aliases |-> <<>>, policies |-> <<>>, sources |-> <<>>,
     strategy |-> "auto", fallback |-> "none", master |-> TRUE, remote |-> TRUE, gateway |-> FALSE,
     poolCap |-> 0, agentMax |-> 0, threshold |-> 1,
     catalog |-> (h1 :> <<g>>) @@ (h2 :> <<n, e>>) @@ (h3 :> <<>>) @@ (cl :> <<o>>),
     load |-> [b \in Rows |-> 0], loads |-> [b \in Rows |-> {}], lists |-> FALSE,
     requests |-> (r1 :> Ask(g))]

\* A chat group over two hosts and an embedding group that shares one.
Group(hosts, models) == [hosts |-> hosts, models |-> models]
Chat == Group({h1, h2}, <<g, n, a>>)
Vectors == Group({h2}, <<e, g>>)
Grouped == {[Base EXCEPT !.groups = gs, !.strategy = how,
                !.loads = (h1 :> {<<gt, n>>, <<>>}) @@ (h2 :> {<<a, n>>, <<e>>}) @@ [b \in Rows |-> {}],
                !.requests = (r1 :> Ask(g)) @@ (r2 :> q)] :
              how \in {"auto", "local_spillover"}, gs \in {<<Chat>>, <<Chat, Vectors>>},
              q \in {Ask(g), [Ask(e) EXCEPT !.surface = "embeddings"], [Ask(g) EXCEPT !.hops = 1]}}

Rule(m, local, cloud) == [model |-> m, strategy |-> "round_robin", local |-> local, cloud |-> cloud,
                          surfaces |-> {"chat", "messages"}]
Source(id) == [id |-> id, secret |-> "", agents |-> {}, strategy |-> "", prefer |-> "",
               local |-> FALSE, cloud |-> TRUE, allow |-> {}, rewrites |-> <<>>, rules |-> <<>>]
Tool == [Source("tool") EXCEPT !.rules = ("think" :> Rule(g, FALSE, TRUE)) @@ ("background" :> Rule(NoModel, TRUE, FALSE)),
            !.rewrites = (o :> g), !.agents = {"cli"}]
Safe == [Source("safe") EXCEPT !.secret = "s", !.cloud = FALSE, !.local = TRUE]
Few == [Source("few") EXCEPT !.prefer = "anthropic", !.allow = {"other"}]
Lax == [Source("lax") EXCEPT !.cloud = FALSE, !.allow = {"other"}, !.rules = ("think" :> Rule(NoModel, FALSE, TRUE))]
Policies == <<[models |-> {g}, source |-> "", strategy |-> "failover", prefer |-> "", cloud |-> FALSE]>>
Sourced == {[Base EXCEPT !.sources = <<Tool, Safe, Few, Lax>>, !.policies = ps, !.fallback = f, !.order = <<cl, h2, h1>>,
               !.catalog = (h1 :> <<g>>) @@ (h2 :> <<g>>) @@ (h3 :> <<>>) @@ (cl :> <<g>>),
               !.lists = TRUE,
               !.requests = (r1 :> q)] :
              ps \in {<<>>, Policies}, f \in {"none", "local", "cloud"},
              q \in {[Ask(m) EXCEPT !.source = s, !.agent = ag, !.key = "safe", !.secret = "s", !.signals = sg, !.local = l[1], !.hops = l[2]] :
                       m \in {o, g}, s \in {"tool", "few", "lax", "safe", ""}, ag \in {"", "cli"}, sg \in {{}, {"think", "background"}, {"background"}},
                       l \in {<<FALSE, 0>>, <<TRUE, 0>>, <<FALSE, 2>>}}}
Capped == {[Base EXCEPT !.rows = (h1 :> [RowOf("local") EXCEPT !.ms = 2]) @@ (h2 :> [RowOf("peer") EXCEPT !.cap = 1]) @@ (h3 :> [RowOf("peer") EXCEPT !.ms = 3]) @@ (cl :> RowOf("cloud")),
             !.order = <<h1, h2, h3>>, !.groups = gs, !.strategy = how, !.gateway = gw, !.agentMax = 1,
             !.catalog = [b \in Rows |-> <<g>>], !.load = (h2 :> 1) @@ (h3 :> 2) @@ [b \in Rows |-> 0],
             !.requests = (r1 :> q) @@ (r2 :> q)] :
            how \in {"auto", "local_spillover", "batch_shard", "latency_weighted", "local_first", "failover", "round_robin"},
            gs \in {<<>>, <<Group({h1, h2, h3}, <<g>>)>>}, gw \in BOOLEAN,
            q \in {[Ask(g) EXCEPT !.session = k, !.pin = p] : k \in {"", "k", "17"}, p \in {NoRow, h2}}}

\* A request falls back on a member of its group that a row outside it serves.
Strayed == {[Base EXCEPT !.groups = <<Group({h2}, <<g, n>>)>>, !.order = <<h2, h3>>,
                !.catalog = (h1 :> <<>>) @@ (h2 :> <<n>>) @@ (h3 :> <<n>>) @@ (cl :> <<o>>)]}
\* Two requests of one batch, the header on the first, the same shard or another.
Batched == {[Base EXCEPT !.order = <<h2, h1, h3>>, !.groups = <<Chat>>, !.strategy = how,
                !.catalog = (h1 :> c) @@ (h2 :> <<n>>) @@ (h3 :> <<g>>) @@ (cl :> <<o>>),
                !.requests = (r1 :> [Ask(g) EXCEPT !.shard = 1, !.local = TRUE, !.pin = p]) @@ (r2 :> q)] :
               how \in {"auto", "batch_shard", "local_first"}, c \in {<<g>>, <<a>>}, p \in {NoRow, h2},
               q \in {[Ask(g) EXCEPT !.shard = k, !.hops = h] : k \in {1, 2}, h \in {0, 2}}}
Tales == Grouped \cup Sourced \cup Capped \cup Strayed \cup Batched

---------------------------------------------------------------------------
(* Control plane *)

Makers == (u :> "ollama") @@ (v :> "ollama")
Counts == (u :> 1) @@ (v :> 2)
Env(names, standard, token) == [named |-> names, default |-> standard, plan |-> token]
NoEnv == Env(NoKey, NoKey, NoKey)
Cloud(on, key) ==
    [kind |-> "cloud", on |-> on, key |-> key, named |-> FALSE, auth |-> "api_key"]
ByVariable == [Cloud(TRUE, NoKey) EXCEPT !.named = TRUE]
Menu(patches, edits, asked, serving, env) ==
    [patches |-> patches, edits |-> edits, asks |-> asked, serving |-> serving, env |-> env,
     cliEnv |-> NoEnv]
SetKey(key) == [op |-> "set-key", key |-> key]

\* Every order of enabling, disabling and checking keys on both ways in.
Credentials ==
    Menu({Cloud(TRUE, k) : k \in {good, bad, NoKey}} \cup {ByVariable, Cloud(FALSE, NoKey)},
         {[op |-> x] : x \in {"enable", "disable", "verify"}} \cup {SetKey(k) : k \in {good, bad, Named}},
         {"verify"}, {u}, Env(good, NoKey, NoKey))
\* Keys that are in the environment only: the registry's variable, a plan's.
Variables ==
    Menu({[Cloud(TRUE, k) EXCEPT !.auth = "plan_token"] : k \in {good, NoKey}} \cup {Cloud(TRUE, NoKey)},
         {[op |-> x] : x \in {"enable", "disable"}} \cup {SetKey(Named)}, {"verify"}, {u},
         Env(NoKey, NoKey, good))
Shared == [Variables EXCEPT !.env = Env(NoKey, bad, good), !.cliEnv = Env(NoKey, good, NoKey)]
\* Scans for requests and discoveries while backends are pinned and ignored.
Backends ==
    Menu({[kind |-> "pinned", urls |-> {}], [kind |-> "pinned", urls |-> {v}],
          [kind |-> "ignored", urls |-> {u}], [kind |-> "learned", urls |-> {}]},
         {[op |-> "ignore", url |-> u]}, {"request", "discover"}, {u, v}, NoEnv)
\* The roster of providers and a custom endpoint beside a learned backend.
Roster ==
    Menu({[kind |-> "providers", ids |-> {}], [kind |-> "custom", urls |-> {u}],
          [kind |-> "learned", urls |-> {v}], [kind |-> "ignored", urls |-> {u}]},
         {[op |-> "ignore", url |-> v]}, {"request", "discover"}, {u, v}, NoEnv)
\* A bit of everything, a gateway and a section of a newer build.
Mixed ==
    Menu({Cloud(TRUE, good), [Cloud(TRUE, good) EXCEPT !.auth = "plan_token"], [kind |-> "future"]},
         {[op |-> "import", patch |-> [kind |-> "future"]], SetKey(good)},
         {"verify", "request", "gateway"}, {u}, Env(good, NoKey, NoKey))
AllMenus == {Credentials, Variables, Shared, Backends, Roster, Mixed}

---------------------------------------------------------------------------
(* Processes *)

Launch(hosts, replacing, byApp, child, other) ==
    [host |-> hosts, replace |-> [p \in Procs |-> p \in replacing],
     app |-> [p \in Procs |-> p \in byApp], child |-> child, other |-> other]
Same == (p1 :> any) @@ (p2 :> any) @@ (p3 :> any)
Moved == (p1 :> loop) @@ (p2 :> any)
\* A replacement on one address, on another, beside a foreign listener, and
\* one that the menubar app makes.
AllLaunches ==
    {Launch(Same, {p2}, {}, NoProc, FALSE), Launch(Moved, {p2}, {}, NoProc, FALSE),
     Launch(Moved, {p2}, {}, NoProc, TRUE), Launch(Moved @@ (p3 :> any), {p2, p3}, {p2}, p3, FALSE)}

---------------------------------------------------------------------------
(* The configuration file *)

Plain(url, secret) == [id |-> NoId, url |-> url, secret |-> secret]
Doc(generation, list) == [version |-> generation, rows |-> list, parses |-> TRUE]
Edit(op, at, url, key) == [op |-> op, at |-> at, url |-> url, key |-> key]
Two == <<Plain(u, s1), Plain(v, s2)>>
\* Older generations, restored and broken files under a running agent.
Older ==
    {[disk |-> Doc(i, Two), torn |-> FALSE,
      hands |-> {Doc(k, <<Plain(w, s3)>>), Doc(4, Two), [Doc(2, <<Plain(v, s3)>>) EXCEPT !.parses = FALSE]},
      edits |-> {Edit("rename", 1, w, NoSecret), Edit("add", 0, w, s3)}] : i \in {1, 2}, k \in {1, 2}}
\* What two clients do to the same rows, one of them an old one.
Pages ==
    {[disk |-> Doc(i, Two), torn |-> FALSE, hands |-> {},
      edits |-> {Edit("rename", 1, w, NoSecret), Edit("swap", 0, u, NoSecret), Edit("remove", 2, v, NoSecret),
                 Edit("add", 0, w, s3), Edit("forget", 2, u, NoSecret), Edit("replace", 0, w, NoSecret)}] :
        i \in {2, 4}}
AllFiles == Older \cup Pages

---------------------------------------------------------------------------
(* Telemetry *)

\* Both windows begin anew within the run; the second one's slots are shared
\* by the ticks of the clock that are three apart.
BothSpans == <<[buckets |-> 3, width |-> 1], [buckets |-> 2, width |-> 3]>>
Called(tag, ttft) == [tag |-> tag, ttft |-> ttft]
Diary(calls, before, fills, hides) ==
    [calls |-> calls, file |-> before, full |-> fills, unread |-> hides]
\* One row that comes and goes, more models than rows, an older agent's file,
\* one that cannot be read at times, a disk that fills up.
AllDiaries ==
    {Diary(<<Called(g, 1), Called(g, 0), Called(g, 2), Called(g, 1)>>,
           [requests |-> 2, timed |-> 0, seconds |-> 3, genuine |-> FALSE], FALSE, FALSE),
     Diary(<<Called(g, 0), Called(n, 2), Called(a, 1), Called(o, 0)>>,
           [requests |-> 1, timed |-> 1, seconds |-> 1, genuine |-> TRUE], FALSE, TRUE),
     Diary(<<Called(g, 1), Called(NoTag, 2), Called(g, 1)>>, NoFile, TRUE, FALSE)}

---------------------------------------------------------------------------

\* Any one of S where the part rests.
Of(name, S) == IF part = name THEN S ELSE {CHOOSE x \in S : TRUE}

AgentInit ==
    /\ part \in {"routing", "control", "processes", "file", "usage"}
    /\ story \in Of("routing", Tales) /\ menu \in Of("control", AllMenus)
    /\ launch \in Of("processes", AllLaunches) /\ usage \in Of("file", AllFiles)
    /\ diary \in Of("usage", AllDiaries)
    /\ RoutingInit /\ ControlInit /\ LifecycleInit /\ StoreInit /\ UsageInit

AgentNext ==
    /\ UNCHANGED part
    /\ \/ part = "routing" /\ RoutingNext /\ UNCHANGED <<controlVars, lifecycleVars, storeVars, ledgerVars>>
       \/ part = "control" /\ ControlNext /\ UNCHANGED <<routingVars, lifecycleVars, storeVars, ledgerVars>>
       \/ part = "processes" /\ LifecycleNext /\ UNCHANGED <<routingVars, controlVars, storeVars, ledgerVars>>
       \/ part = "file" /\ StoreNext /\ UNCHANGED <<routingVars, controlVars, lifecycleVars, ledgerVars>>
       \/ part = "usage" /\ UsageNext /\ UNCHANGED <<routingVars, controlVars, lifecycleVars, storeVars>>

AgentSpec ==
    AgentInit /\ [][AgentNext]_<<part, routingVars, controlVars, lifecycleVars, storeVars, ledgerVars>>
=============================================================================
