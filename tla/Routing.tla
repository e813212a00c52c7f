------------------------------ MODULE Routing ------------------------------
(* From a request to the row that answers it: the source the caller is taken *)
(* for, the scenario, the layers of routing policy, the walk that matches a  *)
(* model with a row's catalog, the candidate rows, the strategies, and the   *)
(* state they share: loads, the rotation index, the sticky substitutes, the  *)
(* rows batch shards were given and the cloud rows that are in the pool.     *)
(*                                                                           *)
(* Health and its probes are in PoolHealth, the bound of the batch ledger in *)
(* BatchLedger, the Messages fallback tier in RequestEngine.                 *)
EXTENDS Naturals, Sequences, FiniteSets, SequencesExt

CONSTANTS
    Requests, Rows, NoRow, Names, NoModel,
    Arm,         \* <<name, served id>> -> 1 equal, 2 id is name:tag,
                 \* 3 either but for case, 0 neither
    Capability, Family, Text,  \* of a name; Text is its place in the alphabet
    Score,       \* <<session key, row>> -> rendezvous score
    Number,      \* the numeric session keys -> their value
    Turns,       \* bound on the rotation index: a multiple of the lengths it divides
    Stories      \* what is configured and asked, see MCAgent

ASSUME RoutingAssumption ==
    /\ NoRow \notin Rows /\ NoModel \notin Names /\ Turns \in Nat \ {0}
    /\ Arm \in [Names \X Names -> 0..3] /\ Text \in [Names -> Nat]
    /\ \A m, n \in Names : Arm[<<m, n>>] = 1 <=> m = n
    /\ \A key \in DOMAIN Number : Number[key] \in Nat

\* What the loader and the parsers leave of a configuration and its requests.
ASSUME StoryAssumption ==
    \A s \in Stories :
        /\ s.order \in Seq(Rows) /\ s.load \in [Rows -> Nat] /\ DOMAIN s.groups \subseteq Nat
        /\ \A b \in Rows : s.rows[b].ms \in Nat
        /\ \A r \in DOMAIN s.requests :
              /\ r \in Requests /\ s.requests[r].shard \in Nat
              /\ \A b \in Rows : Score[<<s.requests[r].session, b>>] \in Nat

VARIABLES
    story,    \* rows, groups, aliases, policies, sources, cloud, requests
    master,   \* cloud.enabled
    catalog,  \* health.models of a row, a sequence
    load,     \* in_flight
    turn,     \* _round_robin_idx
    bound,    \* _pool_host_bindings: <<group, row>> -> substitute
    pooled,   \* cloud rows in the pool
    placed,   \* assignments of the batch ledger: shard -> row
    finished, \* its completed shards
    call      \* request -> [pc, tried, row, name, attempt]

routingVars == <<story, master, catalog, load, turn, bound, pooled, placed, finished, call>>
ledger == <<placed, finished>>

Asked(r) == story.requests[r]
Row(b) == story.rows[b]
One(S) == CHOOSE x \in S : TRUE
Foremost(S) == {i \in S : \A j \in S : i <= j}
\* The elements of s in T, in their order; those, or s when it has none.
Only(s, T) ==
    LET upTo[i \in 0..Len(s)] ==
            IF i = 0 THEN <<>>
            ELSE IF s[i] \in T THEN Append(upTo[i - 1], s[i]) ELSE upTo[i - 1]
    IN upTo[Len(s)]
Prefer(s, T) == IF \E i \in DOMAIN s : s[i] \in T THEN Only(s, T) ELSE s
Locals == {b \in Rows : Row(b).local}
\* A request's shard is its index in the batch, 0 if it is in none.
Shards == {Asked(r).shard : r \in DOMAIN story.requests} \ {0}

---------------------------------------------------------------------------
(* Who asks, and what for *)

Known(id) == {i \in DOMAIN story.sources : story.sources[i].id = id}

\* A source with a secret is granted to the virtual key that carries it.
Proves(q, i) ==
    LET s == story.sources[i] IN s.secret = "" \/ (q.key = s.id /\ q.secret = s.secret)

\* resolve_source: header, then key, then user agent, then nobody.
SourceOf(q) ==
    LET by(id) == {i \in Known(id) : Proves(q, i)}
        agents == {i \in DOMAIN story.sources :
                       story.sources[i].secret = "" /\ q.agent \in story.sources[i].agents}
    IN IF by(q.source) # {} THEN by(q.source)
       ELSE IF by(q.key) # {} THEN by(q.key)
       ELSE Foremost(agents)

\* classify_scenario: the first signal of the request's body.
Scenarios == <<"long_context", "web_search", "think", "background">>
Scenario(q) ==
    LET seen == Only(Scenarios, q.signals)
    IN IF seen = <<>> THEN "default" ELSE seen[1]

\* The scenario rule of a source, where it applies to the surface.
Rules(q) ==
    {story.sources[i].rules[Scenario(q)] :
        i \in {i \in SourceOf(q) : /\ Scenario(q) \in DOMAIN story.sources[i].rules
                                   /\ q.surface \in story.sources[i].rules[Scenario(q)].surfaces}}

\* The model after the source's rewrites and its rule.
ModelOf(q) ==
    LET rewritten == {story.sources[i].rewrites[q.model] :
                         i \in {i \in SourceOf(q) : q.model \in DOMAIN story.sources[i].rewrites}}
        ruled == {u \in {u.model : u \in Rules(q)} : u # NoModel}
    IN One(IF ruled # {} THEN ruled ELSE IF rewritten # {} THEN rewritten ELSE {q.model})

Needs(q) == IF q.surface = "embeddings" THEN "embedding" ELSE "chat"
\* A hop limit reached reads as the local-only header; any hop is literal.
HeaderLocal(q) == q.local \/ q.hops >= 2
Exact(q) == q.hops >= 1

---------------------------------------------------------------------------
(* resolve_routing: layer upon layer *)

Closed(d) == [d EXCEPT !.local = TRUE, !.cloud = FALSE, !.leads = FALSE]
Opened(d) == [d EXCEPT !.local = FALSE, !.cloud = master]
Over(d, layer) == [d EXCEPT !.strategy = IF layer.strategy = "" THEN @ ELSE layer.strategy]
Preferring(d, layer) == [d EXCEPT !.prefer = IF layer.prefer = "" THEN @ ELSE layer.prefer]

\* match_routing_policy: the first that matches.
Policy(q) ==
    LET id == {story.sources[i].id : i \in SourceOf(q)}
        fits == {i \in DOMAIN story.policies :
                    /\ ModelOf(q) \in story.policies[i].models
                    /\ story.policies[i].source \in id \cup {""}}
    IN {story.policies[i] : i \in Foremost(fits)}

OverPolicy(d, p) == IF p.cloud THEN [d EXCEPT !.cloud = master] ELSE Closed(d)
OverSource(d, s) ==
    IF s.local THEN Closed(d)
    ELSE IF s.cloud THEN [Opened(d) EXCEPT !.allow = s.allow] ELSE d
OverRule(d, u) == IF u.local THEN Closed(d) ELSE IF u.cloud THEN Opened(d) ELSE d

ByPolicy(d, q) ==
    LET with(p) == OverPolicy(Preferring(Over(d, p), p), p)
    IN IF Policy(q) = {} THEN d ELSE with(One(Policy(q)))
BySource(d, q) ==
    LET with(s) == OverSource(Preferring(Over(d, s), s), s)
    IN IF SourceOf(q) = {} THEN d ELSE with(story.sources[One(SourceOf(q))])
ByRule(d, q) ==
    LET with(rule) == OverRule(Over(d, rule), rule)
    IN IF Rules(q) = {} THEN d ELSE with(One(Rules(q)))

ByHeaderHint(d, q) == IF q.strategy = "" THEN d ELSE [d EXCEPT !.strategy = q.strategy]

\* The caller's own opt-out comes last: nothing reopens it.
ByHeader(d, q) ==
    LET over == IF q.strategy = "" THEN d ELSE [d EXCEPT !.strategy = q.strategy]
    IN IF HeaderLocal(q) THEN Closed(over)
       ELSE IF over.local THEN [over EXCEPT !.leads = FALSE] ELSE over

Routed(q) ==
    LET falls == master /\ story.fallback # "none"
        d == [model |-> ModelOf(q), exact |-> Exact(q),
              strategy |-> story.strategy, local |-> HeaderLocal(q),
              cloud |-> falls /\ ~HeaderLocal(q),
              leads |-> falls /\ story.fallback = "local", prefer |-> "", allow |-> {}]
    IN ByHeader(ByRule(BySource(ByPolicy(d, q), q), q), q)

---------------------------------------------------------------------------
(* ModelResolver: one walk for candidacy and for the name sent upstream *)

\* Exact before name:tag before any case; names, then ids, in their order.
Walk(names, served) ==
    LET hits == {h \in (1..3) \X (DOMAIN names) \X (DOMAIN served) :
                    Arm[names[h[2]], served[h[3]]] = h[1]}
        before(h, g) == \/ h[1] < g[1]
                        \/ h[1] = g[1] /\ h[2] < g[2]
                        \/ h[1] = g[1] /\ h[2] = g[2] /\ h[3] <= g[3]
    IN IF hits = {} THEN NoModel
       ELSE served[(CHOOSE h \in hits : \A g \in hits : before(h, g))[3]]

\* What alias_names finds for a name, whatever its case.
Aliases(m) == IF m \in DOMAIN story.aliases THEN story.aliases[m] ELSE <<>>
AliasNames(m) == <<m>> \o Aliases(m)
Groups == DOMAIN story.groups
Lists(g, m) == Walk(AliasNames(m), story.groups[g].models) # NoModel
InGroup(m) == \E g \in Groups : Lists(g, m)
Authorizing(m, b) == {g \in Groups : Lists(g, m) /\ b \in story.groups[g].hosts}

\* Group models a name matches; those a request may be routed to; the aliases
\* that would lead it elsewhere.
Listed(n) == {x \in UNION {Range(story.groups[g].models) : g \in Groups} : Arm[n, x] # 0}
Bundle(m) ==
    Listed(m) \cup UNION {Listed(a) : a \in {a \in Range(Aliases(m)) :
                              Capability[a] = Capability[m] /\ Family[a] = Family[m]}}
Steers(m, a) ==
    /\ a # m
    /\ Capability[a] # Capability[m] \/ (Listed(a) # {} /\ ~(Listed(a) \subseteq Bundle(m)))
LiteralNames(m, exact) ==
    IF ~exact /\ InGroup(m) THEN <<m>> \o Only(Aliases(m), {a \in Names : ~Steers(m, a)})
    ELSE AliasNames(m)

\* The substitute a row takes for m: the one a group of it is bound to while
\* the row serves it, else the first of the groups' models by its text.
Held(m, b) == {g \in Authorizing(m, b) : bound[<<g, b>>] \in Range(catalog[b])}
Best(m, b) ==
    LET fits == {Walk(AliasNames(x), catalog[b]) :
                    x \in UNION {{x \in Range(story.groups[g].models) :
                                     Capability[x] = Capability[m]} : g \in Authorizing(m, b)}}
        same == {n \in fits \ {NoModel} : Capability[n] = Capability[m]}
    IN IF same = {} THEN NoModel
       ELSE CHOOSE n \in same : \A k \in same : Text[n] <= Text[k]
LeastOf(S) == CHOOSE g \in S : \A h \in S : g <= h
Substitute(m, b) == IF Held(m, b) # {} THEN bound[<<LeastOf(Held(m, b)), b>>] ELSE Best(m, b)

Literal(m, b, exact) == Walk(LiteralNames(m, exact), catalog[b])
\* A catalog not yet known rules nothing out, unless the probe was refused.
Blind(b) == catalog[b] = <<>> /\ ~(Row(b).local /\ Row(b).gated)
ServesLiterally(m, b, exact) == Blind(b) \/ Literal(m, b, exact) # NoModel
Overflows(m, b) == /\ catalog[b] # <<>> /\ Literal(m, b, FALSE) = NoModel
                   /\ Substitute(m, b) # NoModel

\* upstream_model: what the row is asked for.
Upstream(m, b, exact) ==
    IF Literal(m, b, exact) # NoModel THEN Literal(m, b, exact)
    ELSE IF ~exact /\ Overflows(m, b) THEN Substitute(m, b) ELSE m

\* The bindings after rows S were looked at for an overflow of m.
ReboundAlways(m, S) ==
    [k \in DOMAIN bound |->
        IF k[2] \in S /\ k[1] \in Authorizing(m, k[2]) THEN Best(m, k[2]) ELSE bound[k]]
Rebound(m, S) ==
    [k \in DOMAIN bound |->
        LET held == Held(m, k[2]) IN
        IF ~(k[2] \in S /\ k[1] \in Authorizing(m, k[2])) THEN bound[k]
        ELSE IF held = {} THEN Best(m, k[2])
        ELSE IF k[1] < LeastOf(held) THEN NoModel ELSE bound[k]]

---------------------------------------------------------------------------
(* RouterPool: candidates *)

Pool == Only(story.order, {b \in Rows : Row(b).cloud = ""} \cup pooled)
Searchable(local) == IF local \/ ~story.remote THEN Only(Pool, Locals) ELSE Pool
Healthy(s) == Prefer(s, {b \in Rows : Row(b).up})
LocalFirst(s) == Only(s, Locals) \o Only(s, Rows \ Locals)

LiteralRows(m, d) ==
    Only(Searchable(d.local), {b \in Rows : ServesLiterally(m, b, d.exact)})
OverflowRows(m, d) ==
    IF d.exact THEN <<>> ELSE Only(Searchable(d.local), {b \in Rows : Overflows(m, b)})

\* backends_for_model: substitutes only when no row serves the name itself.
CandidatesOnePass(m, d) ==
    LocalFirst(Healthy(Only(Searchable(d.local),
        {b \in Rows : ServesLiterally(m, b, d.exact) \/ (~d.exact /\ Overflows(m, b))})))
Matching(m, d) ==
    Healthy(IF LiteralRows(m, d) # <<>> THEN LiteralRows(m, d) ELSE OverflowRows(m, d))
Candidates(m, d) == LocalFirst(Matching(m, d))

Untried(s, tried) == Only(s, Rows \ tried)
Allowed(s, d) ==
    Only(s, {b \in Rows : d.allow = {} \/ Row(b).cloud \in d.allow \cup {""}})
Preferred(s, d) ==
    IF d.prefer = "" THEN s ELSE Prefer(s, {b \in Rows : Row(b).provider = d.prefer})

\* effective_backend_cap: on a coordinating gateway what the peer gossips.
Cap(b) ==
    LET view == Row(b).view IN
    IF story.gateway /\ Row(b).peer /\ view.max > 0 THEN view.max
    ELSE IF story.gateway /\ Row(b).peer /\ view.perRow > 0 THEN view.perRow
    ELSE IF story.gateway /\ Row(b).peer /\ story.poolCap > 0 THEN story.poolCap
    ELSE IF Row(b).cap > 0 THEN Row(b).cap ELSE story.poolCap
Roomy == {b \in Rows : Cap(b) = 0 \/ load[b] < Cap(b)}

Total(s) == FoldSeq(LAMBDA b, n : load[b] + n, 0, s)
Saturated ==
    story.agentMax > 0 /\ Total(Only(Pool, Locals)) >= story.agentMax

\* select_backend up to the choice: who is left to choose from.  The guardrail
\* for a full row is there when some cap is configured.
Narrowed(s, d, tried) == Allowed(Preferred(Untried(s, tried), d), d)
Leading(s, d) == IF d.leads THEN Prefer(s, {b \in Rows : Row(b).cloud # ""}) ELSE s
Spared(s) ==
    IF story.poolCap > 0 \/ \E b \in Range(s) : Row(b).cap > 0 THEN Prefer(s, Roomy) ELSE s
Choosable(m, d, tried) ==
    LET beyond(s) == IF story.gateway /\ Saturated THEN Prefer(s, Rows \ Locals) ELSE s
    IN beyond(Spared(Leading(Narrowed(Candidates(m, d), d, tried), d)))

---------------------------------------------------------------------------
(* RouterPool: strategies *)

Lightest(s) ==
    IF s = <<>> THEN NoRow
    ELSE s[CHOOSE i \in DOMAIN s : \A j \in DOMAIN s :
               load[s[i]] < load[s[j]] \/ (load[s[i]] = load[s[j]] /\ i <= j)]
\* The least loaded; a gateway asks for headroom by what its peers told it.
Tied(s) ==
    LET t == IF story.gateway THEN Prefer(s, Roomy) ELSE s
    IN Only(t, {b \in Rows : load[b] = load[Lightest(t)]})
Fastest(s) ==
    LET timed == Prefer(s, {b \in Rows : Row(b).ms > 0})
    IN timed[CHOOSE i \in DOMAIN timed : \A j \in DOMAIN timed :
               Row(timed[i]).ms < Row(timed[j]).ms \/ (Row(timed[i]).ms = Row(timed[j]).ms /\ i <= j)]

\* shard_index: a numeric key by its remainder, any other by rendezvous, so
\* that a row that goes takes its own keys only.
Rendezvous(key, s) ==
    IF key \in DOMAIN Number THEN s[(Number[key] % Len(s)) + 1] ELSE
    s[CHOOSE i \in DOMAIN s : \A j \in DOMAIN s : Score[<<key, s[i]>>] >= Score[<<key, s[j]>>]]

\* _select_local_spillover, select_mesh_spillover: local below the threshold,
\* a peer only when it carries less.  A gateway asks for headroom first.
Spillover(s, remotesFirst) ==
    LET local == Only(s, Locals)
        remote == Only(s, Rows \ Locals)
        roomy == Only(remote, Roomy)
        best == Lightest(local)
        away == Lightest(IF story.gateway THEN roomy ELSE remote)
    IN IF local = <<>> \/ (remotesFirst /\ remote # <<>>)
       THEN Lightest(IF story.gateway /\ roomy # <<>> THEN roomy ELSE remote)
       ELSE IF load[best] < story.threshold /\ best \in Roomy THEN best
       ELSE IF away # NoRow /\ load[away] < load[best] THEN away ELSE best

\* _select_local_spillover_pooled: literal rows while they have headroom, then
\* chat substitutes on the other side.
SpillInGroup(m, lit, over) ==
    LET here == Only(lit, Locals)
        away == Only(lit, Rows \ Locals)
        subs(local) == Only(over, {b \in Roomy : /\ Row(b).local = local
                                                 /\ Capability[Upstream(m, b, FALSE)] = "chat"})
    IN IF away # <<>> /\ Only(away, Roomy) # <<>> THEN Spillover(lit, here = <<>>)
       ELSE IF away # <<>> /\ here = <<>> /\ subs(TRUE) # <<>> THEN Lightest(subs(TRUE))
       ELSE IF here # <<>> /\ away = <<>>
       THEN IF load[Lightest(here)] < story.threshold /\ Lightest(here) \in Roomy
            THEN Lightest(here)
            ELSE IF subs(FALSE) # <<>> THEN Lightest(subs(FALSE)) ELSE Lightest(here)
       ELSE Spillover(IF lit # <<>> THEN lit ELSE over, FALSE)
Anywhere(d) == [d EXCEPT !.local = FALSE]
PooledSpillover(m, d, tried) ==
    SpillInGroup(m, Narrowed(Healthy(LiteralRows(m, Anywhere(d))), d, tried),
                    Narrowed(Healthy(OverflowRows(m, Anywhere(d))), d, tried))

\* The choice among s; what rotates advances the index.
ByStrategy(how, s, key, attempt, tried) ==
    IF s = <<>> THEN NoRow ELSE
    CASE how = "round_robin" -> s[(turn % Len(s)) + 1]
      [] how = "least_load" -> LET t == Tied(s) IN t[(turn % Len(t)) + 1]
      [] how = "latency_weighted" -> Fastest(s)
      [] how = "local_spillover" -> Spillover(s, FALSE)
      [] how = "batch_shard" /\ key # "" -> Rendezvous(key, s)
      [] how = "local_first" ->
            LET local == Prefer(s, Locals)
            IN IF key # "" THEN Rendezvous(key, local) ELSE local[1]
      [] how = "failover" /\ tried = {} ->
            s[IF attempt <= Len(s) THEN attempt ELSE Len(s)]
      [] OTHER -> s[1]
Rotates(how, s) ==
    s # <<>> /\ (how = "round_robin" \/ (how = "least_load" /\ Len(Tied(s)) > 1))

Pooling(m, d, how) == how = "local_spillover" /\ ~d.local /\ ~d.exact /\ InGroup(m)
GroupRow(m, d, how, tried) ==
    IF Pooling(m, d, how) THEN PooledSpillover(m, d, tried) ELSE NoRow
Selected(m, d, how, key, attempt, tried) ==
    LET else(b) == IF b # NoRow THEN b
                   ELSE ByStrategy(how, Choosable(m, d, tried), key, attempt, tried)
    IN else(GroupRow(m, d, how, tried))

\* A member of the model's groups that some host of them serves.
Member(m, needs) ==
    LET online(g) == Only(story.groups[g].models, {x \in Names :
            /\ Capability[x] = needs
            /\ \E b \in Range(Pool) \cap story.groups[g].hosts :
                   catalog[b] # <<>> /\ Literal(x, b, FALSE) # NoModel})
        some == {g \in Groups : Lists(g, m) /\ online(g) # <<>>}
    IN IF some = {} THEN NoModel ELSE online(LeastOf(some))[1]

\* select_backend with its last resort: another member of the group.
NameTried(m, d, how, tried, needs) ==
    IF GroupRow(m, d, how, tried) # NoRow \/ Untried(Candidates(m, d), tried) # <<>> THEN m
    ELSE IF d.exact \/ d.local \/ ~InGroup(m) \/ Capability[m] # needs THEN NoModel
    ELSE Member(m, needs)
Chosen(m, d, how, key, attempt, tried, needs) ==
    LET for(name) == IF name = NoModel THEN NoRow
                     ELSE Selected(name, d, how, key, attempt, tried)
    IN for(NameTried(m, d, how, tried, needs))

\* _select_backend_for_request: the strategy of this attempt.
Strategy(d, key, attempt) ==
    LET how == IF d.strategy # "auto" THEN d.strategy
               ELSE IF key # "" THEN "batch_shard" ELSE "least_load"
    IN IF how = "batch_shard" /\ key = "" /\ attempt = 1 THEN "round_robin"
       ELSE IF attempt = 1 \/ how \in {"least_load", "latency_weighted", "round_robin",
                                       "local_spillover"} THEN how
       ELSE "failover"

---------------------------------------------------------------------------
(* The walk of a request *)

Plan(r) == Routed(Asked(r))

\* build_request_plan and the cloud rows it may materialize; the surface's
\* guard refuses a model of another capability.
Materialized == IF master THEN {b \in Rows : Row(b).cloud # ""} ELSE {}
Arrive(r) ==
    /\ call[r].pc = "new"
    /\ IF Capability[ModelOf(Asked(r))] # Needs(Asked(r))
       THEN call' = [call EXCEPT ![r].pc = "refused"] /\ UNCHANGED pooled
       ELSE /\ call' = [call EXCEPT ![r].pc = "walk", ![r].plan = Plan(r)]
            /\ pooled' = IF Plan(r).cloud THEN Materialized ELSE pooled
    /\ UNCHANGED <<story, master, catalog, load, turn, bound, ledger>>

\* A pinned row is taken while it has not failed, if the plan is not local.
Pinned(r, d) ==
    {b \in {Asked(r).pin} \cap Range(Pool) : (d.local => Row(b).local) /\ b \notin call[r].tried}

\* Rows whose resolution asks a group for a substitute, and binds it.
Substituted(m, S) == {b \in S : catalog[b] # <<>> /\ Literal(m, b, FALSE) = NoModel}

\* The batch-ledger arm, which is not told of local-only: the row the shard was
\* given, the one its index gives it, after a failure the next; nothing if the
\* shard has finished or that row is no candidate.
Sharded(q, d) == q.shard # 0 /\ d.strategy \in {"auto", "batch_shard"}
Assignment(shard, s, nth) ==
    LET at == {i \in DOMAIN s : s[i] = placed[shard]}
        next == IF at = {} THEN 1 ELSE One(at) + 1
    IN IF nth = 1 /\ placed[shard] # NoRow THEN placed[shard]
       ELSE IF s = <<>> THEN NoRow
       ELSE IF nth = 1 THEN s[(shard % Len(s)) + 1]
       ELSE IF shard \in finished \/ next \notin DOMAIN s THEN NoRow ELSE s[next]
Assignable(m, d, tried) == Untried(Matching(m, Anywhere(d)), tried)
Placing(shard, row) == IF row = NoRow THEN placed ELSE [placed EXCEPT ![shard] = row]
ShardRow(r, nth) ==
    LET d == call[r].plan  s == Assignable(d.model, d, call[r].tried)
        row == Assignment(Asked(r).shard, s, nth)
    IN IF row \in Range(s) THEN row ELSE NoRow

\* _select_backend_for_request: the pin, the ledger's row, the pool's choice.
Picked(r, nth) ==
    LET q == Asked(r)  d == call[r].plan IN
    IF Pinned(r, d) # {} THEN q.pin
    ELSE IF Sharded(q, d) THEN ShardRow(r, nth)
    ELSE Chosen(d.model, d, Strategy(d, q.session, nth), q.session, nth, call[r].tried, Needs(q))

\* The next round, and the call of its row.
Attempt(r) ==
    LET q == Asked(r)  d == call[r].plan  m == d.model  nth == call[r].attempt + 1
        how == Strategy(d, q.session, nth)
        tried == call[r].tried
        ledgered == Pinned(r, d) = {} /\ Sharded(q, d)
        at == IF ledgered THEN Anywhere(d) ELSE d
        looks == IF Pinned(r, d) # {} \/ d.exact \/ (~Pooling(m, d, how) /\ LiteralRows(m, at) # <<>>)
                 THEN {} ELSE Range(Searchable(at.local))
    IN /\ call[r].pc = "walk" /\ call[r].attempt < Len(Pool)
       /\ placed' = IF ledgered
                    THEN Placing(q.shard, Assignment(q.shard, Assignable(m, d, tried), nth))
                    ELSE placed
       /\ \E pick \in {Picked(r, nth)} :
          /\ bound' = Rebound(m, Substituted(m, looks \cup (IF d.exact THEN {} ELSE {pick} \ {NoRow})))
          /\ IF pick = NoRow
             THEN call' = [call EXCEPT ![r].pc = "failed"] /\ UNCHANGED <<load, turn>>
             ELSE /\ call' = [call EXCEPT ![r] = [@ EXCEPT !.pc = "call", !.row = pick,
                                 !.attempt = nth, !.name = Upstream(m, pick, d.exact)]]
                  /\ load' = [load EXCEPT ![pick] = @ + 1]
                  /\ turn' = IF /\ Pinned(r, d) = {} /\ ~ledgered
                                /\ Rotates(how, Choosable(m, d, tried))
                             THEN (turn + 1) % Turns ELSE turn
       /\ UNCHANGED <<story, master, catalog, pooled, finished>>

\* No rounds are left.
Exhausted(r) ==
    /\ call[r].pc = "walk" /\ call[r].attempt >= Len(Pool)
    /\ call' = [call EXCEPT ![r].pc = "failed"]
    /\ UNCHANGED <<story, master, catalog, load, turn, bound, pooled, ledger>>

Ends(r, fails) ==
    /\ call[r].pc = "call"
    /\ load' = [load EXCEPT ![call[r].row] = @ - 1]
    /\ call' = IF fails THEN [call EXCEPT ![r] = [@ EXCEPT !.pc = "walk", !.row = NoRow,
                                 !.name = NoModel, !.tried = call[r].tried \cup {call[r].row}]]
               ELSE [call EXCEPT ![r] = [@ EXCEPT !.pc = "done", !.row = NoRow, !.name = NoModel]]
    /\ finished' = IF fails THEN finished ELSE finished \cup ({Asked(r).shard} \ {0})
    /\ UNCHANGED <<story, master, catalog, turn, bound, pooled, placed>>

\* Another batch needs the shard's place in the ledger.
Forgets(shard) ==
    /\ placed[shard] # NoRow
    /\ placed' = [placed EXCEPT ![shard] = NoRow] /\ finished' = finished \ {shard}
    /\ UNCHANGED <<story, master, catalog, load, turn, bound, pooled, call>>

\* A host loads other models; a probe has seen them.
Reload(b) ==
    /\ \E c \in story.loads[b] \ {catalog[b]} : catalog' = [catalog EXCEPT ![b] = c]
    /\ UNCHANGED <<story, master, load, turn, bound, pooled, ledger, call>>

\* GET /v1/models materializes the cloud rows, whoever may use them.
ListModels ==
    /\ story.lists /\ pooled' = Materialized /\ pooled # Materialized
    /\ UNCHANGED <<story, master, catalog, load, turn, bound, ledger, call>>

\* POST admin/config turns the cloud off; the pool hears of it later.
MasterOff ==
    /\ story.lists /\ master /\ master' = FALSE
    /\ UNCHANGED <<story, catalog, load, turn, bound, pooled, ledger, call>>

RoutingInit ==
    /\ story \in Stories
    /\ master = story.master
    /\ catalog = story.catalog
    /\ load = story.load
    /\ turn = 0
    /\ bound = [k \in (DOMAIN story.groups) \X Rows |-> NoModel]
    /\ pooled = {}
    /\ placed = [k \in Shards |-> NoRow] /\ finished = {}
    /\ call = [r \in Requests |-> [pc |-> IF r \in DOMAIN story.requests THEN "new" ELSE "done",
                                   plan |-> NoModel, tried |-> {}, row |-> NoRow,
                                   name |-> NoModel, attempt |-> 0]]

RoutingNext ==
    \/ \E r \in DOMAIN story.requests :
          Arrive(r) \/ Attempt(r) \/ Exhausted(r) \/ \E f \in BOOLEAN : Ends(r, f)
    \/ \E k \in Shards : Forgets(k)
    \/ \E b \in Rows : Reload(b)
    \/ ListModels \/ MasterOff

RoutingSpec == RoutingInit /\ [][RoutingNext]_routingVars

---------------------------------------------------------------------------
(* Properties *)

InCall(r) == call[r].pc = "call"

\* The caller's opt-out is a ceiling: with the local-only header, or at the
\* hop limit, no policy, source, scenario rule, pin or retry leaves the machine.
\* A row the batch ledger picked may be anywhere.
HeaderIsCeiling ==
    \A r \in DOMAIN story.requests :
        InCall(r) /\ HeaderLocal(Asked(r)) =>
            Row(call[r].row).local \/ Sharded(Asked(r), call[r].plan)

\* "an absolute ceiling": the same of every row.
HeaderIsAbsolute ==
    \A r \in DOMAIN story.requests :
        InCall(r) /\ HeaderLocal(Asked(r)) => Row(call[r].row).local

\* A row is called under a group's substitute only when every row that serves
\* the name itself was called before (spillover in a group has a rule of its
\* own), and a forwarded request never is.
SubstitutesLast ==
    [][\A r \in DOMAIN story.requests :
        LET m == ModelOf(Asked(r))  d == call'[r].plan IN
        /\ ~InCall(r) /\ call'[r].pc = "call"
        /\ Pinned(r, d) = {} /\ ~Pooling(m, d, d.strategy)
        /\ ~ServesLiterally(m, call'[r].row, d.exact)
        => /\ ~d.exact
           /\ Untried(Healthy(LiteralRows(m, d)), call[r].tried) = <<>>]_routingVars

\* The substitute of a group on a host changes only when the host stopped
\* serving it: two requests never make a host swap its weights to and fro.
StickyUntilReload ==
    [][\A k \in DOMAIN bound : bound'[k] # bound[k] /\ bound[k] # NoModel
        => bound[k] \notin Range(catalog[k[2]])]_routingVars

\* A request whose plan forbids cloud is not served by a cloud row.
CloudOnlyWhenAllowed ==
    \A r \in DOMAIN story.requests :
        InCall(r) /\ Asked(r).pin = NoRow /\ ~call[r].plan.cloud => Row(call[r].row).cloud = ""
\* "only ever narrows which cloud-tagged rows are reachable -- local/peer
\* candidates are never affected"
AllowlistNarrowsCloud ==
    [][\A r \in DOMAIN story.requests :
        call[r].pc = "walk" /\ call'[r].pc = "failed"
        => \A b \in Range(Untried(Candidates(ModelOf(Asked(r)), call[r].plan), call[r].tried)) :
               Row(b).cloud # ""]_routingVars
\* A source's list of cloud providers holds for whatever opens the cloud.
AllowlistHolds ==
    \A r \in DOMAIN story.requests : \A i \in SourceOf(Asked(r)) :
        InCall(r) /\ Asked(r).pin = NoRow /\ story.sources[i].allow # {}
        => Row(call[r].row).cloud \in story.sources[i].allow \cup {""}
\* "must not substitute chat traffic onto embedding weights (or vice versa)"
SubstituteKeepsCapability ==
    \A r \in DOMAIN story.requests :
        InCall(r) => Capability[call[r].name] = Capability[ModelOf(Asked(r))]
\* A row whose catalog is known is asked for a model it serves.
InvokedIsServed ==
    [][\A r \in DOMAIN story.requests :
        ~InCall(r) /\ call'[r].pc = "call" /\ Asked(r).pin = NoRow /\ catalog[call'[r].row] # <<>>
        => call'[r].name \in Range(catalog[call'[r].row])]_routingVars
\* "don't stack more work on a saturated backend while an alternative has
\* headroom"
CapsFirst ==
    [][\A r \in DOMAIN story.requests :
        LET m == ModelOf(Asked(r))  d == call'[r].plan IN
        ~InCall(r) /\ call'[r].pc = "call" /\ Pinned(r, d) = {} /\ call'[r].row \notin Roomy
        => \A b \in Range(Allowed(Untried(Candidates(m, d), call[r].tried), d)) :
               b \notin Roomy \/ (d.prefer # "" /\ Row(b).provider # d.prefer)]_routingVars
=============================================================================
