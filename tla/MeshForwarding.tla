-------------------------- MODULE MeshForwarding --------------------------
(* Agents that forward requests to each other.  Each agent a request reaches *)
(* runs the whole engine for it again; such a visit is named by the agents    *)
(* the request went through to get there.  A caller that gives up on a peer   *)
(* (read timeout, broken connection) goes on with its next row while the      *)
(* visit it started goes on at the peer.                                      *)
(*                                                                            *)
(* The engine is reduced to what forwarding depends on: which rows a visit    *)
(* may use, and the loads an agent keeps for its peers.  Which row is chosen, *)
(* and whether one is found healthy, is left open.                            *)
EXTENDS Naturals, FiniteSets, SequencesExt

CONSTANTS
    Agents,
    NoAgent,
    Requests,
    Entry,     \* [Requests -> Agents], the agent the client calls
    AgentMax,  \* [Agents -> Nat], agent.max_concurrency, 0 = off
    Depth,     \* bound on the agents a request visits in a row
    Stories    \* set of [hosts, asked, sharded, stripped, crashes, gaps, misses]:
               \* agents with a local provider of the model; requests that come;
               \* those whose body names a batch shard (user, metadata);
               \* those whose local-only header is lost on the way; bounds on
               \* crashes, on peers that run but are not heard and on local
               \* scans a provider does not answer

MaxForwardHops == 2

\* Routes of a request: agents it went through, the client's first.  A visit
\* never calls the same peer twice, so its route identifies it.
Routes(r) == {p \in SeqOf(Agents, Depth) :
                /\ p # << >> /\ p[1] = Entry[r]
                /\ \A i \in 1..(Len(p) - 1) : p[i] # p[i + 1]}
Visits == UNION {{r} \X Routes(r) : r \in Requests}

ASSUME MeshAssumption ==
    /\ NoAgent \notin Agents
    /\ Entry \in [Requests -> Agents]
    /\ AgentMax \in [Agents -> Nat]
    /\ Depth \in Nat \ {0}

VARIABLES
    story,     \* a member of Stories
    up,        \* agents that run
    registry,  \* peers in each agent's swarm registry
    report,    \* the load each of their records carries
    pool,      \* peers with a row in each agent's pool
    belief,    \* in_flight of those rows
    hops,      \* RouterPool._own_peer_hops
    localRow,  \* agents whose pool has the row of their provider
    busy,      \* in_flight of that row
    pc,        \* where each visit is
    on,        \* the row it calls: its own agent, or a peer
    tried,     \* rows that failed it
    left,      \* strategy rounds it may still run
    att,       \* is the row it acquired still the one in the pool?
    crashes, gaps, misses  \* how much of their bounds is spent

peering == <<registry, report, pool>>
loads == <<belief, hops, localRow, busy>>
walk == <<pc, on, tried, left, att>>
vars == <<story, up, peering, loads, walk, crashes, gaps, misses>>

Request(v) == v[1]
At(v) == Last(v[2])
Hop(v) == Len(v[2]) - 1
Open(v) == pc[v] \in {"sent", "walk", "serve", "wait"}
Callee(v) == <<Request(v), Append(v[2], on[v])>>

Init ==
    /\ story \in Stories
    /\ up = Agents
    /\ registry = [a \in Agents |-> {}]
    /\ report = [a \in Agents |-> [b \in Agents |-> 0]]
    /\ pool = [a \in Agents |-> {}]
    /\ belief = [a \in Agents |-> [b \in Agents |-> 0]]
    /\ hops = [a \in Agents |-> [b \in Agents |-> 0]]
    /\ localRow = {}
    /\ busy = [a \in Agents |-> 0]
    /\ pc = [v \in Visits |-> "none"]
    /\ on = [v \in Visits |-> NoAgent]
    /\ tried = [v \in Visits |-> {}]
    /\ left = [v \in Visits |-> 0]
    /\ att = [v \in Visits |-> FALSE]
    /\ crashes = 0 /\ gaps = 0 /\ misses = 0

---------------------------------------------------------------------------
(* Loads *)

Dec(n) == IF n > 0 THEN n - 1 ELSE 0

\* Mutant of Release: the hop is given back only through the row in the pool.
ReleaseLive(v) ==
    IF on[v] = At(v)
    THEN /\ busy' = IF att[v] THEN [busy EXCEPT ![At(v)] = Dec(@)] ELSE busy
         /\ UNCHANGED <<belief, hops>>
    ELSE /\ belief' = IF att[v] THEN [belief EXCEPT ![At(v)][on[v]] = Dec(@)] ELSE belief
         /\ hops' = IF att[v] THEN [hops EXCEPT ![At(v)][on[v]] = Dec(@)] ELSE hops
         /\ UNCHANGED busy

\* release(backend): the object's counter, and for a peer the hop ledger.
Release(v) ==
    IF on[v] = At(v)
    THEN /\ busy' = IF att[v] THEN [busy EXCEPT ![At(v)] = Dec(@)] ELSE busy
         /\ UNCHANGED <<belief, hops>>
    ELSE /\ belief' = IF att[v] THEN [belief EXCEPT ![At(v)][on[v]] = Dec(@)] ELSE belief
         /\ hops' = [hops EXCEPT ![At(v)][on[v]] = Dec(@)]
         /\ UNCHANGED busy

\* The scan of a's provider: a row that stays is the same object, one that is
\* pruned goes with its counter, one that comes back starts at zero.
ScanLocal(a, found) ==
    /\ a \in story.hosts \ found => misses < story.misses
    /\ misses' = IF a \in story.hosts \ found THEN misses + 1 ELSE misses
    /\ localRow' = (localRow \ {a}) \cup found
    /\ busy' = [busy EXCEPT ![a] = IF a \in localRow \cap found THEN @ ELSE 0]
    /\ att' = [v \in Visits |-> att[v] /\ (At(v) = a => on[v] \in localRow \cap found)]

\* refresh_local_backends of agent a, whose registry then holds `heard` with
\* the loads `told`: peer rows are new objects with the reported load plus the
\* agent's own forwards, rows of other peers go with their hop ledger.
RefreshPool(a, heard, told) ==
    /\ \E found \in SUBSET ({a} \cap story.hosts) : ScanLocal(a, found)
    /\ pool' = [pool EXCEPT ![a] = heard]
    /\ belief' = [belief EXCEPT ![a] =
                    [b \in Agents |-> IF b \in heard THEN told[b] + hops[a][b] ELSE 0]]
    /\ hops' = [hops EXCEPT ![a] =
                    [b \in Agents |-> IF b \in pool[a] \ heard THEN 0 ELSE @[b]]]

---------------------------------------------------------------------------
(* A visit *)

\* What a visit knew goes with it.
End(v, how) ==
    /\ pc' = [pc EXCEPT ![v] = how]
    /\ on' = [on EXCEPT ![v] = NoAgent]
    /\ tried' = [tried EXCEPT ![v] = {}]
    /\ left' = [left EXCEPT ![v] = 0]
    /\ att' = [att EXCEPT ![v] = FALSE]

\* Mutant of LocalOnly: the backstop acts one hop too late.
LocalOnlyLate(v) ==
    \/ Hop(v) >= 1 /\ Request(v) \notin story.stripped
    \/ Hop(v) > MaxForwardHops

\* _wants_local_only: the header of a forward, or its hop count.
LocalOnly(v) ==
    \/ Hop(v) >= 1 /\ Request(v) \notin story.stripped
    \/ Hop(v) >= MaxForwardHops

\* Rows a selection may return.  The batch-ledger arm is not told local_only,
\* and the shard in the body reaches every agent the request does.
Candidates(v) ==
    LET peers == IF LocalOnly(v) /\ Request(v) \notin story.sharded THEN {} ELSE pool[At(v)]
    IN (({At(v)} \cap localRow) \cup peers) \ tried[v]

Saturated(v) == LocalOnly(v) /\ AgentMax[At(v)] > 0 /\ busy[At(v)] >= AgentMax[At(v)]

Submit(r) ==
    LET v == <<r, <<Entry[r]>>>> IN
    /\ r \in story.asked /\ pc[v] = "none" /\ Entry[r] \in up
    /\ pc' = [pc EXCEPT ![v] = "sent"]
    /\ UNCHANGED <<story, up, peering, loads, on, tried, left, att, crashes, gaps, misses>>

Start(v) ==
    LET a == At(v)
        eligible == Cardinality(({a} \cap localRow') \cup registry[a])
    IN
    /\ pc[v] = "sent"
    /\ RefreshPool(a, registry[a], report[a])
    /\ pc' = [pc EXCEPT ![v] = "walk"]
    /\ left' = [left EXCEPT ![v] = IF eligible > 0 THEN eligible ELSE 1]
    /\ UNCHANGED <<story, up, registry, report, on, tried, crashes, gaps>>

\* The row is the agent's own provider.
Serve(v) ==
    /\ pc[v] = "walk" /\ left[v] > 0
    /\ At(v) \in Candidates(v) /\ ~Saturated(v)
    /\ busy' = [busy EXCEPT ![At(v)] = @ + 1]
    /\ on' = [on EXCEPT ![v] = At(v)]
    /\ left' = [left EXCEPT ![v] = @ - 1]
    /\ att' = [att EXCEPT ![v] = TRUE]
    /\ pc' = [pc EXCEPT ![v] = "serve"]
    /\ UNCHANGED <<story, up, peering, belief, hops, localRow, tried, crashes, gaps, misses>>

\* A terminating hop on a full agent: AgentCapacityExceeded, a 503.
Refuse(v) ==
    /\ pc[v] = "walk" /\ left[v] > 0
    /\ At(v) \in Candidates(v) /\ Saturated(v)
    /\ End(v, "failed")
    /\ UNCHANGED <<story, up, peering, loads, crashes, gaps, misses>>

\* The row is a peer, which may be gone.
Forward(v) ==
    /\ pc[v] = "walk" /\ left[v] > 0 /\ Len(v[2]) < Depth
    /\ \E b \in Candidates(v) \ {At(v)} :
        /\ belief' = [belief EXCEPT ![At(v)][b] = @ + 1]
        /\ hops' = [hops EXCEPT ![At(v)][b] = @ + 1]
        /\ on' = [on EXCEPT ![v] = b]
        /\ pc' = [pc EXCEPT ![v] = "wait",
                            ![<<Request(v), Append(v[2], b)>>] =
                                IF b \in up THEN "sent" ELSE "lost"]
    /\ left' = [left EXCEPT ![v] = @ - 1]
    /\ att' = [att EXCEPT ![v] = TRUE]
    /\ UNCHANGED <<story, up, peering, localRow, busy, tried, crashes, gaps, misses>>

\* No round is left, or the selection found no (healthy) row.
Exhaust(v) ==
    /\ pc[v] = "walk"
    /\ End(v, "failed")
    /\ UNCHANGED <<story, up, peering, loads, crashes, gaps, misses>>

\* The call answered: the answer goes back to whoever still waits for it.
Answer(v) ==
    /\ pc[v] = "serve" \/ (pc[v] = "wait" /\ pc[Callee(v)] = "answered")
    /\ Release(v)
    /\ End(v, "answered")
    /\ UNCHANGED <<story, up, peering, localRow, crashes, gaps, misses>>

\* A classified error: the provider or the peer failed, the peer refused, its
\* connection broke, or it did not answer in time.
Fail(v) ==
    /\ pc[v] = "serve" \/ (pc[v] = "wait" /\ pc[Callee(v)] # "answered")
    /\ Release(v)
    /\ tried' = [tried EXCEPT ![v] = @ \cup {on[v]}]
    /\ pc' = [pc EXCEPT ![v] = "walk"]
    /\ on' = [on EXCEPT ![v] = NoAgent]
    /\ att' = [att EXCEPT ![v] = FALSE]
    /\ UNCHANGED <<story, up, peering, localRow, left, crashes, gaps, misses>>

---------------------------------------------------------------------------
(* Heartbeats and crashes *)

\* handle_heartbeat of b's beat at a: register, then refresh.
Beat(a, b) ==
    /\ a # b /\ {a, b} \subseteq up
    /\ registry' = [registry EXCEPT ![a] = @ \cup {b}]
    /\ report' = [report EXCEPT ![a][b] = busy[b]]
    /\ RefreshPool(a, registry'[a], report'[a])
    /\ UNCHANGED <<story, up, pc, on, tried, left, crashes, gaps>>

\* prune_stale: the record goes, the pool follows with its next refresh.  A
\* peer that runs is lost when its beats are not heard for long enough.
Lose(a, b) ==
    /\ b \in registry[a]
    /\ b \in up => gaps < story.gaps
    /\ gaps' = IF b \in up THEN gaps + 1 ELSE gaps
    /\ registry' = [registry EXCEPT ![a] = @ \ {b}]
    /\ report' = [report EXCEPT ![a][b] = 0]
    /\ UNCHANGED <<story, up, pool, loads, walk, crashes, misses>>

Crash(a) ==
    /\ a \in up /\ crashes < story.crashes
    /\ crashes' = crashes + 1
    /\ up' = up \ {a}
    /\ registry' = [registry EXCEPT ![a] = {}]
    /\ report' = [report EXCEPT ![a] = [b \in Agents |-> 0]]
    /\ pool' = [pool EXCEPT ![a] = {}]
    /\ belief' = [belief EXCEPT ![a] = [b \in Agents |-> 0]]
    /\ hops' = [hops EXCEPT ![a] = [b \in Agents |-> 0]]
    /\ localRow' = localRow \ {a}
    /\ busy' = [busy EXCEPT ![a] = 0]
    /\ pc' = [v \in Visits |-> IF At(v) = a /\ Open(v) THEN "lost" ELSE pc[v]]
    /\ on' = [v \in Visits |-> IF At(v) = a THEN NoAgent ELSE on[v]]
    /\ tried' = [v \in Visits |-> IF At(v) = a THEN {} ELSE tried[v]]
    /\ left' = [v \in Visits |-> IF At(v) = a THEN 0 ELSE left[v]]
    /\ att' = [v \in Visits |-> At(v) # a /\ att[v]]
    /\ UNCHANGED <<story, gaps, misses>>

Restart(a) ==
    /\ a \notin up
    /\ up' = up \cup {a}
    /\ UNCHANGED <<story, peering, loads, walk, crashes, gaps, misses>>

---------------------------------------------------------------------------
Step(v) ==
    \/ Start(v) \/ Serve(v) \/ Refuse(v) \/ Forward(v)
    \/ Exhaust(v) \/ Answer(v) \/ Fail(v)

Next ==
    \/ \E r \in Requests : Submit(r)
    \/ \E v \in Visits : Step(v)
    \/ \E a, b \in Agents : Beat(a, b) \/ Lose(a, b)
    \/ \E a \in Agents : Crash(a) \/ Restart(a)

\* As long as visits are open one of them goes on, since every call has a
\* timeout; gossip loops go round.
Fairness ==
    /\ WF_vars(\E v \in Visits : Step(v))
    /\ \A a, b \in Agents : WF_vars(Beat(a, b))
MeshSpec == Init /\ [][Next]_vars /\ Fairness

---------------------------------------------------------------------------
(* Properties *)

\* "agent-hop forwards must terminate at the peer" (_peer_forward_headers): a
\* forward goes no further, and if the header gets lost on the way the hop
\* count still ends it.
ForwardsTerminate ==
    \A v \in Visits : pc[v] # "none" =>
        Hop(v) <= (IF Request(v) \in story.stripped THEN MaxForwardHops ELSE 1)

\* Every visit ends, also one whose caller gave up on it or crashed, and
\* reported loads, forwards added to them, prunes and detached rows leave
\* nothing behind: agents come to believe of idle peers that they are idle.
MeshRests ==
    <>[](/\ \A v \in Visits : ~Open(v)
         /\ \A a, b \in up : belief[a][b] = 0 /\ hops[a][b] = 0 /\ busy[a] = 0)

\* "heartbeat-reported plus this agent's own un-acked forwards": after a beat,
\* a peer's load is what it serves and the forwards it does not serve yet.
AckedOnce ==
    [][\A a, b \in Agents : Beat(a, b) =>
        belief'[a][b] <= Cardinality({v \in Visits : At(v) = b /\ pc[v] = "serve"})
          + Cardinality({v \in Visits : /\ At(v) = a /\ on[v] = b /\ pc[v] = "wait"
                                        /\ pc[Callee(v)] # "serve"})]_vars
===========================================================================
