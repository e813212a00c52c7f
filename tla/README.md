# netllm in TLA+

netllm is an LLM gateway that runs as one agent per machine.  An agent takes
OpenAI- and Anthropic-style requests, picks a *row* of its pool (a local
provider, a cloud provider, or another agent on the LAN), calls it, fails over
when the call fails, and streams the answer back.  Agents find each other by
heartbeats and forward requests to each other.

This directory holds TLA+ modules of that program, configurations that check
them with TLC, and theorems that TLAPS checks.  `PROJECT.json` maps every
definition to the lines it models and every property to a mutant of the code's
model that violates it.

    tlc -workers 2 -config engine_flap.cfg MCRequestEngine
    tlapm RequestEngineProofs.tla

Theorems and their proofs are in modules of their own: `RequestEngineProofs`,
`BatchLedgerProofs`, `StreamSessionProofs`, `PoolHealthProofs`,
`SwarmRegistryProofs`, `MeshForwardingProofs`, `RoutingProofs`, and, for the four
parts `ControlPlane`, `AgentLifecycle`, `ConfigStore` and `UsageLedger`,
`AgentProofs`.

The agent is one asyncio event loop with worker threads for selections that may
probe.  Everything the code does between two awaits is one action; what happens
in a worker thread is cut at its HTTP probes.

## 1. The system

`A` is `packages/netllm-agent/src/netllm_agent`, `C` is
`packages/netllm-core/src/netllm_core`, `D` is
`packages/netllm-discovery/src/netllm_discovery`.

| component | state | operations | talks to |
|---|---|---|---|
| Request engine (`A/service/engine.py`) | the walk of each request: rounds left, failed backends, fallback tier, the row it holds | `run_with_failover`, `open_stream`, `_connect_stream`, `_run_attempt` | admission, selection, pool, surfaces |
| Source admission (`A/service/policy.py`) | `_source_in_flight` | `_source_admit`, `_source_release` | engine |
| Router pool (`C/pool.py`) | `_backends`, `in_flight` of each, `_own_peer_hops`, `_health_cache` | merge, three prunes, acquire / release, `is_healthy`, `mark_success` / `mark_failure`, `select_backend` | everything |
| Backend refresh (`A/service/backends.py`) | TTL cache of the local scan, upstream clients | `refresh_local_backends` | scan, registry, pool |
| Stream session, surfaces (`A/service/engine.py`, `A/service/surfaces/`) | the event held back, the recorder, a released flag | `_pump`, the translators above and below it | engine, client |
| Bridges (`C/anthropic_bridge.py`, `C/openai_responses_bridge.py`) | open blocks, tool calls, indices | one stream in one dialect out | surfaces |
| Batch ledger (`A/shard.py`, `A/service/selection.py`) | `assignments`, `completed` | `assign`, `reassign_failed`, `mark_done`, eviction | selection, accounting |
| Swarm registry (`D/swarm.py`, `A/service/swarm_tasks.py`) | `peers`, known addresses and how each was found, the active address of each peer | register, heartbeat, gossip, prune, drain, reroute | refresh, other agents |
| Cloud rows (`A/service/cloud.py`, `C/cloud_*.py`) | materialized rows, verification results | `ensure_cloud_provider_backends`, verify, gate | engine, pool |
| Accounting (`A/service/accounting.py`, `A/taxonomy.py`) | counters, one outcome per attempt | `success`, `failure` | pool, batch ledger, telemetry |
| Mesh capacity (`C/mesh_capacity.py`) | none; reads the pool | self-admission, capacity-weighted choice | engine, pool |
| Configuration (`A/admin.py`, `A/routes/admin.py`, `C/models.py`, `C/config_merge.py`, `C/config_schema.py`) | the config in memory, the file, the copy of an older generation | patch, save, hot-apply, migrate | agent, command line |
| Routing policy, model resolution (`C/routing_policy.py`, `C/model_resolution.py`, `C/source_identity.py`, `C/scenarios.py`) | sticky substitutes of model groups | request and config to a plan, a plan to candidate rows | engine, pool |
| LAN discovery (`D/lan.py`, `D/mdns.py`, `D/local.py`) | the cached local scan | scan, advertise, learn | registry, refresh |
| Agent lock and life cycle (`D/agent_lock.py`, `D/process_util.py`, `A/runtime.py`, `netllm-cli .../serve_lifecycle.py`) | one lock file per listen host, the port, the drain | lock, replace, drain | operating system |
| Telemetry (`A/telemetry.py`) | windowed ledger, latency ladder, all-time counters and `stats.json` | `record_usage`, `close` | accounting, disk |
| Updates, diagnostics, SDKs, menubar app | reports, user interface | | HTTP API |

A request runs like this.  `build_request_plan` reserves the slot of its source
before the first await.  The engine awaits a refresh of the pool, builds a
schedule (one round per eligible row, then a fallback tier on the Messages
surface), and walks it: select a row, acquire it, call it, release it; over the
listen addresses of one peer it retries before it counts the row as failed.  A
stream that delivered its first event becomes a `StreamSession`, which takes
over both slots and gives them back in the `finally` of its pump.  Meanwhile
heartbeats, admin calls and other requests refresh the pool: local rows are
updated in place, peer rows are *replaced*, rows that are gone are pruned, all
under calls that still hold the old objects.  Outcomes of calls and probes move
the health cache, which gates the selections that come after.

What is hard in it:

- *Ledgers under replacement.*  The load of a row lives on an object that a
  refresh may replace or drop while calls hold it; forwards to peers are
  counted a second time by URL.  Every exit path of a request must give back
  exactly what it took, to the right place.
- *Selections off the loop.*  A selection that may probe runs in a thread; the
  pool, the cache and the catalogs it read may be others when it is done.
- *Streams.*  After the first byte nothing can be retried, the client may leave
  or stop reading at the terminator, a translator may stop reading before the
  end, and generators may be abandoned at a yield and closed by the loop later.
- *Beliefs about rows.*  Health is held twice, in the cache and on the row, and
  selections read both; recovery relies on the selections themselves to probe.
- *Shared placements.*  Requests of one batch shard share an assignment that
  may be evicted, moved or completed while another one walks.
- *Registries that only hear.*  Every agent builds its own picture of the mesh
  from beats, answers, announcements and scans that overtake one another, about
  peers that crash, drain, move and are reachable from one side only.
- *Layered opt-outs.*  A header, a policy, a source, a scenario rule, a pin, a
  model group and a retry each widen or narrow where a request may go.
- *One file, several writers.*  The agent and the command line each load, change
  and save the configuration; clients that never see a secret edit rows that
  carry one; a save may be the first of a new generation and may crash.
- *Processes that overlap.*  A signalled agent frees its port at once and lives
  on until its requests drain, while its successor starts.
- *Counters without a sweeper.*  Buckets are reused round a ring, keys are
  capped, and the totals reach the disk only now and then.

Correctness, per component: caps hold and ledgers are exact (admission, pool);
a failed row is not called again, a walk ends (engine); what implements
admission is no more than admission (refinement); accounting precedes the
terminator, failures are told, blocks are well formed, slots return (streams);
a completed shard stays, a sole shard exhausts the healthy rows, the ledger is
bounded (batch); the display follows the cache, a served model is found, no row
is blackholed, a dead row leaves (health); the registries settle, a dead peer is
forgotten, a dead path is left (swarm); a forward
ends at the peer and leaves no load behind (mesh); the caller's opt-out is a ceiling,
substitutes come last and stay (routing); an enabled key was checked, the pool
follows the configuration (control plane); a secret stays with its row, the
pristine copy stays pristine (store); one agent per address (processes); a
window shows what happened in it, the totals do not go back while the file can
be read (telemetry).

The hazards these come from, each at its line, are in `PROJECT.json`.

## 2. Modules

### RequestEngine

One agent's requests, the four ledgers and the discovery around them.

| variables | code |
|---|---|
| `src` | `_source_in_flight` |
| `rows`, `inFlight`, `hops` | `RouterPool._backends` (by URL), `in_flight` of the object now in the pool, `_own_peer_hops` |
| `scan`, `known`, `load`, `active` | the local scan; routable peers, the load and the address the registry reports for them |
| `offered` | the cloud rows the configuration enables now: the next materialization adds these and prunes the others |
| `phase`, `tried`, `left`, `barred`, `tier` | where a request is; failed ids, rounds left, `ineligible_ids`, fallback rows left |
| `kept` | the fallback rows left whose object is still the one in the pool |
| `on`, `at`, `att` | the row selected; the address of the attempt; whether the object held is still the one in the pool |

`att` is what makes the model say anything about replaced rows: a release
through an object that left the pool does not move the counter of the row that
took its place, but does move the hop ledger, which is by URL.  A call through
a copy (`backend_for_v1_attempt` on a second address) is `at # on`.

Actions follow `engine.py` in order: `Admit` / `Reject`, `StartWalk` (refresh,
cloud rows, schedule), `Select`, `SelectNone`, `TakeTier`, `Exhaust`,
`StartAttempt` / `RefuseAttempt`, `CallSucceeds`, `CallRetriesPath`,
`CallFails`, `StreamOpens`, `StreamEnds`, `Disconnect`, `Finalize`, `Abort`
(cancellation or an unclassified error anywhere before a session exists).
`BackgroundRefresh`, `ListModels`, `Reconfigure`, `Heartbeat`, `LosePeer`,
`Reroute`, `Rescan` are the environment.  Local rows come and go with the scan,
peer rows with the registry, cloud rows with the configuration: only a request
that may use the cloud and `GET /v1/models` sync those, and they may then prune
a row under a call, or under the fallback tier of a request that will still
call it through its own object.  Which rows serve the model and what the upstream answers is
nondeterministic, so every selection strategy is covered by `Select`, with what
restricts it: failed rows, dialect, `local_only` except on the batch arm.

### SourceAdmission

The promise of admission control: a set of requests inside, bounded per source,
left by each in the end.  `RequestEngine` implements it
(`inside <- {live requests}`, `ended <- {rejected or done}`).

### BatchLedger

`BatchRequestLedger` with the arm of the selection that uses it.  `order` and
`url` are the `assignments` dict, whose insertion order eviction depends on;
`completed` is the set.  A selection is one action (no await in it); requests
interleave between calls.  `up` is the set of healthy rows and may change at
any time; `MaxLive` is how many requests of shards the callers have in progress
at once; the candidates are the healthy rows, or all if none is, less what
this request may not use.

### StreamSession, AnthropicBridge, ResponsesBridge

One streaming request.  The two bridges are pure folds: a record of the
translator's local state, `Read` for one frame, `Finish` for `[DONE]`, both
appending to `out`.  `StreamSession` puts the Anthropic translator below the
pump (Messages over an OpenAI row) or the Responses translator above it, pulls
one event ahead as `_pump` does, and lets the upstream fail and the client
leave at every point.  Over an Anthropic row (`native`) the upstream's events
are forwarded as they are: its `message_stop` is the only one there is, it may
stop without it (`cut`) or send nothing at all (`PullNothing`), and the blocks
of such a message are its own.  What an upstream sends after its own end is not
modelled: the readers of chat and of native answers would forward it
(`wire.py:227`).  `pc` of the pump distinguishes the states that matter:
about to pull, holding something to yield, suspended at its yield (`sent`),
`abandoned` there, `closed`.

### PoolHealth

What the pool believes: `cache` (`_health_cache`; `fresh` stands for
`now - last_check < _freshness_s`), `display` and `catalog` (`health.status`
and `health.models` of the row), against `host`, what really runs there.  A
selection collects candidates (`collect`), refreshes local catalogs once if
there are none (`force`), filters the healthy ones (`filter`) and picks; it runs
on the loop if every entry is fresh and in a thread otherwise, and between two
probes of a thread everything else may happen.  `live` is the set of rows not
replaced since the selection read the pool: a probe or a call outcome writes to
the row it holds, which may be detached.  A scan of the local providers is
awaited: `ScanReads` is its request, `scanned` what it read, `Rescan` the merge of
that answer, however old it is by then (a cached scan merged again changes
nothing: the row already holds its health object).  `parted` and `steady` are
history variables: rows whose display an action set apart from the cache, and
rows that served the model since the selection began and over whose refreshed
catalog no older answer of a scan or of another selection's probe was written
(`Disturbs`; section 5 has what happens otherwise).

Abstractions: a selection reads the rows that are in the pool, not a snapshot
of detached ones; the second pass over pool overflow, excluded ids and the
strategies are "any candidate"; `is_online` of a probe is decided when the probe
starts; `Locals` are `[[routing.backends]]` overrides, which are never pruned;
statuses other than online show as `offline`.

### SwarmRegistry

Several agents, each with its own registry, and the wire between them.

| variables | code |
|---|---|
| `peers`, `known`, `origin` | `SwarmRegistry.peers` of each agent (listen address, alternates, how it was found, drain flag, active path), `known_peer_urls`, `_url_discovery` |
| `cycle`, `fetches`, `beats`, `news` | the gossip loop between its awaits; status requests answered but not registered; heartbeats and announcements on the wire |
| `up`, `draining` | the processes |
| `site`, `crashes`, `gaps`, `toggles` | the deployment, and how much of its budget of crashes, silences and drain toggles is spent |

An answer is a snapshot taken when the request is served and registered when it
arrives, so a beat may overtake it.  `RegisterPeer` is `register_peer` with what
it carries forward from the record it replaces; `RefreshRouting` is the probe of
a peer's addresses, taken as one step.  Time is not counted: a record is fresh
until `Silence`, which a live peer suffers only `site.gaps` times.  Tokens and
the compatibility check of a peer are left out.

### Routing

From a request to the row that serves it, as operators: who asks (`SourceOf`),
the scenario, the layers of policy (`Routed`), the walk that matches a name with
a catalog (`Walk`, `Literal`, `Upstream`), candidates (`Candidates`, `Allowed`),
strategies (`Chosen`).  `Picked` is the selection of one round: the pinned row,
the row the batch ledger has or finds for the request's shard (`ShardRow`), the
choice of the pool.  The state is what requests share: `load`, `turn` (the
rotation index), `bound` (the sticky substitutes), `catalog`, `pooled`, the
cloud rows that happen to be in the pool, and the ledger, `placed` and
`finished`, of one batch, whose entries other batches push out (`Forgets`; its
bound and its walk over a long batch are in `BatchLedger`).  A `story` is one
configuration with its requests.  Signals of a scenario, capability words and
rendezvous scores are inputs, a numeric session key is its number; a request
walks at most as often as there are rows (`Exhausted`).  The filters of the
code, list comprehensions that keep order, are `Only` (those of a set) and
`Prefer` (those first, the others after them), `Roomy` and `Spared` the sets the
guardrails keep.

### ControlPlane

`mem` and `file` are the configuration in memory and on disk; `future` stands
for a section this build does not know; `cli` is a command that loaded the file
and has not saved it.  A handler runs to its next await, so `PostConfig` saves,
applies and queues a forced scan in one step, while a verification (`probe`) and
a discovery (`scan`) take what they need before their await and write after it.
`waiting`, `cache` and `fresh` are the callers of the scan lock and its TTL
cache; `rows` and `cloudRow` what the pool has of it.  A key is inline or in one
of three variables (`Resolve`), which the agent and the command line may see
differently: `menu.env`, `menu.cliEnv`.  A scan asks the candidates of each
provider of the roster and keeps the best one (`ScanUrls`, `Hits`), and asks the
custom endpoints and explicit backends for themselves (`ByName`).

### ConfigStore

The rows of `config.toml` across edits by clients that never see a secret
(`view` is what a client last fetched), the migration of older generations, the
`backup` of each, and the steps of a save, with a crash between any two.  `label`
is the generation a save is copying; what is there meanwhile, and stays there if
the copy is cut short, is `HalfCopy`.

### AgentLifecycle

`netllm serve` processes on one machine: `lock` and `payload` are the flock and
the pid in its file, per listen host; `port` who listens; `pc` where a process
is, from `acquire_agent_lock` to the drain.  A wait may end by its deadline at
any moment.

### UsageLedger

`entries` is one dimension of `RequestLedger` (`by_model`, for the models in
`Tags`), `tally` the models of
one source, `histogram` the latency ladder, `alltime`, `stats` and `scratch` the
all-time counters, their file and the temporary file of a save, `saving` the step
a save is at.  A start may find the file unreadable (`Unreadable`) and count from
zero; `blind` holds until the process has replaced the file.  `history` is a
history variable: what really completed.  A streaming request has one token and
one measured second; the wall clock and the monotonic clock are one, which does
not step back; the interpolation of quantiles is left out.

### MeshForwarding

Several agents and the requests that cross them.  A visit of a request at an
agent is a whole walk of the engine there; it is named by the agents the request
went through, and it goes on when its caller has given up on it.  The walk is
the one of `RequestEngine` with the choice of rows and their health left open.

| variables | code |
|---|---|
| `registry`, `report` | peers of each agent's `SwarmRegistry`, the load their records carry |
| `pool`, `belief`, `hops` | peers with a row, `in_flight` of it, `_own_peer_hops` |
| `localRow`, `busy` | agents whose pool has the row of their own provider, `in_flight` of that row |
| `pc`, `on`, `tried`, `left`, `att` | each visit: where it is, the row it calls, what failed it, its rounds, whether its row is still the one in the pool |

`LocalOnly` is `_wants_local_only`: the header every forward carries, unless it
gets lost (`stripped`), or the hop count.  `Candidates` has the one arm of the
selection that is told neither: with the strategies `auto` and `batch_shard`, a
request with a batch id and an index, which may be in the body and then travel
with it.  A `story` says who has a provider, what comes, and how much may break:
when a provider misses a scan (`ScanLocal`) its row is pruned with the count of
the calls on it, and the scan that finds it again adds it at zero.

### MC modules

`MCRequestEngine`, `MCBatchLedger`, `MCStreamSession`, `MCPoolHealth`, `MCSwarm`
and `MCMesh` give the constants of the configurations their values (functions and
sequences a cfg cannot write).  `MCAgent` instantiates `Routing`, `ControlPlane`,
`AgentLifecycle`, `ConfigStore` and `UsageLedger` together.  They share no
variable, so each behaviour moves one of them (`part`) and one run serves five:
the product of their state spaces would show nothing more.

## 3. Runs

Passing runs:

| run | instance | shows |
|---|---|---|
| `engine_stable` | three requests (chat, stream, terminating hop), one source capped at 1 and one uncapped, local + cloud + peer row, agent ceiling 1, local providers answer every scan, the peer comes and goes; 47 k states | `SourceLedgerExact`, `SourceCapHeld`, `LocalAdmissionBound`, `AdmittedEnds`; `AdmissionImplemented` (with its liveness) |
| `engine_flap` | a Messages call and a batch stream, rows of all three kinds, local and cloud rows vanish and return, the peer moves between its two addresses; 2.7 M states | `TypeOK`, `RowLedgerExact`, `PeerLoadCovers`, `NeverRetriesFailed` |
| `ledger_shared` | one shard sent twice (once through another strategy), four more shards, a ledger of three entries, two requests at a time, two rows whose health changes; 295 k states | `CallsUntried`, `AssignmentsBounded`, `CompletedStays`, `SoleShardExhausts` |
| `stream_session` | each surface (chat, Messages native and translated, Responses), up to four chunks of text, reasoning and two tool calls, a failure or a leaving client anywhere; 336 k states | `SettledBeforeEnd`, `FailureTold`, `BlocksWellFormed`, `EndsUnlessMixed`; `SlotsReturn`: both slots come back exactly once |
| `pool_health` | two requests on one row, local or peer, all kinds of hosts, two failures to a trip; 2.0 M states | `DisplayFollowsCache`, `SelectionFinds` |
| `pool_recovery` | two requests at a time on a local or a peer row, up or down, scans that answer late; 210 k states | `NoBlackhole`, `DeadLeaves` |
| `swarm` | two agents, one with a LAN address and one with a LAN and a VPN address, in four deployments: pinned and drained, announced with a gap, scanned with a crash, and a tunnel only one side can dial; 62 k states | `SwarmTypeOK`, `OriginOutlivesRecord`; `MeshSettles`, `DeadForgotten`, `PathsSettle` |
| `mesh` | two agents, one with a ceiling; two requests at an agent without a provider while its peer is not heard for a time and its provider misses a scan, or one whose header is lost, with a gap and a crash; 181 k states | `ForwardsTerminate`; `MeshRests` |
| `agent` | the five parts of `MCAgent`, each over several stories, two of routing with a batch, one of telemetry with a file that cannot be read at times, two of the control plane with keys in variables only; 626 k states | routing: `HeaderIsCeiling`, `SubstitutesLast`, `StickyUntilReload`; control plane: `EnabledKeyWasChecked`, `ShownIsTheGate`, `RowsFollowConfig`; processes: `OneAgentPerAddress`; file: `SecretsFollowRows`, `PristineKept`; telemetry: `WindowsExact`, `AlltimeKept` |

Runs that end in a counterexample, one per disagreement between the code and
what is written about it (`PROJECT.json`, "findings", quotes the lines):

| run | property | what happens |
|---|---|---|
| `stream_path_leak` | `NoPhantomHops` | a stream that opens on a peer's second address hands the session a copy of the row; its release never reaches the row's counter, nor the hop of the first address |
| `ledger_strands` | `GivesUpExhausted` | a shard whose stored row is no longer a candidate gives up in its first round, a healthy row untried |
| `mesh_bounces` | `ForwardsTerminate` | a request that names its batch shard in the body goes back and forth between two agents: neither the header nor the hop count reaches the batch-ledger arm |

### Bounds

`MaxLoad` bounds the load a heartbeat reports (1: a peer is idle or not; only
sums and comparisons use it), `MaxChunks` the length of an answer (4: text,
reasoning and two tool calls in every order, or one of them reopened),
`MaxEntries` the ledger (3, where the code has 8192) and `MaxLive` the requests
of shards in progress at once (2): with five keys an assignment is evicted under
a request that puts it back, and there is one key more than the four entries the
ledger may ever hold, `MaxFailures` the trip (2: one failure below it
and one at it; 1 where only recovery matters), `Flap` what may vanish and return (in `engine_stable` the peer; in
`engine_flap` the local and the cloud rows, while the peer moves between its
addresses, which replaces and prunes its rows too), `Width` the requests that are on
a set of enabled rows at once.  Each request is submitted once and a request
has at most as many rounds as there are rows, so the engine and the ledger need
no other bound.  Two requests are enough for the races of the engine: every
ledger property relates one request to one counter or two requests to one cap;
the third request of `engine_stable` is there for the second source and the
terminating hop.  Two rows per request suffice for failover, three kinds of
rows for the three lifecycles.  The theorems below remove the bounds for the
safety properties they prove.

`ledger_shared` takes one of the states that differ by a permutation of batches
whose shards have the same index (`Batches`), and looks past how a request ended
and what a shard without an open request was assigned (`View`): no step and no
property of the run reads these, and none of them is a liveness property.

The bounds of the later modules:

- `SwarmRegistry`: a deployment fixes how often agents crash, are not heard and
  toggle their drain (0 or 1 of each).  The liveness properties speak of what
  holds once these stop, so the bounds are what makes them stop, too.  Two
  agents: registration relates one registry to one peer, and no step reads the
  records of a third.
- `Routing`: `Turns` is a multiple of every number of rows the rotation index
  is reduced by, so the wrap-around is that of the code.  A request walks at
  most once per row.  A catalog reloads within the lists its story gives.
- `ControlPlane`: `Operations` (3) operator steps, restarts included: enable,
  edit and check is the longest way round the gate, and every property relates
  one edit to one check or one scan, with a step to spare.  Two backends of one
  provider, one better than the other; keys inline, in the variable an entry
  names, in the registry's, in the plan's, the last two also where the command
  line sees another one than the agent or none.
- `ConfigStore`: `Saves` (3) patches and edits by hand: an edit, a crash inside
  its save, and the save after it.
- `UsageLedger`: the clock runs from `Since` to `Until` (6 to 12), which is more
  than a round of both rings (`Spans`: 3 buckets of 1 and 2 of 3); `Since` is
  beyond a window because the clock of the code is, and a slot is born with
  tick 0.  `KeyCap` 2 and `TallyCap` 1 where the code has `LEDGER_MAX_KEYS` and
  `_SOURCE_MODEL_CAP`: four models overflow both.  `SaveInterval` 2: a save is
  due, held back, and due again within the run.  `Ladder` 2 steps of latency.

- `MeshForwarding`: `Depth` 4, one more than the visits `MAX_FORWARD_HOPS`
  allows, so a forward too many fits in; one crash, one gap and one missed scan
  (`misses`) per story: each detaches the rows of the visits under way, which is
  all they can do to a load.

`CHECK_DEADLOCK FALSE` is set in the two ledger runs (when all requests have
ended and health is fixed, nothing is left to do) and in `agent` (an operator
who has done all of a story, a clock at its bound).

### Fairness

- `RequestEngine`: weak fairness of each request's own steps.  Upstream calls
  carry connect and read timeouts (`backends.py:241`), the scan is bounded, and
  the loop runs callbacks and finalizers in turn.  Admissions, disconnects,
  aborts and discovery are not fair: nothing obliges them.
- `StreamSession`: weak fairness of the pump, its surroundings and the
  finalizer, by the same timeouts.  The client need not leave; that it reads or
  leaves is an assumption, since a client that does neither holds both slots.
- `PoolHealth`: requests keep coming and their steps go on, entries age, and
  scans are answered (they have a timeout); merges are strongly fair: they wait
  for the loop while a selection runs on it, and asyncio serves its ready queue in order, so selections cannot
  hold them off for ever.
- `SwarmRegistry`: the gossip loop goes round, status requests end, beats are
  delivered or lost, lost addresses are asked for again, paths are probed, and a
  dead peer falls silent.  Every one is a loop of the agent with a period of
  15 s or 60 s around calls with a timeout.  Crashes, gaps, drains and
  restarts are not fair.
- `MeshForwarding`: while visits are open one of them goes on (every call has a
  timeout), and beats between agents that run keep coming (the gossip loop).
- The parts of `MCAgent` are checked for safety only.

## 4. Theorems

Every theorem holds for any values of the constants that satisfy the named
assumptions below; a hypothesis of its own is given with it.

`RequestEngineProofs`

| theorem | statement | argument |
|---|---|---|
| `TypeCorrect` | `Spec => []TypeOK` | inductive; a chosen request holds a URL |
| `SourceLedger` | `Spec => []SourceLedgerExact` | every action moves `src` and the set of live requests together (`LedgerEnter`, `LedgerLeave`, `LedgerStays`) |
| `SourceCap` | `Spec => []SourceCapHeld` | `CounterCapped` (the counter never exceeds the cap) is inductive; with the exact ledger it bounds the set |
| `RowLedger` | `Spec => []RowLedgerExact` | `RowInv` = `Attachment` and `RowLedgerExact`: the count alone is not inductive, because a release must know that an attached object selected a row of the pool and that outside peers it calls the row's own address, and a fallback tier must know which of its objects are still rows of the pool |
| `PeerLoad` | `Spec => []PeerLoadCovers` | by `RowInv`: a refresh that replaces a peer's row detaches every call of it, and a call through a copy never moves the row's counter |
| `LocalAdmission` | `"provider" \notin Flap => (Spec => []LocalAdmissionBound)` | the hops on local rows are summed over the pool (`Stable`, `HopsBounded`, `TotalCovers`); the ceiling is compared when a hop starts, and while no local provider flaps no local row and no count is dropped. The hypothesis is needed: section 5 |
| `NeverRetries` | `Spec => NeverRetriesFailed` | `RetryInv`: the row a request has chosen has not failed it, and what its fallback tier still holds was not selectable in the strategy rounds |
| `ImplementsAdmission` | `Spec => Admission!SafetySpec` | each action maps to `Enter`, `TurnAway`, `Leave` or a stutter; `RoomIsNotFull` turns the comparison of a counter into one of a set, by the exact ledger |

`BatchLedgerProofs`

| theorem | statement | argument |
|---|---|---|
| `LedgerTypeCorrect` | `Spec => []TypeOK` | inductive |
| `Bounded` | `Spec => []AssignmentsBounded` | `LedgerInv` has `Ordered`: keys are in `order` once, and it has room for `Evicted` beyond its bound, the shards whose assignment was evicted under a request in progress; a reassignment only moves a key from there to `order`, and an eviction frees more places than it can add to it |
| `NeverCallsTried` | `Spec => []CallsUntried` | `LedgerInv`: what is called was among the candidates of its own selection |
| `Completed` | `Spec => CompletedStays` | by `LedgerInv`: whoever assigns a key found it unknown, or not completed, and evictions drop whole keys |
| `Eviction` | `Spec => EvictionMakesRoom` | half of the order goes, which by `Ordered` is more than what was put back |
| `SoleShard` | `Spec => SoleShardExhausts` | `LedgerInv` has `SoleShards`: while the one request of a key walks, its assignment names a row it tried, or none; while it calls, the row it calls, or none |

`StreamSessionProofs`

| theorem | statement | argument |
|---|---|---|
| `SessionTypeCorrect` | `Spec => []TypeOK` | part of `SessionInv`; with it both slots are given back at most once |
| `SettledFirst` | `Spec => []SettledBeforeEnd` | `SessionInv` says of every state of the pump and of every translator which terminators may be among the frames read, held, out and received, and whether the recorder is settled |
| `FailuresTold` | `Spec => []FailureTold` (not about `/v1/responses`, whose translator drops the error) | the same invariant: an error frame exists only once a failure is recorded, and a failure after the first byte puts one before the close |
| `Terminated` | `Spec => []EndsUnlessMixed` | `EndInv`: from the upstream's end on, the terminator is held back or waits in the translator, and what the pump yields at last ends with it; the translator keeps a text entry only once the answer had text (`Clean`), so only a mixed answer can make it raise |
| `BlocksKept` | `Spec => []BlocksWellFormed` | `OrderInv`: the log of all frames made so far is in order (`Ordered`), what the client has is a prefix of it, and the translator's tables say which blocks of the log are started and open (`Tracks`, `RTracks`) |

`PoolHealthProofs`, `SwarmRegistryProofs`, `MeshForwardingProofs`, `RoutingProofs`

| theorem | statement | argument |
|---|---|---|
| `DisplayFollows` | `Spec => []DisplayFollowsCache` | `Beliefs`: entries and displays have their types and the display follows the cache; the cases that matter are the merge, the probe's answer and the trip (`FailedEntry`) |
| `Finds` | `Spec => []SelectionFinds` | `SearchInv`: a row that has been steady since the selection began is, at each of its stages, either still to be refreshed or among its candidates; an answer that takes the name away again ends the steadiness |
| `SwarmTypeCorrect` | `Spec => []SwarmTypeOK` | inductive, over every way a record is written |
| `OriginOutlives` | `Spec => []OriginOutlivesRecord` | `SwarmInv` has `RegistryKept`: a record found by a heartbeat has an address without an origin, and the addresses of a record belong to its agent |
| `HopsReach` | `Spec => []HopsReachTheirPeer` | `SwarmInv`: whatever carries addresses of a peer carries that peer's |
| `UnshardedForwards` | `MeshSpec => []UnshardedTerminate` | `MeshInv`: a visit made by a forward carries the header or is the one whose header was lost, and `LocalOnly` closes the remote candidates of every arm but one |
| `Forwards` | no story has a sharded request `=> (MeshSpec => []ForwardsTerminate)` | from the former; `mesh_bounces` shows the hypothesis is needed |
| `Loads` | `MeshSpec => []LoadsCovered` | inductive in `MeshInv`: an agent is busy with the visits it serves through the row it has, and counts for a peer at most the visits that wait for it |
| `Ceiling` | no story has a provider that misses a scan `=> (MeshSpec => []CeilingHeld)` | `RowCeiling`, by `Loads`: the counter of the row never exceeds the ceiling; `LocalRows`: without missed scans every served visit is on that row. With one missed scan TLC finds the ceiling exceeded (section 5, `LocalAdmissionBound`) |
| `StartsOnce` | `MeshSpec => VisitsStartOnce` | `CallsRemembered`: what a visit called is in its `tried` |
| `HeaderHolds` | `RoutingSpec => []HeaderIsCeiling` | `RoutingInv` has `Closes`: the plan of a request that carries the local header is local, and so is the row it calls unless the batch ledger places its shard; a step is followed through the pin, every filter, guardrail and last resort of a selection |
| `LiteralsFirst` | `RoutingSpec => SubstitutesLast` | `Only` and `Prefer` keep order and members, so substitutes stay behind the literal rows |
| `SubstitutesStick` | `RoutingSpec => StickyUntilReload` | a resolution changes a binding only to a model its catalog has when the bound one has left it |

`AgentProofs`

| theorem | statement | argument |
|---|---|---|
| `PageIsTheGate` | `ControlSpec => []ShownIsTheGate` | `ControlInv`: a stored verdict is an answer that was given for its key |
| `RowsCurrent` | `ControlSpec => []RowsFollowConfig` | `ControlInv`: a cache that is fresh, and rows nobody is about to replace, are of the scan addresses of `mem`; an edit that changes those leaves a waiter behind |
| `GateHolds` | `ControlSpec => EnabledKeyWasChecked` | by `ControlInv`, on each of the ways to turn a provider on |
| `OneAgent` | `LifecycleSpec => []OneAgentPerAddress` | `LifecycleInv` ties the flock, the port and where each process is: `LocksHeld`, `PortServed`, and `Stopped`, which says that who signalled a process went on only when it was dead or its port free |
| `FlockReturned` | `LifecycleSpec => []LocksReturned` | part of `LifecycleInv` |
| `FirstCopies` | no story has `torn` `=> (StoreSpec => PristineKept)` | `StoreInv`: a copy is whole unless it is being made, only a document the user wrote is ever copied, and what is about to be written over has its copy. The hypothesis is needed: section 5 |
| `SecretsStay` | no file of a story gives two rows one id `=> (StoreSpec => SecretsFollowRows)` | `SecretInv`: the rows in the file and in memory, and those a client fetched, are lists in which an id is on one row. A merge claims a row once (`MergedList`), and by its id (`KeepsMerged`), so the rows that hold a secret afterwards are no more than those that held it. The hypothesis is needed: section 5 |
| `TotalsKept` | `UsageSpec => AlltimeKept`, which speaks of a process that could read the file or has replaced it | `UsageInv`: the file lags behind by what is dirty, what is about to replace it does not, and an old unsaved request means a refused save |
| `WindowsHold` | `UsageSpec => []WindowsExact` | `WindowInv`, see below |

Where an invariant had to be found:

- *`WindowInv`.*  What a window shows is a sum over slots, what happened is a set
  of requests; neither says anything about the slots that will be read later.
  `CellsExact` does, slot by slot: a slot's tick falls on it, it counts exactly
  the requests of that tick, and every request that falls on it is of that tick
  or an older one.  A request whose tick is within `buckets` of now is then alone
  on its slot (`SameSlot`: two ticks on one slot are at least a round apart), so
  the slots of a window partition the requests of the window (`WindowOf`), and
  the sum of the parts is the size of the whole (`TotalIs`).  That a new agent's
  slots, born with tick 0, count nothing needs `Since` to be beyond a window.
- *`SessionInv`.*  `SettledBeforeEnd` speaks of what the client received; a frame
  passes through five places before it gets there, and the invariant follows the
  terminator and the error frame through each.
- *`OrderInv`.*  `BlocksWellFormed` is about what the client has, while the
  Anthropic translator works ahead of the pump.  The invariant is about the
  `Log`: what the client has, what the pump has still to yield, the event it
  holds back and what the translator has still to hand over, in that order.
  Pulling, yielding and resuming move frames along the log and leave it as it is;
  only the translator adds to it, and `Tally` counts what it added: so many
  blocks started, these still open, every other one stopped.  `Tracks` ties the
  translator's `next`, `open`, `text` and `blocks` to that count.  The Responses
  translator is above the pump, so its log is `got` itself; it stops nothing
  before the end, where items close by kind and tool calls by rank (`NthEnumerates`:
  the ranks go through a finite set of indices, each once).
- *`SoleShards`.*  That every row is tried is a property of a whole walk; the
  invariant is what one round may assume of the next: the assignment may be
  evicted, but only the request itself moves it.
- *`SearchInv`.*  A selection that yields may see a row leave and come back; the
  invariant keeps, for each row that did not, the stage that still owes it a place.
- *`SecretInv`.*  Whose secret an entry inherits depends on every entry before it,
  through what they claimed and which ids they minted.  Where an entry without a
  stored id has a new url, what entry `i` finds claimed is the rows at the ids of
  the entries before it (`KeepsMerged`): no entry takes the row of another.
- *`ControlInv`.*  A handler saves and queues a scan, and the scan answers after
  later edits; which configuration the rows are of depends on who waits, so the
  invariant is about the waiters.
- *`LifecycleInv`.*  Two processes of one address may be alive at once; that they
  do not serve at once needs what each stage of a replacement has learnt about
  the process it signalled.

Recursive functions and folds have no induction theorem the provers can use;
where a proof needs what one computes, it takes the least prefix or the smallest
set for which the claim fails (`WFMin`) and contradicts it: `TotalsExist`,
`TotalIs` (sums), `RoutingProofs` (`Only`, `Prefer`), `StampExists` and
`MergeExists` (the rows and entries of `ConfigStore`), `BatchLedgerProofs`.

Assumptions on constants, each evaluated by TLC in the runs of its module:
`EngineAssumption` (finite requests and URLs; local, cloud and peer URLs are
different; every peer has an address); `HealthAssumption` (a row is local or a
peer's; the threshold is positive); `LedgerAssumption` of `BatchLedger` (finite
requests, different rows, room for more than one assignment and one request);
`SessionAssumption` (the surfaces, at least one chunk, tool calls by their
index); `AddressesAssumption`, `DeploymentsAssumption` (an address belongs to one
agent, an agent's alternates are its own); `MeshAssumption` (requests enter at
agents, ceilings are numbers, a forward can happen); `RoutingAssumption`,
`StoryAssumption` (names match themselves and no other exactly; the shape of a
configuration with its requests); `ControlAssumption` (keys, urls, variables and
menus have their types; no two backends list equally many models, so the order of
candidates, which decides a tie in the code, plays no part); `LifecycleAssumption` (processes, clients and what else listens
are different); `StoreAssumption` (a document has a generation and a list of
rows; an edit is one of six); `LedgerAssumption` of `UsageLedger` (positive
spans; no tag is a reserved name; `Since` is beyond a window; an older file whose
durations were measured has one per timed request).

What proof attempts corrected: `AssignmentsBounded` allows for the requests in
progress, whose reassignments write without evicting; `EnabledKeyWasChecked` speaks of who turns a
provider on, since the command line's save may carry an older `enabled` into the
file (section 5, `EnabledInFileWasChecked`); `ConfigStore` tells a copy under way
from a document that does not parse; `SecretsFollowRows` needs files whose rows
have different ids, which the stories of `agent.cfg` have.

Only model-checked:

- Everything with fairness: `AdmittedEnds`, `SlotsReturn`, `NoBlackhole`,
  `DeadLeaves`, `MeshSettles`, `DeadForgotten`, `PathsSettle`, `MeshRests` and
  the liveness half of `AdmissionImplemented`.  TLAPS does not reach `ENABLED`.

Every other property of a passing run is a theorem.

## 5. Disagreements and observations

Statements of the code's own documents and comments that a property formulates
and the models refute.  Each is defined in its module with a comment; added to the cfg
named here (changed as it says), TLC finds it violated.
`PROJECT.json`, "findings", quotes both sides.

| property (cfg) | what happens |
|---|---|
| `EndsWithTerminator` (`stream_session`) | text and then a tool call: the Anthropic bridge mixes up two kinds of keys, raises, and the body is cut without a terminator; `EndsUnlessMixed`, which passes, is the promise without that case and the next |
| `EndsWithTerminator`, with `Surfaces = {"native"}` | an Anthropic upstream ends its answer early, or sends nothing: success is recorded and the client gets no `message_stop` |
| `SelectionFinds` (`pool_health`), `Rescan` without `Disturbs` | a scan's answer from before the model was there is merged between a selection's refresh and its rematch: the request is refused although the row serves the model |
| `LocalAdmissionBound` (`engine_stable` with `Flap = {"provider"}`) | a scan misses a provider for once, its row and its count are dropped, the next scan re-adds it at zero and the agent takes hops over its ceiling |
| `LocalOnlyStaysLocal` (`engine_stable` with `Batch = {r1}`) | the batch-ledger arm is not told `local_only` and places the request on a peer or a cloud row |
| `AssignmentsWithinLimit` (`ledger_shared`) | a reassignment puts an evicted shard back without evicting: the assignments exceed `_LEDGER_MAX_ENTRIES`; `AssignmentsBounded`, which passes, says by how much |
| `CompletedWithAssignment` (`ledger_shared`) | a shard another strategy placed, or one that completes after its eviction, stays in `completed` for ever: the ledger grows without limit |
| `AckedOnce` (`mesh`) | a forward that the peer already reports is added to its load again |
| `PinKeepsOrigin` (`swarm`) | a pinned peer's record moves to the label of a scan or an announcement |
| `EnabledInFileWasChecked`, with `Operations = 4` | `cloud set-key` saves the configuration it loaded over a later disable: the provider is on in the file with a key nobody checked |
| `LearnsOnlyCandidates` | a discovery that was under way learns and saves the backend an edit just removed |
| `FutureKept` | a section of a newer build is stored by `POST config` and deleted by the next save |
| `StrategyNotSaved` | the strategy adopted from a gateway is written to the file by the next save |
| `AuthLands` | a merge does not copy `auth_mode` to the live cloud row |
| `HeaderIsAbsolute` | the batch-ledger arm asks for candidates without `local_only`: a request with the local-only header is called on a peer or a cloud row; `HeaderIsCeiling`, which passes, says that it is the only arm |
| `AllowlistNarrowsCloud`, `AllowlistHolds` | a source's allowlist refuses rows that are no cloud rows after `prefer_provider`; it is not read where something else than the source opens the cloud |
| `CloudOnlyWhenAllowed` | cloud rows another request brought into the pool are selected by a request whose plan has no cloud |
| `CapsFirst` | pooled spillover returns before the in-flight guardrail |
| `SubstituteKeepsCapability` | a model in two groups takes the substitute bound for the other capability |
| `InvokedIsServed` | the capability fallback picks a row that is then asked for a name it does not serve |
| `OnlyAgentsSignalled` | `lsof -ti` lists clients of the port; the first pid is signalled |
| `HolderIsNamed` | the loser of a lock race reports the dead holder before |
| `RestartIsNotItsOwnRival` | `serve --replace` holds the lock that the agent it asks the app to start needs |
| `SecretsAlwaysFollow` | a new entry without an id takes the url, and the secret, of a renamed row |
| `PristineKept`, in a story with `torn` TRUE | a crash inside the copy leaves a truncated one, which is protected from then on |
| `CountNeverBack` | `stats.json` is intact and cannot be read at a start: the counters begin at zero without a warning, and the next save lowers the count in the file |
| `TopIsTold` | a source's top models are partial with every `truncated` at 0 |

(The cfg is `agent` where none is named.)

Met while modelling, without a property:

- A file edited by hand may give two rows one id.  The merge lets the first win
  (`config_merge.py:146`), and the first row's entry claims it; a
  client that renames the second to the url of a third row gets the third row's
  secret, and the third row's entry none.  `SecretsFollowRows` fails in such a
  story; `SecretsStay` has the hypothesis that there is none.
- A pruned peer's hop ledger is popped under its calls (`pool.py:266`); when
  the peer returns it looks idler than it is until those calls end.
- `any_health_stale` promises a selection on the loop is "pure in-memory work"
  (`pool.py:348`), but the forced refresh of local catalogs probes over HTTP
  even then (`pool.py:627`); `/admin/discover` does the same
  (`routes/admin.py:231`).
- A probe that started before a trip undoes it when it answers after it, with
  the clock of its start (`pool.py:396`).
- The Responses translator drops an in-band error frame and still completes
  the response; its `finally` closes the outer generator only, so the pump
  below is released by the loop's finalizer, later than
  `surfaces/responses.py:63` says.
- The ineligible ids of a walk are frozen when its schedule is built: a row
  that appears during the walk is not among them (`selection.py:254`).
- Above 64 upstream clients the cache is cleared without closing any of them
  (`backends.py:251`).
- The peers scan of the admin page appends to the registry and saves after its
  await (`admin.py:864`).
- All agents of a user share one `stats.json` (`core.py:121`): two of them on
  different ports overwrite each other's totals.

## 6. What is not modelled

- Updates, diagnostics, the installer, the SDK clients, the menubar app, scripts
  and packaging: they call the HTTP API or report what they read, and keep no
  state the properties above relate to.
- HTTP itself, sockets, mDNS records and the formats of probes' answers: an
  exchange is its outcome.
- The conversion of whole requests and answers between dialects: a mapping of
  JSON documents with no protocol in it.  The streaming halves are modelled.
- Validation of single configuration values, wording of reports, Prometheus
  exposition, quantiles.
- Which words of a body make a scenario and which of a name make a capability:
  inputs of `Routing`.

`PROJECT.json` gives the state of each component, part by part.

## 7. Plan

What is left, the most important first.

1. `AttemptRecorder`: at most one outcome per attempt on every exit path, as a
   refinement of the engine's attempts.
2. The batch ledger under worker threads: the dict operations of `assign` as
   steps.
3. Two agents on one `stats.json`.
