---------------------------- MODULE RequestEngine ----------------------------
(***************************************************************************)
(* One agent's request engine and the load ledgers it keeps: admission of  *)
(* a request against its source's cap, the two-phase candidate walk, one   *)
(* acquire / call / release cycle per attempt (with the retry over a       *)
(* peer's other listen addresses), streaming sessions, and the pool        *)
(* refreshes that rebuild or prune rows while requests are in flight.      *)
(*                                                                         *)
(* Everything the code does between two awaits is one action.  What a      *)
(* request will find (which rows serve its model, what the upstream        *)
(* answers) is nondeterministic; what the engine does with it is not.      *)
(***************************************************************************)
EXTENDS Integers, Sequences, FiniteSets, Functions

CONSTANTS
    Requests,   \* requests a client may submit, each at most once
    Sources,    \* source ids (source_identity)
    SrcOf,      \* [Requests -> Sources]
    Cap,        \* [Sources -> Nat], max_concurrency of the source, 0 = none
    Streams,    \* requests with "stream": true
    LocalOnly,  \* requests whose resolved routing is local_only
    Batch,      \* requests placed by the batch ledger (batch_shard + shard ids)
    Messages,   \* requests on the Messages surface (cloud rows come last)
    LocalUrls,  \* base URLs a local provider scan may return
    CloudUrls,  \* base URLs of the materialized (anthropic) cloud rows
    Peers,      \* peer agents
    Homes,      \* [Peers -> Seq(url)], the peer's listen candidates in order
    AgentMax,   \* agent.max_concurrency with self-admission on, 0 = off
    MaxLoad,    \* bound on the load a heartbeat reports
    Flap,       \* what may vanish and return: "provider", "peer", "cloud"
    NoUrl       \* no row

PeerUrls == UNION {Range(Homes[p]) : p \in Peers}
Urls == LocalUrls \cup CloudUrls \cup PeerUrls

ASSUME EngineAssumption ==
    /\ IsFiniteSet(Requests) /\ IsFiniteSet(Urls)
    /\ SrcOf \in [Requests -> Sources]
    /\ LocalOnly \subseteq Requests
    /\ Cap \in [Sources -> Nat]
    /\ LocalUrls \cap CloudUrls = {}
    /\ (LocalUrls \cup CloudUrls) \cap PeerUrls = {}
    /\ Peers \cap Urls = {}
    /\ NoUrl \notin Urls
    /\ \A p \in Peers : Homes[p] \in Seq(PeerUrls) /\ Homes[p] # << >>
    /\ AgentMax \in Nat /\ MaxLoad \in Nat
    /\ Flap \subseteq {"provider", "peer", "cloud"}

VARIABLES
    src,       \* _source_in_flight: reserved slots per source
    rows,      \* base URLs of the rows in RouterPool._backends
    inFlight,  \* in_flight of the row object now in the pool, per URL
    hops,      \* RouterPool._own_peer_hops
    scan,      \* URLs the current local scan returns
    known,     \* peers the registry hands out as routable
    load,      \* load the peer's last heartbeat reported
    active,    \* the listen address the registry picked for the peer
    offered,   \* cloud rows the configuration enables (and has a key for)
    phase,     \* where each request is
    tried,     \* ids of the backends that failed this request
    left,      \* strategy rounds the request may still run
    barred,    \* ineligible_ids of its schedule: no strategy round takes them
    tier,      \* fallback rows it has not replayed yet
    kept,      \* those whose Backend object is still the row in the pool
    on,        \* row the request selected
    at,        \* address of the attempt in progress (use_backend.base_url)
    att        \* is the Backend object it holds still the row in the pool?

pool == <<rows, inFlight, hops>>
discovery == <<scan, known, load, active, offered>>
walk == <<tried, left, barred, tier>>
vars == <<src, pool, discovery, phase, walk, kept, on, at, att>>

Phases == {"idle", "rejected", "refresh", "walk", "chosen", "call", "stream",
           "closing", "done"}
Live(r) == phase[r] \notin {"idle", "rejected", "done"}
Holds(r) == phase[r] \in {"call", "stream", "closing"}
Chosen(r) == phase[r] = "chosen" \/ Holds(r)

Owner(u) == CHOOSE p \in Peers : u \in Range(Homes[p])
IdOf(u) == IF u \in PeerUrls THEN Owner(u) ELSE u
Ids == LocalUrls \cup CloudUrls \cup Peers

\* Mutant of Dec: the release does not stop at zero.
DecBelowZero(n) == n - 1

Dec(n) == IF n > 0 THEN n - 1 ELSE 0
Remote == {active[p] : p \in known}
LocalLoad == FoldFunctionOnSet(+, 0, inFlight, rows \cap LocalUrls)

\* The next listen candidate after the address that just failed.
NextPath(p, failed) ==
    LET before == {i \in 1..(Len(Homes[p]) - 1) : Homes[p][i] = failed} IN
    IF before = {} THEN NoUrl ELSE Homes[p][(CHOOSE i \in before : TRUE) + 1]

TypeOK ==
    /\ src \in [Sources -> Nat]
    /\ rows \subseteq Urls
    /\ inFlight \in [Urls -> Nat]
    /\ hops \in [PeerUrls -> Nat]
    /\ scan \subseteq LocalUrls
    /\ known \subseteq Peers
    /\ load \in [Peers -> 0..MaxLoad]
    /\ active \in [Peers -> PeerUrls]
    /\ phase \in [Requests -> Phases]
    /\ tried \in [Requests -> SUBSET Ids]
    /\ left \in [Requests -> Nat]
    /\ offered \subseteq CloudUrls
    /\ barred \in [Requests -> SUBSET CloudUrls]
    /\ tier \in [Requests -> SUBSET CloudUrls]
    /\ kept \in [Requests -> SUBSET CloudUrls]
    /\ on \in [Requests -> Urls \cup {NoUrl}]
    /\ at \in [Requests -> Urls \cup {NoUrl}]
    /\ att \in [Requests -> BOOLEAN]
    /\ \A r \in Requests : Chosen(r) => on[r] \in Urls

Init ==
    /\ src = [s \in Sources |-> 0]
    /\ rows = {}
    /\ inFlight = [u \in Urls |-> 0]
    /\ hops = [u \in PeerUrls |-> 0]
    /\ scan = LocalUrls
    /\ known = Peers
    /\ load = [p \in Peers |-> 0]
    /\ active = [p \in Peers |-> Homes[p][1]]
    /\ offered = CloudUrls
    /\ phase = [r \in Requests |-> "idle"]
    /\ tried = [r \in Requests |-> {}]
    /\ left = [r \in Requests |-> 0]
    /\ barred = [r \in Requests |-> {}]
    /\ tier = [r \in Requests |-> {}]
    /\ kept = [r \in Requests |-> {}]
    /\ on = [r \in Requests |-> NoUrl]
    /\ at = [r \in Requests |-> NoUrl]
    /\ att = [r \in Requests |-> FALSE]

-----------------------------------------------------------------------------
(* The ledgers *)

\* Mutant of SourceFull: one request too many is let in.
SourceFullLate(s) == Cap[s] > 0 /\ src[s] > Cap[s]

SourceFull(s) == Cap[s] > 0 /\ src[s] >= Cap[s]
SourceRelease(s) == src' = [src EXCEPT ![s] = Dec(@)]

\* acquire(backend): the object's counter, and the hop ledger by URL.
Acquire(r) ==
    /\ inFlight' = IF att[r] THEN [inFlight EXCEPT ![on[r]] = @ + 1] ELSE inFlight
    /\ hops' = IF on[r] \in PeerUrls THEN [hops EXCEPT ![on[r]] = @ + 1] ELSE hops

\* release(backend) through an object whose base_url is `url`: the row's own
\* counter moves only if the object is the row itself, not a copy of it.
Release(r, url) ==
    /\ inFlight' = IF att[r] /\ url = on[r]
                   THEN [inFlight EXCEPT ![url] = Dec(@)] ELSE inFlight
    /\ hops' = IF url \in PeerUrls THEN [hops EXCEPT ![url] = Dec(@)] ELSE hops

\* Mutant of ReleaseAcquire: the next path is called without acquiring.
ReleaseOnly(r) ==
    /\ inFlight' = IF att[r] THEN [inFlight EXCEPT ![on[r]] = Dec(@)] ELSE inFlight
    /\ hops' = [hops EXCEPT ![on[r]] = Dec(@)]

\* The `finally` of one path attempt, then the acquire of the next.
ReleaseAcquire(r) ==
    /\ inFlight' = IF att[r] THEN [inFlight EXCEPT ![on[r]] = Dec(@) + 1] ELSE inFlight
    /\ hops' = [hops EXCEPT ![on[r]] = Dec(@) + 1]

LetGo(r) ==
    /\ on' = [on EXCEPT ![r] = NoUrl]
    /\ at' = [at EXCEPT ![r] = NoUrl]
    /\ att' = [att EXCEPT ![r] = FALSE]

\* run_with_failover and open_stream return: their schedule goes with them.
DropSchedule(r) ==
    /\ tried' = [tried EXCEPT ![r] = {}]
    /\ left' = [left EXCEPT ![r] = 0]
    /\ barred' = [barred EXCEPT ![r] = {}]
    /\ tier' = [tier EXCEPT ![r] = {}]
    /\ kept' = [kept EXCEPT ![r] = {}]

\* The request is over: its slot of the source is given back.
Finish(r) ==
    /\ SourceRelease(SrcOf[r])
    /\ LetGo(r)
    /\ DropSchedule(r)
    /\ phase' = [phase EXCEPT ![r] = "done"]
    /\ UNCHANGED <<rows, discovery>>

-----------------------------------------------------------------------------
(* refresh_local_backends: merge, prune peers, prune locals.  Where the     *)
(* cloud rows are materialized too, `cloud` is what the configuration       *)
(* enables and the others are pruned; elsewhere it is what the pool has.    *)

\* Mutant of MergedLoad: every scan replaces the row objects of all kinds.
MergedLoadFresh(newRows) ==
    [u \in Urls |->
        IF u \in newRows \cap PeerUrls THEN load[Owner(u)] + hops[u] ELSE 0]

\* Peer rows are replaced by new objects carrying the reported load plus our
\* own hops; other rows are updated in place; a row that is new starts at 0.
MergedLoad(newRows) ==
    [u \in Urls |->
        IF u \notin newRows THEN 0
        ELSE IF u \in PeerUrls THEN load[Owner(u)] + hops[u]
        ELSE IF u \in rows THEN inFlight[u] ELSE 0]

RefreshPool(cloud) ==
    LET newRows == scan \cup Remote \cup cloud IN
    /\ rows' = newRows
    /\ inFlight' = MergedLoad(newRows)
    /\ hops' = [u \in PeerUrls |-> IF u \in rows \ newRows THEN 0 ELSE hops[u]]
    /\ att' = [r \in Requests |-> att[r] /\ on[r] \in newRows \ PeerUrls]

\* A heartbeat, an admin call or the menubar refreshes outside any request.
BackgroundRefresh ==
    /\ RefreshPool(rows \cap CloudUrls)
    /\ kept' = [r \in Requests |-> kept[r] \cap rows']
    /\ UNCHANGED <<src, discovery, phase, walk, on, at>>

\* GET /v1/models refreshes and materializes the cloud rows outside any request.
ListModels ==
    /\ RefreshPool(offered)
    /\ kept' = [r \in Requests |-> kept[r] \cap rows']
    /\ UNCHANGED <<src, discovery, phase, walk, on, at>>

-----------------------------------------------------------------------------
(* A request *)

\* build_request_plan reserves the source slot before the first await.
Admit(r) ==
    /\ phase[r] = "idle"
    /\ ~SourceFull(SrcOf[r])
    /\ src' = [src EXCEPT ![SrcOf[r]] = @ + 1]
    /\ phase' = [phase EXCEPT ![r] = "refresh"]
    /\ UNCHANGED <<pool, discovery, walk, kept, on, at, att>>

Reject(r) ==
    /\ phase[r] = "idle"
    /\ SourceFull(SrcOf[r])
    /\ phase' = [phase EXCEPT ![r] = "rejected"]
    /\ UNCHANGED <<src, pool, discovery, walk, kept, on, at, att>>

\* The pool is refreshed, cloud rows materialized, the schedule built.
StartWalk(r) ==
    LET ineligible == IF r \in Messages THEN rows' \cap CloudUrls ELSE {}
        eligible == Cardinality(rows' \ ineligible)
    IN
    /\ phase[r] = "refresh"
    /\ RefreshPool(IF r \in LocalOnly THEN rows \cap CloudUrls ELSE offered)
    /\ phase' = [phase EXCEPT ![r] = "walk"]
    /\ left' = [left EXCEPT ![r] = IF eligible > 0 THEN eligible ELSE 1]
    /\ barred' = [barred EXCEPT ![r] = ineligible]
    /\ tier' = [tier EXCEPT ![r] = IF r \in LocalOnly THEN {} ELSE ineligible]
    /\ kept' = [q \in Requests |-> IF q = r THEN tier'[r] ELSE kept[q] \cap rows']
    /\ UNCHANGED <<src, discovery, tried, on, at>>

\* Mutant of Select: the cloud rows a Messages request keeps for its fallback
\* tier are not excluded from the strategy rounds.
SelectAnyDialect(r) ==
    /\ phase[r] = "walk" /\ left[r] > 0
    /\ \E u \in rows :
        /\ IdOf(u) \notin tried[r]
        /\ r \in LocalOnly \ Batch => u \in LocalUrls
        /\ on' = [on EXCEPT ![r] = u]
        /\ at' = [at EXCEPT ![r] = u]
    /\ att' = [att EXCEPT ![r] = TRUE]
    /\ left' = [left EXCEPT ![r] = @ - 1]
    /\ phase' = [phase EXCEPT ![r] = "chosen"]
    /\ UNCHANGED <<src, pool, discovery, tried, barred, tier, kept>>

\* One strategy round: some untried, eligible row.  The batch-ledger arm does
\* not hand local_only to the pool.  The choice may come from a worker
\* thread, so the pool can change before the attempt starts.
Select(r) ==
    /\ phase[r] = "walk" /\ left[r] > 0
    /\ \E u \in rows :
        /\ IdOf(u) \notin tried[r]
        /\ u \notin barred[r]
        /\ r \in LocalOnly \ Batch => u \in LocalUrls
        /\ on' = [on EXCEPT ![r] = u]
        /\ at' = [at EXCEPT ![r] = u]
    /\ att' = [att EXCEPT ![r] = TRUE]
    /\ left' = [left EXCEPT ![r] = @ - 1]
    /\ phase' = [phase EXCEPT ![r] = "chosen"]
    /\ UNCHANGED <<src, pool, discovery, tried, barred, tier, kept>>

\* Mutant of SelectNone: the round is skipped, not the rest of the phase.
SelectNoneSkips(r) ==
    /\ phase[r] = "walk" /\ left[r] > 0
    /\ UNCHANGED vars

\* Selection found no row: the strategy phase is over.
SelectNone(r) ==
    /\ phase[r] = "walk" /\ left[r] > 0
    /\ left' = [left EXCEPT ![r] = 0]
    /\ UNCHANGED <<src, pool, discovery, phase, tried, barred, tier, kept, on, at, att>>

\* The schedule holds the Backend objects it was built with: a row that was
\* pruned since is called all the same, through an object nobody else sees.
TakeTier(r) ==
    /\ phase[r] = "walk" /\ left[r] = 0
    /\ \E u \in tier[r] :
        /\ tier' = [tier EXCEPT ![r] = @ \ {u}]
        /\ kept' = [kept EXCEPT ![r] = @ \ {u}]
        /\ on' = [on EXCEPT ![r] = u]
        /\ at' = [at EXCEPT ![r] = u]
        /\ att' = [att EXCEPT ![r] = u \in kept[r]]
    /\ phase' = [phase EXCEPT ![r] = "chosen"]
    /\ UNCHANGED <<src, pool, discovery, tried, left, barred>>

\* Mutant of Exhaust: running out of candidates keeps the source slot.
ExhaustKeepsSlot(r) ==
    /\ phase[r] = "walk" /\ left[r] = 0 /\ tier[r] = {}
    /\ LetGo(r) /\ DropSchedule(r)
    /\ phase' = [phase EXCEPT ![r] = "done"]
    /\ UNCHANGED <<src, pool, discovery>>

Exhaust(r) ==
    /\ phase[r] = "walk" /\ left[r] = 0 /\ tier[r] = {}
    /\ Finish(r)
    /\ UNCHANGED <<inFlight, hops>>

\* Mutant of Saturated: the agent takes one hop more than its ceiling.
SaturatedLate(r) ==
    /\ r \in LocalOnly /\ on[r] \in LocalUrls
    /\ AgentMax > 0 /\ LocalLoad > AgentMax

\* _assert_mesh_self_admission: a terminating local hop on a full agent.
Saturated(r) ==
    /\ r \in LocalOnly /\ on[r] \in LocalUrls
    /\ AgentMax > 0 /\ LocalLoad >= AgentMax

StartAttempt(r) ==
    /\ phase[r] = "chosen"
    /\ ~Saturated(r)
    /\ Acquire(r)
    /\ phase' = [phase EXCEPT ![r] = "call"]
    /\ UNCHANGED <<src, rows, discovery, walk, kept, on, at, att>>

\* AgentCapacityExceeded is not a classified error: it ends the request.
RefuseAttempt(r) ==
    /\ phase[r] = "chosen"
    /\ Saturated(r)
    /\ Finish(r)
    /\ UNCHANGED <<inFlight, hops>>

CallSucceeds(r) ==
    /\ phase[r] = "call" /\ r \notin Streams
    /\ Release(r, on[r])
    /\ Finish(r)

\* A classified error on one address of a peer: try its next address.
CallRetriesPath(r) ==
    /\ phase[r] = "call"
    /\ on[r] \in PeerUrls
    /\ NextPath(Owner(on[r]), at[r]) # NoUrl
    /\ ReleaseAcquire(r)
    /\ at' = [at EXCEPT ![r] = NextPath(Owner(on[r]), at[r])]
    /\ UNCHANGED <<src, rows, discovery, phase, walk, kept, on, att>>

\* A classified error with no address left: the backend failed this request.
CallFails(r) ==
    /\ phase[r] = "call"
    /\ on[r] \in PeerUrls => NextPath(Owner(on[r]), at[r]) = NoUrl
    /\ Release(r, on[r])
    /\ tried' = [tried EXCEPT ![r] = @ \cup {IdOf(on[r])}]
    /\ LetGo(r)
    /\ phase' = [phase EXCEPT ![r] = "walk"]
    /\ UNCHANGED <<src, rows, discovery, left, barred, tier, kept>>

\* The first event arrived: the session takes over both slots.  Its backend
\* is use_backend, a copy of the row when the address is not the row's own.
StreamOpens(r) ==
    /\ phase[r] = "call" /\ r \in Streams
    /\ phase' = [phase EXCEPT ![r] = "stream"]
    /\ DropSchedule(r)
    /\ UNCHANGED <<src, pool, discovery, on, at, att>>

\* StreamSession.release, from the pump's finally.
SessionRelease(r) == Release(r, at[r]) /\ Finish(r)

\* The upstream ended, failed (error frames, no replay) or was cancelled.
StreamEnds(r) == phase[r] = "stream" /\ SessionRelease(r)

\* The client went away while the pump was suspended at its yield.  The
\* enclosing generator is closed; the pump is left to the loop's finalizer.
Disconnect(r) ==
    /\ phase[r] = "stream"
    /\ phase' = [phase EXCEPT ![r] = "closing"]
    /\ UNCHANGED <<src, pool, discovery, walk, kept, on, at, att>>

Finalize(r) == phase[r] = "closing" /\ SessionRelease(r)

\* Mutant of Abort: a cancellation while the plan is built keeps the slot.
AbortKeepsSlot(r) ==
    /\ phase[r] \in {"refresh", "walk", "chosen", "call"}
    /\ IF phase[r] = "call" THEN Release(r, on[r]) ELSE UNCHANGED <<inFlight, hops>>
    /\ IF phase[r] = "refresh" THEN UNCHANGED src ELSE SourceRelease(SrcOf[r])
    /\ LetGo(r) /\ DropSchedule(r)
    /\ phase' = [phase EXCEPT ![r] = "done"]
    /\ UNCHANGED <<rows, discovery>>

\* Cancellation or an unclassified exception before a session exists.
Abort(r) ==
    /\ phase[r] \in {"refresh", "walk", "chosen", "call"}
    /\ IF phase[r] = "call" THEN Release(r, on[r]) ELSE UNCHANGED <<inFlight, hops>>
    /\ Finish(r)

-----------------------------------------------------------------------------
(* Discovery, as the engine sees it *)

Heartbeat(p) ==
    /\ \E n \in 0..MaxLoad : load' = [load EXCEPT ![p] = n]
    /\ known' = known \cup {p}
    /\ UNCHANGED <<src, pool, scan, active, offered, phase, walk, kept, on, at, att>>

\* The registry prunes the peer, or the peer says it is draining.
LosePeer(p) ==
    /\ "peer" \in Flap
    /\ known' = known \ {p}
    /\ UNCHANGED <<src, pool, scan, load, active, offered, phase, walk, kept, on, at, att>>

\* refresh_peer_routing_if_stale moved the peer to another address.
Reroute(p) ==
    /\ \E u \in Range(Homes[p]) : active' = [active EXCEPT ![p] = u]
    /\ UNCHANGED <<src, pool, scan, known, load, offered, phase, walk, kept, on, at, att>>

\* A new scan: a provider that does not answer it has no row in it.
Rescan ==
    /\ "provider" \in Flap
    /\ scan' \in SUBSET LocalUrls
    /\ UNCHANGED <<src, pool, known, load, active, offered, phase, walk, kept, on, at, att>>

\* apply_config: cloud.enabled, a provider's own switch, its key.
Reconfigure ==
    /\ "cloud" \in Flap
    /\ offered' \in SUBSET CloudUrls
    /\ UNCHANGED <<src, pool, scan, known, load, active, phase, walk, kept, on, at, att>>

-----------------------------------------------------------------------------
Step(r) ==
    \/ StartWalk(r) \/ Select(r) \/ SelectNone(r) \/ TakeTier(r) \/ Exhaust(r)
    \/ StartAttempt(r) \/ RefuseAttempt(r)
    \/ CallSucceeds(r) \/ CallRetriesPath(r) \/ CallFails(r)
    \/ StreamOpens(r) \/ StreamEnds(r) \/ Finalize(r)

Next ==
    \/ \E r \in Requests : Admit(r) \/ Reject(r) \/ Step(r) \/ Disconnect(r) \/ Abort(r)
    \/ \E p \in Peers : Heartbeat(p) \/ LosePeer(p) \/ Reroute(p)
    \/ Rescan \/ Reconfigure \/ BackgroundRefresh \/ ListModels

Spec == Init /\ [][Next]_vars

\* Every await of a request completes: upstream calls carry connect and read
\* timeouts, the scan is bounded, the loop runs its callbacks and finalizers.
Fairness == \A r \in Requests : WF_vars(Step(r))
FairSpec == Spec /\ Fairness
-----------------------------------------------------------------------------
(* Properties *)

LiveOf(s) == {r \in Requests : Live(r) /\ SrcOf[r] = s}
HoldersOf(u) == {r \in Requests : Holds(r) /\ on[r] = u}
AttachedTo(u) == {r \in HoldersOf(u) : att[r]}

\* _source_in_flight counts exactly the requests between admission and their
\* end: no exit path (exhaustion, refusal, error, disconnect) forgets or
\* repeats the release.
SourceLedgerExact ==
    \A s \in Sources : src[s] = Cardinality(LiveOf(s))

\* The per-source cap is a bound on live requests under any interleaving.
SourceCapHeld ==
    \A s \in Sources : Cap[s] > 0 => Cardinality(LiveOf(s)) <= Cap[s]

\* A request whose object is still in the pool selected a row that is in the
\* pool; away from peers it calls that row's own address; the rows its
\* fallback tier will still move the counter of are rows of the pool.
Attachment ==
    /\ \A r \in Requests : att[r] => Chosen(r) /\ on[r] \in rows
    /\ \A r \in Requests : Chosen(r) /\ on[r] \notin PeerUrls => at[r] = on[r]
    /\ \A r \in Requests : kept[r] \subseteq rows

\* The in-flight count of a local or cloud row is the number of calls in
\* progress through that very object, across merges, prunes and re-adds.
RowLedgerExact ==
    \A u \in rows \ PeerUrls : inFlight[u] = Cardinality(AttachedTo(u))

\* A peer row never shows less load than the calls made through it.
PeerLoadCovers ==
    \A u \in rows \cap PeerUrls : inFlight[u] >= Cardinality(AttachedTo(u))

\* The hop ledger never holds a forward that is no longer in progress.
NoPhantomHops ==
    \A u \in PeerUrls : hops[u] <= Cardinality(HoldersOf(u))

\* agent.max_concurrency: terminating hops in progress on local providers
\* never exceed the agent's own ceiling.
LocalAdmissionBound ==
    AgentMax > 0 =>
        Cardinality({r \in LocalOnly : Holds(r) /\ on[r] \in LocalUrls}) <= AgentMax

\* "must not be forwarded": a local_only request is only ever called on a
\* local provider.
LocalOnlyStaysLocal == \A r \in LocalOnly : Holds(r) => on[r] \in LocalUrls

\* A backend that failed a request is never called for it again.
NeverRetriesFailed ==
    [][\A r \in Requests : phase'[r] = "call" => IdOf(on'[r]) \notin tried[r]]_vars

\* Every admitted request ends, and gives its slots back.
AdmittedEnds == \A r \in Requests : Live(r) ~> phase[r] = "done"
-----------------------------------------------------------------------------
(* The engine implements SourceAdmission *)

Inside == {r \in Requests : Live(r)}
Ended == {r \in Requests : phase[r] \in {"rejected", "done"}}

Admission == INSTANCE SourceAdmission WITH inside <- Inside, ended <- Ended

\* Admission through the counter is admission against the set of requests
\* really inside, and every request inside eventually leaves.
AdmissionImplemented == Admission!Spec
=============================================================================
