----------------------------- MODULE PoolHealth -----------------------------
(***************************************************************************)
(* What one agent believes of its rows, and how the belief moves: the      *)
(* health cache that gates selection, the status and the catalog each row  *)
(* displays, selections that probe rows while they run in worker threads,  *)
(* the outcomes of calls, and the merges that replace rows under both.     *)
(* Time is abstract: an entry of the cache is fresh until it ages.         *)
(***************************************************************************)
EXTENDS Integers, FiniteSets

CONSTANTS
    Locals,       \* rows of [[routing.backends]], updated in place
    Peers,        \* rows rebuilt from heartbeats, replaced at every merge
    Requests,     \* requests for one model
    MaxFailures,  \* hard failures that trip a row
    Kinds,        \* [Rows -> what may run behind the row]
    Width         \* [sets of enabled rows -> bound on the requests at once]

Rows == Locals \cup Peers
None == "none"

\* "sick" answers probes and fails calls, "other" serves another model.
Hosts == {"down", "sick", "other", "model"}

ASSUME HealthAssumption ==
    /\ Locals \cap Peers = {} /\ None \notin Rows
    /\ MaxFailures \in Nat \ {0}
    /\ Kinds \in [Rows -> SUBSET Hosts]
    /\ DOMAIN Width \subseteq SUBSET Rows

VARIABLES
    enabled,   \* rows not switched off
    host,      \* what runs behind a row
    cache,     \* _health_cache
    display,   \* health.status of the row in the pool
    catalog,   \* its health.models
    parted,    \* rows whose status an action set apart from the cache
    scanned,   \* what a scan read of a local row and has yet to merge
    pc,        \* of a request
    where,     \* its selection runs on the "loop" or in a "thread"
    forced,    \* has it refreshed the local catalogs?
    todo,      \* rows it has yet to look at
    cands,     \* candidates it found
    ok,        \* those it takes for healthy
    live,      \* rows not replaced since it read the pool
    steady,    \* local rows that served the model since it began, their
               \* refreshed catalogs not written over with an older answer
    probing,   \* the row it probes
    answer     \* what ran there when the probe was answered

belief == <<cache, display, catalog, parted>>
search == <<where, forced, todo, cands, ok, live, steady>>
probe == <<probing, answer>>
vars == <<enabled, host, belief, scanned, pc, search, probe>>

Serves(h) == CASE h = "down" -> "empty" [] h = "other" -> "other" [] OTHER -> "model"
Selecting == {"collect", "force", "filter"}

\* `fresh` is now - last_check < _freshness_s, `stamped` is last_check > 0.
Stamped(online, failures) ==
    [online |-> online, failures |-> failures, fresh |-> TRUE, stamped |-> TRUE]
NoEntry == [online |-> TRUE, failures |-> 0, fresh |-> FALSE, stamped |-> FALSE]
Status(online) == IF online THEN "online" ELSE "offline"

\* A peer's row is built from its heartbeat, a local one from the scan.
Init ==
    /\ enabled \in DOMAIN Width
    /\ host \in [Rows -> Hosts]
    /\ \A b \in Rows : host[b] \in IF b \in enabled THEN Kinds[b] ELSE {"down"}
    /\ cache = [b \in Rows |-> NoEntry]
    /\ display = [b \in Rows |->
                    IF b \in Locals /\ host[b] # "down" THEN "online" ELSE "unknown"]
    /\ catalog = [b \in Rows |-> Serves(host[b])]
    /\ parted = {}
    /\ scanned = [b \in Locals |-> None]
    /\ pc = [r \in Requests |-> "idle"]
    /\ where = [r \in Requests |-> "thread"]
    /\ forced = [r \in Requests |-> FALSE]
    /\ todo = [r \in Requests |-> {}] /\ cands = todo /\ ok = todo
    /\ live = todo /\ steady = todo
    /\ probing = [r \in Requests |-> None]
    /\ answer = [r \in Requests |-> "down"]

\* Nothing else runs on the event loop while a selection does.
LoopFree == \A r \in Requests : ~(pc[r] \in Selecting /\ where[r] = "loop")

-----------------------------------------------------------------------------
(* Environment *)

HostChanges(b) ==
    /\ b \in enabled
    /\ \E h \in Kinds[b] \ {host[b]} : host' = [host EXCEPT ![b] = h]
    /\ steady' = [r \in Requests |-> steady[r] \ {b}]
    /\ UNCHANGED <<enabled, belief, scanned, pc, where, forced, todo, cands, ok, live, probe>>

Age(b) ==
    /\ cache[b].fresh
    /\ cache' = [cache EXCEPT ![b].fresh = FALSE]
    /\ UNCHANGED <<enabled, host, display, catalog, parted, scanned, pc, search, probe>>

-----------------------------------------------------------------------------
(* refresh_local_backends -> merge_backends *)

\* Every peer row is replaced: its status comes from the cache, its catalog
\* from the peer's last heartbeat.
MergePeers ==
    /\ LoopFree
    /\ display' = [b \in Rows |->
                     IF b \in Locals THEN display[b]
                     ELSE IF cache[b].stamped THEN Status(cache[b].online)
                     ELSE "unknown"]
    /\ catalog' = [b \in Rows |->
                     IF b \in Peers /\ host[b] # "down" THEN Serves(host[b])
                     ELSE catalog[b]]
    /\ parted' = parted \ Peers
    /\ live' = [r \in Requests |-> live[r] \ Peers]
    /\ UNCHANGED <<enabled, host, cache, scanned, pc, where, forced, todo, cands, ok, steady,
                   probe>>

\* A scan is awaited: what it read may be old when it is merged.  One runs at
\* a time, and merging the cached scan once more changes nothing.
ScanReads(b) ==
    /\ b \in Locals \cap enabled /\ scanned[b] = None
    /\ scanned' = [scanned EXCEPT ![b] = host[b]]
    /\ UNCHANGED <<enabled, host, belief, pc, search, probe>>

\* The catalog of b takes an answer: what the forced refresh of another
\* selection has found there meanwhile is gone.
Refreshed(r, b) == forced[r] \/ (pc[r] = "force" /\ b \notin todo[r])
Disturbs(b, found) ==
    steady' = [r \in Requests |->
                 IF Serves(found) # "model" /\ Refreshed(r, b)
                 THEN steady[r] \ {b} ELSE steady[r]]

\* The row keeps its identity and takes the health of the scan, which for an
\* override that did not answer is the default.
Rescan(b) ==
    /\ LoopFree /\ b \in Locals /\ scanned[b] # None
    /\ display' = [display EXCEPT ![b] = IF scanned[b] = "down" THEN "unknown" ELSE "online"]
    /\ catalog' = [catalog EXCEPT ![b] = Serves(scanned[b])]
    /\ parted' = IF scanned[b] # "down" /\ ~cache[b].online
                 THEN parted \cup {b} ELSE parted \ {b}
    /\ scanned' = [scanned EXCEPT ![b] = None]
    /\ Disturbs(b, scanned[b])
    /\ UNCHANGED <<enabled, host, cache, pc, where, forced, todo, cands, ok, live, probe>>

-----------------------------------------------------------------------------
(* Selection: select_backend -> backends_for_model -> _collect_model_backends *)

\* any_health_stale decides where the selection runs.
Begin(r) ==
    /\ LoopFree /\ pc[r] = "idle"
    /\ Cardinality({q \in Requests : pc[q] # "idle"}) < Width[enabled]
    /\ where' = [where EXCEPT ![r] =
                   IF \E b \in enabled : ~cache[b].fresh THEN "thread" ELSE "loop"]
    /\ pc' = [pc EXCEPT ![r] = "collect"]
    /\ todo' = [todo EXCEPT ![r] = enabled]
    /\ live' = [live EXCEPT ![r] = enabled]
    /\ steady' = [steady EXCEPT ![r] = {b \in Locals \cap enabled : Serves(host[b]) = "model"}]
    /\ UNCHANGED <<enabled, host, belief, scanned, forced, cands, ok, probe>>

\* Mutant of Trusts: an entry that says offline never goes stale.
TrustsOffline(b) == cache[b].fresh \/ ~cache[b].online

\* is_healthy answers from the cache.
Trusts(b) == cache[b].fresh

\* A row that displays a status and a catalog is taken at its word.
Displays(r, b) ==
    \/ pc[r] = "collect" /\ catalog[b] # "empty"
    \/ pc[r] = "filter" /\ display[b] = "online" /\ catalog[b] # "empty"
NeedsProbe(r, b) == ~Displays(r, b) /\ (pc[r] = "force" \/ ~Trusts(b))

\* The selection is done with some rows: those serving the model, those healthy.
Looked(r, seen, serving, healthy) ==
    /\ todo' = [todo EXCEPT ![r] = @ \ seen]
    /\ cands' = IF pc[r] = "collect" THEN [cands EXCEPT ![r] = @ \cup serving] ELSE cands
    /\ ok' = IF pc[r] = "filter" THEN [ok EXCEPT ![r] = @ \cup healthy] ELSE ok

\* Up to its next probe a selection does not wait.
Look(r) ==
    /\ probing[r] = None
    /\ LET seen == {b \in todo[r] : ~NeedsProbe(r, b)} IN
        /\ seen # {}
        /\ Looked(r, seen, {b \in seen : catalog[b] = "model"},
                  {b \in seen : Displays(r, b) \/ cache[b].online})
    /\ UNCHANGED <<enabled, host, belief, scanned, pc, where, forced, live, steady, probe>>

\* A synchronous HTTP request; the answer is on its way when it returns.
Probe(r, b) ==
    /\ probing[r] = None /\ b \in todo[r]
    /\ \A c \in todo[r] : NeedsProbe(r, c)
    /\ probing' = [probing EXCEPT ![r] = b]
    /\ answer' = [answer EXCEPT ![r] = host[b]]
    /\ UNCHANGED <<enabled, host, belief, scanned, pc, search>>

\* The answer replaces the entry, whatever happened to it meanwhile; status
\* and catalog go to the row the selection holds.
Probed(r) ==
    LET b == probing[r]
        online == answer[r] # "down"
        held == b \in live[r]
    IN  /\ b # None
        /\ cache' = [cache EXCEPT ![b] = Stamped(online, 0)]
        /\ display' = IF held THEN [display EXCEPT ![b] = Status(online)] ELSE display
        /\ catalog' = IF held /\ b \in Locals /\ online
                      THEN [catalog EXCEPT ![b] = Serves(answer[r])] ELSE catalog
        /\ parted' = IF held \/ online \/ display[b] # "online"
                     THEN parted \ {b} ELSE parted \cup {b}
        /\ Looked(r, {b}, {c \in {b} : catalog'[c] = "model"}, {c \in {b} : online})
        /\ Disturbs(b, answer[r])
        /\ probing' = [probing EXCEPT ![r] = None]
        /\ answer' = [answer EXCEPT ![r] = "down"]
        /\ UNCHANGED <<enabled, host, scanned, pc, where, forced, live>>

\* Mutant of Collected: no candidate, no backend.
CollectedOnce(r) ==
    /\ pc[r] = "collect" /\ todo[r] = {}
    /\ pc' = [pc EXCEPT ![r] = IF cands[r] = {} THEN "none" ELSE "filter"]
    /\ todo' = [todo EXCEPT ![r] = cands[r]]
    /\ UNCHANGED <<enabled, host, belief, scanned, where, forced, cands, ok, live, steady,
                   probe>>

\* No candidate: the local catalogs are refreshed once, and matched again.
Collected(r) ==
    /\ pc[r] = "collect" /\ todo[r] = {}
    /\ IF cands[r] # {}
       THEN /\ pc' = [pc EXCEPT ![r] = "filter"]
            /\ todo' = [todo EXCEPT ![r] = cands[r]]
       ELSE IF ~forced[r]
       THEN /\ pc' = [pc EXCEPT ![r] = "force"]
            /\ todo' = [todo EXCEPT ![r] = Locals \cap enabled]
       ELSE pc' = [pc EXCEPT ![r] = "none"] /\ UNCHANGED todo
    /\ UNCHANGED <<enabled, host, belief, scanned, where, forced, cands, ok, live, steady,
                   probe>>

Forced(r) ==
    /\ pc[r] = "force" /\ todo[r] = {}
    /\ pc' = [pc EXCEPT ![r] = "collect"]
    /\ forced' = [forced EXCEPT ![r] = TRUE]
    /\ todo' = [todo EXCEPT ![r] = enabled]
    /\ live' = [live EXCEPT ![r] = enabled]
    /\ UNCHANGED <<enabled, host, belief, scanned, where, cands, ok, steady, probe>>

Filtered(r) == pc[r] = "filter" /\ todo[r] = {}

\* Any strategy: one of the healthy candidates, of all if none is.
Pick(r) ==
    /\ Filtered(r)
    /\ \E b \in IF ok[r] # {} THEN ok[r] ELSE cands[r] :
        /\ pc' = [pc EXCEPT ![r] = "call"]
        /\ cands' = [cands EXCEPT ![r] = {b}]
        /\ ok' = [ok EXCEPT ![r] = @ \cap {b}]
        /\ live' = [live EXCEPT ![r] = @ \cap {b}]
    /\ where' = [where EXCEPT ![r] = "thread"]
    /\ forced' = [forced EXCEPT ![r] = FALSE]
    /\ steady' = [steady EXCEPT ![r] = {}]
    /\ UNCHANGED <<enabled, host, belief, scanned, todo, probe>>

-----------------------------------------------------------------------------
(* What becomes of a call *)

Calls(r, b) == pc[r] = "call" /\ cands[r] = {b}

Over(r) ==
    /\ pc' = [pc EXCEPT ![r] = "idle"]
    /\ where' = [where EXCEPT ![r] = "thread"]
    /\ forced' = [forced EXCEPT ![r] = FALSE]
    /\ cands' = [cands EXCEPT ![r] = {}]
    /\ ok' = [ok EXCEPT ![r] = {}]
    /\ live' = [live EXCEPT ![r] = {}]
    /\ steady' = [steady EXCEPT ![r] = {}]
    /\ UNCHANGED <<enabled, host, scanned, todo, probe>>

\* mark_success
CallSucceeds(r, b) ==
    /\ LoopFree /\ Calls(r, b) /\ host[b] = "model"
    /\ cache' = [cache EXCEPT ![b] = Stamped(TRUE, 0)]
    /\ display' = IF b \in live[r] THEN [display EXCEPT ![b] = "online"] ELSE display
    /\ parted' = parted \ {b}
    /\ Over(r) /\ UNCHANGED catalog

\* Mutant of Failed: the trip goes by unnoticed.
FailedQuietly(e) == [e EXCEPT !.failures = IF @ + 1 >= MaxFailures THEN 0 ELSE @ + 1]

\* The entry after one more hard failure; a trip restarts its clock.
Failed(e) ==
    IF e.failures + 1 >= MaxFailures THEN Stamped(FALSE, MaxFailures)
    ELSE [e EXCEPT !.failures = @ + 1]

\* An error that counts; a peer's 404 does not.
FailsHard(b) == host[b] \in {"down", "sick"} \cup (IF b \in Locals THEN {"other"} ELSE {})

\* Mutant of CallFails: the trip does not reach the row.
CallFailsUnseen(r, b) ==
    /\ LoopFree /\ Calls(r, b) /\ FailsHard(b)
    /\ cache' = [cache EXCEPT ![b] = Failed(@)]
    /\ Over(r) /\ UNCHANGED <<display, parted, catalog>>

\* mark_failure with a hard error: the trip shows on the row the call holds.
CallFails(r, b) ==
    /\ LoopFree /\ Calls(r, b) /\ FailsHard(b)
    /\ cache' = [cache EXCEPT ![b] = Failed(@)]
    /\ LET trips == Failed(cache[b]).failures = MaxFailures IN
        /\ display' = IF trips /\ b \in live[r]
                      THEN [display EXCEPT ![b] = "offline"] ELSE display
        /\ parted' = IF ~trips \/ display[b] # "online" THEN parted
                     ELSE IF b \in live[r] THEN parted \ {b} ELSE parted \cup {b}
    /\ Over(r) /\ UNCHANGED catalog

\* mark_failure with a capacity error, or with a 400 or 404 of a peer.
CallRefused(r, b) ==
    /\ LoopFree /\ Calls(r, b) /\ host[b] # "down"
    /\ Over(r) /\ UNCHANGED belief

NoBackend(r) ==
    /\ LoopFree /\ pc[r] = "none"
    /\ Over(r) /\ UNCHANGED belief

-----------------------------------------------------------------------------

Search(r) ==
    \/ Look(r) \/ \E b \in Rows : Probe(r, b)
    \/ Probed(r) \/ Collected(r) \/ Forced(r) \/ Pick(r)
Outcome(r) ==
    \/ \E b \in Rows : CallSucceeds(r, b) \/ CallFails(r, b) \/ CallRefused(r, b)
    \/ NoBackend(r)

Next ==
    \/ \E b \in Rows : HostChanges(b) \/ Age(b) \/ ScanReads(b) \/ Rescan(b)
    \/ MergePeers
    \/ \E r \in Requests : Begin(r) \/ Search(r) \/ Outcome(r)

Spec == Init /\ [][Next]_vars

\* Requests keep coming, their probes and calls time out, entries age, and
\* heartbeats and scans go on.  The event loop serves what waits for it in
\* turn: selections that run on it cannot hold off merges and answers for ever.
FairSpec ==
    /\ Spec
    /\ SF_vars(MergePeers)
    /\ \A b \in Locals : WF_vars(ScanReads(b)) /\ SF_vars(Rescan(b))
    /\ \A b \in Rows : WF_vars(Age(b))
    /\ \A r \in Requests : WF_vars(Begin(r) \/ Search(r)) /\ SF_vars(Outcome(r))
-----------------------------------------------------------------------------
(* Properties *)

\* The status a row displays never contradicts an offline entry of the cache
\* ("the gating truth"), except on a row that a scan put back online, or that
\* was replaced under the call or the probe that found it offline.
DisplayFollowsCache ==
    \A b \in Rows : display[b] = "online" /\ ~cache[b].online => b \in parted

\* A model a local row serves throughout a selection is found, also when its
\* catalog did not name it: no selection comes back empty-handed, unless an
\* answer older than its own refresh was written over it before the rematch.
SelectionFinds == \A r \in Requests : pc[r] = "none" => steady[r] = {}

\* A row that serves the model from some time on is offered to requests again
\* and again: no failure blackholes it.
Offered(b) == \E r \in Requests : Filtered(r) /\ b \in ok[r]
NoBlackhole == \A b \in Rows : <>[](host[b] = "model") => []<>Offered(b)

\* A row that is down for good is at last not taken for healthy any more.
DeadLeaves ==
    \A b \in Rows : <>[](host[b] = "down") =>
        <>[](\A r \in Requests : ~(Calls(r, b) /\ b \in ok[r]))
=============================================================================
