-------------------------- MODULE PoolHealthProofs --------------------------
(***************************************************************************)
(* For any number of rows, requests and failures: the status a row displays *)
(* follows the health cache, and a model that a local row serves is found.  *)
(***************************************************************************)
EXTENDS PoolHealth, TLAPS

\* What each action needs to know of the state: every row has an entry with
\* a verdict, a status, and one request calls one row.
Beliefs ==
    /\ cache \in [Rows -> [online : BOOLEAN, failures : 0..MaxFailures,
                           fresh : BOOLEAN, stamped : BOOLEAN]]
    /\ display \in [Rows -> {"unknown", "online", "offline"}]
    /\ probing \in [Requests -> Rows \cup {None}]
    /\ DisplayFollowsCache

\* An entry that survives one more failure without a trip keeps its verdict.
LEMMA FailedEntry ==
    ASSUME NEW e \in [online : BOOLEAN, failures : 0..MaxFailures,
                      fresh : BOOLEAN, stamped : BOOLEAN]
    PROVE  /\ Failed(e) \in [online : BOOLEAN, failures : 0..MaxFailures,
                             fresh : BOOLEAN, stamped : BOOLEAN]
           /\ Failed(e).failures # MaxFailures => Failed(e).online = e.online
BY HealthAssumption, SMT DEF Failed, Stamped

\* At the start no entry says offline.
LEMMA InitBeliefs == Init => Beliefs
BY HealthAssumption, SMT DEF Init, Beliefs, DisplayFollowsCache, NoEntry, Rows

LEMMA StepBeliefs == Beliefs /\ [Next]_vars => Beliefs'
<1> SUFFICES ASSUME Beliefs, [Next]_vars PROVE Beliefs'
  OBVIOUS
<1> USE DEF Beliefs
<1>1. ASSUME UNCHANGED <<cache, display, parted, probing>> PROVE Beliefs'
  BY <1>1 DEF DisplayFollowsCache
<1>2. ASSUME NEW b \in Rows, Age(b) PROVE Beliefs'
  BY <1>2 DEF Age, DisplayFollowsCache, probe
<1>3. ASSUME NEW b \in Rows, Rescan(b) PROVE Beliefs'
  BY <1>3 DEF Rescan, DisplayFollowsCache, probe
<1>4. CASE MergePeers
  <2>1. display' \in [Rows -> {"unknown", "online", "offline"}]
    BY <1>4 DEF MergePeers, Status
  <2>2. DisplayFollowsCache'
    <3> SUFFICES ASSUME NEW c \in Rows, display'[c] = "online", ~cache'[c].online
                 PROVE  c \in parted'
      BY DEF DisplayFollowsCache
    <3>1. cache' = cache /\ parted' = parted \ Peers
      BY <1>4 DEF MergePeers
    <3>2. CASE c \in Locals
      <4>1. display'[c] = display[c] /\ c \notin Peers
        BY <3>2, <1>4, HealthAssumption DEF MergePeers
      <4> QED
        BY <4>1, <3>1 DEF DisplayFollowsCache
    <3>3. CASE c \notin Locals
      <4>1. display'[c] = "offline" \/ display'[c] = "unknown"
        BY <3>3, <3>1, <1>4 DEF MergePeers, Status
      <4> QED
        BY <4>1
    <3> QED
      BY <3>2, <3>3
  <2> QED
    BY <1>4, <2>1, <2>2 DEF MergePeers, probe
<1>5. ASSUME NEW r \in Requests, NEW b \in Rows, Probe(r, b) PROVE Beliefs'
  BY <1>5 DEF Probe, belief, DisplayFollowsCache
<1>6. ASSUME NEW r \in Requests, Probed(r) PROVE Beliefs'
  <2> DEFINE b == probing[r]
             online == answer[r] # "down"
  <2>1. b \in Rows /\ cache' = [cache EXCEPT ![b] = Stamped(online, 0)]
    BY <1>6 DEF Probed
  <2>2. cache' \in [Rows -> [online : BOOLEAN, failures : 0..MaxFailures,
                             fresh : BOOLEAN, stamped : BOOLEAN]]
    BY <2>1, HealthAssumption DEF Stamped
  <2>3. /\ display' \in [Rows -> {"unknown", "online", "offline"}]
        /\ probing' \in [Requests -> Rows \cup {None}]
    BY <1>6, <2>1 DEF Probed, Status
  <2>4. DisplayFollowsCache'
    <3> SUFFICES ASSUME NEW c \in Rows, display'[c] = "online", ~cache'[c].online
                 PROVE  c \in parted'
      BY DEF DisplayFollowsCache
    <3>1. CASE c # b
      BY <3>1, <1>6, <2>1 DEF Probed, DisplayFollowsCache
    <3>2. CASE c = b
      <4>1. ~online
        BY <3>2, <2>1 DEF Stamped
      <4>2. b \notin live[r]
        BY <4>1, <3>2, <2>1, <1>6 DEF Probed, Status
      <4> QED
        BY <4>1, <4>2, <3>2, <2>1, <1>6 DEF Probed
    <3> QED
      BY <3>1, <3>2
  <2> QED
    BY <2>2, <2>3, <2>4
<1>7. ASSUME NEW r \in Requests, NEW b \in Rows, CallSucceeds(r, b) PROVE Beliefs'
  BY <1>7, HealthAssumption DEF CallSucceeds, Over, Stamped, DisplayFollowsCache, probe
<1>8. ASSUME NEW r \in Requests, NEW b \in Rows, CallFails(r, b) PROVE Beliefs'
  <2>1. /\ Failed(cache[b]) \in [online : BOOLEAN, failures : 0..MaxFailures,
                                 fresh : BOOLEAN, stamped : BOOLEAN]
        /\ Failed(cache[b]).failures # MaxFailures =>
             Failed(cache[b]).online = cache[b].online
    BY FailedEntry
  <2>2. cache' = [cache EXCEPT ![b] = Failed(cache[b])] /\ probing' = probing
    BY <1>8 DEF CallFails, Over, probe
  <2>3. display' \in [Rows -> {"unknown", "online", "offline"}]
    BY <1>8 DEF CallFails
  <2>4. DisplayFollowsCache'
    <3> SUFFICES ASSUME NEW c \in Rows, display'[c] = "online", ~cache'[c].online
                 PROVE  c \in parted'
      BY DEF DisplayFollowsCache
    <3>1. CASE c # b
      BY <3>1, <1>8, <2>2 DEF CallFails, DisplayFollowsCache
    <3>2. CASE c = b /\ Failed(cache[b]).failures # MaxFailures
      <4>1. display' = display /\ parted' = parted
        BY <3>2, <1>8 DEF CallFails
      <4> QED
        BY <4>1, <3>2, <2>1, <2>2 DEF DisplayFollowsCache
    <3>3. CASE c = b /\ Failed(cache[b]).failures = MaxFailures
      <4>1. b \notin live[r]
        BY <3>3, <1>8 DEF CallFails
      <4> QED
        BY <4>1, <3>3, <1>8 DEF CallFails
    <3> QED
      BY <3>1, <3>2, <3>3
  <2> QED
    BY <2>1, <2>2, <2>3, <2>4
<1>9. ASSUME NEW r \in Requests, Begin(r) \/ Look(r) \/ Collected(r) \/ Forced(r)
                                   \/ Pick(r) \/ NoBackend(r)
      PROVE  Beliefs'
  BY <1>9, <1>1 DEF Begin, Look, Collected, Forced, Pick, NoBackend, Over, belief, probe
<1>10. ASSUME NEW b \in Rows, HostChanges(b) \/ ScanReads(b) PROVE Beliefs'
  BY <1>10, <1>1 DEF HostChanges, ScanReads, belief, probe
<1>11. ASSUME NEW r \in Requests, NEW b \in Rows, CallRefused(r, b) PROVE Beliefs'
  BY <1>11, <1>1 DEF CallRefused, Over, belief, probe
<1>12. CASE UNCHANGED vars
  BY <1>12, <1>1 DEF vars, belief, probe
<1> QED
  BY <1>2, <1>3, <1>4, <1>5, <1>6, <1>7, <1>8, <1>9, <1>10, <1>11, <1>12
  DEF Next, Search, Outcome

\* The status a row displays contradicts the cache ("the gating truth") only
\* on rows that a scan put back online, or that a merge replaced under the
\* call or the probe that found them offline (pool.py, merge_backends,
\* mark_failure, is_healthy).
THEOREM DisplayFollows == Spec => []DisplayFollowsCache
<1>1. Beliefs => DisplayFollowsCache
  BY DEF Beliefs
<1> QED
  BY <1>1, InitBeliefs, StepBeliefs, PTL DEF Spec

---------------------------------------------------------------------------
(* No selection comes back empty-handed *)

\* The tables of the requests' selections.
Tables ==
    /\ enabled \subseteq Rows
    /\ host \in [Rows -> Hosts] /\ catalog \in [Rows -> {"empty", "other", "model"}]
    /\ pc \in [Requests -> {"idle", "collect", "force", "filter", "call", "none"}]
    /\ forced \in [Requests -> BOOLEAN]
    /\ todo \in [Requests -> SUBSET Rows]
    /\ cands \in [Requests -> SUBSET Rows] /\ ok \in [Requests -> SUBSET Rows]
    /\ live \in [Requests -> SUBSET Rows] /\ steady \in [Requests -> SUBSET Rows]
    /\ probing \in [Requests -> Rows \cup {None}] /\ answer \in [Requests -> Hosts]
    /\ scanned \in [Locals -> Hosts \cup {None}]

\* A steady row is a local one, whose object no merge replaces under the
\* selection.  The forced refresh names the model in the catalog of each that
\* it is done with, and whoever takes the name away again ends its steadiness;
\* the second collection has it among the rows to come or the candidates.  A
\* selection's own probe of it, begun since, was answered with the model.
Keeps(r) ==
    /\ steady[r] \subseteq Locals \cap enabled
    /\ \A b \in steady[r] : Serves(host[b]) = "model"
    /\ pc[r] \in Selecting => Locals \cap enabled \subseteq live[r]
    /\ forced[r] => pc[r] \in {"collect", "filter", "none"}
    /\ pc[r] = "force" => \A b \in steady[r] \ todo[r] : catalog[b] = "model"
    /\ pc[r] = "collect" /\ forced[r] =>
           \A b \in steady[r] : catalog[b] = "model" /\ b \in todo[r] \cup cands[r]
    /\ pc[r] = "none" => steady[r] = {}
    /\ todo[r] # {} => pc[r] \in Selecting
    /\ probing[r] # None => probing[r] \in todo[r]
    /\ probing[r] \in steady[r] => Serves(answer[r]) = "model"
SearchInv == Tables /\ \A r \in Requests : Keeps(r)

LEMMA SearchInit == Init => SearchInv
<1> SUFFICES ASSUME Init PROVE SearchInv
  OBVIOUS
<1>1. Tables
  <2>1. enabled \subseteq Rows /\ host \in [Rows -> Hosts]
    BY HealthAssumption DEF Init
  <2>2. catalog \in [Rows -> {"empty", "other", "model"}]
    BY DEF Init, Serves
  <2>3. /\ pc = [r \in Requests |-> "idle"] /\ forced = [r \in Requests |-> FALSE]
        /\ todo = [r \in Requests |-> {}] /\ cands = todo /\ ok = todo /\ live = todo /\ steady = todo
        /\ probing = [r \in Requests |-> None] /\ answer = [r \in Requests |-> "down"]
        /\ scanned = [c \in Locals |-> None]
    BY DEF Init
  <2> QED BY <2>1, <2>2, <2>3 DEF Tables, Hosts
<1>2. ASSUME NEW r \in Requests PROVE Keeps(r)
  BY <1>2 DEF Init, Keeps, Selecting
<1> QED BY <1>1, <1>2 DEF SearchInv

\* What the environment and other requests may do to a selection.
Spared(q) ==
    /\ pc'[q] = pc[q] /\ forced'[q] = forced[q] /\ todo'[q] = todo[q] /\ cands'[q] = cands[q]
    /\ enabled' = enabled /\ probing'[q] = probing[q] /\ answer'[q] = answer[q]
    /\ live[q] \cap Locals \subseteq live'[q] /\ steady'[q] \subseteq steady[q]
    /\ \A b \in steady'[q] :
        /\ Serves(host'[b]) = "model"
        /\ Refreshed(q, b) /\ catalog[b] = "model" => catalog'[b] = "model"

LEMMA SparedKeeps ==
    ASSUME NEW q, Keeps(q), Spared(q)
    PROVE  Keeps(q)'
BY DEF Keeps, Spared, Refreshed

\* Writing an answer into a catalog costs no steady row a name that its
\* selection's refresh has found.
LEMMA DisturbedSpares ==
    ASSUME Tables, NEW q, Keeps(q), q \in Requests, NEW b \in Rows, NEW found, Disturbs(b, found),
           catalog' = [catalog EXCEPT ![b] = Serves(found)]
    PROVE  /\ steady'[q] \subseteq steady[q]
           /\ \A c \in steady'[q] : c \in Locals /\ c \in enabled /\ c \in Rows /\ Serves(host[c]) = "model"
           /\ \A c \in steady'[q] :
               Refreshed(q, c) /\ catalog[c] = "model" => catalog'[c] = "model"
<1>1. steady'[q] \subseteq steady[q]
  BY DEF Disturbs
<1>2. \A c \in steady'[q] : c \in Locals /\ c \in enabled /\ c \in Rows /\ Serves(host[c]) = "model"
  BY <1>1 DEF Keeps, Rows
<1>3. ASSUME NEW c \in steady'[q], Refreshed(q, c), catalog[c] = "model" PROVE catalog'[c] = "model"
  <2>1. CASE c = b
    <3>1. Serves(found) = "model"
      BY <1>3, <2>1 DEF Disturbs
    <3> QED BY <2>1, <3>1 DEF Tables
  <2>2. CASE c # b
    BY <1>2, <1>3, <2>2 DEF Tables
  <2> QED BY <2>1, <2>2
<1> QED BY <1>1, <1>2, <1>3

LEMMA EnvironmentSpares ==
    ASSUME SearchInv,
           \/ \E b \in Rows : HostChanges(b) \/ Age(b) \/ ScanReads(b) \/ Rescan(b)
           \/ MergePeers \/ UNCHANGED vars
    PROVE  SearchInv'
<1> USE DEF SearchInv
<1>1. ASSUME NEW b \in Rows, HostChanges(b) PROVE SearchInv'
  <2>1. Tables'
    <3>1. PICK h \in Kinds[b] : host' = [host EXCEPT ![b] = h]
      BY <1>1 DEF HostChanges
    <3>2. h \in Hosts
      BY HealthAssumption
    <3> QED BY <1>1, <3>1, <3>2 DEF HostChanges, Tables, belief, probe
  <2>2. ASSUME NEW q \in Requests PROVE Spared(q)
    BY <1>1 DEF HostChanges, Tables, belief, probe, Spared, Keeps
  <2> QED BY <2>1, <2>2, SparedKeeps
<1>2. ASSUME NEW b \in Rows, Age(b) \/ UNCHANGED vars PROVE SearchInv'
  <2>1. Tables'
    BY <1>2 DEF Age, Tables, search, probe, vars, belief
  <2>2. ASSUME NEW q \in Requests PROVE Spared(q)
    BY <1>2 DEF Age, Spared, Keeps, search, probe, vars, belief
  <2> QED BY <2>1, <2>2, SparedKeeps
<1>3. ASSUME NEW b \in Rows, ScanReads(b) \/ Rescan(b) PROVE SearchInv'
  <2>1. CASE ScanReads(b)
    <3>1. Tables'
      BY <2>1 DEF ScanReads, Tables, search, probe, belief
    <3>2. ASSUME NEW q \in Requests PROVE Spared(q)
      BY <2>1 DEF ScanReads, Spared, Keeps, search, probe, belief
    <3> QED BY <3>1, <3>2, SparedKeeps
  <2>2. CASE Rescan(b)
    <3>1. Serves(scanned[b]) \in {"empty", "other", "model"}
      BY DEF Serves
    <3>2. catalog' = [catalog EXCEPT ![b] = Serves(scanned[b])] /\ Disturbs(b, scanned[b])
      BY <2>2 DEF Rescan
    <3>3. Tables'
      <4>1. steady' \in [Requests -> SUBSET Rows]
        BY <3>2 DEF Disturbs, Tables
      <4> QED BY <2>2, <3>1, <3>2, <4>1 DEF Rescan, Tables, probe
    <3>4. ASSUME NEW q \in Requests PROVE Spared(q)
      <4>1. /\ steady'[q] \subseteq steady[q]
            /\ \A c \in steady'[q] : Serves(host[c]) = "model"
            /\ \A c \in steady'[q] : Refreshed(q, c) /\ catalog[c] = "model" => catalog'[c] = "model"
        BY <3>2, DisturbedSpares
      <4> QED BY <2>2, <4>1 DEF Rescan, Spared, probe
    <3> QED BY <3>3, <3>4, SparedKeeps
  <2> QED BY <1>3, <2>1, <2>2
<1>4. ASSUME MergePeers PROVE SearchInv'
  <2>1. \A h : Serves(h) \in {"empty", "other", "model"}
    BY DEF Serves
  <2>2. Tables'
    BY <1>4, <2>1 DEF MergePeers, Tables, probe
  <2>3. ASSUME NEW q \in Requests PROVE Spared(q)
    <3>1. \A c \in Locals : c \notin Peers /\ c \in Rows
      BY HealthAssumption DEF Rows
    <3>2. \A c \in steady[q] : c \in Locals /\ catalog'[c] = catalog[c]
      BY <1>4, <3>1 DEF MergePeers, Keeps
    <3> QED BY <1>4, <3>1, <3>2 DEF MergePeers, Tables, Spared, Keeps, probe
  <2> QED BY <2>2, <2>3, SparedKeeps
<1>5. CASE Rows = {}
  <2>1. ASSUME UNCHANGED vars PROVE SearchInv'
    <3>1. Tables'
      BY <2>1 DEF Tables, search, probe, vars, belief
    <3>2. ASSUME NEW q \in Requests PROVE Spared(q)
      BY <2>1 DEF Spared, Keeps, search, probe, vars, belief
    <3> QED BY <3>1, <3>2, SparedKeeps
  <2> QED BY <1>1, <1>2, <1>3, <1>4, <2>1
<1> QED BY <1>1, <1>2, <1>3, <1>4, <1>5

\* A step of the selection of r that leaves the hosts and the catalogs alone
\* moves no other selection.
LEMMA OwnStep ==
    ASSUME SearchInv, NEW r \in Requests, Tables', Keeps(r)',
           enabled' = enabled, host' = host, catalog' = catalog,
           \A q \in Requests \ {r} :
               /\ pc'[q] = pc[q] /\ forced'[q] = forced[q] /\ todo'[q] = todo[q]
               /\ cands'[q] = cands[q] /\ live'[q] = live[q] /\ steady'[q] = steady[q]
               /\ probing'[q] = probing[q] /\ answer'[q] = answer[q]
    PROVE  SearchInv'
<1>1. ASSUME NEW q \in Requests \ {r} PROVE Keeps(q)'
  <2>1. Spared(q)
    BY DEF Spared, SearchInv, Keeps
  <2> QED BY <2>1, SparedKeeps DEF SearchInv
<1> QED BY <1>1 DEF SearchInv

LEMMA SelectionSteps ==
    ASSUME SearchInv, NEW r \in Requests,
           \/ Begin(r) \/ Look(r) \/ Collected(r) \/ Forced(r) \/ Pick(r)
           \/ \E b \in Rows : Probe(r, b)
    PROVE  SearchInv'
<1> USE DEF SearchInv
<1>1. CASE Begin(r)
  <2>1. Tables'
    BY <1>1 DEF Begin, Tables, belief, probe, Rows
  <2>2. Keeps(r)'
    BY <1>1, HealthAssumption DEF Begin, Tables, belief, probe, Keeps, Selecting, Rows
  <2> QED BY <1>1, <2>1, <2>2, OwnStep DEF Begin, Tables, belief, probe
<1>2. CASE Look(r)
  <2> DEFINE seen == {b \in todo[r] : ~NeedsProbe(r, b)}
             serving == {b \in seen : catalog[b] = "model"}
  <2>1. /\ seen # {} /\ todo' = [todo EXCEPT ![r] = @ \ seen]
        /\ cands' = IF pc[r] = "collect" THEN [cands EXCEPT ![r] = @ \cup serving] ELSE cands
        /\ probing[r] = None
        /\ UNCHANGED <<enabled, host, belief, scanned, pc, where, forced, live, steady, probe>>
    BY <1>2 DEF Look, Looked
  <2>2. Tables'
    <3>1. ok' \in [Requests -> SUBSET Rows]
      BY <1>2 DEF Look, Looked, Tables
    <3>2. seen \subseteq Rows /\ serving \subseteq Rows
      BY DEF Tables
    <3> HIDE DEF seen, serving
    <3>3. todo' \in [Requests -> SUBSET Rows] /\ cands' \in [Requests -> SUBSET Rows]
      BY <2>1, <3>2 DEF Tables
    <3> QED BY <2>1, <3>1, <3>3 DEF Tables, belief, probe
  <2>3. pc[r] # "force"
    BY <2>1 DEF NeedsProbe, Displays
  <2>4. Keeps(r)'
    <3> HIDE DEF seen
    <3> QED BY <2>1, <2>3 DEF Tables, belief, probe, Keeps
  <2> HIDE DEF seen, serving
  <2> QED BY <2>1, <2>2, <2>4, OwnStep DEF Tables, belief, probe
<1>3. CASE Collected(r)
  <2>1. Tables'
    <3>1. \E p \in {"filter", "force", "none"} : pc' = [pc EXCEPT ![r] = p]
      BY <1>3 DEF Collected
    <3>2. \E s \in SUBSET Rows : todo' = [todo EXCEPT ![r] = s]
      <4>1. cands[r] \subseteq Rows /\ Locals \cap enabled \subseteq Rows /\ todo[r] \subseteq Rows
        BY DEF Tables, Rows
      <4>2. todo = [todo EXCEPT ![r] = todo[r]]
        BY DEF Tables
      <4> QED BY <1>3, <4>1, <4>2 DEF Collected
    <3> QED BY <1>3, <3>1, <3>2 DEF Collected, Tables, belief, probe
  <2>2. Keeps(r)'
    BY <1>3 DEF Collected, Tables, belief, probe, Keeps, Selecting
  <2> QED BY <1>3, <2>1, <2>2, OwnStep DEF Collected, Tables, belief, probe
<1>4. CASE Forced(r)
  <2>1. Tables'
    BY <1>4 DEF Forced, Tables, belief, probe, Rows
  <2>2. Keeps(r)'
    BY <1>4 DEF Forced, Tables, belief, probe, Keeps, Selecting
  <2> QED BY <1>4, <2>1, <2>2, OwnStep DEF Forced, Tables, belief, probe
<1>5. CASE Pick(r)
  <2>1. PICK b \in Rows : /\ pc' = [pc EXCEPT ![r] = "call"] /\ cands' = [cands EXCEPT ![r] = {b}]
                          /\ ok' = [ok EXCEPT ![r] = @ \cap {b}]
                          /\ live' = [live EXCEPT ![r] = @ \cap {b}]
    BY <1>5 DEF Pick, Tables
  <2>2. /\ forced' = [forced EXCEPT ![r] = FALSE] /\ steady' = [steady EXCEPT ![r] = {}]
        /\ UNCHANGED <<enabled, host, belief, scanned, todo, probe>> /\ todo[r] = {}
    BY <1>5 DEF Pick, Filtered
  <2>3. Tables'
    BY <2>1, <2>2 DEF Tables, belief, probe
  <2>4. Keeps(r)'
    BY <2>1, <2>2 DEF Tables, belief, probe, Keeps, Selecting
  <2> QED BY <2>1, <2>2, <2>3, <2>4, OwnStep DEF Tables, belief, probe
<1>6. ASSUME NEW b \in Rows, Probe(r, b) PROVE SearchInv'
  <2>1. Tables'
    BY <1>6 DEF Probe, Tables, belief, search
  <2>2. Keeps(r)'
    <3>1. \A c \in steady[r] : Serves(host[c]) = "model"
      BY DEF Keeps
    <3>2. b # None /\ pc[r] \in Selecting
      BY <1>6, HealthAssumption DEF Probe, NeedsProbe, Keeps
    <3> QED BY <1>6, <3>1, <3>2 DEF Probe, Tables, belief, search, Keeps
  <2> QED BY <1>6, <2>1, <2>2, OwnStep DEF Probe, Tables, belief, search
<1> QED BY <1>1, <1>2, <1>3, <1>4, <1>5, <1>6

\* The answer of a probe: a forced refresh writes the catalog of the row it
\* holds; an answer without the model shows that the row was not steady.
LEMMA ProbedKeeps ==
    ASSUME SearchInv, NEW r \in Requests, Probed(r)
    PROVE  SearchInv'
<1> DEFINE b == probing[r]
           online == answer[r] # "down"
           held == b \in live[r]
<1>1. /\ b \in Rows
      /\ catalog' = IF held /\ b \in Locals /\ online
                    THEN [catalog EXCEPT ![b] = Serves(answer[r])] ELSE catalog
      /\ Looked(r, {b}, {c \in {b} : catalog'[c] = "model"}, {c \in {b} : online})
      /\ Disturbs(b, answer[r])
      /\ probing' = [probing EXCEPT ![r] = None] /\ answer' = [answer EXCEPT ![r] = "down"]
      /\ UNCHANGED <<enabled, host, scanned, pc, where, forced, live>>
  BY DEF Probed, SearchInv, Tables
<1>2. Serves(answer[r]) \in {"empty", "other", "model"} /\ (Serves(answer[r]) = "model" => online)
  BY DEF Serves
<1>3. Tables'
  <2>1. ok' \in [Requests -> SUBSET Rows] /\ cands' \in [Requests -> SUBSET Rows]
        /\ todo' \in [Requests -> SUBSET Rows]
    <3> DEFINE serving == {c \in {b} : catalog'[c] = "model"}
               healthy == {c \in {b} : online}
    <3>1. serving \subseteq Rows /\ healthy \subseteq Rows
      BY <1>1
    <3> HIDE DEF serving, healthy
    <3> QED BY <1>1, <3>1 DEF Looked, SearchInv, Tables, serving, healthy
  <2>2. steady' \in [Requests -> SUBSET Rows]
    BY <1>1 DEF Disturbs, SearchInv, Tables
  <2>3. catalog' \in [Rows -> {"empty", "other", "model"}]
    BY <1>1, <1>2 DEF SearchInv, Tables
  <2>4. probing' \in [Requests -> Rows \cup {None}] /\ answer' \in [Requests -> Hosts]
    BY <1>1 DEF SearchInv, Tables, Hosts
  <2> QED BY <1>1, <2>1, <2>2, <2>3, <2>4 DEF SearchInv, Tables
<1> DEFINE model == Serves(answer[r]) = "model"
<1>4. ASSUME NEW q \in Requests
      PROVE  /\ steady'[q] \subseteq steady[q]
             /\ \A c \in steady'[q] : c \in Locals /\ c \in enabled /\ c \in Rows /\ Serves(host[c]) = "model"
             /\ \A c \in steady'[q] :
                 Refreshed(q, c) /\ catalog[c] = "model" => catalog'[c] = "model"
  <2>1. CASE held /\ b \in Locals /\ online
    BY <1>1, <2>1, DisturbedSpares DEF SearchInv
  <2>2. CASE ~(held /\ b \in Locals /\ online)
    <3>1. catalog' = catalog /\ steady'[q] \subseteq steady[q]
      BY <1>1, <2>2 DEF Disturbs
    <3> QED BY <3>1 DEF SearchInv, Keeps, Rows
  <2> QED BY <2>1, <2>2
<1>5. ASSUME NEW q \in Requests \ {r} PROVE Keeps(q)'
  <2>1. todo'[q] = todo[q] /\ cands'[q] = cands[q] /\ probing'[q] = probing[q] /\ answer'[q] = answer[q]
    BY <1>1 DEF Looked, SearchInv, Tables
  <2>2. Spared(q)
    BY <1>1, <1>4, <2>1 DEF Spared
  <2> QED BY <2>2, SparedKeeps DEF SearchInv
<1>6. Keeps(r)'
  <2>1. todo'[r] = todo[r] \ {b} /\ cands[r] \subseteq cands'[r]
    BY <1>1 DEF Looked, SearchInv, Tables
  <2>2. /\ pc'[r] = pc[r] /\ forced'[r] = forced[r] /\ live'[r] = live[r] /\ enabled' = enabled
        /\ host' = host
    BY <1>1
  <2>3. ASSUME pc[r] \in Selecting, b \in steady'[r] PROVE catalog'[b] = "model"
    <3>1. held /\ b \in Locals /\ online /\ model
      BY <1>1, <1>2, <1>4, <2>3 DEF SearchInv, Keeps
    <3> QED BY <1>1, <3>1 DEF SearchInv, Tables
  <2>4. ASSUME pc[r] = "force", NEW c \in steady'[r] \ todo'[r] PROVE catalog'[c] = "model"
    <3>1. CASE c = b
      BY <2>3, <2>4, <3>1 DEF Selecting
    <3>2. CASE c # b
      BY <1>4, <2>1, <2>4, <3>2 DEF SearchInv, Keeps, Refreshed
    <3> QED BY <3>1, <3>2
  <2>5. ASSUME pc[r] = "collect", forced[r], NEW c \in steady'[r]
        PROVE  catalog'[c] = "model" /\ c \in todo'[r] \cup cands'[r]
    <3>1. catalog'[c] = "model"
      BY <1>4, <2>5 DEF SearchInv, Keeps, Refreshed
    <3>2. CASE c = b
      BY <1>1, <2>5, <3>1, <3>2 DEF Looked, SearchInv, Tables
    <3>3. CASE c # b
      BY <1>4, <2>1, <2>5, <3>1, <3>3 DEF SearchInv, Keeps
    <3> QED BY <3>1, <3>2, <3>3
  <2>6. pc[r] = "none" => steady'[r] = {}
    BY <1>4 DEF SearchInv, Keeps
  <2>7. probing'[r] = None /\ None \notin Rows /\ (todo'[r] # {} => pc'[r] \in Selecting)
    BY <1>1, <2>1, <2>2, HealthAssumption DEF SearchInv, Tables, Keeps
  <2>8. steady'[r] \subseteq Rows
    BY <1>4
  <2> HIDE DEF b, model
  <2> QED BY <1>4, <2>2, <2>4, <2>5, <2>6, <2>7, <2>8 DEF SearchInv, Keeps
<1> QED BY <1>3, <1>5, <1>6 DEF SearchInv

LEMMA OutcomesKeep ==
    ASSUME SearchInv, NEW r \in Requests, Outcome(r)
    PROVE  SearchInv'
<1>0. pc[r] \notin Selecting
  BY DEF Outcome, CallSucceeds, CallFails, CallRefused, NoBackend, Calls, Selecting
<1>1. Over(r) /\ catalog' = catalog
  BY DEF Outcome, CallSucceeds, CallFails, CallRefused, NoBackend, belief
<1>2. Tables'
  BY <1>1 DEF Over, SearchInv, Tables, probe
<1>3. Keeps(r)'
  BY <1>1, <1>0 DEF Over, SearchInv, Tables, Keeps, Selecting, probe
<1> QED BY <1>1, <1>2, <1>3, OwnStep DEF Over, SearchInv, Tables, probe

LEMMA SearchStep ==
    ASSUME SearchInv, [Next]_vars
    PROVE  SearchInv'
BY EnvironmentSpares, SelectionSteps, ProbedKeeps, OutcomesKeep DEF Next, Search

\* _collect_model_backends with its forced refresh: a local row that served the
\* model throughout a selection is found by it, whatever its catalog said, and
\* whatever other selections, probes, scans and merges did meanwhile.
THEOREM Finds == Spec => []SelectionFinds
<1>1. SearchInv => SelectionFinds
  BY DEF SearchInv, Keeps, SelectionFinds
<1> QED BY <1>1, SearchInit, SearchStep, PTL DEF Spec
=============================================================================
