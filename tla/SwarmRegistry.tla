--------------------------- MODULE SwarmRegistry ---------------------------
(* The peer registry of each agent, and the four ways it learns of a peer:   *)
(* heartbeats, status fetches (pinned peers, lost peers), mDNS and the       *)
(* subnet scan.  An agent's status is snapshotted where it is read and       *)
(* registered when the answer arrives, so answers overtake one another.      *)
(*                                                                           *)
(* Time is abstracted: a record is fresh until Silence makes it stale, which *)
(* a live peer suffers only site.gaps times (a lost run of heartbeats, a       *)
(* sleeping laptop); the 15 s and 60 s periods are fairness of the loops.    *)
EXTENDS Naturals, Sequences

CONSTANTS
    Agents, Addrs, NoAddr,
    Listen,      \* agent -> the address it advertises (agent_url_from_listen)
    OwnerOf,     \* address -> the agent that answers there
    Kind,        \* address -> its classification by its owner's interface
    Order,       \* the addresses in the order of their text
    Deployments, \* set of [pins, mdns, scan, alternates, reach, crashes,
                 \* gaps, toggles]
    Overlay      \* swarm.overlay_discovery is not "off"

ASSUME AddressesAssumption ==
    /\ Listen \in [Agents -> Addrs]
    /\ OwnerOf \in [Addrs -> Agents] /\ \A a \in Agents : OwnerOf[Listen[a]] = a
    /\ Kind \in [Addrs -> {"lan", "vpn", "container", "link_local", "loopback"}]
    /\ NoAddr \notin Addrs
    /\ Order \in Seq(Addrs) /\ \A u \in Addrs : \E i \in DOMAIN Order : Order[i] = u

\* own_alternate_urls lists addresses of the agent's own interfaces.
ASSUME DeploymentsAssumption ==
    \A s \in Deployments :
        /\ s.pins \in [Agents -> SUBSET Addrs]
        /\ s.alternates \in [Agents -> SUBSET Addrs]
        /\ \A a \in Agents : \A u \in s.alternates[a] : OwnerOf[u] = a
        /\ s.mdns \subseteq Agents
        /\ s.crashes \in Nat /\ s.gaps \in Nat /\ s.toggles \in Nat

VARIABLES
    site,      \* the deployment: static pins, mDNS and scan members, advertised
               \* alternates, who can dial whom,
               \* and the bounds on crashes, gaps and drain toggles
    up, draining, peers, known, origin,
    cycle,     \* gossip loop: "sleep", or "static" while the pins are fetched
    fetches,   \* status requests answered or failed, not yet registered
    beats,     \* heartbeats on the wire
    news,      \* mDNS announcements not yet heard
    crashes, gaps, toggles

registry == <<peers, known, origin>>
vars == <<site, up, draining, peers, known, origin, cycle, fetches, beats, news,
          crashes, gaps, toggles>>

NoPeer == [listen |-> NoAddr]
Sources == {"mdns", "subnet_scan", "static", "heartbeat", "join", "gossip"}
\* The other addresses an agent advertises (own_alternate_urls); a pin or a probe
\* may find one it does not know it has.
Alternates(a) == site.alternates[a]

---------------------------------------------------------------------------
(* Addresses of a peer *)

Rank(k) == CASE k = "lan" -> 0 [] k = "vpn" -> 1 [] k = "container" -> 2
             [] k = "link_local" -> 3 [] k = "loopback" -> 4
Dialable(u) == u # NoAddr /\ Kind[u] # "loopback"

\* The addresses a peer may be dialled at: container bridges, link-local and
\* loopback addresses answer only on the peer's own host.
Candidates(p) ==
    {u \in {p.listen} \cup p.also : Kind[u] \notin {"loopback", "container", "link_local"}}

Before(p, u, v) ==
    LET key(w) == <<Rank(Kind[w]), IF w = p.listen THEN 0 ELSE 1,
                    CHOOSE i \in DOMAIN Order : Order[i] = w>>
        ku == key(u)  kv == key(v)
    IN \/ ku[1] < kv[1]
       \/ ku[1] = kv[1] /\ ku[2] < kv[2]
       \/ ku[1] = kv[1] /\ ku[2] = kv[2] /\ ku[3] < kv[3]

First(p, S) == CHOOSE u \in S : \A v \in S \ {u} : Before(p, u, v)

\* The address a hop to this peer is sent to.
Dial(p) == IF p.active # NoAddr THEN p.active
           ELSE IF p.listen # NoAddr \/ Candidates(p) = {} THEN p.listen
           ELSE First(p, Candidates(p))

\* Does the agent at u answer a dial from a?
Answers(a, u) == u # NoAddr /\ up[OwnerOf[u]] /\ <<a, u>> \in site.reach

\* peer_agent_backends: the peers a may route to.
Routable(a, b) ==
    LET p == peers[a][b] IN
    /\ b # a /\ p # NoPeer
    /\ ~p.draining
    /\ Dialable(Dial(p))

---------------------------------------------------------------------------
(* Registration *)

\* How a found u: origin holds the specific answers; an address that became
\* known as a peer's alternate, or by a beat, reads as gossip.
Origin(a, u) ==
    IF origin[a][u] # "none" THEN origin[a][u]
    ELSE IF Overlay /\ u \in known[a] THEN "gossip" ELSE "none"

CarryForwardNoAlternates(prev, p) ==
    [p EXCEPT !.via = IF @ = "heartbeat" THEN prev.via ELSE @,
              !.active = IF @ = NoAddr THEN prev.active ELSE @]

\* What re-registration would erase: a specific origin, the alternates seen
\* so far (the previous listen address among them), the probed path.
CarryForward(prev, p) ==
    [p EXCEPT !.via = IF @ = "heartbeat" THEN prev.via ELSE @,
              !.also = @ \cup ((prev.also \cup {prev.listen}) \ {p.listen, NoAddr}),
              !.active = IF @ = NoAddr THEN prev.active ELSE @]

\* The label a peer is kept under: the one it was found by, or the one its
\* address was once found by.
LabelForgets(a, p) == p.via
Label(a, p) ==
    IF p.via = "heartbeat" /\ p.listen # NoAddr /\ Origin(a, p.listen) # "none"
    THEN Origin(a, p.listen) ELSE p.via

\* register_peer: the record replaces the old one, its address and, with the
\* overlay, its alternates become known.
RegisterPeer(a, b, p) ==
    \E carried \in {IF peers[a][b] = NoPeer THEN p ELSE CarryForward(peers[a][b], p)} :
    \E via \in {Label(a, carried)} :
        /\ peers' = [peers EXCEPT ![a][b] = [carried EXCEPT !.via = via, !.fresh = TRUE]]
        /\ known' = [known EXCEPT ![a] = @ \cup ({p.listen} \ {NoAddr})
                          \cup (IF Overlay THEN Candidates(carried) ELSE {})]
        /\ origin' = IF p.listen = NoAddr \/ via = "heartbeat" THEN origin
                     ELSE [origin EXCEPT ![a][p.listen] = IF via = "gossip" THEN "none" ELSE via]

Record(u, also, via, drains, served) ==
    [listen |-> u, also |-> also, via |-> via, draining |-> drains,
     serves |-> served, active |-> NoAddr, fresh |-> TRUE]

\* The status of b as it answers a fetch of u: its own listen address, and the
\* address it was reached at among the alternates.
StatusRecord(b, u, via) ==
    Record(Listen[b], Alternates(b) \cup ({u} \ {Listen[b]}), via, draining[b], TRUE)

\* Rows of one agent collapse onto the address it reports, if that answered;
\* the others replace its alternates.  The drain flag and the capacity of the
\* status are not copied from a scan row.
ScanRecord(b, S, via) ==
    LET u == IF Listen[b] \in S THEN Listen[b] ELSE CHOOSE v \in S : TRUE
    IN Record(u, IF S = {u} THEN Alternates(b) ELSE S \ {u}, via, FALSE, TRUE)

---------------------------------------------------------------------------
(* Status fetches: the answer is a snapshot, registered later *)

\* A fetch of u by a, answered now or failed.
Fetch(a, u, via, why) ==
    [by |-> a, url |-> u, why |-> why,
     of |-> OwnerOf[u],
     answer |-> IF Answers(a, u) THEN StatusRecord(OwnerOf[u], u, via) ELSE NoPeer]

Fetching(a, why) == \E f \in fetches : f.by = a /\ f.why = why

\* gossip_loop: every pinned peer is fetched first.
BeginCycle(a) ==
    /\ up[a] /\ cycle[a] = "sleep"
    /\ cycle' = [cycle EXCEPT ![a] = "static"]
    /\ fetches' = fetches \cup {Fetch(a, u, "static", "static") : u \in site.pins[a]}
    /\ UNCHANGED <<site, up, draining, registry, beats, news, crashes, gaps, toggles>>

\* Rediscovery and mDNS ignore an answer by the agent itself; an mDNS peer
\* that did not answer is registered from its announcement alone.
FinishFetch(f) ==
    /\ fetches' = fetches \ {f}
    /\ IF f.answer # NoPeer /\ ~(f.why = "lost" /\ f.of = f.by)
       THEN RegisterPeer(f.by, f.of, f.answer)
       ELSE IF f.answer = NoPeer /\ f.why = "mdns"
       THEN RegisterPeer(f.by, f.of, Record(f.url, {}, "mdns", FALSE, FALSE))
       ELSE UNCHANGED registry
    /\ UNCHANGED <<site, up, draining, cycle, beats, news, crashes, gaps, toggles>>

\* The rest of the cycle: stale peers are pruned, and the status is sent to
\* the listen address of every other peer.  A beat to an address that does not
\* answer is lost at once.
FinishCycleUnpruned(a) ==
    /\ up[a] /\ cycle[a] = "static" /\ ~Fetching(a, "static")
    /\ cycle' = [cycle EXCEPT ![a] = "sleep"]
    /\ beats' = beats \cup {[from |-> a, to |-> b, draining |-> draining[a]] :
                                b \in {b \in Agents \ {a} : peers[a][b] # NoPeer
                                       /\ Answers(a, peers[a][b].listen)}}
    /\ UNCHANGED <<site, up, draining, registry, fetches, news, crashes, gaps, toggles>>

FinishCycle(a) ==
    /\ up[a] /\ cycle[a] = "static" /\ ~Fetching(a, "static")
    /\ cycle' = [cycle EXCEPT ![a] = "sleep"]
    /\ LET kept == [b \in Agents |-> IF peers[a][b] # NoPeer /\ ~peers[a][b].fresh
                                     THEN NoPeer ELSE peers[a][b]]
           targets == {b \in Agents \ {a} : kept[b] # NoPeer /\ Answers(a, kept[b].listen)}
       IN /\ peers' = [peers EXCEPT ![a] = kept]
          /\ beats' = beats \cup {[from |-> a, to |-> b, draining |-> draining[a]] :
                                     b \in targets}
    /\ UNCHANGED <<site, up, draining, known, origin, fetches, news, crashes, gaps, toggles>>

\* handle_heartbeat: an agent registers whoever beats, except itself.
HeartbeatKeepsDrain(m) ==
    /\ m \in beats /\ up[m.to] /\ m.from # m.to
    /\ beats' = beats \ {m}
    /\ RegisterPeer(m.to, m.from,
           Record(Listen[m.from], Alternates(m.from), "heartbeat",
                  IF peers[m.to][m.from] = NoPeer THEN m.draining
                  ELSE peers[m.to][m.from].draining, TRUE))
    /\ UNCHANGED <<site, up, draining, cycle, fetches, news, crashes, gaps, toggles>>

HandleHeartbeat(m) ==
    /\ m \in beats /\ up[m.to] /\ m.from # m.to
    /\ beats' = beats \ {m}
    /\ RegisterPeer(m.to, m.from,
           Record(Listen[m.from], Alternates(m.from), "heartbeat", m.draining, TRUE))
    /\ UNCHANGED <<site, up, draining, cycle, fetches, news, crashes, gaps, toggles>>

\* lost_peer_urls: known addresses that are no live peer's listen address.
LostUrls(a) == {u \in known[a] : \A b \in Agents :
                    peers[a][b] = NoPeer \/ peers[a][b].listen # u}

\* The second half of the pass asks again for the addresses gossip taught.
GossipUrls(a) ==
    {u \in LostUrls(a) :
        Overlay /\ Origin(a, u) = "gossip"
        /\ \A b \in Agents : peers[a][b] = NoPeer \/ peers[a][b].active # u}

\* _rediscovery_loop asks for the lost addresses one at a time.
Rediscover(a, u, via) ==
    /\ up[a] /\ ~Fetching(a, "lost")
    /\ u \in (IF via = "gossip" THEN GossipUrls(a) ELSE LostUrls(a))
    /\ fetches' = fetches \cup {Fetch(a, u, via, "lost")}
    /\ UNCHANGED <<site, up, draining, registry, cycle, beats, news, crashes, gaps, toggles>>

\* A browser hears an announcement and asks the peer for its status.
HearMdns(n) ==
    /\ n \in news /\ up[n.to] /\ n.from # n.to
    /\ news' = news \ {n}
    /\ fetches' = IF Dialable(Listen[n.from])
                  THEN fetches \cup {Fetch(n.to, Listen[n.from], "mdns", "mdns")}
                  ELSE fetches
    /\ UNCHANGED <<site, up, draining, registry, cycle, beats, crashes, gaps, toggles>>

MissMdns(n) ==
    /\ n \in news
    /\ news' = news \ {n}
    /\ UNCHANGED <<site, up, draining, registry, cycle, fetches, beats, crashes, gaps, toggles>>

\* own_agent_urls: every address of this machine's interfaces.
OwnUrls(a) == {u \in Addrs : OwnerOf[u] = a}

\* discover_lan_agents: the agents on the subnet that answer at a LAN address,
\* and the pinned ones that do elsewhere, but never the agent itself.
ScanRows(a) ==
    LET onLan(b) == {u \in OwnUrls(b) : Answers(a, u) /\ Kind[u] = "lan"}
        pinned == {u \in site.pins[a] \ OwnUrls(a) : Answers(a, u) /\ Kind[u] # "lan"}
    IN {[of |-> b, answer |-> ScanRecord(b, onLan(b), "subnet_scan")] :
            b \in {b \in Agents \ {a} : onLan(b) # {}}}
       \cup {[of |-> OwnerOf[u], answer |-> ScanRecord(OwnerOf[u], {u}, "static")] : u \in pinned}

\* The scan fallback starts while no peer is known; its rows arrive later.
SubnetScan(a) ==
    /\ up[a] /\ a \in site.scan
    /\ \A b \in Agents : peers[a][b] = NoPeer
    /\ ~Fetching(a, "scan")
    /\ ScanRows(a) # {}
    /\ fetches' = fetches \cup
           {[by |-> a, url |-> r.answer.listen, why |-> "scan", of |-> r.of,
             answer |-> r.answer] : r \in ScanRows(a)}
    /\ UNCHANGED <<site, up, draining, registry, cycle, beats, news, crashes, gaps, toggles>>

---------------------------------------------------------------------------
(* Paths *)

\* refresh_peer_routing_if_stale: the best candidate that answers becomes the
\* active path; when none does, the old one stays.
ActivePathUnprobed(a, p) == IF Candidates(p) = {} THEN p.active ELSE First(p, Candidates(p))
ActivePath(a, p) ==
    LET online == {u \in Candidates(p) : Answers(a, u)}
    IN IF online = {} THEN p.active ELSE First(p, online)

RefreshRouting(a) ==
    /\ up[a]
    /\ peers' = [peers EXCEPT ![a] = [b \in Agents |->
            IF peers[a][b] = NoPeer THEN NoPeer
            ELSE [peers[a][b] EXCEPT !.active = ActivePath(a, peers[a][b])]]]
    /\ UNCHANGED <<site, up, draining, known, origin, cycle, fetches, beats, news,
                   crashes, gaps, toggles>>

---------------------------------------------------------------------------
(* The environment and the operator *)

\* POST /netllm/v1/admin/drain.
ToggleDrain(a) ==
    /\ up[a] /\ toggles < site.toggles
    /\ draining' = [draining EXCEPT ![a] = ~@]
    /\ toggles' = toggles + 1
    /\ UNCHANGED <<site, up, registry, cycle, fetches, beats, news, crashes, gaps>>

\* The peer was not heard for peer_stale_after_s.
Silence(a, b) ==
    /\ up[a] /\ peers[a][b] # NoPeer /\ peers[a][b].fresh
    /\ up[b] => gaps < site.gaps
    /\ gaps' = IF up[b] THEN gaps + 1 ELSE gaps
    /\ peers' = [peers EXCEPT ![a][b].fresh = FALSE]
    /\ UNCHANGED <<site, up, draining, known, origin, cycle, fetches, beats, news,
                   crashes, toggles>>

LoseBeat(m) ==
    /\ m \in beats
    /\ up[m.to] => gaps < site.gaps
    /\ gaps' = IF up[m.to] THEN gaps + 1 ELSE gaps
    /\ beats' = beats \ {m}
    /\ UNCHANGED <<site, up, draining, registry, cycle, fetches, news, crashes, toggles>>

\* Its requests die with the process; what it sent is on the wire.
Crash(a) ==
    /\ up[a] /\ crashes < site.crashes
    /\ crashes' = crashes + 1
    /\ up' = [up EXCEPT ![a] = FALSE]
    /\ draining' = [draining EXCEPT ![a] = FALSE]
    /\ peers' = [peers EXCEPT ![a] = [b \in Agents |-> NoPeer]]
    /\ known' = [known EXCEPT ![a] = {}]
    /\ origin' = [origin EXCEPT ![a] = [u \in Addrs |-> "none"]]
    /\ cycle' = [cycle EXCEPT ![a] = "sleep"]
    /\ fetches' = {f \in fetches : f.by # a}
    /\ news' = {n \in news : n.to # a}
    /\ UNCHANGED <<site, beats, gaps, toggles>>

\* MdnsAdvertiser: who is up hears of a, and a browser that starts of who is up.
Announcements(a) ==
    IF a \notin site.mdns THEN {}
    ELSE UNION {{[from |-> a, to |-> b], [from |-> b, to |-> a]} :
                    b \in {b \in site.mdns \ {a} : up[b]}}

\* start_background: the agent announces itself and browses for the others.
Start(a) ==
    /\ ~up[a]
    /\ up' = [up EXCEPT ![a] = TRUE]
    /\ news' = news \cup Announcements(a)
    /\ UNCHANGED <<site, draining, registry, cycle, fetches, beats, crashes, gaps, toggles>>

Init ==
    /\ site \in Deployments
    /\ up = [a \in Agents |-> FALSE]
    /\ draining = [a \in Agents |-> FALSE]
    /\ peers = [a \in Agents |-> [b \in Agents |-> NoPeer]]
    /\ known = [a \in Agents |-> {}]
    /\ origin = [a \in Agents |-> [u \in Addrs |-> "none"]]
    /\ cycle = [a \in Agents |-> "sleep"]
    /\ fetches = {} /\ beats = {} /\ news = {}
    /\ crashes = 0 /\ gaps = 0 /\ toggles = 0

AgentStep(a) ==
    \/ BeginCycle(a) \/ FinishCycle(a) \/ RefreshRouting(a) \/ SubnetScan(a)
    \/ ToggleDrain(a) \/ Crash(a) \/ Start(a)
    \/ \E b \in Agents : Silence(a, b)
    \/ \E u \in Addrs, via \in {"heartbeat", "gossip"} : Rediscover(a, u, via)

Next ==
    \/ \E a \in Agents : AgentStep(a)
    \/ \E f \in fetches : FinishFetch(f)
    \/ \E m \in beats : HandleHeartbeat(m) \/ LoseBeat(m)
    \/ \E n \in news : HearMdns(n) \/ MissMdns(n)

Spec == Init /\ [][Next]_vars

\* The gossip loop goes round, requests and beats end, one lost address after
\* another is asked for, paths are probed, a peer that is down falls silent.
Fairness ==
    \A a \in Agents :
        /\ WF_vars(\/ BeginCycle(a) \/ FinishCycle(a)
                   \/ \E f \in fetches : f.by = a /\ f.why = "static" /\ FinishFetch(f))
        /\ WF_vars(\E f \in fetches : f.by = a /\ f.why # "static" /\ FinishFetch(f))
        /\ WF_vars(\E m \in beats : m.to = a /\ (HandleHeartbeat(m) \/ LoseBeat(m)))
        /\ WF_vars(\E u \in Addrs : Rediscover(a, u, "heartbeat"))
        /\ WF_vars(RefreshRouting(a))
        /\ WF_vars(\E b \in Agents : ~up[b] /\ Silence(a, b))

FairSpec == Spec /\ Fairness

---------------------------------------------------------------------------
(* Properties *)

Vias == Sources \cup {"none"}
RecordOK(p) ==
    \/ p = NoPeer
    \/ /\ p.listen \in Addrs /\ p.also \subseteq Addrs /\ p.via \in Sources
       /\ p.active = NoAddr \/ p.active \in Candidates(p)
       /\ {p.draining, p.serves, p.fresh} \subseteq BOOLEAN

\* Records are well formed: the probed path of a record, which survives its
\* replacement by a heartbeat, stays one of the record's candidates.
SwarmTypeOK ==
    /\ site \in Deployments
    /\ up \in [Agents -> BOOLEAN] /\ draining \in [Agents -> BOOLEAN]
    /\ \A a, b \in Agents : RecordOK(peers[a][b])
    /\ known \in [Agents -> SUBSET Addrs]
    /\ origin \in [Agents -> [Addrs -> Vias]]
    /\ cycle \in [Agents -> {"sleep", "static"}]
    /\ crashes \in 0..site.crashes /\ gaps \in 0..site.gaps /\ toggles \in 0..site.toggles

\* a and b are up and a has an address of b that answers it.
Linked(a, b) ==
    /\ a # b /\ up[a] /\ up[b]
    /\ \E u \in site.pins[a] \cup known[a] : OwnerOf[u] = b /\ Answers(a, u)

\* Once crashes, lost beats and drain toggles stop, every agent routes to
\* exactly the peers it can find that do not drain, with their catalogue: the
\* peers pruned during a gap come back, a drained one leaves every pool.
MeshSettles ==
    \A a, b \in Agents :
        <>[](Linked(a, b) => IF draining[b] THEN ~Routable(a, b)
                             ELSE Routable(a, b) /\ peers[a][b].serves)

\* A peer that stays down leaves every registry, whatever answers, beats and
\* announcements of it were still on the wire.
DeadForgotten ==
    \A a, b \in Agents : <>[](up[a] /\ ~up[b] => peers[a][b] = NoPeer)

\* A row ends on a path that answers: a hop is not sent for ever to an address
\* the agent cannot dial while another one works.
PathsSettle ==
    \A a, b \in Agents :
        <>[](Linked(a, b) /\ Routable(a, b) => Answers(a, Dial(peers[a][b])))

\* How an address was found outlives the record: a peer that was pruned and
\* talks again is not relabelled as one that simply started talking.
OriginOutlivesRecord ==
    \A a, b \in Agents :
        peers[a][b] # NoPeer /\ peers[a][b].via = "heartbeat"
            => origin[a][peers[a][b].listen] = "none"

\* A pinned peer keeps the pin as its origin while its record lives.
PinKeepsOrigin ==
    [][\A a, b \in Agents :
        peers[a][b] # NoPeer /\ peers[a][b].via = "static" /\ peers'[a][b] # NoPeer
        => peers'[a][b].via = "static"]_vars
=============================================================================
