------------------------ MODULE SwarmRegistryProofs ------------------------
(* The registries of any number of agents with any addresses, pins, scans    *)
(* and announcements: what a record is, whose addresses it holds and how its *)
(* peer was found.                                                           *)
EXTENDS SwarmRegistry, WellFoundedInduction, TLAPS

---------------------------------------------------------------------------
(* The invariant *)

Records ==
    [listen : Addrs, also : SUBSET Addrs, via : Sources, draining : BOOLEAN,
     serves : BOOLEAN, active : Addrs \cup {NoAddr}, fresh : BOOLEAN]

\* A record of peer b, as an answer or a beat of it makes it.
Answered(p, b) ==
    /\ p \in Records /\ p.active = NoAddr
    /\ OwnerOf[p.listen] = b /\ \A u \in p.also : OwnerOf[u] = b

\* A record of peer b in a registry.
Kept(p, b) ==
    /\ p.active = NoAddr \/ p.active \in Candidates(p)
    /\ OwnerOf[p.listen] = b /\ \A u \in p.also : OwnerOf[u] = b

Switches ==
    /\ site \in Deployments
    /\ up \in [Agents -> BOOLEAN] /\ draining \in [Agents -> BOOLEAN]
    /\ cycle \in [Agents -> {"sleep", "static"}]
    /\ crashes \in 0..site.crashes /\ gaps \in 0..site.gaps /\ toggles \in 0..site.toggles

RegistryTypes ==
    /\ peers \in [Agents -> [Agents -> Records \cup {NoPeer}]]
    /\ known \in [Agents -> SUBSET Addrs]
    /\ origin \in [Agents -> [Addrs -> Vias \ {"heartbeat"}]]

RegistryKept ==
    \A a, b \in Agents : peers[a][b] # NoPeer =>
        /\ Kept(peers[a][b], b)
        /\ peers[a][b].via = "heartbeat" => origin[a][peers[a][b].listen] = "none"

RequestOK(f) ==
    /\ f.by \in Agents /\ f.url \in Addrs /\ f.of = OwnerOf[f.url]
    /\ f.answer # NoPeer => Answered(f.answer, f.of)

Wires ==
    /\ \A f \in fetches : RequestOK(f)
    /\ beats \subseteq [from : Agents, to : Agents, draining : BOOLEAN]
    /\ news \subseteq [from : Agents, to : Agents]

SwarmInv == Switches /\ RegistryTypes /\ RegistryKept /\ Wires

---------------------------------------------------------------------------
(* Addresses *)

LEMMA NoPeerIsNone == NoPeer \notin Records /\ \A p \in Records : p # NoPeer
<1>1. \A p \in Records : p.listen # NoPeer.listen
  BY AddressesAssumption DEF Records, NoPeer
<1> QED BY <1>1

LEMMA CandidatesOwn ==
    ASSUME NEW p \in Records
    PROVE  Candidates(p) \subseteq {p.listen} \cup p.also /\ Candidates(p) \subseteq Addrs
BY DEF Candidates, Records

LEMMA Least ==
    ASSUME NEW S \in SUBSET Nat, S # {}
    PROVE  \E i \in S : \A j \in S : i <= j
<1> DEFINE R == OpToRel(<, Nat)
<1>1. IsWellFoundedOn(R, Nat)
  BY NatLessThanWellFounded
<1>2. \A i, j \in Nat : i < j => <<i, j>> \in R
  BY DEF OpToRel
<1> HIDE DEF R
<1>3. PICK i \in S : \A j \in S : ~(<<j, i>> \in R)
  BY <1>1, WFMin
<1>4. ASSUME NEW j \in S PROVE i <= j
  <2>1. i \in Nat /\ j \in Nat
    OBVIOUS
  <2>2. ~(j < i)
    BY <1>2, <1>3, <2>1
  <2> QED BY <2>1, <2>2
<1> QED BY <1>4

\* The preferred address of a set is one of the set: rank, then the listen
\* address, then the text decide between any two.
LEMMA FirstIsIn ==
    ASSUME NEW p, NEW S \in SUBSET Addrs, S # {}
    PROVE  First(p, S) \in S
<1> DEFINE R(u) == Rank(Kind[u])
           L(u) == IF u = p.listen THEN 0 ELSE 1
           I(u) == CHOOSE i \in DOMAIN Order : Order[i] = u
<1>1. \A u \in Addrs : R(u) \in Nat
  BY AddressesAssumption DEF Rank
<1>2. \A u \in Addrs : I(u) \in Nat /\ Order[I(u)] = u
  BY AddressesAssumption
<1>3. \A u : L(u) \in Nat
  OBVIOUS
<1>4. \A u, v : Before(p, u, v) <=> \/ R(u) < R(v)
                                    \/ R(u) = R(v) /\ L(u) < L(v)
                                    \/ R(u) = R(v) /\ L(u) = L(v) /\ I(u) < I(v)
  BY DEF Before
<1> HIDE DEF R, L, I
<1>5. PICK r \in {R(u) : u \in S} : \A j \in {R(u) : u \in S} : r <= j
  BY <1>1, Least
<1> DEFINE T == {u \in S : R(u) = r}
           LT == {L(u) : u \in T}
<1>5a. LT # {} /\ LT \in SUBSET Nat
  BY <1>3
<1> HIDE DEF LT
<1>6. PICK l \in LT : \A j \in LT : l <= j
  BY <1>5a, Least
<1> DEFINE Q == {u \in T : L(u) = l}
           IQ == {I(u) : u \in Q}
<1> USE DEF LT
<1>6a. IQ # {} /\ IQ \in SUBSET Nat
  BY <1>2
<1> HIDE DEF IQ
<1>7. PICK i \in IQ : \A j \in IQ : i <= j
  BY <1>6a, Least
<1> USE DEF IQ
<1>8. PICK u \in Q : I(u) = i
  OBVIOUS
<1>9. ASSUME NEW v \in S \ {u} PROVE Before(p, u, v)
  <2>1. u \in S /\ R(u) = r /\ L(u) = l
    OBVIOUS
  <2>2. /\ R(u) \in Nat /\ R(v) \in Nat /\ R(u) <= R(v)
        /\ L(u) \in Nat /\ L(v) \in Nat /\ I(u) \in Nat /\ I(v) \in Nat
    BY <1>1, <1>2, <1>3, <1>5, <2>1
  <2>3. R(u) = R(v) => L(u) <= L(v)
    BY <1>6, <2>1
  <2>4. R(u) = R(v) /\ L(u) = L(v) => I(u) <= I(v)
    BY <1>7, <1>8, <2>1
  <2>5. I(u) # I(v)
    BY <1>2, <2>1
  <2> QED BY <1>4, <2>2, <2>3, <2>4, <2>5
<1> QED BY <1>8, <1>9 DEF First

\* What a status and a scan make of a peer.
LEMMA StatusAnswers ==
    ASSUME NEW u \in Addrs, NEW via \in Sources, Switches
    PROVE  Answered(StatusRecord(OwnerOf[u], u, via), OwnerOf[u])
<1> DEFINE b == OwnerOf[u]
           also == Alternates(b) \cup ({u} \ {Listen[b]})
<1>1. b \in Agents /\ Listen[b] \in Addrs /\ OwnerOf[Listen[b]] = b
  BY AddressesAssumption
<1>2. also \subseteq Addrs /\ \A v \in also : OwnerOf[v] = b
  BY <1>1, DeploymentsAssumption DEF Switches, Alternates
<1>3. draining[b] \in BOOLEAN
  BY <1>1 DEF Switches
<1> QED BY <1>1, <1>2, <1>3 DEF StatusRecord, Record, Answered, Records

LEMMA ScanAnswers ==
    ASSUME NEW b \in Agents, NEW S \in SUBSET Addrs, S # {}, \A u \in S : OwnerOf[u] = b,
           NEW via \in Sources, Switches
    PROVE  Answered(ScanRecord(b, S, via), b)
<1> DEFINE u == IF Listen[b] \in S THEN Listen[b] ELSE CHOOSE v \in S : TRUE
           also == IF S = {u} THEN Alternates(b) ELSE S \ {u}
<1>1. u \in S
  OBVIOUS
<1>2. also \subseteq Addrs /\ \A v \in also : OwnerOf[v] = b
  BY DeploymentsAssumption DEF Switches, Alternates
<1>3. ScanRecord(b, S, via) = Record(u, also, via, FALSE, TRUE)
  BY DEF ScanRecord
<1> HIDE DEF u, also
<1> QED BY <1>1, <1>2, <1>3 DEF Record, Answered, Records

---------------------------------------------------------------------------
(* Registration *)

\* register_peer keeps the registry what it is, for any record of the peer.
LEMMA RegisterKeeps ==
    ASSUME RegistryTypes, RegistryKept, NEW a \in Agents, NEW b \in Agents,
           NEW p, Answered(p, b), RegisterPeer(a, b, p)
    PROVE  RegistryTypes' /\ RegistryKept'
<1> DEFINE prev == peers[a][b]
<1>1. p \in Records /\ p.active = NoAddr /\ OwnerOf[p.listen] = b /\ \A u \in p.also : OwnerOf[u] = b
  BY DEF Answered
<1>2. prev = NoPeer \/ (prev \in Records /\ Kept(prev, b))
  BY DEF RegistryTypes, RegistryKept
<1>3. PICK carried \in {IF prev = NoPeer THEN p ELSE CarryForward(prev, p)} :
          \E via \in {Label(a, carried)} :
            /\ peers' = [peers EXCEPT ![a][b] = [carried EXCEPT !.via = via, !.fresh = TRUE]]
            /\ known' = [known EXCEPT ![a] = @ \cup ({p.listen} \ {NoAddr})
                              \cup (IF Overlay THEN Candidates(carried) ELSE {})]
            /\ origin' = IF p.listen = NoAddr \/ via = "heartbeat" THEN origin
                         ELSE [origin EXCEPT ![a][p.listen] = IF via = "gossip" THEN "none" ELSE via]
  BY DEF RegisterPeer
<1>4. carried \in Records /\ carried.listen = p.listen /\ Kept(carried, b)
  <2>1. CASE prev = NoPeer
    BY <1>1, <1>3, <2>1 DEF Kept
  <2>2. CASE prev # NoPeer
    <3>1. prev \in Records /\ Kept(prev, b)
      BY <1>2, <2>2
    <3> DEFINE also == p.also \cup ((prev.also \cup {prev.listen}) \ {p.listen, NoAddr})
               via == IF p.via = "heartbeat" THEN prev.via ELSE p.via
    <3>2. carried = [p EXCEPT !.via = via, !.also = also, !.active = prev.active]
      BY <1>1, <1>3, <2>2 DEF CarryForward, Records
    <3>3. also \subseteq Addrs /\ \A u \in also : OwnerOf[u] = b
      BY <1>1, <3>1 DEF Kept, Records
    <3>4. via \in Sources /\ prev.active \in Addrs \cup {NoAddr}
      BY <1>1, <3>1 DEF Records
    <3>5. {prev.listen} \cup prev.also \subseteq {p.listen} \cup also
      BY <3>1, AddressesAssumption DEF Records
    <3> HIDE DEF also, via
    <3>6. /\ carried \in Records /\ carried.listen = p.listen /\ carried.also = also
          /\ carried.active = prev.active
      BY <1>1, <3>2, <3>3, <3>4 DEF Records
    <3>7. carried.active = NoAddr \/ carried.active \in Candidates(carried)
      BY <3>1, <3>5, <3>6 DEF Kept, Candidates
    <3> QED BY <1>1, <3>3, <3>6, <3>7 DEF Kept
  <2> QED BY <2>1, <2>2
<1> DEFINE via == Label(a, carried)
           kept == [carried EXCEPT !.via = via, !.fresh = TRUE]
<1>5. p.listen \in Addrs /\ p.listen # NoAddr /\ origin[a][p.listen] \in Vias \ {"heartbeat"}
  BY <1>1, AddressesAssumption DEF Records, RegistryTypes
<1>6. via \in Sources /\ (via = "heartbeat" => origin[a][p.listen] = "none")
  <2> DEFINE o == Origin(a, p.listen)
  <2>1. o \in Sources \cup {"none"} /\ o # "heartbeat" /\ (o = "none" => origin[a][p.listen] = "none")
    <3>1. CASE origin[a][p.listen] # "none"
      BY <1>5, <3>1 DEF Origin, Vias
    <3>2. CASE origin[a][p.listen] = "none"
      BY <3>2 DEF Origin, Sources
    <3> QED BY <3>1, <3>2
  <2>2. via = IF carried.via = "heartbeat" /\ p.listen # NoAddr /\ o # "none" THEN o ELSE carried.via
    BY <1>4 DEF Label
  <2>3. carried.via \in Sources
    BY <1>4 DEF Records
  <2> HIDE DEF o, via
  <2> QED BY <1>5, <2>1, <2>2, <2>3
<1>7. /\ peers' = [peers EXCEPT ![a][b] = kept]
      /\ known' = [known EXCEPT ![a] = @ \cup ({p.listen} \ {NoAddr})
                        \cup (IF Overlay THEN Candidates(carried) ELSE {})]
      /\ origin' = IF via = "heartbeat" THEN origin
                   ELSE [origin EXCEPT ![a][p.listen] = IF via = "gossip" THEN "none" ELSE via]
  BY <1>3, <1>5
<1> HIDE DEF via, prev
<1>8. /\ kept \in Records /\ kept.listen = p.listen /\ kept.also = carried.also
      /\ kept.active = carried.active /\ kept.via = via
  BY <1>4, <1>6 DEF Records
<1>9. Kept(kept, b)
  BY <1>4, <1>8 DEF Kept, Candidates
<1> HIDE DEF kept
<1>10. RegistryTypes'
  <2>1. peers' \in [Agents -> [Agents -> Records \cup {NoPeer}]]
    BY <1>7, <1>8 DEF RegistryTypes
  <2>2. known' \in [Agents -> SUBSET Addrs]
    BY <1>4, <1>5, <1>7, CandidatesOwn DEF RegistryTypes
  <2>3. origin' \in [Agents -> [Addrs -> Vias \ {"heartbeat"}]]
    BY <1>5, <1>6, <1>7 DEF RegistryTypes, Vias, Sources
  <2> QED BY <2>1, <2>2, <2>3 DEF RegistryTypes
<1>11. RegistryKept'
  <2> SUFFICES ASSUME NEW c \in Agents, NEW d \in Agents, peers'[c][d] # NoPeer
               PROVE  /\ Kept(peers'[c][d], d)
                      /\ peers'[c][d].via = "heartbeat" => origin'[c][peers'[c][d].listen] = "none"
    BY DEF RegistryKept, Kept, Candidates
  <2>1. CASE c = a /\ d = b
    <3>1. peers'[c][d] = kept
      BY <1>7, <2>1 DEF RegistryTypes
    <3> QED BY <1>6, <1>7, <1>8, <1>9, <2>1, <3>1
  <2>2. CASE ~(c = a /\ d = b)
    <3>1. peers'[c][d] = peers[c][d]
      BY <1>7, <2>2 DEF RegistryTypes
    <3>2. /\ peers[c][d] \in Records /\ Kept(peers[c][d], d)
          /\ peers[c][d].via = "heartbeat" => origin[c][peers[c][d].listen] = "none"
      BY <3>1 DEF RegistryTypes, RegistryKept
    <3>3. c = a => peers[c][d].listen # p.listen
      BY <1>1, <2>2, <3>2 DEF Kept
    <3>4. origin'[c][peers[c][d].listen] = origin[c][peers[c][d].listen]
      BY <1>5, <1>7, <3>2, <3>3 DEF RegistryTypes, Records
    <3> QED BY <3>1, <3>2, <3>4
  <2> QED BY <2>1, <2>2
<1> QED BY <1>10, <1>11

---------------------------------------------------------------------------
(* The steps *)

LEMMA InitSwarm == Init => SwarmInv
<1> SUFFICES ASSUME Init PROVE SwarmInv
  OBVIOUS
<1>1. Switches
  BY DeploymentsAssumption DEF Init, Switches
<1>2. RegistryTypes
  BY DEF Init, RegistryTypes, Vias
<1>3. RegistryKept
  BY DEF Init, RegistryKept
<1>4. Wires
  BY DEF Init, Wires
<1> QED BY <1>1, <1>2, <1>3, <1>4 DEF SwarmInv

\* What does not touch a part leaves it.
LEMMA RegistryStays ==
    ASSUME RegistryTypes, RegistryKept, UNCHANGED registry
    PROVE  RegistryTypes' /\ RegistryKept'
<1>1. peers' = peers /\ known' = known /\ origin' = origin
  BY DEF registry
<1> QED BY <1>1 DEF RegistryTypes, RegistryKept, Kept, Candidates

LEMMA FetchOK ==
    ASSUME NEW a \in Agents, NEW u \in Addrs, NEW via \in Sources, NEW why, Switches
    PROVE  RequestOK(Fetch(a, u, via, why))
<1> DEFINE f == Fetch(a, u, via, why)
<1>1. f.by = a /\ f.url = u /\ f.of = OwnerOf[u]
  BY DEF Fetch
<1>2. f.answer = NoPeer \/ f.answer = StatusRecord(OwnerOf[u], u, via)
  BY DEF Fetch
<1> HIDE DEF f
<1>3. Answered(StatusRecord(OwnerOf[u], u, via), OwnerOf[u])
  BY StatusAnswers
<1>4. f.answer # NoPeer => Answered(f.answer, f.of)
  BY <1>1, <1>2, <1>3
<1>5. RequestOK(f)
  BY <1>1, <1>4 DEF RequestOK
<1> QED BY <1>5 DEF f

LEMMA ScanRowOK ==
    ASSUME Switches, NEW a \in Agents, NEW r \in ScanRows(a), NEW why
    PROVE  RequestOK([by |-> a, url |-> r.answer.listen, why |-> why, of |-> r.of, answer |-> r.answer])
<1> DEFINE onLan(b) == {u \in OwnUrls(b) : Answers(a, u) /\ Kind[u] = "lan"}
           pinned == {u \in site.pins[a] \ OwnUrls(a) : Answers(a, u) /\ Kind[u] # "lan"}
<1>1. Answered(r.answer, r.of) /\ r.of \in Agents
  <2>1. \/ \E b \in Agents : onLan(b) # {} /\ r = [of |-> b, answer |-> ScanRecord(b, onLan(b), "subnet_scan")]
        \/ \E u \in pinned : r = [of |-> OwnerOf[u], answer |-> ScanRecord(OwnerOf[u], {u}, "static")]
    BY DEF ScanRows
  <2>2. ASSUME NEW b \in Agents, onLan(b) # {}, r = [of |-> b, answer |-> ScanRecord(b, onLan(b), "subnet_scan")]
        PROVE  Answered(r.answer, r.of) /\ r.of \in Agents
    <3>1. onLan(b) \in SUBSET Addrs /\ \A u \in onLan(b) : OwnerOf[u] = b
      BY DEF OwnUrls
    <3> HIDE DEF onLan
    <3> QED BY <2>2, <3>1, ScanAnswers DEF Sources
  <2>3. ASSUME NEW u \in pinned, r = [of |-> OwnerOf[u], answer |-> ScanRecord(OwnerOf[u], {u}, "static")]
        PROVE  Answered(r.answer, r.of) /\ r.of \in Agents
    <3>1. u \in Addrs /\ OwnerOf[u] \in Agents
      BY DeploymentsAssumption, AddressesAssumption DEF Switches
    <3>2. Answered(ScanRecord(OwnerOf[u], {u}, "static"), OwnerOf[u])
      BY <3>1, ScanAnswers DEF Sources
    <3> QED BY <2>3, <3>1, <3>2
  <2> QED BY <2>1, <2>2, <2>3
<1>2. r.answer.listen \in Addrs /\ OwnerOf[r.answer.listen] = r.of
  BY <1>1 DEF Answered, Records
<1> QED BY <1>1, <1>2 DEF RequestOK

LEMMA SwarmStep == SwarmInv /\ [Next]_vars => SwarmInv'
<1> SUFFICES ASSUME SwarmInv, [Next]_vars PROVE SwarmInv'
  OBVIOUS
<1>0. Switches /\ RegistryTypes /\ RegistryKept /\ Wires
  BY DEF SwarmInv
<1>1. ASSUME NEW a \in Agents, BeginCycle(a) PROVE SwarmInv'
  <2>1. /\ cycle' = [cycle EXCEPT ![a] = "static"]
        /\ fetches' = fetches \cup {Fetch(a, u, "static", "static") : u \in site.pins[a]}
        /\ UNCHANGED <<site, up, draining, registry, beats, news, crashes, gaps, toggles>>
    BY <1>1 DEF BeginCycle
  <2>2. Switches'
    BY <1>0, <2>1 DEF Switches
  <2>3. \A u \in site.pins[a] : RequestOK(Fetch(a, u, "static", "static"))
    <3>1. site.pins[a] \subseteq Addrs
      BY <1>0, DeploymentsAssumption DEF Switches
    <3> QED BY <1>0, <3>1, FetchOK DEF Sources
  <2>4. Wires'
    BY <1>0, <2>1, <2>3 DEF Wires
  <2> QED BY <1>0, <2>1, <2>2, <2>4, RegistryStays DEF SwarmInv
<1>2. ASSUME NEW a \in Agents, FinishCycle(a) PROVE SwarmInv'
  <2> DEFINE kept == [b \in Agents |-> IF peers[a][b] # NoPeer /\ ~peers[a][b].fresh
                                       THEN NoPeer ELSE peers[a][b]]
             targets == {b \in Agents \ {a} : kept[b] # NoPeer /\ Answers(a, kept[b].listen)}
  <2>1. /\ cycle' = [cycle EXCEPT ![a] = "sleep"] /\ peers' = [peers EXCEPT ![a] = kept]
        /\ beats' = beats \cup {[from |-> a, to |-> b, draining |-> draining[a]] : b \in targets}
        /\ UNCHANGED <<site, up, draining, known, origin, fetches, news, crashes, gaps, toggles>>
    BY <1>2 DEF FinishCycle
  <2>2. Switches'
    BY <1>0, <2>1 DEF Switches
  <2>3. targets \subseteq Agents /\ draining[a] \in BOOLEAN
    BY <1>0 DEF Switches
  <2>4. kept \in [Agents -> Records \cup {NoPeer}] /\ \A b \in Agents : kept[b] \in {NoPeer, peers[a][b]}
    BY <1>0 DEF RegistryTypes
  <2> HIDE DEF kept, targets
  <2>5. Wires'
    BY <1>0, <2>1, <2>3 DEF Wires
  <2>6. RegistryTypes'
    BY <1>0, <2>1, <2>4 DEF RegistryTypes
  <2>7. \A c, d \in Agents : peers'[c][d] \in {NoPeer, peers[c][d]}
    BY <1>0, <2>1, <2>4 DEF RegistryTypes
  <2>8. RegistryKept'
    BY <1>0, <2>1, <2>7 DEF RegistryKept, Kept, Candidates
  <2> QED BY <2>2, <2>5, <2>6, <2>8 DEF SwarmInv
<1>3. ASSUME NEW a \in Agents, RefreshRouting(a) PROVE SwarmInv'
  <2> DEFINE routed == [b \in Agents |-> IF peers[a][b] = NoPeer THEN NoPeer
                            ELSE [peers[a][b] EXCEPT !.active = ActivePath(a, peers[a][b])]]
  <2>1. /\ peers' = [peers EXCEPT ![a] = routed]
        /\ UNCHANGED <<site, up, draining, known, origin, cycle, fetches, beats, news, crashes, gaps, toggles>>
    BY <1>3 DEF RefreshRouting
  <2>2. ASSUME NEW b \in Agents, peers[a][b] # NoPeer
        PROVE  /\ routed[b] \in Records /\ Kept(routed[b], b)
               /\ routed[b].via = peers[a][b].via /\ routed[b].listen = peers[a][b].listen
    <3> DEFINE p == peers[a][b]
               path == ActivePath(a, p)
    <3>1. p \in Records /\ Kept(p, b)
      BY <1>0, <2>2 DEF RegistryTypes, RegistryKept
    <3>2. routed[b] = [p EXCEPT !.active = path]
      BY <2>2
    <3> HIDE DEF p, routed
    <3>3. path = p.active \/ path \in Candidates(p)
      <4> DEFINE online == {u \in Candidates(p) : Answers(a, u)}
      <4>1. online \in SUBSET Addrs
        BY <3>1, CandidatesOwn
      <4>2. path = IF online = {} THEN p.active ELSE First(p, online)
        BY DEF ActivePath
      <4>3. online # {} => First(p, online) \in online
        BY <4>1, FirstIsIn
      <4> QED BY <4>2, <4>3
    <3> HIDE DEF path
    <3>4. path \in Addrs \cup {NoAddr} /\ (path = NoAddr \/ path \in Candidates(p))
      BY <3>1, <3>3, CandidatesOwn DEF Kept, Records
    <3>5. /\ routed[b] \in Records /\ routed[b].listen = p.listen /\ routed[b].also = p.also
          /\ routed[b].via = p.via /\ routed[b].active = path
      BY <3>1, <3>2, <3>4 DEF Records
    <3> QED BY <3>1, <3>4, <3>5 DEF Kept, Candidates, p
  <2>3. \A b \in Agents : peers[a][b] = NoPeer => routed[b] = NoPeer
    OBVIOUS
  <2>4. DOMAIN routed = Agents /\ routed = [b \in Agents |-> routed[b]]
    OBVIOUS
  <2> HIDE DEF routed
  <2>5. RegistryTypes'
    <3>1. routed \in [Agents -> Records \cup {NoPeer}]
      BY <2>2, <2>3, <2>4
    <3> QED BY <1>0, <2>1, <3>1 DEF RegistryTypes
  <2>6. RegistryKept'
    <3> SUFFICES ASSUME NEW c \in Agents, NEW d \in Agents, peers'[c][d] # NoPeer
                 PROVE  /\ Kept(peers'[c][d], d)
                        /\ peers'[c][d].via = "heartbeat" => origin'[c][peers'[c][d].listen] = "none"
      BY DEF RegistryKept, Kept, Candidates
    <3>1. CASE c = a
      <4>1. peers'[c][d] = routed[d]
        BY <1>0, <2>1, <3>1 DEF RegistryTypes
      <4>2. peers[a][d] # NoPeer
        BY <2>3, <4>1
      <4> QED BY <1>0, <2>1, <2>2, <3>1, <4>1, <4>2 DEF RegistryKept
    <3>2. CASE c # a
      <4>1. peers'[c][d] = peers[c][d]
        BY <1>0, <2>1, <3>2 DEF RegistryTypes
      <4> QED BY <1>0, <2>1, <4>1 DEF RegistryKept
    <3> QED BY <3>1, <3>2
  <2>7. Switches' /\ Wires'
    BY <1>0, <2>1 DEF Switches, Wires
  <2> QED BY <2>5, <2>6, <2>7 DEF SwarmInv
<1>4. ASSUME NEW a \in Agents, SubnetScan(a) PROVE SwarmInv'
  <2>1. /\ fetches' = fetches \cup {[by |-> a, url |-> r.answer.listen, why |-> "scan", of |-> r.of,
                                     answer |-> r.answer] : r \in ScanRows(a)}
        /\ UNCHANGED <<site, up, draining, registry, cycle, beats, news, crashes, gaps, toggles>>
    BY <1>4 DEF SubnetScan
  <2>2. Wires'
    BY <1>0, <2>1, ScanRowOK DEF Wires
  <2>3. Switches'
    BY <1>0, <2>1 DEF Switches
  <2> QED BY <1>0, <2>1, <2>2, <2>3, RegistryStays DEF SwarmInv
<1>5. ASSUME NEW a \in Agents, ToggleDrain(a) \/ Start(a) PROVE SwarmInv'
  <2>1. /\ UNCHANGED <<site, registry, cycle, fetches, beats, crashes, gaps>>
        /\ \/ /\ draining' = [draining EXCEPT ![a] = ~@] /\ toggles < site.toggles /\ toggles' = toggles + 1
              /\ UNCHANGED <<up, news>>
           \/ /\ up' = [up EXCEPT ![a] = TRUE] /\ news' = news \cup Announcements(a)
              /\ UNCHANGED <<draining, toggles>>
    BY <1>5 DEF ToggleDrain, Start
  <2>2. Announcements(a) \subseteq [from : Agents, to : Agents]
    <3>1. site.mdns \subseteq Agents
      BY <1>0, DeploymentsAssumption DEF Switches
    <3> QED BY <3>1 DEF Announcements
  <2>3. Switches'
    <3>1. site.toggles \in Nat /\ toggles \in 0..site.toggles
      BY <1>0, DeploymentsAssumption DEF Switches
    <3>2. toggles' \in 0..site.toggles
      BY <2>1, <3>1
    <3>3. up' \in [Agents -> BOOLEAN] /\ draining' \in [Agents -> BOOLEAN]
      BY <1>0, <2>1 DEF Switches
    <3> QED BY <1>0, <2>1, <3>2, <3>3 DEF Switches
  <2>4. Wires'
    BY <1>0, <2>1, <2>2 DEF Wires
  <2> QED BY <1>0, <2>1, <2>3, <2>4, RegistryStays DEF SwarmInv
<1>6. ASSUME NEW a \in Agents, Crash(a) PROVE SwarmInv'
  <2>1. /\ crashes < site.crashes /\ crashes' = crashes + 1
        /\ up' = [up EXCEPT ![a] = FALSE] /\ draining' = [draining EXCEPT ![a] = FALSE]
        /\ peers' = [peers EXCEPT ![a] = [b \in Agents |-> NoPeer]]
        /\ known' = [known EXCEPT ![a] = {}]
        /\ origin' = [origin EXCEPT ![a] = [u \in Addrs |-> "none"]]
        /\ cycle' = [cycle EXCEPT ![a] = "sleep"]
        /\ fetches' \subseteq fetches /\ news' \subseteq news
        /\ UNCHANGED <<site, beats, gaps, toggles>>
    BY <1>6 DEF Crash
  <2>2. Switches'
    <3>1. site.crashes \in Nat /\ crashes \in 0..site.crashes
      BY <1>0, DeploymentsAssumption DEF Switches
    <3>2. crashes' \in 0..site.crashes
      BY <2>1, <3>1
    <3>3. up' \in [Agents -> BOOLEAN] /\ draining' \in [Agents -> BOOLEAN]
      BY <1>0, <2>1 DEF Switches
    <3>4. cycle' \in [Agents -> {"sleep", "static"}]
      BY <1>0, <2>1 DEF Switches
    <3> QED BY <1>0, <2>1, <3>2, <3>3, <3>4 DEF Switches
  <2>3. Wires'
    BY <1>0, <2>1 DEF Wires
  <2>4. RegistryTypes'
    BY <1>0, <2>1 DEF RegistryTypes, Vias
  <2>5. \A c, d \in Agents : peers'[c][d] # NoPeer => c # a /\ peers'[c][d] = peers[c][d] /\ origin'[c] = origin[c]
    BY <1>0, <2>1 DEF RegistryTypes
  <2>6. RegistryKept'
    BY <1>0, <2>5 DEF RegistryKept, Kept, Candidates
  <2> QED BY <2>2, <2>3, <2>4, <2>6 DEF SwarmInv
<1>7. ASSUME NEW a \in Agents, NEW b \in Agents, Silence(a, b) PROVE SwarmInv'
  <2> DEFINE p == peers[a][b]
             q == [p EXCEPT !.fresh = FALSE]
  <2>1. /\ p # NoPeer /\ peers' = [peers EXCEPT ![a][b] = q]
        /\ gaps' = gaps \/ (gaps < site.gaps /\ gaps' = gaps + 1)
        /\ UNCHANGED <<site, up, draining, known, origin, cycle, fetches, beats, news, crashes, toggles>>
    BY <1>0, <1>7 DEF Silence, RegistryTypes, Switches
  <2>2. p \in Records /\ Kept(p, b)
    BY <1>0, <2>1 DEF RegistryTypes, RegistryKept
  <2>3. /\ q \in Records /\ q.listen = p.listen /\ q.also = p.also /\ q.active = p.active /\ q.via = p.via
    BY <2>2 DEF Records
  <2>4. Kept(q, b)
    BY <2>2, <2>3 DEF Kept, Candidates
  <2> HIDE DEF q
  <2>5. RegistryTypes'
    BY <1>0, <2>1, <2>3 DEF RegistryTypes
  <2>6. RegistryKept'
    <3> SUFFICES ASSUME NEW c \in Agents, NEW d \in Agents, peers'[c][d] # NoPeer
                 PROVE  /\ Kept(peers'[c][d], d)
                        /\ peers'[c][d].via = "heartbeat" => origin'[c][peers'[c][d].listen] = "none"
      BY DEF RegistryKept, Kept, Candidates
    <3>1. CASE c = a /\ d = b
      <4>1. peers'[c][d] = q
        BY <1>0, <2>1, <3>1 DEF RegistryTypes
      <4> QED BY <1>0, <2>1, <2>3, <2>4, <3>1, <4>1 DEF RegistryKept
    <3>2. CASE ~(c = a /\ d = b)
      <4>1. peers'[c][d] = peers[c][d]
        BY <1>0, <2>1, <3>2 DEF RegistryTypes
      <4> QED BY <1>0, <2>1, <4>1 DEF RegistryKept
    <3> QED BY <3>1, <3>2
  <2>7. Wires'
    BY <1>0, <2>1 DEF Wires
  <2>8. Switches'
    BY <1>0, <2>1, DeploymentsAssumption DEF Switches
  <2> QED BY <2>5, <2>6, <2>7, <2>8 DEF SwarmInv
<1>8. ASSUME NEW a \in Agents, NEW u \in Addrs, NEW via \in {"heartbeat", "gossip"}, Rediscover(a, u, via)
      PROVE  SwarmInv'
  <2>1. /\ fetches' = fetches \cup {Fetch(a, u, via, "lost")}
        /\ UNCHANGED <<site, up, draining, registry, cycle, beats, news, crashes, gaps, toggles>>
    BY <1>8 DEF Rediscover
  <2>2. RequestOK(Fetch(a, u, via, "lost"))
    BY <1>0, FetchOK DEF Sources
  <2>3. Wires'
    BY <1>0, <2>1, <2>2 DEF Wires
  <2>4. Switches'
    BY <1>0, <2>1 DEF Switches
  <2> QED BY <1>0, <2>1, <2>3, <2>4, RegistryStays DEF SwarmInv
<1>9. ASSUME NEW f \in fetches, FinishFetch(f) PROVE SwarmInv'
  <2>1. /\ fetches' = fetches \ {f}
        /\ UNCHANGED <<site, up, draining, cycle, beats, news, crashes, gaps, toggles>>
        /\ \/ f.answer # NoPeer /\ RegisterPeer(f.by, f.of, f.answer)
           \/ RegisterPeer(f.by, f.of, Record(f.url, {}, "mdns", FALSE, FALSE))
           \/ UNCHANGED registry
    BY <1>9 DEF FinishFetch
  <2>2. /\ f.by \in Agents /\ f.url \in Addrs /\ f.of = OwnerOf[f.url] /\ f.of \in Agents
        /\ f.answer # NoPeer => Answered(f.answer, f.of)
    BY <1>0, AddressesAssumption DEF Wires, RequestOK
  <2>3. Answered(Record(f.url, {}, "mdns", FALSE, FALSE), f.of)
    BY <2>2 DEF Record, Answered, Records, Sources
  <2>4. RegistryTypes' /\ RegistryKept'
    BY <1>0, <2>1, <2>2, <2>3, RegisterKeeps, RegistryStays
  <2>5. Wires' /\ Switches'
    BY <1>0, <2>1 DEF Wires, Switches
  <2> QED BY <2>4, <2>5 DEF SwarmInv
<1>10. ASSUME NEW m \in beats, HandleHeartbeat(m) PROVE SwarmInv'
  <2> DEFINE b == m.from
             p == Record(Listen[b], Alternates(b), "heartbeat", m.draining, TRUE)
  <2>1. /\ beats' = beats \ {m} /\ RegisterPeer(m.to, b, p)
        /\ UNCHANGED <<site, up, draining, cycle, fetches, news, crashes, gaps, toggles>>
    BY <1>10 DEF HandleHeartbeat
  <2>2. b \in Agents /\ m.to \in Agents /\ m.draining \in BOOLEAN
    BY <1>0 DEF Wires
  <2>3. /\ Listen[b] \in Addrs /\ OwnerOf[Listen[b]] = b
        /\ Alternates(b) \subseteq Addrs /\ \A u \in Alternates(b) : OwnerOf[u] = b
    BY <1>0, <2>2, AddressesAssumption, DeploymentsAssumption DEF Switches, Alternates
  <2>4. Answered(p, b)
    BY <2>2, <2>3 DEF Record, Answered, Records, Sources
  <2> HIDE DEF p, b
  <2>5. RegistryTypes' /\ RegistryKept'
    BY <1>0, <2>1, <2>2, <2>4, RegisterKeeps
  <2>6. Wires' /\ Switches'
    BY <1>0, <2>1 DEF Wires, Switches
  <2> QED BY <2>5, <2>6 DEF SwarmInv
<1>11. ASSUME NEW m \in beats, LoseBeat(m) PROVE SwarmInv'
  <2>1. /\ beats' = beats \ {m}
        /\ gaps' = gaps \/ (gaps < site.gaps /\ gaps' = gaps + 1)
        /\ UNCHANGED <<site, up, draining, registry, cycle, fetches, news, crashes, toggles>>
    <3>1. m.to \in Agents
      BY <1>0 DEF Wires
    <3> QED BY <1>0, <1>11, <3>1 DEF LoseBeat, Switches
  <2>2. Wires'
    BY <1>0, <2>1 DEF Wires
  <2>3. Switches'
    BY <1>0, <2>1, DeploymentsAssumption DEF Switches
  <2> QED BY <1>0, <2>1, <2>2, <2>3, RegistryStays DEF SwarmInv
<1>12. ASSUME NEW n \in news, HearMdns(n) \/ MissMdns(n) PROVE SwarmInv'
  <2>1. /\ news' = news \ {n}
        /\ fetches' \in {fetches, fetches \cup {Fetch(n.to, Listen[n.from], "mdns", "mdns")}}
        /\ UNCHANGED <<site, up, draining, registry, cycle, beats, crashes, gaps, toggles>>
    BY <1>12 DEF HearMdns, MissMdns
  <2>2. n.to \in Agents /\ Listen[n.from] \in Addrs
    BY <1>0, AddressesAssumption DEF Wires
  <2>3. RequestOK(Fetch(n.to, Listen[n.from], "mdns", "mdns"))
    BY <1>0, <2>2, FetchOK DEF Sources
  <2>4. Wires'
    BY <1>0, <2>1, <2>3 DEF Wires
  <2>5. Switches'
    BY <1>0, <2>1 DEF Switches
  <2> QED BY <1>0, <2>1, <2>4, <2>5, RegistryStays DEF SwarmInv
<1>13. CASE UNCHANGED vars
  <2>1. Switches' /\ Wires'
    BY <1>0, <1>13 DEF vars, Switches, Wires
  <2>2. UNCHANGED registry
    BY <1>13 DEF vars, registry
  <2> QED BY <1>0, <2>1, <2>2, RegistryStays DEF SwarmInv
<1> QED BY <1>1, <1>2, <1>3, <1>4, <1>5, <1>6, <1>7, <1>8, <1>9, <1>10, <1>11, <1>12, <1>13
        DEF Next, AgentStep

LEMMA SwarmAlways == Spec => []SwarmInv
BY InitSwarm, SwarmStep, PTL DEF Spec

---------------------------------------------------------------------------
(* What the registry promises *)

\* Whatever order answers, beats, announcements, scans and prunes come in, a
\* record keeps its type, and its probed path is one of its own candidates.
THEOREM SwarmTypeCorrect == Spec => []SwarmTypeOK
<1>1. SwarmInv => SwarmTypeOK
  <2> SUFFICES ASSUME SwarmInv PROVE SwarmTypeOK
    OBVIOUS
  <2>1. Switches /\ RegistryTypes /\ RegistryKept
    BY DEF SwarmInv
  <2>2. \A a, b \in Agents : RecordOK(peers[a][b])
    <3> SUFFICES ASSUME NEW a \in Agents, NEW b \in Agents, peers[a][b] # NoPeer
                 PROVE  RecordOK(peers[a][b])
      BY DEF RecordOK
    <3>1. peers[a][b] \in Records /\ Kept(peers[a][b], b)
      BY <2>1 DEF RegistryTypes, RegistryKept
    <3> QED BY <3>1 DEF RecordOK, Kept, Records
  <2>3. origin \in [Agents -> [Addrs -> Vias]]
    BY <2>1 DEF RegistryTypes
  <2> QED BY <2>1, <2>2, <2>3 DEF SwarmTypeOK, Switches, RegistryTypes
<1> QED BY <1>1, SwarmAlways, PTL

\* _carry_forward and the origins of the registry: a peer that was pruned and
\* talks again keeps how it was found.
THEOREM OriginOutlives == Spec => []OriginOutlivesRecord
<1>1. SwarmInv => OriginOutlivesRecord
  BY DEF SwarmInv, RegistryKept, OriginOutlivesRecord
<1> QED BY <1>1, SwarmAlways, PTL

\* A hop to a peer goes to an address of that peer: no alternate, old listen
\* address or probed path of one agent gets into the record of another.
HopsReachTheirPeer ==
    \A a, b \in Agents :
        peers[a][b] # NoPeer => Dial(peers[a][b]) \in Addrs /\ OwnerOf[Dial(peers[a][b])] = b

\* Dial of a record of `b` is an address `b` listens on, in every behaviour.
THEOREM HopsReach == Spec => []HopsReachTheirPeer
<1>1. SwarmInv => HopsReachTheirPeer
  <2> SUFFICES ASSUME SwarmInv, NEW a \in Agents, NEW b \in Agents, peers[a][b] # NoPeer
               PROVE  Dial(peers[a][b]) \in Addrs /\ OwnerOf[Dial(peers[a][b])] = b
    BY DEF HopsReachTheirPeer
  <2> DEFINE p == peers[a][b]
  <2>1. p \in Records /\ Kept(p, b)
    BY DEF SwarmInv, RegistryTypes, RegistryKept
  <2>2. p.listen \in Addrs /\ p.listen # NoAddr
    BY <2>1, AddressesAssumption DEF Records
  <2> HIDE DEF p
  <2>3. Dial(p) = IF p.active # NoAddr THEN p.active ELSE p.listen
    BY <2>2 DEF Dial
  <2>4. Dial(p) \in {p.listen} \cup Candidates(p)
    BY <2>1, <2>3 DEF Kept
  <2> QED BY <2>1, <2>2, <2>4, CandidatesOwn DEF Kept, p
<1> QED BY <1>1, SwarmAlways, PTL
=============================================================================
