------------------------ MODULE MeshForwardingProofs ------------------------
(***************************************************************************)
(* Forwarding for any number of agents and requests, any crashes, any      *)
(* silence between agents: forwards end, no visit is started twice, loads  *)
(* are covered by calls in flight, and the ceiling of an agent holds for   *)
(* the forwards it serves.                                                 *)
(***************************************************************************)
EXTENDS MeshForwarding, FiniteSetTheorems, SequenceTheorems, TLAPS

\* A visit that has called its last row.
Closed(v) == pc[v] \in {"answered", "failed", "lost"}

MeshTypes ==
    /\ story \in Stories
    /\ registry \in [Agents -> SUBSET Agents]
    /\ pool \in [Agents -> SUBSET Agents]
    /\ hops \in [Agents -> [Agents -> Nat]]
    /\ busy \in [Agents -> Nat] /\ misses \in Nat
    /\ pc \in [Visits -> {"none", "sent", "walk", "serve", "wait", "answered", "failed", "lost"}]
    /\ on \in [Visits -> Agents \cup {NoAgent}]
    /\ tried \in [Visits -> SUBSET Agents]
    /\ att \in [Visits -> BOOLEAN]

\* The row of a visit: its own agent while it serves, a peer while it waits;
\* before it walks nothing has failed it.
RowOfVisit ==
    \A v \in Visits :
        /\ pc[v] = "serve" => on[v] = At(v)
        /\ pc[v] = "wait" => on[v] \in Agents \ {At(v)}
        /\ pc[v] \notin {"serve", "wait"} => on[v] = NoAgent
        /\ pc[v] \in {"none", "sent"} => tried[v] = {}

\* Whatever the client calls, only a batch shard in the body lets a forward
\* go further than its kind may.
Reaches(r) == IF r \in story.stripped THEN MaxForwardHops ELSE 1
UnshardedTerminate ==
    \A v \in Visits : pc[v] # "none" /\ Request(v) \notin story.sharded => Hop(v) <= Reaches(Request(v))

\* A visit that still walks remembers every peer it called.
CallsRemembered ==
    \A v \in Visits, b \in Agents :
        LET w == <<Request(v), Append(v[2], b)>> IN
        w \in Visits /\ pc[w] # "none" /\ ~Closed(v) => b \in tried[v] \/ b = on[v]

\* No agent hears itself.
NotOwnPeer == \A a \in Agents : a \notin registry[a] /\ a \notin pool[a]

\* Only calls hold rows, a served one its agent's; where no provider misses a
\* scan, every served call still has the row it took.
LocalRows ==
    /\ localRow \subseteq story.hosts
    /\ \A v \in Visits :
        /\ att[v] => pc[v] \in {"serve", "wait"}
        /\ pc[v] = "serve" /\ att[v] => At(v) \in localRow
        /\ pc[v] = "serve" /\ story.misses = 0 => att[v]

\* Visits an agent serves, those of them through the row it has now, and those
\* that wait for one of its peers.
Serving(a) == {v \in Visits : At(v) = a /\ pc[v] = "serve"}
OnRow(v) == pc[v] = "serve" /\ att[v]
Attached(a) == {v \in Visits : At(v) = a /\ OnRow(v)}
WaitingFor(a, b) == {v \in Visits : At(v) = a /\ pc[v] = "wait" /\ on[v] = b}

\* The load an agent reports is what it serves through the row it has; the
\* forwards it adds to the load of a peer are calls in flight there.
LoadsCovered ==
    \A a \in Agents :
        /\ IsFiniteSet(Attached(a)) /\ busy[a] = Cardinality(Attached(a))
        /\ \A b \in Agents : /\ IsFiniteSet(WaitingFor(a, b))
                             /\ hops[a][b] <= Cardinality(WaitingFor(a, b))

\* Forwards an agent serves that end with it, and those on the row it has.
LastHops(a) == {v \in Serving(a) : LocalOnly(v)}
LastAttached(a) == {v \in Attached(a) : LocalOnly(v)}

\* Forwards that end here never take more of an agent than its ceiling.
CeilingHeld ==
    \A a \in Agents : AgentMax[a] > 0 =>
        Cardinality(LastHops(a)) <= AgentMax[a]

\* What the counter of a row shows never exceeds it.
RowCeiling ==
    \A a \in Agents : AgentMax[a] > 0 =>
        Cardinality(LastAttached(a)) <= AgentMax[a]

MeshInv == /\ MeshTypes /\ RowOfVisit /\ UnshardedTerminate /\ CallsRemembered
           /\ NotOwnPeer /\ LocalRows /\ LoadsCovered /\ RowCeiling

---------------------------------------------------------------------------
(* Routes *)

\* A visit is a request and a route of at most Depth agents.
LEMMA VisitShape ==
    ASSUME NEW v \in Visits
    PROVE  /\ v = <<Request(v), v[2]>>
           /\ Request(v) \in Requests
           /\ v[2] \in Seq(Agents)
           /\ Len(v[2]) \in Nat \ {0}
           /\ Hop(v) = Len(v[2]) - 1
           /\ At(v) \in Agents
<1>1. PICK r \in Requests : v \in {r} \X Routes(r)
  BY DEF Visits
<1>2. v[1] = r /\ v[2] \in Routes(r) /\ v = <<v[1], v[2]>>
  BY <1>1
<1>3. v[2] \in SeqOf(Agents, Depth) /\ v[2] # << >>
  BY <1>2 DEF Routes
<1>4. PICK m \in 0..Depth : v[2] \in [1..m -> Agents]
  BY <1>3, Zenon DEF SeqOf
<1>5. v[2] \in Seq(Agents)
  <2>1. m \in Nat
    BY MeshAssumption
  <2> QED BY <1>4, <2>1, SeqDef
<1>6. Len(v[2]) \in Nat \ {0} /\ v[2][Len(v[2])] \in Agents
  BY <1>3, <1>5, EmptySeq, ElementOfSeq
<1> QED BY <1>2, <1>5, <1>6 DEF Request, Hop, At, Last

\* What a visit calls at a peer is one hop further.
LEMMA CalleeShape ==
    ASSUME NEW v \in Visits, NEW b \in Agents
    PROVE  LET w == <<Request(v), Append(v[2], b)>> IN
           /\ Request(w) = Request(v)
           /\ At(w) = b
           /\ Hop(w) = Hop(v) + 1
           /\ w # v
<1>1. v[2] \in Seq(Agents) /\ Hop(v) = Len(v[2]) - 1 /\ v = <<Request(v), v[2]>>
  BY VisitShape
<1>2. /\ Len(Append(v[2], b)) = Len(v[2]) + 1
      /\ Append(v[2], b)[Len(v[2]) + 1] = b
      /\ Len(v[2]) \in Nat
  BY <1>1, AppendProperties, LenProperties
<1> QED BY <1>1, <1>2 DEF Request, Hop, At, Last

\* Who called is in the route.
LEMMA OneCaller ==
    ASSUME NEW v \in Visits, NEW b \in Agents, NEW w \in Visits, NEW c \in Agents,
           <<Request(v), Append(v[2], b)>> = <<Request(w), Append(w[2], c)>>
    PROVE  v = w /\ b = c
<1>1. /\ v[2] \in Seq(Agents) /\ w[2] \in Seq(Agents)
      /\ v = <<Request(v), v[2]>> /\ w = <<Request(w), w[2]>>
  BY VisitShape
<1>2. Request(v) = Request(w) /\ Append(v[2], b) = Append(w[2], c)
  OBVIOUS
<1>3. ASSUME NEW s \in Seq(Agents), NEW d \in Agents
      PROVE  /\ Len(s) \in Nat /\ Len(Append(s, d)) = Len(s) + 1
             /\ Append(s, d)[Len(s) + 1] = d
             /\ \A i \in 1..Len(s) : Append(s, d)[i] = s[i]
  <2>1. Len(s) \in Nat
    BY LenProperties
  <2>2. /\ Len(Append(s, d)) = Len(s) + 1
        /\ \A i \in 1..(Len(s) + 1) : Append(s, d)[i] = IF i = Len(s) + 1 THEN d ELSE s[i]
    BY AppendProperties
  <2> QED BY <2>1, <2>2
<1>5. Len(v[2]) = Len(w[2]) /\ b = c
  BY <1>1, <1>2, <1>3
<1>6. v[2] = w[2]
  BY <1>1, <1>2, <1>3, <1>5, SeqEqual
<1> QED BY <1>1, <1>2, <1>5, <1>6

---------------------------------------------------------------------------
(* The parts of the invariant that speak of one visit *)

LEMMA MeshStart == Init => MeshInv
<1> SUFFICES ASSUME Init PROVE MeshInv
  OBVIOUS
<1>1. MeshTypes
  BY DEF Init, MeshTypes
<1>2. RowOfVisit /\ UnshardedTerminate /\ CallsRemembered
  BY Zenon DEF Init, RowOfVisit, UnshardedTerminate, CallsRemembered
<1>3. \A a \in Agents : Attached(a) = {} /\ \A b \in Agents : WaitingFor(a, b) = {}
  BY DEF Init, Attached, OnRow, WaitingFor
<1>4. LoadsCovered
  <2>1. \A a \in Agents : busy[a] = 0 /\ \A b \in Agents : hops[a][b] = 0
    BY DEF Init
  <2>2. IsFiniteSet({}) /\ Cardinality({}) = 0
    BY FS_EmptySet
  <2>3. ASSUME NEW a \in Agents, NEW b \in Agents
        PROVE  IsFiniteSet(WaitingFor(a, b)) /\ hops[a][b] <= Cardinality(WaitingFor(a, b))
    <3>1. WaitingFor(a, b) = {} /\ hops[a][b] = 0
      BY <1>3, <2>1
    <3> QED BY <2>2, <3>1
  <2> QED BY <1>3, <2>1, <2>2, <2>3 DEF LoadsCovered
<1>5. \A a \in Agents : LastAttached(a) = {}
  BY <1>3 DEF LastAttached
<1>6. RowCeiling
  BY <1>5, FS_EmptySet, MeshAssumption DEF RowCeiling
<1>7. LocalRows /\ NotOwnPeer
  BY DEF Init, LocalRows, NotOwnPeer
<1> QED BY <1>1, <1>2, <1>4, <1>6, <1>7 DEF MeshInv

\* Whatever is reported, found or given back, the ledgers hold numbers.
LEMMA LoadTypes ==
    /\ \A a \in Agents, heard \in SUBSET Agents : \A told :
           MeshTypes /\ RefreshPool(a, heard, told)
               => /\ pool' \in [Agents -> SUBSET Agents] /\ hops' \in [Agents -> [Agents -> Nat]]
                  /\ busy' \in [Agents -> Nat] /\ misses' \in Nat /\ att' \in [Visits -> BOOLEAN]
    /\ \A v \in Visits : MeshTypes /\ Release(v) /\ on[v] \in Agents
               => hops' \in [Agents -> [Agents -> Nat]] /\ busy' \in [Agents -> Nat]
<1>1. ASSUME NEW a \in Agents, NEW heard \in SUBSET Agents, NEW told, MeshTypes, RefreshPool(a, heard, told)
      PROVE  /\ pool' \in [Agents -> SUBSET Agents] /\ hops' \in [Agents -> [Agents -> Nat]]
             /\ busy' \in [Agents -> Nat] /\ misses' \in Nat /\ att' \in [Visits -> BOOLEAN]
  <2>1. pool' \in [Agents -> SUBSET Agents] /\ hops' \in [Agents -> [Agents -> Nat]]
    BY <1>1 DEF MeshTypes, RefreshPool
  <2>2. PICK found \in SUBSET ({a} \cap story.hosts) : ScanLocal(a, found)
    BY <1>1 DEF RefreshPool
  <2>3. busy' \in [Agents -> Nat] /\ misses' \in Nat
    BY <1>1, <2>2 DEF MeshTypes, ScanLocal
  <2>4. att' \in [Visits -> BOOLEAN]
    BY <2>2 DEF ScanLocal
  <2> QED BY <2>1, <2>3, <2>4
<1>2. ASSUME NEW v \in Visits, MeshTypes, Release(v), on[v] \in Agents
      PROVE  hops' \in [Agents -> [Agents -> Nat]] /\ busy' \in [Agents -> Nat]
  <2>1. At(v) \in Agents
    BY VisitShape
  <2>2. CASE on[v] = At(v)
    <3>1. Dec(busy[At(v)]) \in Nat
      BY <1>2, <2>1 DEF MeshTypes, Dec
    <3>2. hops' = hops
      BY <1>2, <2>2 DEF Release
    <3>3. CASE att[v]
      BY <1>2, <2>1, <2>2, <3>1, <3>2, <3>3 DEF MeshTypes, Release
    <3>4. CASE ~att[v]
      BY <1>2, <2>1, <2>2, <3>2, <3>4 DEF MeshTypes, Release
    <3> QED BY <3>3, <3>4
  <2>3. CASE on[v] # At(v)
    <3>1. Dec(hops[At(v)][on[v]]) \in Nat
      BY <1>2, <2>1 DEF MeshTypes, Dec
    <3>2. busy' = busy /\ hops' = [hops EXCEPT ![At(v)][on[v]] = Dec(@)]
      BY <1>2, <2>3 DEF Release
    <3> QED BY <1>2, <2>1, <3>1, <3>2 DEF MeshTypes
  <2> QED BY <2>2, <2>3
<1> QED BY <1>1, <1>2

LEMMA StepTypes == MeshInv /\ [Next]_vars => MeshTypes'
<1> SUFFICES ASSUME MeshInv, [Next]_vars PROVE MeshTypes'
  OBVIOUS
<1> USE DEF MeshInv
<1>0. CASE UNCHANGED vars
  BY <1>0 DEF vars, peering, loads, walk, MeshTypes
<1>1. ASSUME NEW r \in Requests, Submit(r) PROVE MeshTypes'
  BY <1>1 DEF Submit, MeshTypes, peering, loads
<1>2. ASSUME NEW v \in Visits, Step(v) PROVE MeshTypes'
  <2>1. At(v) \in Agents
    BY VisitShape
  <2>2. CASE Start(v)
    <3>1. registry[At(v)] \in SUBSET Agents
      BY <2>1 DEF MeshTypes
    <3>2. /\ pool' \in [Agents -> SUBSET Agents] /\ hops' \in [Agents -> [Agents -> Nat]]
          /\ busy' \in [Agents -> Nat] /\ misses' \in Nat /\ att' \in [Visits -> BOOLEAN]
      BY <2>1, <2>2, <3>1, LoadTypes DEF Start
    <3> QED BY <2>2, <3>2 DEF Start, MeshTypes
  <2>3. CASE Serve(v)
    BY <2>1, <2>3 DEF Serve, MeshTypes, peering
  <2>4. CASE Refuse(v) \/ Exhaust(v)
    BY <2>4 DEF Refuse, Exhaust, End, MeshTypes, peering, loads
  <2>5. CASE Forward(v)
    <3>1. PICK b \in Candidates(v) \ {At(v)} :
            /\ hops' = [hops EXCEPT ![At(v)][b] = @ + 1]
            /\ on' = [on EXCEPT ![v] = b]
            /\ pc' = [pc EXCEPT ![v] = "wait",
                                ![<<Request(v), Append(v[2], b)>>] = IF b \in up THEN "sent" ELSE "lost"]
      BY <2>5 DEF Forward
    <3>2. b \in Agents
      BY <2>1, <3>1 DEF Candidates, MeshTypes
    <3>3. hops' \in [Agents -> [Agents -> Nat]]
      BY <2>1, <3>1, <3>2 DEF MeshTypes
    <3>4. on' \in [Visits -> Agents \cup {NoAgent}]
      BY <3>1, <3>2 DEF MeshTypes
    <3>5. pc' \in [Visits -> {"none", "sent", "walk", "serve", "wait", "answered", "failed", "lost"}]
      BY <3>1 DEF MeshTypes
    <3> QED BY <2>5, <3>3, <3>4, <3>5 DEF Forward, MeshTypes, peering
  <2>6. ASSUME Answer(v) \/ Fail(v) PROVE MeshTypes'
    <3>1. on[v] \in Agents
      BY <2>1, <2>6 DEF Answer, Fail, RowOfVisit
    <3>2. hops' \in [Agents -> [Agents -> Nat]] /\ busy' \in [Agents -> Nat]
      BY <2>6, <3>1, LoadTypes DEF Answer, Fail
    <3>3. CASE Answer(v)
      BY <3>2, <3>3 DEF Answer, End, MeshTypes, peering
    <3>4. CASE Fail(v)
      BY <3>1, <3>2, <3>4 DEF Fail, MeshTypes, peering
    <3> QED BY <2>6, <3>3, <3>4
  <2> QED BY <1>2, <2>2, <2>3, <2>4, <2>5, <2>6 DEF Step
<1>3. ASSUME NEW a \in Agents, NEW b \in Agents, Beat(a, b) PROVE MeshTypes'
  <2>1. registry' \in [Agents -> SUBSET Agents] /\ registry'[a] \in SUBSET Agents
    BY <1>3 DEF Beat, MeshTypes
  <2> DEFINE heard == registry'[a]
             told == report'[a]
  <2>2. RefreshPool(a, heard, told) /\ heard \in SUBSET Agents
    BY <1>3, <2>1 DEF Beat
  <2> HIDE DEF heard, told
  <2>3. /\ pool' \in [Agents -> SUBSET Agents] /\ hops' \in [Agents -> [Agents -> Nat]]
        /\ busy' \in [Agents -> Nat] /\ misses' \in Nat /\ att' \in [Visits -> BOOLEAN]
    BY <2>2, LoadTypes
  <2> QED BY <1>3, <2>1, <2>3 DEF Beat, MeshTypes
<1>4. ASSUME NEW a \in Agents, NEW b \in Agents, Lose(a, b) PROVE MeshTypes'
  BY <1>4 DEF Lose, MeshTypes, loads, walk
<1>5. ASSUME NEW a \in Agents, Crash(a) PROVE MeshTypes'
  BY <1>5 DEF Crash, MeshTypes, Open
<1>6. ASSUME NEW a \in Agents, Restart(a) PROVE MeshTypes'
  BY <1>6 DEF Restart, MeshTypes, peering, loads, walk
<1> QED BY <1>0, <1>1, <1>2, <1>3, <1>4, <1>5, <1>6 DEF Next

\* What a forward does to the visits: it starts the peer's, which is new, and
\* one hop further than the agent may forward.
LEMMA ForwardStarts ==
    ASSUME MeshInv, NEW v \in Visits, Forward(v)
    PROVE  \E b \in Agents : LET w == <<Request(v), Append(v[2], b)>> IN
             /\ b # At(v) /\ on[v] = NoAgent /\ pc[v] = "walk"
             /\ b \notin tried[v] /\ w # v
             /\ w \in Visits => pc[w] = "none"
             /\ Request(v) \notin story.sharded => Hop(w) <= Reaches(Request(v))
             /\ hops' = [hops EXCEPT ![At(v)][b] = @ + 1]
             /\ on' = [on EXCEPT ![v] = b]
             /\ pc' = [pc EXCEPT ![v] = "wait", ![w] = IF b \in up THEN "sent" ELSE "lost"]
<1> USE DEF MeshInv
<1>1. PICK b \in Candidates(v) \ {At(v)} :
        /\ hops' = [hops EXCEPT ![At(v)][b] = @ + 1]
        /\ on' = [on EXCEPT ![v] = b]
        /\ pc' = [pc EXCEPT ![v] = "wait",
                            ![<<Request(v), Append(v[2], b)>>] = IF b \in up THEN "sent" ELSE "lost"]
  BY DEF Forward
<1> DEFINE w == <<Request(v), Append(v[2], b)>>
<1>2. At(v) \in Agents /\ Len(v[2]) \in Nat \ {0} /\ Hop(v) = Len(v[2]) - 1
  BY VisitShape
<1>3. b \in Agents /\ b \notin tried[v]
  BY <1>1, <1>2 DEF Candidates, MeshTypes
<1>4. pc[v] = "walk" /\ on[v] = NoAgent
  BY DEF Forward, RowOfVisit
<1>5. w \in Visits => pc[w] = "none"
  BY <1>3, <1>4, MeshAssumption DEF CallsRemembered, Closed
<1>6. w # v /\ Hop(w) = Hop(v) + 1
  BY <1>3, CalleeShape
<1>7. ASSUME Request(v) \notin story.sharded PROVE Hop(w) <= Reaches(Request(v))
  <2>1. ~LocalOnly(v)
    BY <1>1, <1>7 DEF Candidates
  <2>2. CASE Request(v) \in story.stripped
    BY <1>2, <1>6, <2>1, <2>2 DEF LocalOnly, Reaches, MaxForwardHops
  <2>3. CASE Request(v) \notin story.stripped
    BY <1>2, <1>6, <2>1, <2>3 DEF LocalOnly, Reaches
  <2> QED BY <2>2, <2>3
<1> HIDE DEF w
<1>8. pc' = [pc EXCEPT ![v] = "wait", ![w] = IF b \in up THEN "sent" ELSE "lost"]
  BY <1>1 DEF w
<1> QED BY <1>1, <1>3, <1>4, <1>5, <1>6, <1>7 DEF w

\* A step of one visit leaves the others where they were, but for the visit
\* it starts; a visit that gives its row back had one.
LEMMA OthersStay ==
    ASSUME MeshInv, NEW v \in Visits, Step(v), ~Forward(v)
    PROVE  /\ \A w \in Visits \ {v} : pc'[w] = pc[w] /\ on'[w] = on[w] /\ tried'[w] = tried[w]
           /\ pc[v] \in {"sent", "walk", "serve", "wait"} /\ pc'[v] # "none" /\ pc'[v] # "sent"
           /\ pc'[v] # "wait"
           /\ pc'[v] = "serve" => on'[v] = At(v)
           /\ pc'[v] # "serve" => on'[v] = NoAgent
           /\ pc'[v] \in {"walk", "serve"} =>
                tried[v] \cup ({on[v]} \ {NoAgent}) \subseteq tried'[v] \cup {on'[v]}
           /\ story' = story
<1> USE DEF MeshInv
<1>1. CASE Start(v)
  BY <1>1 DEF Start, MeshTypes, RowOfVisit
<1>2. CASE Serve(v)
  BY <1>2 DEF Serve, MeshTypes, RowOfVisit
<1>3. CASE Refuse(v) \/ Exhaust(v)
  BY <1>3 DEF Refuse, Exhaust, End, MeshTypes
<1>4. CASE Answer(v)
  BY <1>4 DEF Answer, End, MeshTypes
<1>5. CASE Fail(v)
  BY <1>5 DEF Fail, MeshTypes
<1> QED BY <1>1, <1>2, <1>3, <1>4, <1>5 DEF Step

LEMMA StepVisits ==
    MeshInv /\ [Next]_vars => RowOfVisit' /\ UnshardedTerminate' /\ CallsRemembered'
<1> SUFFICES ASSUME MeshInv, [Next]_vars PROVE RowOfVisit' /\ UnshardedTerminate' /\ CallsRemembered'
  OBVIOUS
<1> USE DEF MeshInv
<1>0. ASSUME UNCHANGED <<story, pc, on, tried>>
      PROVE  RowOfVisit' /\ UnshardedTerminate' /\ CallsRemembered'
  BY <1>0, Zenon DEF RowOfVisit, UnshardedTerminate, Reaches, CallsRemembered, Closed
<1>1. ASSUME NEW r \in Requests, Submit(r)
      PROVE  RowOfVisit' /\ UnshardedTerminate' /\ CallsRemembered'
  <2> DEFINE s == <<r, <<Entry[r]>>>>
  <2>1. /\ \A v \in Visits \ {s} : pc'[v] = pc[v]
        /\ s \in Visits => pc'[s] = "sent" /\ pc[s] = "none"
        /\ UNCHANGED <<story, on, tried>>
    BY <1>1 DEF Submit, MeshTypes
  <2>2. Hop(s) = 0 /\ Len(s[2]) = 1
    BY DEF Hop
  <2>3. \A v \in Visits, b \in Agents : <<Request(v), Append(v[2], b)>> # s
    <3> SUFFICES ASSUME NEW v \in Visits, NEW b \in Agents, <<Request(v), Append(v[2], b)>> = s PROVE FALSE
      OBVIOUS
    <3>1. v[2] \in Seq(Agents) /\ Len(v[2]) \in Nat \ {0}
      BY VisitShape
    <3>2. Len(Append(v[2], b)) = Len(v[2]) + 1
      BY <3>1, AppendProperties, LenProperties
    <3> QED BY <2>2, <3>1, <3>2
  <2> HIDE DEF s
  <2>4. RowOfVisit'
    BY <2>1 DEF RowOfVisit
  <2>5. UnshardedTerminate'
    BY <2>1, <2>2 DEF UnshardedTerminate, Reaches, MaxForwardHops
  <2>6. CallsRemembered'
    <3> SUFFICES ASSUME NEW v \in Visits, NEW b \in Agents, NEW w, w = <<Request(v), Append(v[2], b)>>,
                        w \in Visits, pc'[w] # "none", ~Closed(v)'
                 PROVE  b \in tried'[v] \/ b = on'[v]
      BY DEF CallsRemembered
    <3>1. w # s /\ pc[w] # "none"
      BY <2>1, <2>3
    <3>2. ~Closed(v)
      BY <2>1 DEF Closed
    <3> QED BY <2>1, <3>1, <3>2 DEF CallsRemembered
  <2> QED BY <2>4, <2>5, <2>6
<1>2. ASSUME NEW v \in Visits, Forward(v)
      PROVE  RowOfVisit' /\ UnshardedTerminate' /\ CallsRemembered'
  <2>1. PICK b \in Agents : LET w == <<Request(v), Append(v[2], b)>> IN
             /\ b # At(v) /\ on[v] = NoAgent /\ pc[v] = "walk"
             /\ b \notin tried[v] /\ w # v
             /\ w \in Visits => pc[w] = "none"
             /\ Request(v) \notin story.sharded => Hop(w) <= Reaches(Request(v))
             /\ hops' = [hops EXCEPT ![At(v)][b] = @ + 1]
             /\ on' = [on EXCEPT ![v] = b]
             /\ pc' = [pc EXCEPT ![v] = "wait", ![w] = IF b \in up THEN "sent" ELSE "lost"]
    BY <1>2, ForwardStarts
  <2> DEFINE w == <<Request(v), Append(v[2], b)>>
  <2>2. Request(w) = Request(v)
    BY CalleeShape
  <2>3. story' = story /\ tried' = tried
    BY <1>2 DEF Forward
  <2>4. /\ pc'[v] = "wait" /\ on'[v] = b
        /\ w \in Visits => pc'[w] \in {"sent", "lost"} /\ on'[w] = on[w]
        /\ \A x \in Visits \ {v, w} : pc'[x] = pc[x] /\ on'[x] = on[x]
    BY <2>1 DEF MeshTypes
  <2>5. RowOfVisit'
    BY <2>1, <2>3, <2>4 DEF RowOfVisit
  <2>6. UnshardedTerminate'
    <3> SUFFICES ASSUME NEW x \in Visits, pc'[x] # "none", Request(x) \notin story.sharded
                 PROVE  Hop(x) <= Reaches(Request(x))
      BY <2>3 DEF UnshardedTerminate, Reaches
    <3>1. CASE x = w
      BY <2>1, <2>2, <3>1
    <3>2. CASE x # w
      BY <2>1, <2>4, <3>2 DEF UnshardedTerminate
    <3> QED BY <3>1, <3>2
  <2>7. CallsRemembered'
    <3> SUFFICES ASSUME NEW x \in Visits, NEW c \in Agents, NEW y, y = <<Request(x), Append(x[2], c)>>,
                        y \in Visits, pc'[y] # "none", ~Closed(x)'
                 PROVE  c \in tried'[x] \/ c = on'[x]
      BY DEF CallsRemembered
    <3>1. CASE y = w
      <4>1. x = v /\ c = b
        BY <3>1, OneCaller
      <4> QED BY <2>4, <4>1
    <3>2. CASE y # w
      <4>1. pc[y] # "none"
        BY <2>1, <2>4, <3>2
      <4>2. CASE x = w
        <5>1. Closed(x) \/ c \in tried[x] \/ c = on[x]
          BY <4>1 DEF CallsRemembered
        <5>2. pc[x] = "none"
          BY <2>1, <4>2
        <5> QED BY <2>3, <2>4, <4>2, <5>1, <5>2 DEF Closed
      <4>3. CASE x = v
        <5>1. c \in tried[x] \/ c = on[x]
          BY <2>1, <4>1, <4>3 DEF CallsRemembered, Closed
        <5> QED BY <2>1, <2>3, <4>3, <5>1, MeshAssumption
      <4>4. CASE x # v /\ x # w
        <5>1. c \in tried[x] \/ c = on[x]
          BY <2>4, <4>1, <4>4 DEF CallsRemembered, Closed
        <5> QED BY <2>3, <2>4, <4>4, <5>1
      <4> QED BY <4>2, <4>3, <4>4
    <3> QED BY <3>1, <3>2
  <2> QED BY <2>5, <2>6, <2>7
<1>3. ASSUME NEW v \in Visits, Step(v), ~Forward(v)
      PROVE  RowOfVisit' /\ UnshardedTerminate' /\ CallsRemembered'
  <2> DEFINE Known == tried[v] \cup ({on[v]} \ {NoAgent})
  <2>1. /\ \A w \in Visits \ {v} : pc'[w] = pc[w] /\ on'[w] = on[w] /\ tried'[w] = tried[w]
        /\ pc[v] \in {"sent", "walk", "serve", "wait"} /\ pc'[v] # "none" /\ pc'[v] # "sent"
        /\ pc'[v] # "wait"
        /\ pc'[v] = "serve" => on'[v] = At(v)
        /\ pc'[v] # "serve" => on'[v] = NoAgent
        /\ pc'[v] \in {"walk", "serve"} => Known \subseteq tried'[v] \cup {on'[v]}
        /\ story' = story
    BY <1>3, OthersStay, Zenon
  <2>2. pc'[v] \in {"walk", "serve"} \/ Closed(v)'
    BY <2>1, <1>3, OthersStay, StepTypes DEF MeshTypes, Closed, Next
  <2>3. RowOfVisit'
    BY <2>1 DEF RowOfVisit
  <2>4. UnshardedTerminate'
    BY <2>1 DEF UnshardedTerminate, Reaches
  <2>5. CallsRemembered'
    <3> SUFFICES ASSUME NEW x \in Visits, NEW c \in Agents, NEW y, y = <<Request(x), Append(x[2], c)>>,
                        y \in Visits, pc'[y] # "none", ~Closed(x)'
                 PROVE  c \in tried'[x] \/ c = on'[x]
      BY DEF CallsRemembered
    <3>1. pc[y] # "none"
      BY <2>1
    <3>2. CASE x = v
      <4>1. c \in tried[v] \/ c = on[v]
        BY <2>1, <3>1, <3>2 DEF CallsRemembered, Closed
      <4> QED BY <2>1, <2>2, <3>2, <4>1, MeshAssumption
    <3>3. CASE x # v
      BY <2>1, <3>1, <3>3 DEF CallsRemembered, Closed
    <3> QED BY <3>2, <3>3
  <2> QED BY <2>3, <2>4, <2>5
<1>4. ASSUME NEW a \in Agents, Crash(a)
      PROVE  RowOfVisit' /\ UnshardedTerminate' /\ CallsRemembered'
  <2>1. /\ \A v \in Visits : /\ pc'[v] = IF At(v) = a /\ Open(v) THEN "lost" ELSE pc[v]
                             /\ on'[v] = IF At(v) = a THEN NoAgent ELSE on[v]
                             /\ tried'[v] = IF At(v) = a THEN {} ELSE tried[v]
        /\ story' = story
    BY <1>4 DEF Crash
  <2>2. RowOfVisit'
    BY <2>1 DEF RowOfVisit, Open
  <2>3. UnshardedTerminate'
    BY <2>1 DEF UnshardedTerminate, Reaches, Open
  <2>4. CallsRemembered'
    <3> SUFFICES ASSUME NEW x \in Visits, NEW c \in Agents, NEW y, y = <<Request(x), Append(x[2], c)>>,
                        y \in Visits, pc'[y] # "none", ~Closed(x)'
                 PROVE  c \in tried'[x] \/ c = on'[x]
      BY DEF CallsRemembered
    <3>1. pc[y] # "none"
      BY <2>1 DEF Open
    <3>2. CASE At(x) = a
      BY <2>1, <3>1, <3>2, StepTypes, MeshAssumption DEF CallsRemembered, RowOfVisit, Closed, Open, MeshTypes
    <3>3. CASE At(x) # a
      BY <2>1, <3>1, <3>3 DEF CallsRemembered, Closed
    <3> QED BY <3>2, <3>3
  <2> QED BY <2>2, <2>3, <2>4
<1> QED
  BY <1>0, <1>1, <1>2, <1>3, <1>4, Zenon DEF Next, Beat, Lose, Restart, walk, vars

---------------------------------------------------------------------------
(* Loads *)

\* A row that goes with its calls and a ledger no larger keep what is covered.
LEMMA LoadsShrink ==
    ASSUME MeshInv, story' = story,
           \A a \in Agents : /\ \/ Attached(a)' = Attached(a) /\ busy'[a] = busy[a]
                                \/ Attached(a)' = {} /\ busy'[a] = 0
                             /\ \A b \in Agents : /\ WaitingFor(a, b)' = WaitingFor(a, b)
                                                  /\ hops'[a][b] \in {0, hops[a][b]}
    PROVE  LoadsCovered' /\ RowCeiling'
<1> USE DEF MeshInv
<1>0. IsFiniteSet({}) /\ Cardinality({}) = 0
  BY FS_EmptySet
<1>1. ASSUME NEW a \in Agents, NEW b \in Agents
      PROVE  IsFiniteSet(WaitingFor(a, b)') /\ hops'[a][b] <= Cardinality(WaitingFor(a, b)')
  <2>1. /\ IsFiniteSet(WaitingFor(a, b)) /\ hops[a][b] <= Cardinality(WaitingFor(a, b))
        /\ WaitingFor(a, b)' = WaitingFor(a, b) /\ hops'[a][b] \in {0, hops[a][b]}
    BY DEF LoadsCovered
  <2>2. Cardinality(WaitingFor(a, b)) \in Nat
    BY <2>1, FS_CardinalityType
  <2> QED BY <2>1, <2>2
<1>2. ASSUME NEW a \in Agents PROVE IsFiniteSet(Attached(a)') /\ busy'[a] = Cardinality(Attached(a)')
  <2>1. CASE Attached(a)' = Attached(a) /\ busy'[a] = busy[a]
    BY <2>1 DEF LoadsCovered
  <2>2. CASE Attached(a)' = {} /\ busy'[a] = 0
    BY <1>0, <2>2
  <2> QED BY <2>1, <2>2
<1>3. LoadsCovered'
  BY <1>1, <1>2 DEF LoadsCovered
<1>4. ASSUME NEW a \in Agents PROVE LastAttached(a)' \in {{}, LastAttached(a)}
  BY DEF LastAttached, LocalOnly
<1>5. ASSUME NEW a \in Agents, AgentMax[a] > 0 PROVE Cardinality(LastAttached(a)') <= AgentMax[a]
  <2>1. Cardinality(LastAttached(a)) <= AgentMax[a] /\ AgentMax[a] \in Nat
    BY <1>5, MeshAssumption DEF RowCeiling
  <2>2. CASE LastAttached(a)' = {}
    BY <1>0, <1>5, <2>1, <2>2
  <2>3. CASE LastAttached(a)' = LastAttached(a)
    BY <2>1, <2>3
  <2> QED BY <1>4, <2>2, <2>3
<1>6. RowCeiling'
  BY <1>5 DEF RowCeiling
<1> QED BY <1>3, <1>6

\* One call more or less on the agent's own rows.
LEMMA OwnLoads ==
    ASSUME MeshInv, NEW v \in Visits, story' = story,
           NEW d \in {-1, 1},
           d = 1 => v \notin Attached(At(v)) /\ ~Saturated(v),
           d = -1 => v \in Attached(At(v)),
           Attached(At(v))' = IF d = 1 THEN Attached(At(v)) \cup {v} ELSE Attached(At(v)) \ {v},
           busy'[At(v)] = busy[At(v)] + d,
           hops' = hops,
           \A a \in Agents : /\ a # At(v) => Attached(a)' = Attached(a) /\ busy'[a] = busy[a]
                             /\ \A b \in Agents : WaitingFor(a, b)' = WaitingFor(a, b)
    PROVE  LoadsCovered' /\ RowCeiling'
<1> USE DEF MeshInv
<1> DEFINE a == At(v)
<1>1. a \in Agents /\ IsFiniteSet(Attached(a)) /\ busy[a] = Cardinality(Attached(a)) /\ busy[a] \in Nat
  BY VisitShape DEF LoadsCovered, MeshTypes
<1>2. /\ IsFiniteSet(Attached(a) \cup {v}) /\ IsFiniteSet(Attached(a) \ {v})
      /\ v \notin Attached(a) => Cardinality(Attached(a) \cup {v}) = Cardinality(Attached(a)) + 1
      /\ v \in Attached(a) => Cardinality(Attached(a) \ {v}) = Cardinality(Attached(a)) - 1
  BY <1>1, FS_AddElement, FS_RemoveElement, Zenon
<1>3. IsFiniteSet(Attached(a)') /\ busy'[a] = Cardinality(Attached(a)')
  BY <1>1, <1>2
<1>4. LoadsCovered'
  BY <1>3 DEF LoadsCovered
<1>5. \A c \in Agents \ {a} : LastAttached(c)' = LastAttached(c)
  BY DEF LastAttached, LocalOnly
<1>6. ASSUME AgentMax[a] > 0 PROVE Cardinality(LastAttached(a)') <= AgentMax[a]
  <2>1. IsFiniteSet(LastAttached(a)) /\ Cardinality(LastAttached(a)) <= Cardinality(Attached(a))
    BY <1>1, FS_Subset DEF LastAttached
  <2>2. Cardinality(LastAttached(a)) <= AgentMax[a] /\ Cardinality(LastAttached(a)) \in Nat /\ AgentMax[a] \in Nat
    BY <1>1, <1>6, <2>1, FS_CardinalityType, MeshAssumption DEF RowCeiling
  <2>3. CASE d = 1 /\ LocalOnly(v)
    <3>1. LastAttached(a)' = LastAttached(a) \cup {v} /\ v \notin LastAttached(a)
      BY <2>3 DEF LastAttached, LocalOnly
    <3>2. Cardinality(LastAttached(a)') = Cardinality(LastAttached(a)) + 1
      BY <2>1, <3>1, FS_AddElement, Zenon
    <3>3. busy[a] < AgentMax[a]
      BY <1>1, <1>6, <2>2, <2>3 DEF Saturated
    <3> QED BY <1>1, <2>1, <2>2, <3>2, <3>3
  <2>4. CASE ~(d = 1 /\ LocalOnly(v))
    <3>1. LastAttached(a)' \subseteq LastAttached(a)
      BY <2>4 DEF LastAttached, LocalOnly
    <3>2. IsFiniteSet(LastAttached(a)') /\ Cardinality(LastAttached(a)') <= Cardinality(LastAttached(a))
      BY <2>1, <3>1, FS_Subset, Zenon
    <3>3. Cardinality(LastAttached(a)') \in Nat
      BY <3>2, FS_CardinalityType
    <3> QED BY <2>2, <3>2, <3>3
  <2> QED BY <2>3, <2>4
<1> HIDE DEF a
<1>7. RowCeiling'
  BY <1>5, <1>6 DEF RowCeiling
<1> QED BY <1>4, <1>7

\* One call more or less on the row of a peer.
LEMMA PeerLoads ==
    ASSUME MeshInv, NEW v \in Visits, NEW b \in Agents, story' = story, busy' = busy,
           NEW S, S = WaitingFor(At(v), b),
           \/ v \notin S /\ WaitingFor(At(v), b)' = S \cup {v} /\ hops'[At(v)][b] = hops[At(v)][b] + 1
           \/ v \in S /\ WaitingFor(At(v), b)' = S \ {v} /\ hops'[At(v)][b] = Dec(hops[At(v)][b]),
           \A a \in Agents : /\ Attached(a)' = Attached(a)
                             /\ \A c \in Agents : <<a, c>> # <<At(v), b>>
                                    => WaitingFor(a, c)' = WaitingFor(a, c) /\ hops'[a][c] = hops[a][c]
    PROVE  LoadsCovered' /\ RowCeiling'
<1> USE DEF MeshInv
<1>1. /\ At(v) \in Agents /\ IsFiniteSet(S) /\ hops[At(v)][b] <= Cardinality(S)
      /\ hops[At(v)][b] \in Nat
  BY VisitShape DEF LoadsCovered, MeshTypes
<1>2. /\ IsFiniteSet(S \cup {v}) /\ IsFiniteSet(S \ {v})
      /\ v \notin S => Cardinality(S \cup {v}) = Cardinality(S) + 1
      /\ v \in S => Cardinality(S \ {v}) = Cardinality(S) - 1
  BY <1>1, FS_AddElement, FS_RemoveElement, Zenon
<1>3. Cardinality(S) \in Nat /\ Cardinality(S \ {v}) \in Nat
  BY <1>1, <1>2, FS_CardinalityType
<1>4. /\ IsFiniteSet(WaitingFor(At(v), b)')
      /\ hops'[At(v)][b] <= Cardinality(WaitingFor(At(v), b)')
  <2>1. CASE v \notin S /\ WaitingFor(At(v), b)' = S \cup {v} /\ hops'[At(v)][b] = hops[At(v)][b] + 1
    BY <1>1, <1>2, <1>3, <2>1
  <2>2. CASE v \in S /\ WaitingFor(At(v), b)' = S \ {v} /\ hops'[At(v)][b] = Dec(hops[At(v)][b])
    <3>1. Dec(hops[At(v)][b]) <= Cardinality(S \ {v})
      BY <1>1, <1>2, <1>3, <2>2 DEF Dec
    <3> QED BY <1>2, <2>2, <3>1
  <2> QED BY <2>1, <2>2
<1>5. ASSUME NEW a \in Agents, NEW c \in Agents
      PROVE  IsFiniteSet(WaitingFor(a, c)') /\ hops'[a][c] <= Cardinality(WaitingFor(a, c)')
  <2>1. CASE a = At(v) /\ c = b
    BY <1>4, <2>1
  <2>2. CASE ~(a = At(v) /\ c = b)
    <3>1. WaitingFor(a, c)' = WaitingFor(a, c) /\ hops'[a][c] = hops[a][c]
      BY <2>2
    <3> QED BY <3>1 DEF LoadsCovered
  <2> QED BY <2>1, <2>2
<1>6. ASSUME NEW a \in Agents PROVE IsFiniteSet(Attached(a)') /\ busy'[a] = Cardinality(Attached(a)')
  BY DEF LoadsCovered
<1>7. LoadsCovered'
  BY <1>5, <1>6 DEF LoadsCovered
<1>8. ASSUME NEW a \in Agents PROVE LastAttached(a)' = LastAttached(a)
  BY DEF LastAttached, LocalOnly
<1>9. RowCeiling'
  BY <1>8 DEF RowCeiling
<1> QED BY <1>7, <1>9

\* A refresh keeps the local row with its calls, or drops both; where no
\* provider misses a scan it keeps them.
LEMMA RefreshRows ==
    ASSUME MeshInv, NEW a \in Agents, NEW heard, NEW told, RefreshPool(a, heard, told),
           story' = story, on' = on,
           \A v \in Visits : pc'[v] = pc[v] \/ {pc[v], pc'[v]} \cap {"serve", "wait"} = {}
    PROVE  LocalRows' /\ LoadsCovered' /\ RowCeiling'
<1> USE DEF MeshInv
<1>1. PICK found \in SUBSET ({a} \cap story.hosts) : ScanLocal(a, found)
  BY DEF RefreshPool
<1>2. \A b, c \in Agents : hops'[b][c] \in {0, hops[b][c]}
  BY DEF RefreshPool, MeshTypes
<1>3. \A b \in Agents : \A c \in Agents : WaitingFor(b, c)' = WaitingFor(b, c)
  BY DEF WaitingFor
<1>4. \A v \in Visits : att'[v] = (att[v] /\ (At(v) = a => on[v] \in localRow \cap found))
  BY <1>1 DEF ScanLocal
<1>5. ASSUME NEW b \in Agents
      PROVE  \/ Attached(b)' = Attached(b) /\ busy'[b] = busy[b]
             \/ Attached(b)' = {} /\ busy'[b] = 0
  <2>1. \A v \in Visits : pc'[v] = "serve" <=> pc[v] = "serve"
    OBVIOUS
  <2>2. \A v \in Visits : pc[v] = "serve" => on[v] = At(v)
    BY DEF RowOfVisit
  <2>3. CASE b # a
    <3>1. \A v \in Visits : At(v) = b => (OnRow(v)' <=> OnRow(v))
      BY <1>4, <2>1, <2>3, Zenon DEF OnRow
    <3>2. busy'[b] = busy[b]
      BY <1>1, <2>3 DEF ScanLocal, MeshTypes
    <3> QED BY <3>1, <3>2 DEF Attached
  <2>4. CASE b = a /\ a \in localRow \cap found
    <3>1. \A v \in Visits : At(v) = b => (OnRow(v)' <=> OnRow(v))
      BY <1>4, <2>1, <2>2, <2>4, Zenon DEF OnRow
    <3>2. busy'[b] = busy[b]
      BY <1>1, <2>4 DEF ScanLocal, MeshTypes
    <3> QED BY <3>1, <3>2 DEF Attached
  <2>5. CASE b = a /\ a \notin localRow \cap found
    <3>1. \A v \in Visits : At(v) = b => ~OnRow(v)'
      BY <1>4, <2>1, <2>2, <2>5, Zenon DEF OnRow
    <3>2. busy'[b] = 0
      BY <1>1, <2>5 DEF ScanLocal, MeshTypes
    <3> QED BY <3>1, <3>2 DEF Attached
  <2> QED BY <2>3, <2>4, <2>5
<1>6. LoadsCovered' /\ RowCeiling'
  BY <1>2, <1>3, <1>5, LoadsShrink
<1>7. LocalRows'
  <2>1. localRow' \subseteq story'.hosts
    BY <1>1 DEF ScanLocal, LocalRows
  <2>2. ASSUME NEW v \in Visits, att'[v] PROVE pc'[v] \in {"serve", "wait"}
    BY <1>4, <2>2 DEF LocalRows
  <2>3. ASSUME NEW v \in Visits, pc'[v] = "serve", att'[v] PROVE At(v) \in localRow'
    <3>1. pc[v] = "serve" /\ att[v] /\ on[v] = At(v) /\ At(v) \in localRow
      BY <1>4, <2>3 DEF LocalRows, RowOfVisit
    <3> QED BY <1>1, <1>4, <2>3, <3>1 DEF ScanLocal
  <2>4. ASSUME NEW v \in Visits, pc'[v] = "serve", story.misses = 0 PROVE att'[v]
    <3>1. pc[v] = "serve" /\ att[v] /\ on[v] = At(v) /\ At(v) \in localRow
      BY <2>4 DEF LocalRows, RowOfVisit
    <3>2. a \notin story.hosts \ found
      BY <1>1, <2>4 DEF ScanLocal, MeshTypes
    <3> QED BY <1>4, <3>1, <3>2 DEF LocalRows
  <2> QED BY <2>1, <2>2, <2>3, <2>4 DEF LocalRows
<1> QED BY <1>6, <1>7

LEMMA StepPeers == MeshInv /\ [Next]_vars => NotOwnPeer'
<1> SUFFICES ASSUME MeshInv, [Next]_vars PROVE NotOwnPeer'
  OBVIOUS
<1> USE DEF MeshInv
<1>0. ASSUME UNCHANGED <<registry, pool>> PROVE NotOwnPeer'
  BY <1>0 DEF NotOwnPeer
<1>1. ASSUME NEW v \in Visits, Start(v) PROVE NotOwnPeer'
  BY <1>1, VisitShape DEF Start, RefreshPool, NotOwnPeer, MeshTypes
<1>2. ASSUME NEW a \in Agents, NEW b \in Agents, Beat(a, b) PROVE NotOwnPeer'
  <2>1. \A c \in Agents : c \notin registry'[c]
    BY <1>2 DEF Beat, NotOwnPeer, MeshTypes
  <2>2. pool' = [pool EXCEPT ![a] = registry'[a]]
    BY <1>2 DEF Beat, RefreshPool
  <2> QED BY <2>1, <2>2 DEF NotOwnPeer, MeshTypes
<1>3. ASSUME NEW a \in Agents, NEW b \in Agents, Lose(a, b) PROVE NotOwnPeer'
  BY <1>3 DEF Lose, NotOwnPeer, MeshTypes
<1>4. ASSUME NEW a \in Agents, Crash(a) PROVE NotOwnPeer'
  BY <1>4 DEF Crash, NotOwnPeer, MeshTypes
<1>5. ASSUME NEW v \in Visits, Step(v), ~Start(v) PROVE UNCHANGED <<registry, pool>>
  BY <1>5, Zenon DEF Step, Serve, Refuse, Forward, Exhaust, Answer, Fail, peering
<1> QED
  BY <1>0, <1>1, <1>2, <1>3, <1>4, <1>5, Zenon DEF Next, Submit, Restart, peering, vars

LEMMA StepRows == MeshInv /\ [Next]_vars => LocalRows'
<1> SUFFICES ASSUME MeshInv, [Next]_vars PROVE LocalRows'
  OBVIOUS
<1> USE DEF MeshInv
<1>0. ASSUME UNCHANGED <<story, pc, att, localRow>> PROVE LocalRows'
  BY <1>0 DEF LocalRows
<1>1. ASSUME NEW r \in Requests, Submit(r) PROVE LocalRows'
  BY <1>1 DEF Submit, loads, LocalRows, MeshTypes
<1>2. ASSUME NEW v \in Visits, Step(v) PROVE LocalRows'
  <2>1. CASE Start(v)
    <3>1. \A w \in Visits : pc'[w] = pc[w] \/ {pc[w], pc'[w]} \cap {"serve", "wait"} = {}
      BY <2>1 DEF Start, MeshTypes
    <3> QED BY <2>1, <3>1, RefreshRows, VisitShape DEF Start
  <2>2. CASE Serve(v)
    <3>1. At(v) \in Candidates(v) /\ At(v) \notin pool[At(v)]
      BY <2>2, VisitShape DEF Serve, NotOwnPeer
    <3>2. At(v) \in localRow
      BY <3>1 DEF Candidates
    <3> QED BY <2>2, <3>2 DEF Serve, LocalRows, MeshTypes
  <2>3. CASE Refuse(v) \/ Exhaust(v)
    BY <2>3 DEF Refuse, Exhaust, End, loads, LocalRows, MeshTypes
  <2>4. CASE Forward(v)
    <3>1. PICK b \in Agents : LET w == <<Request(v), Append(v[2], b)>> IN
             /\ b # At(v) /\ on[v] = NoAgent /\ pc[v] = "walk"
             /\ b \notin tried[v] /\ w # v
             /\ w \in Visits => pc[w] = "none"
             /\ Request(v) \notin story.sharded => Hop(w) <= Reaches(Request(v))
             /\ hops' = [hops EXCEPT ![At(v)][b] = @ + 1]
             /\ on' = [on EXCEPT ![v] = b]
             /\ pc' = [pc EXCEPT ![v] = "wait", ![w] = IF b \in up THEN "sent" ELSE "lost"]
      BY <2>4, ForwardStarts
    <3> DEFINE w == <<Request(v), Append(v[2], b)>>
    <3>2. /\ pc'[v] = "wait" /\ att' = [att EXCEPT ![v] = TRUE]
          /\ UNCHANGED <<story, localRow>>
      BY <2>4, <3>1 DEF Forward, MeshTypes
    <3>3. \A x \in Visits \ {v, w} : pc'[x] = pc[x]
      BY <3>1 DEF MeshTypes
    <3>4. w \in Visits => pc[w] = "none" /\ pc'[w] \in {"sent", "lost"}
      BY <3>1 DEF MeshTypes
    <3> HIDE DEF w
    <3> QED BY <3>2, <3>3, <3>4 DEF LocalRows, MeshTypes
  <2>5. CASE Answer(v)
    BY <2>5 DEF Answer, End, LocalRows, MeshTypes
  <2>6. CASE Fail(v)
    BY <2>6 DEF Fail, LocalRows, MeshTypes
  <2> QED BY <1>2, <2>1, <2>2, <2>3, <2>4, <2>5, <2>6 DEF Step
<1>3. ASSUME NEW a \in Agents, NEW b \in Agents, Beat(a, b) PROVE LocalRows'
  <2> DEFINE heard == registry'[a]
             told == report'[a]
  <2>1. RefreshPool(a, heard, told) /\ UNCHANGED <<story, pc, on>>
    BY <1>3 DEF Beat
  <2> HIDE DEF heard, told
  <2> QED BY <2>1, RefreshRows
<1>4. ASSUME NEW a \in Agents, Crash(a) PROVE LocalRows'
  BY <1>4 DEF Crash, LocalRows, MeshTypes, Open
<1> QED
  BY <1>0, <1>1, <1>2, <1>3, <1>4, Zenon DEF Next, Lose, Restart, walk, loads, vars

LEMMA StepLoads == MeshInv /\ [Next]_vars => LoadsCovered' /\ RowCeiling'
<1> SUFFICES ASSUME MeshInv, [Next]_vars PROVE LoadsCovered' /\ RowCeiling'
  OBVIOUS
<1> USE DEF MeshInv
<1>0. ASSUME UNCHANGED <<story, pc, on, att, busy, hops>> PROVE LoadsCovered' /\ RowCeiling'
  <2>1. \A a \in Agents : /\ Attached(a)' = Attached(a) /\ busy'[a] = busy[a]
                          /\ \A b \in Agents : /\ WaitingFor(a, b)' = WaitingFor(a, b)
                                               /\ hops'[a][b] \in {0, hops[a][b]}
    <3>1. \A v \in Visits : OnRow(v)' <=> OnRow(v)
      BY <1>0, Zenon DEF OnRow
    <3> QED BY <1>0, <3>1 DEF Attached, WaitingFor
  <2> QED BY <1>0, <2>1, LoadsShrink
\* A visit goes on without a row.
<1>1. ASSUME story' = story, busy' = busy,
             \A v \in Visits : pc'[v] = pc[v] \/ {pc[v], pc'[v]} \cap {"serve", "wait"} = {},
             \A v \in Visits : pc[v] = "wait" => on'[v] = on[v],
             \A v \in Visits : pc[v] = "serve" => att'[v] = att[v],
             \A a \in Agents : \A b \in Agents : hops'[a][b] \in {0, hops[a][b]}
      PROVE  LoadsCovered' /\ RowCeiling'
  <2>1. \A v \in Visits : OnRow(v)' <=> OnRow(v)
    <3>1. \A v \in Visits : pc'[v] = "serve" <=> pc[v] = "serve"
      BY <1>1
    <3> QED BY <1>1, <3>1, Zenon DEF OnRow
  <2>2. \A a \in Agents : /\ Attached(a)' = Attached(a) /\ busy'[a] = busy[a]
                          /\ \A b \in Agents : WaitingFor(a, b)' = WaitingFor(a, b)
    <3>1. /\ \A v \in Visits : pc'[v] = "wait" <=> pc[v] = "wait"
          /\ \A v \in Visits : pc[v] = "wait" => on'[v] = on[v]
          /\ busy' = busy
      BY <1>1
    <3> QED BY <2>1, <3>1 DEF Attached, WaitingFor
  <2> QED BY <1>1, <2>2, LoadsShrink
<1>2. ASSUME NEW r \in Requests, Submit(r) PROVE LoadsCovered' /\ RowCeiling'
  BY <1>1, <1>2 DEF Submit, loads, MeshTypes
<1>4. ASSUME NEW v \in Visits, Start(v) PROVE LoadsCovered' /\ RowCeiling'
  <2>1. \A w \in Visits : pc'[w] = pc[w] \/ {pc[w], pc'[w]} \cap {"serve", "wait"} = {}
    BY <1>4 DEF Start, MeshTypes
  <2> QED BY <1>4, <2>1, RefreshRows, VisitShape DEF Start
<1>5. ASSUME NEW a \in Agents, NEW b \in Agents, Beat(a, b) PROVE LoadsCovered' /\ RowCeiling'
  <2> DEFINE heard == registry'[a]
             told == report'[a]
  <2>1. RefreshPool(a, heard, told) /\ UNCHANGED <<story, pc, on>>
    BY <1>5 DEF Beat
  <2> HIDE DEF heard, told
  <2> QED BY <2>1, RefreshRows
<1>6. ASSUME NEW v \in Visits, Refuse(v) \/ Exhaust(v) PROVE LoadsCovered' /\ RowCeiling'
  BY <1>1, <1>6 DEF Refuse, Exhaust, End, loads, MeshTypes
<1>7. ASSUME NEW v \in Visits, Serve(v) PROVE LoadsCovered' /\ RowCeiling'
  <2>1. /\ v \notin Attached(At(v)) /\ Attached(At(v))' = Attached(At(v)) \cup {v}
        /\ busy'[At(v)] = busy[At(v)] + 1
        /\ \A a \in Agents : /\ a # At(v) => Attached(a)' = Attached(a) /\ busy'[a] = busy[a]
                             /\ \A b \in Agents : WaitingFor(a, b)' = WaitingFor(a, b)
    <3>1. /\ pc[v] = "walk" /\ pc' = [pc EXCEPT ![v] = "serve"] /\ on' = [on EXCEPT ![v] = At(v)]
          /\ busy' = [busy EXCEPT ![At(v)] = @ + 1] /\ att' = [att EXCEPT ![v] = TRUE]
      BY <1>7 DEF Serve
    <3>2. ~OnRow(v) /\ \A w \in Visits : OnRow(w)' <=> w = v \/ OnRow(w)
      <4>1. /\ pc'[v] = "serve" /\ att'[v] = TRUE
            /\ \A w \in Visits \ {v} : pc'[w] = pc[w] /\ att'[w] = att[w]
        BY <3>1 DEF MeshTypes
      <4>2. pc[v] # "serve"
        BY <3>1
      <4> QED BY <4>1, <4>2, Zenon DEF OnRow
    <3> QED BY <3>1, <3>2, VisitShape DEF Attached, WaitingFor, MeshTypes
  <2> QED BY <1>7, <2>1, OwnLoads DEF Serve
<1>8. ASSUME NEW v \in Visits, Forward(v) PROVE LoadsCovered' /\ RowCeiling'
  <2>1. PICK b \in Agents : LET w == <<Request(v), Append(v[2], b)>> IN
             /\ b # At(v) /\ on[v] = NoAgent /\ pc[v] = "walk"
             /\ b \notin tried[v] /\ w # v
             /\ w \in Visits => pc[w] = "none"
             /\ Request(v) \notin story.sharded => Hop(w) <= Reaches(Request(v))
             /\ hops' = [hops EXCEPT ![At(v)][b] = @ + 1]
             /\ on' = [on EXCEPT ![v] = b]
             /\ pc' = [pc EXCEPT ![v] = "wait", ![w] = IF b \in up THEN "sent" ELSE "lost"]
    BY <1>8, ForwardStarts
  <2>2. /\ pc[v] = "walk" /\ pc'[v] = "wait" /\ on'[v] = b
        /\ \A x \in Visits \ {v} : /\ pc'[x] = pc[x] \/ {pc[x], pc'[x]} \cap {"serve", "wait"} = {}
                                   /\ on'[x] = on[x]
    BY <2>1 DEF MeshTypes
  <2>3. At(v) \in Agents
    BY VisitShape
  <2>4. /\ v \notin WaitingFor(At(v), b) /\ WaitingFor(At(v), b)' = WaitingFor(At(v), b) \cup {v}
        /\ \A a \in Agents : /\ Attached(a)' = Attached(a)
                             /\ \A c \in Agents : <<a, c>> # <<At(v), b>> => WaitingFor(a, c)' = WaitingFor(a, c)
    <3>1. \A x \in Visits : pc'[x] = "serve" <=> pc[x] = "serve"
      BY <2>2
    <3>2. \A x \in Visits : pc[x] = "serve" => att'[x] = att[x]
      BY <1>8, <2>2 DEF Forward, MeshTypes
    <3>3. \A x \in Visits : OnRow(x)' <=> OnRow(x)
      BY <3>1, <3>2, Zenon DEF OnRow
    <3> QED BY <2>2, <2>3, <3>3 DEF Attached, WaitingFor
  <2>5. /\ hops'[At(v)][b] = hops[At(v)][b] + 1
        /\ \A a \in Agents : \A c \in Agents : <<a, c>> # <<At(v), b>> => hops'[a][c] = hops[a][c]
    BY <2>1, <2>3 DEF MeshTypes
  <2> QED BY <1>8, <2>4, <2>5, PeerLoads DEF Forward
<1>9. ASSUME NEW v \in Visits, Answer(v) \/ Fail(v) PROVE LoadsCovered' /\ RowCeiling'
  <2>1. /\ At(v) \in Agents /\ on[v] \in Agents /\ Release(v) /\ story' = story
        /\ pc[v] \in {"serve", "wait"} /\ pc'[v] \notin {"serve", "wait"}
        /\ on[v] = At(v) <=> pc[v] = "serve"
        /\ \A x \in Visits \ {v} : pc'[x] = pc[x] /\ on'[x] = on[x]
    BY <1>9, VisitShape DEF Answer, Fail, End, MeshTypes, RowOfVisit
  <2>4. ~OnRow(v)' /\ \A x \in Visits \ {v} : OnRow(x)' <=> OnRow(x)
    <3>1. \A x \in Visits \ {v} : att'[x] = att[x]
      BY <1>9 DEF Answer, Fail, End, MeshTypes
    <3>2. pc'[v] # "serve"
      BY <2>1
    <3> QED BY <2>1, <3>1, <3>2, Zenon DEF OnRow
  <2>5. CASE pc[v] = "serve" /\ ~OnRow(v)
    <3>1. busy' = busy /\ hops' = hops
      <4>1. ~att[v]
        BY <2>5, Zenon DEF OnRow
      <4> QED BY <2>1, <2>5, <4>1, Zenon DEF Release
    <3>2. \A a \in Agents : /\ Attached(a)' = Attached(a)
                            /\ \A b \in Agents : WaitingFor(a, b)' = WaitingFor(a, b)
      BY <2>1, <2>4, <2>5 DEF Attached, WaitingFor
    <3> QED BY <2>1, <3>1, <3>2, LoadsShrink
  <2>2. CASE pc[v] = "serve" /\ OnRow(v)
    <3>1. /\ v \in Attached(At(v)) /\ Attached(At(v))' = Attached(At(v)) \ {v}
          /\ \A a \in Agents : /\ a # At(v) => Attached(a)' = Attached(a)
                               /\ \A b \in Agents : WaitingFor(a, b)' = WaitingFor(a, b)
      BY <2>1, <2>2, <2>4 DEF Attached, WaitingFor
    <3>2. hops' = hops /\ \A a \in Agents : busy'[a] = IF a = At(v) THEN Dec(busy[a]) ELSE busy[a]
      <4>1. att[v]
        BY <2>2, Zenon DEF OnRow
      <4>2. hops' = hops /\ busy' = [busy EXCEPT ![At(v)] = Dec(@)]
        BY <2>1, <2>2, <4>1, Zenon DEF Release
      <4> QED BY <4>2 DEF MeshTypes
    <3>3. busy[At(v)] > 0 /\ busy[At(v)] \in Nat
      <4>1. IsFiniteSet(Attached(At(v))) /\ busy[At(v)] = Cardinality(Attached(At(v)))
        BY <2>1 DEF LoadsCovered
      <4>2. Cardinality(Attached(At(v))) # 0 /\ Cardinality(Attached(At(v))) \in Nat
        BY <3>1, <4>1, FS_EmptySet, FS_CardinalityType
      <4> QED BY <4>1, <4>2
    <3>4. busy'[At(v)] = busy[At(v)] + (-1)
      BY <2>1, <3>2, <3>3 DEF Dec
    <3> QED BY <2>1, <3>1, <3>2, <3>4, OwnLoads
  <2>3. CASE pc[v] = "wait"
    <3>1. PICK b \in Agents : b = on[v]
      BY <2>1
    <3>2. /\ v \in WaitingFor(At(v), b) /\ WaitingFor(At(v), b)' = WaitingFor(At(v), b) \ {v}
          /\ \A a \in Agents : /\ Attached(a)' = Attached(a)
                               /\ \A c \in Agents : <<a, c>> # <<At(v), b>>
                                                      => WaitingFor(a, c)' = WaitingFor(a, c)
      <4>1. ~OnRow(v)
        BY <2>3, Zenon DEF OnRow
      <4> QED BY <2>1, <2>3, <2>4, <3>1, <4>1 DEF Attached, WaitingFor
    <3>3. /\ busy' = busy /\ hops'[At(v)][b] = Dec(hops[At(v)][b])
          /\ \A a \in Agents : \A c \in Agents : <<a, c>> # <<At(v), b>> => hops'[a][c] = hops[a][c]
      <4>1. busy' = busy /\ hops' = [hops EXCEPT ![At(v)][b] = Dec(@)]
        BY <2>1, <2>3, <3>1 DEF Release
      <4> QED BY <2>1, <3>1, <4>1 DEF MeshTypes
    <3> QED BY <2>1, <3>2, <3>3, PeerLoads
  <2> QED BY <2>1, <2>2, <2>3, <2>5
<1>10. ASSUME NEW a \in Agents, Crash(a) PROVE LoadsCovered' /\ RowCeiling'
  <2>8. \A v \in Visits : /\ At(v) = a => ~OnRow(v)'
                          /\ At(v) # a => (OnRow(v)' <=> OnRow(v))
    <3>1. \A v \in Visits : /\ att'[v] = (At(v) # a /\ att[v])
                            /\ At(v) # a => pc'[v] = pc[v]
      BY <1>10 DEF Crash
    <3> QED BY <3>1, Zenon DEF OnRow
  <2>1. /\ Attached(a)' = {} /\ busy'[a] = 0
        /\ \A b \in Agents : WaitingFor(a, b)' = {} /\ hops'[a][b] = 0
    BY <1>10, <2>8 DEF Crash, Attached, WaitingFor, Open, MeshTypes
  <2>2. \A c \in Agents \ {a} : /\ Attached(c)' = Attached(c) /\ busy'[c] = busy[c]
                                /\ \A b \in Agents : WaitingFor(c, b)' = WaitingFor(c, b) /\ hops'[c][b] = hops[c][b]
    BY <1>10, <2>8 DEF Crash, Attached, WaitingFor, MeshTypes
  <2>3. IsFiniteSet({}) /\ Cardinality({}) = 0
    BY FS_EmptySet
  <2>4. ASSUME NEW c \in Agents, NEW b \in Agents
        PROVE  /\ IsFiniteSet(Attached(c)') /\ busy'[c] = Cardinality(Attached(c)')
               /\ IsFiniteSet(WaitingFor(c, b)') /\ hops'[c][b] <= Cardinality(WaitingFor(c, b)')
    <3>1. CASE c = a
      BY <2>1, <2>3, <3>1
    <3>2. CASE c # a
      BY <2>2, <3>2 DEF LoadsCovered
    <3> QED BY <3>1, <3>2
  <2>5. LoadsCovered'
    BY <2>4 DEF LoadsCovered
  <2>6. ASSUME NEW c \in Agents PROVE LastAttached(c)' = IF c = a THEN {} ELSE LastAttached(c)
    BY <1>10, <2>1, <2>2 DEF LastAttached, LocalOnly, Crash
  <2>7. RowCeiling'
    <3> SUFFICES ASSUME NEW c \in Agents, AgentMax[c] > 0 PROVE Cardinality(LastAttached(c)') <= AgentMax[c]
      BY DEF RowCeiling
    <3>1. CASE c = a
      BY <2>3, <2>6, <3>1, MeshAssumption
    <3>2. CASE c # a
      BY <2>6, <3>2 DEF RowCeiling
    <3> QED BY <3>1, <3>2
  <2> QED BY <2>5, <2>7
<1> QED
  BY <1>0, <1>2, <1>4, <1>5, <1>6, <1>7, <1>8, <1>9, <1>10, Zenon
  DEF Next, Step, Lose, Restart, walk, loads, vars

LEMMA MeshStep == MeshInv /\ [Next]_vars => MeshInv'
BY StepTypes, StepVisits, StepPeers, StepRows, StepLoads DEF MeshInv

LEMMA MeshAlways == MeshSpec => []MeshInv
BY MeshStart, MeshStep, PTL DEF MeshSpec

---------------------------------------------------------------------------
(* What the mesh promises *)

\* Forwards end at the peer they were made to, one further if the header of
\* _peer_forward_headers gets lost, for every request whose body names no shard.
THEOREM UnshardedForwards == MeshSpec => []UnshardedTerminate
BY MeshAlways, PTL DEF MeshInv

\* Without batch shards in request bodies every forward ends: the one way past
\* _wants_local_only is the batch-ledger arm.
THEOREM Forwards ==
    ASSUME \A s \in Stories : s.sharded = {}
    PROVE  MeshSpec => []ForwardsTerminate
<1>1. MeshInv => ForwardsTerminate
  BY DEF MeshInv, MeshTypes, UnshardedTerminate, Reaches, ForwardsTerminate
<1> QED BY <1>1, MeshAlways, PTL

\* An agent reports exactly the calls it serves through the row its provider has
\* in the pool, and what it adds to the load of a peer (_own_peer_hops) never
\* exceeds its calls there, through missed scans, prunes, crashes and callers
\* that gave up: no load outlives the calls behind it.
THEOREM Loads == MeshSpec => []LoadsCovered
BY MeshAlways, PTL DEF MeshInv

\* While no provider misses a scan, the forwards that end at an agent never take
\* more than agent.max_concurrency.  The hypothesis is needed: a pruned row
\* (prune_local_rows) takes the count of its calls with it.
THEOREM Ceiling ==
    ASSUME \A s \in Stories : s.misses = 0
    PROVE  MeshSpec => []CeilingHeld
<1>1. MeshInv => CeilingHeld
  <2> SUFFICES ASSUME MeshInv, NEW a \in Agents PROVE LastHops(a) = LastAttached(a)
    BY DEF MeshInv, RowCeiling, CeilingHeld
  <2>1. \A v \in Visits : pc[v] = "serve" <=> OnRow(v)
    BY Zenon DEF MeshInv, MeshTypes, LocalRows, OnRow
  <2> QED BY <2>1 DEF LastHops, LastAttached, Serving, Attached
<1> QED BY <1>1, MeshAlways, PTL

\* A walk never forwards to a peer it called before, so no visit runs twice.
VisitsStartOnce == [][\A v \in Visits : pc'[v] = "sent" => pc[v] \in {"none", "sent"}]_vars

\* No retry, crash or lost answer makes an agent forward a request to the same
\* peer again on the same walk.
THEOREM StartsOnce == MeshSpec => VisitsStartOnce
<1>1. ASSUME MeshInv, [Next]_vars, NEW v \in Visits, pc'[v] = "sent" PROVE pc[v] \in {"none", "sent"}
  <2> USE DEF MeshInv
  <2>1. CASE \E r \in Requests : Submit(r)
    BY <1>1, <2>1 DEF Submit, MeshTypes
  <2>2. ASSUME NEW w \in Visits, Forward(w) PROVE pc[v] \in {"none", "sent"}
    BY <1>1, <2>2, ForwardStarts DEF MeshTypes
  <2>3. ASSUME NEW w \in Visits, Step(w), ~Forward(w) PROVE pc[v] \in {"none", "sent"}
    BY <1>1, <2>3, OthersStay, Zenon
  <2>4. CASE \E a \in Agents : Crash(a)
    BY <1>1, <2>4 DEF Crash
  <2>5. CASE UNCHANGED pc
    BY <1>1, <2>5
  <2> QED BY <1>1, <2>1, <2>2, <2>3, <2>4, <2>5 DEF Next, Beat, Lose, Restart, walk, vars
<1>2. MeshInv /\ [Next]_vars => [\A v \in Visits : pc'[v] = "sent" => pc[v] \in {"none", "sent"}]_vars
  BY <1>1
<1> QED BY <1>2, MeshAlways, PTL DEF MeshSpec, VisitsStartOnce
=============================================================================
