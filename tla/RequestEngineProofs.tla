------------------------- MODULE RequestEngineProofs -------------------------
(***************************************************************************)
(* Proofs about RequestEngine, for any finite set of requests and rows,    *)
(* any caps, any peer addresses: the type invariant, the exactness of the  *)
(* source ledger and the cap it enforces, the exactness of the load        *)
(* counters of local and cloud rows across merges and prunes, that a       *)
(* failed backend is not called again, and the refinement of               *)
(* SourceAdmission.                                                        *)
(***************************************************************************)
EXTENDS RequestEngine, FiniteSetTheorems, WellFoundedInduction, TLAPS

-----------------------------------------------------------------------------
(* Typing *)

LEMMA OwnerType ==
    ASSUME NEW u \in PeerUrls
    PROVE  Owner(u) \in Peers /\ u \in Range(Homes[Owner(u)])
<1>1. \E p \in Peers : u \in Range(Homes[p])
  BY DEF PeerUrls
<1>2. QED
  BY <1>1 DEF Owner

LEMMA HomeType ==
    ASSUME NEW p \in Peers, NEW u \in Range(Homes[p])
    PROVE  u \in PeerUrls
BY DEF PeerUrls

LEMMA SeqNext ==
    ASSUME NEW S, NEW s \in Seq(S), NEW i \in 1..(Len(s) - 1)
    PROVE  s[i + 1] \in S
<1>1. i + 1 \in 1..Len(s)
  OBVIOUS
<1>2. QED
  BY <1>1

LEMMA NextPathType ==
    ASSUME NEW p \in Peers, NEW u
    PROVE  NextPath(p, u) \in PeerUrls \cup {NoUrl}
<1> DEFINE before == {i \in 1..(Len(Homes[p]) - 1) : Homes[p][i] = u}
<1>1. CASE before = {}
  BY <1>1 DEF NextPath
<1>2. CASE before # {}
  <2>1. Homes[p] \in Seq(PeerUrls)
    BY EngineAssumption DEF EngineAssumption
  <2>2. \A i \in before : Homes[p][i + 1] \in PeerUrls
    BY <2>1, SeqNext
  <2>3. NextPath(p, u) = Homes[p][(CHOOSE i \in before : TRUE) + 1]
    BY <1>2 DEF NextPath
  <2>4. (CHOOSE i \in before : TRUE) \in before
    BY <1>2
  <2> HIDE DEF before
  <2>5. QED
    BY <2>2, <2>3, <2>4
<1>3. QED
  BY <1>1, <1>2

\* What a refresh leaves in the pool, whoever asked for it.
LEMMA RefreshType ==
    ASSUME TypeOK, NEW cloud \in SUBSET CloudUrls, RefreshPool(cloud)
    PROVE  /\ rows' \subseteq Urls /\ IsFiniteSet(rows')
           /\ inFlight' \in [Urls -> Nat]
           /\ hops' \in [PeerUrls -> Nat]
           /\ att' \in [Requests -> BOOLEAN]
<1> DEFINE newRows == scan \cup Remote \cup cloud
<1>1. Remote \subseteq PeerUrls
  BY DEF TypeOK, Remote
<1>2. newRows \subseteq Urls
  BY <1>1 DEF TypeOK, Urls
<1>3. IsFiniteSet(newRows)
  BY <1>2, FS_Subset, EngineAssumption DEF EngineAssumption
<1>4. \A u \in PeerUrls : load[Owner(u)] + hops[u] \in Nat
  BY OwnerType DEF TypeOK
<1>5. MergedLoad(newRows) \in [Urls -> Nat]
  BY <1>4 DEF MergedLoad, TypeOK
<1>6. hops' \in [PeerUrls -> Nat]
  BY DEF RefreshPool, TypeOK
<1>7. att' \in [Requests -> BOOLEAN]
  BY DEF RefreshPool, TypeOK
<1>8. QED
  BY <1>2, <1>3, <1>5, <1>6, <1>7 DEF RefreshPool

\* A refresh outside any request leaves the cloud rows or syncs them.
LEMMA OutsideRefresh ==
    ASSUME TypeOK, BackgroundRefresh \/ ListModels
    PROVE  \E cloud \in SUBSET CloudUrls : RefreshPool(cloud)
<1>1. rows \cap CloudUrls \in SUBSET CloudUrls /\ offered \in SUBSET CloudUrls
  BY DEF TypeOK
<1>2. QED
  BY <1>1 DEF BackgroundRefresh, ListModels

LEMMA InitType == Init => TypeOK
<1> SUFFICES ASSUME Init PROVE TypeOK
  OBVIOUS
<1>1. \A p \in Peers : Homes[p][1] \in PeerUrls
  BY EngineAssumption DEF EngineAssumption
<1>2. load \in [Peers -> 0..MaxLoad]
  BY EngineAssumption DEF Init, EngineAssumption
<1>3. active \in [Peers -> PeerUrls]
  BY <1>1 DEF Init
<1>4. /\ tried \in [Requests -> SUBSET Ids]
      /\ barred \in [Requests -> SUBSET CloudUrls]
      /\ tier \in [Requests -> SUBSET CloudUrls]
      /\ kept \in [Requests -> SUBSET CloudUrls]
      /\ phase \in [Requests -> Phases]
  BY DEF Init, Phases
<1>5. /\ src \in [Sources -> Nat] /\ inFlight \in [Urls -> Nat]
      /\ hops \in [PeerUrls -> Nat] /\ left \in [Requests -> Nat]
      /\ att \in [Requests -> BOOLEAN]
      /\ on \in [Requests -> Urls \cup {NoUrl}]
      /\ at \in [Requests -> Urls \cup {NoUrl}]
  BY DEF Init
<1>6. /\ rows \subseteq Urls /\ scan \subseteq LocalUrls /\ known \subseteq Peers
      /\ offered \subseteq CloudUrls
  BY DEF Init
<1>7. \A r \in Requests : ~Chosen(r)
  BY DEF Init, Chosen, Holds
<1>8. QED
  BY <1>2, <1>3, <1>4, <1>5, <1>6, <1>7 DEF TypeOK

\* Counters keep their type through every update of one entry.
LEMMA EntryType ==
    ASSUME NEW S, NEW f \in [S -> Nat], NEW x, NEW v, x \in S => v \in Nat
    PROVE  [f EXCEPT ![x] = v] \in [S -> Nat]
OBVIOUS

LEMMA DecType == ASSUME NEW n \in Nat PROVE Dec(n) \in Nat
BY DEF Dec

LEMMA CountType ==
    ASSUME NEW S, NEW f \in [S -> Nat], NEW x
    PROVE  /\ [f EXCEPT ![x] = @ + 1] \in [S -> Nat]
           /\ [f EXCEPT ![x] = Dec(@)] \in [S -> Nat]
           /\ [f EXCEPT ![x] = Dec(@) + 1] \in [S -> Nat]
<1>1. x \in S => f[x] + 1 \in Nat /\ Dec(f[x]) \in Nat /\ Dec(f[x]) + 1 \in Nat
  BY DecType
<1>2. QED
  BY <1>1, EntryType

\* The pieces the release and the acquire actions share.
LEMMA LedgerType ==
    ASSUME TypeOK, NEW r \in Requests
    PROVE  /\ SourceRelease(SrcOf[r]) => src' \in [Sources -> Nat]
           /\ Acquire(r) => inFlight' \in [Urls -> Nat] /\ hops' \in [PeerUrls -> Nat]
           /\ ReleaseAcquire(r) => inFlight' \in [Urls -> Nat] /\ hops' \in [PeerUrls -> Nat]
           /\ \A u : Release(r, u) => inFlight' \in [Urls -> Nat] /\ hops' \in [PeerUrls -> Nat]
           /\ LetGo(r) => /\ on' \in [Requests -> Urls \cup {NoUrl}]
                          /\ at' \in [Requests -> Urls \cup {NoUrl}]
                          /\ att' \in [Requests -> BOOLEAN]
<1>1. SourceRelease(SrcOf[r]) => src' \in [Sources -> Nat]
  BY CountType DEF SourceRelease, TypeOK
<1>2. ASSUME Acquire(r)
      PROVE  inFlight' \in [Urls -> Nat] /\ hops' \in [PeerUrls -> Nat]
  <2>1. inFlight' = inFlight \/ inFlight' = [inFlight EXCEPT ![on[r]] = @ + 1]
    BY <1>2 DEF Acquire
  <2>2. hops' = hops \/ hops' = [hops EXCEPT ![on[r]] = @ + 1]
    BY <1>2 DEF Acquire
  <2>3. inFlight \in [Urls -> Nat] /\ hops \in [PeerUrls -> Nat]
    BY DEF TypeOK
  <2>4. inFlight' \in [Urls -> Nat]
    BY <2>1, <2>3, CountType
  <2>5. hops' \in [PeerUrls -> Nat]
    BY <2>2, <2>3, CountType
  <2>6. QED
    BY <2>4, <2>5
<1>3. ASSUME ReleaseAcquire(r)
      PROVE  inFlight' \in [Urls -> Nat] /\ hops' \in [PeerUrls -> Nat]
  <2>1. inFlight' = inFlight \/ inFlight' = [inFlight EXCEPT ![on[r]] = Dec(@) + 1]
    BY <1>3 DEF ReleaseAcquire
  <2>2. hops' = [hops EXCEPT ![on[r]] = Dec(@) + 1]
    BY <1>3 DEF ReleaseAcquire
  <2>3. inFlight \in [Urls -> Nat] /\ hops \in [PeerUrls -> Nat]
    BY DEF TypeOK
  <2>4. inFlight' \in [Urls -> Nat]
    BY <2>1, <2>3, CountType
  <2>5. hops' \in [PeerUrls -> Nat]
    BY <2>2, <2>3, CountType
  <2>6. QED
    BY <2>4, <2>5
<1>4. ASSUME NEW u, Release(r, u)
      PROVE  inFlight' \in [Urls -> Nat] /\ hops' \in [PeerUrls -> Nat]
  <2>1. inFlight' = inFlight \/ inFlight' = [inFlight EXCEPT ![u] = Dec(@)]
    BY <1>4 DEF Release
  <2>2. hops' = hops \/ hops' = [hops EXCEPT ![u] = Dec(@)]
    BY <1>4 DEF Release
  <2>3. inFlight \in [Urls -> Nat] /\ hops \in [PeerUrls -> Nat]
    BY DEF TypeOK
  <2>4. inFlight' \in [Urls -> Nat]
    BY <2>1, <2>3, CountType
  <2>5. hops' \in [PeerUrls -> Nat]
    BY <2>2, <2>3, CountType
  <2>6. QED
    BY <2>4, <2>5
<1>5. LetGo(r) => /\ on' \in [Requests -> Urls \cup {NoUrl}]
                  /\ at' \in [Requests -> Urls \cup {NoUrl}]
                  /\ att' \in [Requests -> BOOLEAN]
  BY DEF LetGo, TypeOK
<1>6. QED
  BY <1>1, <1>2, <1>3, <1>4, <1>5

\* A step of one request keeps the types.
LEMMA RequestType ==
    ASSUME TypeOK, NEW r \in Requests
    PROVE  Admit(r) \/ Reject(r) \/ Step(r) \/ Disconnect(r) \/ Abort(r) => TypeOK'
<1> USE LedgerType DEF Phases, Holds, Chosen, LetGo, DropSchedule, Finish
<1>1. ASSUME Admit(r) PROVE TypeOK'
  <2>1. src' \in [Sources -> Nat]
    BY <1>1, CountType DEF Admit, TypeOK
  <2>2. phase' \in [Requests -> Phases]
    BY <1>1 DEF Admit, TypeOK
  <2>3. \A q \in Requests : Chosen(q)' => on'[q] \in Urls
    BY <1>1 DEF Admit, TypeOK
  <2>4. QED
    BY <1>1, <2>1, <2>2, <2>3 DEF Admit, pool, discovery, walk, TypeOK
<1>2. ASSUME Reject(r) PROVE TypeOK'
  BY <1>2 DEF Reject, pool, discovery, walk, TypeOK
<1>3. ASSUME StartWalk(r) PROVE TypeOK'
  <2> DEFINE cloud == IF r \in LocalOnly THEN rows \cap CloudUrls ELSE offered
  <2>1. RefreshPool(cloud) /\ cloud \in SUBSET CloudUrls
    BY <1>3 DEF StartWalk, TypeOK
  <2>2. /\ rows' \subseteq Urls /\ IsFiniteSet(rows')
        /\ inFlight' \in [Urls -> Nat]
        /\ hops' \in [PeerUrls -> Nat]
        /\ att' \in [Requests -> BOOLEAN]
    BY <2>1, RefreshType
  <2>3. \A S : Cardinality(rows' \ S) \in Nat
    BY <2>2, FS_Subset, FS_CardinalityType
  <2>4. left' \in [Requests -> Nat]
    BY <1>3, <2>3 DEF StartWalk, TypeOK
  <2>5. /\ barred' \in [Requests -> SUBSET CloudUrls]
        /\ tier' \in [Requests -> SUBSET CloudUrls]
        /\ kept' \in [Requests -> SUBSET CloudUrls]
    BY <1>3 DEF StartWalk, TypeOK
  <2>6. QED
    BY <1>3, <2>2, <2>4, <2>5 DEF StartWalk, discovery, TypeOK
<1>4. ASSUME Select(r) PROVE TypeOK'
  <2>1. left[r] - 1 \in Nat
    BY <1>4 DEF Select, TypeOK
  <2>2. left' \in [Requests -> Nat]
    BY <1>4, <2>1 DEF Select, TypeOK
  <2>3. QED
    BY <1>4, <2>2 DEF Select, pool, discovery, TypeOK
<1>5. ASSUME SelectNone(r) PROVE TypeOK'
  BY <1>5 DEF SelectNone, pool, discovery, TypeOK
<1>6. ASSUME TakeTier(r) PROVE TypeOK'
  <2>1. PICK u \in tier[r] : /\ tier' = [tier EXCEPT ![r] = @ \ {u}]
                             /\ kept' = [kept EXCEPT ![r] = @ \ {u}]
                             /\ on' = [on EXCEPT ![r] = u]
                             /\ at' = [at EXCEPT ![r] = u]
                             /\ att' = [att EXCEPT ![r] = u \in kept[r]]
    BY <1>6 DEF TakeTier
  <2>2. /\ u \in Urls /\ tier[r] \ {u} \in SUBSET CloudUrls
        /\ kept[r] \ {u} \in SUBSET CloudUrls
        /\ (u \in kept[r]) \in BOOLEAN
    BY <2>1 DEF TypeOK, Urls
  <2>3. QED
    BY <1>6, <2>1, <2>2 DEF TakeTier, pool, discovery, TypeOK
<1>7. ASSUME Exhaust(r) PROVE TypeOK'
  BY <1>7 DEF Exhaust, pool, discovery, walk, TypeOK
<1>8. ASSUME StartAttempt(r) PROVE TypeOK'
  BY <1>8 DEF StartAttempt, discovery, walk, TypeOK
<1>9. ASSUME RefuseAttempt(r) PROVE TypeOK'
  BY <1>9 DEF RefuseAttempt, pool, discovery, walk, TypeOK
<1>10. ASSUME CallSucceeds(r) PROVE TypeOK'
  BY <1>10 DEF CallSucceeds, discovery, walk, TypeOK
<1>11. ASSUME CallRetriesPath(r) PROVE TypeOK'
  <2>1. NextPath(Owner(on[r]), at[r]) \in Urls
    BY <1>11, OwnerType, NextPathType DEF CallRetriesPath, Urls
  <2>2. QED
    BY <1>11, <2>1 DEF CallRetriesPath, discovery, walk, TypeOK
<1>12. ASSUME CallFails(r) PROVE TypeOK'
  <2>1. IdOf(on[r]) \in Ids
    BY <1>12, OwnerType DEF CallFails, TypeOK, IdOf, Ids, Urls
  <2>2. tried' \in [Requests -> SUBSET Ids]
    BY <1>12, <2>1 DEF CallFails, TypeOK
  <2>3. QED
    BY <1>12, <2>2 DEF CallFails, discovery, TypeOK
<1>13. ASSUME StreamOpens(r) PROVE TypeOK'
  BY <1>13 DEF StreamOpens, pool, discovery, walk, TypeOK
<1>14. ASSUME SessionRelease(r) PROVE TypeOK'
  BY <1>14 DEF SessionRelease, discovery, walk, TypeOK
<1>15. ASSUME Disconnect(r) PROVE TypeOK'
  BY <1>15 DEF Disconnect, pool, discovery, walk, TypeOK
<1>16. ASSUME Abort(r) PROVE TypeOK'
  BY <1>16 DEF Abort, discovery, walk, TypeOK
<1>17. QED
  BY <1>1, <1>2, <1>3, <1>4, <1>5, <1>6, <1>7, <1>8, <1>9, <1>10, <1>11, <1>12,
     <1>13, <1>14, <1>15, <1>16 DEF Step, StreamEnds, Finalize

\* So does a step of discovery, or a refresh outside any request.
LEMMA DiscoveryType ==
    ASSUME TypeOK
    PROVE  /\ \A p \in Peers : Heartbeat(p) \/ LosePeer(p) \/ Reroute(p) => TypeOK'
           /\ Rescan \/ Reconfigure => TypeOK'
           /\ BackgroundRefresh \/ ListModels => TypeOK'
<1> USE DEF Holds, Chosen, pool, walk
<1>1. ASSUME NEW p \in Peers, Heartbeat(p) PROVE TypeOK'
  BY <1>1 DEF Heartbeat, TypeOK
<1>2. ASSUME NEW p \in Peers, LosePeer(p) PROVE TypeOK'
  BY <1>2 DEF LosePeer, TypeOK
<1>3. ASSUME NEW p \in Peers, Reroute(p) PROVE TypeOK'
  BY <1>3, HomeType DEF Reroute, TypeOK
<1>4. ASSUME Rescan \/ Reconfigure PROVE TypeOK'
  BY <1>4 DEF Rescan, Reconfigure, TypeOK
<1>5. ASSUME BackgroundRefresh \/ ListModels PROVE TypeOK'
  <2>1. \E cloud \in SUBSET CloudUrls : RefreshPool(cloud)
    BY <1>5, OutsideRefresh
  <2>2. /\ rows' \subseteq Urls
        /\ inFlight' \in [Urls -> Nat]
        /\ hops' \in [PeerUrls -> Nat]
        /\ att' \in [Requests -> BOOLEAN]
    BY <2>1, RefreshType
  <2>3. QED
    BY <1>5, <2>2 DEF BackgroundRefresh, ListModels, discovery, TypeOK
<1>6. QED
  BY <1>1, <1>2, <1>3, <1>4, <1>5

\* Every variable keeps its type, and a request that chose a row has one.
THEOREM TypeCorrect == Spec => []TypeOK
<1>1. ASSUME TypeOK, [Next]_vars PROVE TypeOK'
  <2>1. CASE UNCHANGED vars
    BY <1>1, <2>1 DEF vars, pool, discovery, walk, TypeOK, Chosen, Holds
  <2>2. CASE Next
    BY <1>1, <2>2, RequestType, DiscoveryType DEF Next
  <2>3. QED
    BY <1>1, <2>1, <2>2
<1>2. QED
  BY <1>1, InitType, PTL DEF Spec

-----------------------------------------------------------------------------
(* The source ledger: only entering and ending a request move it. *)

LEMMA LiveFinite == ASSUME NEW s PROVE IsFiniteSet(LiveOf(s))
BY FS_Subset, EngineAssumption DEF LiveOf, EngineAssumption

LEMMA LedgerEnter ==
    ASSUME TypeOK, SourceLedgerExact, NEW r \in Requests, ~Live(r), NEW x \in Phases,
           x \notin {"idle", "rejected", "done"}, phase' = [phase EXCEPT ![r] = x],
           src' = [src EXCEPT ![SrcOf[r]] = @ + 1]
    PROVE  SourceLedgerExact'
<1> SUFFICES ASSUME NEW s \in Sources PROVE src'[s] = Cardinality(LiveOf(s)')
  BY DEF SourceLedgerExact
<1>1. CASE SrcOf[r] = s
  <2>1. LiveOf(s)' = LiveOf(s) \cup {r} /\ r \notin LiveOf(s)
    BY <1>1 DEF LiveOf, Live, TypeOK
  <2>2. Cardinality(LiveOf(s)') = Cardinality(LiveOf(s)) + 1
    BY <2>1, LiveFinite, FS_AddElement
  <2>3. QED
    BY <1>1, <2>2 DEF SourceLedgerExact, TypeOK
<1>2. CASE SrcOf[r] # s
  <2>1. LiveOf(s)' = LiveOf(s)
    BY <1>2 DEF LiveOf, Live, TypeOK
  <2>2. QED
    BY <1>2, <2>1 DEF SourceLedgerExact, TypeOK
<1>3. QED
  BY <1>1, <1>2

LEMMA LedgerLeave ==
    ASSUME TypeOK, SourceLedgerExact, NEW r \in Requests, Live(r),
           phase' = [phase EXCEPT ![r] = "done"], SourceRelease(SrcOf[r])
    PROVE  SourceLedgerExact'
<1> SUFFICES ASSUME NEW s \in Sources PROVE src'[s] = Cardinality(LiveOf(s)')
  BY DEF SourceLedgerExact
<1>1. CASE SrcOf[r] = s
  <2>1. LiveOf(s)' = LiveOf(s) \ {r} /\ r \in LiveOf(s)
    BY <1>1 DEF LiveOf, Live, TypeOK
  <2>2. Cardinality(LiveOf(s)') = Cardinality(LiveOf(s)) - 1
    BY <2>1, LiveFinite, FS_RemoveElement
  <2>3. Cardinality(LiveOf(s)) > 0
    BY <2>1, LiveFinite, FS_EmptySet, FS_CardinalityType
  <2>4. src'[s] = src[s] - 1
    BY <1>1, <2>3 DEF SourceRelease, SourceLedgerExact, TypeOK, Dec
  <2>5. QED
    BY <2>2, <2>4 DEF SourceLedgerExact
<1>2. CASE SrcOf[r] # s
  <2>1. LiveOf(s)' = LiveOf(s)
    BY <1>2 DEF LiveOf, Live, TypeOK
  <2>2. QED
    BY <1>2, <2>1 DEF SourceLedgerExact, SourceRelease, TypeOK
<1>3. QED
  BY <1>1, <1>2

LEMMA LedgerStays ==
    ASSUME SourceLedgerExact, src' = src, \A r \in Requests : Live(r)' <=> Live(r)
    PROVE  SourceLedgerExact'
<1>1. \A s \in Sources : LiveOf(s)' = LiveOf(s)
  BY DEF LiveOf
<1>2. QED
  BY <1>1 DEF SourceLedgerExact

LEMMA RequestLedger ==
    ASSUME TypeOK, SourceLedgerExact, NEW r \in Requests
    PROVE  Admit(r) \/ Reject(r) \/ Step(r) \/ Disconnect(r) \/ Abort(r)
               => SourceLedgerExact'
<1>1. ASSUME Admit(r) PROVE SourceLedgerExact'
  BY <1>1, LedgerEnter DEF Admit, Live, Phases
<1>2. ASSUME Exhaust(r) \/ RefuseAttempt(r) \/ CallSucceeds(r) \/ Abort(r)
             \/ StreamEnds(r) \/ Finalize(r)
      PROVE  SourceLedgerExact'
  BY <1>2, LedgerLeave
     DEF Exhaust, RefuseAttempt, CallSucceeds, Abort, StreamEnds, Finalize,
         SessionRelease, Finish, Live
<1>3. ASSUME Reject(r) \/ StartWalk(r) \/ Select(r) \/ SelectNone(r) \/ TakeTier(r)
             \/ StartAttempt(r) \/ CallRetriesPath(r) \/ CallFails(r)
             \/ StreamOpens(r) \/ Disconnect(r)
      PROVE  SourceLedgerExact'
  <2>1. src' = src
    BY <1>3 DEF Reject, StartWalk, Select, SelectNone, TakeTier, StartAttempt,
                CallRetriesPath, CallFails, StreamOpens, Disconnect
  <2>2. \A q \in Requests : Live(q)' <=> Live(q)
    BY <1>3 DEF Reject, StartWalk, Select, SelectNone, TakeTier, StartAttempt,
                CallRetriesPath, CallFails, StreamOpens, Disconnect, Live, TypeOK
  <2>3. QED
    BY <2>1, <2>2, LedgerStays
<1>4. QED
  BY <1>1, <1>2, <1>3 DEF Step

\* The counter of every source is the number of its requests inside the
\* engine, whatever path each of them leaves by.
THEOREM SourceLedger == Spec => []SourceLedgerExact
<1>1. Init => SourceLedgerExact
  <2> SUFFICES ASSUME Init, NEW s \in Sources PROVE src[s] = Cardinality(LiveOf(s))
    BY DEF SourceLedgerExact
  <2>1. LiveOf(s) = {}
    BY DEF Init, LiveOf, Live
  <2>2. QED
    BY <2>1, FS_EmptySet DEF Init
<1>2. ASSUME TypeOK, SourceLedgerExact, [Next]_vars PROVE SourceLedgerExact'
  <2>1. ASSUME src' = src, phase' = phase PROVE SourceLedgerExact'
    BY <1>2, <2>1, LedgerStays DEF Live
  <2>2. ASSUME NEW p \in Peers, Heartbeat(p) \/ LosePeer(p) \/ Reroute(p)
        PROVE  SourceLedgerExact'
    BY <2>1, <2>2 DEF Heartbeat, LosePeer, Reroute
  <2>3. ASSUME Rescan \/ Reconfigure \/ BackgroundRefresh \/ ListModels PROVE SourceLedgerExact'
    BY <2>1, <2>3 DEF Rescan, Reconfigure, BackgroundRefresh, ListModels
  <2>4. CASE UNCHANGED vars
    BY <2>1, <2>4 DEF vars
  <2>5. QED
    BY <1>2, <2>2, <2>3, <2>4, RequestLedger DEF Next
<1>3. QED
  BY <1>1, <1>2, TypeCorrect, PTL DEF Spec

\* The counter itself stays under the cap: only Admit raises it, and only
\* after finding room.  With the exact ledger this bounds the requests.
CounterCapped == \A s \in Sources : Cap[s] > 0 => src[s] <= Cap[s]

LEMMA CounterStep ==
    ASSUME TypeOK, CounterCapped, [Next]_vars
    PROVE  CounterCapped'
<1>1. CASE src' = src
  BY <1>1 DEF CounterCapped
<1>2. ASSUME NEW r \in Requests, Admit(r) PROVE CounterCapped'
  <2> SUFFICES ASSUME NEW s \in Sources, Cap[s] > 0 PROVE src'[s] <= Cap[s]
    BY DEF CounterCapped
  <2>1. src[s] \in Nat /\ Cap[s] \in Nat /\ src[s] <= Cap[s]
    BY EngineAssumption DEF CounterCapped, TypeOK, EngineAssumption
  <2>2. CASE SrcOf[r] = s
    <3>1. src[s] < Cap[s]
      BY <1>2, <2>1, <2>2 DEF Admit, SourceFull
    <3>2. src'[s] = src[s] + 1
      BY <1>2, <2>2 DEF Admit, TypeOK
    <3>3. QED
      BY <2>1, <3>1, <3>2
  <2>3. CASE SrcOf[r] # s
    BY <1>2, <2>1, <2>3 DEF Admit, TypeOK
  <2>4. QED
    BY <2>2, <2>3
<1>3. ASSUME NEW s \in Sources, SourceRelease(s) PROVE CounterCapped'
  <2>1. \A n \in Nat : Dec(n) <= n
    BY DEF Dec
  <2>2. \A q \in Sources : src'[q] <= src[q] /\ src'[q] \in Nat
    BY <1>3, <2>1, DecType DEF SourceRelease, TypeOK
  <2>3. QED
    BY <2>2, EngineAssumption DEF CounterCapped, TypeOK, EngineAssumption
<1>4. ASSUME NEW r \in Requests, Step(r) \/ Reject(r) \/ Disconnect(r) \/ Abort(r)
      PROVE  src' = src \/ SourceRelease(SrcOf[r])
  BY <1>4 DEF Step, StartWalk, Select, SelectNone, TakeTier, Exhaust, StartAttempt,
              RefuseAttempt, CallSucceeds, CallRetriesPath, CallFails, StreamOpens,
              StreamEnds, Finalize, SessionRelease, Finish, Reject, Disconnect, Abort
<1>5. \A r \in Requests : SrcOf[r] \in Sources
  BY EngineAssumption DEF EngineAssumption
<1>6. ASSUME NEW p \in Peers, Heartbeat(p) \/ LosePeer(p) \/ Reroute(p)
      PROVE  src' = src
  BY <1>6 DEF Heartbeat, LosePeer, Reroute
<1>7. ASSUME Rescan \/ Reconfigure \/ BackgroundRefresh \/ ListModels \/ UNCHANGED vars
      PROVE  src' = src
  BY <1>7 DEF Rescan, Reconfigure, BackgroundRefresh, ListModels, vars
<1>8. QED
  BY <1>1, <1>2, <1>3, <1>4, <1>5, <1>6, <1>7 DEF Next

\* No interleaving admits more requests of a source than its cap.
THEOREM SourceCap == Spec => []SourceCapHeld
<1>1. Init => CounterCapped
  BY EngineAssumption DEF Init, CounterCapped, EngineAssumption
<1>2. SourceLedgerExact /\ CounterCapped => SourceCapHeld
  BY DEF SourceLedgerExact, CounterCapped, SourceCapHeld
<1>3. QED
  BY <1>1, <1>2, CounterStep, TypeCorrect, SourceLedger, PTL DEF Spec

-----------------------------------------------------------------------------
(* The load counters of local and cloud rows.  The counter lives in the    *)
(* Backend object; the strengthening says when a request still holds the   *)
(* object that is in the pool, and through which address it is called.     *)

RowInv == Attachment /\ RowLedgerExact

LEMMA AttachedFinite == ASSUME NEW u PROVE IsFiniteSet(AttachedTo(u))
BY FS_Subset, EngineAssumption DEF AttachedTo, HoldersOf, EngineAssumption

LEMMA RefreshAttachment ==
    ASSUME TypeOK, RowInv, NEW cloud \in SUBSET CloudUrls, RefreshPool(cloud),
           on' = on, \A r \in Requests : Holds(r)' <=> Holds(r)
    PROVE  /\ \A r \in Requests : att'[r] => att[r] /\ on'[r] \in rows'
           /\ RowLedgerExact'
<1>1. \A r \in Requests : att'[r] <=> att[r] /\ on[r] \in rows' \ PeerUrls
  BY DEF RefreshPool
<1>2. ASSUME NEW u \in rows' \ PeerUrls
      PROVE  inFlight'[u] = Cardinality(AttachedTo(u)')
  <2>1. AttachedTo(u)' = AttachedTo(u)
    BY <1>1, <1>2 DEF AttachedTo, HoldersOf
  <2>2. u \in Urls
    BY <1>2, RefreshType
  <2>3. inFlight'[u] = IF u \in rows THEN inFlight[u] ELSE 0
    BY <1>2, <2>2 DEF RefreshPool, MergedLoad
  <2>4. CASE u \in rows
    BY <1>2, <2>1, <2>3, <2>4 DEF RowInv, RowLedgerExact
  <2>5. CASE u \notin rows
    <3>1. AttachedTo(u) = {}
      BY <2>5 DEF RowInv, Attachment, AttachedTo, HoldersOf
    <3>2. QED
      BY <2>1, <2>3, <2>5, <3>1, FS_EmptySet
  <2>6. QED
    BY <2>4, <2>5
<1>3. QED
  BY <1>1, <1>2 DEF RowLedgerExact

\* Steps that neither call nor let go of a row.
LEMMA RowsStay ==
    ASSUME RowLedgerExact, rows' = rows, inFlight' = inFlight,
           \A r \in Requests : (Holds(r) /\ att[r])' <=> (Holds(r) /\ att[r]),
           \A r \in Requests : Holds(r) => on'[r] = on[r]
    PROVE  RowLedgerExact'
<1>1. \A u : AttachedTo(u)' = AttachedTo(u)
  BY DEF AttachedTo, HoldersOf
<1>2. QED
  BY <1>1 DEF RowLedgerExact

LEMMA RowAcquired ==
    ASSUME TypeOK, RowInv, NEW r \in Requests, StartAttempt(r)
    PROVE  RowLedgerExact'
<1> SUFFICES ASSUME NEW u \in rows \ PeerUrls
             PROVE  inFlight'[u] = Cardinality(AttachedTo(u)')
  BY DEF RowLedgerExact, StartAttempt
<1>1. inFlight[u] = Cardinality(AttachedTo(u))
  BY DEF RowInv, RowLedgerExact
<1>2. r \notin AttachedTo(u)
  BY DEF AttachedTo, HoldersOf, Holds, StartAttempt
<1>3. CASE att[r] /\ on[r] = u
  <2>1. AttachedTo(u)' = AttachedTo(u) \cup {r}
    BY <1>3 DEF AttachedTo, HoldersOf, Holds, StartAttempt, TypeOK
  <2>2. inFlight'[u] = inFlight[u] + 1
    BY <1>3 DEF StartAttempt, Acquire, TypeOK
  <2>3. QED
    BY <1>1, <1>2, <2>1, <2>2, AttachedFinite, FS_AddElement
<1>4. CASE ~(att[r] /\ on[r] = u)
  <2>1. AttachedTo(u)' = AttachedTo(u)
    BY <1>4 DEF AttachedTo, HoldersOf, Holds, StartAttempt, TypeOK
  <2>2. inFlight'[u] = inFlight[u]
    BY <1>4 DEF StartAttempt, Acquire, TypeOK
  <2>3. QED
    BY <1>1, <2>1, <2>2
<1>5. QED
  BY <1>3, <1>4

LEMMA RowReleased ==
    ASSUME TypeOK, RowInv, NEW r \in Requests, Holds(r), rows' = rows, LetGo(r),
           NEW x \in {"walk", "done"}, phase' = [phase EXCEPT ![r] = x],
           Release(r, on[r]) \/ Release(r, at[r])
    PROVE  RowLedgerExact'
<1> SUFFICES ASSUME NEW u \in rows \ PeerUrls
             PROVE  inFlight'[u] = Cardinality(AttachedTo(u)')
  BY DEF RowLedgerExact
<1>1. inFlight[u] = Cardinality(AttachedTo(u)) /\ u \in Urls
  BY DEF RowInv, RowLedgerExact, TypeOK
<1>2. CASE att[r] /\ on[r] = u
  <2>1. AttachedTo(u)' = AttachedTo(u) \ {r} /\ r \in AttachedTo(u)
    BY <1>2 DEF AttachedTo, HoldersOf, Holds, LetGo, TypeOK
  <2>2. Cardinality(AttachedTo(u)) > 0
    BY <2>1, AttachedFinite, FS_EmptySet, FS_CardinalityType
  <2>3. Release(r, u)
    BY <1>2 DEF RowInv, Attachment, Chosen
  <2>4. inFlight'[u] = Dec(inFlight[u])
    BY <1>1, <1>2, <2>3 DEF Release, TypeOK
  <2>5. QED
    BY <1>1, <2>1, <2>2, <2>4, AttachedFinite, FS_RemoveElement, FS_CardinalityType DEF Dec
<1>3. CASE ~(att[r] /\ on[r] = u)
  <2>1. AttachedTo(u)' = AttachedTo(u)
    BY <1>3 DEF AttachedTo, HoldersOf, Holds, LetGo, TypeOK
  <2>2. inFlight'[u] = inFlight[u]
    BY <1>1, <1>3 DEF Release, TypeOK
  <2>3. QED
    BY <1>1, <2>1, <2>2
<1>4. QED
  BY <1>2, <1>3

LEMMA RequestAttachment ==
    ASSUME TypeOK, RowInv, NEW r \in Requests
    PROVE  Admit(r) \/ Reject(r) \/ Step(r) \/ Disconnect(r) \/ Abort(r) => Attachment'
<1> USE DEF RowInv, Attachment, Chosen, Holds, TypeOK
<1>1. ASSUME Admit(r) \/ Reject(r) \/ SelectNone(r) \/ StreamOpens(r)
             \/ Disconnect(r) \/ StartAttempt(r)
      PROVE  Attachment'
  BY <1>1 DEF Admit, Reject, SelectNone, StreamOpens, DropSchedule, Disconnect,
              StartAttempt, pool, walk
<1>2. ASSUME StartWalk(r) PROVE Attachment'
  <2> DEFINE cloud == IF r \in LocalOnly THEN rows \cap CloudUrls ELSE offered
  <2>1. RefreshPool(cloud) /\ cloud \in SUBSET CloudUrls /\ on' = on /\ at' = at
    BY <1>2 DEF StartWalk, TypeOK
  <2>2. \A q \in Requests : Holds(q)' <=> Holds(q)
    BY <1>2 DEF StartWalk, TypeOK
  <2>3. \A q \in Requests : att'[q] => att[q] /\ on'[q] \in rows'
    BY <2>1, <2>2, RefreshAttachment
  <2>4. \A q \in Requests : Chosen(q)' <=> Chosen(q)
    BY <1>2 DEF StartWalk, TypeOK
  <2>5. \A q \in Requests : kept'[q] \subseteq rows'
    BY <1>2 DEF StartWalk, TypeOK
  <2>6. QED
    BY <2>1, <2>3, <2>4, <2>5
<1>3. ASSUME Select(r) PROVE Attachment'
  BY <1>3 DEF Select, pool
<1>4. ASSUME TakeTier(r) PROVE Attachment'
  BY <1>4 DEF TakeTier, pool
<1>5. ASSUME CallRetriesPath(r) PROVE Attachment'
  BY <1>5 DEF CallRetriesPath, walk
<1>6. ASSUME LetGo(r), rows' = rows, \A q \in Requests : kept'[q] \subseteq kept[q],
             NEW x \in {"walk", "done"}, phase' = [phase EXCEPT ![r] = x]
      PROVE  Attachment'
  BY <1>6 DEF LetGo
<1>7. ASSUME Exhaust(r) \/ RefuseAttempt(r) \/ CallSucceeds(r) \/ CallFails(r)
             \/ StreamEnds(r) \/ Finalize(r) \/ Abort(r)
      PROVE  Attachment'
  BY <1>6, <1>7 DEF Exhaust, RefuseAttempt, CallSucceeds, CallFails, StreamEnds, Finalize,
                    SessionRelease, Abort, Finish, DropSchedule, pool
<1>8. QED
  BY <1>1, <1>2, <1>3, <1>4, <1>5, <1>7 DEF Step

LEMMA RequestRows ==
    ASSUME TypeOK, RowInv, NEW r \in Requests
    PROVE  Admit(r) \/ Reject(r) \/ Step(r) \/ Disconnect(r) \/ Abort(r)
               => RowLedgerExact'
<1>1. ASSUME Admit(r) \/ Reject(r) \/ Select(r) \/ SelectNone(r) \/ TakeTier(r)
             \/ Exhaust(r) \/ RefuseAttempt(r) \/ StreamOpens(r) \/ Disconnect(r)
      PROVE  RowLedgerExact'
  BY <1>1, RowsStay
     DEF Admit, Reject, Select, SelectNone, TakeTier, Exhaust, RefuseAttempt, Finish,
         LetGo, StreamOpens, Disconnect, pool, Holds, TypeOK, RowInv
<1>2. ASSUME StartWalk(r) PROVE RowLedgerExact'
  <2> DEFINE cloud == IF r \in LocalOnly THEN rows \cap CloudUrls ELSE offered
  <2>1. RefreshPool(cloud) /\ cloud \in SUBSET CloudUrls /\ on' = on
    BY <1>2 DEF StartWalk, TypeOK
  <2>2. \A q \in Requests : Holds(q)' <=> Holds(q)
    BY <1>2 DEF StartWalk, Holds, TypeOK
  <2>3. QED
    BY <2>1, <2>2, RefreshAttachment
<1>3. ASSUME CallSucceeds(r) \/ CallFails(r) \/ StreamEnds(r) \/ Finalize(r)
      PROVE  RowLedgerExact'
  BY <1>3, RowReleased
     DEF CallSucceeds, CallFails, StreamEnds, Finalize, SessionRelease, Finish, Holds
<1>4. ASSUME Abort(r) PROVE RowLedgerExact'
  <2>1. CASE phase[r] = "call"
    BY <1>4, <2>1, RowReleased DEF Abort, Finish, Holds
  <2>2. CASE phase[r] # "call"
    BY <1>4, <2>2, RowsStay DEF Abort, Finish, LetGo, Holds, TypeOK, RowInv
  <2>3. QED
    BY <2>1, <2>2
<1>5. ASSUME CallRetriesPath(r) PROVE RowLedgerExact'
  <2>1. \A u : AttachedTo(u)' = AttachedTo(u)
    BY <1>5 DEF CallRetriesPath, AttachedTo, HoldersOf, Holds
  <2>2. \A u \in rows \ PeerUrls : inFlight'[u] = inFlight[u]
    BY <1>5 DEF CallRetriesPath, ReleaseAcquire, TypeOK
  <2>3. QED
    BY <1>5, <2>1, <2>2 DEF CallRetriesPath, RowInv, RowLedgerExact
<1>6. QED
  BY <1>1, <1>2, <1>3, <1>4, <1>5, RowAcquired DEF Step

LEMMA RowStep ==
    ASSUME TypeOK, RowInv, [Next]_vars
    PROVE  RowInv'
<1>1. ASSUME phase' = phase, kept' = kept, on' = on, at' = at, att' = att,
             rows' = rows, inFlight' = inFlight
      PROVE  RowInv'
  BY <1>1 DEF RowInv, Attachment, RowLedgerExact, AttachedTo, HoldersOf, Holds, Chosen
<1>2. ASSUME NEW p \in Peers, Heartbeat(p) \/ LosePeer(p) \/ Reroute(p)
      PROVE  RowInv'
  BY <1>1, <1>2 DEF Heartbeat, LosePeer, Reroute, pool, walk
<1>3. ASSUME Rescan \/ Reconfigure \/ UNCHANGED vars PROVE RowInv'
  BY <1>1, <1>3 DEF Rescan, Reconfigure, vars, pool, walk
<1>4. ASSUME BackgroundRefresh \/ ListModels PROVE RowInv'
  <2>1. \E cloud \in SUBSET CloudUrls : RefreshPool(cloud)
    BY <1>4, OutsideRefresh
  <2>2. /\ on' = on /\ at' = at /\ phase' = phase
        /\ \A r \in Requests : kept'[r] \subseteq rows'
    BY <1>4 DEF BackgroundRefresh, ListModels
  <2>3. /\ \A r \in Requests : att'[r] => att[r] /\ on'[r] \in rows'
        /\ RowLedgerExact'
    BY <2>1, <2>2, RefreshAttachment DEF Holds
  <2>4. QED
    BY <2>2, <2>3 DEF RowInv, Attachment, Chosen, Holds, TypeOK
<1>5. QED
  BY <1>2, <1>3, <1>4, RequestAttachment, RequestRows DEF Next, RowInv

LEMMA InitRow == Init => RowInv
BY DEF Init, RowInv, Attachment, RowLedgerExact, Chosen, Holds

\* The load a local or cloud row shows is the number of calls in progress
\* through it, however often the pool was merged, pruned and rebuilt.
THEOREM RowLedger == Spec => []RowLedgerExact
<1>1. RowInv => RowLedgerExact
  BY DEF RowInv
<1>2. QED
  BY <1>1, InitRow, RowStep, TypeCorrect, PTL DEF Spec

\* A request whose Backend object is still in the pool holds a row of the pool
\* and calls its own address, and so will a request whose fallback tier holds
\* such an object: the part of the invariant the row ledger rests on.
LEMMA RowsAttached == Spec => []Attachment
<1>1. RowInv => Attachment
  BY DEF RowInv
<1>2. QED
  BY <1>1, InitRow, RowStep, TypeCorrect, PTL DEF Spec

-----------------------------------------------------------------------------
(* The load counters of peer rows.  A merge replaces these rows, which     *)
(* detaches every request that was called through them; the load it gives  *)
(* the new row is a report of the peer, so the counter is only a bound.    *)

\* Steps that neither call nor let go of a row.
LEMMA PeersStay ==
    ASSUME PeerLoadCovers, rows' = rows, inFlight' = inFlight,
           \A r \in Requests : (Holds(r) /\ att[r])' <=> (Holds(r) /\ att[r]),
           \A r \in Requests : Holds(r) => on'[r] = on[r]
    PROVE  PeerLoadCovers'
<1>1. \A u : AttachedTo(u)' = AttachedTo(u)
  BY DEF AttachedTo, HoldersOf
<1>2. QED
  BY <1>1 DEF PeerLoadCovers

\* After a refresh nobody holds the object of a peer row.
LEMMA RefreshPeers ==
    ASSUME TypeOK, NEW cloud \in SUBSET CloudUrls, RefreshPool(cloud), TypeOK', on' = on
    PROVE  PeerLoadCovers'
<1> SUFFICES ASSUME NEW u \in rows' \cap PeerUrls
             PROVE  inFlight'[u] >= Cardinality(AttachedTo(u)')
  BY DEF PeerLoadCovers
<1>1. AttachedTo(u)' = {}
  BY DEF AttachedTo, HoldersOf, RefreshPool
<1>2. inFlight'[u] \in Nat
  BY DEF TypeOK
<1>3. QED
  BY <1>1, <1>2, FS_EmptySet

LEMMA PeerAcquired ==
    ASSUME TypeOK, PeerLoadCovers, NEW r \in Requests, StartAttempt(r)
    PROVE  PeerLoadCovers'
<1> SUFFICES ASSUME NEW u \in rows \cap PeerUrls
             PROVE  inFlight'[u] >= Cardinality(AttachedTo(u)')
  BY DEF PeerLoadCovers, StartAttempt
<1>1. inFlight[u] >= Cardinality(AttachedTo(u)) /\ inFlight[u] \in Nat
  BY DEF PeerLoadCovers, TypeOK
<1>2. Cardinality(AttachedTo(u)) \in Nat
  BY AttachedFinite, FS_CardinalityType
<1>3. CASE att[r] /\ on[r] = u
  <2>1. AttachedTo(u)' = AttachedTo(u) \cup {r} /\ r \notin AttachedTo(u)
    BY <1>3 DEF AttachedTo, HoldersOf, Holds, StartAttempt, TypeOK
  <2>2. inFlight'[u] = inFlight[u] + 1
    BY <1>3 DEF StartAttempt, Acquire, TypeOK
  <2>3. Cardinality(AttachedTo(u) \cup {r}) = Cardinality(AttachedTo(u)) + 1
    BY <2>1, AttachedFinite, FS_AddElement
  <2>4. QED
    BY <1>1, <1>2, <2>1, <2>2, <2>3
<1>4. CASE ~(att[r] /\ on[r] = u)
  <2>1. AttachedTo(u)' = AttachedTo(u)
    BY <1>4 DEF AttachedTo, HoldersOf, Holds, StartAttempt, TypeOK
  <2>2. inFlight'[u] = inFlight[u]
    BY <1>4 DEF StartAttempt, Acquire, TypeOK
  <2>3. QED
    BY <1>1, <2>1, <2>2
<1>5. QED
  BY <1>3, <1>4

\* The counter goes down at most when a request attached to the row goes: a
\* release at another address of the peer reaches a copy of the row.
LEMMA PeerReleased ==
    ASSUME TypeOK, PeerLoadCovers, NEW r \in Requests, Holds(r), rows' = rows, LetGo(r),
           NEW x \in {"walk", "done"}, phase' = [phase EXCEPT ![r] = x],
           Release(r, on[r]) \/ Release(r, at[r])
    PROVE  PeerLoadCovers'
<1> SUFFICES ASSUME NEW u \in rows \cap PeerUrls
             PROVE  inFlight'[u] >= Cardinality(AttachedTo(u)')
  BY DEF PeerLoadCovers
<1>1. inFlight[u] >= Cardinality(AttachedTo(u)) /\ inFlight[u] \in Nat
  BY DEF PeerLoadCovers, TypeOK
<1>2. Cardinality(AttachedTo(u)) \in Nat
  BY AttachedFinite, FS_CardinalityType
<1>3. CASE att[r] /\ on[r] = u
  <2>1. AttachedTo(u)' = AttachedTo(u) \ {r} /\ r \in AttachedTo(u)
    BY <1>3 DEF AttachedTo, HoldersOf, Holds, LetGo, TypeOK
  <2>2. Cardinality(AttachedTo(u) \ {r}) = Cardinality(AttachedTo(u)) - 1
    BY <2>1, AttachedFinite, FS_RemoveElement
  <2>3. inFlight'[u] \in {inFlight[u], Dec(inFlight[u])}
    BY <1>1, <1>3 DEF Release, TypeOK
  <2>4. QED
    BY <1>1, <1>2, <2>1, <2>2, <2>3 DEF Dec
<1>4. CASE ~(att[r] /\ on[r] = u)
  <2>1. AttachedTo(u)' = AttachedTo(u)
    BY <1>4 DEF AttachedTo, HoldersOf, Holds, LetGo, TypeOK
  <2>2. inFlight'[u] = inFlight[u]
    BY <1>1, <1>4 DEF Release, TypeOK
  <2>3. QED
    BY <1>1, <2>1, <2>2
<1>5. QED
  BY <1>3, <1>4

LEMMA RequestPeers ==
    ASSUME TypeOK, TypeOK', PeerLoadCovers, NEW r \in Requests
    PROVE  Admit(r) \/ Reject(r) \/ Step(r) \/ Disconnect(r) \/ Abort(r)
               => PeerLoadCovers'
<1>1. ASSUME Admit(r) \/ Reject(r) \/ Select(r) \/ SelectNone(r) \/ TakeTier(r)
             \/ Exhaust(r) \/ RefuseAttempt(r) \/ StreamOpens(r) \/ Disconnect(r)
      PROVE  PeerLoadCovers'
  BY <1>1, PeersStay
     DEF Admit, Reject, Select, SelectNone, TakeTier, Exhaust, RefuseAttempt, Finish,
         LetGo, StreamOpens, Disconnect, pool, Holds, TypeOK
<1>2. ASSUME StartWalk(r) PROVE PeerLoadCovers'
  <2> DEFINE cloud == IF r \in LocalOnly THEN rows \cap CloudUrls ELSE offered
  <2>1. RefreshPool(cloud) /\ cloud \in SUBSET CloudUrls /\ on' = on
    BY <1>2 DEF StartWalk, TypeOK
  <2>2. QED
    BY <2>1, RefreshPeers
<1>3. ASSUME CallSucceeds(r) \/ CallFails(r) \/ StreamEnds(r) \/ Finalize(r)
      PROVE  PeerLoadCovers'
  BY <1>3, PeerReleased
     DEF CallSucceeds, CallFails, StreamEnds, Finalize, SessionRelease, Finish, Holds
<1>4. ASSUME Abort(r) PROVE PeerLoadCovers'
  <2>1. CASE phase[r] = "call"
    BY <1>4, <2>1, PeerReleased DEF Abort, Finish, Holds
  <2>2. CASE phase[r] # "call"
    BY <1>4, <2>2, PeersStay DEF Abort, Finish, LetGo, Holds, TypeOK
  <2>3. QED
    BY <2>1, <2>2
<1>5. ASSUME CallRetriesPath(r) PROVE PeerLoadCovers'
  <2>1. \A u : AttachedTo(u)' = AttachedTo(u)
    BY <1>5 DEF CallRetriesPath, AttachedTo, HoldersOf, Holds
  <2>2. \A u \in rows \cap PeerUrls : inFlight[u] \in Nat /\ inFlight'[u] \in {inFlight[u], Dec(inFlight[u]) + 1}
    BY <1>5 DEF CallRetriesPath, ReleaseAcquire, TypeOK
  <2>3. \A u \in rows \cap PeerUrls : inFlight'[u] >= inFlight[u] /\ inFlight'[u] \in Nat
    BY <2>2 DEF Dec
  <2>4. \A u : Cardinality(AttachedTo(u)) \in Nat
    BY AttachedFinite, FS_CardinalityType
  <2>5. QED
    BY <1>5, <2>1, <2>2, <2>3, <2>4 DEF CallRetriesPath, PeerLoadCovers
<1>6. QED
  BY <1>1, <1>2, <1>3, <1>4, <1>5, PeerAcquired DEF Step

LEMMA PeerStep ==
    ASSUME TypeOK, TypeOK', PeerLoadCovers, [Next]_vars
    PROVE  PeerLoadCovers'
<1>1. ASSUME phase' = phase, on' = on, att' = att, rows' = rows, inFlight' = inFlight
      PROVE  PeerLoadCovers'
  BY <1>1 DEF PeerLoadCovers, AttachedTo, HoldersOf, Holds
<1>2. ASSUME NEW p \in Peers, Heartbeat(p) \/ LosePeer(p) \/ Reroute(p)
      PROVE  PeerLoadCovers'
  BY <1>1, <1>2 DEF Heartbeat, LosePeer, Reroute, pool
<1>3. ASSUME Rescan \/ Reconfigure \/ UNCHANGED vars PROVE PeerLoadCovers'
  BY <1>1, <1>3 DEF Rescan, Reconfigure, vars, pool
<1>4. ASSUME BackgroundRefresh \/ ListModels PROVE PeerLoadCovers'
  <2>1. \E cloud \in SUBSET CloudUrls : RefreshPool(cloud)
    BY <1>4, OutsideRefresh
  <2>2. on' = on
    BY <1>4 DEF BackgroundRefresh, ListModels
  <2>3. QED
    BY <2>1, <2>2, RefreshPeers
<1>5. QED
  BY <1>2, <1>3, <1>4, RequestPeers DEF Next

\* A peer row never shows less load than the calls made through it, over
\* retries on its other addresses, releases through copies and refreshes that
\* replace the row.
THEOREM PeerLoad == Spec => []PeerLoadCovers
<1>1. Init => PeerLoadCovers
  BY DEF Init, PeerLoadCovers
<1>2. QED
  BY <1>1, PeerStep, TypeCorrect, PTL DEF Spec

-----------------------------------------------------------------------------
(* A backend that failed a request is not called for it again.  The        *)
(* strategy rounds filter on tried_ids; the fallback tier does not, and is *)
(* safe because its rows were ineligible while the rounds lasted and each  *)
(* is replayed once.                                                       *)

RetryInv ==
    /\ \A r \in Requests : phase[r] \in {"idle", "refresh"} => tried[r] = {}
    /\ \A r \in Requests : tier[r] \subseteq barred[r]
    /\ \A r \in Requests : tried[r] \cap tier[r] = {}
    /\ \A r \in Requests : Chosen(r) => IdOf(on[r]) \notin tried[r] \cup tier[r]

LEMMA IdOfCloud ==
    ASSUME NEW u \in Urls, IdOf(u) \in CloudUrls
    PROVE  u \in CloudUrls
BY OwnerType, EngineAssumption DEF IdOf, Urls, EngineAssumption

LEMMA RetryStep ==
    ASSUME TypeOK, RetryInv, NEW r \in Requests
    PROVE  Admit(r) \/ Reject(r) \/ Step(r) \/ Disconnect(r) \/ Abort(r) => RetryInv'
<1> USE DEF RetryInv, Chosen, Holds, TypeOK
<1>1. ASSUME tried' = tried, barred' = barred, tier' = tier, on' = on,
             \A q \in Requests : Chosen(q)' => Chosen(q),
             \A q \in Requests : phase'[q] \in {"idle", "refresh"} =>
                                     phase[q] \in {"idle", "refresh"}
      PROVE  RetryInv'
  BY <1>1
<1>2. ASSUME Admit(r) \/ Reject(r) \/ SelectNone(r) \/ StartAttempt(r)
             \/ CallRetriesPath(r) \/ Disconnect(r)
      PROVE  RetryInv'
  BY <1>1, <1>2 DEF Admit, Reject, SelectNone, StartAttempt, CallRetriesPath,
                    Disconnect, walk
<1>3. ASSUME DropSchedule(r), \A q \in Requests : Chosen(q)' => Chosen(q) /\ on'[q] = on[q],
             \A q \in Requests : phase'[q] \in {"idle", "refresh"} =>
                                     phase[q] \in {"idle", "refresh"}
      PROVE  RetryInv'
  BY <1>3 DEF DropSchedule
<1>9. ASSUME Exhaust(r) \/ RefuseAttempt(r) \/ CallSucceeds(r) \/ StreamOpens(r)
             \/ StreamEnds(r) \/ Finalize(r) \/ Abort(r)
      PROVE  RetryInv'
  <2>1. /\ DropSchedule(r)
        /\ \A q \in Requests : Chosen(q)' => Chosen(q) /\ on'[q] = on[q]
        /\ \A q \in Requests : phase'[q] \in {"idle", "refresh"} =>
                                   phase[q] \in {"idle", "refresh"}
    BY <1>9 DEF Exhaust, RefuseAttempt, CallSucceeds, StreamOpens, StreamEnds, Finalize,
                Abort, SessionRelease, Finish, LetGo
  <2>2. QED
    BY <1>3, <2>1
<1>4. ASSUME StartWalk(r) PROVE RetryInv'
  BY <1>4 DEF StartWalk
<1>5. ASSUME Select(r) PROVE RetryInv'
  <2>1. PICK u \in rows : /\ IdOf(u) \notin tried[r]
                          /\ u \notin barred[r]
                          /\ on' = [on EXCEPT ![r] = u]
    BY <1>5 DEF Select
  <2>2. IdOf(u) \notin tier[r]
    BY <2>1, IdOfCloud, EngineAssumption DEF IdOf, EngineAssumption
  <2>3. QED
    BY <1>5, <2>1, <2>2 DEF Select
<1>6. ASSUME TakeTier(r) PROVE RetryInv'
  <2>1. PICK u \in tier[r] : /\ tier' = [tier EXCEPT ![r] = @ \ {u}]
                             /\ on' = [on EXCEPT ![r] = u]
    BY <1>6 DEF TakeTier
  <2>2. IdOf(u) = u
    BY <2>1, EngineAssumption DEF IdOf, EngineAssumption
  <2>3. QED
    BY <1>6, <2>1, <2>2 DEF TakeTier
<1>7. ASSUME CallFails(r) PROVE RetryInv'
  BY <1>7 DEF CallFails, LetGo
<1>8. QED
  BY <1>2, <1>4, <1>5, <1>6, <1>7, <1>9 DEF Step

\* The rows a request walks through after a failure exclude every backend
\* that failed it, in the strategy rounds and in the fallback tier alike.
THEOREM NeverRetries == Spec => NeverRetriesFailed
<1>1. Init => RetryInv
  BY DEF Init, RetryInv, Chosen, Holds
<1>2. ASSUME TypeOK, RetryInv, [Next]_vars PROVE RetryInv'
  <2>1. ASSUME phase' = phase, tried' = tried, barred' = barred, tier' = tier, on' = on
        PROVE  RetryInv'
    BY <1>2, <2>1 DEF RetryInv, Chosen, Holds
  <2>2. ASSUME NEW p \in Peers, Heartbeat(p) \/ LosePeer(p) \/ Reroute(p)
        PROVE  RetryInv'
    BY <2>1, <2>2 DEF Heartbeat, LosePeer, Reroute, walk
  <2>3. ASSUME Rescan \/ Reconfigure \/ BackgroundRefresh \/ ListModels \/ UNCHANGED vars PROVE RetryInv'
    BY <2>1, <2>3 DEF Rescan, Reconfigure, BackgroundRefresh, ListModels, vars, walk
  <2>4. QED
    BY <1>2, <2>2, <2>3, RetryStep DEF Next
<1>3. ASSUME TypeOK, [Next]_vars, NEW r \in Requests, phase'[r] = "call"
      PROVE  Chosen(r) /\ on'[r] = on[r]
  <2>1. ASSUME NEW q \in Requests,
               Admit(q) \/ Reject(q) \/ Step(q) \/ Disconnect(q) \/ Abort(q)
        PROVE  Chosen(r) /\ on'[r] = on[r]
    BY <1>3, <2>1
       DEF Step, Admit, Reject, StartWalk, Select, SelectNone, TakeTier, Exhaust,
           StartAttempt, RefuseAttempt, CallSucceeds, CallRetriesPath, CallFails,
           StreamOpens, StreamEnds, Finalize, SessionRelease, Finish, Disconnect, Abort,
           LetGo, Chosen, Holds, TypeOK
  <2>2. ASSUME phase' = phase, on' = on PROVE Chosen(r) /\ on'[r] = on[r]
    BY <1>3, <2>2 DEF Chosen, Holds
  <2>3. ASSUME NEW p \in Peers, Heartbeat(p) \/ LosePeer(p) \/ Reroute(p)
        PROVE  Chosen(r) /\ on'[r] = on[r]
    BY <2>2, <2>3 DEF Heartbeat, LosePeer, Reroute
  <2>4. ASSUME Rescan \/ Reconfigure \/ BackgroundRefresh \/ ListModels \/ UNCHANGED vars
        PROVE  Chosen(r) /\ on'[r] = on[r]
    BY <2>2, <2>4 DEF Rescan, Reconfigure, BackgroundRefresh, ListModels, vars
  <2>5. QED
    BY <1>3, <2>1, <2>3, <2>4 DEF Next
<1>4. ASSUME TypeOK, RetryInv, [Next]_vars
      PROVE  [\A r \in Requests : phase'[r] = "call" => IdOf(on'[r]) \notin tried[r]]_vars
  BY <1>3, <1>4 DEF RetryInv
<1>5. QED
  BY <1>1, <1>2, <1>4, TypeCorrect, PTL DEF Spec, NeverRetriesFailed

-----------------------------------------------------------------------------
(* The engine implements SourceAdmission (its safety part): the exact      *)
(* ledger turns the counter test of build_request_plan into a test on the  *)
(* set of requests that are really inside.                                 *)

LEMMA RoomIsNotFull ==
    ASSUME TypeOK, SourceLedgerExact, NEW s \in Sources
    PROVE  Admission!Room(s) <=> ~SourceFull(s)
<1>1. {r \in Inside : SrcOf[r] = s} = LiveOf(s)
  BY DEF Inside, LiveOf
<1>2. src[s] = Cardinality(LiveOf(s)) /\ src[s] \in Nat /\ Cap[s] \in Nat
  BY EngineAssumption DEF SourceLedgerExact, TypeOK, EngineAssumption
<1>3. Admission!Cardinality(LiveOf(s)) = Cardinality(LiveOf(s))
  BY DEF Cardinality, Admission!Cardinality
<1>4. Admission!Room(s) <=> Cap[s] = 0 \/ Cardinality(LiveOf(s)) < Cap[s]
  BY <1>1, <1>3 DEF Admission!Room
<1>5. QED
  BY <1>2, <1>4 DEF SourceFull

LEMMA InsideStays ==
    ASSUME \A q \in Requests : Live(q)' <=> Live(q),
           \A q \in Requests : phase'[q] \in {"rejected", "done"}
                                  <=> phase[q] \in {"rejected", "done"}
    PROVE  UNCHANGED Admission!vars
BY DEF Admission!vars, Inside, Ended

LEMMA RequestImplements ==
    ASSUME TypeOK, SourceLedgerExact, NEW r \in Requests,
           Admit(r) \/ Reject(r) \/ Step(r) \/ Disconnect(r) \/ Abort(r)
    PROVE  [Admission!Next]_(Admission!vars)
<1> DEFINE Ends == phase' = [phase EXCEPT ![r] = "done"] /\ Live(r)
<1>1. SrcOf[r] \in Sources
  BY EngineAssumption DEF EngineAssumption
<1>2. ASSUME Admit(r) PROVE Admission!Enter(r)
  <2>1. Admission!Room(SrcOf[r])
    BY <1>1, <1>2, RoomIsNotFull DEF Admit
  <2>2. QED
    BY <1>2, <2>1 DEF Admit, Admission!Enter, Admission!Outside, Inside, Ended, Live, TypeOK
<1>3. ASSUME Reject(r) PROVE Admission!TurnAway(r)
  <2>1. ~Admission!Room(SrcOf[r])
    BY <1>1, <1>3, RoomIsNotFull DEF Reject
  <2>2. QED
    BY <1>3, <2>1
       DEF Reject, Admission!TurnAway, Admission!Outside, Inside, Ended, Live, TypeOK
<1>4. ASSUME Ends PROVE Admission!Leave(r)
  BY <1>4 DEF Admission!Leave, Inside, Ended, Live, TypeOK
<1>5. ASSUME Exhaust(r) \/ RefuseAttempt(r) \/ CallSucceeds(r) \/ StreamEnds(r)
             \/ Finalize(r) \/ Abort(r)
      PROVE  Ends
  BY <1>5 DEF Exhaust, RefuseAttempt, CallSucceeds, StreamEnds, Finalize, Abort,
              SessionRelease, Finish, Live
<1>6. ASSUME StartWalk(r) \/ Select(r) \/ SelectNone(r) \/ TakeTier(r) \/ StartAttempt(r)
             \/ CallRetriesPath(r) \/ CallFails(r) \/ StreamOpens(r) \/ Disconnect(r)
      PROVE  UNCHANGED Admission!vars
  <2>1. \A q \in Requests : Live(q)' <=> Live(q)
    BY <1>6 DEF StartWalk, Select, SelectNone, TakeTier, StartAttempt, CallRetriesPath,
                CallFails, StreamOpens, Disconnect, Live, TypeOK
  <2>2. \A q \in Requests : phase'[q] \in {"rejected", "done"}
                               <=> phase[q] \in {"rejected", "done"}
    BY <1>6 DEF StartWalk, Select, SelectNone, TakeTier, StartAttempt, CallRetriesPath,
                CallFails, StreamOpens, Disconnect, TypeOK
  <2>3. QED
    BY <2>1, <2>2, InsideStays
<1>7. QED
  BY <1>2, <1>3, <1>4, <1>5, <1>6 DEF Step, Admission!Next

\* Admission by counter is admission by the set of requests inside: at any
\* cap, a request enters exactly when its source has room, and leaves once.
THEOREM ImplementsAdmission == Spec => Admission!SafetySpec
<1>1. Init => Admission!Init
  BY DEF Init, Admission!Init, Inside, Ended, Live
<1>2. ASSUME TypeOK, SourceLedgerExact, [Next]_vars
      PROVE  [Admission!Next]_(Admission!vars)
  <2>1. ASSUME phase' = phase PROVE UNCHANGED Admission!vars
    BY <2>1, InsideStays DEF Live
  <2>2. ASSUME NEW p \in Peers, Heartbeat(p) \/ LosePeer(p) \/ Reroute(p)
        PROVE  UNCHANGED Admission!vars
    BY <2>1, <2>2 DEF Heartbeat, LosePeer, Reroute
  <2>3. ASSUME Rescan \/ Reconfigure \/ BackgroundRefresh \/ ListModels \/ UNCHANGED vars
        PROVE  UNCHANGED Admission!vars
    BY <2>1, <2>3 DEF Rescan, Reconfigure, BackgroundRefresh, ListModels, vars
  <2>4. QED
    BY <1>2, <2>2, <2>3, RequestImplements DEF Next
<1>3. QED
  BY <1>1, <1>2, TypeCorrect, SourceLedger, PTL DEF Spec, Admission!SafetySpec
-----------------------------------------------------------------------------
(* The agent's own ceiling.  A hop is weighed against LocalLoad, a sum     *)
(* over the local rows of the pool; the ceiling bounds the hops themselves *)
(* only if the sum counts every one of them, which is so as long as no     *)
(* local row is ever pruned: with ~Flap a call never loses its row.        *)

\* The totals FoldFunctionOnSet(+, 0, f, S) computes, by the subset of S.
Pick(s) == CHOOSE x \in s : TRUE
Total(f, g, s) == IF s = {} THEN 0 ELSE f[Pick(s)] + g[s \ {Pick(s)}]
Totals(f, S) == CHOOSE g : g = [s \in SUBSET S |-> Total(f, g, s)]

LEMMA FoldIsTotal == ASSUME NEW f, NEW S
  PROVE FoldFunctionOnSet(+, 0, f, S) = Totals(f, S)[S]
BY DEF FoldFunctionOnSet, MapThenFoldSet, Totals, Total, Pick

Table(f, D, g) == g = [s \in D |-> Total(f, g, s)]

UpTo(S, n) == {s \in SUBSET S : Cardinality(s) <= n}

LEMMA UpToStep ==
    ASSUME NEW S, IsFiniteSet(S), NEW n \in Nat, NEW s \in UpTo(S, n), s # {}
    PROVE  n > 0 /\ s \ {Pick(s)} \in UpTo(S, n - 1)
<1>1. Pick(s) \in s
  BY DEF Pick
<1>2. IsFiniteSet(s)
  BY FS_Subset DEF UpTo
<1>3. Cardinality(s \ {Pick(s)}) = Cardinality(s) - 1 /\ Cardinality(s) \in Nat
  BY <1>1, <1>2, FS_RemoveElement, FS_CardinalityType
<1>4. Cardinality(s \ {Pick(s)}) \in Nat
  BY <1>2, FS_Subset, FS_CardinalityType
<1>5. s \ {Pick(s)} \in SUBSET S
  BY DEF UpTo
<1>6. QED
  BY <1>3, <1>4, <1>5 DEF UpTo

LEMMA TotalsUpTo ==
    ASSUME NEW S, IsFiniteSet(S), NEW f, NEW n \in Nat
    PROVE  \E g : Table(f, UpTo(S, n), g)
<1> DEFINE Bad == {k \in Nat : ~ \E g : Table(f, UpTo(S, k), g)}
<1> SUFFICES ASSUME n \in Bad PROVE FALSE
  OBVIOUS
<1>1. PICK m \in Bad : \A k \in Bad : ~ (<<k, m>> \in OpToRel(<, Nat))
  BY WFMin, NatLessThanWellFounded
<1>2. m \in Nat /\ \A k \in Nat : k < m => k \notin Bad
  BY <1>1 DEF OpToRel
<1>3. CASE \A s \in UpTo(S, m) : s = {}
  <2> DEFINE h == [s \in UpTo(S, m) |-> 0]
  <2>1. \A s \in UpTo(S, m) : h[s] = Total(f, h, s)
    BY <1>3 DEF Total
  <2>2. h = [s \in UpTo(S, m) |-> Total(f, h, s)]
    BY <2>1
  <2>3. QED
    BY <2>2, <1>1 DEF Table
<1>4. CASE \E s \in UpTo(S, m) : s # {}
  <2>1. m > 0 /\ m - 1 \in Nat /\ m - 1 < m
    <3>1. m > 0
      BY <1>2, <1>4, UpToStep
    <3>2. QED
      BY <1>2, <3>1
  <2>2. PICK g : Table(f, UpTo(S, m - 1), g)
    BY <1>2, <2>1
  <2> DEFINE h == [s \in UpTo(S, m) |-> Total(f, g, s)]
  <2>3. ASSUME NEW s \in UpTo(S, m), s # {}
        PROVE  h[s \ {Pick(s)}] = g[s \ {Pick(s)}]
    <3> DEFINE t == s \ {Pick(s)}
    <3>1. t \in UpTo(S, m - 1)
      BY <1>2, <2>3, UpToStep
    <3>2. t \in UpTo(S, m)
      <4>1. Cardinality(t) <= m - 1 /\ Cardinality(t) \in Nat /\ t \in SUBSET S
        BY <3>1, FS_Subset, FS_CardinalityType DEF UpTo
      <4>2. QED
        BY <1>2, <4>1 DEF UpTo
    <3> HIDE DEF t
    <3>3. h[t] = Total(f, g, t) /\ g[t] = Total(f, g, t)
      BY <2>2, <3>1, <3>2 DEF Table
    <3>4. QED
      BY <3>3 DEF t
  <2>4. \A s \in UpTo(S, m) : h[s] = Total(f, h, s)
    BY <2>3 DEF Total
  <2>5. h = [s \in UpTo(S, m) |-> Total(f, h, s)]
    BY <2>4
  <2>6. QED
    BY <2>5, <1>1 DEF Table
<1>5. QED
  BY <1>3, <1>4

LEMMA TotalsExist ==
    ASSUME NEW S, IsFiniteSet(S), NEW f
    PROVE  Totals(f, S) = [s \in SUBSET S |-> Total(f, Totals(f, S), s)]
<1>1. Cardinality(S) \in Nat
  BY FS_CardinalityType
<1>2. UpTo(S, Cardinality(S)) = SUBSET S
  BY FS_Subset DEF UpTo
<1>3. \E g : Table(f, UpTo(S, Cardinality(S)), g)
  BY <1>1, TotalsUpTo
<1>4. \E g : Table(f, SUBSET S, g)
  BY <1>2, <1>3
<1>5. QED
  BY <1>4 DEF Totals, Table

\* The sum over the rows is at least the number of the requests on them.
LEMMA TotalCovers ==
    ASSUME NEW S, IsFiniteSet(S), NEW f, NEW R, IsFiniteSet(R), NEW place,
           \A u \in S : f[u] \in Nat /\ f[u] >= Cardinality({r \in R : place[r] = u})
    PROVE  /\ FoldFunctionOnSet(+, 0, f, S) \in Nat
           /\ FoldFunctionOnSet(+, 0, f, S) >= Cardinality({r \in R : place[r] \in S})
<1> DEFINE g == Totals(f, S)
           On(s) == {r \in R : place[r] \in s}
           Good(s) == g[s] \in Nat /\ g[s] >= Cardinality(On(s))
           Bad == {k \in Nat : \E s \in SUBSET S : Cardinality(s) = k /\ ~Good(s)}
<1>1. \A s : IsFiniteSet(On(s)) /\ Cardinality(On(s)) \in Nat
  BY FS_Subset, FS_CardinalityType
<1>2. \A s \in SUBSET S : g[s] = Total(f, g, s)
  <2>1. g = [s \in SUBSET S |-> Total(f, g, s)]
    BY TotalsExist
  <2> HIDE DEF g
  <2>2. QED
    BY <2>1
<1> HIDE DEF g
<1>3. ASSUME NEW s \in SUBSET S, ~Good(s)
      PROVE  s # {} /\ Cardinality(s) \in Nat
             /\ s \ {Pick(s)} \in SUBSET S /\ ~Good(s \ {Pick(s)})
             /\ Cardinality(s \ {Pick(s)}) = Cardinality(s) - 1
  <2>1. IsFiniteSet(s) /\ Cardinality(s) \in Nat
    BY FS_Subset, FS_CardinalityType
  <2>2. s # {}
    <3>1. On({}) = {} /\ Cardinality(On({})) = 0 /\ g[{}] = 0
      BY <1>2, FS_EmptySet DEF Total
    <3>2. QED
      BY <1>3, <3>1
  <2> DEFINE x == Pick(s)
             t == s \ {x}
  <2>3. x \in s /\ t \in SUBSET S
    BY <2>2 DEF Pick
  <2>4. Cardinality(t) = Cardinality(s) - 1
    BY <2>1, <2>3, FS_RemoveElement
  <2>5. g[s] = f[x] + g[t]
    BY <1>2, <2>2 DEF Total
  <2>6. On(s) = On(t) \cup {r \in R : place[r] = x}
    BY <2>3
  <2>7. Cardinality(On(s)) <= Cardinality(On(t)) + Cardinality({r \in R : place[r] = x})
    <3> DEFINE A == On(t)
               B == {r \in R : place[r] = x}
    <3>1. IsFiniteSet(A) /\ IsFiniteSet(B)
      BY FS_Subset
    <3>2. On(s) = A \cup B
      BY <2>6
    <3> HIDE DEF A, B, On
    <3>3. Cardinality(A \cup B) = Cardinality(A) + Cardinality(B) - Cardinality(A \cap B)
      BY <3>1, FS_Union
    <3>4. Cardinality(A) \in Nat /\ Cardinality(B) \in Nat /\ Cardinality(A \cap B) \in Nat
      BY <3>1, FS_Subset, FS_CardinalityType
    <3>5. Cardinality(On(s)) <= Cardinality(A) + Cardinality(B)
      BY <3>2, <3>3, <3>4
    <3>6. QED
      BY <3>5 DEF A, B
  <2>8. f[x] \in Nat /\ f[x] >= Cardinality({r \in R : place[r] = x})
    BY <2>3
  <2>9. Cardinality({r \in R : place[r] = x}) \in Nat
    BY FS_Subset, FS_CardinalityType
  <2> HIDE DEF t, x, On
  <2>10. ~Good(t)
    BY <1>1, <1>3, <2>5, <2>7, <2>8, <2>9
  <2>11. QED
    BY <2>1, <2>2, <2>3, <2>4, <2>10 DEF t, x
<1> HIDE DEF Good
<1>4. Bad = {}
  <2> SUFFICES ASSUME Bad # {} PROVE FALSE
    OBVIOUS
  <2>1. PICK m \in Bad : \A k \in Bad : ~ (<<k, m>> \in OpToRel(<, Nat))
    BY WFMin, NatLessThanWellFounded
  <2>2. m \in Nat /\ \A k \in Nat : k < m => k \notin Bad
    BY <2>1 DEF OpToRel
  <2>3. PICK s \in SUBSET S : Cardinality(s) = m /\ ~Good(s)
    BY <2>1
  <2>4. s \ {Pick(s)} \in SUBSET S /\ ~Good(s \ {Pick(s)})
        /\ Cardinality(s \ {Pick(s)}) = m - 1
    BY <1>3, <2>3
  <2>5. Cardinality(s \ {Pick(s)}) \in Nat
    BY <2>4, FS_Subset, FS_CardinalityType
  <2>6. m - 1 \in Nat /\ m - 1 \in Bad
    BY <2>4, <2>5
  <2> HIDE DEF Bad
  <2>7. QED
    BY <2>2, <2>6
<1>5. Cardinality(S) \in Nat
  BY FS_CardinalityType
<1>6. Good(S)
  BY <1>4, <1>5
<1>7. QED
  BY <1>6, FoldIsTotal DEF Good, g

\* A call on a local row holds the row itself, and the scan shows them all.
Stable ==
    /\ scan = LocalUrls
    /\ \A r \in Requests : Chosen(r) /\ on[r] \in LocalUrls => att[r]

LocalHops == {r \in LocalOnly : Holds(r) /\ on[r] \in LocalUrls}

LEMMA HopsFinite == IsFiniteSet(LocalHops) /\ Cardinality(LocalHops) \in Nat
BY FS_Subset, FS_CardinalityType, EngineAssumption DEF LocalHops, EngineAssumption

LEMMA RefreshStable ==
    ASSUME TypeOK, Stable, NEW cloud \in SUBSET CloudUrls, RefreshPool(cloud),
           on' = on, scan' = scan, \A r \in Requests : Chosen(r)' <=> Chosen(r)
    PROVE  Stable'
<1>1. LocalUrls \cap PeerUrls = {}
  BY EngineAssumption DEF EngineAssumption
<1>2. scan \subseteq rows'
  BY DEF RefreshPool
<1>3. \A r \in Requests : att[r] /\ on[r] \in LocalUrls => att'[r]
  BY <1>1, <1>2 DEF RefreshPool, Stable
<1>4. QED
  BY <1>3 DEF Stable

LEMMA StableStep ==
    ASSUME "provider" \notin Flap, TypeOK, Stable, [Next]_vars
    PROVE  Stable'
<1>1. ASSUME NEW r \in Requests,
             Admit(r) \/ Reject(r) \/ SelectNone(r) \/ StreamOpens(r)
             \/ Disconnect(r) \/ StartAttempt(r) \/ CallRetriesPath(r)
      PROVE  Stable'
  BY <1>1 DEF Stable, TypeOK, Chosen, Holds, Admit, Reject, SelectNone,
              StreamOpens, Disconnect, StartAttempt, CallRetriesPath, pool, discovery, walk
<1>2. ASSUME NEW r \in Requests, Select(r) PROVE Stable'
  BY <1>2 DEF Stable, TypeOK, Chosen, Holds, Select, discovery
<1>9. ASSUME NEW r \in Requests, TakeTier(r) PROVE Stable'
  <2>1. PICK u \in tier[r] : /\ on' = [on EXCEPT ![r] = u]
                             /\ att' = [att EXCEPT ![r] = u \in kept[r]]
    BY <1>9 DEF TakeTier
  <2>2. u \notin LocalUrls
    BY <2>1, EngineAssumption DEF TypeOK, EngineAssumption
  <2>3. QED
    BY <1>9, <2>1, <2>2 DEF Stable, TypeOK, Chosen, Holds, TakeTier, discovery
<1>3. ASSUME NEW r \in Requests,
             Exhaust(r) \/ RefuseAttempt(r) \/ CallSucceeds(r) \/ CallFails(r)
             \/ StreamEnds(r) \/ Finalize(r) \/ Abort(r)
      PROVE  Stable'
  BY <1>3 DEF Stable, TypeOK, Chosen, Holds, Exhaust, RefuseAttempt, CallSucceeds,
              CallFails, StreamEnds, Finalize, SessionRelease, Abort, Finish, LetGo, discovery
<1>4. ASSUME NEW r \in Requests, StartWalk(r) PROVE Stable'
  <2> DEFINE cloud == IF r \in LocalOnly THEN rows \cap CloudUrls ELSE offered
  <2>1. /\ RefreshPool(cloud) /\ cloud \in SUBSET CloudUrls
        /\ on' = on /\ scan' = scan
    BY <1>4 DEF StartWalk, discovery, TypeOK
  <2>2. \A q \in Requests : Chosen(q)' <=> Chosen(q)
    BY <1>4 DEF StartWalk, Chosen, Holds, TypeOK
  <2>3. QED
    BY <2>1, <2>2, RefreshStable
<1>5. ASSUME BackgroundRefresh \/ ListModels PROVE Stable'
  <2>0. \E cloud \in SUBSET CloudUrls : RefreshPool(cloud)
    BY <1>5, OutsideRefresh
  <2>1. on' = on /\ scan' = scan /\ phase' = phase
    BY <1>5 DEF BackgroundRefresh, ListModels, discovery
  <2>2. \A q \in Requests : Chosen(q)' <=> Chosen(q)
    BY <2>1 DEF Chosen, Holds
  <2>3. QED
    BY <2>0, <2>1, <2>2, RefreshStable
<1>6. ASSUME NEW p \in Peers, Heartbeat(p) \/ LosePeer(p) \/ Reroute(p) PROVE Stable'
  BY <1>6 DEF Heartbeat, LosePeer, Reroute, Stable, Chosen, Holds
<1>7. ASSUME Reconfigure \/ UNCHANGED vars PROVE Stable'
  BY <1>7 DEF Reconfigure, vars, discovery, Stable, Chosen, Holds
<1>8. QED
  BY <1>1, <1>2, <1>3, <1>4, <1>5, <1>6, <1>7, <1>9 DEF Next, Step, Rescan

\* What a hop is weighed against covers the hops in progress.
LEMMA LoadCoversHops ==
    ASSUME TypeOK, RowInv, Stable
    PROVE  LocalLoad \in Nat /\ LocalLoad >= Cardinality(LocalHops)
<1> DEFINE S == rows \cap LocalUrls
           R == {r \in Requests : Holds(r) /\ att[r]}
<1>1. IsFiniteSet(S) /\ IsFiniteSet(R)
  BY FS_Subset, EngineAssumption DEF TypeOK, EngineAssumption, Urls
<1>2. ASSUME NEW u \in S
      PROVE  inFlight[u] \in Nat /\ inFlight[u] = Cardinality({r \in R : on[r] = u})
  <2>1. u \in rows \ PeerUrls /\ u \in Urls
    BY <1>2, EngineAssumption DEF EngineAssumption, Urls
  <2>2. AttachedTo(u) = {r \in R : on[r] = u}
    BY DEF AttachedTo, HoldersOf
  <2>3. QED
    BY <2>1, <2>2 DEF TypeOK, RowInv, RowLedgerExact
<1>3. \A u \in S : inFlight[u] \in Nat
                   /\ inFlight[u] >= Cardinality({r \in R : on[r] = u})
  BY <1>2
<1>4. LocalHops \subseteq {r \in R : on[r] \in S}
  BY EngineAssumption DEF LocalHops, Stable, RowInv, Attachment, Chosen, EngineAssumption
<1>5. IsFiniteSet({r \in R : on[r] \in S})
  BY <1>1, FS_Subset
<1>6. Cardinality(LocalHops) <= Cardinality({r \in R : on[r] \in S})
  BY <1>4, <1>5, FS_Subset
<1>7. Cardinality({r \in R : on[r] \in S}) \in Nat
  BY <1>5, FS_CardinalityType
<1> HIDE DEF R, S
<1>8. /\ FoldFunctionOnSet(+, 0, inFlight, S) \in Nat
      /\ FoldFunctionOnSet(+, 0, inFlight, S) >= Cardinality({r \in R : on[r] \in S})
  BY <1>1, <1>3, TotalCovers
<1>9. LocalLoad \in Nat /\ LocalLoad >= Cardinality({r \in R : on[r] \in S})
  BY <1>8 DEF LocalLoad, S
<1>10. QED
  BY <1>6, <1>7, <1>9, HopsFinite

HopsBounded == AgentMax > 0 => Cardinality(LocalHops) <= AgentMax

LEMMA HopsStep ==
    ASSUME TypeOK, RowInv, Stable, HopsBounded, [Next]_vars
    PROVE  HopsBounded'
<1>1. ASSUME LocalHops' \subseteq LocalHops PROVE HopsBounded'
  <2>1. Cardinality(LocalHops') <= Cardinality(LocalHops) /\ Cardinality(LocalHops') \in Nat
    BY <1>1, HopsFinite, FS_Subset, FS_CardinalityType
  <2>2. QED
    BY <2>1, HopsFinite, EngineAssumption DEF HopsBounded, EngineAssumption
<1>2. ASSUME NEW r \in Requests, StartAttempt(r) PROVE HopsBounded'
  <2>1. LocalHops' \subseteq LocalHops \cup {r}
    BY <1>2, EngineAssumption DEF StartAttempt, LocalHops, Holds, TypeOK, EngineAssumption
  <2>2. CASE r \in LocalOnly /\ on[r] \in LocalUrls /\ AgentMax > 0
    <3>1. LocalLoad < AgentMax
      BY <1>2, <2>2, LoadCoversHops, EngineAssumption
      DEF StartAttempt, Saturated, EngineAssumption
    <3>2. Cardinality(LocalHops \cup {r}) <= Cardinality(LocalHops) + 1
      <4>1. r \in LocalHops => LocalHops \cup {r} = LocalHops
        OBVIOUS
      <4>2. r \notin LocalHops => Cardinality(LocalHops \cup {r}) = Cardinality(LocalHops) + 1
        BY HopsFinite, FS_AddElement
      <4>3. QED
        BY <4>1, <4>2, HopsFinite
    <3>3. IsFiniteSet(LocalHops \cup {r})
      BY HopsFinite, FS_AddElement
    <3>4. Cardinality(LocalHops') <= Cardinality(LocalHops \cup {r})
          /\ Cardinality(LocalHops') \in Nat /\ Cardinality(LocalHops \cup {r}) \in Nat
      BY <2>1, <3>3, FS_Subset, FS_CardinalityType
    <3>5. Cardinality(LocalHops') <= AgentMax
      BY <3>1, <3>2, <3>4, LoadCoversHops, HopsFinite, EngineAssumption DEF EngineAssumption
    <3>6. QED
      BY <3>5 DEF HopsBounded
  <2>3. CASE ~(r \in LocalOnly /\ on[r] \in LocalUrls)
    <3>1. LocalHops' \subseteq LocalHops
      BY <1>2, <2>1, <2>3 DEF StartAttempt, LocalHops
    <3>2. QED
      BY <1>1, <3>1
  <2>4. CASE ~(AgentMax > 0)
    BY <2>4 DEF HopsBounded
  <2>5. QED
    BY <2>2, <2>3, <2>4
<1>3. ASSUME NEW r \in Requests,
             Admit(r) \/ Reject(r) \/ StartWalk(r) \/ Select(r) \/ SelectNone(r)
             \/ TakeTier(r) \/ StreamOpens(r) \/ Disconnect(r)
             \/ CallRetriesPath(r)
      PROVE  LocalHops' \subseteq LocalHops
  <2>1. \A q \in Requests : Holds(q)' => Holds(q) /\ on'[q] = on[q]
    BY <1>3 DEF Admit, Reject, StartWalk, Select, SelectNone, TakeTier,
                StreamOpens, Disconnect, CallRetriesPath, Holds, TypeOK
  <2>2. QED
    BY <2>1, EngineAssumption DEF LocalHops, EngineAssumption
<1>4. ASSUME NEW r \in Requests,
             Exhaust(r) \/ RefuseAttempt(r) \/ CallSucceeds(r) \/ CallFails(r)
             \/ StreamEnds(r) \/ Finalize(r) \/ Abort(r)
      PROVE  LocalHops' \subseteq LocalHops
  <2>1. \A q \in Requests : Holds(q)' => Holds(q) /\ on'[q] = on[q]
    BY <1>4 DEF Exhaust, RefuseAttempt, CallSucceeds, CallFails, StreamEnds, Finalize,
                SessionRelease, Abort, Finish, LetGo, Holds, TypeOK
  <2>2. QED
    BY <2>1, EngineAssumption DEF LocalHops, EngineAssumption
<1>5. ASSUME phase' = phase, on' = on PROVE LocalHops' \subseteq LocalHops
  BY <1>5 DEF LocalHops, Holds
<1>6. ASSUME \/ \E p \in Peers : Heartbeat(p) \/ LosePeer(p) \/ Reroute(p)
             \/ Rescan \/ Reconfigure \/ BackgroundRefresh \/ ListModels \/ UNCHANGED vars
      PROVE  LocalHops' \subseteq LocalHops
  BY <1>5, <1>6 DEF Heartbeat, LosePeer, Reroute, Rescan, Reconfigure, BackgroundRefresh, ListModels, vars
<1>7. QED
  BY <1>1, <1>2, <1>3, <1>4, <1>6 DEF Next, Step

\* agent.max_concurrency holds on a mesh whose local providers answer every
\* scan: while none of them flaps the hops on local rows never pass the ceiling,
\* whatever requests, refreshes, retries and cancellations interleave.
THEOREM LocalAdmission == "provider" \notin Flap => (Spec => []LocalAdmissionBound)
<1> SUFFICES ASSUME "provider" \notin Flap PROVE Spec => []LocalAdmissionBound
  OBVIOUS
<1>1. Init => Stable
  BY DEF Init, Stable, Chosen, Holds
<1>2. Init => HopsBounded
  <2> SUFFICES ASSUME Init PROVE HopsBounded
    OBVIOUS
  <2>1. LocalHops = {}
    BY EngineAssumption DEF Init, LocalHops, Holds, EngineAssumption
  <2>2. Cardinality(LocalHops) = 0
    BY <2>1, FS_EmptySet
  <2>3. QED
    BY <2>2, EngineAssumption DEF HopsBounded, EngineAssumption
<1>3. HopsBounded => LocalAdmissionBound
  BY DEF HopsBounded, LocalHops, LocalAdmissionBound
<1>4. TypeOK /\ Stable /\ [Next]_vars => Stable'
  BY StableStep
<1>5. RowInv <=> (Attachment /\ RowLedgerExact)
  BY DEF RowInv
<1>6. QED
  BY <1>1, <1>2, <1>3, <1>4, <1>5, HopsStep, TypeCorrect, RowLedger, RowsAttached, PTL DEF Spec
=============================================================================
