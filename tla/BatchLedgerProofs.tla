-------------------------- MODULE BatchLedgerProofs --------------------------
(***************************************************************************)
(* The batch ledger for any requests, keys, rows and changes of health:    *)
(* its size, where it sends a request, that a completed shard stays, and   *)
(* that a shard with one request is tried on every row.                    *)
(***************************************************************************)
EXTENDS BatchLedger, WellFoundedInduction, FiniteSetTheorems, SequenceTheorems, TLAPS

\* Shards whose assignment was evicted although a ledger request of theirs is
\* in progress: the keys a reassignment may put back.
Evicted == {KeyOf[q] : q \in InProgress \cap Ledgered} \ Range(order)

\* Keys are in the order once; it has room for the evicted ones beyond its
\* bound.
Ordered ==
    /\ \A i, j \in DOMAIN order : order[i] = order[j] => i = j
    /\ MaxLive < MaxEntries => Len(order) + Cardinality(Evicted) <= MaxEntries + MaxLive - 1

\* A request that walks failed once per round, each time on another row it may
\* use; one that calls is called on a further one.
Walks ==
    \A q \in Requests : phase[q] \in {"walk", "call"} =>
        /\ IsFiniteSet(tried[q]) /\ tried[q] \subseteq Urls \ Ineligible[q]
        /\ round[q] = Cardinality(tried[q]) + (IF phase[q] = "call" THEN 1 ELSE 0)
        /\ phase[q] = "call" => on[q] \in Urls \ (tried[q] \cup Ineligible[q])

\* An assignment goes with its key.
Assigned == \A k \in Keys : ~Known(k) => url[k] = NoUrl

\* The assignment of a shard with one request is the row that request calls or
\* one that failed it, unless another batch evicted it.
SoleShards ==
    \A q \in Ledgered : Alone(q) =>
        /\ KeyOf[q] \in completed => phase[q] = "done"
        /\ phase[q] = "walk" /\ round[q] = 0 => ~Known(KeyOf[q])
        /\ phase[q] = "walk" => url[KeyOf[q]] \in tried[q] \cup {NoUrl}
        /\ phase[q] = "call" => url[KeyOf[q]] \in {on[q], NoUrl}

LedgerInv == TypeOK /\ Ordered /\ Walks /\ Assigned /\ SoleShards

\* A new assignment makes room first: whatever was put back since, the ledger
\* is within its limit after it.
EvictionMakesRoom ==
    MaxLive < MaxEntries =>
        [][\A q \in Requests : Assign(q) /\ order' # order => Len(order') <= MaxEntries]_vars

-----------------------------------------------------------------------------
(* Naturals, places and sequences *)

\* A set of naturals that is not empty has a least member.
LEMMA Least ==
    ASSUME NEW S \in SUBSET Nat, S # {}
    PROVE  \E i \in S : \A j \in S : i <= j
<1> DEFINE R == OpToRel(<, Nat)
<1>1. IsWellFoundedOn(R, Nat)
  BY NatLessThanWellFounded
<1>2. \A i, j \in Nat : i < j => <<i, j>> \in R
  BY DEF OpToRel
<1> HIDE DEF R
<1>3. PICK i \in S : \A j \in S : ~(<<j, i>> \in R)
  BY <1>1, WFMin
<1>4. ASSUME NEW j \in S PROVE i <= j
  <2>1. i \in Nat /\ j \in Nat
    OBVIOUS
  <2>2. ~(j < i)
    BY <1>2, <1>3, <2>1
  <2> QED BY <2>1, <2>2
<1> QED BY <1>4

\* ... and a greatest one if it is bounded.
LEMMA Greatest ==
    ASSUME NEW S \in SUBSET Nat, S # {}, NEW m \in Nat, \A i \in S : i <= m
    PROVE  \E i \in S : \A j \in S : j <= i
<1> DEFINE T == {n \in Nat : \E i \in S : n = m - i}
<1>1. T # {}
  <2>1. PICK i \in S : TRUE
    OBVIOUS
  <2>2. m - i \in Nat /\ m - i \in T
    BY <2>1
  <2> QED BY <2>2
<1>2. PICK n \in T : \A k \in T : n <= k
  BY <1>1, Least
<1>3. PICK i \in S : n = m - i
  BY <1>2
<1>4. ASSUME NEW j \in S PROVE j <= i
  <2>1. j \in Nat /\ i \in Nat /\ j <= m
    OBVIOUS
  <2>2. m - j \in Nat
    BY <2>1
  <2>3. m - j \in T
    BY <2>2
  <2>4. n <= m - j
    BY <1>2, <2>3
  <2> QED BY <1>3, <2>1, <2>4
<1> QED BY <1>4

\* Candidate n is there if there are more than n of them.
LEMMA NthIsThere ==
    ASSUME NEW m \in Nat, NEW c \in SUBSET (1..m), NEW n \in Nat, n < Cardinality(c)
    PROVE  Nth(c, n) \in c
<1> DEFINE Under(i) == {j \in c : j < i}
<1>0. /\ \A i \in c : i \in Nat /\ i <= m
      /\ c \in SUBSET Nat /\ IsFiniteSet(c) /\ Cardinality(c) \in Nat
  <2>1. IsFiniteSet(1..m)
    BY FS_Interval
  <2>2. IsFiniteSet(c)
    BY <2>1, FS_Subset
  <2> QED BY <2>2, FS_CardinalityType
<1>1. \A i \in c : IsFiniteSet(Under(i)) /\ Cardinality(Under(i)) \in Nat
  BY <1>0, FS_Subset, FS_CardinalityType
\* Below a member and its predecessor, one differs.
<1>2. ASSUME NEW i \in c, Under(i) # {}
      PROVE  \E j \in Under(i) : Cardinality(Under(j)) = Cardinality(Under(i)) - 1
  <2>1. PICK j \in Under(i) : \A k \in Under(i) : k <= j
    <3>1. Under(i) \in SUBSET Nat /\ \A k \in Under(i) : k <= m
      BY <1>0
    <3>2. Under(i) # {}
      BY <1>2
    <3> HIDE DEF Under
    <3> QED BY <3>1, <3>2, Greatest
  <2>2. Under(j) = Under(i) \ {j}
    <3>1. j \in c /\ j < i /\ i \in Nat /\ j \in Nat
      BY <1>0, <2>1
    <3>2. \A k \in c : k \in Nat /\ (k < i => k <= j)
      BY <1>0, <2>1
    <3>3. \A k \in c : k < j <=> k < i /\ k # j
      BY <3>1, <3>2
    <3> QED BY <3>1, <3>3
  <2> QED BY <1>1, <2>1, <2>2, FS_RemoveElement
<1> DEFINE Late == {i \in c : Cardinality(Under(i)) >= n}
<1>3. Late # {}
  <2>1. c # {}
    BY <1>0, FS_EmptySet
  <2>2. PICK i \in c : \A j \in c : j <= i
    <3> HIDE DEF Under
    <3> QED BY <1>0, <2>1, Greatest
  <2>3. Under(i) = c \ {i}
    <3>1. \A k \in c : k < i <=> k # i
      BY <1>0, <2>2
    <3> QED BY <3>1
  <2>4. Cardinality(Under(i)) = Cardinality(c) - 1
    BY <1>0, <2>3, FS_RemoveElement
  <2>5. i \in Late
    BY <1>0, <2>4
  <2> QED BY <2>5
<1>4. PICK i \in Late : \A j \in Late : i <= j
  <2>1. Late \in SUBSET Nat
    BY <1>0
  <2> HIDE DEF Late
  <2> QED BY <1>3, <2>1, Least
<1>5. Cardinality(Under(i)) = n
  <2> SUFFICES ASSUME Cardinality(Under(i)) > n PROVE FALSE
    BY <1>1
  <2>1. i \in c /\ Under(i) # {}
    BY <1>1, FS_EmptySet
  <2>2. PICK j \in Under(i) : Cardinality(Under(j)) = Cardinality(Under(i)) - 1
    BY <1>2, <2>1
  <2>3. j \in Late /\ j < i
    BY <1>1, <2>1, <2>2
  <2> QED BY <1>0, <1>4, <2>3
<1> QED BY <1>5 DEF Nth

\* What a sequence holds after a new entry, and after its older part is gone.
LEMMA RangeGrows ==
    ASSUME NEW s \in Seq(Keys), NEW k \in Keys
    PROVE  /\ Append(s, k) \in Seq(Keys) /\ Len(Append(s, k)) = Len(s) + 1
           /\ Range(Append(s, k)) = Range(s) \cup {k}
           /\ (\A i, j \in DOMAIN s : s[i] = s[j] => i = j) /\ k \notin Range(s)
                => \A i, j \in DOMAIN Append(s, k) : Append(s, k)[i] = Append(s, k)[j] => i = j
<1>1. /\ Append(s, k) \in Seq(Keys) /\ Len(Append(s, k)) = Len(s) + 1 /\ Len(s) \in Nat
      /\ DOMAIN s = 1..Len(s) /\ DOMAIN Append(s, k) = 1..(Len(s) + 1)
      /\ \A i \in 1..Len(s) : Append(s, k)[i] = s[i]
      /\ Append(s, k)[Len(s) + 1] = k
  BY AppendProperties, LenProperties
<1>2. Range(Append(s, k)) = Range(s) \cup {k}
  BY <1>1 DEF Range
<1>3. \A i \in 1..Len(s) : s[i] \in Range(s)
  BY <1>1 DEF Range
<1> QED BY <1>1, <1>2, <1>3

LEMMA RangeShrinks ==
    ASSUME NEW s \in Seq(Keys), NEW m \in 1..Len(s)
    PROVE  LET t == SubSeq(s, m, Len(s)) IN
           /\ t \in Seq(Keys) /\ Len(t) = Len(s) - m + 1
           /\ Range(t) \subseteq Range(s)
           /\ (\A i, j \in DOMAIN s : s[i] = s[j] => i = j)
                => \A i, j \in DOMAIN t : t[i] = t[j] => i = j
<1> DEFINE t == SubSeq(s, m, Len(s))
<1>1. Len(s) \in Nat /\ DOMAIN s = 1..Len(s) /\ \A i \in 1..Len(s) : s[i] \in Keys
  BY LenProperties, ElementOfSeq
<1>2. /\ t \in Seq(Keys) /\ Len(t) = Len(s) - m + 1
      /\ \A i \in 1..(Len(s) - m + 1) : t[i] = s[m + i - 1]
  BY <1>1, SubSeqProperties
<1>3. DOMAIN t = 1..(Len(s) - m + 1)
  BY <1>2, LenProperties
<1> HIDE DEF t
<1>4. \A i \in DOMAIN t : m + i - 1 \in DOMAIN s /\ t[i] = s[m + i - 1]
  BY <1>1, <1>2, <1>3
<1>5. Range(t) \subseteq Range(s)
  BY <1>4 DEF Range
<1>6. ASSUME \A i, j \in DOMAIN s : s[i] = s[j] => i = j, NEW i \in DOMAIN t, NEW j \in DOMAIN t, t[i] = t[j]
      PROVE  i = j
  <2>1. m + i - 1 = m + j - 1
    BY <1>4, <1>6
  <2> QED BY <1>1, <1>3, <2>1
<1> QED BY <1>2, <1>5, <1>6 DEF t

\* The rows are finitely many.
LEMMA FiniteUrls == IsFiniteSet(Urls) /\ \A i \in DOMAIN Rows : Rows[i] \in Urls
<1>1. Rows \in [1..Len(Rows) -> Urls] /\ Len(Rows) \in Nat /\ DOMAIN Rows = 1..Len(Rows)
  BY LedgerAssumption, LenProperties
<1>2. Rows \in Surjection(1..Len(Rows), Urls)
  BY <1>1 DEF Surjection, Urls, Range
<1>3. IsFiniteSet(1..Len(Rows))
  BY <1>1, FS_Interval
<1> QED BY <1>1, <1>2, <1>3, FS_Surjection DEF Urls, Range

-----------------------------------------------------------------------------
(* Writes to the ledger *)

\* What a new assignment leaves of the others.
LEMMA InsertEffect ==
    ASSUME TypeOK, Ordered, Assigned, NEW k \in Keys, ~Known(k), NEW u \in Urls, Insert(k, u)
    PROVE  /\ order' \in Seq(Keys) /\ url' \in [Keys -> Urls \cup {NoUrl}]
           /\ completed' \subseteq completed
           /\ \A i, j \in DOMAIN order' : order'[i] = order'[j] => i = j
           /\ Len(order') \in Nat
           /\ Len(order) < MaxEntries => Len(order') <= MaxEntries
           /\ Len(order) >= MaxEntries => 2 * Len(order') <= Len(order) + 3
           /\ k \in Range(order') /\ Range(order') \subseteq Range(order) \cup {k}
           /\ url'[k] = u
           /\ \A j \in Keys \ {k} : /\ j \in Range(order') => url'[j] = url[j]
                                    /\ j \notin Range(order') => url'[j] = NoUrl
<1> DEFINE drop == Len(order) \div 2
           kept == IF Len(order) < MaxEntries THEN order ELSE SubSeq(order, drop + 1, Len(order))
<1>1. order \in Seq(Keys) /\ url \in [Keys -> Urls \cup {NoUrl}] /\ Len(order) \in Nat
  BY LenProperties DEF TypeOK
<1>2. MaxEntries \in Nat /\ MaxEntries > 1
  BY LedgerAssumption
<1>3. Len(order) >= MaxEntries =>
        drop + 1 \in 1..Len(order) /\ drop >= 1 /\ 2 * drop >= Len(order) - 1
  BY <1>1, <1>2
<1>4. /\ kept \in Seq(Keys) /\ Range(kept) \subseteq Range(order)
      /\ \A i, j \in DOMAIN kept : kept[i] = kept[j] => i = j
      /\ Len(order) < MaxEntries => Len(kept) = Len(order)
      /\ Len(order) >= MaxEntries => Len(kept) = Len(order) - drop
  <2>1. CASE Len(order) < MaxEntries
    BY <1>1, <1>2, <2>1 DEF Ordered
  <2>2. CASE ~(Len(order) < MaxEntries)
    <3> DEFINE m == drop + 1
    <3>1. m \in 1..Len(order) /\ kept = SubSeq(order, m, Len(order))
      BY <1>1, <1>2, <1>3, <2>2
    <3>2. Len(order) - m + 1 = Len(order) - drop /\ drop \in Nat
      BY <1>1
    <3> HIDE DEF m, kept
    <3> QED BY <1>1, <1>2, <2>2, <3>1, <3>2, RangeShrinks DEF Ordered
  <2> QED BY <2>1, <2>2
<1>5. /\ order' = Append(kept, k)
      /\ url' = [j \in Keys |-> IF j = k THEN u ELSE IF j \in Range(kept) THEN url[j] ELSE NoUrl]
      /\ completed' = completed \ (Range(order) \ Range(kept))
  BY DEF Insert
<1> HIDE DEF kept
<1>6. /\ order' \in Seq(Keys) /\ Len(order') = Len(kept) + 1
      /\ Range(order') = Range(kept) \cup {k}
      /\ \A i, j \in DOMAIN order' : order'[i] = order'[j] => i = j
  BY <1>4, <1>5, RangeGrows DEF Known
<1>7. /\ Len(kept) \in Nat /\ drop \in Nat
  BY <1>1, <1>4, LenProperties
<1>8. /\ Len(order) < MaxEntries => Len(order') <= MaxEntries
      /\ Len(order) >= MaxEntries => 2 * Len(order') <= Len(order) + 3
  BY <1>1, <1>2, <1>3, <1>4, <1>6, <1>7
<1>9. url' \in [Keys -> Urls \cup {NoUrl}]
  BY <1>1, <1>5
<1> QED BY <1>4, <1>5, <1>6, <1>7, <1>8, <1>9

\* Writing an assignment adds at most its key.
LEMMA PutEffect ==
    ASSUME TypeOK, Ordered, NEW k \in Keys, NEW u \in Urls, Put(k, u)
    PROVE  /\ order' \in Seq(Keys) /\ url' = [url EXCEPT ![k] = u] /\ completed' = completed
           /\ \A i, j \in DOMAIN order' : order'[i] = order'[j] => i = j
           /\ Len(order') \in Nat /\ Len(order') <= Len(order) + 1
           /\ Range(order') = Range(order) \cup {k}
           /\ Known(k) => order' = order
<1>1. order \in Seq(Keys) /\ Len(order) \in Nat
  BY LenProperties DEF TypeOK
<1>2. CASE Known(k)
  BY <1>1, <1>2 DEF Put, Ordered, Known
<1>3. CASE ~Known(k)
  <2>1. order' = Append(order, k)
    BY <1>3 DEF Put
  <2> QED BY <1>1, <1>3, <2>1, RangeGrows DEF Put, Ordered, Known
<1> QED BY <1>2, <1>3

\* A selection puts the request on a candidate or ends it.
LEMMA DispatchEffect ==
    ASSUME TypeOK, NEW q \in Requests, phase[q] = "walk", NEW u, Dispatch(q, u) \/ GiveUp(q)
    PROVE  \/ /\ phase' = [phase EXCEPT ![q] = "call"] /\ on' = [on EXCEPT ![q] = u]
              /\ Dispatch(q, u) /\ \E i \in Candidates(q) : u = Rows[i]
              /\ u \in Urls \ (tried[q] \cup Ineligible[q])
           \/ /\ phase' = [phase EXCEPT ![q] = "gaveUp"] /\ on' = [on EXCEPT ![q] = NoUrl]
              /\ GiveUp(q) /\ Dispatch(q, u) => ~\E i \in Candidates(q) : u = Rows[i]
<1>1. CASE \E i \in Candidates(q) : u = Rows[i]
  <2>1. u \in Urls \ (tried[q] \cup Ineligible[q])
    BY <1>1, FiniteUrls DEF Candidates, TypeOK
  <2> QED BY <1>1, <2>1 DEF Dispatch, GiveUp
<1>2. CASE ~\E i \in Candidates(q) : u = Rows[i]
  BY <1>2 DEF Dispatch, GiveUp
<1> QED BY <1>1, <1>2

\* Where the arms of the selection find their row.
LEMMA PlacesAreRows ==
    ASSUME NEW q \in Requests
    PROVE  /\ Candidates(q) \in SUBSET (1..Len(Rows)) /\ Len(Rows) \in Nat
           /\ \A k \in Keys : Candidates(q) # {} =>
                Nth(Candidates(q), IndexOf[k] % Cardinality(Candidates(q))) \in Candidates(q)
           /\ \A u : Later(Candidates(q), u) # {} =>
                Nth(Later(Candidates(q), u), 0) \in Later(Candidates(q), u)
<1>1. Len(Rows) \in Nat /\ DOMAIN Rows = 1..Len(Rows)
  BY LedgerAssumption, LenProperties
<1>2. Candidates(q) \in SUBSET (1..Len(Rows))
  BY <1>1 DEF Candidates
<1>3. ASSUME NEW c \in SUBSET (1..Len(Rows)), c # {}
      PROVE  Cardinality(c) \in Nat \ {0}
  <2>1. IsFiniteSet(1..Len(Rows))
    BY <1>1, FS_Interval
  <2>2. IsFiniteSet(c)
    BY <2>1, FS_Subset
  <2> QED BY <1>3, <2>2, FS_CardinalityType, FS_EmptySet
<1>4. ASSUME NEW k \in Keys, Candidates(q) # {}
      PROVE  Nth(Candidates(q), IndexOf[k] % Cardinality(Candidates(q))) \in Candidates(q)
  <2> DEFINE n == Cardinality(Candidates(q))
  <2>1. n \in Nat \ {0} /\ IndexOf[k] \in Nat
    BY <1>2, <1>3, <1>4, LedgerAssumption
  <2> HIDE DEF n
  <2>2. IndexOf[k] % n \in Nat /\ IndexOf[k] % n < n
    BY <2>1
  <2> QED BY <1>1, <1>2, <2>2, NthIsThere DEF n
<1>5. ASSUME NEW u, Later(Candidates(q), u) # {}
      PROVE  Nth(Later(Candidates(q), u), 0) \in Later(Candidates(q), u)
  <2> DEFINE c == Later(Candidates(q), u)
  <2>1. c \in SUBSET (1..Len(Rows)) /\ c # {}
    BY <1>2, <1>5 DEF Later
  <2> HIDE DEF c
  <2>2. 0 < Cardinality(c)
    BY <1>3, <2>1
  <2>3. Nth(c, 0) \in c
    BY <1>1, <2>1, <2>2, NthIsThere
  <2> QED BY <2>3 DEF c
<1> QED BY <1>1, <1>2, <1>4, <1>5

-----------------------------------------------------------------------------
(* The invariant *)

LEMMA InitLedger == Init => LedgerInv
<1> SUFFICES ASSUME Init PROVE LedgerInv
  OBVIOUS
<1>1. TypeOK
  BY LedgerAssumption DEF Init, TypeOK
<1>2. Evicted = {}
  BY LedgerAssumption DEF Evicted, InProgress, Init
<1>3. IsFiniteSet({}) /\ Cardinality({}) = 0
  BY FS_EmptySet
<1>4. Ordered
  BY <1>2, <1>3, LedgerAssumption DEF Ordered, Init
<1>5. Walks
  BY <1>3 DEF Walks, Init
<1>6. Range(order) = {}
  BY DEF Init, Range
<1>7. Assigned /\ SoleShards
  BY <1>6, LedgerAssumption DEF Assigned, SoleShards, Known, Init
<1> QED BY <1>1, <1>4, <1>5, <1>7 DEF LedgerInv

\* What a selection does, whichever arm makes it.
Selects(q) == Assign(q) \/ Reassign(q) \/ SelectOther(q)

LEMMA SelectEffect ==
    ASSUME LedgerInv, NEW q \in Requests, Selects(q)
    PROVE  /\ phase[q] = "walk" /\ tried' = tried /\ up' = up /\ round' = [round EXCEPT ![q] = @ + 1]
           /\ \/ \E u \in Urls \ (tried[q] \cup Ineligible[q]) :
                    phase' = [phase EXCEPT ![q] = "call"] /\ on' = [on EXCEPT ![q] = u]
              \/ phase' = [phase EXCEPT ![q] = "gaveUp"] /\ on' = [on EXCEPT ![q] = NoUrl]
           /\ \/ UNCHANGED ledger
              \/ \E u \in Urls : ~Known(KeyOf[q]) /\ Assign(q) /\ Insert(KeyOf[q], u)
              \/ \E u \in Urls : KeyOf[q] \notin completed /\ Reassign(q) /\ Put(KeyOf[q], u)
<1> USE DEF LedgerInv
<1>1. /\ phase[q] = "walk" /\ tried' = tried /\ up' = up
      /\ \E u : Dispatch(q, u) \/ GiveUp(q)
  BY DEF Selects, Assign, Reassign, SelectOther
<1>2. round' = [round EXCEPT ![q] = @ + 1]
  BY DEF Selects, Assign, Reassign, SelectOther, TypeOK
<1>3. \/ \E u \in Urls \ (tried[q] \cup Ineligible[q]) :
            phase' = [phase EXCEPT ![q] = "call"] /\ on' = [on EXCEPT ![q] = u]
      \/ phase' = [phase EXCEPT ![q] = "gaveUp"] /\ on' = [on EXCEPT ![q] = NoUrl]
  BY <1>1, DispatchEffect
<1>4. /\ \A i \in Candidates(q) : Rows[i] \in Urls
      /\ KeyOf[q] \in Keys
      /\ \A u : Later(Candidates(q), u) \subseteq Candidates(q)
  BY FiniteUrls, LedgerAssumption DEF Candidates, Later
<1>5. CASE Assign(q)
  <2>1. CASE UNCHANGED ledger
    BY <1>1, <1>2, <1>3, <2>1
  <2>2. CASE ~UNCHANGED ledger
    <3>1. ~Known(KeyOf[q]) /\ Candidates(q) # {}
          /\ Insert(KeyOf[q], Rows[Nth(Candidates(q), IndexOf[KeyOf[q]] % Cardinality(Candidates(q)))])
      BY <1>5, <2>2 DEF Assign
    <3>2. Rows[Nth(Candidates(q), IndexOf[KeyOf[q]] % Cardinality(Candidates(q)))] \in Urls
      BY <1>4, <3>1, PlacesAreRows
    <3> QED BY <1>1, <1>2, <1>3, <1>5, <3>1, <3>2
  <2> QED BY <2>1, <2>2
<1>6. CASE Reassign(q)
  <2>1. CASE UNCHANGED ledger
    BY <1>1, <1>2, <1>3, <2>1
  <2>2. CASE ~UNCHANGED ledger
    <3> DEFINE later == Later(Candidates(q), url[KeyOf[q]])
    <3>1. KeyOf[q] \notin completed /\ later # {} /\ Put(KeyOf[q], Rows[Nth(later, 0)])
      BY <1>6, <2>2 DEF Reassign
    <3>2. Rows[Nth(later, 0)] \in Urls
      BY <1>4, <3>1, PlacesAreRows
    <3> QED BY <1>1, <1>2, <1>3, <1>6, <3>1, <3>2
  <2> QED BY <2>1, <2>2
<1>7. CASE SelectOther(q)
  BY <1>1, <1>2, <1>3, <1>7 DEF SelectOther
<1> QED BY <1>5, <1>6, <1>7 DEF Selects

LEMMA LedgerTypes == LedgerInv /\ [Next]_vars => TypeOK'
<1> SUFFICES ASSUME LedgerInv, [Next]_vars PROVE TypeOK'
  OBVIOUS
<1> USE DEF LedgerInv
<1>1. ASSUME NEW q \in Requests, Selects(q) PROVE TypeOK'
  <2>1. /\ tried' = tried /\ up' = up /\ round' = [round EXCEPT ![q] = @ + 1]
        /\ phase' \in [Requests -> {"walk", "call", "done", "gaveUp"}]
        /\ on' \in [Requests -> Urls \cup {NoUrl}]
    <3>1. /\ tried' = tried /\ up' = up /\ round' = [round EXCEPT ![q] = @ + 1]
          /\ \/ \E u \in Urls \ (tried[q] \cup Ineligible[q]) :
                   phase' = [phase EXCEPT ![q] = "call"] /\ on' = [on EXCEPT ![q] = u]
             \/ phase' = [phase EXCEPT ![q] = "gaveUp"] /\ on' = [on EXCEPT ![q] = NoUrl]
      BY <1>1, SelectEffect, Zenon
    <3> QED BY <3>1 DEF TypeOK
  <2>2. round' \in [Requests -> Nat]
    BY <2>1 DEF TypeOK
  <2>3. KeyOf[q] \in Keys
    BY LedgerAssumption
  <2>4. order' \in Seq(Keys) /\ url' \in [Keys -> Urls \cup {NoUrl}] /\ completed' \subseteq Keys
    <3>1. CASE UNCHANGED ledger
      BY <3>1 DEF ledger, TypeOK
    <3>2. ASSUME NEW u \in Urls, ~Known(KeyOf[q]), Insert(KeyOf[q], u)
          PROVE  order' \in Seq(Keys) /\ url' \in [Keys -> Urls \cup {NoUrl}] /\ completed' \subseteq completed
      BY <2>3, <3>2, InsertEffect
    <3>3. ASSUME NEW u \in Urls, Put(KeyOf[q], u)
          PROVE  order' \in Seq(Keys) /\ url' \in [Keys -> Urls \cup {NoUrl}] /\ completed' = completed
      <4>1. order' \in Seq(Keys) /\ url' = [url EXCEPT ![KeyOf[q]] = u] /\ completed' = completed
        BY <2>3, <3>3, PutEffect
      <4> QED BY <4>1 DEF TypeOK
    <3>4. \/ UNCHANGED ledger
          \/ \E u \in Urls : ~Known(KeyOf[q]) /\ Insert(KeyOf[q], u)
          \/ \E u \in Urls : Put(KeyOf[q], u)
      BY <1>1, SelectEffect, Zenon
    <3>5. completed \subseteq Keys
      BY DEF TypeOK
    <3> QED BY <3>1, <3>2, <3>3, <3>4, <3>5
  <2> QED BY <2>1, <2>2, <2>4 DEF TypeOK
<1>2. ASSUME NEW q \in Requests, OutOfRounds(q) \/ Succeed(q) \/ Fail(q) PROVE TypeOK'
  <2>1. CASE OutOfRounds(q)
    BY <2>1 DEF OutOfRounds, GiveUp, ledger, TypeOK
  <2>2. CASE Succeed(q)
    BY <2>2, LedgerAssumption DEF Succeed, TypeOK
  <2>3. CASE Fail(q)
    <3>1. on[q] \in Urls
      BY <2>3 DEF Fail, Walks
    <3> QED BY <2>3, <3>1 DEF Fail, ledger, TypeOK
  <2> QED BY <1>2, <2>1, <2>2, <2>3
<1>3. CASE HealthChanges
  BY <1>3 DEF HealthChanges, ledger, TypeOK
<1>4. CASE UNCHANGED vars
  BY <1>4 DEF vars, ledger, TypeOK
<1> QED BY <1>1, <1>2, <1>3, <1>4 DEF Next, Selects

\* The evicted shards are finitely many, and no more than the requests.
LEMMA FewEvicted ==
    ASSUME NEW P \in SUBSET Requests, NEW X \in SUBSET {KeyOf[q] : q \in P}
    PROVE  /\ IsFiniteSet(P) /\ Cardinality(P) \in Nat
           /\ IsFiniteSet(X) /\ Cardinality(X) \in Nat /\ Cardinality(X) <= Cardinality(P)
<1> DEFINE T == {KeyOf[q] : q \in P}
           f == [q \in P |-> KeyOf[q]]
<1>1. IsFiniteSet(P) /\ Cardinality(P) \in Nat
  BY LedgerAssumption, FS_Subset, FS_CardinalityType
<1>2. f \in Surjection(P, T)
  BY DEF Surjection
<1>3. IsFiniteSet(T) /\ Cardinality(T) <= Cardinality(P)
  <2> HIDE DEF f, T
  <2> QED BY <1>1, <1>2, FS_Surjection
<1>4. /\ IsFiniteSet(X) /\ Cardinality(X) <= Cardinality(T)
      /\ Cardinality(T) \in Nat /\ Cardinality(X) \in Nat
  <2>1. X \subseteq T
    OBVIOUS
  <2> HIDE DEF T
  <2> QED BY <1>3, <2>1, FS_Subset, FS_CardinalityType
<1> HIDE DEF T
<1> QED BY <1>1, <1>3, <1>4

LEMMA LedgerOrdered == LedgerInv /\ [Next]_vars => Ordered' /\ Assigned'
<1> SUFFICES ASSUME LedgerInv, [Next]_vars PROVE Ordered' /\ Assigned'
  OBVIOUS
<1> USE DEF LedgerInv
<1> DEFINE n == Cardinality(Evicted)
           e == Evicted'
<1>0. /\ MaxEntries \in Nat /\ MaxLive \in Nat \ {0} /\ Len(order) \in Nat
      /\ IsFiniteSet(Evicted) /\ n \in Nat
      /\ MaxLive < MaxEntries => Len(order) + n <= MaxEntries + MaxLive - 1
  <2>1. /\ InProgress \cap Ledgered \in SUBSET Requests
        /\ Evicted \in SUBSET {KeyOf[q] : q \in InProgress \cap Ledgered}
    BY DEF Evicted, InProgress
  <2> QED BY <2>1, FewEvicted, LedgerAssumption, LenProperties DEF TypeOK, Ordered
<1>1. ASSUME UNCHANGED <<order, url>>, Evicted' \subseteq Evicted PROVE Ordered' /\ Assigned'
  <2>1. e \subseteq Evicted
    BY <1>1
  <2> HIDE DEF e
  <2>2. Cardinality(e) <= n /\ Cardinality(e) \in Nat
    BY <1>0, <2>1, FS_Subset, FS_CardinalityType
  <2>3. MaxLive < MaxEntries => Len(order) + Cardinality(e) <= MaxEntries + MaxLive - 1
    BY <1>0, <2>2
  <2> QED BY <1>1, <2>3 DEF e, Ordered, Assigned, Known
<1>2. ASSUME NEW q \in Requests, Selects(q) PROVE Ordered' /\ Assigned'
  <2>1. KeyOf[q] \in Keys /\ round[q] \in Nat
    BY LedgerAssumption DEF TypeOK
  <2>2. /\ round' = [round EXCEPT ![q] = @ + 1] /\ phase[q] = "walk"
        /\ \A p \in Requests \ {q} : phase'[p] = phase[p] /\ round'[p] = round[p]
        /\ InProgress' \subseteq InProgress \cup {q}
    <3>1. /\ phase[q] = "walk" /\ round' = [round EXCEPT ![q] = @ + 1]
          /\ \/ \E u \in Urls \ (tried[q] \cup Ineligible[q]) :
                   phase' = [phase EXCEPT ![q] = "call"] /\ on' = [on EXCEPT ![q] = u]
             \/ phase' = [phase EXCEPT ![q] = "gaveUp"] /\ on' = [on EXCEPT ![q] = NoUrl]
      BY <1>2, SelectEffect, Zenon
    <3>2. \A p \in Requests \ {q} : phase'[p] = phase[p] /\ round'[p] = round[p]
      BY <3>1 DEF TypeOK
    <3> QED BY <3>1, <3>2 DEF InProgress
  \* A request enters the ledger through its first round, with an assignment.
  <2>3. Reassign(q) => q \in InProgress
    BY <2>1 DEF Reassign, InProgress
  <2>4. CASE UNCHANGED ledger
    <3>1. q \in InProgress' \cap Ledgered => q \in InProgress \/ Known(KeyOf[q])
      <4>1. CASE Assign(q)
        <5>1. CASE Known(KeyOf[q])
          BY <5>1
        <5>2. CASE ~Known(KeyOf[q]) /\ GiveUp(q)
          BY <5>2 DEF GiveUp, InProgress, TypeOK
        <5>3. CASE ~Known(KeyOf[q]) /\ \E u : Insert(KeyOf[q], u)
          <6>1. KeyOf[q] \in Range(order')
            BY <5>3 DEF Insert, Range
          <6> QED BY <2>4, <5>3, <6>1 DEF ledger, Known
        <5> QED BY <4>1, <5>1, <5>2, <5>3 DEF Assign
      <4>2. CASE SelectOther(q)
        BY <4>2 DEF SelectOther
      <4> QED BY <1>2, <2>3, <4>1, <4>2 DEF Selects
    <3>2. Evicted' \subseteq Evicted
      BY <2>2, <2>4, <3>1 DEF Evicted, Known, ledger
    <3> QED BY <1>1, <2>4, <3>2 DEF ledger
  <2>5. ASSUME NEW u \in Urls, ~Known(KeyOf[q]), Assign(q), Insert(KeyOf[q], u) PROVE Ordered' /\ Assigned'
    <3>1. /\ \A i, j \in DOMAIN order' : order'[i] = order'[j] => i = j
          /\ Len(order') \in Nat
          /\ Len(order) < MaxEntries => Len(order') <= MaxEntries
          /\ Len(order) >= MaxEntries => 2 * Len(order') <= Len(order) + 3
          /\ KeyOf[q] \in Range(order')
          /\ \A j \in Keys \ {KeyOf[q]} : j \notin Range(order') => url'[j] = NoUrl
      BY <2>1, <2>5, InsertEffect
    <3>2. e \in SUBSET {KeyOf[p] : p \in InProgress}
      BY <2>2, <3>1 DEF Evicted
    <3>3. Cardinality(InProgress) < MaxLive /\ InProgress \in SUBSET Requests
      BY <2>5 DEF Assign, InProgress
    <3> HIDE DEF e
    <3>4. Cardinality(e) \in Nat /\ Cardinality(e) <= MaxLive - 1
      BY <1>0, <3>2, <3>3, FewEvicted
    <3>5. MaxLive < MaxEntries => Len(order') <= MaxEntries
      BY <1>0, <3>1
    <3>6. MaxLive < MaxEntries => Len(order') + Cardinality(e) <= MaxEntries + MaxLive - 1
      BY <1>0, <3>1, <3>4, <3>5
    <3> QED BY <3>1, <3>6 DEF e, Ordered, Assigned, Known
  <2>6. ASSUME NEW u \in Urls, Reassign(q), Put(KeyOf[q], u) PROVE Ordered' /\ Assigned'
    <3>1. /\ \A i, j \in DOMAIN order' : order'[i] = order'[j] => i = j
          /\ Len(order') \in Nat /\ Len(order') <= Len(order) + 1
          /\ Range(order') = Range(order) \cup {KeyOf[q]}
          /\ url' = [url EXCEPT ![KeyOf[q]] = u]
          /\ Known(KeyOf[q]) => order' = order
      BY <2>1, <2>6, PutEffect
    <3>2. Assigned'
      BY <3>1 DEF Assigned, Known, TypeOK
    <3>3. q \in InProgress \cap Ledgered /\ InProgress' \subseteq InProgress
      BY <2>2, <2>3, <2>6 DEF Reassign
    <3>4. e \subseteq Evicted \ {KeyOf[q]}
      BY <3>1, <3>3 DEF Evicted
    <3>5. ~Known(KeyOf[q]) => KeyOf[q] \in Evicted
      BY <3>3 DEF Evicted, Known
    <3> HIDE DEF e
    <3>6. /\ Cardinality(e) \in Nat /\ Cardinality(e) <= n
          /\ ~Known(KeyOf[q]) => Cardinality(e) <= n - 1
      <4> DEFINE D == Evicted \ {KeyOf[q]}
      <4>1. IsFiniteSet(D) /\ Cardinality(D) = (IF KeyOf[q] \in Evicted THEN n - 1 ELSE n)
        BY <1>0, FS_RemoveElement
      <4>2. e \in SUBSET D
        BY <3>4
      <4> HIDE DEF D, n
      <4>3. IsFiniteSet(e) /\ Cardinality(e) <= Cardinality(D)
        BY <4>1, <4>2, FS_Subset
      <4>4. Cardinality(e) \in Nat
        BY <4>3, FS_CardinalityType
      <4> QED BY <1>0, <3>5, <4>1, <4>3, <4>4
    <3>7. MaxLive < MaxEntries => Len(order') + Cardinality(e) <= MaxEntries + MaxLive - 1
      <4> HIDE DEF n
      <4> QED BY <1>0, <3>1, <3>6
    <3> QED BY <3>1, <3>2, <3>7 DEF e, Ordered
  <2> QED BY <1>2, <2>4, <2>5, <2>6, SelectEffect
<1>3. ASSUME NEW q \in Requests, OutOfRounds(q) \/ Succeed(q) \/ Fail(q) PROVE Ordered' /\ Assigned'
  <2>1. InProgress' \subseteq InProgress /\ UNCHANGED <<order, url>>
    BY <1>3 DEF OutOfRounds, Succeed, Fail, GiveUp, ledger, InProgress, TypeOK
  <2>2. Evicted' \subseteq Evicted
    BY <2>1 DEF Evicted
  <2> QED BY <1>1, <2>1, <2>2
<1>4. ASSUME UNCHANGED <<order, url, phase, round>> PROVE Ordered' /\ Assigned'
  <2>1. Evicted' = Evicted
    BY <1>4 DEF Evicted, InProgress
  <2> QED BY <1>1, <1>4, <2>1
<1> QED BY <1>2, <1>3, <1>4 DEF Next, Selects, HealthChanges, ledger, vars

LEMMA LedgerWalks == LedgerInv /\ [Next]_vars => Walks'
<1> SUFFICES ASSUME LedgerInv, [Next]_vars PROVE Walks'
  OBVIOUS
<1> USE DEF LedgerInv
<1>1. ASSUME NEW q \in Requests, Selects(q) PROVE Walks'
  <2>1. /\ phase[q] = "walk" /\ tried' = tried /\ round' = [round EXCEPT ![q] = @ + 1]
        /\ \/ \E u \in Urls \ (tried[q] \cup Ineligible[q]) :
                phase' = [phase EXCEPT ![q] = "call"] /\ on' = [on EXCEPT ![q] = u]
           \/ phase' = [phase EXCEPT ![q] = "gaveUp"] /\ on' = [on EXCEPT ![q] = NoUrl]
    BY <1>1, SelectEffect, Zenon
  <2>2. \A p \in Requests \ {q} : phase'[p] = phase[p] /\ on'[p] = on[p] /\ round'[p] = round[p]
    BY <2>1 DEF TypeOK
  <2>3. IsFiniteSet(tried[q]) /\ tried[q] \subseteq Urls \ Ineligible[q] /\ round[q] = Cardinality(tried[q])
    <3>1. IsFiniteSet(tried[q]) /\ tried[q] \subseteq Urls \ Ineligible[q] /\ round[q] = Cardinality(tried[q]) + 0
      BY <2>1 DEF Walks
    <3>2. Cardinality(tried[q]) \in Nat
      BY <3>1, FS_CardinalityType
    <3> QED BY <3>1, <3>2
  <2>4. /\ phase'[q] \in {"call", "gaveUp"} /\ round'[q] = round[q] + 1
        /\ phase'[q] = "call" => on'[q] \in Urls \ (tried[q] \cup Ineligible[q])
    BY <2>1 DEF TypeOK
  <2> QED BY <2>1, <2>2, <2>3, <2>4 DEF Walks
<1>2. ASSUME NEW q \in Requests, OutOfRounds(q) \/ Succeed(q) PROVE Walks'
  BY <1>2 DEF OutOfRounds, Succeed, GiveUp, Walks, TypeOK
<1>3. ASSUME NEW q \in Requests, Fail(q) PROVE Walks'
  <2>1. /\ IsFiniteSet(tried[q]) /\ tried[q] \subseteq Urls \ Ineligible[q]
        /\ round[q] = Cardinality(tried[q]) + 1 /\ on[q] \in Urls \ (tried[q] \cup Ineligible[q])
    BY <1>3 DEF Walks, Fail
  <2>2. /\ IsFiniteSet(tried[q] \cup {on[q]})
        /\ Cardinality(tried[q] \cup {on[q]}) = Cardinality(tried[q]) + 1
    BY <2>1, FS_AddElement
  <2>3. /\ tried'[q] = tried[q] \cup {on[q]} /\ phase'[q] = "walk" /\ round' = round
        /\ \A p \in Requests \ {q} : tried'[p] = tried[p] /\ phase'[p] = phase[p] /\ on'[p] = on[p]
    BY <1>3 DEF Fail, TypeOK
  <2>4. tried'[q] \subseteq Urls \ Ineligible[q] /\ round'[q] = Cardinality(tried'[q]) + 0
    BY <2>1, <2>2, <2>3, FS_CardinalityType
  <2> QED BY <2>2, <2>3, <2>4 DEF Walks
<1>4. ASSUME UNCHANGED <<phase, round, tried, on>> PROVE Walks'
  BY <1>4 DEF Walks
<1> QED BY <1>1, <1>2, <1>3, <1>4 DEF Next, Selects, HealthChanges, vars

\* The ledger arm calls the row it has just read or written.
LEMMA CallsAssigned ==
    ASSUME LedgerInv, NEW q \in Ledgered, Selects(q), phase'[q] = "call"
    PROVE  url'[KeyOf[q]] = on'[q]
<1> USE DEF LedgerInv
<1>0. q \in Requests /\ KeyOf[q] \in Keys
  BY LedgerAssumption
<1>1. ASSUME NEW u, Dispatch(q, u) PROVE on'[q] = u
  BY <1>0, <1>1 DEF Dispatch, GiveUp, TypeOK
<1>2. ~GiveUp(q)
  BY <1>0 DEF GiveUp, TypeOK
<1>3. CASE Assign(q)
  BY <1>0, <1>1, <1>2, <1>3 DEF Assign, Insert, ledger
<1>4. CASE Reassign(q)
  <2>1. PICK u : Put(KeyOf[q], u) /\ Dispatch(q, u)
    BY <1>2, <1>4 DEF Reassign
  <2> QED BY <1>0, <1>1, <2>1 DEF Put, TypeOK
<1> QED BY <1>3, <1>4 DEF Selects, SelectOther

LEMMA LedgerShards == LedgerInv /\ [Next]_vars => SoleShards'
<1> SUFFICES ASSUME LedgerInv, [Next]_vars, NEW p \in Ledgered, Alone(p)
             PROVE  /\ KeyOf[p] \in completed' => phase'[p] = "done"
                    /\ phase'[p] = "walk" /\ round'[p] = 0 => ~Known(KeyOf[p])'
                    /\ phase'[p] = "walk" => url'[KeyOf[p]] \in tried'[p] \cup {NoUrl}
                    /\ phase'[p] = "call" => url'[KeyOf[p]] \in {on'[p], NoUrl}
  BY DEF SoleShards, Alone
<1> USE DEF LedgerInv
<1> DEFINE Goal == /\ KeyOf[p] \in completed' => phase'[p] = "done"
                   /\ phase'[p] = "walk" /\ round'[p] = 0 => ~Known(KeyOf[p])'
                   /\ phase'[p] = "walk" => url'[KeyOf[p]] \in tried'[p] \cup {NoUrl}
                   /\ phase'[p] = "call" => url'[KeyOf[p]] \in {on'[p], NoUrl}
<1>0. /\ p \in Requests /\ KeyOf[p] \in Keys
      /\ KeyOf[p] \in completed => phase[p] = "done"
      /\ phase[p] = "walk" /\ round[p] = 0 => ~Known(KeyOf[p])
      /\ phase[p] = "walk" => url[KeyOf[p]] \in tried[p] \cup {NoUrl}
      /\ phase[p] = "call" => url[KeyOf[p]] \in {on[p], NoUrl}
  BY LedgerAssumption DEF SoleShards
<1>1. ASSUME NEW q \in Requests, Selects(q) PROVE Goal
  <2>1. /\ phase[q] = "walk" /\ tried' = tried
        /\ phase'[q] \in {"call", "gaveUp"}
        /\ \A r \in Requests \ {q} : phase'[r] = phase[r] /\ on'[r] = on[r] /\ round'[r] = round[r]
    <3>1. /\ phase[q] = "walk" /\ tried' = tried /\ round' = [round EXCEPT ![q] = @ + 1]
          /\ \/ \E u \in Urls \ (tried[q] \cup Ineligible[q]) :
                   phase' = [phase EXCEPT ![q] = "call"] /\ on' = [on EXCEPT ![q] = u]
             \/ phase' = [phase EXCEPT ![q] = "gaveUp"] /\ on' = [on EXCEPT ![q] = NoUrl]
      BY <1>1, SelectEffect, Zenon
    <3> QED BY <3>1 DEF TypeOK
  <2>2. KeyOf[q] \in Keys
    BY LedgerAssumption
  \* What is left of the shard of another request.
  <2>3. /\ completed' \subseteq completed
        /\ KeyOf[p] # KeyOf[q] => /\ url'[KeyOf[p]] \in {url[KeyOf[p]], NoUrl}
                                  /\ Known(KeyOf[p])' => Known(KeyOf[p])
    <3>1. CASE UNCHANGED ledger
      BY <3>1 DEF ledger, Known
    <3>2. ASSUME NEW u \in Urls, ~Known(KeyOf[q]), Insert(KeyOf[q], u)
          PROVE  /\ completed' \subseteq completed
                 /\ KeyOf[p] # KeyOf[q] => /\ url'[KeyOf[p]] \in {url[KeyOf[p]], NoUrl}
                                           /\ Known(KeyOf[p])' => Known(KeyOf[p])
      <4>1. /\ completed' \subseteq completed
            /\ Range(order') \subseteq Range(order) \cup {KeyOf[q]}
            /\ \A j \in Keys \ {KeyOf[q]} : /\ j \in Range(order') => url'[j] = url[j]
                                            /\ j \notin Range(order') => url'[j] = NoUrl
        BY <2>2, <3>2, InsertEffect
      <4> QED BY <1>0, <4>1 DEF Known
    <3>3. ASSUME NEW u \in Urls, Put(KeyOf[q], u)
          PROVE  /\ completed' \subseteq completed
                 /\ KeyOf[p] # KeyOf[q] => /\ url'[KeyOf[p]] \in {url[KeyOf[p]], NoUrl}
                                           /\ Known(KeyOf[p])' => Known(KeyOf[p])
      <4>1. /\ url' = [url EXCEPT ![KeyOf[q]] = u] /\ completed' = completed
            /\ Range(order') = Range(order) \cup {KeyOf[q]}
        BY <2>2, <3>3, PutEffect
      <4> QED BY <1>0, <4>1 DEF Known, TypeOK
    <3>4. \/ UNCHANGED ledger
          \/ \E u \in Urls : ~Known(KeyOf[q]) /\ Insert(KeyOf[q], u)
          \/ \E u \in Urls : Put(KeyOf[q], u)
      BY <1>1, SelectEffect, Zenon
    <3> QED BY <3>1, <3>2, <3>3, <3>4
  <2>4. CASE p = q
    <3>1. phase'[p] = "call" => url'[KeyOf[p]] = on'[p]
      BY <1>1, <2>4, CallsAssigned
    <3> QED BY <1>0, <2>1, <2>3, <2>4, <3>1
  <2>5. CASE p # q
    <3>1. KeyOf[p] # KeyOf[q]
      BY <2>5 DEF Alone
    <3> QED BY <1>0, <2>1, <2>3, <2>5, <3>1
  <2> QED BY <2>4, <2>5
<1>2. ASSUME NEW q \in Requests, OutOfRounds(q) PROVE Goal
  BY <1>0, <1>2 DEF OutOfRounds, GiveUp, ledger, Known, TypeOK
<1>3. ASSUME NEW q \in Requests, Succeed(q) PROVE Goal
  <2>1. /\ completed' = completed \cup {KeyOf[q]} /\ UNCHANGED <<order, url, round, tried>>
        /\ phase'[q] = "done" /\ \A r \in Requests \ {q} : phase'[r] = phase[r] /\ on'[r] = on[r]
    BY <1>3 DEF Succeed, TypeOK
  <2>2. p # q => KeyOf[p] # KeyOf[q]
    BY DEF Alone
  <2> QED BY <1>0, <2>1, <2>2 DEF Known
<1>4. ASSUME NEW q \in Requests, Fail(q) PROVE Goal
  <2>1. /\ UNCHANGED <<order, url, completed, round>> /\ phase[q] = "call" /\ phase'[q] = "walk"
        /\ tried'[q] = tried[q] \cup {on[q]}
        /\ \A r \in Requests \ {q} : phase'[r] = phase[r] /\ on'[r] = on[r] /\ tried'[r] = tried[r]
    BY <1>4 DEF Fail, ledger, TypeOK
  <2>2. round[q] # 0
    <3>1. IsFiniteSet(tried[q]) /\ round[q] = Cardinality(tried[q]) + 1
      BY <2>1 DEF Walks
    <3> QED BY <3>1, FS_CardinalityType
  <2> QED BY <1>0, <2>1, <2>2 DEF Known
<1>5. ASSUME UNCHANGED <<order, url, completed, phase, round, tried, on>> PROVE Goal
  BY <1>0, <1>5 DEF Known
<1> QED BY <1>1, <1>2, <1>3, <1>4, <1>5 DEF Next, Selects, HealthChanges, ledger, vars

LEMMA LedgerAlways == Spec => []LedgerInv
<1>1. LedgerInv /\ [Next]_vars => LedgerInv'
  BY LedgerTypes, LedgerOrdered, LedgerWalks, LedgerShards DEF LedgerInv
<1> QED BY <1>1, InitLedger, PTL DEF Spec

-----------------------------------------------------------------------------
(* What the ledger promises *)

\* Every variable keeps its type, whatever is evicted or reassigned.
THEOREM LedgerTypeCorrect == Spec => []TypeOK
BY LedgerAlways, PTL DEF LedgerInv

\* BatchRequestLedger is "Bounded" although reassign_failed writes without
\* _evict_if_full: what is in progress bounds how far the assignments exceed
\* max_entries, and no key is in them twice.
THEOREM Bounded == Spec => []AssignmentsBounded
<1>1. LedgerInv => AssignmentsBounded
  <2> SUFFICES ASSUME LedgerInv PROVE AssignmentsBounded
    OBVIOUS
  <2>1. order \in [1..Len(order) -> Keys] /\ Len(order) \in Nat /\ DOMAIN order = 1..Len(order)
    BY LenProperties DEF LedgerInv, TypeOK
  <2>2. order \in Surjection(1..Len(order), Range(order)) /\ order \in Injection(1..Len(order), Range(order))
    BY <2>1 DEF Surjection, Injection, IsInjective, Range, LedgerInv, Ordered
  <2>3. ASSUME NEW n \in Nat PROVE IsFiniteSet(1..n) /\ Cardinality(1..n) = n
    <3>1. Cardinality(1..n) = (IF 1 <= n THEN n - 1 + 1 ELSE 0) /\ IsFiniteSet(1..n)
      BY FS_Interval
    <3> QED BY <3>1
  <2>4. IsFiniteSet(1..Len(order)) /\ Cardinality(1..Len(order)) = Len(order)
    BY <2>1, <2>3
  <2>5. Cardinality(Range(order)) = Len(order)
    BY <2>2, <2>4, FS_Surjection
  <2>6. /\ InProgress \cap Ledgered \in SUBSET Requests
        /\ Evicted \in SUBSET {KeyOf[q] : q \in InProgress \cap Ledgered}
    BY DEF Evicted, InProgress
  <2>7. Cardinality(Evicted) \in Nat
    BY <2>6, FewEvicted
  <2>8. MaxLive < MaxEntries => Len(order) + Cardinality(Evicted) <= MaxEntries + MaxLive - 1
    BY DEF LedgerInv, Ordered
  <2>9. MaxLive < MaxEntries => Len(order) <= MaxEntries + MaxLive - 1
    BY <2>1, <2>7, <2>8, LedgerAssumption
  <2> QED BY <2>5, <2>9 DEF AssignmentsBounded
<1> QED BY <1>1, LedgerAlways, PTL

\* The arm calls no row that failed the request or that exclude_ids names for
\* its dialect, though the assignment it reads may name such a row.
THEOREM NeverCallsTried == Spec => []CallsUntried
<1>1. LedgerInv => CallsUntried
  BY DEF LedgerInv, Walks, CallsUntried
<1> QED BY <1>1, LedgerAlways, PTL

\* mark_done holds: a completed shard is evicted or stays, but never moves.
THEOREM Completed == Spec => CompletedStays
<1> DEFINE A == \A k \in completed : k \in Range(order) /\ k \in Range(order') => url'[k] = url[k]
<1>1. LedgerInv /\ [Next]_vars => A
  <2> SUFFICES ASSUME LedgerInv, [Next]_vars, NEW k \in completed, k \in Range(order), k \in Range(order')
               PROVE  url'[k] = url[k]
    OBVIOUS
  <2> USE DEF LedgerInv
  <2>1. k \in Keys
    BY DEF TypeOK
  <2>2. ASSUME NEW q \in Requests, Selects(q) PROVE url'[k] = url[k]
    <3>1. KeyOf[q] \in Keys
      BY LedgerAssumption
    <3>2. CASE UNCHANGED ledger
      BY <3>2 DEF ledger
    <3>3. ASSUME NEW u \in Urls, ~Known(KeyOf[q]), Insert(KeyOf[q], u) PROVE url'[k] = url[k]
      <4>1. \A j \in Keys \ {KeyOf[q]} : j \in Range(order') => url'[j] = url[j]
        BY <3>1, <3>3, InsertEffect
      <4>2. k # KeyOf[q]
        BY <3>3 DEF Known
      <4> QED BY <2>1, <4>1, <4>2
    <3>4. ASSUME NEW u \in Urls, KeyOf[q] \notin completed, Put(KeyOf[q], u) PROVE url'[k] = url[k]
      <4>1. url' = [url EXCEPT ![KeyOf[q]] = u] /\ k # KeyOf[q]
        BY <3>1, <3>4, PutEffect
      <4> QED BY <2>1, <4>1 DEF TypeOK
    <3>5. \/ UNCHANGED ledger
          \/ \E u \in Urls : ~Known(KeyOf[q]) /\ Insert(KeyOf[q], u)
          \/ \E u \in Urls : KeyOf[q] \notin completed /\ Put(KeyOf[q], u)
      BY <2>2, SelectEffect, Zenon
    <3> QED BY <3>2, <3>3, <3>4, <3>5
  <2>3. CASE UNCHANGED url
    BY <2>3
  <2> QED BY <2>2, <2>3 DEF Next, Selects, OutOfRounds, Succeed, Fail, HealthChanges, ledger, vars
<1>2. LedgerInv /\ [Next]_vars => [A]_vars
  BY <1>1
<1> QED BY <1>2, LedgerAlways, PTL DEF Spec, CompletedStays

\* _evict_if_full drops half, which is more than the shards in progress can
\* have put back: after a new assignment the ledger is within its limit.
THEOREM Eviction == Spec => EvictionMakesRoom
<1> DEFINE A == \A q \in Requests : Assign(q) /\ order' # order => Len(order') <= MaxEntries
<1>1. LedgerInv /\ MaxLive < MaxEntries => A
  <2> SUFFICES ASSUME LedgerInv, MaxLive < MaxEntries, NEW q \in Requests, Assign(q), order' # order
               PROVE  Len(order') <= MaxEntries
    OBVIOUS
  <2> USE DEF LedgerInv
  <2>1. PICK u \in Urls : ~Known(KeyOf[q]) /\ Insert(KeyOf[q], u)
    <3>1. \/ UNCHANGED ledger
          \/ \E u \in Urls : ~Known(KeyOf[q]) /\ Assign(q) /\ Insert(KeyOf[q], u)
          \/ \E u \in Urls : KeyOf[q] \notin completed /\ Reassign(q) /\ Put(KeyOf[q], u)
      <4>1. Selects(q)
        BY DEF Selects
      <4> QED BY <4>1, SelectEffect, Zenon
    <3>2. ~UNCHANGED ledger
      BY DEF ledger
    <3>3. ~Reassign(q)
      BY DEF Assign, Reassign
    <3> QED BY <3>1, <3>2, <3>3
  <2>2. /\ KeyOf[q] \in Keys /\ Len(order) \in Nat
        /\ MaxEntries \in Nat /\ MaxLive \in Nat \ {0}
    BY LedgerAssumption, LenProperties DEF TypeOK
  <2>3. /\ Len(order) < MaxEntries => Len(order') <= MaxEntries
        /\ Len(order) >= MaxEntries => 2 * Len(order') <= Len(order) + 3
        /\ Len(order') \in Nat
    BY <2>1, <2>2, InsertEffect
  <2>4. Len(order) + Cardinality(Evicted) <= MaxEntries + MaxLive - 1
    BY DEF Ordered
  <2>5. Cardinality(Evicted) \in Nat
    <3>1. /\ InProgress \cap Ledgered \in SUBSET Requests
          /\ Evicted \in SUBSET {KeyOf[p] : p \in InProgress \cap Ledgered}
      BY DEF Evicted, InProgress
    <3> QED BY <3>1, FewEvicted
  <2> QED BY <2>2, <2>3, <2>4, <2>5
<1>2. CASE MaxLive < MaxEntries
  <2>1. LedgerInv => [A]_vars
    BY <1>1, <1>2
  <2>2. Spec => [][A]_vars
    BY <2>1, LedgerAlways, PTL
  <2> QED BY <2>2 DEF EvictionMakesRoom
<1>3. CASE ~(MaxLive < MaxEntries)
  BY <1>3 DEF EvictionMakesRoom
<1> QED BY <1>2, <1>3

\* No candidate is left when every healthy row has failed the request.
LEMMA NoneLeft ==
    ASSUME TypeOK, NEW q \in Requests, Candidates(q) = {}
    PROVE  Exhausted(q)
<1>1. \A u \in Urls : \E i \in DOMAIN Rows : Rows[i] = u
  BY DEF Urls, Range
<1> QED BY <1>1 DEF Candidates, Exhausted, TypeOK

\* A shard that one request carries is tried on every healthy row before that
\* request gives up: no eviction, no other batch, no change of health and no
\* index makes the ledger lose its place.
THEOREM SoleShard == Spec => SoleShardExhausts
<1> DEFINE A == \A q \in Requests : Alone(q) /\ GivesUp(q) => Exhausted(q)
<1>1. LedgerInv /\ [Next]_vars => A
  <2> SUFFICES ASSUME LedgerInv, [Next]_vars, NEW q \in Requests, Alone(q),
                      phase[q] # "gaveUp", phase'[q] = "gaveUp"
               PROVE  Exhausted(q)
    BY DEF GivesUp
  <2> USE DEF LedgerInv
  <2>1. \A p \in Requests : Selects(p) \/ OutOfRounds(p) => p = q
    <3>1. \A p \in Requests : Selects(p) => phase'[q] = phase[q] \/ p = q
      BY SelectEffect DEF TypeOK
    <3>2. \A p \in Requests : OutOfRounds(p) => phase'[q] = phase[q] \/ p = q
      BY DEF OutOfRounds, GiveUp, TypeOK
    <3> QED BY <3>1, <3>2
  <2>2. \A i \in Candidates(q) : ~Dispatch(q, Rows[i])
    BY DEF Dispatch, TypeOK
  <2>3. CASE Assign(q)
    <3>1. ~Known(KeyOf[q])
      BY <2>3 DEF Assign, SoleShards
    <3>2. Candidates(q) = {}
      <4> SUFFICES ASSUME Candidates(q) # {} PROVE FALSE
        OBVIOUS
      <4> DEFINE i == Nth(Candidates(q), IndexOf[KeyOf[q]] % Cardinality(Candidates(q)))
      <4>1. Dispatch(q, Rows[i])
        BY <2>3, <3>1 DEF Assign
      <4>2. i \in Candidates(q)
        BY PlacesAreRows, LedgerAssumption
      <4> QED BY <2>2, <4>1, <4>2
    <3> QED BY <3>2, NoneLeft
  <2>4. CASE Reassign(q)
    <3> DEFINE later == Later(Candidates(q), url[KeyOf[q]])
    <3>1. KeyOf[q] \notin completed /\ url[KeyOf[q]] \in tried[q] \cup {NoUrl}
      BY <2>4 DEF Reassign, SoleShards
    <3>2. \A i \in Candidates(q) : Rows[i] # url[KeyOf[q]]
      BY <3>1, FiniteUrls, LedgerAssumption DEF Candidates
    <3>3. later = Candidates(q)
      BY <3>2 DEF Later
    <3>4. CASE later # {}
      <4>1. Dispatch(q, Rows[Nth(later, 0)])
        BY <2>4, <3>1, <3>4 DEF Reassign
      <4>2. Nth(later, 0) \in later
        BY <3>4, PlacesAreRows
      <4> QED BY <2>2, <3>3, <4>1, <4>2
    <3> QED BY <3>3, <3>4, NoneLeft
  <2>5. CASE SelectOther(q)
    <3>1. Candidates(q) = {}
      BY <2>2, <2>5 DEF SelectOther
    <3> QED BY <3>1, NoneLeft
  <2>6. CASE OutOfRounds(q)
    <3>1. /\ IsFiniteSet(tried[q]) /\ tried[q] \subseteq Urls \ Ineligible[q]
          /\ round[q] = Cardinality(tried[q]) /\ round[q] >= Cardinality(Urls \ Ineligible[q])
      <4>1. /\ IsFiniteSet(tried[q]) /\ tried[q] \subseteq Urls \ Ineligible[q]
            /\ round[q] = Cardinality(tried[q]) + 0 /\ round[q] >= Cardinality(Urls \ Ineligible[q])
        BY <2>6 DEF OutOfRounds, Rounds, Walks
      <4>2. Cardinality(tried[q]) \in Nat
        BY <4>1, FS_CardinalityType
      <4> QED BY <4>1, <4>2
    <3>2. IsFiniteSet(Urls \ Ineligible[q])
      BY FiniteUrls, FS_Subset
    <3>3. /\ Cardinality(tried[q]) <= Cardinality(Urls \ Ineligible[q])
          /\ Cardinality(Urls \ Ineligible[q]) = Cardinality(tried[q]) => Urls \ Ineligible[q] = tried[q]
      BY <3>1, <3>2, FS_Subset
    <3>4. Cardinality(tried[q]) \in Nat /\ Cardinality(Urls \ Ineligible[q]) \in Nat
      BY <3>1, <3>2, FS_CardinalityType
    <3>5. Urls \ Ineligible[q] = tried[q]
      BY <3>1, <3>3, <3>4
    <3> QED BY <3>5 DEF Exhausted, TypeOK
  <2>7. CASE \E p \in Requests : Succeed(p) \/ Fail(p)
    BY <2>7 DEF Succeed, Fail, TypeOK
  <2>8. CASE UNCHANGED phase
    BY <2>8
  <2> QED BY <2>1, <2>3, <2>4, <2>5, <2>6, <2>7, <2>8 DEF Next, Selects, HealthChanges, vars
<1>2. LedgerInv /\ [Next]_vars => [A]_vars
  BY <1>1
<1> QED BY <1>2, LedgerAlways, PTL DEF Spec, SoleShardExhausts
=============================================================================
