--------------------------- MODULE RoutingProofs ---------------------------
(* Selection for any rows, models, policies and requests: what a header or a *)
(* gateway forbids is never called, a model asked for by name comes before   *)
(* its stand-ins, and a resolution holds until the next reload.              *)
EXTENDS Routing, Integers, SequenceTheorems, WellFoundedInduction, TLAPS

-----------------------------------------------------------------------------
(* Only and Prefer.  upTo is a recursive function: that there is one is     *)
(* shown for every prefix of s, from the least that would have none.         *)

Choice(s, T, f, i) ==
    IF i = 0 THEN <<>>
    ELSE IF s[i] \in T THEN Append(f[i - 1], s[i]) ELSE f[i - 1]
UpTo(s, T, n, f) == f = [i \in 0..n |-> Choice(s, T, f, i)]

LEMMA UpToExists ==
    ASSUME NEW s, NEW T, NEW n \in Nat
    PROVE  \E f : UpTo(s, T, n, f)
<1> DEFINE Bad == {k \in Nat : ~ \E f : UpTo(s, T, k, f)}
<1> SUFFICES ASSUME n \in Bad PROVE FALSE
  OBVIOUS
<1>1. PICK m \in Bad : \A k \in Bad : ~ (<<k, m>> \in OpToRel(<, Nat))
  BY WFMin, NatLessThanWellFounded
<1>2. m \in Nat /\ \A k \in Nat : k < m => k \notin Bad
  BY <1>1 DEF OpToRel
<1>3. CASE m = 0
  <2> DEFINE f == [i \in 0..0 |-> <<>>]
  <2>1. f = [i \in 0..0 |-> Choice(s, T, f, i)]
    BY DEF Choice
  <2>2. QED
    BY <1>1, <1>3, <2>1 DEF UpTo
<1>4. CASE m # 0
  <2>1. m - 1 \in Nat /\ m - 1 < m
    BY <1>2, <1>4
  <2>2. PICK g : UpTo(s, T, m - 1, g)
    BY <1>2, <2>1
  <2> DEFINE f == [i \in 0..m |-> Choice(s, T, g, i)]
  <2>3. \A i \in 0..(m - 1) : f[i] = g[i]
    BY <2>1, <2>2 DEF UpTo
  <2>4. \A i \in 0..m : f[i] = Choice(s, T, f, i)
    <3>1. \A i \in 0..m : f[i] = Choice(s, T, g, i)
      OBVIOUS
    <3> HIDE DEF f
    <3>2. \A i \in 0..m : i # 0 => f[i - 1] = g[i - 1]
      BY <1>2, <2>3
    <3>3. QED
      BY <3>1, <3>2 DEF Choice
  <2>5. f = [i \in 0..m |-> Choice(s, T, f, i)]
    BY <2>4
  <2>6. QED
    BY <2>5, <1>1 DEF UpTo
<1>5. QED
  BY <1>3, <1>4

LEMMA OnlyIs ==
    ASSUME NEW s, NEW T, Len(s) \in Nat
    PROVE  \E f : UpTo(s, T, Len(s), f) /\ Only(s, T) = f[Len(s)]
<1> DEFINE F == CHOOSE f : f = [i \in 0..Len(s) |-> Choice(s, T, f, i)]
<1>1. \E f : f = [i \in 0..Len(s) |-> Choice(s, T, f, i)]
  BY UpToExists DEF UpTo
<1>2. F = [i \in 0..Len(s) |-> Choice(s, T, F, i)]
  BY <1>1
<1>3. Only(s, T) = F[Len(s)]
  BY DEF Only, Choice
<1>4. QED
  BY <1>2, <1>3 DEF UpTo

\* Every element of s in T is in w.
HasAll(s, T, w) == \A i \in 1..Len(s) : s[i] \in T => \E j \in 1..Len(w) : w[j] = s[i]

LEMMA OnlyType ==
    ASSUME NEW S, NEW s \in Seq(S), NEW T
    PROVE  /\ Only(s, T) \in Seq(S \cap T)
           /\ (\E i \in 1..Len(s) : s[i] \in T) => Only(s, T) # <<>>
           /\ HasAll(s, T, Only(s, T))
<1>1. Len(s) \in Nat /\ \A i \in 1..Len(s) : s[i] \in S
  BY LenProperties, ElementOfSeq
<1>2. PICK f : UpTo(s, T, Len(s), f) /\ Only(s, T) = f[Len(s)]
  BY <1>1, OnlyIs
<1>3. f[0] = <<>>
  BY <1>1, <1>2 DEF UpTo, Choice
<1>4. \A i \in 1..Len(s) : f[i] = IF s[i] \in T THEN Append(f[i - 1], s[i]) ELSE f[i - 1]
  <2>1. \A i \in 0..Len(s) : f[i] = Choice(s, T, f, i)
    BY <1>2 DEF UpTo
  <2>2. \A i \in 1..Len(s) : i \in 0..Len(s) /\ i # 0
    BY <1>1
  <2>3. QED
    BY <2>1, <2>2 DEF Choice
<1> DEFINE Good(n) == /\ f[n] \in Seq(S \cap T)
                      /\ \A i \in 1..n : s[i] \in T => \E j \in 1..Len(f[n]) : f[n][j] = s[i]
           Bad == {n \in 0..Len(s) : ~Good(n)}
<1>5. Good(0)
  BY <1>3, EmptySeq
<1>6. ASSUME NEW n \in 1..Len(s), Good(n - 1) PROVE Good(n)
  <2>1. f[n - 1] \in Seq(S \cap T) /\ Len(f[n - 1]) \in Nat
    BY <1>6, LenProperties
  <2>2. CASE s[n] \in T
    <3>1. f[n] = Append(f[n - 1], s[n]) /\ s[n] \in S \cap T
      BY <1>1, <1>4, <2>2
    <3>2. /\ f[n] \in Seq(S \cap T) /\ Len(f[n]) = Len(f[n - 1]) + 1
          /\ f[n][Len(f[n - 1]) + 1] = s[n]
          /\ \A j \in 1..Len(f[n - 1]) : f[n][j] = f[n - 1][j]
      BY <2>1, <3>1, AppendProperties
    <3>3. ASSUME NEW i \in 1..n, s[i] \in T PROVE \E j \in 1..Len(f[n]) : f[n][j] = s[i]
      <4>1. CASE i = n
        <5>1. Len(f[n]) \in 1..Len(f[n])
          BY <2>1, <3>2
        <5>2. QED
          BY <3>2, <4>1, <5>1
      <4>2. CASE i # n
        <5>1. i \in 1..(n - 1)
          BY <4>2
        <5>2. PICK j \in 1..Len(f[n - 1]) : f[n - 1][j] = s[i]
          BY <1>6, <3>3, <5>1
        <5>3. j \in 1..Len(f[n]) /\ f[n][j] = s[i]
          BY <2>1, <3>2, <5>2
        <5>4. QED
          BY <5>3
      <4>3. QED
        BY <4>1, <4>2
    <3>4. QED
      BY <3>2, <3>3
  <2>3. CASE s[n] \notin T
    <3>1. f[n] = f[n - 1]
      BY <1>4, <2>3
    <3>2. \A i \in 1..n : i = n \/ i \in 1..(n - 1)
      BY <1>1
    <3>3. QED
      BY <1>6, <2>3, <3>1, <3>2
  <2>4. QED
    BY <2>2, <2>3
<1> HIDE DEF Good
<1>7. Bad = {}
  <2> SUFFICES ASSUME Bad # {} PROVE FALSE
    OBVIOUS
  <2>1. Bad \subseteq Nat
    BY <1>1
  <2>2. PICK m \in Bad : \A k \in Bad : ~ (<<k, m>> \in OpToRel(<, Nat))
    BY <2>1, WFMin, NatLessThanWellFounded
  <2>3. m \in 0..Len(s) /\ m \in Nat /\ ~Good(m)
    BY <1>1
  <2>4. m # 0
    BY <1>5, <2>3
  <2>5. m - 1 \in Nat /\ m - 1 \in 0..Len(s) /\ m \in 1..Len(s) /\ m - 1 < m
    BY <1>1, <2>3, <2>4
  <2>6. ~Good(m - 1)
    BY <1>6, <2>3, <2>5
  <2>7. <<m - 1, m>> \in OpToRel(<, Nat)
    BY <2>3, <2>5 DEF OpToRel
  <2>8. QED
    BY <2>2, <2>5, <2>6, <2>7
<1>8. Good(Len(s))
  BY <1>1, <1>7
<1>9. QED
  <2>1. Only(s, T) \in Seq(S \cap T)
    BY <1>2, <1>8 DEF Good
  <2>2. HasAll(s, T, Only(s, T))
    BY <1>2, <1>8 DEF Good, HasAll
  <2>3. ASSUME \E i \in 1..Len(s) : s[i] \in T PROVE Only(s, T) # <<>>
    BY <2>2, <2>3, EmptySeq DEF HasAll
  <2>4. QED
    BY <2>1, <2>2, <2>3

LEMMA OnlyKeeps ==
    ASSUME NEW S, NEW s \in Seq(S), NEW T, NEW i \in 1..Len(s), s[i] \in T
    PROVE  \E j \in 1..Len(Only(s, T)) : Only(s, T)[j] = s[i]
<1>1. HasAll(s, T, Only(s, T))
  BY OnlyType
<1>2. QED
  BY <1>1 DEF HasAll

\* Prefer keeps what it is given, and never leaves nothing of something.
LEMMA PreferType ==
    ASSUME NEW S, NEW s \in Seq(S), NEW T
    PROVE  Prefer(s, T) \in Seq(S) /\ (s # <<>> => Prefer(s, T) # <<>>)
<1>1. CASE \E i \in DOMAIN s : s[i] \in T
  <2>1. DOMAIN s = 1..Len(s)
    BY LenProperties
  <2>2. Only(s, T) \in Seq(S \cap T) /\ Only(s, T) # <<>>
    BY <1>1, <2>1, OnlyType
  <2>3. Only(s, T) \in Seq(S)
    BY <2>2, SeqMonotonic
  <2>4. QED
    BY <1>1, <2>2, <2>3 DEF Prefer
<1>2. CASE ~ \E i \in DOMAIN s : s[i] \in T
  BY <1>2 DEF Prefer
<1>3. QED
  BY <1>1, <1>2

\* The least of finitely many numbers, the first of equals.
LEMMA LeastIndex ==
    ASSUME NEW n \in Nat \ {0}, NEW f \in [1..n -> Int]
    PROVE  \E i \in 1..n : \A j \in 1..n : f[i] < f[j] \/ (f[i] = f[j] /\ i <= j)
<1> DEFINE Good(k) == \E i \in 1..k : \A j \in 1..k : f[i] < f[j] \/ (f[i] = f[j] /\ i <= j)
           Bad == {k \in 1..n : ~Good(k)}
<1>1. Good(1)
  OBVIOUS
<1>2. ASSUME NEW k \in 2..n, Good(k - 1) PROVE Good(k)
  <2>1. PICK i \in 1..(k - 1) : \A j \in 1..(k - 1) : f[i] < f[j] \/ (f[i] = f[j] /\ i <= j)
    BY <1>2
  <2>2. /\ k \in 1..n /\ i \in 1..n /\ i \in 1..k /\ i < k
        /\ \A j \in 1..k : j \in 1..n /\ (j = k \/ j \in 1..(k - 1)) /\ f[j] \in Int
    BY <1>2, <2>1
  <2>3. CASE f[i] <= f[k]
    <3>1. \A j \in 1..k : f[i] < f[j] \/ (f[i] = f[j] /\ i <= j)
      BY <2>1, <2>2, <2>3
    <3>2. QED
      BY <2>2, <3>1
  <2>4. CASE f[k] < f[i]
    <3>1. \A j \in 1..k : f[k] < f[j] \/ (f[k] = f[j] /\ k <= j)
      BY <2>1, <2>2, <2>4
    <3>2. QED
      BY <2>2, <3>1
  <2>5. QED
    BY <2>2, <2>3, <2>4
<1> HIDE DEF Good
<1>3. Bad = {}
  <2> SUFFICES ASSUME Bad # {} PROVE FALSE
    OBVIOUS
  <2>1. Bad \subseteq Nat
    OBVIOUS
  <2>2. PICK m \in Bad : \A k \in Bad : ~ (<<k, m>> \in OpToRel(<, Nat))
    BY <2>1, WFMin, NatLessThanWellFounded
  <2>3. m \in 1..n /\ ~Good(m)
    OBVIOUS
  <2>4. m # 1
    BY <1>1, <2>3
  <2>5. m - 1 \in Nat /\ m \in Nat /\ m - 1 \in 1..n /\ m \in 2..n /\ m - 1 < m
    BY <2>3, <2>4
  <2>6. ~Good(m - 1)
    BY <1>2, <2>3, <2>5
  <2>7. <<m - 1, m>> \in OpToRel(<, Nat)
    BY <2>5 DEF OpToRel
  <2>8. QED
    BY <2>2, <2>5, <2>6, <2>7
<1>4. Good(n)
  BY <1>3
<1>5. QED
  BY <1>4 DEF Good

-----------------------------------------------------------------------------
(* What the strategies choose is a row of the sequence they are given.      *)

LEMMA NotEmpty ==
    ASSUME NEW S, NEW s \in Seq(S), s # <<>>
    PROVE  Len(s) \in Nat \ {0} /\ DOMAIN s = 1..Len(s) /\ \A i \in 1..Len(s) : s[i] \in S
BY EmptySeq, LenProperties, ElementOfSeq

LEMMA OfNothing == ASSUME NEW s \in Seq({}) PROVE s = <<>>
BY NotEmpty

Loaded == load \in [Rows -> Int]

LEMMA LightestIn ==
    ASSUME Loaded, NEW S \in SUBSET Rows, NEW s \in Seq(S), s # <<>>
    PROVE  \E i \in 1..Len(s) : Lightest(s) = s[i]
<1>1. Len(s) \in Nat \ {0} /\ DOMAIN s = 1..Len(s) /\ \A i \in 1..Len(s) : s[i] \in S
  BY NotEmpty
<1> DEFINE f == [i \in 1..Len(s) |-> load[s[i]]]
<1>2. f \in [1..Len(s) -> Int]
  BY <1>1 DEF Loaded
<1>3. \E i \in 1..Len(s) : \A j \in 1..Len(s) : f[i] < f[j] \/ (f[i] = f[j] /\ i <= j)
  <2> HIDE DEF f
  <2>1. QED
    BY <1>1, <1>2, LeastIndex
<1>4. \E i \in DOMAIN s : \A j \in DOMAIN s :
          load[s[i]] < load[s[j]] \/ (load[s[i]] = load[s[j]] /\ i <= j)
  BY <1>1, <1>3
<1>5. QED
  BY <1>1, <1>4 DEF Lightest

LEMMA TiedIn ==
    ASSUME Loaded, NEW S \in SUBSET Rows, NEW s \in Seq(S), s # <<>>
    PROVE  Tied(s) \in Seq(S) /\ Tied(s) # <<>>
<1> DEFINE t == IF story.gateway THEN Prefer(s, Roomy) ELSE s
           T == {b \in Rows : load[b] = load[Lightest(t)]}
<1>1. t \in Seq(S) /\ t # <<>>
  BY PreferType
<1>2. Tied(s) = Only(t, T)
  BY DEF Tied
<1> HIDE DEF t
<1>3. PICK i \in 1..Len(t) : Lightest(t) = t[i]
  BY <1>1, LightestIn
<1>4. t[i] \in S /\ t[i] \in T
  BY <1>1, <1>3, NotEmpty
<1> HIDE DEF T
<1>5. Only(t, T) \in Seq(S \cap T) /\ Only(t, T) # <<>>
  BY <1>1, <1>4, OnlyType
<1>6. QED
  BY <1>2, <1>5, SeqMonotonic

LEMMA FastestIn ==
    ASSUME \A b \in Rows : Row(b).ms \in Nat, NEW S \in SUBSET Rows, NEW s \in Seq(S), s # <<>>
    PROVE  Fastest(s) \in S
<1> DEFINE t == Prefer(s, {b \in Rows : Row(b).ms > 0})
           f == [i \in 1..Len(t) |-> Row(t[i]).ms]
<1>1. t \in Seq(S) /\ t # <<>>
  BY PreferType
<1>2. Fastest(s) = t[CHOOSE i \in DOMAIN t : \A j \in DOMAIN t :
               Row(t[i]).ms < Row(t[j]).ms \/ (Row(t[i]).ms = Row(t[j]).ms /\ i <= j)]
  BY DEF Fastest
<1> HIDE DEF t
<1>3. Len(t) \in Nat \ {0} /\ DOMAIN t = 1..Len(t) /\ \A i \in 1..Len(t) : t[i] \in S
  BY <1>1, NotEmpty
<1>4. f \in [1..Len(t) -> Int]
  BY <1>3
<1>5. \E i \in 1..Len(t) : \A j \in 1..Len(t) : f[i] < f[j] \/ (f[i] = f[j] /\ i <= j)
  <2> HIDE DEF f
  <2>1. QED
    BY <1>3, <1>4, LeastIndex
<1>6. \E i \in DOMAIN t : \A j \in DOMAIN t :
          Row(t[i]).ms < Row(t[j]).ms \/ (Row(t[i]).ms = Row(t[j]).ms /\ i <= j)
  BY <1>3, <1>5
<1>7. QED
  BY <1>2, <1>3, <1>6

LEMMA RendezvousIn ==
    ASSUME NEW key, \A b \in Rows : Score[<<key, b>>] \in Nat,
           NEW S \in SUBSET Rows, NEW s \in Seq(S), s # <<>>
    PROVE  Rendezvous(key, s) \in S
<1> DEFINE f == [i \in 1..Len(s) |-> 0 - Score[<<key, s[i]>>]]
<1>1. Len(s) \in Nat \ {0} /\ DOMAIN s = 1..Len(s) /\ \A i \in 1..Len(s) : s[i] \in S
  BY NotEmpty
<1>2. f \in [1..Len(s) -> Int]
  BY <1>1
<1>3. \E i \in 1..Len(s) : \A j \in 1..Len(s) : f[i] < f[j] \/ (f[i] = f[j] /\ i <= j)
  <2> HIDE DEF f
  <2>1. QED
    BY <1>1, <1>2, LeastIndex
<1>4. \A i \in 1..Len(s) : Score[<<key, s[i]>>] \in Nat
  BY <1>1
<1>5. \E i \in DOMAIN s : \A j \in DOMAIN s : Score[<<key, s[i]>>] >= Score[<<key, s[j]>>]
  <2>1. PICK i \in 1..Len(s) : \A j \in 1..Len(s) : f[i] < f[j] \/ (f[i] = f[j] /\ i <= j)
    BY <1>3
  <2>2. ASSUME NEW j \in 1..Len(s) PROVE Score[<<key, s[i]>>] >= Score[<<key, s[j]>>]
    <3>1. f[i] = 0 - Score[<<key, s[i]>>] /\ f[j] = 0 - Score[<<key, s[j]>>]
      OBVIOUS
    <3>2. f[i] < f[j] \/ f[i] = f[j]
      BY <2>1
    <3> HIDE DEF f
    <3>3. QED
      BY <1>4, <3>1, <3>2
  <2>3. QED
    BY <1>1, <2>2
<1>6. CASE key \in DOMAIN Number
  <2>1. Number[key] \in Nat
    BY <1>6, RoutingAssumption DEF RoutingAssumption
  <2>2. (Number[key] % Len(s)) + 1 \in 1..Len(s)
    BY <1>1, <2>1
  <2>3. Rendezvous(key, s) = s[(Number[key] % Len(s)) + 1]
    BY <1>6 DEF Rendezvous
  <2>4. QED
    BY <1>1, <2>2, <2>3
<1>7. CASE key \notin DOMAIN Number
  BY <1>1, <1>5, <1>7 DEF Rendezvous
<1>8. QED
  BY <1>6, <1>7

LEMMA SpilloverIn ==
    ASSUME Loaded, NEW S \in SUBSET Rows, NEW s \in Seq(S), s # <<>>
    PROVE  Spillover(s, FALSE) \in S
<1> DEFINE local == Only(s, Locals)
           remote == Only(s, Rows \ Locals)
           roomy == Only(remote, Roomy)
           best == Lightest(local)
           rest == IF story.gateway THEN roomy ELSE remote
           away == Lightest(rest)
           far == IF story.gateway /\ roomy # <<>> THEN roomy ELSE remote
<1>1. local \in Seq(S \cap Locals) /\ remote \in Seq(S \cap (Rows \ Locals))
  BY OnlyType
<1>2. local \in Seq(S) /\ remote \in Seq(S)
  BY <1>1, SeqMonotonic
<1>3. local # <<>> \/ remote # <<>>
  <2>1. s[1] \in S /\ 1 \in 1..Len(s)
    BY NotEmpty
  <2>2. s[1] \in Locals \/ s[1] \in Rows \ Locals
    BY <2>1
  <2>3. QED
    BY <2>1, <2>2, OnlyType
<1>4. Spillover(s, FALSE) =
          IF local = <<>> THEN Lightest(far)
          ELSE IF load[best] < story.threshold /\ best \in Roomy THEN best
          ELSE IF away # NoRow /\ load[away] < load[best] THEN away ELSE best
  BY DEF Spillover
<1> HIDE DEF local, remote
<1>5. roomy \in Seq(S)
  <2>1. roomy \in Seq(S \cap Roomy)
    BY <1>2, OnlyType
  <2>2. QED
    BY <2>1, SeqMonotonic
<1> HIDE DEF roomy
<1>6. ASSUME NEW t \in Seq(S), t # <<>> PROVE Lightest(t) \in S
  BY <1>6, LightestIn, NotEmpty
<1>7. CASE local = <<>>
  <2>1. far \in Seq(S) /\ far # <<>>
    BY <1>2, <1>3, <1>5, <1>7
  <2> HIDE DEF far
  <2>2. QED
    BY <1>4, <1>6, <1>7, <2>1
<1>8. CASE local # <<>>
  <2>1. best \in S
    BY <1>2, <1>6, <1>8
  <2>2. rest \in Seq(S)
    BY <1>2, <1>5
  <2> HIDE DEF rest
  <2>3. away \in S \/ away = NoRow
    BY <1>6, <2>2 DEF Lightest
  <2> HIDE DEF best, away
  <2>4. QED
    BY <1>4, <1>8, <2>1, <2>3
<1>9. QED
  BY <1>7, <1>8

LEMMA StrategyIn ==
    ASSUME Loaded, \A b \in Rows : Row(b).ms \in Nat,
           NEW key, \A b \in Rows : Score[<<key, b>>] \in Nat,
           NEW S \in SUBSET Rows, NEW s \in Seq(S), turn \in Nat, NEW attempt \in Nat \ {0}, NEW how, NEW tried
    PROVE  ByStrategy(how, s, key, attempt, tried) \in S \cup {NoRow}
<1>1. CASE s = <<>>
  BY <1>1 DEF ByStrategy
<1>2. CASE s # <<>>
  <2>1. Len(s) \in Nat \ {0} /\ DOMAIN s = 1..Len(s) /\ \A i \in 1..Len(s) : s[i] \in S
    BY <1>2, NotEmpty
  <2>3. CASE how = "round_robin"
    <3>1. (turn % Len(s)) + 1 \in 1..Len(s)
      BY <2>1
    <3>2. ByStrategy(how, s, key, attempt, tried) = s[(turn % Len(s)) + 1]
      BY <1>2, <2>3 DEF ByStrategy
    <3>3. QED
      BY <2>1, <3>1, <3>2
  <2>4. CASE how = "least_load"
    <3> DEFINE t == Tied(s)
    <3>1. t \in Seq(S) /\ t # <<>>
      BY <1>2, TiedIn
    <3>2. ByStrategy(how, s, key, attempt, tried) = t[(turn % Len(t)) + 1]
      BY <1>2, <2>4 DEF ByStrategy
    <3> HIDE DEF t
    <3>3. Len(t) \in Nat \ {0} /\ \A i \in 1..Len(t) : t[i] \in S
      BY <3>1, NotEmpty
    <3>4. (turn % Len(t)) + 1 \in 1..Len(t)
      BY <3>3
    <3>5. QED
      BY <3>2, <3>3, <3>4
  <2>5. CASE how = "latency_weighted"
    BY <1>2, <2>5, FastestIn DEF ByStrategy
  <2>6. CASE how = "local_spillover"
    BY <1>2, <2>6, SpilloverIn DEF ByStrategy
  <2>7. CASE how = "batch_shard" /\ key # ""
    BY <1>2, <2>7, RendezvousIn DEF ByStrategy
  <2>8. CASE how = "local_first"
    <3> DEFINE t == Prefer(s, Locals)
    <3>1. t \in Seq(S) /\ t # <<>>
      BY <1>2, PreferType
    <3>2. ByStrategy(how, s, key, attempt, tried) = IF key # "" THEN Rendezvous(key, t) ELSE t[1]
      BY <1>2, <2>8 DEF ByStrategy
    <3> HIDE DEF t
    <3>3. Rendezvous(key, t) \in S
      BY <3>1, RendezvousIn
    <3>4. t[1] \in S
      BY <3>1, NotEmpty
    <3>5. QED
      BY <3>2, <3>3, <3>4
  <2>9. CASE how = "failover" /\ tried = {}
    <3>1. (IF attempt <= Len(s) THEN attempt ELSE Len(s)) \in 1..Len(s)
      BY <2>1
    <3>2. ByStrategy(how, s, key, attempt, tried) = s[IF attempt <= Len(s) THEN attempt ELSE Len(s)]
      BY <1>2, <2>9 DEF ByStrategy
    <3>3. QED
      BY <2>1, <3>1, <3>2
  <2>10. CASE /\ how \notin {"round_robin", "least_load", "latency_weighted",
                             "local_spillover", "local_first"}
              /\ ~(how = "batch_shard" /\ key # "")
              /\ ~(how = "failover" /\ tried = {})
    <3>1. ByStrategy(how, s, key, attempt, tried) = s[1]
      BY <1>2, <2>10 DEF ByStrategy
    <3>2. QED
      BY <2>1, <3>1
  <2>11. QED
    BY <2>3, <2>4, <2>5, <2>6, <2>7, <2>8, <2>9, <2>10
<1>3. QED
  BY <1>1, <1>2

-----------------------------------------------------------------------------
(* A selection for a plan that is local searches local rows only, and each  *)
(* filter and preference narrows or reorders what the search found.         *)

LEMMA Narrows ==
    ASSUME NEW S, NEW s \in Seq(S), NEW T
    PROVE  Only(s, T) \in Seq(S) /\ Prefer(s, T) \in Seq(S)
<1>1. Only(s, T) \in Seq(S \cap T)
  BY OnlyType
<1>2. Only(s, T) \in Seq(S)
  BY <1>1, SeqMonotonic
<1>3. QED
  BY <1>2, PreferType

LEMMA SearchLocal ==
    ASSUME story.order \in Seq(Rows), NEW d, d.local
    PROVE  Searchable(d.local) \in Seq(Locals)
<1> DEFINE T == {b \in Rows : Row(b).cloud = ""} \cup pooled
<1>1. Pool = Only(story.order, T)
  BY DEF Pool
<1>2. Pool \in Seq(Rows \cap T)
  BY <1>1, OnlyType
<1>3. Pool \in Seq(Rows)
  BY <1>2, SeqMonotonic
<1>4. Only(Pool, Locals) \in Seq(Rows \cap Locals)
  BY <1>3, OnlyType
<1>5. Rows \cap Locals = Locals
  BY DEF Locals
<1>6. QED
  BY <1>4, <1>5 DEF Searchable

LEMMA MatchingIn ==
    ASSUME NEW S, NEW m, NEW d,
           (IF LiteralRows(m, d) # <<>> THEN LiteralRows(m, d) ELSE OverflowRows(m, d)) \in Seq(S)
    PROVE  Matching(m, d) \in Seq(S)
<1> DEFINE t == IF LiteralRows(m, d) # <<>> THEN LiteralRows(m, d) ELSE OverflowRows(m, d)
<1>1. t \in Seq(S)
  OBVIOUS
<1>2. Matching(m, d) = Healthy(t)
  BY DEF Matching
<1> HIDE DEF t
<1>3. QED
  BY <1>1, <1>2, Narrows DEF Healthy

LEMMA CandidatesIn ==
    ASSUME NEW S, NEW m, NEW d,
           (IF LiteralRows(m, d) # <<>> THEN LiteralRows(m, d) ELSE OverflowRows(m, d)) \in Seq(S)
    PROVE  Candidates(m, d) \in Seq(S)
<1> DEFINE t == Matching(m, d)
<1>1. t \in Seq(S)
  BY MatchingIn
<1>2. Candidates(m, d) = LocalFirst(t)
  BY DEF Candidates
<1> HIDE DEF t
<1>3. Only(t, Locals) \in Seq(S) /\ Only(t, Rows \ Locals) \in Seq(S)
  BY <1>1, Narrows
<1>4. QED
  BY <1>2, <1>3, ConcatProperties DEF LocalFirst

LEMMA ChoosableIn ==
    ASSUME NEW S, NEW m, NEW d, NEW tried, Candidates(m, d) \in Seq(S)
    PROVE  Choosable(m, d, tried) \in Seq(S)
<1> DEFINE c1 == Untried(Candidates(m, d), tried)
           c2 == Preferred(c1, d)
           c3 == Allowed(c2, d)
           c4 == Leading(c3, d)
           c5 == Spared(c4)
<1>1. Choosable(m, d, tried) =
          IF story.gateway /\ Saturated THEN Prefer(c5, Rows \ Locals) ELSE c5
  BY DEF Choosable, Narrowed
<1>2. c1 \in Seq(S)
  BY Narrows DEF Untried
<1> HIDE DEF c1
<1>3. c2 \in Seq(S)
  BY <1>2, Narrows DEF Preferred
<1> HIDE DEF c2
<1>4. c3 \in Seq(S)
  BY <1>3, Narrows DEF Allowed
<1> HIDE DEF c3
<1>5. c4 \in Seq(S)
  BY <1>4, Narrows DEF Leading
<1> HIDE DEF c4
<1>6. c5 \in Seq(S)
  BY <1>5, Narrows DEF Spared
<1> HIDE DEF c5
<1>7. QED
  BY <1>1, <1>6, Narrows

LEMMA CandidatesLocal ==
    ASSUME story.order \in Seq(Rows), NEW d, d.local, NEW m
    PROVE  Candidates(m, d) \in Seq(Locals)
<1>1. LiteralRows(m, d) \in Seq(Locals)
  BY SearchLocal, Narrows DEF LiteralRows
<1>2. OverflowRows(m, d) \in Seq(Locals)
  BY SearchLocal, Narrows, EmptySeq DEF OverflowRows
<1>3. QED
  BY <1>1, <1>2, CandidatesIn

Sound ==
    /\ Loaded
    /\ turn \in Nat
    /\ story.order \in Seq(Rows)
    /\ \A b \in Rows : Row(b).ms \in Nat

LEMMA ChosenLocal ==
    ASSUME Sound, NEW d, d.local, NEW m, NEW how, NEW key,
           \A b \in Rows : Score[<<key, b>>] \in Nat,
           NEW attempt \in Nat \ {0}, NEW tried, NEW needs
    PROVE  Chosen(m, d, how, key, attempt, tried, needs) \in Locals \cup {NoRow}
<1>1. \A n : GroupRow(n, d, how, tried) = NoRow
  BY DEF GroupRow, Pooling
<1>2. ASSUME NEW n PROVE Selected(n, d, how, key, attempt, tried) \in Locals \cup {NoRow}
  <2>1. Locals \in SUBSET Rows
    BY DEF Locals
  <2>2. Choosable(n, d, tried) \in Seq(Locals)
    BY CandidatesLocal, ChoosableIn DEF Sound
  <2>3. Selected(n, d, how, key, attempt, tried)
            = ByStrategy(how, Choosable(n, d, tried), key, attempt, tried)
    BY <1>1 DEF Selected
  <2>4. ByStrategy(how, Choosable(n, d, tried), key, attempt, tried) \in Locals \cup {NoRow}
    BY <2>1, <2>2, StrategyIn DEF Sound
  <2>5. QED
    BY <2>3, <2>4
<1>3. QED
  BY <1>2 DEF Chosen

-----------------------------------------------------------------------------
(* The layers of policy keep the fields of the decision, and the header     *)
(* closes it last.                                                           *)

Fields == {"model", "exact", "strategy", "local", "cloud", "leads", "prefer", "allow"}

\* A decision about model m.
About(d, m) == DOMAIN d = Fields /\ d.model = m

LEMMA LayersKeep ==
    ASSUME NEW m, NEW d, About(d, m), NEW layer
    PROVE  /\ About(Closed(d), m) /\ Closed(d).local
           /\ About(Opened(d), m)
           /\ About(Over(d, layer), m)
           /\ About(Preferring(d, layer), m)
           /\ About(OverPolicy(d, layer), m)
           /\ About(OverSource(d, layer), m)
           /\ About(OverRule(d, layer), m)
<1>1. About(Closed(d), m) /\ Closed(d).local
  BY DEF Closed, About, Fields
<1>2. About(Opened(d), m)
  BY DEF Opened, About, Fields
<1>3. About(Over(d, layer), m) /\ About(Preferring(d, layer), m)
  BY DEF Over, Preferring, About, Fields
<1>4. About(OverPolicy(d, layer), m)
  <2>1. About([d EXCEPT !.cloud = master], m)
    BY DEF About, Fields
  <2>2. QED
    BY <1>1, <2>1 DEF OverPolicy
<1>5. About(OverSource(d, layer), m)
  <2>1. About([Opened(d) EXCEPT !.allow = layer.allow], m)
    BY <1>2 DEF About, Fields
  <2>2. QED
    BY <1>1, <1>2, <2>1 DEF OverSource
<1>6. About(OverRule(d, layer), m)
  BY <1>1, <1>2 DEF OverRule
<1>7. QED
  BY <1>1, <1>2, <1>3, <1>4, <1>5, <1>6

LEMMA LayersAbout ==
    ASSUME NEW m, NEW d, About(d, m), NEW q
    PROVE  About(ByRule(BySource(ByPolicy(d, q), q), q), m)
<1>1. ASSUME NEW e, About(e, m) PROVE About(ByPolicy(e, q), m)
  BY <1>1, LayersKeep DEF ByPolicy
<1>2. ASSUME NEW e, About(e, m) PROVE About(BySource(e, q), m)
  BY <1>2, LayersKeep DEF BySource
<1>3. ASSUME NEW e, About(e, m) PROVE About(ByRule(e, q), m)
  BY <1>3, LayersKeep DEF ByRule
<1>4. QED
  BY <1>1, <1>2, <1>3

LEMMA HeaderCloses ==
    ASSUME NEW q
    PROVE  /\ About(Routed(q), ModelOf(q))
           /\ HeaderLocal(q) => Routed(q).local
<1> DEFINE falls == master /\ story.fallback # "none"
           d == [model |-> ModelOf(q), exact |-> Exact(q),
                 strategy |-> story.strategy, local |-> HeaderLocal(q),
                 cloud |-> falls /\ ~HeaderLocal(q),
                 leads |-> falls /\ story.fallback = "local", prefer |-> "", allow |-> {}]
           e == ByRule(BySource(ByPolicy(d, q), q), q)
           over == IF q.strategy = "" THEN e ELSE [e EXCEPT !.strategy = q.strategy]
<1>1. About(d, ModelOf(q))
  BY DEF Fields, About
<1>2. Routed(q) = ByHeader(e, q)
  BY DEF Routed
<1> HIDE DEF d
<1>3. About(e, ModelOf(q))
  BY <1>1, LayersAbout
<1> HIDE DEF e
<1>4. About(over, ModelOf(q))
  BY <1>3 DEF About, Fields
<1>5. ByHeader(e, q) = IF HeaderLocal(q) THEN Closed(over)
                       ELSE IF over.local THEN [over EXCEPT !.leads = FALSE] ELSE over
  BY DEF ByHeader
<1> HIDE DEF over
<1>6. About([over EXCEPT !.leads = FALSE], ModelOf(q))
  BY <1>4 DEF About, Fields
<1>7. QED
  BY <1>2, <1>4, <1>5, <1>6, LayersKeep

-----------------------------------------------------------------------------
(* A request whose header says local has a plan that is local from the      *)
(* moment it walks, whatever else the policy of its source says.             *)

\* What is asked does not change while the story does not.
LEMMA StoryStays ==
    ASSUME story' = story, NEW r
    PROVE  /\ Asked(r)' = Asked(r)
           /\ ModelOf(Asked(r))' = ModelOf(Asked(r))
           /\ HeaderLocal(Asked(r))' <=> HeaderLocal(Asked(r))
           /\ \A b : Row(b)' = Row(b)
<1>1. Asked(r)' = Asked(r)
  BY DEF Asked
<1>2. \A id : Known(id)' = Known(id)
  BY DEF Known
<1>3. \A i : Proves(Asked(r), i)' <=> Proves(Asked(r), i)
  BY DEF Proves, Asked
<1>4. SourceOf(Asked(r))' = SourceOf(Asked(r))
  BY <1>1, <1>2, <1>3 DEF SourceOf
<1>5. Scenario(Asked(r))' = Scenario(Asked(r))
  BY <1>1 DEF Scenario, Only, Scenarios
<1>6. Rules(Asked(r))' = Rules(Asked(r))
  BY <1>1, <1>4, <1>5 DEF Rules
<1>7. ModelOf(Asked(r))' = ModelOf(Asked(r))
  BY <1>1, <1>4, <1>6 DEF ModelOf
<1>8. QED
  BY <1>1, <1>7 DEF HeaderLocal, Row

CallFields == {"pc", "plan", "tried", "row", "name", "attempt"}

Closes(r) ==
    /\ call[r].pc \in {"walk", "call"} =>
          /\ About(call[r].plan, ModelOf(Asked(r)))
          /\ HeaderLocal(Asked(r)) => call[r].plan.local
    /\ call[r].pc = "call" /\ HeaderLocal(Asked(r)) =>
          Row(call[r].row).local \/ Sharded(Asked(r), call[r].plan)

RoutingInv ==
    /\ story \in Stories
    /\ load \in [Rows -> Int] /\ turn \in Nat
    /\ DOMAIN call = Requests
    /\ \A r \in Requests : DOMAIN call[r] = CallFields /\ call[r].attempt \in Nat
    /\ \A r \in DOMAIN story.requests : Closes(r)

LEMMA StorySound ==
    ASSUME RoutingInv
    PROVE  /\ Sound
           /\ \A r \in DOMAIN story.requests :
                 r \in Requests /\ \A b \in Rows : Score[<<Asked(r).session, b>>] \in Nat
BY StoryAssumption DEF RoutingInv, Sound, Loaded, StoryAssumption, Row, Asked

LEMMA InitRouting == RoutingInit => RoutingInv
<1> SUFFICES ASSUME RoutingInit PROVE RoutingInv
  OBVIOUS
<1>1. story \in Stories /\ turn \in Nat /\ DOMAIN call = Requests
  BY DEF RoutingInit
<1>2. load \in [Rows -> Int]
  BY StoryAssumption DEF RoutingInit, StoryAssumption
<1>3. \A r \in Requests : DOMAIN call[r] = CallFields /\ call[r].attempt \in Nat
                          /\ call[r].pc \in {"new", "done"}
  BY DEF RoutingInit, CallFields
<1>4. \A r \in DOMAIN story.requests : r \in Requests
  BY <1>1, StoryAssumption DEF StoryAssumption
<1>5. QED
  BY <1>1, <1>2, <1>3, <1>4 DEF RoutingInv, Closes

LEMMA ArriveKeeps ==
    ASSUME RoutingInv, NEW r \in DOMAIN story.requests, Arrive(r)
    PROVE  RoutingInv'
<1>1. r \in Requests /\ story' = story /\ load' = load /\ turn' = turn
  BY StorySound DEF Arrive
<1>2. CASE call' = [call EXCEPT ![r].pc = "refused"]
  BY <1>1, <1>2, StoryStays DEF RoutingInv, CallFields, Closes, About, Sharded
<1>3. CASE call' = [call EXCEPT ![r].pc = "walk", ![r].plan = Plan(r)]
  <2>1. DOMAIN call' = Requests /\ \A q \in Requests \ {r} : call'[q] = call[q]
    BY <1>1, <1>3 DEF RoutingInv
  <2>2. /\ DOMAIN call'[r] = CallFields /\ call'[r].attempt = call[r].attempt
        /\ call'[r].pc = "walk" /\ call'[r].plan = Plan(r)
    BY <1>1, <1>3 DEF RoutingInv, CallFields
  <2>3. About(Plan(r), ModelOf(Asked(r))) /\ (HeaderLocal(Asked(r)) => Plan(r).local)
    BY HeaderCloses DEF Plan
  <2>4. Closes(r)'
    BY <1>1, <2>2, <2>3, StoryStays DEF Closes, About
  <2>5. \A q \in DOMAIN story.requests \ {r} : Closes(q)'
    BY <1>1, <2>1, StorySound, StoryStays DEF RoutingInv, Closes, About, Sharded
  <2>6. QED
    BY <1>1, <2>1, <2>2, <2>4, <2>5 DEF RoutingInv
<1>4. QED
  BY <1>2, <1>3 DEF Arrive

\* The row a local plan is given, if the ledger does not place its shard: a
\* pinned row of this machine, or a choice.
LEMMA PickLocal ==
    ASSUME RoutingInv, NEW r \in DOMAIN story.requests, call[r].plan.local,
           ~Sharded(Asked(r), call[r].plan)
    PROVE  Picked(r, call[r].attempt + 1) \in Locals \cup {NoRow}
<1>1. CASE Pinned(r, call[r].plan) # {}
  <2>1. Asked(r).pin \in Range(Pool) /\ Row(Asked(r).pin).local
    BY <1>1 DEF Pinned
  <2>2. Pool \in Seq(Rows)
    <3> DEFINE T == {b \in Rows : Row(b).cloud = ""} \cup pooled
    <3>1. Pool = Only(story.order, T) /\ story.order \in Seq(Rows)
      BY StorySound DEF Pool, Sound
    <3> HIDE DEF T
    <3>2. Pool \in Seq(Rows \cap T)
      BY <3>1, OnlyType
    <3>3. QED
      BY <3>2, SeqMonotonic
  <2>3. Range(Pool) \subseteq Rows
    BY <2>2, LenProperties, ElementOfSeq DEF Range
  <2>4. Picked(r, call[r].attempt + 1) = Asked(r).pin
    BY <1>1 DEF Picked
  <2>5. QED
    BY <2>1, <2>3, <2>4 DEF Locals
<1>2. CASE Pinned(r, call[r].plan) = {}
  <2> DEFINE d == call[r].plan
             nth == call[r].attempt + 1
             how == Strategy(d, Asked(r).session, nth)
  <2>1. nth \in Nat \ {0}
    BY StorySound DEF RoutingInv
  <2>2. Picked(r, nth) = Chosen(d.model, d, how, Asked(r).session, nth, call[r].tried,
                                Needs(Asked(r)))
    BY <1>2 DEF Picked
  <2> HIDE DEF how, nth
  <2>3. QED
    BY <2>1, <2>2, StorySound, ChosenLocal DEF nth
<1>3. QED
  BY <1>1, <1>2

LEMMA LoadMoves ==
    ASSUME load \in [Rows -> Int], NEW x
    PROVE  /\ [load EXCEPT ![x] = @ + 1] \in [Rows -> Int]
           /\ [load EXCEPT ![x] = @ - 1] \in [Rows -> Int]
<1>1. x \in Rows => load[x] + 1 \in Int /\ load[x] - 1 \in Int
  OBVIOUS
<1>2. QED
  BY <1>1

\* Replacing the record of one call, without its plan.
LEMMA OneCall ==
    ASSUME RoutingInv, NEW r \in DOMAIN story.requests, NEW c,
           DOMAIN c = CallFields, c.attempt \in Nat, c.plan = call[r].plan,
           c.pc \in {"walk", "call"} => call[r].pc \in {"walk", "call"},
           HeaderLocal(Asked(r)) /\ c.pc = "call" =>
               Row(c.row).local \/ Sharded(Asked(r), c.plan),
           call' = [call EXCEPT ![r] = c], story' = story,
           load' \in [Rows -> Int], turn' \in Nat
    PROVE  RoutingInv'
<1>1. r \in Requests
  BY StorySound
<1>2. DOMAIN call' = Requests /\ call'[r] = c /\ \A q \in Requests \ {r} : call'[q] = call[q]
  BY <1>1 DEF RoutingInv
<1>3. \A q \in DOMAIN story.requests \ {r} : Closes(q)'
  BY <1>2, StorySound, StoryStays DEF RoutingInv, Closes, About, Sharded
<1>4. Closes(r)'
  BY <1>2, StoryStays DEF RoutingInv, Closes, About, Sharded
<1>5. QED
  BY <1>1, <1>2, <1>3, <1>4 DEF RoutingInv

LEMMA AttemptKeeps ==
    ASSUME RoutingInv, NEW r \in DOMAIN story.requests, Attempt(r)
    PROVE  RoutingInv'
<1> DEFINE m == call[r].plan.model
           pick == Picked(r, call[r].attempt + 1)
           name == Upstream(m, pick, call[r].plan.exact)
           c == [call[r] EXCEPT !.pc = "call", !.row = pick,
                                !.attempt = call[r].attempt + 1, !.name = name]
           f == [call[r] EXCEPT !.pc = "failed"]
<1>1. call[r].pc = "walk" /\ story' = story
  BY DEF Attempt
<1>2. \/ call' = [call EXCEPT ![r].pc = "failed"] /\ load' = load /\ turn' = turn
      \/ /\ pick # NoRow
         /\ call' = [call EXCEPT ![r] = [@ EXCEPT !.pc = "call", !.row = pick,
                        !.attempt = call[r].attempt + 1, !.name = name]]
         /\ load' = [load EXCEPT ![pick] = @ + 1]
         /\ turn' = turn \/ turn' = (turn + 1) % Turns
  BY DEF Attempt
<1>3. r \in Requests /\ DOMAIN call = Requests /\ DOMAIN call[r] = CallFields
      /\ call[r].attempt \in Nat
  BY StorySound DEF RoutingInv
<1>4. call[r].plan.local /\ ~Sharded(Asked(r), call[r].plan) => pick \in Locals \cup {NoRow}
  BY PickLocal
<1>5. HeaderLocal(Asked(r)) => call[r].plan.local
  BY <1>1 DEF RoutingInv, Closes
<1> HIDE DEF pick, name
<1>6. CASE call' = [call EXCEPT ![r].pc = "failed"] /\ load' = load /\ turn' = turn
  <2>1. call' = [call EXCEPT ![r] = f]
    BY <1>3, <1>6
  <2>2. DOMAIN f = CallFields /\ f.attempt = call[r].attempt /\ f.plan = call[r].plan
        /\ f.pc = "failed"
    BY <1>3 DEF CallFields
  <2> HIDE DEF f
  <2>3. load' \in [Rows -> Int] /\ turn' \in Nat
    BY <1>6 DEF RoutingInv
  <2>4. QED
    BY <1>1, <1>3, <2>1, <2>2, <2>3, OneCall
<1>7. CASE /\ pick # NoRow
           /\ call' = [call EXCEPT ![r] = [@ EXCEPT !.pc = "call", !.row = pick,
                          !.attempt = call[r].attempt + 1, !.name = name]]
           /\ load' = [load EXCEPT ![pick] = @ + 1]
           /\ turn' = turn \/ turn' = (turn + 1) % Turns
  <2>1. call' = [call EXCEPT ![r] = c]
    BY <1>3, <1>7
  <2>2. DOMAIN c = CallFields /\ c.attempt = call[r].attempt + 1 /\ c.plan = call[r].plan
        /\ c.pc = "call" /\ c.row = pick
    BY <1>3 DEF CallFields
  <2> HIDE DEF c
  <2>3. c.attempt \in Nat
    BY <1>3, <2>2
  <2>4. HeaderLocal(Asked(r)) => Row(c.row).local \/ Sharded(Asked(r), c.plan)
    BY <1>4, <1>5, <1>7, <2>2 DEF Locals
  <2>5. load' \in [Rows -> Int]
    BY <1>7, LoadMoves DEF RoutingInv
  <2>6. turn' \in Nat
    BY <1>7, RoutingAssumption DEF RoutingInv, RoutingAssumption
  <2>7. QED
    BY <1>1, <2>1, <2>2, <2>3, <2>4, <2>5, <2>6, OneCall
<1>8. QED
  BY <1>2, <1>6, <1>7

LEMMA EndsKeeps ==
    ASSUME RoutingInv, NEW r \in DOMAIN story.requests, NEW fails \in BOOLEAN, Ends(r, fails)
    PROVE  RoutingInv'
<1> DEFINE c == IF fails THEN [call[r] EXCEPT !.pc = "walk", !.row = NoRow, !.name = NoModel,
                                              !.tried = call[r].tried \cup {call[r].row}]
                ELSE [call[r] EXCEPT !.pc = "done", !.row = NoRow, !.name = NoModel]
<1>1. r \in Requests /\ DOMAIN call = Requests /\ DOMAIN call[r] = CallFields
      /\ call[r].attempt \in Nat
  BY StorySound DEF RoutingInv
<1>2. call[r].pc = "call" /\ story' = story /\ turn' = turn
  BY DEF Ends
<1>3. call' = [call EXCEPT ![r] = c]
  <2>1. CASE fails
    BY <1>1, <2>1 DEF Ends
  <2>2. CASE ~fails
    BY <1>1, <2>2 DEF Ends
  <2>3. QED
    BY <2>1, <2>2
<1>4. DOMAIN c = CallFields /\ c.attempt = call[r].attempt /\ c.plan = call[r].plan
      /\ c.pc \in {"walk", "done"}
  BY <1>1 DEF CallFields
<1> HIDE DEF c
<1>5. load' \in [Rows -> Int] /\ turn' \in Nat
  BY <1>2, LoadMoves DEF Ends, RoutingInv
<1>6. QED
  BY <1>1, <1>2, <1>3, <1>4, <1>5, OneCall

LEMMA RoutingStep ==
    ASSUME RoutingInv, [RoutingNext]_routingVars
    PROVE  RoutingInv'
<1>1. ASSUME story' = story, load' = load, turn' = turn, call' = call PROVE RoutingInv'
  BY <1>1, StoryStays DEF RoutingInv, Closes, About, Sharded
<1>2. ASSUME NEW b \in Rows, Reload(b) PROVE RoutingInv'
  BY <1>1, <1>2 DEF Reload
<1>3. ASSUME ListModels \/ MasterOff \/ UNCHANGED routingVars PROVE RoutingInv'
  BY <1>1, <1>3 DEF ListModels, MasterOff, routingVars
<1>4. ASSUME NEW k \in Shards, Forgets(k) PROVE RoutingInv'
  BY <1>1, <1>4 DEF Forgets
<1>5. ASSUME NEW r \in DOMAIN story.requests, Exhausted(r) PROVE RoutingInv'
  <2> DEFINE f == [call[r] EXCEPT !.pc = "failed"]
  <2>1. r \in Requests /\ DOMAIN call = Requests /\ DOMAIN call[r] = CallFields
        /\ call[r].attempt \in Nat
    BY StorySound DEF RoutingInv
  <2>2. call' = [call EXCEPT ![r] = f] /\ story' = story /\ load' = load /\ turn' = turn
    BY <1>5, <2>1 DEF Exhausted
  <2>3. DOMAIN f = CallFields /\ f.attempt = call[r].attempt /\ f.plan = call[r].plan
        /\ f.pc = "failed"
    BY <2>1 DEF CallFields
  <2> HIDE DEF f
  <2>4. load' \in [Rows -> Int] /\ turn' \in Nat
    BY <2>2 DEF RoutingInv
  <2>5. QED
    BY <2>1, <2>2, <2>3, <2>4, OneCall
<1>6. QED
  BY <1>2, <1>3, <1>4, <1>5, ArriveKeeps, AttemptKeeps, EndsKeeps DEF RoutingNext

\* The caller's opt-out is a ceiling: a request with the local-only header, or
\* at the hop limit, is only ever called on a row of this machine, whatever the
\* source, the policies, the scenario rules, the strategy, the loads, a pin or
\* the rows it has tried say.  The exception is a request whose shard the batch
\* ledger places, the one arm of the selection that is not told of it.
THEOREM HeaderHolds == RoutingSpec => []HeaderIsCeiling
<1>1. RoutingInv => HeaderIsCeiling
  BY DEF RoutingInv, Closes, HeaderIsCeiling, InCall
<1>2. QED
  BY <1>1, InitRouting, RoutingStep, PTL DEF RoutingSpec

-----------------------------------------------------------------------------
(* Substitutes come last.                                                   *)

LEMMA OfEmpty == ASSUME NEW T PROVE Only(<<>>, T) = <<>> /\ Prefer(<<>>, T) = <<>>
<1>1. <<>> \in Seq({})
  BY EmptySeq
<1>2. Only(<<>>, T) \in Seq({} \cap T) /\ Prefer(<<>>, T) \in Seq({})
  BY <1>1, OnlyType, PreferType
<1>3. {} \cap T = {}
  OBVIOUS
<1>4. QED
  BY <1>2, <1>3, OfNothing

\* Local rows first drops none.
LEMMA LocalFirstKeeps ==
    ASSUME NEW s \in Seq(Rows), NEW T, Only(LocalFirst(s), T) = <<>>
    PROVE  Only(s, T) = <<>>
<1> SUFFICES ASSUME Only(s, T) # <<>> PROVE FALSE
  OBVIOUS
<1> DEFINE R == {s[i] : i \in 1..Len(s)}
           here == Only(s, Locals)
           away == Only(s, Rows \ Locals)
<1>1. Len(s) \in Nat /\ DOMAIN s = 1..Len(s) /\ \A i \in 1..Len(s) : s[i] \in Rows
  BY LenProperties, ElementOfSeq
<1>2. s \in Seq(R)
  BY <1>1, SeqDef
<1>3. Only(s, T) \in Seq(R \cap T)
  <2> HIDE DEF R
  <2>1. QED
    BY <1>2, OnlyType
<1>4. \E x : x \in R \cap T
  <2> HIDE DEF R
  <2>1. QED
    BY <1>3, NotEmpty
<1>5. PICK i \in 1..Len(s) : s[i] \in T
  BY <1>4
<1>6. here \in Seq(Rows) /\ away \in Seq(Rows)
  BY Narrows
<1>7. ASSUME NEW U, s[i] \in U
      PROVE  \E j \in 1..Len(Only(s, U)) : Only(s, U)[j] = s[i]
  <2> HIDE DEF R, here, away
  <2>1. QED
    BY <1>7, OnlyKeeps
<1>8. /\ s[i] \in Locals => \E j \in 1..Len(here) : here[j] = s[i]
      /\ s[i] \notin Locals => \E j \in 1..Len(away) : away[j] = s[i]
  BY <1>1, <1>7
<1>9. LocalFirst(s) = here \o away
  BY DEF LocalFirst
<1> HIDE DEF here, away
<1>10. /\ LocalFirst(s) \in Seq(Rows)
       /\ Len(LocalFirst(s)) = Len(here) + Len(away)
       /\ \A k \in 1..(Len(here) + Len(away)) : LocalFirst(s)[k] =
              IF k <= Len(here) THEN here[k] ELSE away[k - Len(here)]
  BY <1>6, <1>9, ConcatProperties
<1>11. Len(here) \in Nat /\ Len(away) \in Nat
  BY <1>6, LenProperties
<1>12. \E k \in 1..Len(LocalFirst(s)) : LocalFirst(s)[k] = s[i]
  <2>1. CASE s[i] \in Locals
    <3>1. PICK j \in 1..Len(here) : here[j] = s[i]
      BY <1>8, <2>1
    <3>2. j \in 1..(Len(here) + Len(away)) /\ j <= Len(here)
      BY <1>11
    <3>3. QED
      BY <1>10, <3>1, <3>2
  <2>2. CASE s[i] \notin Locals
    <3>1. PICK j \in 1..Len(away) : away[j] = s[i]
      BY <1>8, <2>2
    <3>2. /\ Len(here) + j \in 1..(Len(here) + Len(away))
          /\ ~(Len(here) + j <= Len(here)) /\ (Len(here) + j) - Len(here) = j
      BY <1>11
    <3>3. LocalFirst(s)[Len(here) + j] = away[j]
      BY <1>10, <3>2
    <3>4. QED
      BY <1>10, <3>1, <3>2, <3>3
  <2>3. QED
    BY <2>1, <2>2
<1>13. QED
  BY <1>5, <1>10, <1>12, OnlyType

\* What s does not hold, no part of it does.
LEMMA NoneOfLess ==
    ASSUME NEW S, NEW s \in Seq(S), NEW T, NEW U, Only(s, T) = <<>>
    PROVE  Only(Only(s, U), T) = <<>>
<1> DEFINE R == {s[i] : i \in 1..Len(s)}
           part == Only(s, U)
<1>1. s \in Seq(R)
  BY LenProperties, SeqDef
<1>2. R \cap T = {}
  BY OnlyType
<1> HIDE DEF R
<1>3. part \in Seq(R \cap U)
  BY <1>1, OnlyType
<1>4. part \in Seq(R)
  BY <1>3, SeqMonotonic
<1> HIDE DEF part
<1>5. Only(part, T) \in Seq(R \cap T)
  BY <1>4, OnlyType
<1>6. QED
  BY <1>2, <1>5, OfNothing DEF part

LEMMA PoolIn ==
    ASSUME story.order \in Seq(Rows)
    PROVE  Pool \in Seq(Rows)
<1> DEFINE T == {b \in Rows : Row(b).cloud = ""} \cup pooled
<1>1. Pool = Only(story.order, T)
  BY DEF Pool
<1> HIDE DEF T
<1>2. QED
  BY <1>1, Narrows

\* A row the ledger picks under a substitute: no row serves the name itself.
LEMMA ShardLast ==
    ASSUME story.order \in Seq(Rows), NEW m, NEW d, DOMAIN d = Fields, NEW tried,
           NEW b \in Range(Assignable(m, d, tried)), ~ServesLiterally(m, b, d.exact)
    PROVE  ~d.exact /\ Untried(Healthy(LiteralRows(m, d)), tried) = <<>>
<1> DEFINE any == Anywhere(d)
           S == {x \in Rows : ServesLiterally(m, x, d.exact)}
           L == LiteralRows(m, any)
           s == Matching(m, any)
<1>1. any.exact = d.exact /\ ~any.local /\ any.local = FALSE
  BY DEF Anywhere, Fields
<1>2. Pool \in Seq(Rows) /\ Only(Pool, Locals) \in Seq(Rows)
  BY PoolIn, Narrows
<1>3. L = Only(Searchable(FALSE), S) /\ LiteralRows(m, d) = Only(Searchable(d.local), S)
  BY <1>1 DEF LiteralRows
<1>4. b \in Range(Only(s, Rows \ tried))
  BY DEF Assignable, Untried
<1> HIDE DEF any, S, L, s
<1>5. ASSUME NEW U, s \in Seq(U) PROVE b \in U
  <2> DEFINE t == Only(s, Rows \ tried)
  <2>1. t \in Seq(U)
    BY <1>5, Narrows
  <2>2. b \in Range(t)
    BY <1>4
  <2> HIDE DEF t
  <2>3. QED
    BY <2>1, <2>2, LenProperties, ElementOfSeq DEF Range
<1>6. Searchable(FALSE) \in Seq(Rows)
  BY <1>2 DEF Searchable
<1>7. L = <<>>
  <2> SUFFICES ASSUME L # <<>> PROVE FALSE
    OBVIOUS
  <2>1. L \in Seq(Rows \cap S)
    BY <1>3, <1>6, OnlyType
  <2>2. s \in Seq(Rows \cap S)
    BY <2>1, MatchingIn DEF L, s
  <2>3. b \in S
    BY <1>5, <2>2
  <2>4. QED
    BY <2>3 DEF S
<1>8. ~d.exact
  <2> SUFFICES ASSUME d.exact PROVE FALSE
    OBVIOUS
  <2>1. OverflowRows(m, any) \in Seq({})
    BY <1>1, EmptySeq DEF OverflowRows
  <2>2. s \in Seq({})
    BY <1>7, <2>1, MatchingIn DEF L, s
  <2>3. QED
    BY <1>5, <2>2
<1>9. LiteralRows(m, d) = <<>>
  <2>1. \/ Searchable(d.local) = Searchable(FALSE)
        \/ Searchable(d.local) = Only(Pool, Locals) /\ Searchable(FALSE) = Pool
    BY Zenon DEF Searchable
  <2>2. CASE Searchable(FALSE) = Pool /\ Searchable(d.local) = Only(Pool, Locals)
    <3>1. Only(Pool, S) = <<>>
      BY <1>3, <1>7, <2>2
    <3>2. Only(Only(Pool, Locals), S) = <<>>
      BY <1>2, <3>1, NoneOfLess
    <3>3. QED
      BY <1>3, <2>2, <3>2
  <2>3. QED
    BY <1>3, <1>7, <2>1, <2>2
<1>10. QED
  BY <1>8, <1>9, OfEmpty DEF Healthy, Untried

LEMMA LiteralFirst ==
    ASSUME Sound, NEW m, NEW d, NEW how, ~Pooling(m, d, how), NEW key,
           \A b \in Rows : Score[<<key, b>>] \in Nat,
           NEW attempt \in Nat \ {0}, NEW tried, NEW needs,
           Chosen(m, d, how, key, attempt, tried, needs) # NoRow,
           ~ServesLiterally(m, Chosen(m, d, how, key, attempt, tried, needs), d.exact)
    PROVE  ~d.exact /\ Untried(Healthy(LiteralRows(m, d)), tried) = <<>>
<1> DEFINE pick == Chosen(m, d, how, key, attempt, tried, needs)
           L == LiteralRows(m, d)
           H == Healthy(L)
           S == {b \in Rows : ServesLiterally(m, b, d.exact)}
           name == NameTried(m, d, how, tried, needs)
<1>1. L \in Seq(S)
  <2> DEFINE T == {b \in Rows : Row(b).cloud = ""} \cup pooled
  <2>1. Pool = Only(story.order, T) /\ story.order \in Seq(Rows)
    BY DEF Pool, Sound
  <2> HIDE DEF T
  <2>2. Pool \in Seq(Rows)
    BY <2>1, Narrows
  <2>3. Searchable(d.local) \in Seq(Rows)
    BY <2>2, Narrows DEF Searchable
  <2>4. L = Only(Searchable(d.local), S)
    BY DEF LiteralRows
  <2> HIDE DEF S, L
  <2>5. L \in Seq(Rows \cap S)
    BY <2>3, <2>4, OnlyType
  <2>6. Rows \cap S \subseteq S
    OBVIOUS
  <2>7. QED
    BY <2>5, <2>6, SeqMonotonic
<1>2. L = <<>> => H = <<>> /\ Untried(H, tried) = <<>>
  BY OfEmpty DEF Healthy, Untried
<1>3. GroupRow(m, d, how, tried) = NoRow
  BY DEF GroupRow
<1>4. name # NoModel /\ pick = Selected(name, d, how, key, attempt, tried)
  BY DEF Chosen
<1>5. CASE name = m
  <2>1. pick = ByStrategy(how, Choosable(m, d, tried), key, attempt, tried)
    BY <1>3, <1>4, <1>5 DEF Selected
  <2>2. ASSUME NEW U \in SUBSET Rows, Candidates(m, d) \in Seq(U) PROVE pick \in U
    <3>1. Choosable(m, d, tried) \in Seq(U)
      BY <2>2, ChoosableIn
    <3>2. pick \in U \cup {NoRow}
      BY <2>1, <3>1, StrategyIn DEF Sound
    <3>3. QED
      BY <3>2
  <2>3. L = <<>>
    <3>1. SUFFICES ASSUME L # <<>> PROVE FALSE
      OBVIOUS
    <3>2. Candidates(m, d) \in Seq(S)
      BY <1>1, <3>1, CandidatesIn
    <3>3. pick \in S
      BY <2>2, <3>2
    <3>4. QED
      BY <3>3
  <2>4. ~d.exact
    <3>1. SUFFICES ASSUME d.exact PROVE FALSE
      OBVIOUS
    <3>2. OverflowRows(m, d) \in Seq({})
      BY <3>1, EmptySeq DEF OverflowRows
    <3>3. Candidates(m, d) \in Seq({})
      BY <2>3, <3>2, CandidatesIn
    <3>4. QED
      BY <2>2, <3>3
  <2>5. QED
    BY <1>2, <2>3, <2>4
<1>6. CASE name # m
  <2>1. ~d.exact /\ Untried(Candidates(m, d), tried) = <<>>
    BY <1>3, <1>4, <1>6 DEF NameTried
  <2>2. CASE L = <<>>
    BY <1>2, <2>1, <2>2
  <2>3. CASE L # <<>>
    <3>1. Candidates(m, d) = LocalFirst(H)
      BY <2>3 DEF Candidates, Matching
    <3>2. S \subseteq Rows
      OBVIOUS
    <3>3. L \in Seq(Rows)
      <4> HIDE DEF S, L
      <4>1. QED
        BY <1>1, <3>2, SeqMonotonic
    <3>4. H \in Seq(Rows)
      BY <3>3, Narrows DEF Healthy
    <3> HIDE DEF H
    <3>5. Only(H, Rows \ tried) = <<>>
      BY <2>1, <3>1, <3>4, LocalFirstKeeps DEF Untried
    <3>6. QED
      BY <2>1, <3>5 DEF Untried, H
  <2>4. QED
    BY <2>2, <2>3
<1>7. QED
  BY <1>5, <1>6

LEMMA AttemptLast ==
    ASSUME RoutingInv, NEW r \in DOMAIN story.requests, Attempt(r), call'[r].pc = "call",
           Pinned(r, call'[r].plan) = {},
           ~Pooling(ModelOf(Asked(r)), call'[r].plan, call'[r].plan.strategy),
           ~ServesLiterally(ModelOf(Asked(r)), call'[r].row, call'[r].plan.exact)
    PROVE  /\ ~call'[r].plan.exact
           /\ Untried(Healthy(LiteralRows(ModelOf(Asked(r)), call'[r].plan)), call[r].tried) = <<>>
<1> DEFINE d == call[r].plan
           m == call[r].plan.model
           how == Strategy(d, Asked(r).session, call[r].attempt + 1)
           pick == Picked(r, call[r].attempt + 1)
           name == Upstream(m, pick, d.exact)
<1>1. r \in Requests /\ DOMAIN call = Requests /\ DOMAIN call[r] = CallFields
      /\ call[r].attempt \in Nat
  BY StorySound DEF RoutingInv
<1>2. call[r].pc = "walk" /\ m = ModelOf(Asked(r)) /\ DOMAIN d = Fields
  BY DEF Attempt, RoutingInv, Closes, About
<1>3. \/ call' = [call EXCEPT ![r].pc = "failed"]
      \/ /\ pick # NoRow
         /\ call' = [call EXCEPT ![r] = [@ EXCEPT !.pc = "call", !.row = pick,
                        !.attempt = call[r].attempt + 1, !.name = name]]
  BY DEF Attempt
<1> HIDE DEF pick, name
<1>4. call'[r].plan = d /\ call'[r].row = pick /\ pick # NoRow
  BY <1>1, <1>3 DEF CallFields
<1>5. \/ /\ Sharded(Asked(r), d)
         /\ pick \in Range(Assignable(m, d, call[r].tried))
      \/ pick = Chosen(m, d, how, Asked(r).session, call[r].attempt + 1, call[r].tried,
                       Needs(Asked(r)))
  <2>1. Pinned(r, d) = {}
    BY <1>4
  <2>2. pick = IF Sharded(Asked(r), d) THEN ShardRow(r, call[r].attempt + 1)
               ELSE Chosen(m, d, how, Asked(r).session, call[r].attempt + 1, call[r].tried,
                           Needs(Asked(r)))
    BY <2>1 DEF pick, Picked
  <2>3. ShardRow(r, call[r].attempt + 1) \in Range(Assignable(m, d, call[r].tried)) \cup {NoRow}
    BY DEF ShardRow
  <2>4. QED
    BY <1>4, <2>2, <2>3
<1>6. ~Pooling(m, d, how)
  <2>1. how = "local_spillover" => d.strategy = "local_spillover"
    BY DEF Strategy
  <2>2. QED
    BY <1>2, <1>4, <2>1 DEF Pooling
<1>7. call[r].attempt + 1 \in Nat \ {0}
  BY <1>1
<1>8. ~ServesLiterally(m, pick, d.exact)
  BY <1>2, <1>4
<1>9. Sound /\ \A b \in Rows : Score[<<Asked(r).session, b>>] \in Nat
  BY StorySound
<1> HIDE DEF d, m, how
<1>10. ~d.exact /\ Untried(Healthy(LiteralRows(m, d)), call[r].tried) = <<>>
  <2>1. CASE pick \in Range(Assignable(m, d, call[r].tried))
    BY <1>2, <1>8, <1>9, <2>1, ShardLast DEF Sound
  <2>2. CASE pick = Chosen(m, d, how, Asked(r).session, call[r].attempt + 1, call[r].tried,
                           Needs(Asked(r)))
    BY <1>4, <1>6, <1>7, <1>8, <1>9, <2>2, LiteralFirst
  <2>3. QED
    BY <1>5, <2>1, <2>2
<1>11. QED
  BY <1>2, <1>4, <1>10

\* A row is called under a substitute of a group only when the literal rows
\* that are up were all called before, and never for a forwarded request,
\* through every filter, preference, guardrail and last resort of a selection.
THEOREM LiteralsFirst == RoutingSpec => SubstitutesLast
<1>1. ASSUME RoutingInv, RoutingNext, NEW r \in DOMAIN story.requests,
             ~InCall(r), call'[r].pc = "call"
      PROVE  Attempt(r)
  <2>1. r \in Requests /\ DOMAIN call = Requests /\ DOMAIN call[r] = CallFields
    BY <1>1, StorySound DEF RoutingInv
  <2>2. ASSUME NEW q \in DOMAIN story.requests, Arrive(q) PROVE FALSE
    BY <1>1, <2>1, <2>2 DEF Arrive, InCall, CallFields
  <2>3. ASSUME NEW q \in DOMAIN story.requests, NEW f \in BOOLEAN, Ends(q, f) PROVE FALSE
    BY <1>1, <2>1, <2>3 DEF Ends, InCall, CallFields
  <2>4. ASSUME NEW q \in DOMAIN story.requests, Attempt(q), q # r PROVE FALSE
    BY <1>1, <2>1, <2>4 DEF Attempt, InCall
  <2>5. ASSUME NEW q \in DOMAIN story.requests, Exhausted(q) PROVE FALSE
    BY <1>1, <2>1, <2>5 DEF Exhausted, InCall, CallFields
  <2>6. QED
    BY <1>1, <2>2, <2>3, <2>4, <2>5 DEF RoutingNext, Forgets, Reload, ListModels, MasterOff, InCall
<1>2. RoutingInv /\ [RoutingNext]_routingVars
      => [\A r \in DOMAIN story.requests :
            LET m == ModelOf(Asked(r))  d == call'[r].plan IN
            /\ ~InCall(r) /\ call'[r].pc = "call"
            /\ Pinned(r, d) = {} /\ ~Pooling(m, d, d.strategy)
            /\ ~ServesLiterally(m, call'[r].row, d.exact)
            => /\ ~d.exact
               /\ Untried(Healthy(LiteralRows(m, d)), call[r].tried) = <<>>]_routingVars
  <2> SUFFICES ASSUME RoutingInv, RoutingNext, NEW r \in DOMAIN story.requests,
                      ~InCall(r), call'[r].pc = "call", Pinned(r, call'[r].plan) = {},
                      ~Pooling(ModelOf(Asked(r)), call'[r].plan, call'[r].plan.strategy),
                      ~ServesLiterally(ModelOf(Asked(r)), call'[r].row, call'[r].plan.exact)
               PROVE  /\ ~call'[r].plan.exact
                      /\ Untried(Healthy(LiteralRows(ModelOf(Asked(r)), call'[r].plan)),
                                 call[r].tried) = <<>>
    OBVIOUS
  <2>1. Attempt(r)
    BY <1>1
  <2>2. QED
    BY <2>1, AttemptLast
<1>3. QED
  BY <1>2, InitRouting, RoutingStep, PTL DEF RoutingSpec, SubstitutesLast

-----------------------------------------------------------------------------
(* The substitutes a group holds on a host.                                 *)

LEMMA LeastGroup ==
    ASSUME NEW S \in SUBSET Nat, S # {}
    PROVE  LeastOf(S) \in S /\ \A h \in S : LeastOf(S) <= h
<1>1. PICK m \in S : \A k \in S : ~ (<<k, m>> \in OpToRel(<, Nat))
  BY WFMin, NatLessThanWellFounded
<1>2. ASSUME NEW k \in S PROVE m <= k
  <2>1. k \in Nat /\ m \in Nat
    BY <1>1
  <2>2. ~(k < m)
    BY <1>1, <2>1 DEF OpToRel
  <2>3. QED
    BY <2>1, <2>2
<1>3. QED
  BY <1>2 DEF LeastOf

LEMMA ReboundSticks ==
    ASSUME story \in Stories, DOMAIN bound = (DOMAIN story.groups) \X Rows,
           NEW m, NEW S, bound' = Rebound(m, S),
           NEW k \in DOMAIN bound, bound'[k] # bound[k]
    PROVE  bound[k] \notin Range(catalog[k[2]])
<1> DEFINE held == Held(m, k[2])
<1>1. k = <<k[1], k[2]>> /\ k[1] \in DOMAIN story.groups /\ k[2] \in Rows
  OBVIOUS
<1>2. bound'[k] = IF ~(k[2] \in S /\ k[1] \in Authorizing(m, k[2])) THEN bound[k]
                  ELSE IF held = {} THEN Best(m, k[2])
                  ELSE IF k[1] < LeastOf(held) THEN NoModel ELSE bound[k]
  BY DEF Rebound
<1>3. k[1] \in Authorizing(m, k[2])
  BY <1>2
<1>4. held \in SUBSET Nat
  BY StoryAssumption DEF StoryAssumption, Held, Authorizing, Groups
<1>5. k[1] \in Nat
  BY <1>1, StoryAssumption DEF StoryAssumption
<1>6. k[1] \notin held
  <2> HIDE DEF held
  <2>1. CASE held = {}
    BY <2>1
  <2>2. CASE held # {}
    <3>1. k[1] < LeastOf(held)
      BY <1>2, <2>2
    <3>2. \A h \in held : LeastOf(held) <= h /\ LeastOf(held) \in Nat /\ h \in Nat
      BY <1>4, <2>2, LeastGroup
    <3>3. QED
      BY <1>5, <3>1, <3>2
  <2>3. QED
    BY <2>1, <2>2
<1>7. QED
  BY <1>1, <1>3, <1>6 DEF Held

BindingsOf == DOMAIN bound = (DOMAIN story.groups) \X Rows

LEMMA BindingsStay ==
    ASSUME BindingsOf, [RoutingNext]_routingVars
    PROVE  BindingsOf' /\ (bound' = bound \/ \E m, S : bound' = Rebound(m, S))
<1>1. ASSUME NEW r \in DOMAIN story.requests, Attempt(r)
      PROVE  story' = story /\ \E m, S : bound' = Rebound(m, S)
  BY <1>1 DEF Attempt
<1>2. ASSUME bound' # bound PROVE story' = story /\ \E m, S : bound' = Rebound(m, S)
  BY <1>1, <1>2 DEF RoutingNext, Arrive, Exhausted, Ends, Forgets, Reload, ListModels, MasterOff,
     routingVars
<1>3. story' = story
  BY <1>1 DEF RoutingNext, Arrive, Exhausted, Ends, Forgets, Reload, ListModels, MasterOff,
     routingVars
<1>4. \A m, S : DOMAIN Rebound(m, S) = DOMAIN bound
  BY DEF Rebound
<1>5. QED
  BY <1>2, <1>3, <1>4 DEF BindingsOf

\* A group's substitute on a host changes only when the host no longer serves
\* it: the requests of several groups that share a host, and members that are
\* asked for in turn, never make it swap its weights to and fro.
THEOREM SubstitutesStick == RoutingSpec => StickyUntilReload
<1>1. RoutingInit => BindingsOf
  BY DEF RoutingInit, BindingsOf
<1>2. BindingsOf /\ [RoutingNext]_routingVars => BindingsOf'
  BY BindingsStay
<1>3. RoutingInv /\ BindingsOf /\ [RoutingNext]_routingVars
      => [\A k \in DOMAIN bound : bound'[k] # bound[k] /\ bound[k] # NoModel
              => bound[k] \notin Range(catalog[k[2]])]_routingVars
  <2> SUFFICES ASSUME RoutingInv, BindingsOf, [RoutingNext]_routingVars,
                      NEW k \in DOMAIN bound, bound'[k] # bound[k]
               PROVE  bound[k] \notin Range(catalog[k[2]])
    OBVIOUS
  <2>1. \E m, S : bound' = Rebound(m, S)
    BY BindingsStay
  <2>2. QED
    BY <2>1, ReboundSticks DEF RoutingInv, BindingsOf
<1>4. QED
  BY <1>1, <1>2, <1>3, InitRouting, RoutingStep, PTL DEF RoutingSpec, StickyUntilReload
=============================================================================
