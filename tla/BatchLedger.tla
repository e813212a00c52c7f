----------------------------- MODULE BatchLedger -----------------------------
(***************************************************************************)
(* Placement of batch shards: BatchRequestLedger and the arm of the        *)
(* selection that uses it.  Requests carrying (batch_id, index) are placed *)
(* by index over the candidates, a failed shard is reassigned, a completed *)
(* one is not, and the ledger evicts its older half when it is full.       *)
(* Each selection runs without an await; requests interleave at calls.     *)
(***************************************************************************)
EXTENDS Integers, Sequences, FiniteSets, Functions

CONSTANTS
    Requests,    \* requests that carry a shard context
    Keys,        \* (batch_id, index) pairs
    KeyOf,       \* [Requests -> Keys]
    IndexOf,     \* [Keys -> Nat], the index part of the key
    Ledgered,    \* requests whose strategy resolves to batch_shard
    Rows,        \* base URLs of the rows that serve the model, in pool order
    Ineligible,  \* [Requests -> SUBSET urls], wrong dialect for the surface
    MaxEntries,  \* _LEDGER_MAX_ENTRIES
    MaxLive,     \* requests of shards the callers have in progress at once
    Flap,        \* TRUE: the health of a row may change
    NoUrl        \* no assignment

Urls == Range(Rows)

ASSUME LedgerAssumption ==
    /\ KeyOf \in [Requests -> Keys]
    /\ IndexOf \in [Keys -> Nat]
    /\ IsFiniteSet(Requests)
    /\ Ledgered \subseteq Requests
    /\ Rows \in Seq(Urls) /\ Rows # << >>
    /\ \A i, j \in DOMAIN Rows : Rows[i] = Rows[j] => i = j
    /\ Ineligible \in [Requests -> SUBSET Urls]
    /\ MaxEntries \in Nat /\ MaxEntries > 1
    /\ MaxLive \in Nat \ {0}
    /\ Flap \in BOOLEAN
    /\ NoUrl \notin Urls

VARIABLES
    order,      \* keys of the assignments dict, oldest first
    url,        \* the assigned URL of each key, NoUrl when it has none
    completed,  \* keys some request succeeded for
    up,         \* rows whose health check passes
    phase,      \* where each request is
    round,      \* strategy rounds it has run
    tried,      \* rows that failed it
    on          \* row it is being called on

ledger == <<order, url, completed>>
vars == <<ledger, up, phase, round, tried, on>>

Rounds(q) == Cardinality(Urls \ Ineligible[q])
Known(k) == k \in Range(order)
InProgress == {q \in Requests : round[q] > 0 /\ phase[q] \in {"walk", "call"}}

TypeOK ==
    /\ order \in Seq(Keys)
    /\ url \in [Keys -> Urls \cup {NoUrl}]
    /\ completed \subseteq Keys
    /\ up \subseteq Urls
    /\ phase \in [Requests -> {"walk", "call", "done", "gaveUp"}]
    /\ round \in [Requests -> Nat]
    /\ tried \in [Requests -> SUBSET Urls]
    /\ on \in [Requests -> Urls \cup {NoUrl}]

Init ==
    /\ order = << >>
    /\ url = [k \in Keys |-> NoUrl]
    /\ completed = {}
    /\ up = Urls
    /\ phase = [q \in Requests |-> "walk"]
    /\ round = [q \in Requests |-> 0]
    /\ tried = [q \in Requests |-> {}]
    /\ on = [q \in Requests |-> NoUrl]

-----------------------------------------------------------------------------
\* Candidates are places in Rows, lowest first.

\* Mutant of Candidates: the rows excluded for this request stay in.
CandidatesUnfiltered(q) == {i \in DOMAIN Rows : Rows[i] \in IF up = {} THEN Urls ELSE up}

\* backends_for_model returns the healthy rows, or all of them if none is;
\* the arm then drops the rows excluded for this request.
Candidates(q) ==
    {i \in DOMAIN Rows : Rows[i] \in (IF up = {} THEN Urls ELSE up) \ (tried[q] \cup Ineligible[q])}

\* Candidate n of c, counted from 0.
Nth(c, n) == CHOOSE i \in c : Cardinality({j \in c : j < i}) = n

\* Mutant of Later: the walk goes on from the place in the whole pool.
LaterInRows(c, u) == {i \in c : \A j \in DOMAIN Rows : Rows[j] = u => i > j}

\* Candidates after the one at u; all of them if none is.
Later(c, u) == {i \in c : \A j \in c : Rows[j] = u => i > j}

GiveUp(q) ==
    /\ phase' = [phase EXCEPT ![q] = "gaveUp"]
    /\ on' = [on EXCEPT ![q] = NoUrl]

\* backend_for_url: the URL is called if it is one of the candidates.
Dispatch(q, u) ==
    IF u \in {Rows[i] : i \in Candidates(q)}
    THEN /\ phase' = [phase EXCEPT ![q] = "call"]
         /\ on' = [on EXCEPT ![q] = u]
    ELSE GiveUp(q)

\* Mutant of Insert: nothing is ever evicted.
InsertUnbounded(k, u) ==
    /\ order' = Append(order, k)
    /\ url' = [url EXCEPT ![k] = u]
    /\ UNCHANGED completed

\* A new assignment, after the older half made room for it.
Insert(k, u) ==
    LET kept == IF Len(order) < MaxEntries THEN order
                ELSE SubSeq(order, Len(order) \div 2 + 1, Len(order))
    IN /\ order' = Append(kept, k)
       /\ url' = [j \in Keys |-> IF j = k THEN u
                                 ELSE IF j \in Range(kept) THEN url[j] ELSE NoUrl]
       /\ completed' = completed \ (Range(order) \ Range(kept))

\* Writing an assignment without looking at the size.
Put(k, u) ==
    /\ order' = IF Known(k) THEN order ELSE Append(order, k)
    /\ url' = [url EXCEPT ![k] = u]
    /\ UNCHANGED completed

\* First round: the assignment the key has, or one by its index.
Assign(q) ==
    LET k == KeyOf[q]
        c == Candidates(q)
    IN
    /\ phase[q] = "walk" /\ round[q] = 0 /\ q \in Ledgered
    /\ Cardinality(InProgress) < MaxLive
    /\ \/ Known(k) /\ Dispatch(q, url[k]) /\ UNCHANGED ledger
       \/ ~Known(k) /\ c = {} /\ GiveUp(q) /\ UNCHANGED ledger
       \/ /\ ~Known(k) /\ c # {}
          /\ LET u == Rows[Nth(c, IndexOf[k] % Cardinality(c))] IN Insert(k, u) /\ Dispatch(q, u)
    /\ round' = [round EXCEPT ![q] = 1]
    /\ UNCHANGED <<up, tried>>

\* Mutant of Reassign: the completed set is written and never read.
ReassignCompleted(q) ==
    LET k == KeyOf[q]
        later == Later(Candidates(q), url[k])
        next == Rows[Nth(later, 0)]
    IN
    /\ phase[q] = "walk" /\ round[q] \in 1..(Rounds(q) - 1) /\ q \in Ledgered
    /\ IF later # {}
       THEN Put(k, next) /\ Dispatch(q, next)
       ELSE GiveUp(q) /\ UNCHANGED ledger
    /\ round' = [round EXCEPT ![q] = @ + 1]
    /\ UNCHANGED <<up, tried>>

\* Later rounds: the candidate after the assigned one, from the head if the
\* assigned one is no longer a candidate; none once the shard has completed.
Reassign(q) ==
    LET k == KeyOf[q]
        later == Later(Candidates(q), url[k])
        next == Rows[Nth(later, 0)]
    IN
    /\ phase[q] = "walk" /\ round[q] \in 1..(Rounds(q) - 1) /\ q \in Ledgered
    /\ IF k \notin completed /\ later # {}
       THEN Put(k, next) /\ Dispatch(q, next)
       ELSE GiveUp(q) /\ UNCHANGED ledger
    /\ round' = [round EXCEPT ![q] = @ + 1]
    /\ UNCHANGED <<up, tried>>

\* Any other strategy: some candidate, the ledger is not consulted.
SelectOther(q) ==
    /\ phase[q] = "walk" /\ q \notin Ledgered
    /\ IF round[q] = 0 THEN Cardinality(InProgress) < MaxLive ELSE round[q] < Rounds(q)
    /\ IF Candidates(q) = {} THEN GiveUp(q)
       ELSE \E i \in Candidates(q) : Dispatch(q, Rows[i])
    /\ round' = [round EXCEPT ![q] = @ + 1]
    /\ UNCHANGED <<ledger, up, tried>>

OutOfRounds(q) ==
    /\ phase[q] = "walk" /\ round[q] > 0 /\ round[q] >= Rounds(q)
    /\ GiveUp(q)
    /\ UNCHANGED <<ledger, up, round, tried>>

\* AttemptRecorder.success marks the shard done, whatever the strategy.
Succeed(q) ==
    /\ phase[q] = "call"
    /\ completed' = completed \cup {KeyOf[q]}
    /\ phase' = [phase EXCEPT ![q] = "done"]
    /\ on' = [on EXCEPT ![q] = NoUrl]
    /\ UNCHANGED <<order, url, up, round, tried>>

Fail(q) ==
    /\ phase[q] = "call"
    /\ tried' = [tried EXCEPT ![q] = @ \cup {on[q]}]
    /\ phase' = [phase EXCEPT ![q] = "walk"]
    /\ on' = [on EXCEPT ![q] = NoUrl]
    /\ UNCHANGED <<ledger, up, round>>

\* The health of one row changes.
HealthChanges ==
    /\ Flap
    /\ \E u \in Urls : up' = IF u \in up THEN up \ {u} ELSE up \cup {u}
    /\ UNCHANGED <<ledger, phase, round, tried, on>>

Next ==
    \/ \E q \in Requests : \/ Assign(q) \/ Reassign(q) \/ SelectOther(q)
                           \/ OutOfRounds(q) \/ Succeed(q) \/ Fail(q)
    \/ HealthChanges

Spec == Init /\ [][Next]_vars
-----------------------------------------------------------------------------
(* Properties *)

\* A shard that succeeded somewhere is never moved to another backend: its
\* assignment may be evicted, but not changed.
CompletedStays ==
    [][\A k \in completed : k \in Range(order) /\ k \in Range(order')
                                => url'[k] = url[k]]_vars

\* The ledger never sends a request to a row that failed it or speaks the
\* wrong dialect, though the assignment it reads may name such a row.
CallsUntried ==
    \A q \in Requests : phase[q] = "call" => on[q] \notin tried[q] \cup Ineligible[q]

\* What keeps the ledger bounded although reassign_failed never looks at its
\* size: it puts back only the key of a request in progress.  While fewer
\* requests are in progress than there are entries, their number is all the
\* ledger ever exceeds its limit by, however many shards it has seen.
AssignmentsBounded ==
    /\ MaxLive < MaxEntries => Len(order) <= MaxEntries + MaxLive - 1
    /\ Cardinality(Range(order)) = Len(order)

\* "oldest assignments are evicted past _LEDGER_MAX_ENTRIES": the limit itself.
AssignmentsWithinLimit == Len(order) <= MaxEntries

\* "doesn't grow the ledger without limit": what is remembered as completed is
\* evicted with its assignment.
CompletedWithAssignment == completed \subseteq Range(order)

Exhausted(q) == up \subseteq tried[q] \cup Ineligible[q]
GivesUp(q) == phase[q] # "gaveUp" /\ phase'[q] = "gaveUp"
Alone(q) == \A p \in Requests : KeyOf[p] = KeyOf[q] => p = q

\* The only request of its shard gives up when every healthy row its surface
\* may use has failed it, and not before: no eviction, no other batch and no
\* change of health in between cuts its retries short.
SoleShardExhausts ==
    [][\A q \in Requests : Alone(q) /\ GivesUp(q) => Exhausted(q)]_vars

\* "reassigns that index to the next healthy backend": whoever shares the
\* shard, a request gives up only when every healthy row has failed it, or
\* its shard has completed.
GivesUpExhausted ==
    [][\A q \in Requests : GivesUp(q) => Exhausted(q) \/ KeyOf[q] \in completed]_vars
=============================================================================
