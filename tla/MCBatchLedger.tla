---------------------------- MODULE MCBatchLedger ----------------------------
(* Small instances of BatchLedger for TLC. *)
EXTENDS BatchLedger, TLC

CONSTANTS q1, q2, q3, q4, q5, q6, k1, k2, k3, k4, k5, u1, u2

\* A shard sent twice, the second time through another strategy, and four
\* shards with one request each: one key more than the ledger may ever hold.
SharedKeys == (q1 :> k1) @@ (q2 :> k1) @@ (q3 :> k2) @@ (q4 :> k3)
              @@ (q5 :> k4) @@ (q6 :> k5)
TwoOfOne == (q1 :> k1) @@ (q2 :> k1)
\* The last three are the same index of three batches, and interchangeable.
Indices == (k1 :> 0) @@ (k2 :> 2) @@ (k3 :> 1) @@ (k4 :> 1) @@ (k5 :> 1)
ShardOf == (q4 :> k3) @@ (q5 :> k4) @@ (q6 :> k5)
Batches == {p @@ [k \in Range(ShardOf) |->
                    ShardOf[p[CHOOSE q \in DOMAIN ShardOf : ShardOf[q] = k]]]
              : p \in Permutations(DOMAIN ShardOf)}
TwoRows == <<u1, u2>>
\* q2 asks for embeddings: the last row does not speak its dialect.
Dialects == [q \in Requests |-> IF q = q2 THEN {u2} ELSE {}]
AnyDialect == [q \in Requests |-> {}]
\* How a request ended is of no consequence, nor is the assignment of a shard
\* whose requests have all ended: only its place in the order counts.
Over(q) == phase[q] \in {"done", "gaveUp"}
Locals == [q \in Requests |-> IF Over(q) THEN << >> ELSE <<phase[q], round[q], tried[q], on[q]>>]
Shards == [k \in Keys |-> IF \A q \in Requests : KeyOf[q] = k => Over(q) THEN << >>
                          ELSE <<url[k], k \in completed>>]
View == <<order, Shards, up, Locals>>
=============================================================================
