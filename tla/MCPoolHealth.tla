---------------------------- MODULE MCPoolHealth ----------------------------
(* Small instances of PoolHealth for TLC. *)
EXTENDS PoolHealth, TLC

CONSTANTS l1, p1

\* A local host may serve another model, a peer's catalog is the mesh's.
AllKinds == (l1 :> Hosts) @@ (p1 :> {"down", "sick", "model"})
UpOrDown == [b \in Rows |-> {"down", "model"}]

\* Two requests meet on either row.
TwoOnOne == ({l1} :> 2) @@ ({p1} :> 2)
=============================================================================
