------------------------------ MODULE MCMesh ------------------------------
(* Two agents, of which one takes one forwarded request at a time.           *)
EXTENDS MeshForwarding, TLC

CONSTANTS n1, n2, r1, r2

Entries == (r1 :> n1) @@ (r2 :> n1)
Ceilings == (n1 :> 0) @@ (n2 :> 1)

\* An agent without a provider forwards two requests to a peer it does not hear
\* for a time and whose provider misses a scan; another's request loses its
\* header, its peer is not heard and an agent crashes.
TwoAsk == [hosts |-> {n2}, asked |-> {r1, r2}, sharded |-> {}, stripped |-> {},
           crashes |-> 0, gaps |-> 1, misses |-> 1]
OneStripped == [hosts |-> {n1, n2}, asked |-> {r1}, sharded |-> {}, stripped |-> {r1},
                crashes |-> 1, gaps |-> 1, misses |-> 0]
Plain == {TwoAsk, OneStripped}

\* A request names its shard in the body, and nothing breaks.
InBody == {[hosts |-> {n1, n2}, asked |-> {r1}, sharded |-> {r1}, stripped |-> {},
            crashes |-> 0, gaps |-> 0, misses |-> 0]}
===========================================================================
