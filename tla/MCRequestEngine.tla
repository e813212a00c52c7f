-------------------------- MODULE MCRequestEngine --------------------------
(* Small instances of RequestEngine for TLC. *)
EXTENDS RequestEngine, TLC

CONSTANTS r1, r2, r3, s1, l1, c1, p1, u1, u2

Mesh == {p1}
\* A chat request and a stream share one capped source; r3 is a terminating hop.
TwoSources == {s1, "other"}
SrcMix == (r1 :> s1) @@ (r2 :> s1) @@ (r3 :> "other")
CapMix == (s1 :> 1) @@ ("other" :> 0)
OneSource == {s1}
SrcOne == [r \in {r1, r2} |-> s1]
CapTwo == [s \in {s1} |-> 2]
OneHome == p1 :> <<u1>>
TwoHomes == p1 :> <<u1, u2>>
=============================================================================
