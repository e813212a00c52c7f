--------------------------- MODULE SourceAdmission ---------------------------
(***************************************************************************)
(* What per-source admission control promises: a source with a cap never   *)
(* has more than that many requests inside the agent, a request that finds *)
(* the source full is turned away at once, and a request that ended never  *)
(* comes back in.  RequestEngine implements it with a bare counter.        *)
(***************************************************************************)
EXTENDS Integers, FiniteSets

CONSTANTS Requests, Sources, SrcOf, Cap

VARIABLES inside,  \* requests admitted and not yet ended
          ended    \* requests that ended or were turned away

vars == <<inside, ended>>

Room(s) == Cap[s] = 0 \/ Cardinality({r \in inside : SrcOf[r] = s}) < Cap[s]
Outside(r) == r \in Requests \ (inside \cup ended)

Init == inside = {} /\ ended = {}

Enter(r) ==
    /\ Outside(r)
    /\ Room(SrcOf[r])
    /\ inside' = inside \cup {r}
    /\ UNCHANGED ended

TurnAway(r) ==
    /\ Outside(r)
    /\ ~Room(SrcOf[r])
    /\ ended' = ended \cup {r}
    /\ UNCHANGED inside

Leave(r) ==
    /\ r \in inside
    /\ inside' = inside \ {r}
    /\ ended' = ended \cup {r}

Next == \E r \in Requests : Enter(r) \/ TurnAway(r) \/ Leave(r)

SafetySpec == Init /\ [][Next]_vars
Spec == SafetySpec /\ \A r \in Requests : WF_vars(Leave(r))
=============================================================================
