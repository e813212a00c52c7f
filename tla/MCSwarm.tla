------------------------------ MODULE MCSwarm ------------------------------
(* Two agents: one with a LAN address, one with a LAN and a VPN address.     *)
EXTENDS SwarmRegistry, TLC

CONSTANTS a, b, a1, b1, b2

AdvertisedAt == (a :> a1) @@ (b :> b1)
Owners == (a1 :> a) @@ (b1 :> b) @@ (b2 :> b)
Kinds == (a1 :> "lan") @@ (b1 :> "lan") @@ (b2 :> "vpn")
TextOrder == <<a1, b1, b2>>
AllDials == {a, b} \X {a1, b1, b2}
None == [x \in {a, b} |-> {}]
Tells == (a :> {}) @@ (b :> {b2})

\* The peer is pinned; both announce themselves; one scans the subnet; the
\* peer is pinned at a VPN address it does not advertise, the only one the
\* other can dial, and pins the other.
Pinned == [pins |-> (a :> {b1}) @@ (b :> {}), mdns |-> {}, scan |-> {}, alternates |-> Tells,
           reach |-> AllDials, crashes |-> 0, gaps |-> 0, toggles |-> 1]
Announced == [pins |-> None, mdns |-> {a, b}, scan |-> {}, alternates |-> Tells,
              reach |-> AllDials, crashes |-> 0, gaps |-> 1, toggles |-> 0]
Scanned == [pins |-> None, mdns |-> {}, scan |-> {b}, alternates |-> Tells,
            reach |-> AllDials, crashes |-> 1, gaps |-> 0, toggles |-> 0]
Tunnel == [pins |-> (a :> {b2}) @@ (b :> {a1}), mdns |-> {}, scan |-> {}, alternates |-> None,
           reach |-> AllDials \ {<<a, b1>>}, crashes |-> 1, gaps |-> 0, toggles |-> 0]
Everywhere == {Pinned, Announced, Scanned, Tunnel}
=============================================================================
