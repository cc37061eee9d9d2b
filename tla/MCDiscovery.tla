---------------------------- MODULE MCDiscovery -----------------------------
(* Discovery with the peers and channels of the run. *)
EXTENDS Discovery

CONSTANTS n1, n2, c1, c2

PeerNodes == {n1, n2}
PeerChans == {c1, c2}
PeerBoots == [n \in PeerNodes |-> 1]
PeerFaults == [n \in PeerNodes |-> IF n = n1 THEN 1 ELSE 0]
=============================================================================
