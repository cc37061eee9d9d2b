--------------------------- MODULE MCGameSessions ---------------------------
(***************************************************************************)
(* GameSessions with two logins of one player and one of another, over two *)
(* connections.  The connections, and the logins of the one player, are    *)
(* interchangeable.                                                        *)
(***************************************************************************)
EXTENDS GameSessions, TLC

CONSTANTS p1, p2, l1, l2, l3, c1, c2

TwoPids == {p1, p2}
ThreeLogins == {l1, l2, l3}
PidOfLogin == [l \in ThreeLogins |-> IF l = l3 THEN p2 ELSE p1]
TwoConns == {c1, c2}

Symmetry == Permutations({l1, l2}) \cup Permutations(TwoConns)
=============================================================================
