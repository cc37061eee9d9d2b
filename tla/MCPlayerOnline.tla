---------------------------- MODULE MCPlayerOnline ----------------------------
(***************************************************************************)
(* PlayerOnline with two players on two connections: one logs in twice for  *)
(* the first player, the other for the first player and for the second.     *)
(***************************************************************************)
EXTENDS PlayerOnline, TLC

CONSTANTS u1, u2, c1, c2, o1, o2, o3

TwoPlayers == {u1, u2}
TwoChans   == {c1, c2}
ThreeObjs  == {o1, o2, o3}

FourLogins == 1 .. 4
FourUids   == <<u1, u1, u1, u2>>
FourChans  == <<c1, c1, c2, c2>>

ObjSymmetry == Permutations(ThreeObjs)

TwoLogins  == 1 .. 2
SameUid    == <<u1, u1>>
BothChans  == <<c1, c2>>
=============================================================================
