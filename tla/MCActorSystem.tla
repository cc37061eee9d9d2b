---------------------------- MODULE MCActorSystem ----------------------------
(***************************************************************************)
(* ActorSystem with two actors, a thread that posts by id and one that posts *)
(* by pointer.                                                             *)
(***************************************************************************)
EXTENDS ActorSystem

CONSTANTS a1, a2, t1, t2

TwoActors  == {a1, a2}
TwoThreads == {t1, t2}
ByPointer  == {t2}
=============================================================================
