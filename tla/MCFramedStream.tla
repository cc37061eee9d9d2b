---------------------------- MODULE MCFramedStream ----------------------------
(***************************************************************************)
(* FramedStream with the messages and the links the run uses.  Lengths are  *)
(* chosen to wrap both rings, to reach MaxPacket exactly and to exceed it;  *)
(* the links are two ends that agree, a receive ring too small for some     *)
(* frames, and the two ways in which the protocols of the ends can differ.  *)
(***************************************************************************)
EXTENDS FramedStream

FourFrames == 1 .. 4
Bodies     == <<0, 2, 1, 3>>

Link(s, r, c) == [shdr |-> s, rhdr |-> r, rcap |-> c]
AllLinks == {Link(3, 3, 8), Link(3, 3, 4), Link(4, 3, 8), Link(3, 4, 8)}
=============================================================================
