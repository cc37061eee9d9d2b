------------------------------ MODULE FramePipe ------------------------------
(***************************************************************************)
(* What a connection promises the business code on its two ends: the frames *)
(* the sending channel accepts are delivered whole, once, and in order, up  *)
(* to the point where the connection breaks.                               *)
(***************************************************************************)
EXTENDS Naturals, Sequences

CONSTANT Frames

VARIABLES accepted, delivered

Init == accepted = <<>> /\ delivered = <<>>

Accept == \E f \in Frames : accepted' = Append(accepted, f) /\ UNCHANGED delivered

Deliver ==
    /\ Len(delivered) < Len(accepted)
    /\ delivered' = Append(delivered, accepted[Len(delivered) + 1])
    /\ UNCHANGED accepted

Spec == Init /\ [][Accept \/ Deliver]_<<accepted, delivered>>

=============================================================================
