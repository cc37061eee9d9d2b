------------------------------ MODULE ByteQueue ------------------------------
(***************************************************************************)
(* What core::RingByteBuf promises: a bounded FIFO of bytes.  A write adds  *)
(* its bytes at once and in order, or nothing; a read takes a prefix.       *)
(* Bytes are named by their position in the stream that is written.        *)
(***************************************************************************)
EXTENDS Naturals, Sequences

CONSTANT Capacity   \* the bytes the queue holds at most

VARIABLES
    queue,  \* the bytes written and not yet read
    next    \* the number of bytes ever written

Init == queue = <<>> /\ next = 0

\* tryWrite, or the kernel's write into the window and advanceWriteIndex.
Put ==
    \E n \in 0 .. Capacity - Len(queue) :
        /\ queue' = queue \o [i \in 1 .. n |-> next + i - 1]
        /\ next' = next + n

\* read, or the kernel's read of the window and advanceReadIndex; clear.
Get ==
    \E n \in 0 .. Len(queue) :
        /\ queue' = SubSeq(queue, n + 1, Len(queue))
        /\ UNCHANGED next

Spec == Init /\ [][Put \/ Get]_<<queue, next>>

=============================================================================
