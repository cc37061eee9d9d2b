----------------------------- MODULE RingByteBuf -----------------------------
(***************************************************************************)
(* core::RingByteBuf, the single-producer single-consumer byte ring, with   *)
(* its producer and its consumer interleaved: an operation loads the index  *)
(* of the other side once, copies byte by byte, and stores its own index    *)
(* last.  The acquire loads and release stores of the source make the       *)
(* copies of one side visible with its index, so an interleaving of whole   *)
(* accesses is the behaviour of the program.                               *)
(*                                                                         *)
(* Bytes are stream positions: the k-th byte ever written has the value k.  *)
(***************************************************************************)
EXTENDS Integers, Sequences

CONSTANTS
    Cap,    \* cap_: a power of two, of which Cap - 1 bytes can be used
    Limit   \* bound: bytes written in all

ASSUME CapAssumption == Cap \in Nat /\ Cap >= 2
ASSUME LimitAssumption == Limit \in Nat

VARIABLES
    buf,       \* buf_: [0 .. Cap - 1 -> the byte in each cell]
    head,      \* head_: only the consumer stores it
    tail,      \* tail_: only the producer stores it
    written,   \* bytes published by the producer
    consumed,  \* bytes released by the consumer
    pmode,     \* the producer's operation: "idle", "tryWrite" or "window"
    pn, pdone,    \* the bytes it may write, and has written
    cmode,     \* the consumer's operation: "idle", "read", "peek" or "window"
    cn, cdone     \* the bytes it may read, and has read

pvars == <<tail, written, pmode, pn, pdone>>
cvars == <<head, consumed, cmode, cn, cdone>>
vars  == <<buf, pvars, cvars>>

Idx == 0 .. Cap - 1

\* Mutant of Wrap: the mask is forgotten.
WrapNever(x) == x

\* The cell x beyond the start of the array: x & mask_, for x < 2 * cap_.
Wrap(x) == IF x >= Cap THEN x - Cap ELSE x

\* readableBytes: (t - h) & mask_, and writableBytes.
Readable == IF tail >= head THEN tail - head ELSE tail - head + Cap

Writable == (Cap - 1) - Readable

Least(a, b) == IF a <= b THEN a ELSE b

TypeOK ==
    /\ buf \in [Idx -> Int]
    /\ head \in Idx /\ tail \in Idx
    /\ written \in Nat /\ consumed \in Nat
    /\ pmode \in {"idle", "tryWrite", "window"}
    /\ cmode \in {"idle", "read", "peek", "window"}
    /\ pn \in Idx /\ pdone \in 0 .. pn
    /\ cn \in Idx /\ cdone \in 0 .. cn

\* The constructor; -1 is what malloc left in a cell.
Init ==
    /\ buf = [i \in Idx |-> -1]
    /\ head = 0 /\ tail = 0
    /\ written = 0 /\ consumed = 0
    /\ pmode = "idle" /\ pn = 0 /\ pdone = 0
    /\ cmode = "idle" /\ cn = 0 /\ cdone = 0

-----------------------------------------------------------------------------
(* The producer.                                                           *)

\* tryWrite: the test against writableBytes.
TryWrite(n) ==
    /\ pmode = "idle" /\ n \in 1 .. Writable
    /\ pmode' = "tryWrite" /\ pn' = n /\ pdone' = 0
    /\ UNCHANGED <<buf, tail, written, cvars>>

\* Mutant of LinearWritablePtr: the window is the rest of the array.
LinearWritablePtrToEnd ==
    /\ pmode = "idle" /\ Writable > 0
    /\ pmode' = "window" /\ pn' = Least(Cap - 1, Cap - tail) /\ pdone' = 0
    /\ UNCHANGED <<buf, tail, written, cvars>>

\* linearWritablePtr: the window ends where the array does.
LinearWritablePtr ==
    /\ pmode = "idle" /\ Writable > 0
    /\ pmode' = "window" /\ pn' = Least(Writable, Cap - tail) /\ pdone' = 0
    /\ UNCHANGED <<buf, tail, written, cvars>>

\* memcpy into the ring, or the kernel filling the window: one byte.
WriteByte ==
    /\ pmode # "idle" /\ pdone < pn /\ written + pdone < Limit
    /\ LET cell == IF pmode = "window" THEN tail + pdone ELSE Wrap(tail + pdone)
       IN buf' = [buf EXCEPT ![cell] = written + pdone]
    /\ pdone' = pdone + 1
    /\ UNCHANGED <<tail, written, pmode, pn, cvars>>

\* Mutants of StoreTail: tryWrite publishes before it has copied; or
\* advanceWriteIndex advances by the window that was offered.
StoreTailEarly ==
    /\ pmode # "idle"
    /\ LET n == IF pmode = "tryWrite" THEN pn ELSE pdone
       IN tail' = Wrap(tail + n) /\ written' = written + n
    /\ pmode' = "idle" /\ pn' = 0 /\ pdone' = 0
    /\ UNCHANGED <<buf, cvars>>
StoreTailWindow ==
    /\ pmode # "idle" /\ (pmode = "tryWrite" => pdone = pn)
    /\ tail' = Wrap(tail + pn)
    /\ written' = written + pn
    /\ pmode' = "idle" /\ pn' = 0 /\ pdone' = 0
    /\ UNCHANGED <<buf, cvars>>

\* The store of tail_: tryWrite publishes all of it, advanceWriteIndex what the
\* kernel wrote.
StoreTail ==
    /\ pmode # "idle" /\ (pmode = "tryWrite" => pdone = pn)
    /\ tail' = Wrap(tail + pdone)
    /\ written' = written + pdone
    /\ pmode' = "idle" /\ pn' = 0 /\ pdone' = 0
    /\ UNCHANGED <<buf, cvars>>

-----------------------------------------------------------------------------
(* The consumer.                                                           *)

\* read and peek: at most what is readable.
BeginRead(mode, n) ==
    /\ cmode = "idle" /\ Readable > 0 /\ n \in 1 .. Cap - 1
    /\ cmode' = mode /\ cn' = Least(n, Readable) /\ cdone' = 0
    /\ UNCHANGED <<buf, head, consumed, pvars>>

\* linearReadablePtr: the window ends where the array does.
LinearReadablePtr ==
    /\ cmode = "idle" /\ Readable > 0
    /\ cmode' = "window" /\ cn' = Least(Readable, Cap - head) /\ cdone' = 0
    /\ UNCHANGED <<buf, head, consumed, pvars>>

\* memcpy out of the ring, or the kernel reading the window: one byte.
ReadByte ==
    /\ cmode # "idle" /\ cdone < cn
    /\ cdone' = cdone + 1
    /\ UNCHANGED <<buf, head, consumed, cmode, cn, pvars>>

\* The end of the operation: read stores head_ past all of it, advanceReadIndex
\* past what the kernel took, peek leaves it.
StoreHead ==
    /\ cmode # "idle" /\ (cmode # "window" => cdone = cn)
    /\ LET n == IF cmode = "peek" THEN 0 ELSE cdone
       IN head' = Wrap(head + n) /\ consumed' = consumed + n
    /\ cmode' = "idle" /\ cn' = 0 /\ cdone' = 0
    /\ UNCHANGED <<buf, pvars>>

\* clear: only with neither side at work.
Clear ==
    /\ pmode = "idle" /\ cmode = "idle"
    /\ head' = 0 /\ tail' = 0
    /\ consumed' = written
    /\ UNCHANGED <<buf, written, pmode, pn, pdone, cmode, cn, cdone>>

-----------------------------------------------------------------------------
Producer == (\E n \in Idx : TryWrite(n)) \/ LinearWritablePtr \/ WriteByte \/ StoreTail

Consumer ==
    \/ \E n \in Idx : BeginRead("read", n) \/ BeginRead("peek", n)
    \/ LinearReadablePtr \/ ReadByte \/ StoreHead

Next == Producer \/ Consumer \/ Clear

Spec == Init /\ [][Next]_vars

-----------------------------------------------------------------------------
(* Properties.                                                             *)

\* The cell the consumer reads after k bytes of its operation.
ReadCell(k) == IF cmode = "window" THEN head + k ELSE Wrap(head + k)

\* Whatever the producer does meanwhile, the bytes an operation of the consumer
\* reads are the next bytes of the stream, in order.
ReaderSeesStream ==
    cmode # "idle" => \A k \in 0 .. cn - 1 : buf[ReadCell(k)] = consumed + k

\* The producer never writes a cell that holds an unread byte, although the
\* head_ it tested may be stale by then.
WriterKeepsOff ==
    pmode # "idle" =>
        \A i \in 0 .. pn - 1 : \A k \in 0 .. Readable - 1 : Wrap(tail + i) # Wrap(head + k)

\* The indices count the bytes: full and empty are never confused.
IndicesCount == written = consumed + Readable

\* The ring implements the bounded queue, step by step: no torn write is ever
\* readable, and no read takes what was not written.
Queue == INSTANCE ByteQueue WITH
    Capacity <- Cap - 1,
    queue    <- [k \in 1 .. Readable |-> buf[Wrap(head + k - 1)]],
    next     <- written

IsByteQueue == Queue!Spec

=============================================================================
