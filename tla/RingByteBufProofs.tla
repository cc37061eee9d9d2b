-------------------------- MODULE RingByteBufProofs --------------------------
(***************************************************************************)
(* Proofs about RingByteBuf, for every capacity: the consumer reads the     *)
(* stream in order and the producer stays clear of it, with the two sides   *)
(* interleaved byte by byte.                                               *)
(***************************************************************************)
EXTENDS RingByteBuf, SequenceTheorems, TLAPS

-----------------------------------------------------------------------------
(* Index arithmetic.                                                       *)

\* One wrap brings an index back into the array, and is injective on any
\* stretch of at most Cap cells.
LEMMA WrapIdx ==
    ASSUME NEW x \in 0 .. 2 * Cap - 1
    PROVE  /\ Wrap(x) \in Idx
           /\ \A y \in 0 .. 2 * Cap - 1 : x < y /\ y - x < Cap => Wrap(x) # Wrap(y)
BY CapAssumption DEF Wrap, Idx

\* What is readable and writable, from the two indices.
LEMMA Counts ==
    ASSUME head \in Idx, tail \in Idx
    PROVE  /\ Readable \in Idx /\ Writable \in Idx
           /\ Readable + Writable = Cap - 1
           /\ tail = Wrap(head + Readable)
BY CapAssumption DEF Idx, Readable, Writable, Wrap

\* Moving tail_ by what is writable, or head_ by what is readable, moves the
\* count by as much.
LEMMA Moves ==
    ASSUME head \in Idx, tail \in Idx, NEW n \in Nat
    PROVE  /\ n <= Writable => /\ Wrap(tail + n) \in Idx
                               /\ (IF Wrap(tail + n) >= head THEN Wrap(tail + n) - head
                                   ELSE Wrap(tail + n) - head + Cap) = Readable + n
           /\ n <= Readable => /\ Wrap(head + n) \in Idx
                               /\ (IF tail >= Wrap(head + n) THEN tail - Wrap(head + n)
                                   ELSE tail - Wrap(head + n) + Cap) = Readable - n
BY CapAssumption DEF Idx, Readable, Writable, Wrap

-----------------------------------------------------------------------------
(* The inductive invariant.                                                *)

\* The unread cells hold the next bytes of the stream, and the cells the
\* producer has filled continue it.
Contents ==
    /\ \A k \in 0 .. Readable - 1 : buf[Wrap(head + k)] = consumed + k
    /\ \A i \in 0 .. pdone - 1 : buf[Wrap(tail + i)] = written + i

\* The room each operation was granted is still there: the index of the other
\* side has only moved in its favour.
Grants ==
    /\ pn <= Writable /\ cn <= Readable
    /\ pmode = "window" => tail + pn <= Cap
    /\ cmode = "window" => head + cn <= Cap
    /\ pmode = "idle" => pn = 0
    /\ cmode = "idle" => cn = 0

IInv == TypeOK /\ Contents /\ Grants /\ IndicesCount

LEMMA InitIInv == Init => IInv
<1> SUFFICES ASSUME Init PROVE IInv
  OBVIOUS
<1>1. Readable = 0 /\ Writable = Cap - 1
  BY CapAssumption DEF Init, Readable, Writable
<1>2. TypeOK
  BY CapAssumption DEF Init, TypeOK, Idx
<1> QED BY <1>1, <1>2, CapAssumption DEF Init, IInv, Contents, Grants, IndicesCount

\* Beginning an operation, and a byte read, move neither index.
LEMMA QuietStep ==
    ASSUME IInv,
           \/ \E n \in Idx : TryWrite(n) \/ BeginRead("read", n) \/ BeginRead("peek", n)
           \/ LinearWritablePtr \/ LinearReadablePtr \/ ReadByte
    PROVE  IInv'
<1> USE CapAssumption
<1>1. UNCHANGED <<buf, head, tail, written, consumed>>
  BY DEF TryWrite, BeginRead, LinearWritablePtr, LinearReadablePtr, ReadByte, pvars, cvars
<1>2. /\ Readable' = Readable /\ Writable' = Writable
      /\ Readable \in Idx /\ Writable \in Idx
  BY <1>1, Counts DEF Readable, Writable, IInv, TypeOK
<1>3. TypeOK' /\ Grants' /\ pdone' \in {0, pdone}
  <2>1. CASE \E n \in Idx : TryWrite(n)
    <3>1. TypeOK'
      BY <1>1, <1>2, <2>1 DEF TryWrite, cvars, IInv, TypeOK, Idx
    <3>2. Grants' /\ pdone' \in {0, pdone}
      BY <1>1, <1>2, <2>1 DEF TryWrite, cvars, IInv, TypeOK, Grants, Idx
    <3> QED BY <3>1, <3>2
  <2>2. CASE LinearWritablePtr
    <3>1. TypeOK'
      BY <1>1, <1>2, <2>2 DEF LinearWritablePtr, Least, cvars, IInv, TypeOK, Idx
    <3>2. Grants' /\ pdone' \in {0, pdone}
      BY <1>1, <1>2, <2>2 DEF LinearWritablePtr, Least, cvars, IInv, TypeOK, Grants, Idx
    <3> QED BY <3>1, <3>2
  <2>3. CASE \E n \in Idx : BeginRead("read", n) \/ BeginRead("peek", n)
    <3>1. PICK n \in Idx, mode \in {"read", "peek"} : BeginRead(mode, n)
      BY <2>3
    <3>2. /\ cmode' = mode /\ cn' \in 0 .. Readable /\ cdone' = 0
          /\ pmode' = pmode /\ pn' = pn /\ pdone' = pdone
      BY <3>1, <1>2 DEF BeginRead, Least, pvars, Idx
    <3>3. TypeOK'
      BY <1>1, <1>2, <3>2 DEF IInv, TypeOK, Idx
    <3>4. Grants'
      <4>1. cmode' # "window" /\ cmode' # "idle"
        BY <3>2
      <4>2. cn' <= Readable'
        BY <1>2, <3>2 DEF Idx
      <4> QED BY <1>1, <1>2, <3>2, <4>1, <4>2 DEF IInv, Grants
    <3> QED BY <3>2, <3>3, <3>4
  <2>4. CASE LinearReadablePtr
    <3>1. TypeOK'
      BY <1>1, <1>2, <2>4 DEF LinearReadablePtr, Least, pvars, IInv, TypeOK, Idx
    <3>2. Grants' /\ pdone' \in {0, pdone}
      BY <1>1, <1>2, <2>4 DEF LinearReadablePtr, Least, pvars, IInv, TypeOK, Grants, Idx
    <3> QED BY <3>1, <3>2
  <2>5. CASE ReadByte
    <3>1. TypeOK'
      BY <1>1, <1>2, <2>5 DEF ReadByte, pvars, IInv, TypeOK, Idx
    <3>2. Grants' /\ pdone' \in {0, pdone}
      BY <1>1, <1>2, <2>5 DEF ReadByte, pvars, IInv, TypeOK, Grants, Idx
    <3> QED BY <3>1, <3>2
  <2> QED BY <2>1, <2>2, <2>3, <2>4, <2>5
<1>4. Contents'
  <2>2. \A k \in 0 .. Readable' - 1 : buf'[Wrap(head' + k)] = consumed' + k
    BY <1>1, <1>2 DEF IInv, Contents
  <2>3. \A i \in 0 .. pdone' - 1 : buf'[Wrap(tail' + i)] = written' + i
    <3>1. CASE pdone' = pdone
      BY <1>1, <3>1 DEF IInv, Contents
    <3>2. CASE pdone' = 0
      BY <3>2
    <3> QED BY <1>3, <3>1, <3>2
  <2> QED BY <2>2, <2>3 DEF Contents
<1>5. IndicesCount'
  BY <1>1, <1>2 DEF IInv, IndicesCount
<1> QED BY <1>3, <1>4, <1>5 DEF IInv

\* A byte is written beyond the unread cells, and beyond those already filled.
LEMMA WriteByteStep == ASSUME IInv, WriteByte PROVE IInv'
<1> USE CapAssumption
<1>1. /\ UNCHANGED <<head, tail, written, consumed, pmode, pn, cmode, cn, cdone>>
      /\ pmode # "idle" /\ pdone < pn /\ pdone' = pdone + 1
  BY DEF WriteByte, cvars
<1>2. /\ Readable' = Readable /\ Writable' = Writable
      /\ Readable \in Idx /\ Writable \in Idx /\ Readable + Writable = Cap - 1
      /\ tail = Wrap(head + Readable)
  BY <1>1, Counts DEF Readable, Writable, IInv, TypeOK
<1>3. /\ head \in Idx /\ tail \in Idx /\ pdone \in Nat /\ pn \in Nat /\ pn <= Writable
      /\ written \in Nat /\ consumed \in Nat
  BY <1>1 DEF IInv, TypeOK, Grants, Idx
<1>4. buf' = [buf EXCEPT ![Wrap(tail + pdone)] = written + pdone]
  <2>1. pmode = "window" => Wrap(tail + pdone) = tail + pdone
    BY <1>1, <1>3 DEF Wrap, IInv, Grants, Idx
  <2> QED BY <2>1 DEF WriteByte
<1>5. Wrap(tail + pdone) \in Idx
  BY <1>1, <1>2, <1>3 DEF Wrap, Idx
<1>6. /\ buf' \in [Idx -> Int]
      /\ buf'[Wrap(tail + pdone)] = written + pdone
      /\ \A x \in Idx : x # Wrap(tail + pdone) => buf'[x] = buf[x]
  BY <1>3, <1>4, <1>5 DEF IInv, TypeOK
<1>7. ASSUME NEW k \in 0 .. Readable - 1
      PROVE  Wrap(head + k) \in Idx /\ Wrap(head + k) # Wrap(tail + pdone)
  BY <1>1, <1>2, <1>3 DEF Wrap, Idx
<1>8. ASSUME NEW i \in 0 .. pdone - 1
      PROVE  Wrap(tail + i) \in Idx /\ Wrap(tail + i) # Wrap(tail + pdone)
  BY <1>1, <1>2, <1>3 DEF Wrap, Idx
<1>9. Contents'
  <2>1. \A k \in 0 .. Readable - 1 : buf'[Wrap(head + k)] = consumed + k
    BY <1>6, <1>7 DEF IInv, Contents
  <2>2. \A i \in 0 .. pdone - 1 : buf'[Wrap(tail + i)] = written + i
    BY <1>6, <1>8 DEF IInv, Contents
  <2>3. \A i \in 0 .. pdone' - 1 : buf'[Wrap(tail + i)] = written + i
    BY <1>1, <1>3, <1>6, <2>2
  <2> QED BY <1>1, <1>2, <2>1, <2>3 DEF Contents, Wrap
<1>10. TypeOK'
  BY <1>1, <1>6 DEF IInv, TypeOK, Idx
<1>11. Grants' /\ IndicesCount'
  BY <1>1, <1>2 DEF IInv, Grants, IndicesCount
<1> QED BY <1>9, <1>10, <1>11 DEF IInv

\* What the producer filled becomes readable.
LEMMA StoreTailStep == ASSUME IInv, StoreTail PROVE IInv'
<1> USE CapAssumption
<1>1. /\ UNCHANGED <<buf, head, consumed, cmode, cn, cdone>>
      /\ tail' = Wrap(tail + pdone) /\ written' = written + pdone
      /\ pmode' = "idle" /\ pn' = 0 /\ pdone' = 0
  BY DEF StoreTail, cvars
<1>2. /\ head \in Idx /\ tail \in Idx /\ pdone \in Nat /\ pdone <= Writable
      /\ written \in Nat /\ consumed \in Nat
  BY DEF IInv, TypeOK, Grants, Idx, Writable, Readable
<1>3. /\ Readable \in Idx /\ Writable \in Idx /\ Readable + Writable = Cap - 1
      /\ tail = Wrap(head + Readable)
  BY <1>2, Counts
<1>4. tail' \in Idx /\ Readable' = Readable + pdone
  BY <1>1, <1>2, Moves DEF Readable
<1>5. Writable' = Writable - pdone
  BY <1>2, <1>3, <1>4 DEF Writable, Idx
<1>6. Contents'
  <2> DEFINE m == Readable + pdone
  <2>1. ASSUME NEW k \in 0 .. m - 1
        PROVE  buf[Wrap(head + k)] = consumed + k
    <3>1. CASE k < Readable
      BY <1>3, <2>1, <3>1 DEF IInv, Contents, Idx
    <3>2. CASE k >= Readable
      <4>1. k - Readable \in 0 .. pdone - 1
        BY <1>2, <1>3, <2>1, <3>2 DEF Idx
      <4>2. Wrap(head + k) = Wrap(tail + (k - Readable))
        BY <1>2, <1>3, <4>1 DEF Wrap, Idx
      <4>3. buf[Wrap(tail + (k - Readable))] = written + (k - Readable)
        BY <4>1 DEF IInv, Contents
      <4> QED BY <1>2, <1>3, <4>2, <4>3 DEF IInv, IndicesCount, Idx
    <3> QED BY <1>3, <3>1, <3>2 DEF Idx
  <2>2. \A k \in 0 .. Readable' - 1 : buf'[Wrap(head' + k)] = consumed' + k
    <3>1. m = Readable'
      BY <1>4
    <3> HIDE DEF m
    <3>2. \A k \in 0 .. m - 1 : buf'[Wrap(head' + k)] = consumed' + k
      BY <1>1, <2>1
    <3> QED BY <3>1, <3>2
  <2>3. \A i \in 0 .. pdone' - 1 : buf'[Wrap(tail' + i)] = written' + i
    BY <1>1
  <2> QED BY <2>2, <2>3 DEF Contents
<1>7. TypeOK'
  BY <1>1, <1>2, <1>4 DEF IInv, TypeOK, Idx
<1>8. Grants'
  BY <1>1, <1>2, <1>3, <1>4, <1>5 DEF IInv, Grants, Idx, TypeOK
<1>9. IndicesCount'
  BY <1>1, <1>2, <1>3, <1>4 DEF IInv, IndicesCount, Idx
<1> QED BY <1>6, <1>7, <1>8, <1>9 DEF IInv

\* What the consumer took leaves the ring.
LEMMA StoreHeadStep == ASSUME IInv, StoreHead PROVE IInv'
<1> USE CapAssumption
<1>1. PICK n \in {0, cdone} :
        /\ head' = Wrap(head + n) /\ consumed' = consumed + n
        /\ UNCHANGED <<buf, tail, written, pmode, pn, pdone>>
        /\ cmode' = "idle" /\ cn' = 0 /\ cdone' = 0
  BY DEF StoreHead, pvars
<1>2. /\ head \in Idx /\ tail \in Idx /\ n \in Nat /\ n <= Readable
      /\ written \in Nat /\ consumed \in Nat /\ pn \in Nat
  <2>1. head \in Idx /\ tail \in Idx
    BY DEF IInv, TypeOK
  <2>2. Readable \in Idx
    BY <2>1, Counts
  <2> QED BY <2>2 DEF IInv, TypeOK, Grants, Idx
<1>3. Readable \in Idx /\ Writable \in Idx /\ Readable + Writable = Cap - 1
  BY <1>2, Counts
<1>4. head' \in Idx /\ Readable' = Readable - n
  BY <1>1, <1>2, Moves DEF Readable
<1>5. Writable' = Writable + n
  BY <1>2, <1>3, <1>4 DEF Writable, Idx
<1>6. Contents'
  <2>1. ASSUME NEW k \in 0 .. Readable - n - 1
        PROVE  buf[Wrap(head' + k)] = consumed + n + k
    <3>1. k + n \in 0 .. Readable - 1
      BY <1>2, <1>3, <2>1 DEF Idx
    <3>2. Wrap(head' + k) = Wrap(head + (k + n))
      BY <1>1, <1>2, <1>3, <3>1 DEF Wrap, Idx
    <3>3. buf[Wrap(head + (k + n))] = consumed + (k + n)
      BY <3>1 DEF IInv, Contents
    <3> QED BY <1>2, <3>2, <3>3
  <2> QED BY <1>1, <1>4, <2>1 DEF IInv, Contents, Wrap
<1>7. TypeOK'
  BY <1>1, <1>2, <1>4 DEF IInv, TypeOK, Idx
<1>8. Grants'
  BY <1>1, <1>2, <1>3, <1>4, <1>5 DEF IInv, Grants, Idx, TypeOK
<1>9. IndicesCount'
  BY <1>1, <1>2, <1>3, <1>4 DEF IInv, IndicesCount, Idx
<1> QED BY <1>6, <1>7, <1>8, <1>9 DEF IInv

LEMMA ClearStep == ASSUME IInv, Clear PROVE IInv'
<1>1. Readable' = 0 /\ Writable' = Cap - 1
  BY CapAssumption DEF Clear, Readable, Writable
<1>2. TypeOK'
  BY CapAssumption DEF Clear, IInv, TypeOK, Idx
<1>3. pdone = 0 /\ pn = 0 /\ cn = 0
  BY DEF Clear, IInv, Grants, TypeOK, Idx
<1> QED BY <1>1, <1>2, <1>3, CapAssumption
        DEF Clear, IInv, TypeOK, Contents, Grants, IndicesCount

LEMMA NextIInv == IInv /\ [Next]_vars => IInv'
<1> SUFFICES ASSUME IInv, [Next]_vars PROVE IInv'
  OBVIOUS
<1>1. CASE UNCHANGED vars
  BY <1>1 DEF vars, pvars, cvars, IInv, TypeOK, Contents, Grants, IndicesCount,
              Readable, Writable
<1> QED BY <1>1, QuietStep, WriteByteStep, StoreTailStep, StoreHeadStep, ClearStep
        DEF Next, Producer, Consumer

\* The invariant holds of every interleaving of the two sides.
THEOREM Invariance == Spec => []IInv
BY InitIInv, NextIInv, PTL DEF Spec

\* The bytes an operation of the consumer copies are the next of the stream.
THEOREM ReadsInOrder == Spec => []ReaderSeesStream
<1>1. IInv => ReaderSeesStream
  <2> SUFFICES ASSUME IInv, cmode # "idle", NEW k \in 0 .. cn - 1
               PROVE  buf[ReadCell(k)] = consumed + k
    BY DEF ReaderSeesStream
  <2>1. k \in 0 .. Readable - 1 /\ head \in Idx
    BY Counts DEF IInv, TypeOK, Grants, Idx
  <2>2. ReadCell(k) = Wrap(head + k)
    BY <2>1, CapAssumption DEF ReadCell, Wrap, IInv, TypeOK, Grants, Idx
  <2> QED BY <2>1, <2>2 DEF IInv, Contents
<1> QED BY <1>1, Invariance, PTL

\* The producer never writes an unread cell.
THEOREM NoOverrun == Spec => []WriterKeepsOff
<1>1. IInv => WriterKeepsOff
  <2> SUFFICES ASSUME IInv, NEW i \in 0 .. pn - 1, NEW k \in 0 .. Readable - 1
               PROVE  Wrap(tail + i) # Wrap(head + k)
    BY DEF WriterKeepsOff
  <2>1. head \in Idx /\ tail \in Idx /\ pn \in Nat /\ pn <= Writable
    BY DEF IInv, TypeOK, Grants, Idx
  <2>2. Readable \in Idx /\ Readable + Writable = Cap - 1 /\ tail = Wrap(head + Readable)
    BY <2>1, Counts
  <2> QED BY <2>1, <2>2, CapAssumption, Counts DEF Wrap, Idx
<1> QED BY <1>1, Invariance, PTL

\* The two indices always count the bytes in the ring.
THEOREM IndicesAgree == Spec => []IndicesCount
<1>1. IInv => IndicesCount
  BY DEF IInv
<1> QED BY <1>1, Invariance, PTL

-----------------------------------------------------------------------------
(* The ring implements the bounded queue.                                  *)

\* The n bytes of the stream from position a on.
Stream(a, n) == [k \in 1 .. n |-> a + k - 1]

LEMMA StreamIsSeq ==
    ASSUME NEW a \in Nat, NEW n \in Nat
    PROVE  /\ Stream(a, n) \in Seq(Nat)
           /\ Len(Stream(a, n)) = n
           /\ \A k \in 1 .. n : Stream(a, n)[k] = a + k - 1
<1>1. \A k \in 1 .. n : a + k - 1 \in Nat
  OBVIOUS
<1> QED BY <1>1 DEF Stream

\* Bytes put at the end continue the stream.
LEMMA StreamConcat ==
    ASSUME NEW a \in Nat, NEW n \in Nat, NEW m \in Nat
    PROVE  Stream(a, n) \o Stream(a + n, m) = Stream(a, n + m)
<1> DEFINE s == Stream(a, n)
           t == Stream(a + n, m)
           u == Stream(a, n + m)
<1>1. /\ s \in Seq(Nat) /\ Len(s) = n
      /\ t \in Seq(Nat) /\ Len(t) = m
      /\ u \in Seq(Nat) /\ Len(u) = n + m
      /\ \A k \in 1 .. n : s[k] = a + k - 1
      /\ \A k \in 1 .. m : t[k] = a + n + k - 1
      /\ \A k \in 1 .. n + m : u[k] = a + k - 1
  <2>1. a + n \in Nat /\ n + m \in Nat
    OBVIOUS
  <2> QED BY <2>1, StreamIsSeq
<1> HIDE DEF s, t, u
<1>2. /\ s \o t \in Seq(Nat) /\ Len(s \o t) = n + m
      /\ \A k \in 1 .. n + m : (s \o t)[k] = IF k <= n THEN s[k] ELSE t[k - n]
  BY <1>1, ConcatProperties
<1>3. ASSUME NEW k \in 1 .. n + m PROVE (s \o t)[k] = u[k]
  <2>1. CASE k <= n
    BY <1>1, <1>2, <2>1
  <2>2. CASE ~(k <= n)
    <3>1. k - n \in 1 .. m
      BY <2>2
    <3>2. t[k - n] = a + k - 1
      BY <1>1, <3>1
    <3> QED BY <1>1, <1>2, <2>2, <3>2
  <2> QED BY <2>1, <2>2
<1>4. s \o t = u
  BY <1>1, <1>2, <1>3, SeqEqual
<1> QED BY <1>4 DEF s, t, u

\* What is left of the stream when n bytes are taken.
LEMMA StreamRest ==
    ASSUME NEW a \in Nat, NEW n \in Nat, NEW m \in 0 .. n
    PROVE  SubSeq(Stream(a, n), m + 1, n) = Stream(a + m, n - m)
<1> DEFINE s == Stream(a, n)
           u == Stream(a + m, n - m)
           r == SubSeq(s, m + 1, n)
<1>1. /\ s \in Seq(Nat) /\ Len(s) = n
      /\ u \in Seq(Nat) /\ Len(u) = n - m
      /\ \A k \in 1 .. n : s[k] = a + k - 1 /\ s[k] \in Nat
      /\ \A k \in 1 .. n - m : u[k] = a + m + k - 1
  <2>1. a + m \in Nat /\ n - m \in Nat
    OBVIOUS
  <2>2. \A k \in 1 .. n : a + k - 1 \in Nat
    OBVIOUS
  <2> QED BY <2>1, <2>2, StreamIsSeq
<1>2. /\ r \in Seq(Nat)
      /\ Len(r) = n - m
      /\ \A k \in 1 .. n - m : r[k] = s[m + k]
  <2> HIDE DEF s
  <2>1. ASSUME NEW k \in m + 1 .. n PROVE s[k] \in Nat
    <3>1. k \in 1 .. n
      OBVIOUS
    <3> QED BY <1>1, <3>1
  <2>2. /\ r \in Seq(Nat)
        /\ Len(r) = IF m + 1 <= n THEN n - (m + 1) + 1 ELSE 0
        /\ \A k \in 1 .. n - (m + 1) + 1 : r[k] = s[(m + 1) + k - 1]
    BY <2>1, SubSeqProperties
  <2> QED BY <2>2
<1> HIDE DEF s, u, r
<1>3. ASSUME NEW k \in 1 .. n - m PROVE r[k] = u[k]
  <2>1. m + k \in 1 .. n
    OBVIOUS
  <2> QED BY <1>1, <1>2, <2>1
<1>4. r = u
  BY <1>1, <1>2, <1>3, SeqEqual
<1> QED BY <1>4 DEF r, s, u

\* The readable cells, as the queue they stand for.
Unread == [k \in 1 .. Readable |-> buf[Wrap(head + k - 1)]]

\* It is the stream from what was consumed up to what was written.
RingView ==
    /\ Unread = Stream(consumed, Readable)
    /\ written = consumed + Readable
    /\ consumed \in Nat /\ Readable \in Nat
    /\ Readable <= Cap - 1

LEMMA ViewHolds == IInv => RingView
<1> SUFFICES ASSUME IInv PROVE RingView
  OBVIOUS
<1>1. Readable \in Idx /\ consumed \in Nat /\ head \in Nat
  BY Counts DEF IInv, TypeOK, Idx
<1>2. ASSUME NEW k \in 1 .. Readable PROVE buf[Wrap(head + k - 1)] = consumed + k - 1
  <2>1. k - 1 \in 0 .. Readable - 1 /\ head + k - 1 = head + (k - 1)
    BY <1>1 DEF Idx
  <2>2. buf[Wrap(head + (k - 1))] = consumed + (k - 1)
    BY <2>1 DEF IInv, Contents
  <2>3. consumed + (k - 1) = consumed + k - 1
    BY <1>1, <2>1 DEF Idx
  <2> QED BY <2>1, <2>2, <2>3
<1>3. Unread = Stream(consumed, Readable)
  BY <1>2 DEF Unread, Stream
<1>4. Readable \in Nat /\ Readable <= Cap - 1
  BY <1>1, CapAssumption DEF Idx
<1> QED BY <1>1, <1>3, <1>4 DEF RingView, IInv, IndicesCount

\* A step that moves no index changes no unread byte.
LEMMA RingStutters ==
    ASSUME RingView, RingView', UNCHANGED <<head, tail, written, consumed>>
    PROVE  UNCHANGED <<Unread, written>>
<1>1. Readable' = Readable
  BY DEF Readable
<1> QED BY <1>1 DEF RingView

\* StoreTail puts what the producer has filled at the end of the queue.
LEMMA StoreTailPuts ==
    ASSUME IInv, RingView, RingView', StoreTail
    PROVE  Queue!Put
<1>1. /\ head' = head /\ consumed' = consumed /\ tail' = Wrap(tail + pdone)
      /\ written' = written + pdone
  BY DEF StoreTail, cvars
<1>2. pdone \in Nat /\ pdone <= Writable /\ tail \in Idx /\ head \in Idx
  <2>1. tail \in Idx /\ head \in Idx /\ pn \in Nat /\ pdone \in 0 .. pn /\ pn <= Writable
    BY DEF IInv, TypeOK, Grants, Idx
  <2>2. Writable \in Nat
    BY <2>1, Counts DEF Idx
  <2> QED BY <2>1, <2>2
<1>3. Readable' = Readable + pdone
  BY <1>1, <1>2, Moves DEF Readable
<1>4. Unread' = Stream(consumed, Readable + pdone)
  BY <1>1, <1>3 DEF RingView
<1>5. Unread' = Unread \o Stream(written, pdone)
  BY <1>2, <1>4, StreamConcat DEF RingView
<1>6. Len(Unread) = Readable
  BY StreamIsSeq DEF RingView
<1>7. pdone \in 0 .. (Cap - 1) - Len(Unread)
  BY <1>2, <1>6, CapAssumption DEF RingView, Writable
<1> QED BY <1>1, <1>5, <1>7 DEF Queue!Put, Unread, Stream

\* StoreHead and clear take a prefix of the queue.
LEMMA TakingGets ==
    ASSUME RingView, RingView', written' = written,
           NEW n \in Nat, n <= Readable, consumed' = consumed + n,
           Readable' = Readable - n
    PROVE  Queue!Get
<1>1. n \in 0 .. Readable /\ consumed \in Nat /\ Readable \in Nat
  BY DEF RingView
<1>2. Unread' = Stream(consumed + n, Readable - n)
  BY DEF RingView
<1>3. Unread' = SubSeq(Unread, n + 1, Readable)
  BY <1>1, <1>2, StreamRest DEF RingView
<1>4. Len(Unread) = Readable
  BY StreamIsSeq DEF RingView
<1> QED BY <1>1, <1>3, <1>4 DEF Queue!Get, Unread

\* Every step of the ring is a step of the queue, or none.
LEMMA RingStepIsQueueStep ==
    IInv /\ RingView /\ RingView' /\ [Next]_vars
        => [Queue!Put \/ Queue!Get]_<<Unread, written>>
<1> SUFFICES ASSUME IInv, RingView, RingView', [Next]_vars
             PROVE  Queue!Put \/ Queue!Get \/ UNCHANGED <<Unread, written>>
  OBVIOUS
<1>1. CASE \/ \E n \in Idx : TryWrite(n) \/ BeginRead("read", n) \/ BeginRead("peek", n)
           \/ LinearWritablePtr \/ LinearReadablePtr \/ ReadByte \/ WriteByte
  <2>1. UNCHANGED <<head, tail, written, consumed>>
    BY <1>1 DEF TryWrite, BeginRead, LinearWritablePtr, LinearReadablePtr, ReadByte,
                WriteByte, pvars, cvars
  <2> QED BY <2>1, RingStutters
<1>2. CASE StoreTail
  BY <1>2, StoreTailPuts
<1>3. CASE StoreHead
  <2>1. PICK n \in {0, cdone} : /\ consumed' = consumed + n /\ written' = written
                                /\ head' = Wrap(head + n) /\ tail' = tail
    BY <1>3 DEF StoreHead, pvars
  <2>2. n \in Nat /\ n <= Readable /\ head \in Idx /\ tail \in Idx
    BY <2>1 DEF RingView, IInv, TypeOK, Grants, Idx
  <2>3. Readable' = Readable - n
    BY <2>1, <2>2, Moves DEF Readable
  <2> QED BY <2>1, <2>2, <2>3, TakingGets
<1>4. CASE Clear
  <2>1. /\ consumed' = consumed + Readable /\ written' = written
        /\ Readable \in Nat /\ Readable <= Readable
    <3>1. written = consumed + Readable /\ Readable \in Nat
      BY DEF RingView
    <3>2. consumed' = written /\ written' = written
      BY <1>4 DEF Clear
    <3> QED BY <3>1, <3>2
  <2>2. Readable' = 0
    BY <1>4 DEF Clear, Readable
  <2>3. Readable' = Readable - Readable
    BY <2>1, <2>2
  <2> QED BY <2>1, <2>3, TakingGets
<1>5. CASE UNCHANGED vars
  <2>1. UNCHANGED <<head, tail, written, consumed>>
    BY <1>5 DEF vars, pvars, cvars
  <2> QED BY <2>1, RingStutters
<1> QED BY <1>1, <1>2, <1>3, <1>4, <1>5 DEF Next, Producer, Consumer

\* For every capacity: a ring with a producer and a consumer, in whatever order their
\* loads, copies and stores interleave, is a bounded FIFO of bytes (RingByteBuf.h).  A
\* write is there at once or not at all, a read takes a prefix.
THEOREM RingIsByteQueue == Spec => IsByteQueue
<1>1. Init => Queue!Init
  <2> SUFFICES ASSUME Init PROVE Queue!Init
    OBVIOUS
  <2>1. Readable = 0 /\ written = 0
    BY DEF Init, Readable
  <2> QED BY <2>1 DEF Queue!Init
<1>2. IInv /\ RingView /\ RingView' /\ [Next]_vars
        => [Queue!Put \/ Queue!Get]_<<[k \in 1 .. Readable |-> buf[Wrap(head + k - 1)]], written>>
  BY RingStepIsQueueStep DEF Unread
<1> QED BY <1>1, <1>2, ViewHolds, Invariance, PTL DEF Spec, IsByteQueue, Queue!Spec
=============================================================================
