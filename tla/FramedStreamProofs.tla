-------------------------- MODULE FramedStreamProofs --------------------------
(***************************************************************************)
(* Proofs about FramedStream, for all frames, links and ring sizes: the    *)
(* bytes of the frames accepted are conserved from ring to ring, so that   *)
(* what is parsed at the far end is the next frame, whole, and a connection *)
(* is refused for the right reason only.                                   *)
(***************************************************************************)
EXTENDS FramedStream, SequenceTheorems, FiniteSetTheorems, TLAPS

-----------------------------------------------------------------------------
(* Induction over the naturals, and what FlattenSeq builds.                *)

\* A set of naturals that is not empty has a least element: of the intervals 1 .. i
\* of its elements, which are finite, one contains no other.
LEMMA LeastNat ==
    ASSUME NEW B \in SUBSET Nat, B # {}
    PROVE  \E i \in B : \A j \in B : i <= j
<1> DEFINE T == {1 .. i : i \in B}
           R == StrictSubsetOrdering(Nat)
           S == FiniteSubsetsOf(Nat)
<1>1. T \subseteq S
  <2> SUFFICES ASSUME NEW i \in B PROVE 1 .. i \in S
    OBVIOUS
  <2>1. 1 .. i \subseteq Nat
    OBVIOUS
  <2>2. IsFiniteSet(1 .. i)
    BY FS_Interval
  <2> QED BY <2>1, <2>2 DEF FiniteSubsetsOf
<1>2. T # {}
  OBVIOUS
<1>3. IsWellFoundedOn(R, S)
  BY FS_StrictSubsetOrderingWellFounded
<1>4. \E x \in T : \A y \in T : ~ (<<y, x>> \in R)
  <2> HIDE DEF R, S, T
  <2> QED BY <1>1, <1>2, <1>3, WFMin
<1>5. PICK i \in B : \A j \in B : ~ (<<1 .. j, 1 .. i>> \in R)
  BY <1>4
<1>6. ASSUME NEW j \in B, j < i PROVE FALSE
  <2>1. 1 .. j \subseteq Nat /\ 1 .. i \subseteq Nat /\ 1 .. j \subseteq 1 .. i
    BY <1>6
  <2>2. i \in 1 .. i /\ i \notin 1 .. j
    BY <1>6
  <2>3. <<1 .. j, 1 .. i>> \in R
    BY <2>1, <2>2 DEF StrictSubsetOrdering
  <2> QED BY <1>5, <2>3
<1> QED BY <1>6

\* Induction, stated of a set and not of an operator, which is how it can be cited.
LEMMA NatInd ==
    ASSUME NEW B \in SUBSET Nat, 0 \in B, \A n \in B : n + 1 \in B
    PROVE  B = Nat
<1> DEFINE C == Nat \ B
<1> SUFFICES ASSUME C # {} PROVE FALSE
  OBVIOUS
<1>1. PICK i \in C : \A j \in C : i <= j
  <2>1. C \in SUBSET Nat
    OBVIOUS
  <2> HIDE DEF C
  <2> QED BY <2>1, LeastNat
<1>2. i # 0 /\ i - 1 \in Nat
  OBVIOUS
<1>3. i - 1 \in B
  BY <1>1, <1>2
<1>4. (i - 1) + 1 \in B
  BY <1>3
<1> QED BY <1>4, <1>2


\* What FlattenSeq builds: the concatenation of the first i sequences, for each i.
IsFlat(F, ss, n) ==
    F = [i \in 1 .. n |-> IF i = 1 THEN ss[i] ELSE F[i - 1] \o ss[i]]

\* Such a function exists for every number of sequences.
LEMMA FlatExists == ASSUME NEW ss PROVE \A n \in Nat : \E F : IsFlat(F, ss, n)
<1> DEFINE B == {n \in Nat : \E F : IsFlat(F, ss, n)}
<1>1. 0 \in B
  <2> DEFINE F == [i \in 1 .. 0 |-> ss]
  <2>1. F = [i \in 1 .. 0 |-> IF i = 1 THEN ss[i] ELSE F[i - 1] \o ss[i]]
    OBVIOUS
  <2> QED BY <2>1 DEF IsFlat
<1>2. ASSUME NEW n \in B PROVE n + 1 \in B
  <2>1. PICK F : IsFlat(F, ss, n)
    OBVIOUS
  <2> DEFINE last == IF n = 0 THEN ss[1] ELSE F[n] \o ss[n + 1]
             G == [i \in 1 .. n + 1 |-> IF i = n + 1 THEN last ELSE F[i]]
  <2>2. \A i \in 1 .. n : F[i] = IF i = 1 THEN ss[i] ELSE F[i - 1] \o ss[i]
    <3> HIDE DEF B
    <3> QED BY <2>1 DEF IsFlat
  <2>3. ASSUME NEW i \in 1 .. n + 1
        PROVE  G[i] = IF i = 1 THEN ss[i] ELSE G[i - 1] \o ss[i]
    <3>1. CASE i = n + 1 /\ n = 0
      BY <3>1
    <3>2. CASE i = n + 1 /\ n # 0
      <4>1. n \in 1 .. n + 1 /\ n # n + 1 /\ i - 1 = n /\ i # 1
        BY <3>2
      <4>2. G[i - 1] = F[n]
        BY <4>1
      <4>3. G[i] = F[n] \o ss[n + 1]
        BY <3>2
      <4> QED BY <3>2, <4>1, <4>2, <4>3
    <3>3. CASE i # n + 1
      <4>1. i \in 1 .. n
        BY <3>3
      <4>2. G[i] = F[i]
        BY <3>3
      <4>3. i # 1 => i - 1 \in 1 .. n + 1 /\ i - 1 # n + 1
        BY <4>1
      <4>4. i # 1 => G[i - 1] = F[i - 1]
        BY <4>3
      <4> HIDE DEF G
      <4> QED BY <2>2, <4>1, <4>2, <4>4
    <3> QED BY <3>1, <3>2, <3>3
  <2>4. G = [i \in 1 .. n + 1 |-> IF i = 1 THEN ss[i] ELSE G[i - 1] \o ss[i]]
    <3>1. G = [i \in 1 .. n + 1 |-> G[i]]
      OBVIOUS
    <3> HIDE DEF G
    <3> QED BY <2>3, <3>1
  <2>5. IsFlat(G, ss, n + 1)
    BY <2>4 DEF IsFlat
  <2> QED BY <2>5
<1>3. B = Nat
  <2> HIDE DEF B
  <2>1. B \in SUBSET Nat
    BY DEF B
  <2> QED BY <1>1, <1>2, <2>1, NatInd
<1> QED BY <1>3

\* It depends on the sequences up to the i-th only.
LEMMA FlatAgrees ==
    ASSUME NEW F, NEW G, NEW ss, NEW tt, NEW n \in Nat, NEW m \in Nat,
           n <= m, IsFlat(F, ss, n), IsFlat(G, tt, m),
           \A i \in 1 .. n : ss[i] = tt[i]
    PROVE  \A i \in 1 .. n : F[i] = G[i]
<1> DEFINE B == {k \in Nat : k \in 1 .. n => F[k] = G[k]}
<1>1. \A i \in 1 .. n : F[i] = IF i = 1 THEN ss[i] ELSE F[i - 1] \o ss[i]
  BY DEF IsFlat
<1>2. \A i \in 1 .. n : G[i] = IF i = 1 THEN tt[i] ELSE G[i - 1] \o tt[i]
  <2>1. \A i \in 1 .. m : G[i] = IF i = 1 THEN tt[i] ELSE G[i - 1] \o tt[i]
    BY DEF IsFlat
  <2> QED BY <2>1
<1>3. ASSUME NEW k \in B PROVE k + 1 \in B
  <2> SUFFICES ASSUME k + 1 \in 1 .. n PROVE F[k + 1] = G[k + 1]
    OBVIOUS
  <2>1. CASE k = 0
    BY <1>1, <1>2, <2>1
  <2>2. CASE k # 0
    <3>1. k \in 1 .. n /\ k + 1 # 1 /\ (k + 1) - 1 = k
      BY <2>2
    <3>2. F[k] = G[k]
      BY <3>1
    <3>3. F[k + 1] = F[k] \o ss[k + 1]
      BY <1>1, <3>1
    <3>4. G[k + 1] = G[k] \o tt[k + 1]
      BY <1>2, <3>1
    <3> QED BY <3>2, <3>3, <3>4
  <2> QED BY <2>1, <2>2
<1>4. B = Nat
  <2>1. B \in SUBSET Nat /\ 0 \in B
    OBVIOUS
  <2> HIDE DEF B
  <2> QED BY <1>3, <2>1, NatInd
<1> QED BY <1>4

\* So FlattenSeq is what it says it is.
LEMMA FlattenIs ==
    ASSUME NEW ss, Len(ss) \in Nat, Len(ss) # 0
    PROVE  \E F : IsFlat(F, ss, Len(ss)) /\ FlattenSeq(ss) = F[Len(ss)]
<1> DEFINE F == CHOOSE f : f = [i \in 1 .. Len(ss) |-> IF i = 1 THEN ss[i] ELSE f[i - 1] \o ss[i]]
<1>1. \E f : f = [i \in 1 .. Len(ss) |-> IF i = 1 THEN ss[i] ELSE f[i - 1] \o ss[i]]
  BY FlatExists DEF IsFlat
<1>2. F = [i \in 1 .. Len(ss) |-> IF i = 1 THEN ss[i] ELSE F[i - 1] \o ss[i]]
  BY <1>1
<1>3. FlattenSeq(ss) = F[Len(ss)]
  BY DEF FlattenSeq
<1> HIDE DEF F
<1> QED BY <1>2, <1>3 DEF IsFlat

\* A sequence added to the sequences is added to their concatenation.
LEMMA FlattenAppend ==
    ASSUME NEW S, NEW ss \in Seq(Seq(S)), NEW s \in Seq(S)
    PROVE  FlattenSeq(Append(ss, s)) = FlattenSeq(ss) \o s
<1> DEFINE n == Len(ss)
           tt == Append(ss, s)
<1>1. /\ n \in Nat /\ Len(tt) = n + 1
      /\ \A i \in 1 .. n : ss[i] = tt[i]
      /\ tt[n + 1] = s
  <2>1. n \in Nat
    BY LenProperties
  <2> QED BY <2>1, AppendProperties
<1> HIDE DEF tt, n
<1>2. PICK G : IsFlat(G, tt, n + 1) /\ FlattenSeq(tt) = G[n + 1]
  <2>1. Len(tt) \in Nat /\ Len(tt) # 0
    BY <1>1
  <2> QED BY <2>1, <1>1, FlattenIs
<1>3. \A i \in 1 .. n + 1 : G[i] = IF i = 1 THEN tt[i] ELSE G[i - 1] \o tt[i]
  BY <1>2 DEF IsFlat
<1>4. CASE n = 0
  <2>1. G[1] = s
    BY <1>1, <1>3, <1>4
  <2>2. FlattenSeq(ss) = ss /\ ss = <<>>
    BY <1>4, EmptySeq DEF FlattenSeq, n
  <2>3. <<>> \o s = s
    BY ConcatEmptySeq
  <2> QED BY <2>1, <2>2, <2>3, <1>2, <1>4 DEF tt
<1>5. CASE n # 0
  <2>1. PICK F : IsFlat(F, ss, n) /\ FlattenSeq(ss) = F[n]
    BY <1>1, <1>5, FlattenIs DEF n
  <2>2. \A i \in 1 .. n : F[i] = G[i]
    <3>1. n + 1 \in Nat /\ n <= n + 1
      BY <1>1
    <3>2. /\ IsFlat(F, ss, n) /\ IsFlat(G, tt, n + 1)
          /\ n \in Nat /\ \A i \in 1 .. n : ss[i] = tt[i]
      BY <1>1, <1>2, <2>1
    <3> QED BY <3>1, <3>2, FlatAgrees
  <2>3. n \in 1 .. n /\ n + 1 \in 1 .. n + 1 /\ n + 1 # 1 /\ (n + 1) - 1 = n
    BY <1>1, <1>5
  <2>4. G[n + 1] = G[n] \o s
    BY <1>1, <1>3, <2>3
  <2>5. F[n] = G[n]
    BY <2>2, <2>3
  <2> QED BY <1>2, <2>1, <2>4, <2>5 DEF tt
<1> QED BY <1>4, <1>5

-----------------------------------------------------------------------------
(* Frames as bytes.                                                        *)

\* What the assumptions say of the link.
LEMMA LinkTypes ==
    ASSUME link \in Links
    PROVE  SHdr \in {3, 4} /\ RHdr \in {3, 4} /\ RCap \in Nat /\ RCap >= 2
<1>1. link \in [shdr : {3, 4}, rhdr : {3, 4}, rcap : Nat \ {0, 1}]
  BY StreamAssumption
<1> QED BY <1>1 DEF SHdr, RHdr, RCap

\* A frame is at least as long as its header, and byte i is the frame's i-th.
LEMMA FrameIsBytes ==
    ASSUME link \in Links, NEW f \in Frames
    PROVE  /\ FrameLen(f) \in Nat /\ FrameLen(f) = SHdr + BodyLen[f] /\ BodyLen[f] \in Nat
           /\ FrameLen(f) >= SHdr /\ FrameLen(f) >= 3
           /\ FrameBytes(f) \in Seq(Byte)
           /\ Len(FrameBytes(f)) = FrameLen(f)
           /\ \A i \in 1 .. FrameLen(f) : FrameBytes(f)[i] = [frame |-> f, at |-> i - 1]
<1>1. /\ FrameLen(f) \in Nat /\ FrameLen(f) = SHdr + BodyLen[f] /\ BodyLen[f] \in Nat
      /\ FrameLen(f) >= SHdr /\ FrameLen(f) >= 3
  <2>1. BodyLen[f] \in Nat
    BY StreamAssumption
  <2> QED BY <2>1, LinkTypes DEF FrameLen
<1>2. ASSUME NEW i \in 1 .. FrameLen(f) PROVE [frame |-> f, at |-> i - 1] \in Byte
  BY <1>1 DEF Byte
<1>3. /\ FrameBytes(f) \in [1 .. FrameLen(f) -> Byte]
      /\ \A i \in 1 .. FrameLen(f) : FrameBytes(f)[i] = [frame |-> f, at |-> i - 1]
  <2> HIDE DEF Byte
  <2> QED BY <1>2 DEF FrameBytes
<1>4. FrameBytes(f) \in Seq(Byte) /\ DOMAIN FrameBytes(f) = 1 .. FrameLen(f)
  BY <1>1, <1>3, SeqDef
<1>5. Len(FrameBytes(f)) = FrameLen(f)
  BY <1>1, <1>4, LenProperties
<1> QED BY <1>1, <1>3, <1>4, <1>5

\* The frames of fs, each as its bytes.
EachAsBytes(fs) == [i \in 1 .. Len(fs) |-> FrameBytes(fs[i])]

\* They are sequences of bytes, one for each frame.
LEMMA EachAsBytesIsSeq ==
    ASSUME link \in Links, NEW fs \in Seq(Frames)
    PROVE  /\ EachAsBytes(fs) \in Seq(Seq(Byte))
           /\ Len(EachAsBytes(fs)) = Len(fs)
           /\ \A i \in 1 .. Len(fs) : EachAsBytes(fs)[i] = FrameBytes(fs[i])
<1>1. Len(fs) \in Nat /\ \A i \in 1 .. Len(fs) : fs[i] \in Frames
  BY LenProperties, ElementOfSeq
<1>2. \A i \in 1 .. Len(fs) : FrameBytes(fs[i]) \in Seq(Byte)
  BY <1>1, FrameIsBytes
<1>3. EachAsBytes(fs) \in [1 .. Len(fs) -> Seq(Byte)]
  BY <1>2 DEF EachAsBytes
<1>4. EachAsBytes(fs) \in Seq(Seq(Byte)) /\ DOMAIN EachAsBytes(fs) = 1 .. Len(fs)
  BY <1>1, <1>3, SeqDef
<1>5. Len(EachAsBytes(fs)) = Len(fs)
  BY <1>1, <1>4, LenProperties
<1> QED BY <1>4, <1>5 DEF EachAsBytes

\* No frames, no bytes.
LEMMA BytesOfNone == BytesOf(<<>>) = <<>>
<1> DEFINE ss == [i \in 1 .. Len(<<>>) |-> FrameBytes(<<>>[i])]
<1>1. Len(<<>>) = 0
  OBVIOUS
<1>2. ss \in Seq(Nat) /\ Len(ss) = 0
  BY <1>1
<1>3. ss = <<>>
  <2> HIDE DEF ss
  <2> QED BY <1>2, EmptySeq
<1> QED BY <1>2, <1>3 DEF BytesOf, FlattenSeq

\* A frame sent adds its bytes at the end.
LEMMA BytesOfAppend ==
    ASSUME link \in Links, NEW fs \in Seq(Frames), NEW f \in Frames
    PROVE  BytesOf(Append(fs, f)) = BytesOf(fs) \o FrameBytes(f)
<1> DEFINE ss == EachAsBytes(fs)
           tt == EachAsBytes(Append(fs, f))
           uu == Append(ss, FrameBytes(f))
<1>1. /\ Append(fs, f) \in Seq(Frames)
      /\ Len(Append(fs, f)) = Len(fs) + 1
      /\ \A i \in 1 .. Len(fs) : Append(fs, f)[i] = fs[i]
      /\ Append(fs, f)[Len(fs) + 1] = f
      /\ Len(fs) \in Nat
  BY AppendProperties, LenProperties
<1>2. /\ ss \in Seq(Seq(Byte)) /\ Len(ss) = Len(fs)
      /\ \A i \in 1 .. Len(fs) : ss[i] = FrameBytes(fs[i])
  BY EachAsBytesIsSeq
<1>3. /\ tt \in Seq(Seq(Byte)) /\ Len(tt) = Len(fs) + 1
      /\ \A i \in 1 .. Len(fs) + 1 : tt[i] = FrameBytes(Append(fs, f)[i])
  BY <1>1, EachAsBytesIsSeq
<1>4. FrameBytes(f) \in Seq(Byte)
  BY FrameIsBytes
<1>5. /\ uu \in Seq(Seq(Byte)) /\ Len(uu) = Len(fs) + 1
      /\ \A i \in 1 .. Len(fs) : uu[i] = ss[i]
      /\ uu[Len(fs) + 1] = FrameBytes(f)
  <2> HIDE DEF ss
  <2> QED BY <1>2, <1>4, AppendProperties
<1> HIDE DEF ss, tt, uu
<1>6. ASSUME NEW i \in 1 .. Len(fs) + 1 PROVE tt[i] = uu[i]
  BY <1>1, <1>2, <1>3, <1>5
<1>7. tt = uu
  BY <1>3, <1>5, <1>6, SeqEqual
<1>8. FlattenSeq(uu) = FlattenSeq(ss) \o FrameBytes(f)
  BY <1>2, <1>4, FlattenAppend DEF uu
<1> QED BY <1>7, <1>8 DEF ss, tt, BytesOf, EachAsBytes

\* A sequence that is not empty, without its last element.
LEMMA SeqEnds ==
    ASSUME NEW S, NEW fs \in Seq(S), NEW n \in Nat, Len(fs) = n + 1
    PROVE  \E gs \in Seq(S), f \in S : fs = Append(gs, f) /\ Len(gs) = n
<1>1. fs # <<>>
  BY EmptySeq
<1>2. PICK gs \in Seq(S), f \in S : fs = Append(gs, f)
  BY <1>1, SequenceEmptyOrAppend
<1>3. Len(fs) = Len(gs) + 1 /\ Len(gs) \in Nat
  BY <1>2, AppendProperties, LenProperties
<1>4. Len(gs) = n
  BY <1>3
<1> QED BY <1>2, <1>4

\* Frames are sent as bytes of frames, by induction on their number.
LEMMA BytesOfIsSeq ==
    ASSUME link \in Links
    PROVE  \A fs \in Seq(Frames) : BytesOf(fs) \in Seq(Byte)
<1> DEFINE B == {n \in Nat : \A fs \in Seq(Frames) : Len(fs) = n => BytesOf(fs) \in Seq(Byte)}
<1>1. 0 \in B
  BY BytesOfNone, EmptySeq
<1>2. ASSUME NEW n \in B PROVE n + 1 \in B
  <2> SUFFICES ASSUME NEW fs \in Seq(Frames), Len(fs) = n + 1
               PROVE  BytesOf(fs) \in Seq(Byte)
    OBVIOUS
  <2>1. PICK gs \in Seq(Frames), f \in Frames : fs = Append(gs, f) /\ Len(gs) = n
    BY SeqEnds
  <2>2. BytesOf(gs) \in Seq(Byte)
    BY <2>1
  <2>3. FrameBytes(f) \in Seq(Byte)
    BY FrameIsBytes
  <2>4. BytesOf(fs) = BytesOf(gs) \o FrameBytes(f)
    BY <2>1, BytesOfAppend
  <2> QED BY <2>2, <2>3, <2>4, ConcatProperties
<1>3. B = Nat
  <2>1. B \in SUBSET Nat
    OBVIOUS
  <2> HIDE DEF B
  <2> QED BY <1>1, <1>2, <2>1, NatInd
<1>4. ASSUME NEW fs \in Seq(Frames) PROVE BytesOf(fs) \in Seq(Byte)
  <2>1. Len(fs) \in B
    BY <1>3, LenProperties
  <2> QED BY <2>1
<1> QED BY <1>4

-----------------------------------------------------------------------------
(* Sequences cut and put together.                                         *)

\* A sequence is what one cuts off it and the rest.
LEMMA Cut ==
    ASSUME NEW S, NEW s \in Seq(S), NEW n \in 0 .. Len(s)
    PROVE  /\ SubSeq(s, 1, n) \in Seq(S) /\ Len(SubSeq(s, 1, n)) = n
           /\ Drop(s, n) \in Seq(S) /\ Len(Drop(s, n)) = Len(s) - n
           /\ s = SubSeq(s, 1, n) \o Drop(s, n)
<1>1. Len(s) \in Nat /\ \A i \in 1 .. Len(s) : s[i] \in S
  BY LenProperties, ElementOfSeq
<1>2. /\ SubSeq(s, 1, n) \in Seq(S)
      /\ Len(SubSeq(s, 1, n)) = IF 1 <= n THEN n - 1 + 1 ELSE 0
      /\ \A i \in 1 .. n - 1 + 1 : SubSeq(s, 1, n)[i] = s[1 + i - 1]
  <2>1. \A i \in 1 .. n : s[i] \in S
    BY <1>1
  <2> QED BY <2>1, <1>1, SubSeqProperties
<1>3. /\ SubSeq(s, n + 1, Len(s)) \in Seq(S)
      /\ Len(SubSeq(s, n + 1, Len(s))) = IF n + 1 <= Len(s) THEN Len(s) - (n + 1) + 1 ELSE 0
  <2>1. \A i \in n + 1 .. Len(s) : s[i] \in S
    BY <1>1
  <2>2. n + 1 \in Int /\ Len(s) \in Int
    BY <1>1
  <2> QED BY <2>1, <2>2, SubSeqProperties
<1>4. s = SubSeq(s, 1, n) \o SubSeq(s, n + 1, Len(s))
  <2>1. 1 \in 1 .. Len(s) + 1 /\ n \in 1 - 1 .. Len(s) /\ Len(s) \in n .. Len(s)
    BY <1>1
  <2>2. SubSeq(s, 1, n) \o SubSeq(s, n + 1, Len(s)) = SubSeq(s, 1, Len(s))
    BY <2>1, ConcatAdjacentSubSeq
  <2> QED BY <2>2, SubSeqFull
<1>5. Len(SubSeq(s, 1, n)) = n /\ Len(SubSeq(s, n + 1, Len(s))) = Len(s) - n
  BY <1>1, <1>2, <1>3
<1> QED BY <1>2, <1>3, <1>4, <1>5 DEF Drop

\* \o and the prefix, as operators the provers do not look into.
Cat(s, t)  == s \o t
Take(s, n) == SubSeq(s, 1, n)

\* The laws of concatenation, restated for Cat.
LEMMA CatSeq == ASSUME NEW S, NEW s \in Seq(S), NEW t \in Seq(S) PROVE Cat(s, t) \in Seq(S)
BY ConcatProperties DEF Cat

\* Concatenation is associative.
LEMMA CatAssoc ==
    ASSUME NEW S, NEW s \in Seq(S), NEW t \in Seq(S), NEW u \in Seq(S)
    PROVE  Cat(Cat(s, t), u) = Cat(s, Cat(t, u))
BY ConcatAssociative DEF Cat

\* And the empty sequence is its unit.
LEMMA CatEmpty ==
    ASSUME NEW S, NEW s \in Seq(S)
    PROVE  Cat(s, <<>>) = s /\ Cat(<<>>, s) = s
BY ConcatEmptySeq DEF Cat

\* A sequence is what one takes off its front, and the rest.
LEMMA TakeDrop ==
    ASSUME NEW S, NEW s \in Seq(S), NEW n \in 0 .. Len(s)
    PROVE  Take(s, n) \in Seq(S) /\ Drop(s, n) \in Seq(S) /\ s = Cat(Take(s, n), Drop(s, n))
BY Cut DEF Cat, Take

\* Bytes that go from the front of l to the end of w stay where they were.
LEMMA Slide ==
    ASSUME NEW S, NEW x \in Seq(S), NEW w \in Seq(S), NEW l \in Seq(S), NEW n \in 0 .. Len(l)
    PROVE  Cat(Cat(x, w), l) = Cat(Cat(x, Cat(w, Take(l, n))), Drop(l, n))
BY TakeDrop, CatSeq, CatAssoc

\* When the kernels lose the bytes of w from some byte on, what is left is still a
\* prefix of the whole.
LEMMA Truncate ==
    ASSUME NEW S, NEW y \in Seq(S), NEW w \in Seq(S), NEW l \in Seq(S), NEW u \in Seq(S),
           NEW n \in 0 .. Len(w)
    PROVE  \E v \in Seq(S) : Cat(Cat(Cat(y, w), l), u) = Cat(Cat(Cat(y, Take(w, n)), <<>>), v)
<1> DEFINE v == Cat(Cat(Drop(w, n), l), u)
<1>1. v \in Seq(S)
  BY TakeDrop, CatSeq
<1>2. Cat(Cat(Cat(y, w), l), u) = Cat(Cat(y, Take(w, n)), v)
  BY TakeDrop, CatSeq, CatAssoc
<1>3. Cat(Cat(y, Take(w, n)), <<>>) = Cat(y, Take(w, n))
  BY TakeDrop, CatSeq, CatEmpty
<1> QED BY <1>1, <1>2, <1>3

\* What follows a prefix is determined by the prefix and the whole.
LEMMA CancelLeft ==
    ASSUME NEW S, NEW s \in Seq(S), NEW t \in Seq(S), NEW v \in Seq(S), Cat(s, t) = Cat(s, v)
    PROVE  t = v
<1>0. s \o t = s \o v
  BY DEF Cat
<1>1. Len(s) \in Nat /\ Len(t) \in Nat /\ Len(v) \in Nat
  BY LenProperties
<1>2. /\ Len(s \o t) = Len(s) + Len(t)
      /\ \A i \in 1 .. Len(s) + Len(t) : (s \o t)[i] = IF i <= Len(s) THEN s[i] ELSE t[i - Len(s)]
  BY ConcatProperties
<1>3. /\ Len(s \o v) = Len(s) + Len(v)
      /\ \A i \in 1 .. Len(s) + Len(v) : (s \o v)[i] = IF i <= Len(s) THEN s[i] ELSE v[i - Len(s)]
  BY ConcatProperties
<1>4. Len(t) = Len(v)
  BY <1>0, <1>1, <1>2, <1>3
<1>5. ASSUME NEW i \in 1 .. Len(t) PROVE t[i] = v[i]
  <2>1. /\ Len(s) + i \in 1 .. Len(s) + Len(t) /\ Len(s) + i \in 1 .. Len(s) + Len(v)
        /\ ~ (Len(s) + i <= Len(s)) /\ (Len(s) + i) - Len(s) = i
    BY <1>1, <1>4
  <2>2. (s \o t)[Len(s) + i] = t[i]
    BY <1>2, <2>1
  <2>3. (s \o v)[Len(s) + i] = v[i]
    BY <1>3, <2>1
  <2> QED BY <1>0, <2>2, <2>3
<1> QED BY <1>4, <1>5, SeqEqual

\* Bytes leave the front of the ring whatever has joined its end.
LEMMA DropCat ==
    ASSUME NEW S, NEW s \in Seq(S), NEW t \in Seq(S), NEW n \in 0 .. Len(s)
    PROVE  Drop(Cat(s, t), n) = Cat(Drop(s, n), t)
<1>1. /\ Take(s, n) \in Seq(S) /\ Drop(s, n) \in Seq(S) /\ s = Cat(Take(s, n), Drop(s, n))
      /\ Cat(s, t) \in Seq(S)
  BY TakeDrop, CatSeq
<1>2. n \in 0 .. Len(Cat(s, t))
  <2>1. Len(Cat(s, t)) = Len(s) + Len(t) /\ Len(s) \in Nat /\ Len(t) \in Nat
    BY ConcatProperties, LenProperties DEF Cat
  <2> QED BY <2>1
<1>3. Take(Cat(s, t), n) = Take(s, n)
  <2>1. CASE n = 0
    BY <2>1, SubSeqEmpty DEF Take
  <2>2. CASE n # 0
    <3>1. 1 \in 1 .. Len(s) /\ n \in 1 .. Len(s)
      BY <2>2, LenProperties
    <3> QED BY <3>1, SubSeqOfConcat1 DEF Take, Cat
  <2> QED BY <2>1, <2>2
<1>4. /\ Drop(Cat(s, t), n) \in Seq(S)
      /\ Cat(s, t) = Cat(Take(s, n), Drop(Cat(s, t), n))
  BY <1>1, <1>2, <1>3, TakeDrop
<1>5. /\ Cat(Drop(s, n), t) \in Seq(S)
      /\ Cat(s, t) = Cat(Take(s, n), Cat(Drop(s, n), t))
  BY <1>1, CatSeq, CatAssoc
<1>6. Cat(Take(s, n), Drop(Cat(s, t), n)) = Cat(Take(s, n), Cat(Drop(s, n), t))
  BY <1>4, <1>5
<1> QED BY <1>1, <1>4, <1>5, <1>6, CancelLeft

\* The bytes of a frame come after those of the frames before it.
LEMMA BytesOfLonger ==
    ASSUME link \in Links, NEW fs \in Seq(Frames), NEW f \in Frames
    PROVE  BytesOf(Append(fs, f)) = Cat(BytesOf(fs), FrameBytes(f))
BY BytesOfAppend DEF Cat

\* The bytes of the first k frames come first.
LEMMA BytesOfSplit ==
    ASSUME link \in Links
    PROVE  \A fs \in Seq(Frames) : \A k \in 0 .. Len(fs) :
               \E v \in Seq(Byte) : BytesOf(fs) = Cat(BytesOf(Take(fs, k)), v)
<1> DEFINE Splits(fs) == \A k \in 0 .. Len(fs) :
                             \E v \in Seq(Byte) : BytesOf(fs) = Cat(BytesOf(Take(fs, k)), v)
           B == {n \in Nat : \A fs \in Seq(Frames) : Len(fs) = n => Splits(fs)}
<1>w. ASSUME NEW fs \in Seq(Frames)
      PROVE  \E v \in Seq(Byte) : BytesOf(fs) = Cat(BytesOf(Take(fs, Len(fs))), v)
  <2>1. Take(fs, Len(fs)) = fs
    BY SubSeqFull DEF Take
  <2>2. BytesOf(fs) \in Seq(Byte)
    BY BytesOfIsSeq
  <2>3. Cat(BytesOf(fs), <<>>) = BytesOf(fs) /\ <<>> \in Seq(Byte)
    BY <2>2, CatEmpty, EmptySeq
  <2> QED BY <2>1, <2>3
<1>1. 0 \in B
  <2> SUFFICES ASSUME NEW fs \in Seq(Frames), Len(fs) = 0, NEW k \in 0 .. 0
               PROVE  \E v \in Seq(Byte) : BytesOf(fs) = Cat(BytesOf(Take(fs, k)), v)
    OBVIOUS
  <2>1. k = Len(fs)
    OBVIOUS
  <2> QED BY <1>w, <2>1
<1>2. ASSUME NEW n \in B PROVE n + 1 \in B
  <2>n. n \in Nat /\ n + 1 \in Nat
    OBVIOUS
  <2> SUFFICES ASSUME NEW fs \in Seq(Frames), Len(fs) = n + 1, NEW k \in 0 .. Len(fs)
               PROVE  \E v \in Seq(Byte) : BytesOf(fs) = Cat(BytesOf(Take(fs, k)), v)
    BY <2>n
  <2>1. PICK gs \in Seq(Frames), f \in Frames : fs = Append(gs, f) /\ Len(gs) = n
    BY SeqEnds
  <2>2. CASE k = n + 1
    BY <1>w, <2>2
  <2>3. CASE k # n + 1
    <3>1. k \in 0 .. n
      BY <2>3, <2>n
    <3>2. PICK v \in Seq(Byte) : BytesOf(gs) = Cat(BytesOf(Take(gs, k)), v)
      BY <2>1, <3>1
    <3>3. Take(fs, k) = Take(gs, k)
      <4>1. CASE k = 0
        BY <4>1, SubSeqEmpty DEF Take
      <4>2. CASE k # 0
        <5>1. fs = gs \o <<f>> /\ <<f>> \in Seq(Frames)
          BY <2>1, AppendIsConcat
        <5>2. 1 \in 1 .. Len(gs) /\ k \in 1 .. Len(gs)
          BY <2>1, <3>1, <4>2
        <5> QED BY <5>1, <5>2, SubSeqOfConcat1 DEF Take
      <4> QED BY <4>1, <4>2
    <3>4. BytesOf(fs) = Cat(BytesOf(gs), FrameBytes(f)) /\ FrameBytes(f) \in Seq(Byte)
      BY <2>1, BytesOfLonger, FrameIsBytes
    <3>5. BytesOf(Take(gs, k)) \in Seq(Byte)
      BY <2>1, <3>1, TakeDrop, BytesOfIsSeq
    <3>6. Cat(v, FrameBytes(f)) \in Seq(Byte)
      BY <3>2, <3>4, CatSeq
    <3>7. BytesOf(fs) = Cat(BytesOf(Take(fs, k)), Cat(v, FrameBytes(f)))
      BY <3>2, <3>3, <3>4, <3>5, CatAssoc
    <3> QED BY <3>6, <3>7
  <2> QED BY <2>2, <2>3
<1>3. B = Nat
  <2>1. B \in SUBSET Nat
    OBVIOUS
  <2> HIDE DEF B
  <2> QED BY <1>1, <1>2, <2>1, NatInd
<1>4. ASSUME NEW fs \in Seq(Frames) PROVE Splits(fs)
  <2>1. Len(fs) \in B
    BY <1>3, LenProperties
  <2> HIDE DEF Splits
  <2> QED BY <2>1
<1> QED BY <1>4

(***************************************************************************)
(* After the bytes of the first frames come, whole, those of the next.     *)
(***************************************************************************)

\* If the bytes of the frames gs are a proper part of those of fs, which they begin,
\* what is left starts with the bytes of the frame that follows gs in fs.
LEMMA NextFrame ==
    ASSUME link \in Links, NEW fs \in Seq(Frames), NEW gs \in Seq(Frames),
           Len(gs) <= Len(fs), \A i \in 1 .. Len(gs) : gs[i] = fs[i],
           NEW t \in Seq(Byte), t # <<>>, Cat(BytesOf(gs), t) = BytesOf(fs)
    PROVE  /\ Len(gs) < Len(fs) /\ Len(gs) + 1 \in 1 .. Len(fs)
           /\ fs[Len(gs) + 1] \in Frames
           /\ \E v \in Seq(Byte) : t = Cat(FrameBytes(fs[Len(gs) + 1]), v)
<1> DEFINE m == Len(gs)
           f == fs[m + 1]
           hs == Append(gs, f)
<1>1. Len(gs) \in Nat /\ Len(fs) \in Nat
  BY LenProperties
<1>2. BytesOf(gs) \in Seq(Byte)
  BY BytesOfIsSeq
<1>3. Len(gs) # Len(fs)
  <2> SUFFICES ASSUME Len(gs) = Len(fs) PROVE FALSE
    OBVIOUS
  <2>1. gs = fs
    BY SeqEqual
  <2> QED BY <1>2, <2>1, ConcatEqualIffEmpty DEF Cat
<1>4. Len(gs) < Len(fs) /\ Len(gs) + 1 \in 1 .. Len(fs)
  BY <1>1, <1>3
<1>5. f \in Frames
  BY <1>4, ElementOfSeq
<1>6. SubSeq(fs, 1, m + 1) = hs
  <2>1. /\ SubSeq(fs, 1, m + 1) \in Seq(Frames) /\ Len(SubSeq(fs, 1, m + 1)) = m + 1
    <3>1. m + 1 \in 0 .. Len(fs)
      BY <1>1, <1>4
    <3> QED BY <3>1, Cut
  <2>2. \A i \in 1 .. m + 1 : SubSeq(fs, 1, m + 1)[i] = fs[i]
    <3>1. \A i \in 1 .. m + 1 : fs[i] \in Frames
      BY <1>1, <1>4, ElementOfSeq
    <3>2. \A i \in 1 .. (m + 1) - 1 + 1 : SubSeq(fs, 1, m + 1)[i] = fs[1 + i - 1]
      BY <1>1, <3>1, SubSeqProperties
    <3> QED BY <3>2, <1>1
  <2>3. /\ hs \in Seq(Frames) /\ Len(hs) = m + 1
        /\ \A i \in 1 .. m : hs[i] = gs[i] 
        /\ hs[m + 1] = f
    BY <1>5, AppendProperties
  <2> HIDE DEF hs, f, m
  <2>4. ASSUME NEW i \in 1 .. m + 1 PROVE SubSeq(fs, 1, m + 1)[i] = hs[i]
    <3>1. CASE i = m + 1
      BY <2>2, <2>3, <3>1 DEF f
    <3>2. CASE i # m + 1
      <4>1. i \in 1 .. m
        BY <3>2, <1>1 DEF m
      <4> QED BY <2>2, <2>3, <4>1 DEF m
    <3> QED BY <3>1, <3>2
  <2> QED BY <2>1, <2>3, <2>4, SeqEqual
<1>7. PICK v \in Seq(Byte) : BytesOf(fs) = Cat(BytesOf(hs), v)
  <2>1. m + 1 \in 0 .. Len(fs)
    BY <1>1, <1>4
  <2>2. \E v \in Seq(Byte) : BytesOf(fs) = Cat(BytesOf(Take(fs, m + 1)), v)
    BY <2>1, BytesOfSplit
  <2> QED BY <1>6, <2>2 DEF Take
<1>8. BytesOf(hs) = Cat(BytesOf(gs), FrameBytes(f)) /\ FrameBytes(f) \in Seq(Byte)
  BY <1>5, BytesOfLonger, FrameIsBytes
<1> HIDE DEF hs, f, m
<1>9. Cat(FrameBytes(f), v) \in Seq(Byte)
  BY <1>7, <1>8, CatSeq
<1>10. Cat(BytesOf(gs), t) = Cat(BytesOf(gs), Cat(FrameBytes(f), v))
  BY <1>2, <1>7, <1>8, CatAssoc
<1>11. t = Cat(FrameBytes(f), v)
  BY <1>2, <1>9, <1>10, CancelLeft
<1> QED BY <1>4, <1>5, <1>7, <1>11 DEF f, m

-----------------------------------------------------------------------------
(* The inductive invariant.                                                *)

\* The one uv_write in flight: what the socket has yet to take, and its size.
Left == IF writes = <<>> THEN <<>> ELSE writes[1].left
Size == IF writes = <<>> THEN 0 ELSE writes[1].size
Write == [size : 1 .. SCap - 1, left : Seq(Byte)]

\* There is one while the channel is open and the ring is not empty, and what it
\* sends is still in the ring.
OneWrite ==
    /\ writes \in Seq(Write) /\ Len(writes) <= 1 /\ Size <= Len(sbuf)
    /\ send = "open" => Len(writes) = IF sbuf = <<>> THEN 0 ELSE 1

\* What the receiver has, what is on its way, and what comes after it, are the
\* bytes accepted.
Carried(u) ==
    Cat(Cat(Cat(Cat(BytesOf(delivered), rbuf), wire), Left), u) = BytesOf(accepted)

\* While the receiver is open something completes what it has to the bytes accepted:
\* the rest of the ring while the sender is open, and what the close lost after.
Conserved ==
    recv = "open" =>
        \E u \in Seq(Byte) : Carried(u) /\ (send = "open" => u = Drop(sbuf, Size))

\* The frames delivered are the first frames accepted.
Ordered ==
    /\ delivered \in Seq(Frames) /\ Len(delivered) <= Len(accepted)
    /\ \A i \in 1 .. Len(delivered) : delivered[i] = accepted[i]

\* No frame longer than MAX_PACKET_SIZE is accepted.
Sized == \A i \in 1 .. Len(accepted) : FrameLen(accepted[i]) <= MaxPacket

\* Between two reads there is no complete frame in the ring, and no illegal header.
Parsed == recv = "open" /\ ~parsing => ~HeaderHere \/ (Legal /\ PackLen = 0)

\* The invariant.  The properties alone are not inductive: that a frame parsed is the
\* next one needs the bytes, what the bytes are needs Ordered, and that a full ring is
\* right needs that parsing went on until nothing complete was left.
StreamInv ==
    /\ TypeOK /\ OneWrite /\ Ordered /\ Sized /\ Conserved /\ Parsed /\ RefusesRightly

\* The lesser of two numbers.
LEMMA MinOfTwo == ASSUME NEW a \in Int, NEW b \in Int PROVE Min({a, b}) = IF a <= b THEN a ELSE b
<1> DEFINE m == IF a <= b THEN a ELSE b
<1>1. m \in {a, b} /\ \A y \in {a, b} : m <= y
  OBVIOUS
<1>2. \A x \in {a, b} : (\A y \in {a, b} : x <= y) => x = m
  OBVIOUS
<1> HIDE DEF m
<1>3. m = CHOOSE x \in {a, b} : \A y \in {a, b} : x <= y
  BY <1>1, <1>2
<1> QED BY <1>3 DEF Min, m

\* A sequence of one element.
LEMMA OneElement ==
    ASSUME NEW S, NEW w \in S
    PROVE  /\ <<w>> \in Seq(S) /\ Len(<<w>>) = 1 /\ <<w>>[1] = w /\ <<w>> # <<>>
           /\ Head(<<w>>) = w /\ Tail(<<w>>) = <<>> /\ Append(<<>>, w) = <<w>>
OBVIOUS

\* When a uv_write is in flight it is the only one.
LEMMA TheWrite ==
    ASSUME OneWrite, writes # <<>>
    PROVE  \E w \in Write : /\ writes = <<w>> /\ Head(writes) = w /\ Tail(writes) = <<>>
                            /\ Left = w.left /\ Size = w.size
<1>1. writes \in Seq(Write) /\ Len(writes) = 1
  <2>1. Len(writes) \in Nat \ {0}
    BY EmptySeq DEF OneWrite
  <2> QED BY <2>1 DEF OneWrite
<1> DEFINE w == writes[1]
<1>2. w \in Write
  BY <1>1, ElementOfSeq
<1>3. writes = <<w>>
  <2>1. <<w>> \in Seq(Write) /\ Len(<<w>>) = 1 /\ <<w>>[1] = w
    BY <1>2
  <2> HIDE DEF w
  <2>2. \A i \in 1 .. Len(writes) : writes[i] = <<w>>[i]
    BY <1>1, <2>1 DEF w
  <2> QED BY <1>1, <2>1, <2>2, SeqEqual
<1> HIDE DEF w
<1>4. Head(writes) = w /\ Tail(writes) = <<>>
  BY <1>2, <1>3, OneElement
<1>5. Left = w.left /\ Size = w.size
  BY DEF Left, Size, w
<1> QED BY <1>2, <1>3, <1>4, <1>5

\* What doUvSend leaves when no write is in flight.
LEMMA DoUvSendStarts ==
    ASSUME NEW b \in Seq(Byte), Len(b) < SCap, NEW h \in 0 .. SCap - 1, DoUvSend(b, h, <<>>)
    PROVE  \/ writes' = <<>> /\ send' = send /\ (send # "open" \/ b = <<>>)
           \/ writes' = <<>> /\ send' = "marked" /\ send = "open"
           \/ /\ send' = "open" /\ send = "open" /\ b # <<>>
              /\ \E n \in 1 .. SCap - 1 :
                     n <= Len(b) /\ writes' = <<[size |-> n, left |-> Take(b, n)]>>
<1> DEFINE n == Min({Len(b), SCap - h})
<1>1. Len(b) \in Nat /\ SCap \in Nat /\ SCap - h \in Nat \ {0}
  BY LenProperties, StreamAssumption
<1>2. n = IF Len(b) <= SCap - h THEN Len(b) ELSE SCap - h
  BY <1>1, MinOfTwo
<1>3. n \in Nat /\ n <= Len(b) /\ n <= SCap - 1 /\ (n = 0 <=> Len(b) = 0)
  BY <1>1, <1>2
<1>4. b = <<>> <=> Len(b) = 0
  BY EmptySeq
<1>5. IF send # "open" \/ n = 0
      THEN writes' = <<>> /\ UNCHANGED send
      ELSE \/ /\ writes' = Append(<<>>, [size |-> n, left |-> Take(b, n)])
              /\ UNCHANGED send
           \/ writes' = <<>> /\ send' = "marked"
  BY DEF DoUvSend, Take
<1>6. Append(<<>>, [size |-> n, left |-> Take(b, n)]) = <<[size |-> n, left |-> Take(b, n)]>>
  BY OneElement
<1> HIDE DEF n
<1>7. CASE send # "open" \/ n = 0
  BY <1>3, <1>4, <1>5, <1>7
<1>8. CASE send = "open" /\ n # 0
  <2>1. n \in 1 .. SCap - 1 /\ b # <<>>
    BY <1>1, <1>3, <1>4, <1>8
  <2> QED BY <1>3, <1>5, <1>6, <1>8, <2>1
<1> QED BY <1>7, <1>8

\* The link is fixed, and what depends on it.
LEMMA SameLink ==
    ASSUME link' = link
    PROVE  /\ SHdr' = SHdr /\ RHdr' = RHdr /\ RCap' = RCap
           /\ Byte' = Byte /\ Write' = Write
           /\ \A f : FrameLen(f)' = FrameLen(f)
           /\ BytesOf(accepted)' = BytesOf(accepted')
           /\ BytesOf(delivered)' = BytesOf(delivered')
<1>1. SHdr' = SHdr /\ RHdr' = RHdr /\ RCap' = RCap
  BY DEF SHdr, RHdr, RCap
<1>2. \A f : FrameLen(f)' = FrameLen(f)
  BY <1>1 DEF FrameLen
<1>3. Byte' = Byte
  BY <1>1 DEF Byte, FrameLen
<1>4. Write' = Write
  BY <1>3 DEF Write
<1>5. BytesOf(accepted)' = BytesOf(accepted')
  BY <1>1 DEF BytesOf, FrameBytes, FrameLen
<1>6. BytesOf(delivered)' = BytesOf(delivered')
  BY <1>1 DEF BytesOf, FrameBytes, FrameLen
<1> QED BY <1>1, <1>2, <1>3, <1>4, <1>5, <1>6

-----------------------------------------------------------------------------
(* What the steps of the sending loop use.                                 *)

\* Conserved after a step, from the bytes after it.
LEMMA ConservedNext ==
    ASSUME link' = link,
           recv' = "open" =>
               \E u \in Seq(Byte) :
                   /\ Cat(Cat(Cat(Cat(BytesOf(delivered'), rbuf'), wire'), Left'), u) = BytesOf(accepted')
                   /\ send' = "open" => u = Drop(sbuf', Size')
    PROVE  Conserved'
BY SameLink DEF Conserved, Carried, Drop, Cat

\* The writes as TypeOK has them.
LEMMA WritesTyped ==
    ASSUME NEW ws \in Seq(Write)
    PROVE  \A i \in DOMAIN ws : ws[i].size \in 1 .. SCap - 1 /\ ws[i].left \in Seq(Byte)
<1>1. \A i \in DOMAIN ws : ws[i] \in Write
  BY LenProperties, ElementOfSeq
<1> QED BY <1>1 DEF Write

\* What is carried, as sequences of bytes.
LEMMA CarriedTypes ==
    ASSUME StreamInv
    PROVE  /\ link \in Links /\ accepted \in Seq(Frames) /\ delivered \in Seq(Frames)
           /\ BytesOf(accepted) \in Seq(Byte) /\ BytesOf(delivered) \in Seq(Byte)
           /\ Cat(BytesOf(delivered), rbuf) \in Seq(Byte)
           /\ Cat(Cat(BytesOf(delivered), rbuf), wire) \in Seq(Byte)
           /\ rbuf \in Seq(Byte) /\ wire \in Seq(Byte) /\ sbuf \in Seq(Byte)
           /\ Left \in Seq(Byte) /\ Size \in 0 .. Len(sbuf)
           /\ Cat(Cat(Cat(BytesOf(delivered), rbuf), wire), Left) \in Seq(Byte)
<1>1. /\ link \in Links /\ accepted \in Seq(Frames) /\ delivered \in Seq(Frames)
      /\ rbuf \in Seq(Byte) /\ wire \in Seq(Byte) /\ sbuf \in Seq(Byte) /\ OneWrite
  BY DEF StreamInv, TypeOK, Ordered
<1>2. BytesOf(accepted) \in Seq(Byte) /\ BytesOf(delivered) \in Seq(Byte)
  BY <1>1, BytesOfIsSeq
<1>3. Left \in Seq(Byte) /\ Size \in 0 .. Len(sbuf)
  <2>1. CASE writes = <<>>
    BY <2>1, <1>1, EmptySeq, LenProperties DEF Left, Size
  <2>2. CASE writes # <<>>
    <3>1. PICK w \in Write : Left = w.left /\ Size = w.size
      BY <1>1, <2>2, TheWrite
    <3>2. Size <= Len(sbuf) /\ Len(sbuf) \in Nat
      BY <1>1, LenProperties DEF OneWrite
    <3>3. w.left \in Seq(Byte) /\ w.size \in 1 .. SCap - 1
      BY DEF Write
    <3> QED BY <3>1, <3>2, <3>3
  <2> QED BY <2>1, <2>2
<1> QED BY <1>1, <1>2, <1>3, CatSeq

\* Nothing dropped.
LEMMA DropNone == ASSUME NEW S, NEW s \in Seq(S) PROVE Drop(s, 0) = s
BY SubSeqFull DEF Drop

\* What the receive path has shown is not touched by a step of the sending loop.
LEMMA SenderKeeps ==
    ASSUME StreamInv, UNCHANGED recvVars,
           \/ accepted' = accepted
           \/ \E f \in Frames : accepted' = Append(accepted, f)
    PROVE  Ordered' /\ Parsed' /\ RefusesRightly'
<1>1. /\ link' = link /\ rbuf' = rbuf /\ parsing' = parsing /\ recv' = recv
      /\ why' = why /\ delivered' = delivered
  BY DEF recvVars
<1>2. PICK a : /\ accepted' = a
               /\ Len(a) \in Nat /\ Len(accepted) \in Nat /\ Len(accepted) <= Len(a)
               /\ \A i \in 1 .. Len(accepted) : a[i] = accepted[i]
               /\ DOMAIN accepted = 1 .. Len(accepted) /\ DOMAIN a = 1 .. Len(a)
  <2>1. accepted \in Seq(Frames) /\ Len(accepted) \in Nat /\ DOMAIN accepted = 1 .. Len(accepted)
    BY LenProperties DEF StreamInv, TypeOK
  <2>2. CASE accepted' = accepted
    <3>1. Len(accepted) <= Len(accepted)
      BY <2>1
    <3> QED BY <2>1, <2>2, <3>1
  <2>3. ASSUME NEW f \in Frames, accepted' = Append(accepted, f)
        PROVE  \E a : /\ accepted' = a
                      /\ Len(a) \in Nat /\ Len(accepted) \in Nat /\ Len(accepted) <= Len(a)
                      /\ \A i \in 1 .. Len(accepted) : a[i] = accepted[i]
                      /\ DOMAIN accepted = 1 .. Len(accepted) /\ DOMAIN a = 1 .. Len(a)
    <3> DEFINE a == Append(accepted, f)
    <3>1. /\ a \in Seq(Frames) /\ Len(a) = Len(accepted) + 1
          /\ \A i \in 1 .. Len(accepted) : a[i] = accepted[i]
      BY <2>1, AppendProperties
    <3>4. accepted' = a
      BY <2>3
    <3> HIDE DEF a
    <3>3. DOMAIN a = 1 .. Len(a)
      BY <3>1, LenProperties
    <3>5. Len(a) \in Nat /\ Len(accepted) <= Len(a)
      BY <3>1, <2>1
    <3> QED BY <2>1, <3>1, <3>3, <3>4, <3>5
  <2> QED BY <2>2, <2>3
<1>a. /\ Len(a) \in Nat /\ Len(accepted) \in Nat /\ Len(accepted) <= Len(a)
      /\ \A i \in 1 .. Len(accepted) : a[i] = accepted[i]
      /\ DOMAIN accepted = 1 .. Len(accepted) /\ DOMAIN a = 1 .. Len(a)
  BY <1>2
<1>3. Ordered'
  <2>1. /\ delivered \in Seq(Frames) /\ Len(delivered) <= Len(accepted)
        /\ \A i \in 1 .. Len(delivered) : delivered[i] = accepted[i]
        /\ Len(delivered) \in Nat
    BY LenProperties DEF StreamInv, Ordered
  <2>2. Len(delivered) <= Len(a)
    BY <1>a, <2>1
  <2>3. \A i \in 1 .. Len(delivered) : delivered[i] = a[i]
    BY <1>a, <2>1
  <2> QED BY <1>1, <1>2, <2>1, <2>2, <2>3 DEF Ordered
<1>4. Parsed'
  BY <1>1 DEF StreamInv, Parsed, HeaderHere, Legal, PackLen, FrameLen, SHdr, RHdr
<1>5. RefusesRightly'
  <2>1. ASSUME why = "full"
        PROVE  \/ RCap - 1 < RHdr
               \/ \E i \in DOMAIN a : FrameLen(a[i]) > RCap - 1
    <3>1. CASE \E i \in DOMAIN accepted : FrameLen(accepted[i]) > RCap - 1
      <4>1. PICK i \in 1 .. Len(accepted) : FrameLen(accepted[i]) > RCap - 1
        BY <1>a, <3>1
      <4>2. i \in DOMAIN a /\ a[i] = accepted[i]
        BY <1>a
      <4> QED BY <4>1, <4>2
    <3>2. RCap - 1 < RHdr \/ \E i \in DOMAIN accepted : FrameLen(accepted[i]) > RCap - 1
      BY <2>1 DEF StreamInv, RefusesRightly
    <3> QED BY <3>1, <3>2
  <2>2. SHdr = RHdr => why # "illegal"
    BY DEF StreamInv, RefusesRightly
  <2>3. SHdr # RHdr => delivered = <<>>
    BY DEF StreamInv, RefusesRightly
  <2> QED BY <1>1, <1>2, <2>1, <2>2, <2>3 DEF RefusesRightly, FrameLen, SHdr, RHdr, RCap
<1> QED BY <1>3, <1>4, <1>5

\* doUvSend with no write in flight takes the next bytes of the ring.
LEMMA StartsConserved ==
    ASSUME NEW z \in Seq(Byte), NEW b \in Seq(Byte), Len(b) < SCap, NEW h \in 0 .. SCap - 1,
           DoUvSend(b, h, <<>>)
    PROVE  /\ \E u \in Seq(Byte) : /\ Cat(Cat(z, Left'), u) = Cat(z, b)
                                   /\ send' = "open" => u = Drop(b, Size')
           /\ writes' \in Seq(Write) /\ Len(writes') <= 1 /\ Size' <= Len(b)
           /\ send' = "open" => send = "open" /\ Len(writes') = IF b = <<>> THEN 0 ELSE 1
           /\ send' \in {send, "marked"}
           /\ send # "open" => writes' = <<>> /\ send' = send
<1>0. <<>> \in Seq(Byte) /\ <<>> \in Seq(Write) /\ Len(<<>>) = 0 /\ Len(b) \in Nat
  BY EmptySeq, LenProperties
<1>1. CASE writes' = <<>>
  <2>1. Left' = <<>> /\ Size' = 0
    BY <1>1 DEF Left, Size
  <2>2. Drop(b, 0) = b
    BY DropNone
  <2>3. Cat(Cat(z, Left'), b) = Cat(z, b) /\ (send' = "open" => b = Drop(b, Size'))
    BY <2>1, <2>2, CatEmpty
  <2>4. /\ send' = "open" => send = "open" /\ b = <<>>
        /\ send' \in {send, "marked"}
        /\ send # "open" => send' = send
    <3>1. \/ send' = send /\ (send # "open" \/ b = <<>>)
          \/ send' = "marked" /\ send = "open"
      BY <1>1, DoUvSendStarts, OneElement
    <3> QED BY <3>1
  <2> QED BY <1>0, <1>1, <2>1, <2>3, <2>4
<1>2. CASE writes' # <<>>
  <2>1. /\ send' = "open" /\ send = "open" /\ b # <<>>
        /\ \E n \in 1 .. SCap - 1 :
               n <= Len(b) /\ writes' = <<[size |-> n, left |-> Take(b, n)]>>
    BY <1>2, DoUvSendStarts
  <2>2. PICK n \in 1 .. SCap - 1 :
               n <= Len(b) /\ writes' = <<[size |-> n, left |-> Take(b, n)]>>
    BY <2>1
  <2> DEFINE a == Take(b, n)
             w == [size |-> n, left |-> a]
  <2>3. n \in 0 .. Len(b)
    BY <1>0, <2>2
  <2>4. a \in Seq(Byte) /\ Drop(b, n) \in Seq(Byte)
    BY <2>3, TakeDrop
  <2>5. w \in Write
    BY <2>4 DEF Write
  <2>6. /\ writes' \in Seq(Write) /\ Len(writes') = 1 /\ writes'[1] = w
    <3> HIDE DEF w
    <3> QED BY <2>2, <2>5, OneElement DEF w
  <2>7. Left' = a /\ Size' = n
    BY <1>2, <2>6 DEF Left, Size
  <2>8. b = Cat(a, Drop(b, n))
    BY <2>3, TakeDrop
  <2>9. Cat(Cat(z, a), Drop(b, n)) = Cat(z, b)
    <3> HIDE DEF a
    <3> QED BY <2>4, <2>8, CatAssoc
  <2>10. Cat(Cat(z, Left'), Drop(b, n)) = Cat(z, b)
    BY <2>7, <2>9
  <2> QED BY <2>1, <2>2, <2>4, <2>6, <2>7, <2>10
<1> QED BY <1>1, <1>2

-----------------------------------------------------------------------------
(* The steps of the sending loop.                                          *)

\* What a step of the sending loop has to show.
LEMMA SenderStep ==
    ASSUME StreamInv, UNCHANGED recvVars,
           unsent' \subseteq Frames,
           sbuf' \in Seq(Byte), Len(sbuf') < SCap, shead' \in 0 .. SCap - 1,
           wire' \in Seq(Byte), send' \in {"open", "marked", "gone"},
           writes' \in Seq(Write), Len(writes') <= 1, Size' <= Len(sbuf'),
           send' = "open" => Len(writes') = IF sbuf' = <<>> THEN 0 ELSE 1,
           \/ accepted' = accepted
           \/ \E f \in Frames : accepted' = Append(accepted, f) /\ FrameLen(f) <= MaxPacket,
           recv = "open" =>
               \E u \in Seq(Byte) :
                   /\ Cat(Cat(Cat(Cat(BytesOf(delivered), rbuf), wire'), Left'), u) = BytesOf(accepted')
                   /\ send' = "open" => u = Drop(sbuf', Size')
    PROVE  StreamInv'
<1>1. /\ link' = link /\ rbuf' = rbuf /\ parsing' = parsing /\ recv' = recv
      /\ why' = why /\ delivered' = delivered /\ rhead' = rhead
  BY DEF recvVars
<1>2. accepted \in Seq(Frames) /\ Sized /\ TypeOK
  BY DEF StreamInv, TypeOK
<1>3. accepted' \in Seq(Frames) /\ \A i \in 1 .. Len(accepted') : FrameLen(accepted'[i]) <= MaxPacket
  <2>1. CASE accepted' = accepted
    BY <1>2, <2>1 DEF Sized
  <2>2. ASSUME NEW f \in Frames, accepted' = Append(accepted, f), FrameLen(f) <= MaxPacket
        PROVE  <1>3!:
    <3> DEFINE a == Append(accepted, f)
    <3>1. /\ a \in Seq(Frames) /\ Len(a) = Len(accepted) + 1
          /\ \A i \in 1 .. Len(accepted) : a[i] = accepted[i]
          /\ a[Len(accepted) + 1] = f
          /\ Len(accepted) \in Nat
      BY <1>2, AppendProperties, LenProperties
    <3> HIDE DEF a
    <3>2. ASSUME NEW i \in 1 .. Len(a) PROVE FrameLen(a[i]) <= MaxPacket
      <4>1. CASE i = Len(accepted) + 1
        BY <2>2, <3>1, <4>1
      <4>2. CASE i # Len(accepted) + 1
        <5>1. i \in 1 .. Len(accepted)
          BY <3>1, <4>2
        <5> QED BY <1>2, <3>1, <5>1 DEF Sized
      <4> QED BY <4>1, <4>2
    <3> QED BY <2>2, <3>1, <3>2 DEF a
  <2> QED BY <2>1, <2>2
<1>4. Sized'
  BY <1>1, <1>3 DEF Sized, FrameLen, SHdr
<1>5. TypeOK'
  <2>1. \A i \in DOMAIN writes' : writes'[i].size \in 1 .. SCap - 1 /\ writes'[i].left \in Seq(Byte)
    BY WritesTyped
  <2>2. Byte' = Byte /\ RCap' = RCap
    BY <1>1, SameLink
  <2> QED BY <1>1, <1>2, <1>3, <2>1, <2>2 DEF TypeOK
<1>6. OneWrite'
  <2>1. Write' = Write
    BY <1>1, SameLink
  <2> QED BY <2>1 DEF OneWrite
<1>7. Ordered' /\ Parsed' /\ RefusesRightly'
  BY SenderKeeps
<1>8. Conserved'
  BY <1>1, ConservedNext
<1> QED BY <1>4, <1>5, <1>6, <1>7, <1>8 DEF StreamInv

\* eventLoopWrite that drops the frame keeps the invariant.
LEMMA WriteDropsStep == ASSUME StreamInv, NEW f \in Frames, WriteDrops(f) PROVE StreamInv'
<1>1. /\ unsent' = unsent \ {f}
      /\ UNCHANGED <<sbuf, shead, writes, send, accepted, wire>> /\ UNCHANGED recvVars
  BY DEF WriteDrops
<1>2. Left' = Left /\ Size' = Size
  BY <1>1 DEF Left, Size
<1> QED BY <1>1, <1>2, SenderStep DEF StreamInv, TypeOK, OneWrite, Conserved, Carried

\* So does Channel::close of the sending channel.
LEMMA SenderClosesStep == ASSUME StreamInv, SenderCloses PROVE StreamInv'
<1>1. /\ send' = "marked"
      /\ UNCHANGED <<unsent, sbuf, shead, writes, accepted, wire>> /\ UNCHANGED recvVars
  BY DEF SenderCloses
<1>2. Left' = Left /\ Size' = Size
  BY <1>1 DEF Left, Size
<1> QED BY <1>1, <1>2, SenderStep DEF StreamInv, TypeOK, OneWrite, Conserved, Carried

\* The writes are gone, and perhaps what the kernels held from some byte on.
LEMMA SenderLoses ==
    ASSUME StreamInv, UNCHANGED recvVars, UNCHANGED <<unsent, sbuf, shead, accepted>>,
           writes' = <<>>, send' \in {"marked", "gone"},
           NEW n \in 0 .. Len(wire), wire' = Take(wire, n)
    PROVE  StreamInv'
<1>t. TypeOK
  BY DEF StreamInv
<1>1. Left' = <<>> /\ Size' = 0
  BY DEF Left, Size
<1>2. Take(wire, n) \in Seq(Byte)
  BY <1>t, TakeDrop DEF TypeOK
<1>3. ASSUME recv = "open"
      PROVE  \E u \in Seq(Byte) :
                 Cat(Cat(Cat(Cat(BytesOf(delivered), rbuf), wire'), Left'), u) = BytesOf(accepted')
  <2>1. PICK u \in Seq(Byte) : Carried(u)
    BY <1>3 DEF StreamInv, Conserved
  <2> DEFINE y == Cat(BytesOf(delivered), rbuf)
             b == BytesOf(accepted)
  <2>2. y \in Seq(Byte) /\ wire \in Seq(Byte) /\ Left \in Seq(Byte)
    BY CarriedTypes
  <2>3. Cat(Cat(Cat(y, wire), Left), u) = b
    BY <2>1 DEF Carried
  <2> HIDE DEF y, b
  <2>4. PICK v \in Seq(Byte) : Cat(Cat(Cat(y, wire), Left), u) = Cat(Cat(Cat(y, Take(wire, n)), <<>>), v)
    BY <2>1, <2>2, Truncate
  <2> QED BY <1>1, <2>3, <2>4 DEF y, b
<1>4. writes' \in Seq(Write) /\ Len(writes') <= 1 /\ Size' <= Len(sbuf')
  BY <1>1, <1>t, EmptySeq, LenProperties DEF TypeOK
<1> QED BY <1>t, <1>2, <1>3, <1>4, SenderStep DEF TypeOK

\* The uv_write callback with an error: the bytes of the write are lost.
LEMMA WriteFailsStep == ASSUME StreamInv, WriteFails PROVE StreamInv'
<1>1. /\ writes # <<>> /\ writes' = Tail(writes) /\ send' = "marked"
      /\ UNCHANGED <<unsent, sbuf, shead, accepted, wire>> /\ UNCHANGED recvVars
  BY DEF WriteFails
<1>2. OneWrite /\ wire \in Seq(Byte)
  BY DEF StreamInv, TypeOK
<1>3. writes' = <<>>
  BY <1>1, <1>2, TheWrite
<1>4. Len(wire) \in 0 .. Len(wire) /\ wire' = Take(wire, Len(wire))
  BY <1>1, <1>2, LenProperties, SubSeqFull DEF Take
<1> QED BY <1>1, <1>3, <1>4, SenderLoses

\* closeInLoop: the write in flight and part of what the kernels held are lost.
LEMMA SenderCloseInLoopStep == ASSUME StreamInv, SenderCloseInLoop PROVE StreamInv'
<1>1. /\ writes' = <<>> /\ send' = "gone"
      /\ UNCHANGED <<unsent, sbuf, shead, accepted>> /\ UNCHANGED recvVars
  BY DEF SenderCloseInLoop
<1>2. PICK n \in 0 .. Len(wire) : wire' = Take(wire, n)
  BY DEF SenderCloseInLoop, Take
<1> QED BY <1>1, <1>2, SenderLoses

\* Bytes the socket takes go from the front of the write to the end of the wire.
LEMMA KernelTakesStep == ASSUME StreamInv, NEW n \in Nat, KernelTakes(n) PROVE StreamInv'
<1>1. /\ writes # <<>> /\ n \in 1 .. Len(Head(writes).left)
      /\ wire' = Cat(wire, Take(Head(writes).left, n))
      /\ writes' = [writes EXCEPT ![1].left = Drop(@, n)]
      /\ UNCHANGED <<unsent, sbuf, shead, send, accepted>> /\ UNCHANGED recvVars
  BY DEF KernelTakes, Cat, Take
<1>2. OneWrite /\ TypeOK
  BY DEF StreamInv
<1>3. PICK w \in Write : /\ writes = <<w>> /\ Head(writes) = w
                         /\ Left = w.left /\ Size = w.size
  BY <1>1, <1>2, TheWrite
<1> DEFINE v == [size |-> w.size, left |-> Drop(w.left, n)]
<1>4. w.left \in Seq(Byte) /\ w.size \in 1 .. SCap - 1 /\ w = [size |-> w.size, left |-> w.left]
  BY DEF Write
<1>5. n \in 0 .. Len(w.left)
  BY <1>1, <1>3, <1>4, LenProperties
<1>6. Drop(w.left, n) \in Seq(Byte)
  BY <1>4, <1>5, TakeDrop
<1>7. v \in Write
  BY <1>4, <1>6 DEF Write
<1>8. writes' = <<v>>
  <2>1. [w EXCEPT !.left = Drop(w.left, n)] = v
    BY <1>4
  <2>2. [writes EXCEPT ![1].left = Drop(@, n)] = <<[w EXCEPT !.left = Drop(w.left, n)]>>
    BY <1>3
  <2> QED BY <1>1, <2>1, <2>2
<1>9. writes' \in Seq(Write) /\ Len(writes') = 1 /\ Left' = Drop(Left, n) /\ Size' = Size
  <2>1. writes' # <<>> /\ writes'[1] = v /\ writes' \in Seq(Write) /\ Len(writes') = 1
    <3> HIDE DEF v
    <3> QED BY <1>7, <1>8, OneElement
  <2> QED BY <2>1, <1>3 DEF Left, Size
<1>10. /\ wire' \in Seq(Byte)
       /\ Cat(Cat(Cat(BytesOf(delivered), rbuf), wire'), Left') = Cat(Cat(Cat(BytesOf(delivered), rbuf), wire), Left)
  <2> DEFINE x == Cat(BytesOf(delivered), rbuf)
             l == w.left
  <2>1. x \in Seq(Byte) /\ wire \in Seq(Byte) /\ l \in Seq(Byte) /\ n \in 0 .. Len(l)
    BY <1>4, <1>5, CarriedTypes
  <2> HIDE DEF x, l
  <2>2. /\ Cat(wire, Take(l, n)) \in Seq(Byte)
        /\ Cat(Cat(x, wire), l) = Cat(Cat(x, Cat(wire, Take(l, n))), Drop(l, n))
    BY <2>1, CatSeq, TakeDrop, Slide
  <2> QED BY <1>1, <1>3, <1>9, <2>2 DEF x, l
<1>11. sbuf # <<>> /\ Len(writes) = 1
  <2>1. Len(sbuf) # 0 /\ Len(writes) = 1
    BY <1>2, <1>3, <1>4, OneElement, LenProperties DEF OneWrite, TypeOK
  <2> QED BY <2>1, EmptySeq
<1>12. recv = "open" =>
           \E u \in Seq(Byte) :
               /\ Cat(Cat(Cat(Cat(BytesOf(delivered), rbuf), wire'), Left'), u) = BytesOf(accepted')
               /\ send' = "open" => u = Drop(sbuf', Size')
  BY <1>1, <1>9, <1>10 DEF StreamInv, Conserved, Carried
<1>13. Size' <= Len(sbuf')
  BY <1>1, <1>2, <1>9 DEF OneWrite
<1>14. /\ Len(writes') <= 1
       /\ send' = "open" => Len(writes') = IF sbuf' = <<>> THEN 0 ELSE 1
  <2> HIDE DEF v
  <2>1. Len(<<v>>) <= 1 /\ Len(<<v>>) = IF sbuf = <<>> THEN 0 ELSE 1
    BY <1>11
  <2>2. sbuf' = sbuf
    BY <1>1
  <2> QED BY <1>8, <2>1, <2>2
<1>15. /\ unsent' \subseteq Frames /\ sbuf' \in Seq(Byte) /\ Len(sbuf') < SCap
       /\ shead' \in 0 .. SCap - 1 /\ send' \in {"open", "marked", "gone"}
  BY <1>1, <1>2 DEF TypeOK
<1> QED BY <1>1, <1>9, <1>10, <1>12, <1>13, <1>14, <1>15, SenderStep

\* The uv_write callback: the ring moves past the bytes written, the next go out.
LEMMA WriteDoneStep == ASSUME StreamInv, WriteDone PROVE StreamInv'
<1>1. OneWrite /\ TypeOK
  BY DEF StreamInv
<1>2. /\ writes # <<>> /\ Head(writes).left = <<>>
      /\ UNCHANGED <<unsent, accepted, wire>> /\ UNCHANGED recvVars
  BY DEF WriteDone
<1>3. PICK w \in Write : /\ writes = <<w>> /\ Head(writes) = w /\ Tail(writes) = <<>>
                         /\ Left = w.left /\ Size = w.size
  BY <1>1, <1>2, TheWrite
<1> DEFINE n == w.size
           h == (shead + n) % SCap
           b == Drop(sbuf, n)
           z == Cat(Cat(BytesOf(delivered), rbuf), wire)
<1>4. n \in 1 .. SCap - 1 /\ n \in 0 .. Len(sbuf) /\ sbuf \in Seq(Byte) /\ Len(sbuf) \in Nat
  BY <1>1, <1>3, LenProperties DEF OneWrite, Write, TypeOK
<1>5. sbuf' = b /\ shead' = h /\ DoUvSend(sbuf', h, <<>>)
  <2>1. ~ (Head(writes).size > Len(sbuf))
    BY <1>3, <1>4
  <2> QED BY <1>3, <2>1 DEF WriteDone
<1>6. b \in Seq(Byte) /\ Len(b) < SCap /\ h \in 0 .. SCap - 1
  <2>1. b \in Seq(Byte) /\ Len(b) = Len(sbuf) - n
    BY <1>4, Cut
  <2>2. Len(sbuf) < SCap /\ shead \in Nat /\ SCap \in Nat \ {0, 1}
    BY <1>1, StreamAssumption DEF TypeOK
  <2>3. Len(b) < SCap
    BY <1>4, <2>1, <2>2
  <2>4. h \in 0 .. SCap - 1
    BY <1>4, <2>2
  <2> QED BY <2>1, <2>3, <2>4
<1>7. z \in Seq(Byte)
  BY CarriedTypes
<1>8. DoUvSend(b, h, <<>>)
  BY <1>5
<1> HIDE DEF n, h, b, z
<1>9. /\ \E u \in Seq(Byte) : /\ Cat(Cat(z, Left'), u) = Cat(z, b)
                              /\ send' = "open" => u = Drop(b, Size')
      /\ writes' \in Seq(Write) /\ Len(writes') <= 1 /\ Size' <= Len(b)
      /\ send' = "open" => send = "open" /\ Len(writes') = IF b = <<>> THEN 0 ELSE 1
      /\ send' \in {send, "marked"}
      /\ send # "open" => writes' = <<>> /\ send' = send
  BY <1>6, <1>7, <1>8, StartsConserved
<1>10. ASSUME recv = "open"
       PROVE  \E u \in Seq(Byte) : /\ Cat(Cat(z, Left'), u) = BytesOf(accepted)
                                   /\ send' = "open" => u = Drop(b, Size')
  <2>1. PICK u \in Seq(Byte) : /\ Cat(Cat(z, Left), u) = BytesOf(accepted)
                               /\ send = "open" => u = Drop(sbuf, Size)
    BY <1>10 DEF StreamInv, Conserved, Carried, z
  <2>2. Cat(Cat(z, Left), u) = Cat(z, u)
    BY <1>2, <1>3, <1>7, CatEmpty
  <2>3. CASE send = "open"
    <3>1. u = b
      BY <1>3, <2>1, <2>3 DEF b, n
    <3> QED BY <1>9, <2>1, <2>2, <3>1
  <2>4. CASE send # "open"
    <3>1. Left' = <<>> /\ send' # "open"
      BY <1>9, <2>4 DEF Left
    <3>2. Cat(Cat(z, <<>>), u) = Cat(z, u)
      BY <1>7, CatEmpty
    <3> QED BY <2>1, <2>2, <3>1, <3>2
  <2> QED BY <2>3, <2>4
<1>11. /\ sbuf' \in Seq(Byte) /\ Len(sbuf') < SCap /\ shead' \in 0 .. SCap - 1
       /\ Size' <= Len(sbuf')
       /\ send' = "open" => Len(writes') = IF sbuf' = <<>> THEN 0 ELSE 1
  BY <1>5, <1>6, <1>9
<1>12. /\ unsent' \subseteq Frames /\ wire' \in Seq(Byte)
       /\ send' \in {"open", "marked", "gone"}
  BY <1>1, <1>2, <1>9 DEF TypeOK
<1>13. recv = "open" =>
           \E u \in Seq(Byte) :
               /\ Cat(Cat(Cat(Cat(BytesOf(delivered), rbuf), wire'), Left'), u) = BytesOf(accepted')
               /\ send' = "open" => u = Drop(sbuf', Size')
  BY <1>2, <1>5, <1>10 DEF z
<1> QED BY <1>2, <1>9, <1>11, <1>12, <1>13, SenderStep

\* eventLoopWrite: the bytes of the frame join the ring, and perhaps a write starts.
LEMMA EventLoopWriteStep ==
    ASSUME StreamInv, NEW f \in Frames, EventLoopWrite(f)
    PROVE  StreamInv'
<1>1. OneWrite /\ TypeOK /\ link \in Links
  BY DEF StreamInv, TypeOK
<1>2. /\ send = "open" /\ FrameLen(f) <= MaxPacket /\ FrameLen(f) <= (SCap - 1) - Len(sbuf)
      /\ unsent' = unsent \ {f}
      /\ accepted' = Append(accepted, f)
      /\ IF sbuf = <<>> THEN DoUvSend(sbuf', shead, writes) ELSE UNCHANGED <<writes, send>>
      /\ UNCHANGED <<shead, wire>> /\ UNCHANGED recvVars
  BY DEF EventLoopWrite
<1> DEFINE g == FrameBytes(f)
           b == Cat(sbuf, g)
           z == Cat(Cat(BytesOf(delivered), rbuf), wire)
           a == BytesOf(accepted)
<1>3. sbuf' = b
  BY DEF EventLoopWrite, Cat
<1>4. /\ g \in Seq(Byte) /\ Len(g) = FrameLen(f) /\ FrameLen(f) \in Nat /\ FrameLen(f) >= 3
      /\ sbuf \in Seq(Byte) /\ Len(sbuf) \in Nat /\ SCap \in Nat /\ shead \in 0 .. SCap - 1
  BY <1>1, FrameIsBytes, LenProperties, StreamAssumption DEF TypeOK
<1>5. z \in Seq(Byte) /\ a \in Seq(Byte) /\ Left \in Seq(Byte) /\ Cat(z, Left) \in Seq(Byte)
      /\ Size \in 0 .. Len(sbuf)
  BY CarriedTypes
<1>6. BytesOf(accepted') = Cat(a, g)
  <2>1. accepted \in Seq(Frames)
    BY <1>1 DEF TypeOK
  <2> QED BY <1>1, <1>2, <2>1, BytesOfLonger
<1> HIDE DEF g, b, z, a
<1>7. b \in Seq(Byte) /\ Len(b) = Len(sbuf) + Len(g)
  BY <1>4, ConcatProperties DEF b, Cat
<1>8. Len(b) < SCap /\ b # <<>> /\ Size <= Len(b)
  <2>1. Len(b) \in Nat /\ Len(b) < SCap /\ Len(b) # 0 /\ Size <= Len(b)
    BY <1>2, <1>4, <1>5, <1>7
  <2>2. Len(<<>>) = 0
    OBVIOUS
  <2> QED BY <2>1, <2>2
<1>9. recv = "open" =>
          \E u \in Seq(Byte) : Cat(Cat(z, Left), u) = a /\ u = Drop(sbuf, Size)
  BY <1>2 DEF StreamInv, Conserved, Carried, z, a
<1>10. CASE sbuf # <<>>
  <2>1. writes' = writes /\ send' = send /\ Left' = Left /\ Size' = Size
    BY <1>2, <1>10 DEF Left, Size
  <2>2. ASSUME recv = "open"
        PROVE  \E u \in Seq(Byte) : Cat(Cat(z, Left), u) = Cat(a, g) /\ u = Drop(b, Size)
    <3> DEFINE v == Drop(sbuf, Size)
    <3>1. v \in Seq(Byte) /\ Cat(Cat(z, Left), v) = a
      BY <1>9, <2>2
    <3>2. Drop(b, Size) = Cat(v, g)
      BY <1>4, <1>5, DropCat DEF b
    <3> HIDE DEF v
    <3>3. Cat(v, g) \in Seq(Byte) /\ Cat(Cat(z, Left), Cat(v, g)) = Cat(a, g)
      BY <1>4, <1>5, <3>1, CatSeq, CatAssoc
    <3> QED BY <3>2, <3>3
  <2>3. recv = "open" =>
            \E u \in Seq(Byte) :
                /\ Cat(Cat(Cat(Cat(BytesOf(delivered), rbuf), wire'), Left'), u) = BytesOf(accepted')
                /\ send' = "open" => u = Drop(sbuf', Size')
    BY <1>2, <1>3, <1>6, <2>1, <2>2 DEF z
  <2>4. /\ writes' \in Seq(Write) /\ Len(writes') <= 1 /\ Size' <= Len(sbuf')
        /\ send' = "open" => Len(writes') = IF sbuf' = <<>> THEN 0 ELSE 1
    BY <1>1, <1>2, <1>3, <1>8, <1>10, <2>1 DEF OneWrite
  <2>5. /\ unsent' \subseteq Frames /\ sbuf' \in Seq(Byte) /\ Len(sbuf') < SCap
        /\ shead' \in 0 .. SCap - 1 /\ wire' \in Seq(Byte) /\ send' \in {"open", "marked", "gone"}
    BY <1>1, <1>2, <1>3, <1>7, <1>8, <2>1 DEF TypeOK
  <2> QED BY <1>2, <2>3, <2>4, <2>5, SenderStep
<1>11. CASE sbuf = <<>>
  <2>1. writes = <<>> /\ Left = <<>> /\ Size = 0 /\ b = g
    <3>1. Len(writes) = 0
      BY <1>1, <1>2, <1>11 DEF OneWrite
    <3>2. writes = <<>>
      BY <1>1, <3>1, EmptySeq DEF OneWrite
    <3>3. Cat(<<>>, g) = g
      BY <1>4, CatEmpty
    <3> QED BY <1>11, <3>2, <3>3 DEF Left, Size, b
  <2>2. DoUvSend(b, shead, <<>>)
    BY <1>2, <1>3, <1>11, <2>1
  <2>3. /\ \E u \in Seq(Byte) : /\ Cat(Cat(z, Left'), u) = Cat(z, b)
                                /\ send' = "open" => u = Drop(b, Size')
        /\ writes' \in Seq(Write) /\ Len(writes') <= 1 /\ Size' <= Len(b)
        /\ send' = "open" => send = "open" /\ Len(writes') = IF b = <<>> THEN 0 ELSE 1
        /\ send' \in {send, "marked"}
    <3>1. z \in Seq(Byte) /\ b \in Seq(Byte) /\ Len(b) < SCap /\ shead \in 0 .. SCap - 1
      BY <1>1, <1>5, <1>7, <1>8 DEF TypeOK
    <3> QED BY <2>2, <3>1, StartsConserved
  <2>4. ASSUME recv = "open" PROVE z = a
    <3>1. Drop(sbuf, Size) = <<>>
      BY <1>4, <1>11, <2>1, DropNone
    <3>2. Cat(Cat(z, <<>>), <<>>) = a
      BY <1>9, <2>1, <2>4, <3>1
    <3>3. Cat(z, <<>>) = z
      BY <1>5, CatEmpty
    <3> QED BY <3>2, <3>3
  <2>5. recv = "open" =>
            \E u \in Seq(Byte) :
                /\ Cat(Cat(Cat(Cat(BytesOf(delivered), rbuf), wire'), Left'), u) = BytesOf(accepted')
                /\ send' = "open" => u = Drop(sbuf', Size')
    <3>1. wire' = wire
      BY <1>2
    <3>2. recv = "open" => Cat(z, b) = BytesOf(accepted')
      BY <1>6, <2>1, <2>4
    <3> QED BY <1>3, <2>3, <3>1, <3>2 DEF z
  <2>6. /\ Size' <= Len(sbuf')
        /\ send' = "open" => Len(writes') = IF sbuf' = <<>> THEN 0 ELSE 1
    BY <1>3, <2>3
  <2>7. /\ unsent' \subseteq Frames /\ sbuf' \in Seq(Byte) /\ Len(sbuf') < SCap
        /\ shead' \in 0 .. SCap - 1 /\ wire' \in Seq(Byte) /\ send' \in {"open", "marked", "gone"}
    BY <1>1, <1>2, <1>3, <1>7, <1>8, <2>3 DEF TypeOK
  <2> QED BY <1>2, <2>3, <2>5, <2>6, <2>7, SenderStep
<1> QED BY <1>10, <1>11

-----------------------------------------------------------------------------
(* What the receiving loop finds in its ring.                              *)

\* What a step of the receiving loop has to show.
LEMMA ReceiverStep ==
    ASSUME StreamInv, UNCHANGED sendVars,
           rbuf' \in Seq(Byte), Len(rbuf') < RCap, rhead' \in 0 .. RCap - 1,
           wire' \in Seq(Byte), parsing' \in BOOLEAN,
           recv' \in {"open", "marked", "gone"}, why' \in {"none", "illegal", "full"},
           delivered' \in Seq(Frames), Len(delivered') <= Len(accepted),
           \A i \in 1 .. Len(delivered') : delivered'[i] = accepted[i],
           SHdr = RHdr => why' # "illegal",
           why' = "full" =>
               \/ RCap - 1 < RHdr
               \/ \E i \in DOMAIN accepted : FrameLen(accepted[i]) > RCap - 1,
           SHdr # RHdr => delivered' = <<>>,
           recv' = "open" =>
               /\ recv = "open"
               /\ Cat(Cat(BytesOf(delivered'), rbuf'), wire') = Cat(Cat(BytesOf(delivered), rbuf), wire),
           Parsed'
    PROVE  StreamInv'
<1>1. /\ link' = link /\ unsent' = unsent /\ sbuf' = sbuf /\ shead' = shead
      /\ writes' = writes /\ send' = send /\ accepted' = accepted
  BY DEF sendVars
<1>2. Left' = Left /\ Size' = Size
  BY <1>1 DEF Left, Size
<1>3. Byte' = Byte /\ RCap' = RCap /\ Write' = Write
  BY <1>1, SameLink
<1>4. TypeOK /\ OneWrite /\ Sized
  BY DEF StreamInv
<1>5. TypeOK'
  <2>1. delivered' \in Seq(Frames \cup {Torn})
    BY SeqMonotonic
  <2> QED BY <1>1, <1>3, <1>4, <2>1 DEF TypeOK
<1>6. OneWrite'
  BY <1>1, <1>2, <1>3, <1>4 DEF OneWrite
<1>7. Ordered'
  BY <1>1 DEF Ordered
<1>8. Sized'
  BY <1>1, <1>4 DEF Sized, FrameLen, SHdr
<1>9. RefusesRightly'
  BY <1>1 DEF RefusesRightly, FrameLen, SHdr, RHdr, RCap
<1>10. Conserved'
  <2> SUFFICES ASSUME recv' = "open"
               PROVE  \E u \in Seq(Byte) :
                   /\ Cat(Cat(Cat(Cat(BytesOf(delivered'), rbuf'), wire'), Left'), u) = BytesOf(accepted')
                   /\ send' = "open" => u = Drop(sbuf', Size')
    BY <1>1, ConservedNext
  <2>1. PICK u \in Seq(Byte) : Carried(u) /\ (send = "open" => u = Drop(sbuf, Size))
    BY DEF StreamInv, Conserved
  <2> QED BY <1>1, <1>2, <2>1 DEF Carried
<1> QED BY <1>5, <1>6, <1>7, <1>8, <1>9, <1>10 DEF StreamInv

\* A step after which the channel is not open.
LEMMA ReceiverStops ==
    ASSUME StreamInv, UNCHANGED sendVars, UNCHANGED <<rbuf, rhead, delivered>>,
           wire' \in Seq(Byte), recv' \in {"marked", "gone"}, parsing' \in BOOLEAN,
           why' \in {"none", "illegal", "full"},
           SHdr = RHdr => why' # "illegal",
           why' = "full" =>
               \/ RCap - 1 < RHdr
               \/ \E i \in DOMAIN accepted : FrameLen(accepted[i]) > RCap - 1
    PROVE  StreamInv'
<1>1. TypeOK /\ Ordered /\ RefusesRightly
  BY DEF StreamInv
<1>2. rbuf' = rbuf /\ rhead' = rhead /\ delivered' = delivered
  OBVIOUS
<1>3. recv' # "open"
  OBVIOUS
<1>4. Parsed'
  BY <1>3 DEF Parsed
<1>5. /\ rbuf' \in Seq(Byte) /\ Len(rbuf') < RCap /\ rhead' \in 0 .. RCap - 1
      /\ delivered' \in Seq(Frames) /\ Len(delivered') <= Len(accepted)
      /\ \A i \in 1 .. Len(delivered') : delivered'[i] = accepted[i]
      /\ SHdr # RHdr => delivered' = <<>>
  BY <1>1, <1>2 DEF TypeOK, Ordered, RefusesRightly
<1> QED BY <1>3, <1>4, <1>5, ReceiverStep

\* What the receiver has yet to parse, in the ring or on its way.
LEMMA Arrives ==
    ASSUME StreamInv, recv = "open", rbuf # <<>>
    PROVE  \E t \in Seq(Byte) :
               /\ Cat(BytesOf(delivered), t) = BytesOf(accepted)
               /\ t # <<>> /\ Len(rbuf) <= Len(t)
               /\ \A i \in 1 .. Len(rbuf) : t[i] = rbuf[i]
<1>1. PICK u \in Seq(Byte) : Carried(u)
  BY DEF StreamInv, Conserved
<1> DEFINE d == BytesOf(delivered)
           a == BytesOf(accepted)
           r == Cat(Cat(wire, Left), u)
           t == Cat(rbuf, r)
<1>2. /\ d \in Seq(Byte) /\ rbuf \in Seq(Byte) /\ wire \in Seq(Byte) /\ Left \in Seq(Byte)
      /\ Cat(Cat(Cat(Cat(d, rbuf), wire), Left), u) = a
  BY <1>1, CarriedTypes DEF Carried
<1>3. r \in Seq(Byte) /\ t \in Seq(Byte)
  BY <1>1, <1>2, CatSeq
<1> HIDE DEF d, a
<1>4. Cat(d, t) = a
  BY <1>1, <1>2, CatSeq, CatAssoc
<1> HIDE DEF r
<1>5. /\ Len(t) = Len(rbuf) + Len(r) /\ Len(rbuf) \in Nat /\ Len(r) \in Nat
      /\ \A i \in 1 .. Len(rbuf) + Len(r) : t[i] = IF i <= Len(rbuf) THEN rbuf[i] ELSE r[i - Len(rbuf)]
  BY <1>2, <1>3, ConcatProperties, LenProperties DEF Cat
<1> HIDE DEF t
<1>6. Len(rbuf) # 0
  BY <1>2, EmptySeq
<1>7. Len(rbuf) <= Len(t) /\ Len(t) # 0
  BY <1>5, <1>6
<1>8. t # <<>>
  BY <1>7
<1>9. ASSUME NEW i \in 1 .. Len(rbuf) PROVE t[i] = rbuf[i]
  BY <1>5
<1> QED BY <1>3, <1>4, <1>7, <1>8, <1>9 DEF d, a

\* The ring starts with the frame after the last one delivered.
LEMMA FirstFrame ==
    ASSUME StreamInv, recv = "open", rbuf # <<>>
    PROVE  \E f \in Frames :
               /\ Len(delivered) < Len(accepted) /\ Len(delivered) + 1 \in 1 .. Len(accepted)
               /\ f = accepted[Len(delivered) + 1]
               /\ \A i \in 1 .. Len(rbuf) : i <= FrameLen(f) => rbuf[i] = [frame |-> f, at |-> i - 1]
               /\ 1 \in 1 .. Len(rbuf) /\ rbuf[1] = [frame |-> f, at |-> 0]
               /\ FrameLen(f) <= MaxPacket
<1>1. PICK t \in Seq(Byte) :
          /\ Cat(BytesOf(delivered), t) = BytesOf(accepted)
          /\ t # <<>> /\ Len(rbuf) <= Len(t)
          /\ \A i \in 1 .. Len(rbuf) : t[i] = rbuf[i]
  BY Arrives
<1>2. link \in Links /\ accepted \in Seq(Frames) /\ delivered \in Seq(Frames) /\ rbuf \in Seq(Byte)
  BY CarriedTypes
<1> DEFINE m == Len(delivered) + 1
           f == accepted[m]
<1>3. /\ Len(delivered) < Len(accepted) /\ m \in 1 .. Len(accepted) /\ f \in Frames
      /\ \E v \in Seq(Byte) : t = Cat(FrameBytes(f), v)
  BY <1>1, <1>2, NextFrame DEF StreamInv, Ordered
<1> HIDE DEF f
<1>4. PICK v \in Seq(Byte) : t = Cat(FrameBytes(f), v)
  BY <1>3
<1>5. /\ FrameBytes(f) \in Seq(Byte) /\ Len(FrameBytes(f)) = FrameLen(f)
      /\ FrameLen(f) \in Nat /\ FrameLen(f) >= 3
      /\ \A i \in 1 .. FrameLen(f) : FrameBytes(f)[i] = [frame |-> f, at |-> i - 1]
  BY <1>2, <1>3, FrameIsBytes
<1> DEFINE b == FrameBytes(f)
<1> HIDE DEF b
<1>6. /\ Len(t) = Len(b) + Len(v) /\ Len(v) \in Nat
      /\ \A i \in 1 .. Len(b) + Len(v) : t[i] = IF i <= Len(b) THEN b[i] ELSE v[i - Len(b)]
  <2>1. b \in Seq(Byte) /\ t = b \o v
    BY <1>4, <1>5 DEF b, Cat
  <2> QED BY <2>1, ConcatProperties, LenProperties
<1>7. ASSUME NEW i \in 1 .. Len(rbuf), i <= FrameLen(f) PROVE rbuf[i] = [frame |-> f, at |-> i - 1]
  <2>1. i \in 1 .. FrameLen(f) /\ i \in 1 .. FrameLen(f) + Len(v)
    BY <1>5, <1>6, <1>7
  <2>2. t[i] = b[i]
    BY <1>5, <1>6, <1>7, <2>1 DEF b
  <2> QED BY <1>1, <1>5, <2>1, <2>2 DEF b
<1>8. 1 \in 1 .. Len(rbuf) /\ rbuf[1] = [frame |-> f, at |-> 0]
  <2>1. Len(rbuf) \in Nat /\ Len(rbuf) # 0
    BY <1>2, EmptySeq, LenProperties
  <2>2. 1 \in 1 .. Len(rbuf) /\ 1 <= FrameLen(f) /\ 1 - 1 = 0
    BY <1>5, <2>1
  <2> QED BY <1>7, <2>2
<1>9. FrameLen(f) <= MaxPacket
  BY <1>3 DEF StreamInv, Sized, f
<1> QED BY <1>3, <1>7, <1>8, <1>9 DEF f

\* As many bytes as a header, in the ring.
LEMMA HeaderIsThere ==
    ASSUME StreamInv, HeaderHere
    PROVE  /\ rbuf # <<>> /\ Len(rbuf) \in Nat /\ RHdr \in 1 .. Len(rbuf)
           /\ SHdr \in {3, 4} /\ RHdr \in {3, 4}
<1>1. rbuf \in Seq(Byte) /\ SHdr \in {3, 4} /\ RHdr \in {3, 4}
  BY CarriedTypes, LinkTypes
<1>2. Len(rbuf) \in Nat /\ Len(rbuf) >= RHdr
  BY <1>1, LenProperties DEF HeaderHere
<1>3. rbuf # <<>>
  BY <1>1, <1>2
<1> QED BY <1>1, <1>2, <1>3

\* Between ends of one protocol a header is legal.
LEMMA OneProtocol ==
    ASSUME StreamInv, recv = "open", HeaderHere, SHdr = RHdr
    PROVE  Legal
<1>1. /\ rbuf # <<>> /\ Len(rbuf) \in Nat /\ RHdr \in 1 .. Len(rbuf) /\ RHdr \in {3, 4}
  BY HeaderIsThere
<1>2. PICK f \in Frames :
          /\ \A i \in 1 .. Len(rbuf) : i <= FrameLen(f) => rbuf[i] = [frame |-> f, at |-> i - 1]
          /\ rbuf[1] = [frame |-> f, at |-> 0] /\ FrameLen(f) <= MaxPacket
  BY <1>1, FirstFrame
<1>3. FrameLen(f) >= SHdr /\ FrameLen(f) \in Nat
  BY CarriedTypes, FrameIsBytes
<1>4. rbuf[RHdr] = [frame |-> f, at |-> RHdr - 1]
  BY <1>1, <1>2, <1>3
<1> QED BY <1>2, <1>4 DEF Legal

\* Between ends of two protocols none is.
LEMMA TwoProtocols ==
    ASSUME StreamInv, recv = "open", HeaderHere, SHdr # RHdr
    PROVE  ~ Legal
<1>1. /\ rbuf # <<>> /\ Len(rbuf) \in Nat /\ RHdr \in 1 .. Len(rbuf)
      /\ SHdr \in {3, 4} /\ RHdr \in {3, 4}
  BY HeaderIsThere
<1>2. PICK f \in Frames :
          /\ Len(delivered) + 1 \in 1 .. Len(accepted) /\ f = accepted[Len(delivered) + 1]
          /\ \A i \in 1 .. Len(rbuf) : i <= FrameLen(f) => rbuf[i] = [frame |-> f, at |-> i - 1]
  BY <1>1, FirstFrame
<1>3. /\ FrameLen(f) >= SHdr /\ FrameLen(f) \in Nat
      /\ FrameBytes(f) \in Seq(Byte) /\ Len(FrameBytes(f)) = FrameLen(f)
  BY CarriedTypes, FrameIsBytes
<1>4. CASE RHdr <= FrameLen(f)
  <2>1. rbuf[RHdr] = [frame |-> f, at |-> RHdr - 1]
    BY <1>1, <1>2, <1>4
  <2>2. rbuf[RHdr].at = RHdr - 1 /\ RHdr - 1 # SHdr - 1
    BY <1>1, <2>1
  <2> QED BY <2>2 DEF Legal
<1>5. CASE ~ (RHdr <= FrameLen(f))
  <2>1. SHdr = 3 /\ RHdr = 4 /\ FrameLen(f) = 3 /\ 4 \in 1 .. Len(rbuf)
    BY <1>1, <1>3, <1>5
  <2>2. delivered = <<>> /\ Len(delivered) = 0
    BY DEF StreamInv, RefusesRightly
  <2>3. f = accepted[1] /\ 1 \in 1 .. Len(accepted)
    BY <1>2, <2>2
  <2>t. link \in Links /\ accepted \in Seq(Frames) /\ Len(accepted) \in Nat
    BY CarriedTypes, LenProperties
  <2>4. PICK t \in Seq(Byte) :
            /\ Cat(BytesOf(delivered), t) = BytesOf(accepted)
            /\ t # <<>> /\ Len(rbuf) <= Len(t)
            /\ \A i \in 1 .. Len(rbuf) : t[i] = rbuf[i]
    BY <1>1, Arrives
  <2>5. Len(t) \in Nat /\ 4 <= Len(t) /\ t[4] = rbuf[4]
    BY <1>1, <2>1, <2>4, LenProperties
  <2>6. PICK v \in Seq(Byte) : t = Cat(FrameBytes(f), v)
    <3>1. Len(delivered) <= Len(accepted) /\ \A i \in 1 .. Len(delivered) : delivered[i] = accepted[i]
      BY DEF StreamInv, Ordered
    <3>2. delivered \in Seq(Frames)
      BY CarriedTypes
    <3>3. \E v \in Seq(Byte) : t = Cat(FrameBytes(accepted[Len(delivered) + 1]), v)
      BY <2>t, <2>4, <3>1, <3>2, NextFrame
    <3> QED BY <1>2, <3>3
  <2> DEFINE b == FrameBytes(f)
             gs == <<f>>
  <2>7. b \in Seq(Byte) /\ Len(b) = 3
    BY <1>3, <2>1
  <2>8. BytesOf(gs) = b
    <3>1. <<>> \in Seq(Frames) /\ Append(<<>>, f) = <<f>>
      BY EmptySeq
    <3>2. BytesOf(<<f>>) = Cat(BytesOf(<<>>), FrameBytes(f))
      BY <2>t, <3>1, BytesOfLonger
    <3>3. Cat(<<>>, FrameBytes(f)) = FrameBytes(f)
      BY <1>3, CatEmpty
    <3> QED BY <3>2, <3>3, BytesOfNone
  <2>9. gs \in Seq(Frames) /\ Len(gs) = 1 /\ gs[1] = f
    BY OneElement
  <2>10. BytesOf(delivered) = <<>> /\ Cat(<<>>, t) = t
    BY <2>2, BytesOfNone, CatEmpty
  <2> HIDE DEF b, gs
  <2>11. /\ Len(t) = Len(b) + Len(v) /\ Len(v) \in Nat
         /\ \A i \in 1 .. Len(b) + Len(v) : t[i] = IF i <= Len(b) THEN b[i] ELSE v[i - Len(b)]
    <3>1. t = b \o v
      BY <2>6 DEF b, Cat
    <3> QED BY <2>7, <3>1, ConcatProperties, LenProperties
  <2>12. t[4] = v[1] /\ Len(v) # 0
    <3>1. 4 \in 1 .. Len(b) + Len(v) /\ ~ (4 <= Len(b)) /\ 4 - Len(b) = 1 /\ Len(v) # 0
      BY <2>5, <2>7, <2>11
    <3>2. t[4] = IF 4 <= Len(b) THEN b[4] ELSE v[4 - Len(b)]
      BY <2>11, <3>1
    <3> QED BY <3>1, <3>2
  <2>13. v # <<>>
    BY <2>12
  <2>14. Cat(BytesOf(gs), v) = BytesOf(accepted)
    BY <2>4, <2>6, <2>8, <2>10 DEF b
  <2>15. Len(gs) <= Len(accepted) /\ \A i \in 1 .. Len(gs) : gs[i] = accepted[i]
    <3>1. 1 <= Len(accepted)
      BY <2>3, <2>t
    <3> QED BY <2>3, <2>9, <3>1
  <2> DEFINE e == accepted[Len(gs) + 1]
  <2>16. e \in Frames /\ \E x \in Seq(Byte) : v = Cat(FrameBytes(e), x)
    BY <2>t, <2>9, <2>13, <2>14, <2>15, NextFrame
  <2> HIDE DEF e
  <2>17. PICK x \in Seq(Byte) : v = Cat(FrameBytes(e), x)
    BY <2>16
  <2>18. v[1] = [frame |-> e, at |-> 0]
    <3> DEFINE c == FrameBytes(e)
    <3>1. c \in Seq(Byte) /\ Len(c) \in Nat /\ Len(c) >= 3 /\ c[1] = [frame |-> e, at |-> 1 - 1]
      BY <2>t, <2>16, FrameIsBytes
    <3>2. v = c \o x
      BY <2>17 DEF Cat
    <3> HIDE DEF c
    <3>3. \A i \in 1 .. Len(c) + Len(x) : v[i] = IF i <= Len(c) THEN c[i] ELSE x[i - Len(c)]
      BY <3>1, <3>2, ConcatProperties
    <3>4. 1 \in 1 .. Len(c) + Len(x) /\ 1 <= Len(c)
      BY <3>1, LenProperties
    <3> QED BY <3>1, <3>3, <3>4
  <2>19. rbuf[RHdr].at = 0 /\ SHdr - 1 = 2
    BY <2>1, <2>5, <2>12, <2>18
  <2> QED BY <2>19 DEF Legal
<1> QED BY <1>4, <1>5

-----------------------------------------------------------------------------
(* The steps of the receiving loop.                                        *)

\* onRead: the bytes go from the front of the wire to the end of the ring.
LEMMA ReadStep == ASSUME StreamInv, NEW n \in Nat, Read(n) PROVE StreamInv'
<1>1. TypeOK /\ Ordered /\ RefusesRightly
  BY DEF StreamInv
<1>2. /\ recv = "open" /\ n \in 1 .. Min({Window, Len(wire)})
      /\ rbuf' = Cat(rbuf, Take(wire, n)) /\ wire' = Drop(wire, n) /\ parsing' = TRUE
      /\ UNCHANGED <<rhead, recv, why, delivered>> /\ UNCHANGED sendVars
  BY DEF Read, Cat, Take
<1>3. /\ rbuf \in Seq(Byte) /\ wire \in Seq(Byte) /\ Len(rbuf) \in Nat /\ Len(wire) \in Nat
      /\ BytesOf(delivered) \in Seq(Byte)
      /\ Len(rbuf) < RCap /\ rhead \in Nat /\ RCap \in Nat /\ RCap >= 2
  BY <1>1, CarriedTypes, LinkTypes, LenProperties DEF TypeOK
<1>4. n <= (RCap - 1) - Len(rbuf) /\ n \in 0 .. Len(wire)
  <2> DEFINE a == (RCap - 1) - Len(rbuf)
             b == RCap - ((rhead + Len(rbuf)) % RCap)
  <2>1. a \in Nat /\ b \in Nat
    BY <1>3
  <2>2. Window = IF a <= b THEN a ELSE b
    BY <2>1, MinOfTwo DEF Window
  <2> HIDE DEF a, b
  <2>3. Window \in Nat /\ Window <= a
    BY <2>1, <2>2
  <2>4. Min({Window, Len(wire)}) = IF Window <= Len(wire) THEN Window ELSE Len(wire)
    BY <1>3, <2>3, MinOfTwo
  <2>5. n <= a /\ n \in 0 .. Len(wire)
    BY <1>2, <1>3, <2>1, <2>3, <2>4
  <2> QED BY <2>5 DEF a
<1>5. Take(wire, n) \in Seq(Byte) /\ Len(Take(wire, n)) = n /\ Drop(wire, n) \in Seq(Byte)
  BY <1>3, <1>4, Cut DEF Take
<1> DEFINE r == Cat(rbuf, Take(wire, n))
<1>6. r \in Seq(Byte) /\ Len(r) < RCap
  <2>1. r \in Seq(Byte) /\ Len(r) = Len(rbuf) + n
    BY <1>3, <1>5, ConcatProperties DEF Cat
  <2> QED BY <1>3, <1>4, <2>1
<1>7. Cat(Cat(BytesOf(delivered), r), Drop(wire, n)) = Cat(Cat(BytesOf(delivered), rbuf), wire)
  BY <1>3, <1>4, Slide
<1> HIDE DEF r
<1>8. /\ rbuf' = r /\ wire' = Drop(wire, n) /\ rhead' = rhead /\ recv' = recv
      /\ why' = why /\ delivered' = delivered
  BY <1>2 DEF r
<1>9. Cat(Cat(BytesOf(delivered'), rbuf'), wire') = Cat(Cat(BytesOf(delivered), rbuf), wire)
  BY <1>7, <1>8
<1>10. Parsed'
  BY <1>2 DEF Parsed
<1>11. /\ rbuf' \in Seq(Byte) /\ Len(rbuf') < RCap /\ wire' \in Seq(Byte) /\ parsing' \in BOOLEAN
  BY <1>2, <1>5, <1>6, <1>8
<1>12. /\ rhead' \in 0 .. RCap - 1 /\ recv' \in {"open", "marked", "gone"}
       /\ why' \in {"none", "illegal", "full"}
       /\ delivered' \in Seq(Frames) /\ Len(delivered') <= Len(accepted)
       /\ \A i \in 1 .. Len(delivered') : delivered'[i] = accepted[i]
       /\ SHdr = RHdr => why' # "illegal"
       /\ why' = "full" =>
             \/ RCap - 1 < RHdr
             \/ \E i \in DOMAIN accepted : FrameLen(accepted[i]) > RCap - 1
       /\ SHdr # RHdr => delivered' = <<>>
  BY <1>1, <1>8 DEF TypeOK, Ordered, RefusesRightly
<1> QED BY <1>2, <1>9, <1>10, <1>11, <1>12, ReceiverStep

\* uv_alloc_cb finds no room only for a frame, or a header, that the ring cannot hold.
LEMMA FullRing ==
    ASSUME StreamInv, recv = "open", ~ parsing, Window = 0
    PROVE  \/ RCap - 1 < RHdr
           \/ \E i \in DOMAIN accepted : FrameLen(accepted[i]) > RCap - 1
<1>1. /\ rbuf \in Seq(Byte) /\ Len(rbuf) \in Nat /\ accepted \in Seq(Frames)
      /\ Len(rbuf) < RCap /\ rhead \in Nat /\ RCap \in Nat /\ RCap >= 2 /\ RHdr \in {3, 4}
      /\ link \in Links
  BY CarriedTypes, LinkTypes, LenProperties DEF StreamInv, TypeOK
<1>2. Len(rbuf) = RCap - 1
  <2> DEFINE a == (RCap - 1) - Len(rbuf)
             b == RCap - ((rhead + Len(rbuf)) % RCap)
  <2>1. a \in Nat /\ b \in Nat \ {0}
    BY <1>1
  <2>2. Window = IF a <= b THEN a ELSE b
    BY <2>1, MinOfTwo DEF Window
  <2>3. a = 0
    <3> HIDE DEF a, b
    <3> QED BY <2>1, <2>2
  <2> QED BY <1>1, <2>3
<1>3. ~ HeaderHere \/ (Legal /\ PackLen = 0)
  BY DEF StreamInv, Parsed
<1>4. CASE ~ HeaderHere
  BY <1>1, <1>2, <1>4 DEF HeaderHere
<1>5. CASE HeaderHere
  <2>1. PICK f \in Frames :
            /\ Len(delivered) + 1 \in 1 .. Len(accepted) /\ f = accepted[Len(delivered) + 1]
            /\ rbuf[1] = [frame |-> f, at |-> 0]
    BY <1>5, HeaderIsThere, FirstFrame
  <2>2. rbuf[1].frame = f /\ FrameLen(f) \in Nat /\ FrameLen(f) >= 3
    BY <1>1, <2>1, FrameIsBytes
  <2>3. FrameLen(f) > Len(rbuf)
    BY <1>1, <1>3, <1>5, <2>2 DEF PackLen
  <2>4. Len(delivered) + 1 \in DOMAIN accepted
    BY <1>1, <2>1, LenProperties
  <2> QED BY <1>2, <2>1, <2>3, <2>4
<1> QED BY <1>4, <1>5

\* uv_alloc_cb that finds no room closes the channel with reason.
LEMMA ReadFullStep == ASSUME StreamInv, ReadFull PROVE StreamInv'
<1>1. /\ recv = "open" /\ ~ parsing /\ wire # <<>> /\ Window = 0
      /\ wire' = Tail(wire) /\ recv' = "marked" /\ why' = "full" /\ parsing' = parsing
      /\ UNCHANGED <<rbuf, rhead, delivered>> /\ UNCHANGED sendVars
  BY DEF ReadFull
<1>2. wire' \in Seq(Byte)
  BY <1>1, CarriedTypes, HeadTailProperties
<1>3. parsing' \in BOOLEAN
  BY <1>1 DEF StreamInv, TypeOK
<1> QED BY <1>1, <1>2, <1>3, FullRing, ReceiverStops

\* What the receive path has shown so far, for the steps that stop it.
LEMMA ShownSoFar ==
    ASSUME StreamInv
    PROVE  /\ wire \in Seq(Byte) /\ parsing \in BOOLEAN /\ why \in {"none", "illegal", "full"}
           /\ SHdr = RHdr => why # "illegal"
           /\ why = "full" =>
                 \/ RCap - 1 < RHdr
                 \/ \E i \in DOMAIN accepted : FrameLen(accepted[i]) > RCap - 1
BY DEF StreamInv, TypeOK, RefusesRightly

\* onRead of a channel marked closed drops what was read.
LEMMA ReadDroppedStep == ASSUME StreamInv, NEW n \in Nat, ReadDropped(n) PROVE StreamInv'
<1>1. /\ recv = "marked" /\ n \in 1 .. Len(wire) /\ wire' = Drop(wire, n)
      /\ rbuf' = rbuf /\ rhead' = rhead /\ delivered' = delivered /\ recv' = recv
      /\ parsing' = parsing /\ why' = why /\ UNCHANGED sendVars
  BY DEF ReadDropped, recvVars
<1>2. wire' \in Seq(Byte)
  <2>1. wire \in Seq(Byte) /\ Len(wire) \in Nat
    BY ShownSoFar, LenProperties
  <2>2. n \in 0 .. Len(wire)
    BY <1>1, <2>1
  <2> QED BY <1>1, <2>1, <2>2, TakeDrop
<1> QED BY <1>1, <1>2, ShownSoFar, ReceiverStops

\* onRead at the end of the stream closes the channel.
LEMMA ReadEndsStep == ASSUME StreamInv, ReadEnds PROVE StreamInv'
<1>1. /\ recv' = "marked" /\ wire' = wire /\ parsing' = parsing /\ why' = why
      /\ UNCHANGED <<rbuf, rhead, delivered>> /\ UNCHANGED sendVars
  BY DEF ReadEnds
<1> QED BY <1>1, ShownSoFar, ReceiverStops

\* Channel::close of the receiving channel.
LEMMA ReceiverClosesStep == ASSUME StreamInv, ReceiverCloses PROVE StreamInv'
<1>1. /\ recv' = "marked" /\ wire' = wire /\ parsing' = parsing /\ why' = why
      /\ UNCHANGED <<rbuf, rhead, delivered>> /\ UNCHANGED sendVars
  BY DEF ReceiverCloses
<1> QED BY <1>1, ShownSoFar, ReceiverStops

\* And its closeInLoop.
LEMMA ReceiverCloseInLoopStep == ASSUME StreamInv, ReceiverCloseInLoop PROVE StreamInv'
<1>1. /\ recv' = "gone" /\ wire' = wire /\ parsing' = parsing /\ why' = why
      /\ UNCHANGED <<rbuf, rhead, delivered>> /\ UNCHANGED sendVars
  BY DEF ReceiverCloseInLoop
<1> QED BY <1>1, ShownSoFar, ReceiverStops

\* uv_read_cb finds an illegal header only between ends of two protocols.
LEMMA ParseIllegalStep == ASSUME StreamInv, ParseIllegal PROVE StreamInv'
<1>1. /\ recv = "open" /\ HeaderHere /\ ~ Legal
      /\ recv' = "marked" /\ why' = "illegal" /\ parsing' = FALSE /\ wire' = wire
      /\ UNCHANGED <<rbuf, rhead, delivered>> /\ UNCHANGED sendVars
  BY DEF ParseIllegal
<1>2. SHdr # RHdr
  BY <1>1, OneProtocol
<1> QED BY <1>1, <1>2, ShownSoFar, ReceiverStops

\* uv_read_cb returns only with no complete frame in the ring.
LEMMA ParseEndsStep == ASSUME StreamInv, ParseEnds PROVE StreamInv'
<1>1. /\ recv # "open" \/ ~ HeaderHere \/ (HeaderHere /\ Legal /\ PackLen = 0)
      /\ parsing' = FALSE /\ recv' = recv /\ why' = why /\ wire' = wire
      /\ rbuf' = rbuf /\ rhead' = rhead /\ delivered' = delivered /\ UNCHANGED sendVars
  BY DEF ParseEnds
<1>2. Parsed'
  <2>1. link' = link
    BY <1>1 DEF sendVars
  <2> QED BY <1>1, <2>1 DEF Parsed, HeaderHere, Legal, PackLen, FrameLen, SHdr, RHdr
<1>3. /\ rbuf' \in Seq(Byte) /\ Len(rbuf') < RCap /\ wire' \in Seq(Byte) /\ parsing' \in BOOLEAN
      /\ rhead' \in 0 .. RCap - 1 /\ recv' \in {"open", "marked", "gone"}
      /\ why' \in {"none", "illegal", "full"}
      /\ delivered' \in Seq(Frames) /\ Len(delivered') <= Len(accepted)
      /\ \A i \in 1 .. Len(delivered') : delivered'[i] = accepted[i]
      /\ SHdr = RHdr => why' # "illegal"
      /\ why' = "full" =>
            \/ RCap - 1 < RHdr
            \/ \E i \in DOMAIN accepted : FrameLen(accepted[i]) > RCap - 1
      /\ SHdr # RHdr => delivered' = <<>>
  BY <1>1 DEF StreamInv, TypeOK, Ordered, RefusesRightly
<1>4. Cat(Cat(BytesOf(delivered'), rbuf'), wire') = Cat(Cat(BytesOf(delivered), rbuf), wire)
  BY <1>1
<1> QED BY <1>1, <1>2, <1>3, <1>4, ReceiverStep

-----------------------------------------------------------------------------
(* The step that hands a frame over.                                       *)

\* The frame at the front of the ring, cut off.
LEMMA FrontFrame ==
    ASSUME NEW b \in Seq(Byte), NEW f \in Frames, link \in Links,
           FrameLen(f) <= Len(b),
           \A i \in 1 .. FrameLen(f) : b[i] = [frame |-> f, at |-> i - 1]
    PROVE  /\ FrameLen(f) \in 0 .. Len(b)
           /\ Take(b, FrameLen(f)) = FrameBytes(f)
           /\ b = Cat(FrameBytes(f), Drop(b, FrameLen(f)))
           /\ Drop(b, FrameLen(f)) \in Seq(Byte) /\ Len(Drop(b, FrameLen(f))) <= Len(b)
<1> DEFINE n == FrameLen(f)
           g == FrameBytes(f)
           t == Take(b, n)
<1>1. /\ n \in Nat /\ g \in Seq(Byte) /\ Len(g) = n
      /\ \A i \in 1 .. n : g[i] = [frame |-> f, at |-> i - 1]
  BY FrameIsBytes
<1>2. Len(b) \in Nat /\ n <= Len(b) /\ \A i \in 1 .. n : b[i] = [frame |-> f, at |-> i - 1]
  BY LenProperties
<1> HIDE DEF n, g
<1>3. n \in 0 .. Len(b)
  BY <1>1, <1>2
<1>4. /\ t \in Seq(Byte) /\ Len(t) = n /\ Drop(b, n) \in Seq(Byte) /\ Len(Drop(b, n)) = Len(b) - n
  BY <1>3, Cut DEF Take
<1>5. ASSUME NEW i \in 1 .. n PROVE t[i] = b[i]
  <2>1. i \in 1 .. n - 1 + 1
    BY <1>1
  <2>2. 1 + i - 1 = i
    BY <1>1
  <2>3. \A j \in 1 .. n - 1 + 1 : SubSeq(b, 1, n)[j] = b[1 + j - 1]
    <3>1. \A j \in 1 .. n : j \in 1 .. Len(b)
      BY <1>1, <1>2
    <3> QED BY <1>1, <1>2, <3>1, SubSeqProperties
  <2> QED BY <2>1, <2>2, <2>3 DEF Take
<1> HIDE DEF t
<1>6. t = g
  <2>1. \A i \in 1 .. Len(t) : t[i] = g[i]
    BY <1>1, <1>2, <1>4, <1>5
  <2> QED BY <1>1, <1>4, <2>1, SeqEqual
<1>7. b = Cat(t, Drop(b, n))
  BY <1>3, TakeDrop DEF t
<1> QED BY <1>1, <1>2, <1>3, <1>4, <1>6, <1>7 DEF n, g, t

\* One turn of the loop of uv_read_cb hands over the frame that follows the last.
LEMMA ParsesNext ==
    ASSUME StreamInv, ParseFrame
    PROVE  /\ SHdr = RHdr
           /\ \E f \in Frames :
               /\ Len(delivered) < Len(accepted) /\ f = accepted[Len(delivered) + 1]
               /\ FrameLen(f) \in 0 .. Len(rbuf) /\ rbuf = Cat(FrameBytes(f), Drop(rbuf, FrameLen(f)))
               /\ rbuf' = Drop(rbuf, FrameLen(f)) /\ rhead' = (rhead + FrameLen(f)) % RCap
               /\ rbuf' \in Seq(Byte) /\ Len(rbuf') <= Len(rbuf)
               /\ delivered' = Append(delivered, f)
<1>1. /\ recv = "open" /\ PackLen > 0
      /\ rbuf' = Drop(rbuf, PackLen)
      /\ rhead' = (rhead + PackLen) % RCap
      /\ delivered' = Append(delivered, Decoded(Take(rbuf, Min({PackLen, Len(rbuf)}))))
  BY DEF ParseFrame, Take
<1>2. /\ rbuf \in Seq(Byte) /\ Len(rbuf) \in Nat /\ link \in Links
  BY CarriedTypes, LenProperties
<1>3. /\ HeaderHere /\ Legal /\ FrameLen(rbuf[1].frame) <= Len(rbuf)
      /\ PackLen = FrameLen(rbuf[1].frame)
  BY <1>1 DEF PackLen
<1>4. SHdr = RHdr
  BY <1>1, <1>3, TwoProtocols
<1>5. PICK f \in Frames :
          /\ Len(delivered) < Len(accepted) /\ f = accepted[Len(delivered) + 1]
          /\ \A i \in 1 .. Len(rbuf) : i <= FrameLen(f) => rbuf[i] = [frame |-> f, at |-> i - 1]
          /\ rbuf[1] = [frame |-> f, at |-> 0]
  BY <1>1, <1>3, HeaderIsThere, FirstFrame
<1>6. rbuf[1].frame = f
  BY <1>5
<1>7. PackLen = FrameLen(f) /\ FrameLen(f) <= Len(rbuf) /\ FrameLen(f) \in Nat
  BY <1>2, <1>3, <1>6, FrameIsBytes
<1>8. ASSUME NEW i \in 1 .. FrameLen(f) PROVE rbuf[i] = [frame |-> f, at |-> i - 1]
  <2>1. i \in 1 .. Len(rbuf) /\ i <= FrameLen(f)
    BY <1>2, <1>7
  <2> QED BY <1>5, <2>1
<1>9. /\ FrameLen(f) \in 0 .. Len(rbuf)
      /\ Take(rbuf, FrameLen(f)) = FrameBytes(f)
      /\ rbuf = Cat(FrameBytes(f), Drop(rbuf, FrameLen(f)))
      /\ Drop(rbuf, FrameLen(f)) \in Seq(Byte) /\ Len(Drop(rbuf, FrameLen(f))) <= Len(rbuf)
  BY <1>2, <1>7, <1>8, FrontFrame
<1>10. Min({PackLen, Len(rbuf)}) = FrameLen(f)
  <2>1. PackLen \in Int /\ Len(rbuf) \in Int /\ PackLen <= Len(rbuf)
    BY <1>2, <1>7
  <2> QED BY <1>7, <2>1, MinOfTwo
<1>11. Decoded(FrameBytes(f)) = f
  <2>1. FrameBytes(f)[1].frame = f
    <3>1. /\ FrameLen(f) >= 3 /\ FrameLen(f) \in Nat
          /\ \A i \in 1 .. FrameLen(f) : FrameBytes(f)[i] = [frame |-> f, at |-> i - 1]
      BY <1>2, FrameIsBytes
    <3>2. FrameBytes(f)[1] = [frame |-> f, at |-> 1 - 1]
      BY <3>1
    <3> QED BY <3>2
  <2> QED BY <2>1 DEF Decoded
<1>12. rbuf' = Drop(rbuf, FrameLen(f)) /\ rhead' = (rhead + FrameLen(f)) % RCap
  BY <1>1, <1>7
<1>13. rbuf' \in Seq(Byte) /\ Len(rbuf') <= Len(rbuf)
  BY <1>9, <1>12
<1>14. delivered' = Append(delivered, f)
  BY <1>1, <1>9, <1>10, <1>11
<1> QED BY <1>4, <1>5, <1>9, <1>12, <1>13, <1>14

\* uv_read_cb hands a frame over: its bytes leave the ring for on_read.
LEMMA ParseFrameStep == ASSUME StreamInv, ParseFrame PROVE StreamInv'
<1>1. /\ parsing' = parsing /\ recv' = recv /\ why' = why /\ wire' = wire
      /\ parsing /\ UNCHANGED sendVars
  BY DEF ParseFrame
<1>2. SHdr = RHdr
  BY ParsesNext
<1>3. PICK f \in Frames :
          /\ Len(delivered) < Len(accepted) /\ f = accepted[Len(delivered) + 1]
          /\ FrameLen(f) \in 0 .. Len(rbuf) /\ rbuf = Cat(FrameBytes(f), Drop(rbuf, FrameLen(f)))
          /\ rbuf' = Drop(rbuf, FrameLen(f)) /\ rhead' = (rhead + FrameLen(f)) % RCap
          /\ rbuf' \in Seq(Byte) /\ Len(rbuf') <= Len(rbuf)
          /\ delivered' = Append(delivered, f)
  BY ParsesNext
<1>4. TypeOK /\ Ordered /\ RefusesRightly
  BY DEF StreamInv
<1>5. /\ rbuf \in Seq(Byte) /\ Len(rbuf) \in Nat /\ Len(rbuf) < RCap /\ rhead \in Nat
      /\ RCap \in Nat /\ RCap >= 2 /\ link \in Links
      /\ accepted \in Seq(Frames) /\ delivered \in Seq(Frames)
      /\ Len(accepted) \in Nat /\ Len(delivered) \in Nat
      /\ BytesOf(delivered) \in Seq(Byte)
  BY <1>4, CarriedTypes, LinkTypes, LenProperties DEF TypeOK
<1> DEFINE d == Append(delivered, f)
           r == Drop(rbuf, FrameLen(f))
<1>6. /\ d \in Seq(Frames) /\ Len(d) = Len(delivered) + 1
      /\ \A i \in 1 .. Len(delivered) : d[i] = delivered[i]
      /\ d[Len(delivered) + 1] = f
  BY <1>5, AppendProperties
<1>7. BytesOf(d) = Cat(BytesOf(delivered), FrameBytes(f))
  BY <1>5, BytesOfLonger
<1>8. r \in Seq(Byte) /\ Len(r) <= Len(rbuf) /\ rbuf = Cat(FrameBytes(f), r)
  BY <1>3
<1>9. FrameBytes(f) \in Seq(Byte)
  BY <1>5, FrameIsBytes
<1> HIDE DEF d, r
<1>10. Cat(BytesOf(d), r) = Cat(BytesOf(delivered), rbuf)
  BY <1>5, <1>7, <1>8, <1>9, CatAssoc
<1>11. Len(d) <= Len(accepted) /\ \A i \in 1 .. Len(d) : d[i] = accepted[i]
  <2>1. Len(d) <= Len(accepted)
    BY <1>3, <1>5, <1>6
  <2>2. \A i \in 1 .. Len(delivered) : delivered[i] = accepted[i]
    BY <1>4 DEF Ordered
  <2>3. ASSUME NEW i \in 1 .. Len(d) PROVE d[i] = accepted[i]
    <3>1. i \in 1 .. Len(delivered) \/ i = Len(delivered) + 1
      BY <1>5, <1>6
    <3> QED BY <1>3, <1>6, <2>2, <3>1
  <2> QED BY <2>1, <2>3
<1>12. Len(r) < RCap
  <2>1. Len(r) \in Nat
    BY <1>8, LenProperties
  <2> QED BY <1>5, <1>8, <2>1
<1>13. delivered' = d /\ rbuf' = r
  BY <1>3 DEF d, r
<1>14. Cat(Cat(BytesOf(delivered'), rbuf'), wire') = Cat(Cat(BytesOf(delivered), rbuf), wire)
  BY <1>1, <1>10, <1>13
<1>15. rhead' \in 0 .. RCap - 1
  <2>1. FrameLen(f) \in Nat
    BY <1>5, FrameIsBytes
  <2>2. (rhead + FrameLen(f)) % RCap \in 0 .. RCap - 1
    BY <1>5, <2>1
  <2> QED BY <1>3, <2>2
<1>16. Parsed'
  BY <1>1 DEF Parsed
<1>17. /\ rbuf' \in Seq(Byte) /\ Len(rbuf') < RCap
       /\ delivered' \in Seq(Frames) /\ Len(delivered') <= Len(accepted)
       /\ \A i \in 1 .. Len(delivered') : delivered'[i] = accepted[i]
  BY <1>6, <1>8, <1>11, <1>12, <1>13
<1>18. /\ wire' \in Seq(Byte) /\ parsing' \in BOOLEAN
       /\ recv' \in {"open", "marked", "gone"} /\ why' \in {"none", "illegal", "full"}
       /\ SHdr = RHdr => why' # "illegal"
       /\ why' = "full" =>
             \/ RCap - 1 < RHdr
             \/ \E i \in DOMAIN accepted : FrameLen(accepted[i]) > RCap - 1
       /\ SHdr # RHdr => delivered' = <<>>
       /\ recv' = "open" => recv = "open"
  BY <1>1, <1>2, <1>4 DEF TypeOK, RefusesRightly
<1> QED BY <1>1, <1>14, <1>15, <1>16, <1>17, <1>18, ReceiverStep

-----------------------------------------------------------------------------
(* The theorems.                                                           *)

\* The constructors establish the invariant.
LEMMA StreamInit == Init => StreamInv
<1> SUFFICES ASSUME Init PROVE StreamInv
  OBVIOUS
<1>1. /\ link \in Links /\ unsent = Frames
      /\ sbuf = <<>> /\ shead = 0 /\ writes = <<>> /\ send = "open" /\ wire = <<>>
      /\ rbuf = <<>> /\ rhead = 0 /\ parsing = FALSE /\ recv = "open" /\ why = "none"
      /\ accepted = <<>> /\ delivered = <<>>
  BY DEF Init
<1>2. /\ SHdr \in {3, 4} /\ RHdr \in {3, 4} /\ RCap \in Nat /\ RCap >= 2
      /\ SCap \in Nat /\ SCap >= 2
  BY <1>1, LinkTypes, StreamAssumption
<1>3. \A S : <<>> \in Seq(S)
  BY EmptySeq
<1>4. Len(<<>>) = 0 /\ DOMAIN <<>> = {}
  OBVIOUS
<1>5. TypeOK
  <2>1. link \in Links /\ unsent \subseteq Frames
    BY <1>1
  <2>2. sbuf \in Seq(Byte) /\ wire \in Seq(Byte) /\ rbuf \in Seq(Byte)
    BY <1>1, <1>3
  <2>3. accepted \in Seq(Frames) /\ delivered \in Seq(Frames \cup {Torn})
    BY <1>1, <1>3
  <2>4. Len(sbuf) < SCap /\ shead \in 0 .. SCap - 1
    BY <1>1, <1>2, <1>4
  <2>5. Len(rbuf) < RCap /\ rhead \in 0 .. RCap - 1
    BY <1>1, <1>2, <1>4
  <2>6. \A i \in DOMAIN writes : writes[i].size \in 1 .. SCap - 1 /\ writes[i].left \in Seq(Byte)
    BY <1>1, <1>4
  <2> QED BY <1>1, <2>1, <2>2, <2>3, <2>4, <2>5, <2>6 DEF TypeOK
<1>6. Left = <<>> /\ Size = 0
  BY <1>1 DEF Left, Size
<1>7. OneWrite
  BY <1>1, <1>3, <1>4, <1>6 DEF OneWrite
<1>8. Ordered
  BY <1>1, <1>3, <1>4 DEF Ordered
<1>9. Sized
  BY <1>1, <1>4 DEF Sized
<1>10. Conserved
  <2>1. Drop(sbuf, Size) = <<>>
    BY <1>1, <1>3, <1>6, DropNone
  <2>2. <<>> \in Seq(Byte) /\ Cat(<<>>, <<>>) = <<>>
    BY <1>3, CatEmpty
  <2>3. Carried(<<>>)
    BY <1>1, <1>6, <2>2, BytesOfNone DEF Carried
  <2> QED BY <2>1, <2>2, <2>3 DEF Conserved
<1>11. Parsed
  <2>1. ~ HeaderHere
    BY <1>1, <1>2, <1>4 DEF HeaderHere
  <2> QED BY <2>1 DEF Parsed
<1>12. RefusesRightly
  BY <1>1 DEF RefusesRightly
<1> QED BY <1>5, <1>7, <1>8, <1>9, <1>10, <1>11, <1>12 DEF StreamInv

\* A step of something else keeps it.
LEMMA StreamStutters == ASSUME StreamInv, UNCHANGED vars PROVE StreamInv'
<1>1. UNCHANGED <<sbuf, shead, writes, send, accepted, wire>> /\ UNCHANGED recvVars
      /\ unsent' = unsent /\ link' = link
  BY DEF vars, sendVars, recvVars
<1>2. recv' = recv /\ rbuf' = rbuf /\ rhead' = rhead /\ parsing' = parsing /\ why' = why
      /\ delivered' = delivered
  BY <1>1 DEF recvVars
<1>3. Left' = Left /\ Size' = Size
  BY <1>1 DEF Left, Size
<1>4. TypeOK'
  BY <1>1, <1>2, SameLink DEF StreamInv, TypeOK
<1>5. OneWrite'
  BY <1>1, <1>3, SameLink DEF StreamInv, OneWrite
<1>6. Ordered' /\ Parsed' /\ RefusesRightly'
  BY <1>1, SenderKeeps
<1>7. Sized'
  BY <1>1, SameLink DEF StreamInv, Sized
<1>8. Conserved'
  BY <1>1, <1>2, <1>3, ConservedNext DEF StreamInv, Conserved, Carried
<1> QED BY <1>4, <1>5, <1>6, <1>7, <1>8 DEF StreamInv

\* And every step of the two loops and the kernels.
LEMMA StreamStepPreserves == StreamInv /\ [Next]_vars => StreamInv'
<1> SUFFICES ASSUME StreamInv, [Next]_vars PROVE StreamInv'
  OBVIOUS
<1>1. ASSUME NEW f \in Frames, WriteDrops(f) PROVE StreamInv'
  BY <1>1, WriteDropsStep
<1>2. ASSUME NEW f \in Frames, EventLoopWrite(f) PROVE StreamInv'
  BY <1>2, EventLoopWriteStep
<1>3. ASSUME NEW n \in 1 .. SCap, KernelTakes(n) PROVE StreamInv'
  <2>1. n \in Nat
    OBVIOUS
  <2> QED BY <1>3, <2>1, KernelTakesStep
<1>4. CASE WriteDone
  BY <1>4, WriteDoneStep
<1>5. CASE WriteFails
  BY <1>5, WriteFailsStep
<1>6. CASE SenderCloses
  BY <1>6, SenderClosesStep
<1>7. CASE SenderCloseInLoop
  BY <1>7, SenderCloseInLoopStep
<1>8. ASSUME NEW n \in 1 .. RCap, Read(n) PROVE StreamInv'
  <2>1. n \in Nat
    OBVIOUS
  <2> QED BY <1>8, <2>1, ReadStep
<1>9. ASSUME NEW n \in 1 .. RCap, ReadDropped(n) PROVE StreamInv'
  <2>1. n \in Nat
    OBVIOUS
  <2> QED BY <1>9, <2>1, ReadDroppedStep
<1>10. CASE ReadFull
  BY <1>10, ReadFullStep
<1>11. CASE ReadEnds
  BY <1>11, ReadEndsStep
<1>12. CASE ParseFrame
  BY <1>12, ParseFrameStep
<1>13. CASE ParseIllegal
  BY <1>13, ParseIllegalStep
<1>14. CASE ParseEnds
  BY <1>14, ParseEndsStep
<1>15. CASE ReceiverCloses
  BY <1>15, ReceiverClosesStep
<1>16. CASE ReceiverCloseInLoop
  BY <1>16, ReceiverCloseInLoopStep
<1>17. CASE UNCHANGED vars
  BY <1>17, StreamStutters
<1> QED BY <1>1, <1>2, <1>3, <1>4, <1>5, <1>6, <1>7, <1>8, <1>9, <1>10, <1>11, <1>12,
           <1>13, <1>14, <1>15, <1>16, <1>17 DEF Next

\* The invariant holds in every reachable state, for every set of frames, length of
\* bodies, link, packet bound and size of the rings.
THEOREM StreamInvariant == Spec => []StreamInv
BY StreamInit, StreamStepPreserves, PTL DEF Spec

\* Every byte in either ring, in a write or between the kernels is a byte of a frame
\* the business sent; neither ring ever holds more than its cells but one.
THEOREM StreamTypes == Spec => []TypeOK
<1>1. StreamInv => TypeOK
  BY DEF StreamInv
<1> QED BY <1>1, StreamInvariant, PTL

\* Not a byte is lost, repeated or moved between eventLoopWrite and on_read while both
\* channels are open, and a ring that holds bytes has exactly one uv_write in flight
\* (Channel::eventLoopWrite, Channel::doUvSend and its callback).
THEOREM NothingLost == Spec => []StreamConserved
<1>1. StreamInv => StreamConserved
  <2> SUFFICES ASSUME StreamInv PROVE StreamConserved
    OBVIOUS
  <2>1. send = "open" => Len(writes) = IF sbuf = <<>> THEN 0 ELSE 1
    BY DEF StreamInv, OneWrite
  <2> DEFINE w == IF writes = <<>> THEN [size |-> 0, left |-> <<>>] ELSE writes[1]
  <2>2. w.left = Left /\ w.size = Size
    BY DEF Left, Size
  <2> HIDE DEF w
  <2>3. ASSUME send = "open", recv = "open"
        PROVE  Cat(Cat(Cat(Cat(BytesOf(delivered), rbuf), wire), w.left), Drop(sbuf, w.size))
                   = BytesOf(accepted)
    <3>1. PICK u \in Seq(Byte) : Carried(u) /\ u = Drop(sbuf, Size)
      BY <2>3 DEF StreamInv, Conserved
    <3> QED BY <2>2, <3>1 DEF Carried
  <2>4. send = "open" /\ recv = "open" =>
            BytesOf(delivered) \o rbuf \o wire \o w.left \o Drop(sbuf, w.size) = BytesOf(accepted)
    BY <2>3 DEF Cat
  <2> QED BY <2>1, <2>4 DEF StreamConserved, w
<1> QED BY <1>1, StreamInvariant, PTL

\* The receive path closes a connection for the right reason: peekNextPackLen finds no
\* header of the same protocol illegal and hands over no frame of the other protocol,
\* and uv_alloc_cb finds the ring full only for a frame or header it cannot hold.
THEOREM RefusalsAreRight == Spec => []RefusesRightly
<1>1. StreamInv => RefusesRightly
  BY DEF StreamInv
<1> QED BY <1>1, StreamInvariant, PTL

\* eventLoopWrite that accepts a frame is the pipe's Accept, one turn of uv_read_cb is
\* its Deliver, and no other step touches what the business code sees.
LEMMA StreamStepIsPipeStep ==
    ASSUME StreamInv, [Next]_vars
    PROVE  [Pipe!Accept \/ Pipe!Deliver]_<<accepted, delivered>>
<1>1. ASSUME NEW f \in Frames, EventLoopWrite(f) PROVE Pipe!Accept
  <2>1. accepted' = Append(accepted, f) /\ delivered' = delivered
    BY <1>1 DEF EventLoopWrite, recvVars
  <2> QED BY <2>1 DEF Pipe!Accept
<1>2. CASE ParseFrame
  <2>1. accepted' = accepted
    BY <1>2 DEF ParseFrame, sendVars
  <2>2. /\ Len(delivered) < Len(accepted)
        /\ delivered' = Append(delivered, accepted[Len(delivered) + 1])
    BY <1>2, ParsesNext
  <2> QED BY <2>1, <2>2 DEF Pipe!Deliver
<1>3. ASSUME \/ UNCHANGED accepted /\ UNCHANGED recvVars
             \/ UNCHANGED delivered /\ UNCHANGED sendVars
      PROVE  UNCHANGED <<accepted, delivered>>
  BY <1>3 DEF sendVars, recvVars
<1>4. ASSUME NEW f \in Frames, WriteDrops(f) PROVE UNCHANGED <<accepted, delivered>>
  BY <1>3, <1>4 DEF WriteDrops
<1>5. ASSUME NEW n, KernelTakes(n) PROVE UNCHANGED <<accepted, delivered>>
  BY <1>3, <1>5 DEF KernelTakes
<1>6. CASE WriteDone
  BY <1>3, <1>6 DEF WriteDone
<1>7. CASE WriteFails
  BY <1>3, <1>7 DEF WriteFails
<1>8. CASE SenderCloses
  BY <1>3, <1>8 DEF SenderCloses
<1>9. CASE SenderCloseInLoop
  BY <1>3, <1>9 DEF SenderCloseInLoop
<1>10. ASSUME NEW n, Read(n) PROVE UNCHANGED <<accepted, delivered>>
  BY <1>3, <1>10 DEF Read
<1>11. ASSUME NEW n, ReadDropped(n) PROVE UNCHANGED <<accepted, delivered>>
  BY <1>3, <1>11 DEF ReadDropped, recvVars
<1>12. CASE ReadFull
  BY <1>3, <1>12 DEF ReadFull
<1>13. CASE ReadEnds
  BY <1>3, <1>13 DEF ReadEnds
<1>14. CASE ParseIllegal
  BY <1>3, <1>14 DEF ParseIllegal
<1>15. CASE ParseEnds
  BY <1>3, <1>15 DEF ParseEnds
<1>16. CASE ReceiverCloses
  BY <1>3, <1>16 DEF ReceiverCloses
<1>17. CASE ReceiverCloseInLoop
  BY <1>3, <1>17 DEF ReceiverCloseInLoop
<1>18. CASE UNCHANGED vars
  BY <1>18 DEF vars, sendVars, recvVars
<1> QED BY <1>1, <1>2, <1>4, <1>5, <1>6, <1>7, <1>8, <1>9, <1>10, <1>11, <1>12,
           <1>13, <1>14, <1>15, <1>16, <1>17, <1>18 DEF Next

\* The two rings, the write in flight, the kernels and the parser, with partial writes,
\* partial reads and a close at any moment, implement a pipe of whole frames: what
\* on_read is given is what eventLoopWrite accepted, in order, up to the close.
THEOREM StreamIsFramePipe == Spec => IsFramePipe
<1>1. Init => Pipe!Init
  BY DEF Init, Pipe!Init
<1>2. StreamInv /\ [Next]_vars => [Pipe!Accept \/ Pipe!Deliver]_<<accepted, delivered>>
  BY StreamStepIsPipeStep
<1> QED BY <1>1, <1>2, StreamInvariant, PTL DEF Spec, IsFramePipe, Pipe!Spec
=============================================================================
