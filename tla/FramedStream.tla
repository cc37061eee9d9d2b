----------------------------- MODULE FramedStream -----------------------------
(***************************************************************************)
(* One direction of a connection: the send path of the Channel on one loop, *)
(* the kernels between, and the receive path of the Channel on another.     *)
(*                                                                         *)
(* Both rings are used by their loop thread only (RingByteBuf shows them to *)
(* be byte queues), so each is a sequence and the index of its first byte,  *)
(* which decides where the linear windows end.  A frame is a header of one  *)
(* byte per field (length first, magic last) and a body.  Any thread may    *)
(* mark either channel closed between two steps of its loop.               *)
(***************************************************************************)
EXTENDS Naturals, Sequences, SequencesExt

CONSTANTS
    Frames,      \* the messages the business sends, each once
    BodyLen,     \* the length of the body of each
    Links,       \* the ways the two ends may be set up: see link
    MaxPacket,   \* MAX_PACKET_SIZE
    SCap,        \* cells of the send ring
    Torn         \* what on_read is given when the bytes are not those of a frame

ASSUME StreamAssumption ==
    /\ BodyLen \in [Frames -> Nat]
    /\ Links \subseteq [shdr : {3, 4}, rhdr : {3, 4}, rcap : Nat \ {0, 1}]
    /\ Torn \notin Frames
    /\ MaxPacket \in Nat
    /\ SCap \in Nat \ {0, 1}

VARIABLES
    link,       \* header lengths of sender and receiver (ProtoMode INNER 4, CLIENT
                \* 3) and cells of the receive ring, fixed by the constructors
    unsent,     \* sends the loop has yet to run
    sbuf,       \* send_buff: the bytes in the ring
    shead,      \* the cell of the first of them
    writes,     \* the uv_writes in flight, oldest first
    send,       \* the sending channel: "open", "marked" (closed_) or "gone"
    wire,       \* bytes the sending kernel took, the receiving one has yet to give
    rbuf,       \* recv_buffer: the bytes in the ring
    rhead,      \* the cell of the first of them
    parsing,    \* uv_read_cb is in its loop over complete frames
    recv,       \* the receiving channel: "open", "marked" or "gone"
    why,        \* why the receive path closed the channel, if it did
    accepted,   \* frames eventLoopWrite put in the ring
    delivered   \* frames on_read was given

\* The state of each end, its view of the link included.
sendVars == <<link, unsent, sbuf, shead, writes, send, accepted>>
recvVars == <<link, rbuf, rhead, parsing, recv, why, delivered>>
vars     == <<sendVars, wire, recvVars>>

SHdr == link.shdr
RHdr == link.rhdr
RCap == link.rcap

FrameLen(f) == SHdr + BodyLen[f]

\* The frame as bytes: each names its frame and its place in it.
FrameBytes(f) == [i \in 1 .. FrameLen(f) |-> [frame |-> f, at |-> i - 1]]
BytesOf(fs)   == FlattenSeq([i \in 1 .. Len(fs) |-> FrameBytes(fs[i])])
Byte == {b \in [frame : Frames, at : Nat] : b.at < FrameLen(b.frame)}

\* The message a run of bytes decodes to.
Decoded(bytes) ==
    LET f == bytes[1].frame IN IF bytes = FrameBytes(f) THEN f ELSE Torn

Drop(s, n) == SubSeq(s, n + 1, Len(s))

TypeOK ==
    /\ link \in Links /\ unsent \subseteq Frames
    /\ sbuf \in Seq(Byte) /\ Len(sbuf) < SCap /\ shead \in 0 .. SCap - 1
    /\ \A i \in DOMAIN writes : writes[i].size \in 1 .. SCap - 1 /\ writes[i].left \in Seq(Byte)
    /\ wire \in Seq(Byte)
    /\ rbuf \in Seq(Byte) /\ Len(rbuf) < RCap /\ rhead \in 0 .. RCap - 1
    /\ send \in {"open", "marked", "gone"} /\ recv \in {"open", "marked", "gone"}
    /\ parsing \in BOOLEAN /\ why \in {"none", "illegal", "full"}
    /\ accepted \in Seq(Frames) /\ delivered \in Seq(Frames \cup {Torn})

Init ==
    /\ link \in Links /\ unsent = Frames
    /\ sbuf = <<>> /\ shead = 0 /\ writes = <<>> /\ send = "open"
    /\ wire = <<>>
    /\ rbuf = <<>> /\ rhead = 0 /\ parsing = FALSE /\ recv = "open" /\ why = "none"
    /\ accepted = <<>> /\ delivered = <<>>

-----------------------------------------------------------------------------
(* The sending loop.                                                       *)

\* doUvSend with the ring at b from cell h and the writes w in flight: the
\* linear readable window is handed to uv_write, which may fail at once.
DoUvSend(b, h, w) ==
    LET n == Min({Len(b), SCap - h})
    IN  IF send # "open" \/ n = 0
        THEN writes' = w /\ UNCHANGED send
        ELSE \/ /\ writes' = Append(w, [size |-> n, left |-> SubSeq(b, 1, n)])
                /\ UNCHANGED send
             \/ writes' = w /\ send' = "marked"

\* eventLoopWrite of a channel already closed, or of a frame that does not fit.
WriteDrops(f) ==
    /\ f \in unsent /\ send # "gone"
    /\ \/ send # "open"
       \/ FrameLen(f) > MaxPacket
       \/ (SCap - 1) - Len(sbuf) < FrameLen(f)
    /\ unsent' = unsent \ {f}
    /\ UNCHANGED <<sbuf, shead, writes, send, accepted, wire, recvVars>>

\* Mutant of EventLoopWrite: the cell the ring keeps free is taken for a writable one.
EventLoopWriteFillsRing(f) ==
    /\ f \in unsent /\ send = "open"
    /\ FrameLen(f) <= MaxPacket /\ FrameLen(f) <= SCap - Len(sbuf)
    /\ unsent' = unsent \ {f}
    /\ sbuf' = sbuf \o FrameBytes(f)
    /\ accepted' = Append(accepted, f)
    /\ IF sbuf = <<>> THEN DoUvSend(sbuf', shead, writes) ELSE UNCHANGED <<writes, send>>
    /\ UNCHANGED <<shead, wire, recvVars>>

\* eventLoopWrite: the whole frame joins the ring, and starts a write if the
\* ring was empty.
EventLoopWrite(f) ==
    /\ f \in unsent /\ send = "open"
    /\ FrameLen(f) <= MaxPacket /\ FrameLen(f) <= (SCap - 1) - Len(sbuf)
    /\ unsent' = unsent \ {f}
    /\ sbuf' = sbuf \o FrameBytes(f)
    /\ accepted' = Append(accepted, f)
    /\ IF sbuf = <<>> THEN DoUvSend(sbuf', shead, writes) ELSE UNCHANGED <<writes, send>>
    /\ UNCHANGED <<shead, wire, recvVars>>

\* libuv writes what the socket takes of the oldest write.
KernelTakes(n) ==
    /\ writes # <<>> /\ send # "gone"
    /\ n \in 1 .. Len(Head(writes).left)
    /\ wire' = wire \o SubSeq(Head(writes).left, 1, n)
    /\ writes' = [writes EXCEPT ![1].left = Drop(@, n)]
    /\ UNCHANGED <<unsent, sbuf, shead, send, accepted, recvVars>>

\* Mutants of WriteDone: the ring is emptied instead of moved on; or the rest of
\* it waits for the next frame.
WriteDoneClears ==
    /\ writes # <<>> /\ send # "gone" /\ Head(writes).left = <<>>
    /\ sbuf' = <<>> /\ shead' = 0
    /\ writes' = Tail(writes)
    /\ UNCHANGED <<unsent, send, accepted, wire, recvVars>>
WriteDoneWaits ==
    /\ writes # <<>> /\ send # "gone" /\ Head(writes).left = <<>>
    /\ sbuf' = Drop(sbuf, Head(writes).size)
    /\ shead' = (shead + Head(writes).size) % SCap
    /\ writes' = Tail(writes)
    /\ UNCHANGED <<unsent, send, accepted, wire, recvVars>>

\* The uv_write callback with status 0: the ring moves on and the next window
\* is sent.  A ring that cannot move on closes the channel.
WriteDone ==
    /\ writes # <<>> /\ send # "gone" /\ Head(writes).left = <<>>
    /\ LET n == Head(writes).size
           h == (shead + n) % SCap
       IN  IF n > Len(sbuf)
           THEN writes' = Tail(writes) /\ send' = "marked" /\ UNCHANGED <<sbuf, shead>>
           ELSE /\ sbuf' = Drop(sbuf, n)
                /\ shead' = h
                /\ DoUvSend(sbuf', h, Tail(writes))
    /\ UNCHANGED <<unsent, accepted, wire, recvVars>>

\* The uv_write callback with an error other than UV_ECANCELED.
WriteFails ==
    /\ writes # <<>> /\ send # "gone"
    /\ writes' = Tail(writes)
    /\ send' = "marked"
    /\ UNCHANGED <<unsent, sbuf, shead, accepted, wire, recvVars>>

\* Channel::close on the sending side, by any thread.
SenderCloses ==
    /\ send = "open"
    /\ send' = "marked"
    /\ UNCHANGED <<unsent, sbuf, shead, writes, accepted, wire, recvVars>>

\* closeInLoop of the sending side: the write in flight is cancelled, and what
\* the kernels still hold may be lost from some byte on.
SenderCloseInLoop ==
    /\ send = "marked"
    /\ send' = "gone"
    /\ writes' = <<>>
    /\ \E n \in 0 .. Len(wire) : wire' = SubSeq(wire, 1, n)
    /\ UNCHANGED <<unsent, sbuf, shead, accepted, recvVars>>

-----------------------------------------------------------------------------
(* The receiving loop.                                                     *)

\* linearWritablePtr of the receive ring.
Window == Min({(RCap - 1) - Len(rbuf), RCap - ((rhead + Len(rbuf)) % RCap)})

\* uv_alloc_cb, the read of at most the window, and onRead of a channel that is
\* open: the bytes join the ring and uv_read_cb goes on to parse.
Read(n) ==
    /\ recv = "open" /\ ~parsing
    /\ n \in 1 .. Min({Window, Len(wire)})
    /\ rbuf' = rbuf \o SubSeq(wire, 1, n)
    /\ wire' = Drop(wire, n)
    /\ parsing' = TRUE
    /\ UNCHANGED <<rhead, recv, why, delivered, sendVars>>

\* The ring is full: uv_alloc_cb closes the channel and the byte read is lost.
ReadFull ==
    /\ recv = "open" /\ ~parsing /\ wire # <<>>
    /\ Window = 0
    /\ wire' = Tail(wire)
    /\ recv' = "marked" /\ why' = "full"
    /\ UNCHANGED <<rbuf, rhead, parsing, delivered, sendVars>>

\* onRead of a channel already marked closed: what is read is dropped.
ReadDropped(n) ==
    /\ recv = "marked" /\ ~parsing
    /\ n \in 1 .. Len(wire)
    /\ wire' = Drop(wire, n)
    /\ UNCHANGED <<recvVars, sendVars>>

\* onRead with nread < 0: the sender has gone and its last byte was read.
ReadEnds ==
    /\ recv = "open" /\ ~parsing
    /\ send = "gone" /\ wire = <<>>
    /\ recv' = "marked"
    /\ UNCHANGED <<rbuf, rhead, parsing, why, delivered, wire, sendVars>>

\* peekNextPackLen: 0 for an incomplete frame (-1 in the code), and the header
\* is legal when it starts with a length within bounds and ends with the magic.
HeaderHere == Len(rbuf) >= RHdr

\* Mutant of Legal: the bound excludes the largest frame.
LegalBelowMax == rbuf[1].at = 0 /\ FrameLen(rbuf[1].frame) < MaxPacket /\ rbuf[RHdr].at = SHdr - 1

Legal == rbuf[1].at = 0 /\ FrameLen(rbuf[1].frame) <= MaxPacket /\ rbuf[RHdr].at = SHdr - 1

\* Mutant of PackLen: the header is enough to hand the frame over.
PackLenEager == IF HeaderHere /\ Legal THEN FrameLen(rbuf[1].frame) ELSE 0

PackLen == IF HeaderHere /\ Legal /\ FrameLen(rbuf[1].frame) <= Len(rbuf)
           THEN FrameLen(rbuf[1].frame) ELSE 0

\* uv_read_cb: one turn of its loop hands a complete frame to on_read.
ParseFrame ==
    /\ parsing /\ recv = "open" /\ PackLen > 0
    /\ rbuf' = Drop(rbuf, PackLen)
    /\ rhead' = (rhead + PackLen) % RCap
    /\ delivered' = Append(delivered, Decoded(SubSeq(rbuf, 1, Min({PackLen, Len(rbuf)}))))
    /\ UNCHANGED <<parsing, recv, why, wire, sendVars>>

\* Mutant of ParseIllegal: the illegal header is logged and the loop returns.
ParseIllegalLogs ==
    /\ parsing /\ recv = "open" /\ HeaderHere /\ ~Legal
    /\ parsing' = FALSE
    /\ UNCHANGED <<rbuf, rhead, recv, why, delivered, wire, sendVars>>

\* uv_read_cb: an illegal header closes the channel.
ParseIllegal ==
    /\ parsing /\ recv = "open" /\ HeaderHere /\ ~Legal
    /\ recv' = "marked" /\ why' = "illegal" /\ parsing' = FALSE
    /\ UNCHANGED <<rbuf, rhead, delivered, wire, sendVars>>

\* uv_read_cb returns: no complete frame is left, or the channel was closed.
ParseEnds ==
    /\ parsing
    /\ recv # "open" \/ ~HeaderHere \/ (HeaderHere /\ Legal /\ PackLen = 0)
    /\ parsing' = FALSE
    /\ UNCHANGED <<rbuf, rhead, recv, why, delivered, wire, sendVars>>

\* Channel::close on the receiving side, by any thread or by on_read.
ReceiverCloses ==
    /\ recv = "open"
    /\ recv' = "marked"
    /\ UNCHANGED <<rbuf, rhead, parsing, why, delivered, wire, sendVars>>

\* closeInLoop of the receiving side, between two callbacks.
ReceiverCloseInLoop ==
    /\ recv = "marked" /\ ~parsing
    /\ recv' = "gone"
    /\ UNCHANGED <<rbuf, rhead, parsing, why, delivered, wire, sendVars>>

-----------------------------------------------------------------------------
Next ==
    \/ \E f \in Frames : WriteDrops(f) \/ EventLoopWrite(f)
    \/ \E n \in 1 .. SCap : KernelTakes(n)
    \/ WriteDone \/ WriteFails \/ SenderCloses \/ SenderCloseInLoop
    \/ \E n \in 1 .. RCap : Read(n) \/ ReadDropped(n)
    \/ ReadFull \/ ReadEnds \/ ParseFrame \/ ParseIllegal \/ ParseEnds
    \/ ReceiverCloses \/ ReceiverCloseInLoop

\* The kernels pass bytes on while both ends live, and both loops run.
Fairness ==
    /\ WF_vars(\E n \in 1 .. SCap : KernelTakes(n))
    /\ WF_vars(WriteDone)
    /\ WF_vars(ReadFull \/ \E n \in 1 .. RCap : Read(n))
    /\ WF_vars(ReadEnds)
    /\ WF_vars(ParseFrame \/ ParseIllegal \/ ParseEnds)

Spec     == Init /\ [][Next]_vars
FairSpec == Spec /\ Fairness

-----------------------------------------------------------------------------
(* Properties.                                                             *)

\* Not a byte is lost, repeated or moved on its way through the two rings, the
\* window of the write and the kernels, while neither channel is closed; and a
\* ring that is not empty has one write in flight to empty it (eventLoopWrite
\* starts one only when the ring was empty, the callback of doUvSend the next).
StreamConserved ==
    /\ send = "open" => Len(writes) = IF sbuf = <<>> THEN 0 ELSE 1
    /\ send = "open" /\ recv = "open" =>
          LET w == IF writes = <<>> THEN [size |-> 0, left |-> <<>>] ELSE writes[1]
          IN  BytesOf(delivered) \o rbuf \o wire \o w.left \o Drop(sbuf, w.size)
                  = BytesOf(accepted)

\* The receive path refuses what it must and nothing else: a frame of the same
\* protocol is never illegal, whatever its length; the ring is full only if it
\* cannot hold a frame that was sent, or not even the header it expects
\* (uv_alloc_cb: full, and no complete frame in it); and nothing a peer of the
\* other protocol sends reaches on_read (peekNextPackLen: the magic tells that
\* the peer speaks another protocol).
RefusesRightly ==
    /\ SHdr = RHdr => why # "illegal"
    /\ why = "full" =>
          \/ RCap - 1 < RHdr
          \/ \E i \in DOMAIN accepted : FrameLen(accepted[i]) > RCap - 1
    /\ SHdr # RHdr => delivered = <<>>

\* Frames are delivered whole, once and in order, across any close.
Pipe == INSTANCE FramePipe
IsFramePipe == Pipe!Spec

\* Between ends of one protocol every frame accepted is delivered, unless one of
\* the channels is closed.
AcceptedDelivered ==
    \A f \in Frames :
        SHdr = RHdr /\ (\E i \in DOMAIN accepted : accepted[i] = f)
            ~> \/ \E i \in DOMAIN delivered : delivered[i] = f
               \/ send # "open" \/ recv # "open"

\* A peer of the other protocol is disconnected as soon as it has sent as many
\* bytes as the header the receiver expects.  (Channel.h: judged quickly and
\* disconnected.)
OtherProtocolDropped ==
    SHdr # RHdr /\ Len(BytesOf(accepted)) >= RHdr ~> send # "open" \/ recv # "open"

=============================================================================
