------------------------------ MODULE PeerConn ------------------------------
(***************************************************************************)
(* The table of peer nodes and of the channels to them (PeerConn), with    *)
(* what happens to one channel from the connection to its release, as far  *)
(* as the table can tell.  The handshake of a channel is handled by an     *)
(* actor, which saves the channel; its end is handled by the loop thread,  *)
(* which takes it out.                                                     *)
(*                                                                         *)
(* node_id_nodes and node_type_nodes hold the same nodes, both under       *)
(* mutex_, and removeNode has no caller, so the two are one set here.      *)
(* The channels of a node are a set: saveNodeChannel keeps them distinct,  *)
(* and sendMsg takes the first, which may be any of them.                  *)
(***************************************************************************)
EXTENDS Naturals

CONSTANTS
    Nodes,  \* the service ids of the peers
    Chans,  \* the channels, each used for one connection
    NoNode  \* the target of a channel that is not used yet

ASSUME PeerAssumption == NoNode \notin Nodes

VARIABLES
    nodes,     \* the nodes the table knows
    channels,  \* channels[n]: the channels saved for n
    link,      \* link[c]: the life of a channel
    target,    \* target[c]: the service id the peer at the other end has
    shake,     \* shake[c]: how far the handshake of c is, on this side
    late,      \* history: the channels an actor held when on_closed ran, or
               \*   looked up between on_closed and their release
    unheard    \* history: the channels whose node was not known in time

peerVars == <<nodes, channels, link, target, shake, late, unheard>>

LinkState == {"none", "connecting", "up", "notified", "freed"}
ShakeState == {"none", "asked", "queued", "named", "held", "done"}

PeerTypeOK ==
    /\ nodes \subseteq Nodes
    /\ channels \in [Nodes -> SUBSET Chans]
    /\ link \in [Chans -> LinkState]
    /\ target \in [Chans -> Nodes \cup {NoNode}]
    /\ shake \in [Chans -> ShakeState]
    /\ late \subseteq Chans
    /\ unheard \subseteq Chans

PeerInit ==
    /\ nodes = {}
    /\ channels = [n \in Nodes |-> {}]
    /\ link = [c \in Chans |-> "none"]
    /\ target = [c \in Chans |-> NoNode]
    /\ shake = [c \in Chans |-> "none"]
    /\ late = {}
    /\ unheard = {}

\* on_closed has run for c: the loop is done with the channel
Dead(c) == link[c] \in {"notified", "freed"}

\* EventLoop::channelPtr: the registry of the loop still has the channel
Live(c) == link[c] \in {"connecting", "up", "notified"}

-----------------------------------------------------------------------------
(* The table, one critical section each *)

\* Mutant of SaveNode: news of a known node replaces its entry.
SaveNodeReplaces(n) ==
    /\ nodes' = nodes \cup {n}
    /\ channels' = [channels EXCEPT ![n] = {}]

\* a known node is left as it is, its channels too
SaveNode(n) ==
    /\ nodes' = nodes \cup {n}
    /\ UNCHANGED channels

SaveNodeChannel(n, c) ==
    channels' = IF n \in nodes
                THEN [channels EXCEPT ![n] = @ \cup {c}]
                ELSE channels

\* Mutant of RemoveNodeChannel: the table is rebuilt from the known nodes.
RemoveNodeChannelRebuilds(c) ==
    channels' = [n \in nodes |-> channels[n] \ {c}]

RemoveNodeChannel(c) ==
    channels' = [n \in Nodes |-> channels[n] \ {c}]

-----------------------------------------------------------------------------
(* The life of a channel *)

\* asyncConnect makes the channel and starts the connection
Connect(c, n) ==
    /\ link[c] = "none"
    /\ link' = [link EXCEPT ![c] = "connecting"]
    /\ target' = [target EXCEPT ![c] = n]
    /\ UNCHANGED <<channels, shake, late, unheard>>

\* uv_on_connect: on_connected sends the handshake request
ConnectSucceeds(c) ==
    /\ link[c] = "connecting"
    /\ link' = [link EXCEPT ![c] = "up"]
    /\ shake' = [shake EXCEPT ![c] = "asked"]
    /\ UNCHANGED <<nodes, channels, target, late, unheard>>

\* a peer connects; it will send its handshake request
Accept(c, n) ==
    /\ link[c] = "none"
    /\ link' = [link EXCEPT ![c] = "up"]
    /\ target' = [target EXCEPT ![c] = n]
    /\ shake' = [shake EXCEPT ![c] = "asked"]
    /\ UNCHANGED <<nodes, channels, late, unheard>>

\* a refused connection, the end of the stream, an error or an idle time-out
\* ends in closeInLoop, whose on_closed takes the channel out of the table.
\* Between close() and closeInLoop nothing here can tell the difference
CloseInLoop(c) ==
    /\ link[c] \in {"connecting", "up"}
    /\ link' = [link EXCEPT ![c] = "notified"]
    /\ RemoveNodeChannel(c)
    /\ late' = IF shake[c] = "held" THEN late \cup {c} ELSE late
    /\ UNCHANGED <<nodes, target, shake, unheard>>

\* the handles are closed: the registry of the loop drops the channel
Release(c) ==
    /\ link[c] = "notified"
    /\ link' = [link EXCEPT ![c] = "freed"]
    /\ UNCHANGED <<nodes, channels, target, shake, late, unheard>>

-----------------------------------------------------------------------------
(* The handshake *)

\* onMsg on the loop thread posts the peer's handshake message to an actor
ShakeArrives(c) ==
    /\ link[c] = "up"
    /\ shake[c] = "asked"
    /\ shake' = [shake EXCEPT ![c] = "queued"]
    /\ UNCHANGED <<nodes, channels, link, target, late, unheard>>

\* onShakHandReq, on the side that accepted, saves the node first
ShakeSavesNode(c) ==
    /\ shake[c] = "queued"
    /\ SaveNode(target[c])
    /\ shake' = [shake EXCEPT ![c] = "named"]
    /\ UNCHANGED <<link, target, late, unheard>>

\* Mutant of ShakeLooksUp: the raw pointer is taken without asking the loop.
ShakeTrustsPointer(c, from) ==
    /\ shake[c] = from
    /\ shake' = [shake EXCEPT ![c] = "held"]
    /\ late' = IF link[c] = "notified" THEN late \cup {c} ELSE late
    /\ UNCHANGED <<nodes, channels, link, target, unheard>>

\* saveNodeChannel asks the loop for the channel, before it takes the mutex
ShakeLooksUp(c, from) ==
    /\ shake[c] = from
    /\ shake' = [shake EXCEPT ![c] = IF Live(c) THEN "held" ELSE "done"]
    /\ late' = IF link[c] = "notified" THEN late \cup {c} ELSE late
    /\ UNCHANGED <<nodes, channels, link, target, unheard>>

\* the rest of saveNodeChannel, under the mutex
ShakeSaves(c) ==
    /\ shake[c] = "held"
    /\ shake' = [shake EXCEPT ![c] = "done"]
    /\ SaveNodeChannel(target[c], c)
    /\ unheard' = IF target[c] \in nodes THEN unheard ELSE unheard \cup {c}
    /\ UNCHANGED <<nodes, link, target, late>>

-----------------------------------------------------------------------------
(***************************************************************************)
(* A channel whose on_closed has run is in the table only if an actor held *)
(* it across removeNodeChannel, or looked it up before its loop let go of  *)
(* it (PeerConn.cpp:84-92): there is no other way to leave a dead channel  *)
(* behind for sendMsg to pick.                                             *)
(***************************************************************************)
DeadLeaveUnlessRaced ==
    \A c \in Chans, n \in Nodes : c \in channels[n] /\ Dead(c) => c \in late

(***************************************************************************)
(* A channel that is up and whose handshake has been handled is in the     *)
(* table under its peer and nowhere else, unless the node was saved after  *)
(* the handshake looked for it (gateway Discovery.cpp:45, 70): later news  *)
(* of the node, and closes of other channels, do not take it out.          *)
(***************************************************************************)
LiveStayRegistered ==
    \A c \in Chans :
        /\ link[c] = "up" /\ shake[c] = "done" /\ c \notin unheard
             => c \in channels[target[c]]
        /\ \A n \in Nodes : c \in channels[n] => target[c] = n /\ n \in nodes
=============================================================================
