-------------------------- MODULE DiscoveryProofs ---------------------------
(***************************************************************************)
(* Theorems about Discovery, for any number of peers and channels, any     *)
(* bound on starts and faults, and either role.                            *)
(*                                                                         *)
(* The table and the channels change by the actions of PeerConn only, so   *)
(* the invariant about them is shown action by action there (the lemmas    *)
(* on PInv); the actions of Discovery then refer to those.                 *)
(***************************************************************************)
EXTENDS Discovery, TLAPS

\* a channel that was never used is in no entry and in no handshake
Unused ==
    \A c \in Chans :
        /\ link[c] = "none" => shake[c] = "none" /\ \A n \in Nodes : c \notin channels[n]
        /\ link[c] # "none" => target[c] \in Nodes

\* an actor that holds a dead channel is on record
HeldKnown == \A c \in Chans : shake[c] = "held" /\ Dead(c) => c \in late

PInv ==
    /\ PeerTypeOK
    /\ Unused
    /\ HeldKnown
    /\ DeadLeaveUnlessRaced
    /\ LiveStayRegistered

LEMMA PInitHolds == PeerInit => PInv
  BY DEF PeerInit, PInv, PeerTypeOK, Unused, HeldKnown, DeadLeaveUnlessRaced,
         LiveStayRegistered, Dead, LinkState, ShakeState

LEMMA PStutter == PInv /\ UNCHANGED peerVars => PInv'
  BY DEF PInv, peerVars, PeerTypeOK, Unused, HeldKnown, DeadLeaveUnlessRaced,
         LiveStayRegistered, Dead, LinkState, ShakeState

LEMMA ConnectKeeps ==
    ASSUME PInv, NEW c \in Chans, NEW n \in Nodes, Connect(c, n), UNCHANGED nodes
    PROVE  PInv'
<1> USE DEF PInv, Connect
<1>1. PeerTypeOK'  BY DEF PeerTypeOK, LinkState
<1>2. Unused'  BY DEF PeerTypeOK, Unused
<1>3. HeldKnown'  BY DEF PeerTypeOK, HeldKnown, Dead
<1>4. DeadLeaveUnlessRaced'  BY DEF PeerTypeOK, DeadLeaveUnlessRaced, Dead
<1>5. LiveStayRegistered'  BY DEF PeerTypeOK, LiveStayRegistered, Unused
<1> QED  BY <1>1, <1>2, <1>3, <1>4, <1>5

LEMMA AcceptKeeps ==
    ASSUME PInv, NEW c \in Chans, NEW n \in Nodes, Accept(c, n)
    PROVE  PInv'
<1> USE DEF PInv, Accept
<1>1. PeerTypeOK'  BY DEF PeerTypeOK, LinkState, ShakeState
<1>2. Unused'  BY DEF PeerTypeOK, Unused
<1>3. HeldKnown'  BY DEF PeerTypeOK, HeldKnown, Dead
<1>4. DeadLeaveUnlessRaced'  BY DEF PeerTypeOK, DeadLeaveUnlessRaced, Dead
<1>5. LiveStayRegistered'  BY DEF PeerTypeOK, LiveStayRegistered, Unused
<1> QED  BY <1>1, <1>2, <1>3, <1>4, <1>5

LEMMA ConnectSucceedsKeeps ==
    ASSUME PInv, NEW c \in Chans, ConnectSucceeds(c)
    PROVE  PInv'
<1> USE DEF PInv, ConnectSucceeds
<1>1. PeerTypeOK'  BY DEF PeerTypeOK, LinkState, ShakeState
<1>2. Unused'  BY DEF PeerTypeOK, Unused
<1>3. HeldKnown'  BY DEF PeerTypeOK, HeldKnown, Dead
<1>4. DeadLeaveUnlessRaced'  BY DEF PeerTypeOK, DeadLeaveUnlessRaced, Dead
<1>5. LiveStayRegistered'  BY DEF PeerTypeOK, LiveStayRegistered, Unused
<1> QED  BY <1>1, <1>2, <1>3, <1>4, <1>5

LEMMA CloseKeeps ==
    ASSUME PInv, NEW c \in Chans, CloseInLoop(c)
    PROVE  PInv'
<1> USE DEF PInv, CloseInLoop, RemoveNodeChannel
<1>1. PeerTypeOK'  BY DEF PeerTypeOK, LinkState
<1>2. Unused'  BY DEF PeerTypeOK, Unused
<1>3. HeldKnown'  BY DEF PeerTypeOK, HeldKnown, Dead
<1>4. DeadLeaveUnlessRaced'  BY DEF PeerTypeOK, DeadLeaveUnlessRaced, Dead
<1>5. LiveStayRegistered'
  <2> SUFFICES ASSUME NEW d \in Chans
               PROVE  /\ link'[d] = "up" /\ shake'[d] = "done" /\ d \notin unheard'
                           => d \in channels'[target'[d]]
                      /\ \A n \in Nodes : d \in channels'[n] => target'[d] = n /\ n \in nodes'
    BY DEF LiveStayRegistered
  <2>1. CASE d = c  BY <2>1 DEF PeerTypeOK, LiveStayRegistered
  <2>2. CASE d # c  BY <2>2 DEF PeerTypeOK, LiveStayRegistered, Unused
  <2> QED  BY <2>1, <2>2
<1> QED  BY <1>1, <1>2, <1>3, <1>4, <1>5

LEMMA ReleaseKeeps ==
    ASSUME PInv, NEW c \in Chans, Release(c)
    PROVE  PInv'
<1> USE DEF PInv, Release
<1>1. PeerTypeOK'  BY DEF PeerTypeOK, LinkState
<1>2. Unused'  BY DEF PeerTypeOK, Unused
<1>3. HeldKnown'  BY DEF PeerTypeOK, HeldKnown, Dead
<1>4. DeadLeaveUnlessRaced'  BY DEF PeerTypeOK, DeadLeaveUnlessRaced, Dead
<1>5. LiveStayRegistered'  BY DEF PeerTypeOK, LiveStayRegistered
<1> QED  BY <1>1, <1>2, <1>3, <1>4, <1>5

LEMMA ShakeKeeps ==
    ASSUME PInv, NEW c \in Chans,
           ShakeArrives(c) \/ ShakeSavesNode(c) \/ ShakeLooksUp(c, "queued")
             \/ ShakeLooksUp(c, "named")
    PROVE  PInv'
<1> USE DEF PInv, ShakeArrives, ShakeSavesNode, ShakeLooksUp, SaveNode
<1>1. PeerTypeOK'  BY DEF PeerTypeOK, ShakeState, Unused
<1>2. Unused'  BY DEF PeerTypeOK, Unused
<1>3. HeldKnown'  BY DEF PeerTypeOK, HeldKnown, Dead, Live
<1>4. DeadLeaveUnlessRaced'  BY DEF PeerTypeOK, DeadLeaveUnlessRaced, Dead
<1>5. LiveStayRegistered'  BY DEF PeerTypeOK, LiveStayRegistered, Live
<1> QED  BY <1>1, <1>2, <1>3, <1>4, <1>5

LEMMA SaveKeeps ==
    ASSUME PInv, NEW c \in Chans, ShakeSaves(c)
    PROVE  PInv'
<1> USE DEF PInv, ShakeSaves, SaveNodeChannel
<1>1. PeerTypeOK'  BY DEF PeerTypeOK, ShakeState
<1>2. Unused'  BY DEF PeerTypeOK, Unused
<1>3. HeldKnown'  BY DEF PeerTypeOK, HeldKnown, Dead
<1>4. DeadLeaveUnlessRaced'  BY DEF PeerTypeOK, DeadLeaveUnlessRaced, HeldKnown, Dead
<1>5. LiveStayRegistered'  BY DEF PeerTypeOK, LiveStayRegistered, Unused
<1> QED  BY <1>1, <1>2, <1>3, <1>4, <1>5

LEMMA SaveNodeKeeps ==
    ASSUME PInv, NEW n \in Nodes, SaveNode(n),
           UNCHANGED <<link, target, shake, late, unheard>>
    PROVE  PInv'
  BY DEF PInv, SaveNode, PeerTypeOK, Unused, HeldKnown, DeadLeaveUnlessRaced,
         LiveStayRegistered, Dead, LinkState, ShakeState

-----------------------------------------------------------------------------
(* The rest of the types *)

RestOK ==
    /\ role \in Roles
    /\ keys \subseteq Nodes
    /\ events \in Seq(Event)
    /\ peer \in [Nodes -> PeerState]
    /\ registered \subseteq Nodes
    /\ boots \in [Nodes -> Nat]
    /\ faults \in [Nodes -> Nat]
    /\ watch \in {"off", "on", "ended"}
    /\ missed \subseteq Nodes
    /\ init \in {"start", "watching", "listed"}
    /\ todo \subseteq Nodes
    /\ doing \in [Finders -> Nodes \cup {NoNode}]

IInv == PInv /\ RestOK

LEMMA NewChanFresh == Fresh # {} => NewChan \in Chans
  BY DEF NewChan, Fresh

LEMMA TellTyped ==
    ASSUME RestOK, NEW n \in Nodes, NEW kind \in {"put", "delete"}, Tell(kind, n)
    PROVE  /\ events' \in Seq(Event)
           /\ missed' \subseteq Nodes
           /\ UNCHANGED watch
<1>1. [kind |-> kind, node |-> n] \in Event  BY DEF Event
<1> HIDE DEF Event
<1>2. Append(events, [kind |-> kind, node |-> n]) \in Seq(Event)  BY <1>1 DEF RestOK
<1> QED  BY <1>2 DEF RestOK, Tell

LEMMA WatchEndsTyped ==
    ASSUME RestOK, NEW n \in Nodes, WatchEnds(n)
    PROVE  /\ events' \in Seq(Event)
           /\ missed' \subseteq Nodes
           /\ watch' \in {"off", "on", "ended"}
<1>1. PutsComing \subseteq Nodes
  <2>1. events \in Seq(Event)  BY DEF RestOK
  <2>2. \A i \in DOMAIN events : events[i] \in Event  BY <2>1
  <2>3. \A e \in Event : e.node \in Nodes  BY DEF Event
  <2>4. \A i \in DOMAIN events : events[i].node \in Nodes  BY <2>2, <2>3
  <2> QED  BY <2>4 DEF PutsComing
<1> QED  BY <1>1 DEF RestOK, WatchEnds

LEMMA EtcdKeeps == IInv /\ EtcdNext => IInv'
<1> SUFFICES ASSUME IInv, NEW n \in Nodes,
                    \/ Register(n) \/ RegisterFails(n) \/ Listen(n) \/ Crash(n)
                    \/ LeaseExpires(n) \/ MonitorRenews(n) \/ MonitorMistakes(n)
                    \/ WatchEnds(n)
             PROVE  IInv'
  BY DEF EtcdNext
<1>1. UNCHANGED peerVars
  BY DEF Register, RegisterFails, Boot, Listen, Crash, LeaseExpires, MonitorRenews,
         MonitorMistakes, WatchEnds
<1>2. PInv'  BY <1>1, PStutter DEF IInv
<1>3. events' \in Seq(Event) /\ missed' \subseteq Nodes /\ watch' \in {"off", "on", "ended"}
  BY TellTyped, WatchEndsTyped DEF IInv, RestOK, Register, RegisterFails, Boot, Listen, Crash,
     LeaseExpires, MonitorRenews, MonitorMistakes, KeepAlive, newsVars
<1>4. keys' \subseteq Nodes /\ registered' \subseteq Nodes
  BY DEF IInv, RestOK, Register, RegisterFails, Boot, Listen, Crash, LeaseExpires,
     MonitorRenews, MonitorMistakes, WatchEnds, KeepAlive
<1>5. boots' \in [Nodes -> Nat]
  <2>1. boots \in [Nodes -> Nat]  BY DEF IInv, RestOK
  <2>2. boots' = [boots EXCEPT ![n] = @ + 1] \/ UNCHANGED boots
    BY DEF Register, RegisterFails, Boot, Listen, Crash, LeaseExpires, MonitorRenews,
       MonitorMistakes, WatchEnds
  <2> QED  BY <2>1, <2>2
<1>6. faults' \in [Nodes -> Nat]
  <2>1. Fault(n) \/ UNCHANGED faults
    BY DEF Register, RegisterFails, Boot, Listen, Crash, LeaseExpires, MonitorRenews,
       MonitorMistakes, WatchEnds
  <2> QED  BY <2>1 DEF IInv, RestOK, Fault
<1>7. peer' \in [Nodes -> PeerState]
  BY DEF IInv, RestOK, Register, RegisterFails, Boot, Listen, Crash, LeaseExpires,
     MonitorRenews, MonitorMistakes, WatchEnds, PeerState
<1>8. UNCHANGED <<role, init, todo, doing>>
  BY DEF Register, RegisterFails, Boot, Listen, Crash, LeaseExpires, MonitorRenews,
     MonitorMistakes, WatchEnds, initVars
<1>9. RestOK'  BY <1>3, <1>4, <1>5, <1>6, <1>7, <1>8 DEF IInv, RestOK
<1> QED  BY <1>2, <1>9 DEF IInv

LEMMA TakesKeeps ==
    ASSUME IInv, NEW f \in Finders, NEW n \in Nodes, Takes(f, n)
    PROVE  PInv' /\ doing' \in [Finders -> Nodes \cup {NoNode}]
<1>1. PInv'
  <2>1. CASE role = "gateway" /\ Fresh # {}
    BY <2>1, NewChanFresh, ConnectKeeps DEF Takes, IInv
  <2>2. CASE ~(role = "gateway" /\ Fresh # {})
    BY <2>2, PStutter DEF Takes, IInv
  <2> QED  BY <2>1, <2>2
<1> QED  BY <1>1 DEF Takes, IInv, RestOK

LEMMA FinderKeeps == IInv /\ (MainNext \/ WatcherNext) => IInv'
<1> SUFFICES ASSUME IInv, MainNext \/ WatcherNext  PROVE IInv'
  OBVIOUS
<1>1. CASE Watch \/ List
  <2>1. UNCHANGED peerVars  BY <1>1 DEF Watch, List, Lists
  <2>2. PInv'  BY <2>1, PStutter DEF IInv
  <2>3. RestOK'  BY <1>1 DEF IInv, RestOK, Watch, List, Lists, etcdVars
  <2> QED  BY <2>2, <2>3 DEF IInv
<1>2. ASSUME NEW n \in Nodes, ListMisses(n)  PROVE IInv'
  <2>1. PInv'  BY <1>2, PStutter DEF IInv, ListMisses, Lists
  <2>2. RestOK'  BY <1>2 DEF IInv, RestOK, ListMisses, Lists, Fault
  <2> QED  BY <2>1, <2>2 DEF IInv
<1>3. ASSUME NEW n \in Nodes, MainTakes(n)  PROVE IInv'
  <2>1. PInv' /\ doing' \in [Finders -> Nodes \cup {NoNode}]
    BY <1>3, TakesKeeps DEF MainTakes, Finders
  <2> QED  BY <1>3, <2>1 DEF IInv, RestOK, MainTakes, etcdVars, newsVars
<1>4. CASE WatcherTakes
  <2>1. Head(events) \in Event /\ Tail(events) \in Seq(Event)
    BY <1>4 DEF IInv, RestOK, WatcherTakes
  <2>2. PInv' /\ doing' \in [Finders -> Nodes \cup {NoNode}]
    BY <1>4, <2>1, TakesKeeps DEF WatcherTakes, Finders, Event
  <2> QED  BY <1>4, <2>1, <2>2 DEF IInv, RestOK, WatcherTakes, etcdVars
<1>5. CASE WatcherIgnores \/ WatcherPasses
  <2>1. PInv'  BY <1>5, PStutter DEF IInv, WatcherIgnores, WatcherPasses
  <2>2. Head(events).node \in Nodes /\ Tail(events) \in Seq(Event)
    <3>1. events \in Seq(Event) /\ events # <<>>
      BY <1>5 DEF IInv, RestOK, WatcherIgnores, WatcherPasses
    <3>2. Head(events) \in Event /\ Tail(events) \in Seq(Event)  BY <3>1
    <3>3. \A e \in Event : e.node \in Nodes  BY DEF Event
    <3> QED  BY <3>2, <3>3
  <2>3. CASE WatcherIgnores
    BY <2>1, <2>2, <2>3 DEF IInv, RestOK, WatcherIgnores, etcdVars, initVars
  <2>4. CASE WatcherPasses
    <3>1. faults' \in [Nodes -> Nat]  BY <2>2, <2>4 DEF IInv, RestOK, WatcherPasses, Fault
    <3> QED  BY <2>1, <2>2, <2>4, <3>1 DEF IInv, RestOK, WatcherPasses, initVars
  <2> QED  BY <1>5, <2>3, <2>4
<1>6. ASSUME NEW f \in Finders, Saves(f)  PROVE IInv'
  <2>1. doing[f] \in Nodes  BY <1>6 DEF Saves, IInv, RestOK
  <2>2. PInv'  BY <1>6, <2>1, SaveNodeKeeps DEF Saves, IInv
  <2>3. RestOK'  BY <1>6 DEF Saves, IInv, RestOK, etcdVars, newsVars
  <2> QED  BY <2>2, <2>3 DEF IInv
<1> QED  BY <1>1, <1>2, <1>3, <1>4, <1>5, <1>6 DEF MainNext, WatcherNext, Finders

LEMMA LinkKeeps == IInv /\ LinkNext => IInv'
<1> SUFFICES ASSUME IInv, LinkNext  PROVE IInv'
  OBVIOUS
<1>1. RestOK'
  BY DEF IInv, RestOK, LinkNext, Accepts, Connected, Shakes, NamesPeer, LooksUp, Registers,
         Closes, etcdVars, newsVars, initVars
<1>2. PInv'
  <2>1. ASSUME NEW n \in Nodes, Accepts(n)  PROVE PInv'
    BY <2>1, NewChanFresh, AcceptKeeps DEF Accepts, IInv
  <2>2. ASSUME NEW c \in Chans, Connected(c)  PROVE PInv'
    BY <2>2, ConnectSucceedsKeeps DEF Connected, IInv
  <2>3. ASSUME NEW c \in Chans, Shakes(c) \/ NamesPeer(c) \/ LooksUp(c)  PROVE PInv'
    BY <2>3, ShakeKeeps DEF Shakes, NamesPeer, LooksUp, IInv
  <2>4. ASSUME NEW c \in Chans, Registers(c)  PROVE PInv'
    BY <2>4, SaveKeeps DEF Registers, IInv
  <2>5. ASSUME NEW c \in Chans, Closes(c)  PROVE PInv'
    BY <2>5, CloseKeeps, ReleaseKeeps DEF Closes, IInv
  <2> QED  BY <2>1, <2>2, <2>3, <2>4, <2>5 DEF LinkNext
<1> QED  BY <1>1, <1>2 DEF IInv

THEOREM Inductive == Spec => []IInv
<1>1. Init => IInv
  BY PInitHolds DEF Init, IInv, RestOK, PeerState
<1>2. IInv /\ [Next]_vars => IInv'
  <2>1. IInv /\ UNCHANGED vars => IInv'
    BY PStutter DEF IInv, RestOK, vars, etcdVars, newsVars, initVars
  <2> QED  BY <2>1, EtcdKeeps, FinderKeeps, LinkKeeps DEF Next
<1> QED  BY <1>1, <1>2, PTL DEF Spec

(***************************************************************************)
(* The table, the channels, etcd's events and the finders keep their types *)
(* through every handshake, fault and restart (PeerConn.cpp:12-14).        *)
(***************************************************************************)
THEOREM TypeCorrect == Spec => []TypeOK
<1>1. IInv => TypeOK  BY DEF IInv, PInv, RestOK, TypeOK
<1> QED  BY <1>1, Inductive, PTL

(***************************************************************************)
(* However handshakes and closes interleave, a dead channel is in the      *)
(* table only if saveNodeChannel asked for it before its loop let it go    *)
(* and stored it after removeNodeChannel (PeerConn.cpp:84-92).             *)
(***************************************************************************)
THEOREM DeadChannelsLeave == Spec => []DeadLeaveUnlessRaced
<1>1. IInv => DeadLeaveUnlessRaced  BY DEF IInv, PInv
<1> QED  BY <1>1, Inductive, PTL

(***************************************************************************)
(* A live channel stays under the node it belongs to from its handshake    *)
(* on, unless that came before the node was saved (PeerConn.cpp:16-42).    *)
(***************************************************************************)
THEOREM LiveChannelsStay == Spec => []LiveStayRegistered
<1>1. IInv => LiveStayRegistered  BY DEF IInv, PInv
<1> QED  BY <1>1, Inductive, PTL
=============================================================================
