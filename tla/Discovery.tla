----------------------------- MODULE Discovery ------------------------------
(***************************************************************************)
(* How a server finds its peers: the peers keep a key in etcd for as long  *)
(* as they run (AthenaEtcdClient), the server lists and watches the keys   *)
(* and feeds its PeerConn (the three Discovery.cpp), and a handshake ties  *)
(* every connection to a service id (SystemMsgHandler).                    *)
(*                                                                         *)
(* role is the server whose table this is.  A gateway watches and connects; *)
(* a game lists nodes without connecting, and accepts; a router only       *)
(* accepts, as a game does that never comes to list.                       *)
(***************************************************************************)
EXTENDS PeerConn, Sequences

CONSTANTS
    Boots,   \* Boots[n]: how often n may be started
    Faults   \* Faults[n]: how often n may end, fail to register or lose its lease
             \*   while it runs, or etcd fail this server in what concerns n

VARIABLES
    role,        \* the server this is
    keys,        \* the keys in etcd
    events,      \* what etcd has yet to tell the watcher, oldest first
    peer,        \* peer[n]: where the process n is in its main
    registered,  \* the peers whose client has an entry in registrations
    boots,       \* boots[n]: starts of n so far
    faults,      \* faults[n]: the failures of these kinds so far
    init,        \* where main is in Discovery::initWithConf
    watch,       \* the stream on which etcd tells the watcher of changes
    missed,      \* history: the nodes some put of which an error kept from this server
    todo,        \* the nodes of the list main has yet to go through
    doing        \* the node a thread has connected to and not saved yet

etcdVars == <<keys, peer, registered, boots, faults>>
newsVars == <<events, watch, missed>>
initVars == <<init, todo, doing>>
vars == <<peerVars, role, etcdVars, newsVars, initVars>>

Roles == {"gateway", "game"}
PeerState == {"down", "booting", "listening"}
Event == [kind : {"put", "delete"}, node : Nodes]
Finders == {"main", "watcher"}

Running(n) == peer[n] # "down"

TypeOK ==
    /\ PeerTypeOK
    /\ role \in Roles
    /\ keys \subseteq Nodes
    /\ events \in Seq(Event)
    /\ peer \in [Nodes -> PeerState]
    /\ registered \subseteq Nodes
    /\ boots \in [Nodes -> Nat]
    /\ faults \in [Nodes -> Nat]
    /\ watch \in {"off", "on", "ended"}
    /\ missed \subseteq Nodes
    /\ init \in {"start", "watching", "listed"}
    /\ todo \subseteq Nodes
    /\ doing \in [Finders -> Nodes \cup {NoNode}]

Init ==
    /\ PeerInit
    /\ role \in Roles
    /\ keys = {}
    /\ events = <<>>
    /\ peer = [n \in Nodes |-> "down"]
    /\ registered = {}
    /\ boots = [n \in Nodes |-> 0]
    /\ faults = [n \in Nodes |-> 0]
    /\ watch = "off"
    /\ missed = {}
    /\ init = "start"
    /\ todo = {}
    /\ doing = [f \in Finders |-> NoNode]

-----------------------------------------------------------------------------
(* etcd and the processes that register *)

\* the watcher of a gateway hears of a change as long as its stream lasts
Tell(kind, n) ==
    /\ events' = IF role = "gateway" /\ watch = "on"
                 THEN Append(events, [kind |-> kind, node |-> n])
                 ELSE events
    /\ missed' = IF kind = "put" /\ watch = "ended" THEN missed \cup {n} ELSE missed
    /\ UNCHANGED watch

\* Mutant of KeepAlive: a key that was registered before is left alone.
KeepAliveOnce(n) ==
    /\ keys' = IF n \in registered THEN keys ELSE keys \cup {n}
    /\ IF n \in registered THEN UNCHANGED newsVars ELSE Tell("put", n)
    /\ registered' = registered \cup {n}

\* keepAlive succeeds: a lease, the key bound to it, an entry for the monitor
KeepAlive(n) ==
    /\ keys' = keys \cup {n}
    /\ Tell("put", n)
    /\ registered' = registered \cup {n}

Fault(n) ==
    /\ faults[n] < Faults[n]
    /\ faults' = [faults EXCEPT ![n] = @ + 1]

\* a process starts: registerServer comes before the databases and the tcp server
Boot(n) ==
    /\ peer[n] = "down"
    /\ boots[n] < Boots[n]
    /\ peer' = [peer EXCEPT ![n] = "booting"]
    /\ boots' = [boots EXCEPT ![n] = @ + 1]
    /\ UNCHANGED <<peerVars, role, initVars>>

Register(n) ==
    /\ Boot(n)
    /\ KeepAlive(n)
    /\ UNCHANGED faults

\* no lease or no key: nothing is remembered, and main goes on
RegisterFails(n) ==
    /\ Boot(n)
    /\ Fault(n)
    /\ UNCHANGED <<keys, registered, newsVars>>

Listen(n) ==
    /\ peer[n] = "booting"
    /\ peer' = [peer EXCEPT ![n] = "listening"]
    /\ UNCHANGED <<peerVars, role, keys, registered, boots, faults, newsVars, initVars>>

\* the process ends; its key stays until the lease runs out
Crash(n) ==
    /\ Running(n)
    /\ Fault(n)
    /\ peer' = [peer EXCEPT ![n] = "down"]
    /\ registered' = registered \ {n}
    /\ UNCHANGED <<peerVars, role, keys, boots, newsVars, initVars>>

\* a lease runs out: of a process that ended, or cut off from etcd for a while
LeaseExpires(n) ==
    /\ n \in keys
    /\ IF n \in registered THEN Fault(n) ELSE UNCHANGED faults
    /\ keys' = keys \ {n}
    /\ Tell("delete", n)
    /\ UNCHANGED <<peerVars, role, peer, registered, boots, initVars>>

\* monitorLoop misses its key and registers again
MonitorRenews(n) ==
    /\ n \in registered
    /\ n \notin keys
    /\ KeepAlive(n)
    /\ UNCHANGED <<peerVars, role, peer, boots, faults, initVars>>

\* monitorLoop gets an error for a key that is there, and registers again
MonitorMistakes(n) ==
    /\ n \in registered
    /\ n \in keys
    /\ Fault(n)
    /\ KeepAlive(n)
    /\ UNCHANGED <<peerVars, role, peer, boots, initVars>>

\* the nodes of the puts that are yet to be told
PutsComing == {events[i].node : i \in {j \in DOMAIN events : events[j].kind = "put"}}

\* etcd restarts, with or without the key of n, or the stream is cut: watchKeys made
\* the watcher, and nobody renews it
WatchEnds(n) ==
    /\ role = "gateway"
    /\ watch = "on"
    /\ Fault(n)
    /\ watch' = "ended"
    /\ missed' = missed \cup PutsComing
    /\ events' = <<>>
    /\ keys' \in {keys, keys \ {n}}
    /\ UNCHANGED <<peerVars, role, peer, registered, boots, initVars>>

-----------------------------------------------------------------------------
(* This server: initWithConf on the main thread, onWatchKeyChange on the   *)
(* watcher's                                                               *)

\* the watch is set up before the list is read
Watch ==
    /\ init = "start"
    /\ init' = "watching"
    /\ watch' = "on"
    /\ UNCHANGED <<peerVars, role, etcdVars, events, missed, todo, doing>>

Lists(found) ==
    /\ init = "watching"
    /\ init' = "listed"
    /\ todo' = found
    /\ UNCHANGED <<peerVars, role, keys, peer, registered, boots, events, watch, doing>>

List ==
    /\ Lists(keys)
    /\ UNCHANGED <<faults, missed>>

\* every value of the list is read by a call of its own; one that fails is left out
ListMisses(n) ==
    /\ n \in keys
    /\ Lists(keys \ {n})
    /\ Fault(n)
    /\ missed' = missed \cup {n}

Fresh == {c \in Chans : link[c] = "none"}
NewChan == CHOOSE c \in Fresh : TRUE

\* a gateway connects to the node and saves it afterwards; a game only saves.
\* A connection for which no channel is left is one that asyncConnect gives up
Takes(f, n) ==
    /\ doing[f] = NoNode
    /\ doing' = [doing EXCEPT ![f] = n]
    /\ IF role = "gateway" /\ Fresh # {}
       THEN Connect(NewChan, n) /\ UNCHANGED nodes
       ELSE UNCHANGED peerVars

MainTakes(n) ==
    /\ n \in todo
    /\ todo' = todo \ {n}
    /\ Takes("main", n)
    /\ UNCHANGED <<role, etcdVars, newsVars, init>>

WatcherTakes ==
    /\ events # <<>>
    /\ Head(events).kind = "put"
    /\ events' = Tail(events)
    /\ Takes("watcher", Head(events).node)
    /\ UNCHANGED <<role, etcdVars, watch, missed, init, todo>>

\* a deleted key changes nothing
WatcherIgnores ==
    /\ events # <<>>
    /\ Head(events).kind = "delete"
    /\ doing["watcher"] = NoNode
    /\ events' = Tail(events)
    /\ UNCHANGED <<peerVars, role, etcdVars, watch, missed, initVars>>

\* the callback of watchKeys passes over a response that is an error
WatcherPasses ==
    /\ events # <<>>
    /\ Head(events).kind = "put"
    /\ doing["watcher"] = NoNode
    /\ Fault(Head(events).node)
    /\ events' = Tail(events)
    /\ missed' = missed \cup {Head(events).node}
    /\ UNCHANGED <<peerVars, role, keys, peer, registered, boots, watch, initVars>>

Saves(f) ==
    /\ doing[f] # NoNode
    /\ SaveNode(doing[f])
    /\ doing' = [doing EXCEPT ![f] = NoNode]
    /\ UNCHANGED <<link, target, shake, late, unheard, role, etcdVars, newsVars, init, todo>>

-----------------------------------------------------------------------------
(* Connections *)

Connected(c) ==
    /\ link[c] = "connecting"
    /\ peer[target[c]] = "listening"
    /\ ConnectSucceeds(c)
    /\ UNCHANGED <<role, etcdVars, newsVars, initVars>>

Accepts(n) ==
    /\ role # "gateway"
    /\ peer[n] = "listening"
    /\ Fresh # {}
    /\ Accept(NewChan, n)
    /\ UNCHANGED <<role, etcdVars, newsVars, initVars>>

\* a gateway gets the answer to its request, the others the request itself
Shakes(c) ==
    /\ shake[c] = "asked"
    /\ Running(target[c])
    /\ ShakeArrives(c)
    /\ UNCHANGED <<role, etcdVars, newsVars, initVars>>

NamesPeer(c) ==
    /\ role # "gateway"
    /\ ShakeSavesNode(c)
    /\ UNCHANGED <<role, etcdVars, newsVars, initVars>>

\* onShakHandReq goes on from the node it saved, onShakHandResponse starts here
LooksUp(c) ==
    /\ ShakeLooksUp(c, IF role = "gateway" THEN "queued" ELSE "named")
    /\ UNCHANGED <<role, etcdVars, newsVars, initVars>>

Registers(c) ==
    /\ ShakeSaves(c)
    /\ UNCHANGED <<role, etcdVars, newsVars, initVars>>

Closes(c) ==
    /\ CloseInLoop(c) \/ Release(c)
    /\ UNCHANGED <<role, etcdVars, newsVars, initVars>>

-----------------------------------------------------------------------------
EtcdNext ==
    \E n \in Nodes :
        \/ Register(n) \/ RegisterFails(n) \/ Listen(n) \/ Crash(n)
        \/ LeaseExpires(n) \/ MonitorRenews(n) \/ MonitorMistakes(n) \/ WatchEnds(n)

MainNext ==
    \/ Watch \/ List \/ Saves("main")
    \/ \E n \in Nodes : ListMisses(n) \/ MainTakes(n)

WatcherNext == WatcherTakes \/ WatcherIgnores \/ WatcherPasses \/ Saves("watcher")

LinkNext ==
    \/ \E n \in Nodes : Accepts(n)
    \/ \E c \in Chans : Connected(c) \/ Shakes(c) \/ NamesPeer(c) \/ LooksUp(c)
                           \/ Registers(c) \/ Closes(c)

Next == EtcdNext \/ MainNext \/ WatcherNext \/ LinkNext

Spec == Init /\ [][Next]_vars

\* the two threads of this server run on, and a monitor gets through to etcd in the end
FairSpec ==
    /\ Spec
    /\ WF_vars(MainNext)
    /\ WF_vars(WatcherNext)
    /\ \A n \in Nodes : WF_vars(MonitorRenews(n))

-----------------------------------------------------------------------------
(***************************************************************************)
(* A gateway comes to know every peer that has registered and keeps        *)
(* running, whenever it registered and whatever leases it lost: nothing    *)
(* falls between the list and the watch (gateway Discovery.cpp:35-47), and *)
(* a lost key is put back (AthenaEtcdClient.cpp:134).  A peer stays        *)
(* unknown only if an error took one of its puts: a response that is not   *)
(* ok (:69), a value that could not be read (:160), or a watch that ended, *)
(* which is never renewed (:62-79).                                        *)
(***************************************************************************)
PeersGetKnown ==
    \A n \in Nodes :
        role = "gateway" /\ n \in registered ~> n \in nodes \/ n \notin registered \/ n \in missed
=============================================================================
