# Verification of athana_conan

TLA+ models of this repository's own logic, the TLC configurations that check
them on small instances, and TLAPS proofs for every value of the constants.
Lines are given as `path:line` of the repository; `tla/PROJECT.json` maps every
definition to the lines it models.

Contents

1. The system
2. Inventory: components, state, operations, what is hard, what must hold
3. The modules and how they correspond to the code
4. What is checked: runs, bounds, fairness
5. What is proved, and how
6. Findings
7. What is not modelled
8. What could come next

## 1. The system

The repository is a C++20 game server framework on libuv and three server
processes built on it (gateway, game, router), with a test client.

    client --CLIENT frames--> gateway --INNER frames--> game
                                 |                        |
                                 +------> router <--------+      etcd: who is where

Every process has the same shape. A **boss** loop (`ServerEventLoop`) accepts
connections and passes the sockets through a pipe to **worker** loops
(`EventLoop`, one thread each). A **TcpClient** owns more loops for outbound
connections. A loop thread reads bytes into a channel's receive ring, cuts them
into frames and calls the business code (`NetInterface`) on the spot, which
usually posts a closure to an **actor** (a thread with a mailbox). Actors answer
by posting closures to loops. Processes find each other through etcd and keep
the connections in a table (`PeerConn`).

Three kinds of shared state carry everything: closures in concurrent queues (FIFO
for each producer, with no order between producers), the atomic flags of
channels and loops, and tables under a mutex.

## 2. Inventory

**Reactor: event loop and channel lifetime** (`transport/EventLoop`, `Channel`,
`TcpClient`, `core/common/TQueue`).
State: the registry `channels_`, the queue `_waitTasks`, four asyncs, `stopping_`,
`asyncs_inited_`, the ipc pipe; per channel `closed_`, the tcp handle, the
heartbeat timer, the write in flight.
Operations: start, run, stop, join; asyncConnect, adoptConnection, connectIpc;
`Channel::close` and `sendMsg` from any thread; the libuv callbacks.
Hard: three parties close the same channel (business thread, loop callback, stop
sequence); a check of a flag followed by a use; the order of close callbacks;
tasks pushed while the loop stops.
Correct when: one teardown per channel, no callback on freed memory, no lost
close or wake-up, stop ends the thread with everything released.

**Byte ring** (`core/common/RingByteBuf`). State: cells and two atomic indices.
Operations: tryWrite, read, peek, the linear windows and the two advances, clear.
Hard: producer and consumer interleaved, wrap-around, full against empty.
Correct when: it is a bounded queue of bytes.

**Framed byte stream** (`Channel::eventLoopWrite`, `doUvSend`, `onRead`,
`peekNextPackLen`, `EventLoop::uv_alloc_cb`, `uv_read_cb`). State: two rings, the
write in flight, the kernels' bytes. Hard: frames split and merged at any byte,
writes that fail at once or late, closes in mid-frame, lengths at the bounds, a
peer that speaks the other header. Correct when: the frames accepted are
delivered whole, once and in order, and nothing waits for ever.

**Server start-up and boss loop** (`AthenaTcpServer`, `ServerEventLoop`). State:
counters of ready workers, the listen result, pipe servers, the round robin.
Operations: start, waitWorkersReady, startListen, waitListeningOk, accept and
hand-off, stop. Hard: time-outs that race late answers, failure half-way.
Correct when: start returns true only if every worker has its pipe and the socket
listens; a failed start leaves nothing running; no accepted socket is lost.

**Idle detection** (`IdleStateHandler`). Two thresholds and the time of the last
read or write; its effect is a close on the loop thread.

**Message dispatch** (`Dispatcher`, `Decoder`, `Encoder`). A table filled before
start, read by many threads afterwards.

**Actors** (`core/actor`). State: `_isRun`, the mailbox, the thread; the system's
map of actors under a mutex. Operations: spawn, execute by id or by pointer,
stopAll. Hard: execute against stopAll, pointers that stopAll deletes, tasks that
post while their actor is being stopped. Correct when: every accepted task is run
before its actor ends, a deleted actor is never touched, and stopAll returns.

**Peer registry** (`athena-discovery/discovery/PeerConn`). State: nodes by id and
type, channels by node, under one mutex. Operations: saveNode, saveNodeChannel,
removeNodeChannel, sendMsg by type. Hard: the handshake runs on an actor and the
disconnect on the loop thread, and saveNodeChannel asks the loop for the channel
before it takes the mutex. Correct when: a dead channel leaves the table, a live one
stays in it under its own node.

**Discovery** (`AthenaEtcdClient`, the three `discovery/Discovery.cpp`). State:
keys with leases in etcd, registrations and keepers, the monitor, the watch.
Operations: registerServer, keepAlive, monitorLoop, initWithConf, onWatchKeyChange.
Hard: a lease lost while others list and watch, a key put twice, processes that end
and leave their key behind. Correct when: every peer that is registered and runs
gets known.

**Gateway sessions** (`PlayerOnlineService`, `PlayerLoginHandler`,
`GatewayServerNetWorkHandler`, `GateClientNetWorkHandler`). State: the online
table under a mutex, pooled players, `userData` of channels. Hard: login on an
actor against disconnect on the loop thread, a second login of the same player,
pointers used outside the lock. Correct when: the table has exactly the players
whose channel is live, once all steps have run.

**Game sessions** (`LoginService`, `PlayerMgr`, `PlayerLoginHandler`), **player
modules** (`Module`, `RoleModule`). State: players by id in a map without a lock, each
with a channel and a module that has its record and a dirty flag. Operations:
onPlayerLogin, onPlayerDisconnect, loadDataFromDB, saveDataToDB. Hard: actors side by
side in the map and in one Player, a disconnect of an earlier session after the login
of a later one, a database call that fails. Correct when: no stored record is
lost, the answered login is attached to the Player everybody finds, and what a
disconnect ends is stored.

**Router** (`RouteMgr`). State: player to service. **Database pool**
(`DBThreadPool`). State: task queue, threads. **Object pool** (`ObjectPool`).
State: the free list, leases. **Id generator** (`Snowflake`). State: last
millisecond and sequence under a mutex; hard: a clock that is set back, a sequence
used up, a restart. **Timer and heap** (`Timer`, `Heap`). State: an indexed
heap; no other file uses it.

Pure I/O and wiring (`dal`, the `main.cpp` files), utilities, the serialisation
generator, and vendored or generated code (`3rd`, `code-gen`, `llhttp`,
`engine-lua`) have no protocol of their own.

PROJECT.json lists what is hard to test in each, at the line where it bites.

## 3. The modules

| module | models | role |
|---|---|---|
| `EventLoop` | one reactor thread, its channels, the threads that use them | detailed |
| `MCEventLoop` | sets and symmetry for the runs of `EventLoop` | instance |
| `EventLoopProofs` | theorems about `EventLoop` | proofs |
| `ByteQueue` | a bounded byte queue | abstract |
| `RingByteBuf` | the byte ring, access by access; implements `ByteQueue` | detailed |
| `RingByteBufProofs` | theorems about `RingByteBuf` | proofs |
| `FramePipe` | whole frames, once, in order | abstract |
| `FramedStream` | one direction of a connection; implements `FramePipe` | detailed |
| `FramedStreamProofs` | theorems about `FramedStream` | proofs |
| `MCFramedStream` | messages and links for the run of `FramedStream` | instance |
| `PlayerOnline` | the gateway's online table, its pooled players, the channels behind them | detailed |
| `MCPlayerOnline` | players, connections and logins for the runs of `PlayerOnline` | instance |
| `PlayerOnlineProofs` | theorems about `PlayerOnline` | proofs |
| `ActorSystem` | actors, their mailboxes, the threads and tasks that post, stopAll | detailed |
| `MCActorSystem` | actors and threads for the run of `ActorSystem` | instance |
| `ActorSystemProofs` | theorems about `ActorSystem` | proofs |
| `PeerConn` | the table of peers, and the life and handshake of each channel to one | component |
| `Discovery` | etcd, the peers, the server that lists and watches; composed with `PeerConn` | detailed |
| `MCDiscovery` | peers and channels for the run of `Discovery` | instance |
| `DiscoveryProofs` | theorems about `Discovery` and its `PeerConn` | proofs |
| `GameSessions` | logins and disconnects at the game, the shared map, the stored records | detailed |
| `MCGameSessions` | players and logins for the runs of `GameSessions` | instance |
| `GameSessionsProofs` | theorems about `GameSessions` | proofs |
| `ServerStartup` | start and stop of a server: boss, workers, waits, hand-off | detailed |
| `Snowflake` | the id generator, its clock, restarts | detailed |
| `MCServerProcess` | one run for `RingByteBuf`, `ServerStartup` and `Snowflake` | instance |
| `ServerProcessProofs` | theorems about `ServerStartup`, `Snowflake` and the three in one process | proofs |

### EventLoop

*State.* Per channel: `closed` (`Channel::closed_`), `tcp` and `timer` (the two
handles as libuv sees them), `writing`, `notified` (calls of `on_closed`), and
membership of `registry` (`channels_`, whose `shared_ptr` keeps the channel
alive). Per loop: `tasks` (one FIFO for each producer, as moodycamel's queue
behind `TQueue` gives), `wake` and `stopSig` (a pending `uv_async_send`),
`stopping`, `asyncs`, `ipc`, and `lpc`, the place of the loop thread. Per thread:
`tpc`, `op`, `ops`. `faults` collects undefined behaviour that was reached.

*Granularity.* A callback on the loop thread is one step; it touches shared
state through one atomic flag, and what it pushes only the loop thread can pop. A
business thread takes a step for each shared access, so `Channel::close` is
exchange (`CloseBegins`), lookup (`CloseLooksUp`), push (`Push`), check
(`WakeChecks`), send (`WakeSends`), and all else can run between them.
`onStopTriggered` is the steps `StopTriggered`, `StopCloses`, `StopDrains`, the
tasks its drain runs, and `DrainEnds`, since pushes of other threads fall between
its snapshot, its drain and its `uv_close` of the asyncs.

*Undefined behaviour.* Closing a handle never initialised, closing one twice and
sending to a closed async are recorded in `faults`; after that the process may
abort or carry on, and both are explored.

*libuv.* `Alive` is the loop-alive test that decides when `uv_run` returns.
A handle's close callback comes in a later turn, a pending write is cancelled
before it, and the tcp and timer callbacks come in either order.

*One loop is enough.* Loops share nothing but the boss pipe and the queue they
are posted to, and each channel belongs to one loop for life. The boss appears
as what it sends: sockets (`Adopt`) and the end of the pipe (`IpcEof`).

*An assumption about the caller.* `AthenaTcpServer::stop` is reached after
`waitWorkersReady`, so `StopBegins` waits until the task of `connectIpc` has run.
The time-out of that wait, and the stop after it, are in `ServerStartup`.

### RingByteBuf and ByteQueue

The producer and the consumer are two processes. An operation loads the other
side's index once, copies byte by byte, and stores its own index last:
`TryWrite`/`LinearWritablePtr`, `WriteByte`, `StoreTail` on one side,
`BeginRead`/`LinearReadablePtr`, `ReadByte`, `StoreHead` on the other. The source
pairs acquire loads with release stores, so an interleaving of whole accesses is
the program's behaviour. A byte is its position in the stream, which makes any
loss, repetition or overwriting visible. `clear`, which its comment restricts to
a quiet buffer, runs between operations only. `IsByteQueue` maps the cells from
`head` to `tail` to the abstract queue.

### FramedStream and FramePipe

Sender and receiver are two loops with two kernels between. Each ring is used by
its own loop thread only, so it is a sequence here together with the cell of its
first byte, which decides where the linear windows end (`RingByteBuf` justifies
the sequence). A frame is one byte per header field and a body. `EventLoopWrite`
appends a frame whole or `WriteDrops` it; `DoUvSend` sends the linear window, and
may fail at once; `WriteDone` moves on and sends the next window. `KernelTakes`
and `Read` split the stream anywhere. `ParseFrame`, `ParseIllegal` and `ParseEnds`
are the turns of the loop in `uv_read_cb`, so a close by another thread can fall
between two frames of one read.

`link` is fixed by `Init`: the header length of either end (`ProtoMode` INNER has
four fields, CLIENT three) and the size of the receive ring. Bytes that are not
those of a frame decode to `Torn`. A header is recognised by its length
field and its magic; that body bytes equal the magic by accident is left out.

### PlayerOnline

*State.* `table` is `onlinePlayer`, `userData` the pointer on each channel, `free` the
free list of the `ObjectPool` of players, and `holds` the session each object was
last constructed for, which stands for its fields pid, sid and channel: a login
request names the uid it is for and the connection it came by, and `Snowflake`
gives it a sid of its own. `mailbox` is what the actor of a channel has yet to run.
`asking` and `leaving` are the two handlers that have given up the mutex and not yet
sent their message to the game; `asked`, `told` and `answers` are those messages.
`found` is the pointer `onInnerLoginRes` holds after `findPlayer`. `link` follows the
channel to its release, so that raw pointers to it can be seen to dangle.

*Granularity.* What runs under the mutex is one step: `CreatePlayer`,
`RemovePlayerByChannel`, `FindPlayer`. A handler that goes on after the unlock has
a step for the rest. `onClosed` runs on the loop thread (`Closed`,
`DisconnectSends`), `onLoginReq` on the actor of the channel (`LoginCreates`,
`LoginSends`), `onInnerLoginRes` on the actor of the uid (`FindPlayer`,
`ReplyToClient`). Every channel and every uid has an actor of its own; with fewer
actors some of these interleavings do not occur. `Freed` follows the contract of
`Channel.h`: the registry lets go after `on_closed`, and a closure keeps its channel
while it waits or runs.

*Abstractions.* A message to the game is lost when no game is connected
(`PeerConn::sendMsg` finds nobody) or arrives. The pool hands out any free object,
where the code takes the last; which one it is makes no difference to a property.
The objects are interchangeable (`ObjSymmetry`), and no property or guard tells
them apart. `faults` records a use of a player that was recycled since it was
found, and of a channel that was freed; the run goes on, as the process may.

### ActorSystem

*State.* `registered` is `_actors`, `mutex` its holder, `isRun` and `mailbox` an actor's
flag and queue. `apc` follows an actor from `spawn` to `delete` and says whether its
thread is in the loop of `run`, in the drain after it, or past it; `busy` has the
actors with a task under way. `ppc` and `target` are the place of a producer in
`execute` and the actor it posts to. `dead` is the snapshot of `stopAll` and `stopping`
the actor it joins.

*Granularity.* One step is one access to shared data: the mutex, the lookup, the
test of `_isRun`, the enqueue. `spawn` is one step: the mutex covers what it does,
and nobody has the actor before it returns. `_isRun` is read relaxed, and the model
lets every read see the last write: the exchange in `stop` comes after the mutex
that the posters held, and x86 keeps that order for the actor's thread.

*Who posts.* A task may post, so actors are producers while they are busy. The
servers post by pointer (`GateActor::execute`, and its twins in game and router), which
takes no mutex: `Unlocked` are those threads. They are loop threads of servers and
clients that `main` declares as locals, so their destructors join them before the
static `ActorSystem` goes: `StopAllTakes` waits for them. `ActorSystem.h:111` tells a
program to call `stopAll` itself before it exits; no `main` of the three servers does,
and the one call is in `~ActorSystem`. A program that followed that comment while
its loops run would not be covered. The test client posts by id; those threads
may go on during `stopAll`, and the model lets them.

*Abstractions.* A mailbox is the number of its tasks: what it promises here is
that none stays, and their order is left out. A task that
throws ends like one that returns.

### PeerConn and Discovery

*State.* `nodes` and `channels` are the table of `PeerConn`. The two indexes of nodes
always hold the same nodes, since `saveNode` enters both under one lock and
`removeNode` has no caller: one set stands for both. The channels of a node are a set.
`link`, `target` and `shake` follow one channel from its connection over its handshake
to its release. `keys` and `events` are etcd and the changes the watcher has not been told
yet; `peer` and `registered` are the other processes and what their
`AthenaEtcdClient` has in `registrations`; `init`, `todo` and `doing` are the place of
the main thread in `initWithConf` and of the watcher's thread in
`onWatchKeyChange`. `watch` is the stream behind the one `Watcher` of `watchKeys`: not
there yet, on, or ended. `late`, `unheard` and `missed` are histories for the
properties.

*Granularity.* One critical section of `PeerConn` is one step. `saveNodeChannel` asks
the loop for the channel before it locks, so it is `LooksUp` and `Registers`, with
room for `Closes` (`on_closed` and `removeNodeChannel`) in between.
`onShakHandReq` has `NamesPeer` before them. A gateway connects and then saves the node,
so `Takes` and `Saves` are two steps.

*Roles.* `role` picks the server whose table it is. A gateway watches, lists and
connects; a game lists and accepts; a router accepts only, and its behaviours are
those of a game that has not listed yet.

*Faults.* A peer may fail to register (`RegisterFails`, which nobody retries), end and
leave its key (`Crash`), lose its lease while it runs (`LeaseExpires`), put back its
key (`MonitorRenews`), or put a key that was there, after an error answer
(`MonitorMistakes`). And etcd may fail this server: it restarts, with or without its
keys, or the connection is cut, and the stream of the watch ends with all it had yet to
tell (`WatchEnds`); a response to the watch is an error, which the callback passes over
(`WatcherPasses`, `AthenaEtcdClient.cpp:69`); the value of a listed key cannot be read,
and the node is left out of the list (`ListMisses`, `:158-163`). Each of these counts as
a fault of the node it concerns, and puts the node in `missed` if a put of it was lost
to this server. Nothing makes the watch again (`:62-79`), so `watch` stays "ended". A
library that connects again by itself would give the behaviours without `WatchEnds`.

### GameSessions

*State.* `mail` is what the actor of each connection has to handle: messages of one
connection keep their order, and those of two do not. `step` and `cur` are the place of
that actor in its handler and the Player it works on. `table` is `PlayerMgr::players`;
`channel`, `data` and `dirty` are the fields of a Player. A Player is named by the login
that made it, as no login makes two. `stored` is the database.

*The map without a lock.* `getPlayer` and `addPlayer` of several actors meet in one
`std::unordered_map`. While another actor is in the insert of a new key, a look-up may miss
any entry (`Found`); once two have been in the map at once, one of them to write, an
insert may lose entries (`Inserts`, by the history `raced`). A crash inside the map is
left out.

*Data.* Nothing changes a record in memory, so all that matters is whose it is: the one
that was stored, or one that `fromDO(nullptr)` made. `find_one` says of a failed read
what it says of a missing record (`LoadFails`); `replace_one` may fail, and nobody looks
(`SaveFails`). `LeaveTests` and `LogsOut` are the two calls of `getChannel` in
`onPlayerDisconnect`; a login of the same player whose own channel is released already
sets the channel of the Player to null, and in between that crashes the process
(`crashed`).

### ServerStartup

*State.* `main` is the place in `AthenaTcpServer::start` or `stop`; `boss` and `worker`
the threads; `pipe` and `session` the two ends the boss has of each ipc pipe and `ipc`
the worker's; `ready`, `server`, `listenOk`, `next` the fields of `ServerEventLoop`;
`client` the way of each connection from the backlog to a worker.

*Time-outs.* `WaitReady` and `WaitListening` may return at any moment, with the answer
there or not, which covers every length of the two waits. A wait that timed out goes on
to `stop` while the sessions, or the task of `startListen`, are on their way.

*The late task.* `onStopTriggered` closes the listener, the pipes and the sessions, and
its `execute()` then runs what is queued (`EventLoop.cpp:326`). A pass over the asyncs
serves the tasks' before that of stop, so as a rule `BossStops` finds the task of
`startListen` done. But a boss thread that is suspended between two asyncs of one pass
for all of the two seconds of `waitListeningOk` comes to it in that `execute()`, after
the test of `listening_`: `BossStopsLate`, with or without a listener in the end. A
listener stays open then, `uv_run` does not return, and a connection that it accepts
is handed to a session that was freed (`AcceptsLate`).

*Workers that do not end.* A worker's `onStopTriggered` is `EventLoop`'s, and finding 1 is
about it: with an adopted connection that another thread is closing, the thread may stay
in `uv_run`. `WorkerStops` ends in "stuck" or "ended" there, and `join` waits for ever.

*Failures.* Each is one of at most `Faults`: `initAsynEvent` of the boss or of a worker, the
bind or listen of a pipe, the accept on a pipe, the bind or listen of the port, and
`uv_write2`, at once (`HandoffFails`) or in its callback (`HandoffErrs`). A `uv_accept` of a client that fails has the effect of
`HandoffFails`, the connection is gone, and is counted there. A pipe that cannot be bound
leaves those after it zeroed, and the boss that stops itself then closes them
(`crashed`; section 6).

### Snowflake

`nextId` holds its mutex throughout, so one call is at work at a time: at its first look
at the clock, waiting for a clock that was set back (`behind`), or for the next
millisecond (`full`). The clock may tick or be set back between any two looks. `Restart`
forgets `lastTimestamp_` and `sequence_`. An id is its time and its sequence; the worker
id is the same in all of them.

### MCServerProcess

The ring, the start-up and the generator share nothing, so one run checks all three:
`part` is chosen at the start and a behaviour follows that part alone. The
union costs the sum of their states, not the product.

## 4. What is checked

| run | shows | distinct states |
|---|---|---|
| `live` | safety of the reactor; a close completes; stop ends, or was raced | 250,193 |
| `close_vs_stop` | finding 1 (violation) | |
| `connect_fails` | finding 2 (violation) | |
| `stream` | the stream is a pipe of frames; liveness; foreign peers | 515,206 |
| `online` | table, userData and pool agree, under all interleavings (finding 6) | 2.4 M |
| `player_recycled` | finding 3 (violation) | |
| `player_offline` | finding 4 (violation) | |
| `actors` | accepted tasks run, no deleted actor is touched, stopAll returns | 0.46 M |
| `peers` | dead channels leave the table, live ones stay, peers get known | 1,597,275 |
| `game` | records survive, logins attach, ended sessions are stored | 3.26 M |
| `game_overwrites` | finding 5 (violation) | |
| `process` | start and stop of a server; ids are unique; the ring is a byte queue | 324,131 |

**Reactor.** `TeardownOnce`: for each channel, one `closeInLoop` is owed exactly
when `closed_` is set and `on_closed` has not run. `LookupSucceeds`: the thread
whose exchange won never takes the early return that would lose the close.
`CallbackTargetLive`: whatever libuv may still call back finds its channel
registered. `NoLostWakeup`: while the loop sleeps on work, a wake-up is pending, or
its sender is on the way, or stop is. `ExitReleasesAll`: a thread that ended
left no adopted connection behind. `CloseCompletes` and `StopEndsUnlessRaced` are the
liveness side; the latter names in `Stranded` the only way for stop to hang, which
finding 1 exhibits.

*Bounds.* One connection of each origin, because the steps of different channels
meet only in the queue and the registry; two threads that close, one of which also sends
and connects, so that two close the same channel while tasks are on their way to the
loop; `Budget` 1 operation for each thread, so every operation meets every other one and
the stop sequence. Symmetry is not used, as it is unsound for liveness. The safety
properties hold for every number of connections, threads and operations: section 5.

*Fairness.* The loop thread keeps running its ready callbacks; the kernel answers a
connect and completes or fails a write; a thread finishes an operation it began.
Nobody is made to begin an operation, to send data, to drop a connection or to call
stop. After stop, the boss closes its end of the pipe: `AthenaTcpServer::stop`
stops it first. libuv scans its handles in turn, so weak fairness for each
callback is what it gives.

**Stream.** Four messages with bodies of 0, 2, 1 and 3 bytes and `MaxPacket` 5: with
three header fields they have lengths 3, 5 (the largest legal one), 4 and 6 (refused
by the sender); with four, all lengths move up by one. Rings have eight cells, so
two frames wrap them and three do not fit. Four links: ends that agree; a receive
ring of four cells; INNER to CLIENT; CLIENT to INNER. Every message is sent once,
in any order. `RefusesRightly` says that the receiver closes for the right reason only:
a header that is not legal comes from a peer of the other protocol, whose frames never
reach `on_read`, and the ring is full only where a frame sent, or not even the header
expected, can fit in it. `StreamConserved` accounts for every byte
in the two rings, the write in flight and the kernels, and says that a write is in
flight whenever there are bytes to send, without which the stream would stall.
`AcceptedDelivered` assumes that kernels pass bytes on while both ends live and that
both loops run. It asks for ends of one protocol: a CLIENT peer that sends one frame
without a body to an INNER link and then stays silent has sent fewer bytes than an
INNER header, and the receiver waits. `OtherProtocolDropped` says it is dropped with
its next bytes.

**Online table.** Two players, two connections and four logins: two on the first
connection for the first player; on the second connection one for each player. So
the run has a relogin on the same connection, a takeover from the other one, and a
connection that asks for two players, in any order, with a disconnect at any moment
in between. A free list of one object is full after one return, and three objects
are the most these logins can need at a time. `PoolExclusive` says that no object has
two users. `UserDataFresh` says that `userData` never dangles, which needs the
unlinking in `createPlayer` as much as the one in `removePlayerByChannel`.
`EntryReachable` is the converse, without which a session could never be taken out
again; `EndedSessionsLeave` says what is left in the table after a disconnect. Both
except a connection that logged in for two players, for which the code keeps no
second pointer, and the latter a login that ran after the disconnect (finding 4).
The two violation runs need only two logins of one player.

**Actors.** Two actors, so that the tasks of one post to the other while `stopAll` is
between them; a thread that posts by id and may overlap `stopAll`, and one that posts
by pointer; two calls of `execute` each, so that a mailbox has several tasks.
`TargetLives` is what the comment at `ActorSystem.h:63` says the mutex is for;
`FoundAccepts` adds that a task is not refused after the lookup; `AcceptedIsRun` says
that the window between `isRunning` and the enqueue (`Actor.h:52`) loses no task.
`StopAllEnds` needs every thread to keep running and a thread that waits for the mutex
to get it in the end. Weak fairness gives it: the calls are finitely many, so
nobody is passed over for ever. That a drain ends does not hang on the bound:
during a drain, posts to the stopped actors are refused.

**Peers.** Two peers and two channels: two connections to one node, one to each, a
node that is saved while the channel of the other shakes hands. Each peer starts once
and one of them may have one fault, so the list of `initWithConf` and the watch each
see a key put, deleted and put again. The channels are the limit on connections:
when they are used up, `asyncConnect` gives up as it does when it has no memory.
`DeadLeaveUnlessRaced` says that the window of `saveNodeChannel` before its lock is the
only way a dead channel stays; `LiveStayRegistered` says that news of a node, and closes of
other channels, never take a live one out, and that the order of connect and save in
the gateway is the only way one is missed. `PeersGetKnown` says that a registered peer
that runs on becomes known, whatever falls between the list and the watch, unless an
error took one of its puts (`missed`); a registration that failed promises nothing. It
needs the main thread and the watcher's to run on and a monitor to reach etcd in the end
(`FairSpec`). Connections, handshakes, starts, crashes, expiries and errors are free to
happen or not.

**Game.** Two logins of one player and one of another, over two connections, in every
assignment, two disconnects of either, a release of each connection at any moment and
one database call that fails; every choice of players that have a record already. So two
logins of one player overlap, a disconnect overtakes a login, a login finds the Player
of an earlier one, and the two actors meet in the map with the same key and with
different ones. `DataLostOnlyAfterError` has no exception for races: whatever the map
loses, a record that was read is written back as it was. `SessionsAttached` and
`EndedSessionsSaved` name the mishaps they except in `doubled` and `raced`.

**Process.** *Start-up:* two workers, so that a session may be missing while the other
is up; three connections, so that the round robin wraps; two failures, so that a
failed start is followed by another failure on the way down. `StartedIsReady` is what
`start` promises with `true`; `NoneDropped` is the comment at `ServerEventLoop.cpp:110`
against the black-hole port; `ServerStartAndStopEnd` says that `start` and `stop`
return, with all threads ended, but for three cases it names: handles that were never
initialised (`crashed`), a worker that finding 1 keeps in its loop, and a listener opened
by the late task (`Hangs`). Fairness: the main thread, the boss and each worker run on, a wait returns (it has
a time-out), and the kernel connects a pipe whose server listens. Nobody has to
connect to the port or to call `stop`.
*Ids:* a sequence of two values and five milliseconds, two set-backs and one restart: the
sequence runs out with the clock behind, at the same time and ahead.
*Ring:* four cells and nine bytes, more than two laps, so each index wraps twice
and the ring fills with the indices in every position. `ReaderSeesStream` says that
the cells granted to a consumer hold the stream, `WriterKeepsOff` that no cell
granted to a producer holds an unread byte, `IsByteQueue` that the ring implements the
bounded queue.

CHECK_DEADLOCK is off in all runs, since all these systems may stop: a loop that
ended, a ring with all its bytes written, a connection closed at both ends, a
gateway whose clients have left, actors without tasks, peers that have ended, a game
with no message left or that crashed, a server that is down.

Every property of a passing run has a mutant of the code in PROJECT.json that
breaks it. The mutants stand next to the definitions they change.

## 5. What is proved

Every invariant and both refinements that a passing run checks are theorems here, for
every value of the constants. What only TLC checks is named at the end.

`EventLoopProofs`, from `LoopAssumption` alone (the sets of connections are
disjoint, the loop and the main thread are not business threads), for any number
of connections and threads, any budget, with and without timers:

- `TypeCorrect`, `OneTeardown`, `CallbacksFindChannel`, `NoCloseLost`: the type
  invariant, `TeardownOnce`, `CallbackTargetLive`, `LookupSucceeds`;
- `NoWakeupLost`: `NoLostWakeup`;
- `ExitIsClean`: `ExitReleasesAll`, where `HasTrigger` holds.

The first four follow from one inductive invariant

    IInv == TypeOK /\ TeardownOnce /\ ConnectOnce /\ SendKnown /\ HandlesAgree /\ OpsAgree

`TeardownOnce` is not inductive alone. That a close task finds live handles needs
`HandlesAgree` (how `tcp`, `timer`, `notified`, `writing` and the registry go
together); that a connect task finds a fresh channel needs `ConnectOnce`; that a
write starts only on a channel with handles needs `SendKnown`; and that a thread
pushes the task its exchange earned needs `OpsAgree`. All are facts about queues,
so the proof starts with lemmas on sequences (`PushIn`, `PopIn`), lifts them to
the family of queues and to the threads that carry a task (`CarryOwed`,
`PushOwed`, `PopOwed`), and then has one lemma for each group of actions.
`NoLostWakeup` uses `IInv` and the fact `QuietStart` that no task is queued
before the loop has its asyncs.

`ExitIsClean` adds two invariants to `IInv`: an adopted connection has its heartbeat
timer (`Timed`), so that a registered one always has a handle that is open or has its
close callback to come, and `uv_run` does not return (`TimedKeepsAlive`); and no adopted
connection is registered before `uv_run` or after it (`Emptied`). The hypothesis
`HasTrigger` is needed: without an `EventTrigger` the timers are never initialised, and
TLC finds a loop that ends with a connection still registered. Every server that a
`main.cpp` of the repository starts has one, from `setChannelIdleTime`
(`AthenaTcpServer.cpp:111-115`).

`RingByteBufProofs`, from `CapAssumption` (at least two cells) and `LimitAssumption`,
for any capacity and any number of bytes:

- `ReadsInOrder`, `NoOverrun`: `ReaderSeesStream`, `WriterKeepsOff`; and
  `IndicesAgree`, that the indices agree with the bytes written and consumed
  (`IndicesCount`), which has no run of its own;
- `RingIsByteQueue`: `IsByteQueue`, that the ring implements `ByteQueue`.

The invariant adds `Contents` (the unread cells hold the next bytes of the stream,
and the cells the producer has filled but not published continue it) and `Grants` (what
an operation in progress was allowed stays allowed while the other side moves). Under it
the unread cells are the stream from `consumed` to `written` (`RingView`). So the store
of `tail_` is `ByteQueue`'s `Put` of a whole write, the store of `head_` and `clear` are its
`Get` of a prefix, and the loads and the copying of single bytes are stutters
(`RingStepIsQueueStep`).

`PlayerOnlineProofs`, from `OnlineAssumption` (every login names a player and a
connection; `NoObj` and `NoLogin` are no object and no login), for any number of
players, connections, logins and objects, and any bound of the free list:

- `TypeCorrect`, `PoolIsExclusive`, `UserDataIsFresh`, `EntriesAreReachable`,
  `SessionsEnd`: all the invariants of the run `online`.

They follow from one inductive invariant. Its core, `DataInv`, relates the table, the
`userData`, the objects and the free list: what is in the table is constructed,
has the pid it is filed under and is not free (`TableInv`); what is free was
constructed once (`FreeInv`), so that a new object is never one in use;
`userData` points into the table and back (`UserDataInv`); and the table points to
`userData` (`ReachInv`). `PoolExclusive` alone is not inductive: that an entry is
there once comes from its pid. `CreateKeeps` and `RemoveKeeps` show that the two
operations under the mutex keep `DataInv`; `MailInv` says that a login waits in the
mailbox of its own connection, which `LoginCreates` needs; all other actions leave
this data alone (`OthersKeep`).

`ActorSystemProofs`, from `SystemAssumption` (threads, actors and the main thread are
different, the posters by pointer are threads), for any number of actors and
threads and any budget:

- `TypeCorrect`, `TargetsLive`, `FoundActorsAccept`, `AcceptedTasksRun`: all the
  invariants of the run `actors`.

The invariant says who holds the mutex (`MutexHeld`), that whoever tests or posts to
an actor has it in the table (`TargetRegistered`), and that an actor in the table is
in its loop with `_isRun` set (`Lifecycle`). The one delicate step is `StopAllTakes`
(`TakeKeeps`): the mutex is free and the posters by pointer have ended
(`TableEmptied`), so nobody is between the lookup and the enqueue.

`DiscoveryProofs`, from `PeerAssumption` (`NoNode` is no node), for any number of peers,
channels, starts and faults, and both roles:

- `TypeCorrect`, `DeadChannelsLeave`, `LiveChannelsStay`: the three invariants of the
  run `peers`.

The table and the channels change by the actions of `PeerConn` only. So the proof has one
lemma for each of these, which keeps `PInv`, and the actions of `Discovery` refer
to them. `PInv` adds that a channel never used is in no entry and has a target once used
(`Unused`), which a fresh channel needs to be reused safely, and that an actor which
holds a channel across its `on_closed` is on record (`HeldKnown`).

`GameSessionsProofs`, from `GameAssumption` (every login is for a player; logins,
players and `NoPlayer` differ), for any number of players, logins, connections,
disconnects and failures:

- `TypeCorrect`, `RecordsSurvive`, from the invariant `DInv`;
- `SessionsStayAttached`, `EndedSessionsAreSaved`, from `SInv` on top of it.

`DInv` says that an actor at work has its message at the head and a Player of the right
player (`WorkOK`), that the table files every Player under its own pid (`TableOK`),
and that a Player of a readable record holds it (`DataOK`). `SInv` needs more: that a
login is in one mailbox, once (`MailOK`), so that a Player is made once and only by its
own login (`MadeOK`); that what is in the table is loaded and dirty (`ReadyOK`), so
that a save saves; and `AloneOK`, the heart of it: without a race, a login that is alone
with its player works with the Player of the table or will be the one to put it there.

`ServerProcessProofs`, from `StartAssumption` (at least one worker), for any number of
workers, connections and failures:

- `StartTypeCorrect`, `StartedServersAreReady`, `AcceptedAreHandedOn`: the types,
  `StartedIsReady`, `NoneDropped`.

`StartInv` counts: `ready` is the number of workers that have had a session
(`Counted`), so that `ready >= N` means all of them have (the one step that needs
finite-set theory: a subset of `1..N` with `N` elements is all of it), and the task of
`startListen` comes after that (`AllReady`). `Stops` and `Links` say that sessions
and pipes are lost only once stop has begun; `Handed` that a connection is written
to a worker with a session.

From `SnowflakeAssumption` (the mask is a natural number), for any clock and any number
of set-backs and restarts:

- `IdTypeCorrect`, `IdsAreUnique`: the types, `IdsUnique`.

`IssuedBehind` says where the ids of this run lie: before `lastTimestamp_`, or in its
millisecond and not above `sequence_`, unless the sequence is used up and `nextId` waits
for the next. `GivesPreserves` has what a caller must show to give out a new id, and each
way to give one out shows it.

And of `MCServerProcess`, which puts these two and the ring in one process, from the
assumptions of all three:

- `ProcessTypes`, `ProcessIsSafe`: `ProcessTypeOK`, and every other invariant of the run
  `process` and `IsByteQueue` under `ProcessSpec`, since a step of the process is a step of
  one part and leaves the others alone (`PartsApart`).

`FramedStreamProofs`, from `StreamAssumption` (bodies have a length, headers are 3 or 4
bytes, rings have at least two cells), for any set of messages and lengths, any sizes of
the two rings, any `MaxPacket` and any mixture of the two protocols:

- `StreamTypes`, `NothingLost`, `RefusalsAreRight`: all the invariants of the run `stream`;
- `StreamIsFramePipe`: `IsFramePipe`, that the stream implements `FramePipe`.

They follow from one inductive invariant

    StreamInv == TypeOK /\ OneWrite /\ Ordered /\ Sized /\ Conserved /\ Parsed /\ RefusesRightly

`StreamConserved` alone is not inductive: it speaks of open channels, and the bytes that
a sender has left behind after its close are parsed all the same. `Conserved` says that
while the receiver is open, something completes what it was given, has and will get to
the bytes of the frames accepted; while the sender is open, that something is the
rest of its ring. `Ordered` says that the frames delivered are the first ones accepted.
Together they give `FirstFrame`: a ring that is not empty starts with the next
frame, byte for byte as far as it reaches. From this `OneProtocol` and `TwoProtocols`
decide whether a header is legal, the second with a case of its own: an INNER receiver
whose fourth byte is already the first of the next CLIENT frame. `Parsed`, that parsing
goes on until nothing complete is left, is what makes a full ring mean a frame or header
that cannot fit (`FullRing`), and `OneWrite` is what makes the bytes a write sends the
first of the ring until its callback.

The bytes of a sequence of frames are a fold of the community modules (`FlattenSeq`),
which the model uses as it is. What a fold computes takes induction: `NatInd` states
it of a set of naturals instead of an operator, and rests on `LeastNat`, which has it
from the well-foundedness of strict inclusion on finite sets in the library. `\o` and
prefixes are used through `Cat` and `Take`, which the proofs keep opaque but for their
laws.

Only model-checked: all liveness (`CloseCompletes`, `StopEndsUnlessRaced`,
`AcceptedDelivered`, `OtherProtocolDropped`, `StopAllEnds`, `PeersGetKnown`,
`ServerStartAndStopEnd`), which needs fairness and `ENABLED` and is out of the prover's
reach, and the properties that the findings refute.

## 6. Findings

1. *close or asyncConnect against stop* (`close_vs_stop`, `EventLoop.cpp:326`). A
   thread that has won the exchange in `Channel::close` but not pushed yet makes
   `onStopTriggered` skip the channel; its task then arrives after the last drain,
   the wake-up is dropped because of `stopping_`, the handle stays active, `uv_run`
   does not return and `join()` hangs. An `asyncConnect` whose task runs in that
   last drain has the same effect: its channel is not in the snapshot. EventLoop.h
   says that the loop ends by itself. `StopEndsUnlessRaced` shows that there
   is no other way to hang.
2. *A connection that never came up* (`connect_fails`, `Channel.cpp:189`).
   `closeInLoop` closes a heartbeat timer that only a successful connection
   initialises.
3. *A player used after it was recycled* (`player_recycled`,
   `PlayerLoginHandler.cpp:20`). `findPlayer` returns a raw pointer after the unlock;
   a disconnect, or a login of the same uid on another actor, recycles the object
   before `setValid` and `getChannel` run on it. The answer then goes to another
   player's connection, or the flag is set on another session.
4. *A login that runs after its disconnect* (`player_offline`,
   `GatewayServerNetWorkHandler.cpp:68`). `on_closed` finds no player, the actor then
   creates one: it stays in the table for as long as nobody logs in for that uid,
   the game is never told to save it, and its channel pointer dangles. The next
   login of the uid writes through it (`PlayerOnlineService.cpp:64`).
5. *A record that cannot be read is replaced* (`game_overwrites`, `Module.h:40`).
   `loadDataFromDB` calls the `find_one` that gives an optional and so cannot tell a
   missing record from an error; the login goes on with a record made from nothing,
   `onLogin` marks it dirty, and the next disconnect stores it over the old one.
   `MongodbDAO.hpp:30-31` warns of exactly this. `DataLostOnlyAfterError` shows
   that logins and disconnects have no other way to lose a record. (The test lines of
   `game/src/main.cpp:142-147` write record 99999 at every start; they are not in the
   model.)
6. *Comments that call `userData` dangling* (`online`, `PlayerOnlineService.h:27`). That
   line, `GatewayServerNetWorkHandler.cpp:81` and `PlayerOnlineService.cpp:103` say that
   `userData` points to a recycled Player after a kick, so that a disconnect must not go
   by it. The code clears it when it kicks a session (`PlayerOnlineService.cpp:60-65`) and
   does go by it (`:96-97`). `UserDataFresh` holds through every relogin of the run: the
   pointer never dangles, and the branch of lines 105-109 for one that does is never
   taken. The code is right and the comments are out of date.

Remarks without a run:

- `EventLoop.h:150`: the check of the flags in `wakeAsync` and the `uv_async_send` are two
  steps, and the async can be closed between them, which the comment above wants to
  keep out. The model reaches it (`WakeSends`, `faults`).
- `EventLoop.h:111` tells callers of `connectIpc` to call it before start. A task
  posted then would have no wake-up to run it, as `wakeAsync` drops it before the asyncs
  exist and `doRun` does not drain first. The one caller (`AthenaTcpServer.cpp:40`) calls
  it after start, and the model follows the caller; `NoLostWakeup` rests on that.
- `ServerEventLoop.cpp:250`: a pipe server that fails leaves those after it zeroed, and
  `onStopTriggered` closes all of them. The comment at lines 51-52 of that file
  expects an orderly stop here, which `uv_close` of a handle that was never initialised
  does not promise. The model stops there (`crashed`), and `ServerStartAndStopEnd`
  excepts it.
- `LoginService.cpp:52`: the channel of a Player is tested and then fetched again for the
  log. The Player holds a `shared_ptr`, so a release alone does no harm; but a login of
  the same player on another actor, whose channel the registry has released by then, sets
  it to null (line 15, `channelPtr`), and the log goes through it (`LogsOut`).
- `AthenaEtcdClient.cpp:134` registers again after a restart of etcd. The watch is made
  once (`:62-79`), and its callback drops what is not ok: after such a restart a gateway
  hears of no new peer if the stream does not survive it (`WatchEnds`).
- `ServerEventLoop.cpp:246-261`: the task of `startListen`, if it is still queued, runs in
  the `execute()` that follows the closing of the listener, and opens one that nobody
  closes (`BossStopsLate`). It takes a boss thread suspended for two seconds at one place.

## 7. What is not modelled

In the modelled components: failure to allocate the scratch buffer and failure of
serialisation (both drop one message); the ring's move operations and the
rounding of its capacity; the values of time-outs; channel ids; the player id of
the INNER header, which is cut to 32 bits; the round robin of `TcpClient`.

In `PlayerOnline`: heartbeats, which only read whether `userData` is set;
`removePlayer`, which has no caller; the forwarding of unregistered messages; the
pool's debug mode, statistics and allocation failures. `userData` is read by
heartbeats without the mutex; that race has no effect beyond an unanswered
heartbeat and is left out.

In `ActorSystem`: `find` and `count`, a `spawn` after `stopAll`, the order of tasks in a
mailbox, and an exception that is not a `std::exception`, which ends the process. The
actors of `DBThreadPool` are not in the system: their pool starts and stops them and
posts by pointer, so `AcceptedIsRun` does not speak of them.

In `PeerConn` and `Discovery`: the look-ups, which change nothing; the values of keys
and several watched prefixes; a list of keys that fails as a whole, which throws out of
main; a keeper that is replaced without being cancelled; a response with several events,
which is several here. etcd itself is a set of keys and a stream of changes in order,
with the faults section 3 names.

In `GameSessions`: heartbeats; sids, which the code never compares; the fields of a
record; the test lines of `game/src/main.cpp:142-147`; a crash inside the unordered map.
In `ServerStartup`: a `start` whose port was never set, which returns at once.

Other components:

- *Router*: `RouteMgr::bindPlayer` has no caller, so its table never changes, and
  forwarding is a look-up in `PeerConn`.
- *Message dispatch*: a table filled before start. Its results are the handlers of
  `PlayerOnline` and `GameSessions`.
- *Database thread pool*: only `engine-lua` calls it, and no server starts that.
- *Timer and heap*, several utilities: no caller in the repository.
- *Idle detection*: two comparisons of clock readings by one thread; every outcome is
  in `EventLoop!CallbackCloses`.
- *Database access, entry points, test client, logging, configuration*: I/O and wiring.
- *Vendored and generated code* (`llhttp`, `http_parser`, `concurrentqueue`, `3rd`,
  `code-gen` and the like): some 60,000 of the 74,000 lines counted as
  implementation. They are not this project's logic, and the map leaves them out. This
  is why the share of mapped lines is small although the protocols of the
  repository's own code are in the models.

## 8. What could come next

- `PlayerOnline` and `GameSessions` composed over the messages between gateway and
  game, with the property that both have the same sessions when all steps have run. The
  two meet in messages that either side may lose, and finding 4 already says that they
  do not agree after every history: the property would have to except it.
- `DBThreadPool` and the timer heap, when they get a caller.
