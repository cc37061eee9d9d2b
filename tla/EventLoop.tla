------------------------------ MODULE EventLoop ------------------------------
(***************************************************************************)
(* One reactor of transport/: an EventLoop thread, the channels it owns,    *)
(* and the business threads that post work to it and close its channels.   *)
(*                                                                         *)
(* Every libuv handle lives on the loop thread.  Other threads reach it    *)
(* only by pushing a closure on _waitTasks and sending the wake-up async,  *)
(* after a check of stopping_ and asyncs_inited_.  A channel is held by    *)
(* the registry from its creation until both of its handles (tcp and       *)
(* heartbeat timer) have delivered their close callbacks.                  *)
(*                                                                         *)
(* Granularity.  A callback on the loop thread is one step: what it reads  *)
(* or writes that another thread can touch is one atomic flag at a time,   *)
(* and what it pushes only the loop thread pops.  A business thread takes  *)
(* one step per shared access: exchange of closed_, registry lookup, push, *)
(* check of the flags, uv_async_send.                                      *)
(***************************************************************************)
EXTENDS Naturals, Sequences, FiniteSets

CONSTANTS
    Inbound,     \* connections this loop may adopt from the boss
    Outbound,    \* connections this loop may open with asyncConnect
    Threads,     \* business threads that hold channels of this loop
    Closers,     \* the threads among them that call Channel::close
    Senders,     \* the threads among them that call Channel::sendMsg
    Loop,        \* the loop thread, as a producer of tasks
    Main,        \* the thread that calls start, connectIpc and stop
    NoConn,      \* the channel of a task that has none
    HasTrigger,  \* TRUE iff an EventTrigger is set: heartbeat timers exist
    Budget       \* bound: operations one business thread performs

Conns == Inbound \cup Outbound
Producers == Threads \cup {Loop, Main}

ASSUME LoopAssumption ==
    /\ Inbound \cap Outbound = {}
    /\ NoConn \notin Conns
    /\ Loop \notin Threads /\ Main \notin Threads /\ Loop # Main
    /\ Closers \subseteq Threads /\ Senders \subseteq Threads
    /\ HasTrigger \in BOOLEAN
    /\ Budget \in Nat

VARIABLES
    closed,    \* Channel::closed_
    tcp,       \* the state of Channel::client, as libuv sees it
    timer,     \* the state of Channel::heartbeat_timer; "raw" = storage only
    writing,   \* is a uv_write in flight
    notified,  \* number of on_closed callbacks the business has had
    registry,  \* EventLoop::channels_
    tasks,     \* _waitTasks: one FIFO per producer, none between producers
    wake,      \* uv_async_write is pending
    stopSig,   \* uv_async_stop is pending
    stopping,  \* EventLoop::stopping_
    asyncs,    \* the four uv_async_t; "none" until asyncs_inited_
    ipc,       \* EventLoop::ipc_pipe_
    lpc,       \* where the loop thread is
    tpc,       \* where a business thread (or Main) is
    op,        \* the task a thread is about to push
    ops,       \* operations a business thread has left
    faults     \* undefined behaviour met so far

chanVars == <<closed, tcp, timer, writing, notified, registry>>
loopVars == <<tasks, wake, stopSig, stopping, asyncs, ipc, lpc>>
thrVars  == <<tpc, op, ops>>
vars     == <<chanVars, loopVars, thrVars, faults>>

CloseTask(c)   == [kind |-> "close", ch |-> c]
SendTask(c)    == [kind |-> "send", ch |-> c]
ConnectTask(c) == [kind |-> "connect", ch |-> c]
IpcTask        == [kind |-> "ipc", ch |-> NoConn]
Task == [kind : {"close", "send", "connect"}, ch : Conns] \cup {IpcTask}

\* The three callers of EventLoop::execute.
Draining == {"drain", "stopDrain", "tailDrain"}

TypeOK ==
    /\ closed \in [Conns -> BOOLEAN]
    /\ tcp \in [Conns -> {"none", "connecting", "reading", "idle",
                          "closing", "closed", "walked"}]
    /\ timer \in [Conns -> {"raw", "active", "closing", "closed"}]
    /\ writing \in [Conns -> BOOLEAN]
    /\ notified \in [Conns -> 0 .. 1]
    /\ registry \in SUBSET Conns
    /\ tasks \in [Producers -> Seq(Task)]
    /\ wake \in BOOLEAN /\ stopSig \in BOOLEAN /\ stopping \in BOOLEAN
    /\ asyncs \in {"none", "open", "closed"}
    /\ ipc \in {"none", "connecting", "open", "failed", "closed"}
    /\ lpc \in {"new", "poll", "stopClose", "done", "aborted"} \cup Draining
    /\ tpc \in [Threads \cup {Main} ->
                    {"idle", "lookup", "push", "check", "send", "stop", "end"}]
    /\ op \in [Threads \cup {Main} -> Task]
    /\ ops \in [Threads -> Nat]
    /\ faults \in SUBSET {"rawTimerClosed", "closedTwice", "sendOnClosedAsync"}

Init ==
    /\ closed = [c \in Conns |-> FALSE]
    /\ tcp = [c \in Conns |-> "none"]
    /\ timer = [c \in Conns |-> "raw"]
    /\ writing = [c \in Conns |-> FALSE]
    /\ notified = [c \in Conns |-> 0]
    /\ registry = {}
    /\ tasks = [p \in Producers |-> <<>>]
    /\ wake = FALSE /\ stopSig = FALSE /\ stopping = FALSE
    /\ asyncs = "none"
    /\ ipc = "none"
    /\ lpc = "new"
    /\ tpc = [t \in Threads \cup {Main} |-> "idle"]
    /\ op = [t \in Threads \cup {Main} |-> IpcTask]
    /\ ops = [t \in Threads |-> Budget]
    /\ faults = {}

-----------------------------------------------------------------------------
(* Helpers.                                                                *)

\* Is x in the sequence s, and is it there at most once.
In(s, x)   == \E i \in DOMAIN s : s[i] = x
Once(s, x) == \A i, j \in DOMAIN s : s[i] = x /\ s[j] = x => i = j

\* The threads, at the places at, between the start of the operation x and its push.
Carriers(at, o, x) == {t \in Threads : at[t] \in {"lookup", "push"} /\ o[t] = x}

\* Over the queues q and the carriers k: is the task x owed to the loop, and is
\* it owed by one producer at most, and once.
Owed(q, k, x) == \E p \in Producers : p \in k \/ In(q[p], x)
Sole(q, k, x) ==
    /\ \A p \in Producers : Once(q[p], x) /\ ~(p \in k /\ In(q[p], x))
    /\ \A p, r \in Producers :
        (p \in k \/ In(q[p], x)) /\ (r \in k \/ In(q[r], x)) => p = r

\* The same of the current state.
IsOwed(x)   == Owed(tasks, Carriers(tpc, op, x), x)
OwedOnce(x) == Sole(tasks, Carriers(tpc, op, x), x)

\* Undefined behaviour: the process may go down here, or carry on.
Undefined(ub) ==
    /\ faults' = faults \cup ub
    /\ IF ub = {} THEN UNCHANGED lpc ELSE lpc' \in {lpc, "aborted"}

\* Mutants of LoopCloses: the task is pushed without a wake-up; or closed_ is
\* tested, and not exchanged.
LoopClosesQuietly(c, q) ==
    /\ closed' = [closed EXCEPT ![c] = TRUE]
    /\ tasks' = IF closed[c] THEN q ELSE [q EXCEPT ![Loop] = Append(@, CloseTask(c))]
    /\ UNCHANGED wake
LoopClosesUnmarked(c, q) ==
    /\ IF closed[c]
       THEN tasks' = q /\ UNCHANGED wake
       ELSE /\ tasks' = [q EXCEPT ![Loop] = Append(@, CloseTask(c))]
            /\ wake' = (wake \/ (~stopping /\ asyncs = "open"))
    /\ UNCHANGED closed

\* Channel::close called on the loop thread, over the queue q.  Only the loop
\* thread pops, so the exchange, the push and the wake-up are one step.
LoopCloses(c, q) ==
    /\ closed' = [closed EXCEPT ![c] = TRUE]
    /\ IF closed[c]
       THEN tasks' = q /\ UNCHANGED wake
       ELSE /\ tasks' = [q EXCEPT ![Loop] = Append(@, CloseTask(c))]
            /\ wake' = (wake \/ (~stopping /\ asyncs = "open"))

\* startHeartbeatTimer is the only caller of uv_timer_init.
StartTimer(c) ==
    timer' = [timer EXCEPT ![c] = IF HasTrigger THEN "active" ELSE @]

\* libuv's loop-alive test: an active handle, an active request or a close
\* callback still to deliver.
Alive ==
    \/ asyncs = "open"
    \/ ipc \in {"connecting", "open"}
    \/ \E c \in Conns : \/ tcp[c] \in {"connecting", "reading", "closing"}
                        \/ timer[c] \in {"active", "closing"}
                        \/ writing[c]

\* closeIpcPipe: nothing unless the pipe was initialised.
IpcAfterClose == IF ipc = "none" THEN "none" ELSE "closed"

-----------------------------------------------------------------------------
(* The loop thread: life cycle.                                            *)

\* run: initAsynEvent succeeds, doRun enters uv_run.
LoopStarts ==
    /\ lpc = "new"
    /\ lpc' = "poll"
    /\ asyncs' = "open"
    /\ UNCHANGED <<chanVars, thrVars, tasks, wake, stopSig, stopping, ipc, faults>>

\* run: initAsynEvent fails, start() is released and the thread ends.
LoopInitFails ==
    /\ lpc = "new"
    /\ lpc' = "done"
    /\ UNCHANGED <<chanVars, thrVars, tasks, wake, stopSig, stopping, asyncs, ipc, faults>>

\* async_write_cb: drain the task queue.
AsyncWrite ==
    /\ lpc = "poll" /\ asyncs = "open" /\ wake
    /\ wake' = FALSE
    /\ lpc' = "drain"
    /\ UNCHANGED <<chanVars, thrVars, tasks, stopSig, stopping, asyncs, ipc, faults>>

\* async_stop_cb: onStopTriggered closes the ipc pipe and snapshots channels_.
StopTriggered ==
    /\ lpc = "poll" /\ asyncs = "open" /\ stopSig
    /\ stopSig' = FALSE
    /\ ipc' = IpcAfterClose
    /\ lpc' = "stopClose"
    /\ UNCHANGED <<chanVars, thrVars, tasks, wake, stopping, asyncs, faults>>

\* onStopTriggered closes the channels of the snapshot, in any order: only the
\* loop thread registers, so the snapshot is channels_ itself.
StopCloses(c) ==
    /\ lpc = "stopClose" /\ c \in registry /\ ~closed[c]
    /\ LoopCloses(c, tasks)
    /\ UNCHANGED <<tcp, timer, writing, notified, registry, thrVars,
                   stopSig, stopping, asyncs, ipc, lpc, faults>>

\* onStopTriggered reaches its execute().
StopDrains ==
    /\ lpc = "stopClose"
    /\ \A c \in registry : closed[c]
    /\ lpc' = "stopDrain"
    /\ UNCHANGED <<chanVars, thrVars, tasks, wake, stopSig, stopping, asyncs, ipc, faults>>

\* Mutant of DrainEnds: onStopTriggered leaves its asyncs open.
DrainEndsKeepsAsyncs ==
    /\ lpc \in Draining
    /\ \A p \in Producers : tasks[p] = <<>>
    /\ lpc' = IF lpc = "tailDrain" THEN "done" ELSE "poll"
    /\ UNCHANGED <<chanVars, thrVars, tasks, wake, stopSig, stopping, asyncs, ipc, faults>>

\* A drain ends: back to uv_run, to the uv_close of the asyncs, or, once
\* uv_run has returned, to the end of the thread.
DrainEnds ==
    /\ lpc \in Draining
    /\ \A p \in Producers : tasks[p] = <<>>
    /\ lpc' = IF lpc = "tailDrain" THEN "done" ELSE "poll"
    /\ asyncs' = IF lpc = "stopDrain" THEN "closed" ELSE asyncs
    /\ UNCHANGED <<chanVars, thrVars, tasks, wake, stopSig, stopping, ipc, faults>>

\* Mutant of RunReturns: onStopTriggered ended uv_run once it had closed the asyncs.
RunReturnsOnUvStop ==
    /\ lpc = "poll" /\ (~Alive \/ asyncs = "closed")
    /\ tcp' = [c \in Conns |-> IF tcp[c] = "idle" THEN "walked" ELSE tcp[c]]
    /\ ipc' = IpcAfterClose
    /\ lpc' = "tailDrain"
    /\ UNCHANGED <<closed, timer, writing, notified, registry, thrVars,
                   tasks, wake, stopSig, stopping, asyncs, faults>>

\* uv_run returns; uv_walk closes the handles that are left, without callback.
RunReturns ==
    /\ lpc = "poll" /\ ~Alive
    /\ tcp' = [c \in Conns |-> IF tcp[c] = "idle" THEN "walked" ELSE tcp[c]]
    /\ ipc' = IpcAfterClose
    /\ lpc' = "tailDrain"
    /\ UNCHANGED <<closed, timer, writing, notified, registry, thrVars,
                   tasks, wake, stopSig, stopping, asyncs, faults>>

-----------------------------------------------------------------------------
(* The loop thread: tasks.  q is the queue after the pop.                  *)

\* Mutant of CloseInLoop: the heartbeat timer is only stopped.
CloseInLoopKeepsTimer(c, q) ==
    /\ tcp' = [tcp EXCEPT ![c] = "closing"]
    /\ notified' = [notified EXCEPT ![c] = @ + 1]
    /\ Undefined(IF tcp[c] = "walked" THEN {"closedTwice"} ELSE {})
    /\ tasks' = q
    /\ UNCHANGED <<closed, timer, writing, registry, wake, ipc>>

\* Channel::closeInLoop.  uv_close on a timer that was never initialised, or on
\* a handle that is already closing, is undefined.
CloseInLoop(c, q) ==
    /\ tcp' = [tcp EXCEPT ![c] = "closing"]
    /\ timer' = [timer EXCEPT ![c] = "closing"]
    /\ notified' = [notified EXCEPT ![c] = @ + 1]
    /\ Undefined((IF timer[c] = "raw" THEN {"rawTimerClosed"} ELSE {})
                 \cup (IF tcp[c] = "walked" THEN {"closedTwice"} ELSE {}))
    /\ tasks' = q
    /\ UNCHANGED <<closed, writing, registry, wake, ipc>>

\* Channel::eventLoopWrite and doUvSend: the frame is dropped, or joins the
\* write in flight, or starts one, or uv_write fails and the channel closes.
WriteInLoop(c, q) ==
    /\ \/ tasks' = q /\ UNCHANGED <<closed, writing, wake>>
       \/ /\ ~closed[c]
          /\ writing' = [writing EXCEPT ![c] = TRUE]
          /\ tasks' = q /\ UNCHANGED <<closed, wake>>
       \/ /\ ~closed[c] /\ ~writing[c]
          /\ LoopCloses(c, q)
          /\ UNCHANGED writing
    /\ UNCHANGED <<tcp, timer, notified, registry, ipc, lpc, faults>>

\* The closure of asyncConnect: the channel is registered, and uv_tcp_connect
\* starts or fails at once; an invalid address returns before any of it.
ConnectInLoop(c, q) ==
    /\ \/ tasks' = q /\ UNCHANGED <<closed, tcp, registry, wake>>
       \/ /\ registry' = registry \cup {c}
          /\ tcp' = [tcp EXCEPT ![c] = "connecting"]
          /\ tasks' = q /\ UNCHANGED <<closed, wake>>
       \/ /\ registry' = registry \cup {c}
          /\ tcp' = [tcp EXCEPT ![c] = "idle"]
          /\ LoopCloses(c, q)
    /\ UNCHANGED <<timer, writing, notified, ipc, lpc, faults>>

\* The closure of connectIpc.
IpcInLoop(q) ==
    /\ ipc' = "connecting"
    /\ tasks' = q
    /\ UNCHANGED <<chanVars, wake, lpc, faults>>

\* EventLoop::execute pops a task of some producer and runs it.
RunTask(p) ==
    /\ lpc \in Draining
    /\ tasks[p] # <<>>
    /\ LET task == Head(tasks[p])
           q    == [tasks EXCEPT ![p] = Tail(@)]
       IN \/ task.kind = "close"   /\ CloseInLoop(task.ch, q)
          \/ task.kind = "send"    /\ WriteInLoop(task.ch, q)
          \/ task.kind = "connect" /\ ConnectInLoop(task.ch, q)
          \/ task.kind = "ipc"     /\ IpcInLoop(q)
    /\ UNCHANGED <<thrVars, stopSig, stopping, asyncs>>

-----------------------------------------------------------------------------
(* The loop thread: callbacks of libuv.                                    *)

\* uv_ipc_connect_cb.
IpcConnected(ok) ==
    /\ lpc = "poll" /\ ipc = "connecting"
    /\ ipc' = IF ok THEN "open" ELSE "failed"
    /\ UNCHANGED <<chanVars, thrVars, tasks, wake, stopSig, stopping, asyncs, lpc, faults>>

\* uv_ipc_read_cb: the boss has gone.
IpcEof ==
    /\ lpc = "poll" /\ ipc = "open"
    /\ ipc' = IpcAfterClose
    /\ UNCHANGED <<chanVars, thrVars, tasks, wake, stopSig, stopping, asyncs, lpc, faults>>

\* uv_ipc_read_cb: the boss passes an accepted connection; adoptConnection.
Adopt(c) ==
    /\ lpc = "poll" /\ ipc = "open"
    /\ c \in Inbound /\ tcp[c] = "none"
    /\ registry' = registry \cup {c}
    /\ tcp' = [tcp EXCEPT ![c] = "reading"]
    /\ StartTimer(c)
    /\ UNCHANGED <<closed, writing, notified, loopVars, thrVars, faults>>

\* uv_on_connect with status 0.
Connected(c) ==
    /\ lpc = "poll" /\ tcp[c] = "connecting"
    /\ tcp' = [tcp EXCEPT ![c] = "reading"]
    /\ StartTimer(c)
    /\ UNCHANGED <<closed, writing, notified, registry, loopVars, thrVars, faults>>

\* uv_on_connect with an error.
ConnectFails(c) ==
    /\ lpc = "poll" /\ tcp[c] = "connecting"
    /\ tcp' = [tcp EXCEPT ![c] = "idle"]
    /\ LoopCloses(c, tasks)
    /\ UNCHANGED <<timer, writing, notified, registry, thrVars,
                   stopSig, stopping, asyncs, ipc, lpc, faults>>

\* uv_read_cb with nread < 0: libuv stops the handle, onRead closes.
ReadEnds(c) ==
    /\ lpc = "poll" /\ tcp[c] = "reading"
    /\ tcp' = [tcp EXCEPT ![c] = "idle"]
    /\ LoopCloses(c, tasks)
    /\ UNCHANGED <<timer, writing, notified, registry, thrVars,
                   stopSig, stopping, asyncs, ipc, lpc, faults>>

\* Any other callback that closes: a frame uv_read_cb refuses, a full receive
\* ring in uv_alloc_cb, an idle time-out in uv_on_timer, or the business code
\* on_read and triggerEvent run on the loop thread.
CallbackCloses(c) ==
    /\ lpc = "poll" /\ tcp[c] = "reading" /\ ~closed[c]
    /\ LoopCloses(c, tasks)
    /\ UNCHANGED <<tcp, timer, writing, notified, registry, thrVars,
                   stopSig, stopping, asyncs, ipc, lpc, faults>>

\* The uv_write callback: all of it is sent (or the rest is, in a new write,
\* which leaves writing as it is), or the write has failed.
WriteCompletes(c) ==
    /\ lpc = "poll" /\ writing[c] /\ tcp[c] \in {"reading", "idle"}
    /\ writing' = [writing EXCEPT ![c] = FALSE]
    /\ \/ UNCHANGED <<closed, tasks, wake>>
       \/ LoopCloses(c, tasks)
    /\ UNCHANGED <<tcp, timer, notified, registry, thrVars,
                   stopSig, stopping, asyncs, ipc, lpc, faults>>

\* Mutants of TcpClosed: on_closed is called here too; or the channel is released
\* without waiting for the timer.
TcpClosedNotifies(c) ==
    /\ lpc = "poll" /\ tcp[c] = "closing"
    /\ tcp' = [tcp EXCEPT ![c] = "closed"]
    /\ writing' = [writing EXCEPT ![c] = FALSE]
    /\ registry' = IF timer[c] = "closed" THEN registry \ {c} ELSE registry
    /\ notified' = [notified EXCEPT ![c] = @ + 1]
    /\ UNCHANGED <<closed, timer, loopVars, thrVars, faults>>
TcpClosedReleases(c) ==
    /\ lpc = "poll" /\ tcp[c] = "closing"
    /\ tcp' = [tcp EXCEPT ![c] = "closed"]
    /\ writing' = [writing EXCEPT ![c] = FALSE]
    /\ registry' = registry \ {c}
    /\ UNCHANGED <<closed, timer, notified, loopVars, thrVars, faults>>

\* The close callback of the tcp handle, after libuv has cancelled the write in
\* flight; onHandleClosed releases the channel with the second callback.
TcpClosed(c) ==
    /\ lpc = "poll" /\ tcp[c] = "closing"
    /\ tcp' = [tcp EXCEPT ![c] = "closed"]
    /\ writing' = [writing EXCEPT ![c] = FALSE]
    /\ registry' = IF timer[c] = "closed" THEN registry \ {c} ELSE registry
    /\ UNCHANGED <<closed, timer, notified, loopVars, thrVars, faults>>

\* The close callback of the heartbeat timer.
TimerClosed(c) ==
    /\ lpc = "poll" /\ timer[c] = "closing"
    /\ timer' = [timer EXCEPT ![c] = "closed"]
    /\ registry' = IF tcp[c] = "closed" THEN registry \ {c} ELSE registry
    /\ UNCHANGED <<closed, tcp, writing, notified, loopVars, thrVars, faults>>

-----------------------------------------------------------------------------
(* Business threads, and Main.                                             *)

\* The business learns of a channel from on_connected, on_new_connection or
\* on_read; it may keep the shared_ptr after the channel has left the registry.
Known(c) == tcp[c] \notin {"none", "connecting"}

Goes(t, from, to) ==
    /\ tpc[t] = from
    /\ lpc # "aborted"
    /\ tpc' = [tpc EXCEPT ![t] = to]

\* A thread begins an operation within its budget.
Begins(t, task, to) ==
    /\ Goes(t, "idle", to)
    /\ lpc # "new"
    /\ ops[t] > 0
    /\ ops' = [ops EXCEPT ![t] = @ - 1]
    /\ op' = [op EXCEPT ![t] = task]

\* Mutant of CloseBegins: closed_ is set, whatever it was.
CloseBeginsAgain(t, c) ==
    /\ t \in Closers /\ Known(c)
    /\ Begins(t, CloseTask(c), "lookup")
    /\ closed' = [closed EXCEPT ![c] = TRUE]
    /\ UNCHANGED <<tcp, timer, writing, notified, registry, loopVars, faults>>

\* Channel::close: closed_.exchange(true) returned false.
CloseBegins(t, c) ==
    /\ t \in Closers /\ Known(c) /\ ~closed[c]
    /\ Begins(t, CloseTask(c), "lookup")
    /\ closed' = [closed EXCEPT ![c] = TRUE]
    /\ UNCHANGED <<tcp, timer, writing, notified, registry, loopVars, faults>>

\* Channel::close: channelPtr, and return if the channel is gone.
CloseLooksUp(t) ==
    /\ Goes(t, "lookup", IF op[t].ch \in registry THEN "push" ELSE "idle")
    /\ UNCHANGED <<chanVars, loopVars, op, ops, faults>>

\* Channel::sendMsg: registered and not closed, so the task will be pushed.
SendBegins(t, c) ==
    /\ t \in Senders /\ Known(c) /\ c \in registry /\ ~closed[c]
    /\ Begins(t, SendTask(c), "push")
    /\ UNCHANGED <<chanVars, loopVars, faults>>

\* EventLoop::asyncConnect; each outbound connection stands for one call.
ConnectBegins(t, c) ==
    /\ c \in Outbound /\ tcp[c] = "none"
    /\ ~IsOwed(ConnectTask(c))
    /\ Begins(t, ConnectTask(c), "push")
    /\ UNCHANGED <<chanVars, loopVars, faults>>

\* executeOnEventLoop: push.
Push(t) ==
    /\ Goes(t, "push", "check")
    /\ tasks' = [tasks EXCEPT ![t] = Append(@, op[t])]
    /\ UNCHANGED <<chanVars, wake, stopSig, stopping, asyncs, ipc, lpc, op, ops, faults>>

\* wakeAsync: the check of stopping_ and asyncs_inited_.
WakeChecks(t) ==
    /\ Goes(t, "check", IF ~stopping /\ asyncs # "none" THEN "send"
                        ELSE IF t = Main THEN "stop" ELSE "idle")
    /\ UNCHANGED <<chanVars, loopVars, op, ops, faults>>

\* wakeAsync: uv_async_send, undefined once the async has been closed.
WakeSends(t) ==
    /\ Goes(t, "send", IF t = Main THEN "stop" ELSE "idle")
    /\ wake' = (wake \/ asyncs = "open")
    /\ Undefined(IF asyncs = "closed" THEN {"sendOnClosedAsync"} ELSE {})
    /\ UNCHANGED <<chanVars, tasks, stopSig, stopping, asyncs, ipc, op, ops>>

\* AthenaTcpServer::start calls connectIpc once start() has returned; a loop
\* without inbound connections (TcpClient) has no pipe.
ConnectIpc ==
    /\ lpc # "new"
    /\ Goes(Main, "idle", IF Inbound = {} THEN "stop" ELSE "push")
    /\ UNCHANGED <<chanVars, loopVars, op, ops, faults>>

\* EventLoop::stop: stopping_.exchange(true), then the test of asyncs_inited_.
\* AthenaTcpServer calls it after waitWorkersReady, which is taken to outlast
\* the task of connectIpc.
StopBegins ==
    /\ tpc[Main] = "stop" /\ ~stopping /\ lpc \notin {"new", "aborted"}
    /\ Inbound = {} \/ ipc # "none" \/ asyncs = "none"
    /\ stopping' = TRUE
    /\ tpc' = [tpc EXCEPT ![Main] = IF asyncs = "none" THEN "end" ELSE "stop"]
    /\ UNCHANGED <<chanVars, tasks, wake, stopSig, asyncs, ipc, lpc, op, ops, faults>>

\* EventLoop::stop: uv_async_send(&uv_async_stop).
StopSends ==
    /\ stopping
    /\ Goes(Main, "stop", "end")
    /\ stopSig' = TRUE
    /\ UNCHANGED <<chanVars, tasks, wake, stopping, asyncs, ipc, lpc, op, ops, faults>>

-----------------------------------------------------------------------------
LoopNext ==
    \/ LoopStarts \/ LoopInitFails \/ AsyncWrite
    \/ StopTriggered \/ StopDrains \/ DrainEnds \/ RunReturns
    \/ \E p \in Producers : RunTask(p)
    \/ \E ok \in BOOLEAN : IpcConnected(ok)
    \/ IpcEof
    \/ \E c \in Conns :
        \/ StopCloses(c) \/ Adopt(c) \/ Connected(c) \/ ConnectFails(c)
        \/ ReadEnds(c) \/ CallbackCloses(c) \/ WriteCompletes(c)
        \/ TcpClosed(c) \/ TimerClosed(c)

\* The steps that finish what a thread has begun.
ThreadSteps(t) == CloseLooksUp(t) \/ Push(t) \/ WakeChecks(t) \/ WakeSends(t)

ThreadNext ==
    \/ \E t \in Threads : \E c \in Conns :
        CloseBegins(t, c) \/ SendBegins(t, c) \/ ConnectBegins(t, c)
    \/ \E t \in Threads \cup {Main} : ThreadSteps(t)
    \/ ConnectIpc \/ StopBegins \/ StopSends

Next == LoopNext \/ ThreadNext

\* The loop thread keeps scanning its ready callbacks, the kernel answers a
\* connect and completes or fails a write, and a thread finishes what it began.  Nobody must
\* begin an operation, send data, drop a connection or call stop.  After stop
\* the boss, stopped first by AthenaTcpServer::stop, closes its end of the pipe.
Fairness ==
    /\ WF_vars(LoopStarts \/ LoopInitFails)
    /\ WF_vars(AsyncWrite)
    /\ WF_vars(StopTriggered)
    /\ WF_vars(StopDrains \/ \E c \in Conns : StopCloses(c))
    /\ WF_vars(DrainEnds \/ \E p \in Producers : RunTask(p))
    /\ WF_vars(RunReturns)
    /\ WF_vars(\E ok \in BOOLEAN : IpcConnected(ok))
    /\ WF_vars(stopping /\ IpcEof)
    /\ \A c \in Conns : /\ WF_vars(Connected(c) \/ ConnectFails(c))
                        /\ WF_vars(WriteCompletes(c))
                        /\ WF_vars(TcpClosed(c))
                        /\ WF_vars(TimerClosed(c))
    /\ \A t \in Threads \cup {Main} : WF_vars(ThreadSteps(t))
    /\ WF_vars(StopSends)

Spec     == Init /\ [][Next]_vars
FairSpec == Spec /\ Fairness

-----------------------------------------------------------------------------
(* Properties.                                                             *)

\* A callback libuv may still deliver for a channel finds it alive: while a
\* handle of it is not closed, or a write is in flight, the registry holds it.
\* (The lifetime contract of Channel.h: raw pointers in loop callbacks only.)
CallbackTargetLive ==
    \A c \in Conns :
        \/ tcp[c] \in {"connecting", "reading", "idle", "closing"}
        \/ timer[c] \in {"active", "closing"}
        \/ writing[c]
        => c \in registry

\* However many threads, loop callbacks and the stop sequence call close(),
\* exactly one closeInLoop is owed, or has run with its one on_closed.
TeardownOnce ==
    \A c \in Conns :
        /\ OwedOnce(CloseTask(c))
        /\ IsOwed(CloseTask(c)) <=> closed[c] /\ notified[c] = 0

\* The thread whose exchange won never meets the early return after it: its
\* channel is still registered when it looks it up, so no close is lost.
LookupSucceeds == \A t \in Threads : tpc[t] = "lookup" => op[t].ch \in registry

\* No lost wake-up: while the loop sleeps in poll with work queued, the wake-up
\* is pending, or the thread that pushed has yet to send it, or stop is coming.
NoLostWakeup ==
    lpc = "poll" /\ asyncs = "open" /\ (\E p \in Producers : tasks[p] # <<>>)
    => wake \/ stopping \/ \E t \in Threads \cup {Main} : tpc[t] \in {"check", "send"}

\* When the loop thread has ended, every connection handed to it has been closed
\* and released.  (~EventLoop: the stop sequence or the walk closed all handles.)
ExitReleasesAll == lpc = "done" => registry \cap Inbound = {}

\* closeInLoop closes only handles that were initialised, whatever became of
\* the connection.  (Channel.h: close() is safe, the handles end in closeInLoop.)
OnlyLiveHandlesClosed == "rawTimerClosed" \notin faults

\* A channel that anybody closed leaves the registry, unless the loop stops.
CloseCompletes ==
    \A c \in Conns : closed[c] ~> c \notin registry \/ stopping \/ lpc = "aborted"

\* stop() makes the loop thread end.  (EventLoop.h: the loop closes all channels
\* and handles and uv_run returns by itself.)
StopTerminates == stopping ~> lpc \in {"done", "aborted"}

\* What keeps the loop thread alive after stop() can only be a channel that
\* another thread was closing, or asyncConnect opening, while stop ran.
Stranded ==
    /\ lpc = "poll" /\ asyncs = "closed"
    /\ \E c \in registry : ~closed[c] \/ IsOwed(CloseTask(c))
StopEndsUnlessRaced == stopping ~> lpc \in {"done", "aborted"} \/ Stranded

=============================================================================
