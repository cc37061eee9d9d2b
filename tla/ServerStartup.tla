---------------------------- MODULE ServerStartup ----------------------------
(***************************************************************************)
(* AthenaTcpServer::start and stop: the main thread brings up the boss     *)
(* loop (ServerEventLoop) and its workers, waits until every worker has a  *)
(* session at the boss, has the boss listen, and takes all of it down      *)
(* again; and how the boss hands the connections it accepts to the workers.*)
(*                                                                         *)
(* A worker is here what the boss and the main thread see of it: EventLoop *)
(* has the rest.  Both waits may time out at any moment.  A thread takes   *)
(* in one step what no other one can see half done.                        *)
(***************************************************************************)
EXTENDS Naturals, FiniteSets

CONSTANTS
    N,        \* eventLoopNum
    Clients,  \* the connections made to the port
    Faults    \* how many calls of libuv may fail

ASSUME StartAssumption == N \in Nat \ {0}

Workers == 1 .. N

VARIABLES
    main,        \* where start or stop is
    boss,        \* the boss thread
    stopping,    \* stopping_ of the boss
    stopSent,    \* its uv_async_stop was sent
    pipe,        \* pipe_servers_
    session,     \* sessions_
    ready,       \* ready_workers_
    task,        \* the bind and listen that startListen posts
    server,      \* server_
    listenOk,    \* listen_ok_
    next,        \* next_worker_
    worker,      \* the worker threads
    workerStop,  \* stopping_ of each worker
    ipc,         \* ipc_pipe_ of each worker
    client,      \* where each connection is
    to,          \* the worker it was written to
    crashed,     \* a handle that was never initialised was closed, or a freed one used
    faults       \* the calls that failed so far

mainVars == <<main, stopping, stopSent>>
bossVars == <<boss, pipe, session, ready, server, listenOk>>
workerVars == <<worker, workerStop, ipc>>
clientVars == <<next, client, to>>
startVars == <<mainVars, bossVars, task, workerVars, clientVars, crashed, faults>>

ThreadTypes ==
    /\ main \in {"boss", "workers", "ipc", "ready", "listen", "serving", "stop boss",
                 "stop workers", "join boss", "join workers", "down"}
    /\ boss \in {"none", "init", "loop", "stopped", "ended"}
    /\ stopping \in BOOLEAN
    /\ stopSent \in BOOLEAN
    /\ worker \in [Workers -> {"none", "loop", "dead", "stuck", "ended"}]
    /\ workerStop \in [Workers -> BOOLEAN]

PipeTypes ==
    /\ pipe \in [Workers -> {"zero", "open", "listening", "closed"}]
    /\ session \in [Workers -> {"none", "up", "closed"}]
    /\ ready \in Nat
    /\ ipc \in [Workers -> {"none", "asked", "connecting", "up", "refused", "closed"}]
    /\ crashed \in BOOLEAN
    /\ faults \in Nat

PortTypes ==
    /\ task \in {"none", "queued", "done", "late"}
    /\ server \in {"zero", "open", "listening", "closed"}
    /\ listenOk \in BOOLEAN
    /\ next \in Workers
    /\ client \in [Clients -> {"none", "backlog", "writing", "piped", "adopted",
                               "failed", "dropped"}]
    /\ to \in [Clients -> Workers]

StartTypeOK == ThreadTypes /\ PipeTypes /\ PortTypes

StartInit ==
    /\ main = "boss"
    /\ boss = "none"
    /\ stopping = FALSE /\ stopSent = FALSE
    /\ pipe = [i \in Workers |-> "zero"]
    /\ session = [i \in Workers |-> "none"]
    /\ ready = 0
    /\ task = "none"
    /\ server = "zero"
    /\ listenOk = FALSE
    /\ next = 1
    /\ worker = [i \in Workers |-> "none"]
    /\ workerStop = [i \in Workers |-> FALSE]
    /\ ipc = [i \in Workers |-> "none"]
    /\ client = [k \in Clients |-> "none"]
    /\ to = [k \in Clients |-> 1]
    /\ crashed = FALSE
    /\ faults = 0

Fault == faults < Faults /\ faults' = faults + 1

-----------------------------------------------------------------------------
(* start *)

\* boss_->start up to its wait for running_
StartBoss ==
    /\ main = "boss" /\ boss = "none"
    /\ boss' = "init"
    /\ UNCHANGED <<mainVars, pipe, session, ready, server, listenOk, task, workerVars,
                   clientVars, crashed, faults>>

\* run: every pipe server listens
BossUp ==
    /\ boss = "init"
    /\ pipe' = [i \in Workers |-> "listening"]
    /\ boss' = "loop"
    /\ UNCHANGED <<mainVars, session, ready, server, listenOk, task, workerVars,
                   clientVars, crashed, faults>>

\* run: initAsynEvent fails and the thread ends
BossAborts ==
    /\ boss = "init" /\ Fault
    /\ boss' = "ended"
    /\ UNCHANGED <<mainVars, pipe, session, ready, server, listenOk, task, workerVars,
                   clientVars, crashed>>

\* run: pipe i cannot be bound or listened on, those after it are not tried, and
\* the boss asks itself to stop
BossStopsItself(i) ==
    /\ boss = "init" /\ Fault
    /\ pipe' = [j \in Workers |-> IF j < i THEN "listening"
                                  ELSE IF j = i THEN "open" ELSE "zero"]
    /\ boss' = "loop"
    /\ stopping' = TRUE /\ stopSent' = TRUE
    /\ UNCHANGED <<main, session, ready, server, listenOk, task, workerVars, clientVars,
                   crashed>>

BossStarted ==
    /\ main = "boss" /\ boss \notin {"none", "init"}
    /\ main' = "workers"
    /\ UNCHANGED <<stopping, stopSent, bossVars, task, workerVars, clientVars, crashed,
                   faults>>

\* the loops of the workers run when this is over, but those whose
\* initAsynEvent failed
StartWorkers ==
    /\ main = "workers"
    /\ \E dead \in SUBSET Workers :
         /\ worker' = [i \in Workers |-> IF i \in dead THEN "dead" ELSE "loop"]
         /\ faults + Cardinality(dead) <= Faults
         /\ faults' = faults + Cardinality(dead)
    /\ main' = "ipc"
    /\ UNCHANGED <<stopping, stopSent, bossVars, task, workerStop, ipc, clientVars,
                   crashed>>

\* connectIpc: a dead worker never runs its task
ConnectIpc ==
    /\ main = "ipc"
    /\ ipc' = [i \in Workers |-> IF worker[i] = "loop" THEN "asked" ELSE "none"]
    /\ main' = "ready"
    /\ UNCHANGED <<stopping, stopSent, bossVars, task, worker, workerStop, clientVars,
                   crashed, faults>>

\* Mutant of WorkersReady: a timeout is good enough.
WorkersReadyAnyway == TRUE

WorkersReady == ready >= N

\* waitWorkersReady returns: startListen posts its task, or stop begins
WaitReady ==
    /\ main = "ready"
    /\ IF WorkersReady
       THEN main' = "listen" /\ task' = "queued"
       ELSE main' = "stop boss" /\ UNCHANGED task
    /\ UNCHANGED <<stopping, stopSent, bossVars, workerVars, clientVars, crashed, faults>>

\* Mutant of ListeningOk: an answer is good enough.
ListeningOkDone == task = "done"

ListeningOk == task = "done" /\ listenOk

\* waitListeningOk returns, with the answer or without
WaitListening ==
    /\ main = "listen"
    /\ main' = IF ListeningOk THEN "serving" ELSE "stop boss"
    /\ UNCHANGED <<stopping, stopSent, bossVars, task, workerVars, clientVars, crashed,
                   faults>>

-----------------------------------------------------------------------------
(* stop, after a failed start or at the end of the process *)

Quit ==
    /\ main = "serving"
    /\ main' = "stop boss"
    /\ UNCHANGED <<stopping, stopSent, bossVars, task, workerVars, clientVars, crashed,
                   faults>>

StopBoss ==
    /\ main = "stop boss"
    /\ stopping' = TRUE
    /\ stopSent' = (stopSent \/ (~stopping /\ boss # "ended"))
    /\ main' = "stop workers"
    /\ UNCHANGED <<bossVars, task, workerVars, clientVars, crashed, faults>>

StopWorkers ==
    /\ main = "stop workers"
    /\ workerStop' = [i \in Workers |-> TRUE]
    /\ main' = "join boss"
    /\ UNCHANGED <<stopping, stopSent, bossVars, task, worker, ipc, clientVars, crashed,
                   faults>>

JoinBoss ==
    /\ main = "join boss" /\ boss = "ended"
    /\ main' = "join workers"
    /\ UNCHANGED <<stopping, stopSent, bossVars, task, workerVars, clientVars, crashed,
                   faults>>

JoinWorkers ==
    /\ main = "join workers"
    /\ \A i \in Workers : worker[i] \in {"none", "dead", "ended"}
    /\ main' = "down"
    /\ UNCHANGED <<stopping, stopSent, bossVars, task, workerVars, clientVars, crashed,
                   faults>>

-----------------------------------------------------------------------------
(* The boss loop *)

\* uv_on_pipe_connection
PipeConnection(i) ==
    /\ boss = "loop" /\ pipe[i] = "listening" /\ ipc[i] = "connecting"
    /\ session' = [session EXCEPT ![i] = "up"]
    /\ ready' = ready + 1
    /\ ipc' = [ipc EXCEPT ![i] = "up"]
    /\ UNCHANGED <<mainVars, boss, pipe, server, listenOk, task, worker, workerStop,
                   clientVars, crashed, faults>>

PipeConnectionFails(i) ==
    /\ boss = "loop" /\ pipe[i] = "listening" /\ ipc[i] = "connecting"
    /\ Fault
    /\ ipc' = [ipc EXCEPT ![i] = "refused"]
    /\ UNCHANGED <<mainVars, bossVars, task, worker, workerStop, clientVars, crashed>>

\* the task of startListen
Listens ==
    /\ boss = "loop" /\ task = "queued"
    /\ task' = "done"
    /\ server' = "listening"
    /\ listenOk' = TRUE
    /\ UNCHANGED <<mainVars, boss, pipe, session, ready, workerVars, clientVars, crashed,
                   faults>>

\* server_ stays as uv_tcp_init left it
ListenFails ==
    /\ boss = "loop" /\ task = "queued" /\ Fault
    /\ task' = "done"
    /\ server' = "open"
    /\ UNCHANGED <<mainVars, boss, pipe, session, ready, listenOk, workerVars, clientVars,
                   crashed>>

Connects(k) ==
    /\ server = "listening" /\ client[k] = "none"
    /\ client' = [client EXCEPT ![k] = "backlog"]
    /\ UNCHANGED <<mainVars, bossVars, task, workerVars, next, to, crashed, faults>>

After(i) == IF i = N THEN 1 ELSE i + 1

\* the first worker from next_worker_ on with a session
HasTurn(i) ==
    /\ session[i] # "none"
    /\ \A j \in Workers : session[j] # "none" =>
          IF i >= next THEN j < next \/ j >= i ELSE j < next /\ j >= i

Accepts(k) == boss = "loop" /\ server = "listening" /\ client[k] = "backlog"

HandoffVars == <<mainVars, bossVars, task, workerVars, crashed>>

\* uv_on_new_connection and handoffToWorker; without a session the connection is
\* closed
Handoff(k) ==
    /\ Accepts(k)
    /\ IF \A i \in Workers : session[i] = "none"
       THEN client' = [client EXCEPT ![k] = "dropped"] /\ UNCHANGED <<next, to>>
       ELSE \E i \in Workers :
              /\ HasTurn(i)
              /\ client' = [client EXCEPT ![k] = "writing"]
              /\ to' = [to EXCEPT ![k] = i]
              /\ next' = After(i)
    /\ UNCHANGED <<HandoffVars, faults>>

\* uv_write2 refuses, and the connection is closed
HandoffFails(k, i) ==
    /\ Accepts(k) /\ HasTurn(i) /\ Fault
    /\ client' = [client EXCEPT ![k] = "failed"]
    /\ next' = After(i)
    /\ UNCHANGED <<HandoffVars, to>>

\* after_handoff_cb: the copy of the boss is closed
HandoffDone(k) ==
    /\ boss = "loop" /\ client[k] = "writing"
    /\ client' = [client EXCEPT ![k] = IF ipc[to[k]] = "up" THEN "piped" ELSE "dropped"]
    /\ UNCHANGED <<HandoffVars, next, to, faults>>

\* after_handoff_cb with an error: the worker never gets the connection
HandoffErrs(k) ==
    /\ boss = "loop" /\ client[k] = "writing" /\ Fault
    /\ client' = [client EXCEPT ![k] = "failed"]
    /\ UNCHANGED <<HandoffVars, next, to>>

\* Mutant of ServerClosed: the listener is left to the end of the loop.
ServerClosedLater == server

ServerClosed == IF server = "listening" THEN "closed" ELSE server

\* onStopTriggered, with the task of startListen done.  A zero handle of a pipe that
\* was not tried is closed as well
ClosesHandles ==
    /\ boss = "loop" /\ stopSent
    /\ crashed' = \E i \in Workers : pipe[i] = "zero"
    /\ pipe' = [i \in Workers |-> "closed"]
    /\ session' = [i \in Workers |-> IF session[i] = "up" THEN "closed" ELSE session[i]]
    /\ client' = [k \in Clients |->
                    IF client[k] = "writing" \/ (client[k] = "backlog" /\ server' = "closed")
                    THEN "dropped" ELSE client[k]]
    /\ ipc' = [i \in Workers |-> IF ipc[i] = "connecting" THEN "refused" ELSE ipc[i]]
    /\ boss' = "stopped"
    /\ UNCHANGED <<mainVars, ready, worker, workerStop, next, to>>

BossStops ==
    /\ task # "queued"
    /\ server' = ServerClosed
    /\ ClosesHandles
    /\ UNCHANGED <<listenOk, task, faults>>

\* the wait timed out while the task was still on its way: execute() at the end of
\* onStopTriggered runs it, and the port is listened on, or not, after all
BossStopsLate ==
    /\ task = "queued"
    /\ task' = "late"
    /\ \/ server' = "listening" /\ listenOk' = TRUE /\ UNCHANGED faults
       \/ server' = "open" /\ UNCHANGED listenOk /\ Fault
    /\ ClosesHandles

\* a loop that goes on listening hands its connections to sessions that are freed
AcceptsLate(k) ==
    /\ boss = "stopped" /\ server = "listening" /\ client[k] = "backlog"
    /\ crashed' = TRUE
    /\ UNCHANGED <<mainVars, bossVars, task, workerVars, clientVars, faults>>

\* uv_run returns when no handle is active
BossEnds ==
    /\ boss = "stopped" /\ server # "listening"
    /\ boss' = "ended"
    /\ server' = IF server = "open" THEN "closed" ELSE server
    /\ UNCHANGED <<mainVars, pipe, session, ready, listenOk, task, workerVars, clientVars,
                   crashed, faults>>

-----------------------------------------------------------------------------
(* The workers *)

\* the task of connectIpc
WorkerConnects(i) ==
    /\ worker[i] = "loop" /\ ipc[i] = "asked"
    /\ ipc' = [ipc EXCEPT ![i] = IF pipe[i] = "listening" THEN "connecting" ELSE "refused"]
    /\ UNCHANGED <<mainVars, bossVars, task, worker, workerStop, clientVars, crashed,
                   faults>>

\* uv_ipc_read_cb
Adopts(k) ==
    /\ client[k] = "piped" /\ worker[to[k]] = "loop" /\ ipc[to[k]] = "up"
    /\ client' = [client EXCEPT ![k] = "adopted"]
    /\ UNCHANGED <<HandoffVars, next, to, faults>>

\* uv_ipc_read_cb: the boss closed its end, and all that was written is read
WorkerSeesEnd(i) ==
    /\ worker[i] = "loop" /\ ipc[i] = "up" /\ session[i] = "closed"
    /\ \A k \in Clients : ~(client[k] = "piped" /\ to[k] = i)
    /\ ipc' = [ipc EXCEPT ![i] = "closed"]
    /\ UNCHANGED <<mainVars, bossVars, task, worker, workerStop, clientVars, crashed,
                   faults>>

\* another thread is in the middle of Channel::close on a connection of i when it stops:
\* its loop never ends then (EventLoop!StopTerminates)
CloseUnderWay(i) == \E k \in Clients : client[k] = "adopted" /\ to[k] = i

\* onStopTriggered to the end of the thread, or to where it can get; the task of
\* connectIpc came before
WorkerStops(i) ==
    /\ worker[i] = "loop" /\ workerStop[i] /\ ipc[i] # "asked"
    /\ \E end \in {"ended", "stuck"} :
         /\ end = "stuck" => CloseUnderWay(i)
         /\ worker' = [worker EXCEPT ![i] = end]
    /\ ipc' = [ipc EXCEPT ![i] = "closed"]
    /\ client' = [k \in Clients |-> IF client[k] = "piped" /\ to[k] = i
                                    THEN "dropped" ELSE client[k]]
    /\ UNCHANGED <<mainVars, bossVars, task, workerStop, next, to, crashed, faults>>

-----------------------------------------------------------------------------
MainSteps ==
    \/ StartBoss \/ BossStarted \/ StartWorkers \/ ConnectIpc
    \/ WaitReady \/ WaitListening
    \/ StopBoss \/ StopWorkers \/ JoinBoss \/ JoinWorkers

BossSteps ==
    \/ BossUp \/ Listens \/ BossStops \/ BossStopsLate \/ BossEnds
    \/ \E i \in Workers : PipeConnection(i)
    \/ \E k \in Clients : Handoff(k) \/ HandoffDone(k) \/ AcceptsLate(k)

WorkerSteps(i) ==
    \/ WorkerConnects(i) \/ WorkerSeesEnd(i) \/ WorkerStops(i)
    \/ \E k \in Clients : to[k] = i /\ Adopts(k)

Faulty ==
    \/ BossAborts \/ ListenFails
    \/ \E i \in Workers : BossStopsItself(i) \/ PipeConnectionFails(i)
    \/ \E k \in Clients : HandoffErrs(k) \/ \E i \in Workers : HandoffFails(k, i)

StartNext ==
    /\ ~crashed
    /\ \/ MainSteps \/ BossSteps \/ \E i \in Workers : WorkerSteps(i)
       \/ Faulty \/ Quit \/ \E k \in Clients : Connects(k)

\* no thread stops for ever where it can go on, and a wait returns in the end
StartFairness ==
    /\ WF_startVars(~crashed /\ MainSteps)
    /\ WF_startVars(~crashed /\ BossSteps)
    /\ \A i \in Workers : WF_startVars(~crashed /\ WorkerSteps(i))

StartSpec == StartInit /\ [][StartNext]_startVars /\ StartFairness

-----------------------------------------------------------------------------
(***************************************************************************)
(* start returns true only when the port is listened on and every worker   *)
(* has its session at the boss (AthenaTcpServer.cpp:48-66), whichever      *)
(* calls failed and whichever wait timed out before.                       *)
(***************************************************************************)
StartedIsReady ==
    main = "serving" /\ ~stopping =>
        /\ server = "listening"
        /\ \A i \in Workers : worker[i] = "loop" /\ session[i] = "up" /\ ipc[i] = "up"

(***************************************************************************)
(* Until stop begins every connection the boss accepts is handed to a      *)
(* worker, or its own uv_write2 failed: the port is never a black hole     *)
(* (ServerEventLoop.cpp:110-112).                                          *)
(***************************************************************************)
NoneDropped == \A k \in Clients : client[k] = "dropped" => stopping

\* a worker that waits for the close of a connection, or a boss that listens again
Hangs ==
    \/ \E i \in Workers : worker[i] = "stuck"
    \/ boss = "stopped" /\ task = "late" /\ server = "listening"

(***************************************************************************)
(* start returns and stop returns, with all threads ended, whatever fails  *)
(* and whenever a wait times out (AthenaTcpServer.h:30-34).  Three cases   *)
(* are excepted: a failed initIpcServers has the boss close handles that   *)
(* were never initialised (ServerEventLoop.cpp:250-254); a worker's loop   *)
(* never ends, as another thread was closing one of its connections        *)
(* (EventLoop.cpp:326, the run close_vs_stop); the task of startListen     *)
(* runs only after onStopTriggered looked at server_ (EventLoop.cpp:327).  *)
(***************************************************************************)
StartAndStopEnd == []<>(main \in {"serving", "down"} \/ crashed \/ Hangs)
=============================================================================
