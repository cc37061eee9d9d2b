--------------------------- MODULE EventLoopProofs ---------------------------
(***************************************************************************)
(* Proofs about EventLoop, for every set of connections and threads, every  *)
(* budget, with and without heartbeat timers: type correctness, one         *)
(* teardown per closed channel, and no callback for a released channel.     *)
(***************************************************************************)
EXTENDS EventLoop, TLAPS

-----------------------------------------------------------------------------
(* Queues.                                                                 *)

\* What a push adds to a queue: exactly the pushed task.
LEMMA PushIn ==
    ASSUME NEW T, NEW s \in Seq(T), NEW e \in T, NEW x
    PROVE  /\ Append(s, e) \in Seq(T)
           /\ In(Append(s, e), x) <=> In(s, x) \/ e = x
           /\ Once(s, x) /\ (e = x => ~In(s, x)) => Once(Append(s, e), x)
<1>1. /\ Append(s, e) \in Seq(T)
      /\ Len(Append(s, e)) = Len(s) + 1
      /\ \A i \in 1 .. Len(s) : Append(s, e)[i] = s[i]
      /\ Append(s, e)[Len(s) + 1] = e
  OBVIOUS
<1>2. /\ DOMAIN s = 1 .. Len(s) /\ Len(s) \in Nat
      /\ DOMAIN Append(s, e) = 1 .. Len(s) + 1
  BY <1>1
<1>3. In(Append(s, e), x) <=> In(s, x) \/ e = x
  <2>1. ASSUME In(s, x) PROVE In(Append(s, e), x)
    BY <2>1, <1>1, <1>2 DEF In
  <2>2. ASSUME e = x PROVE In(Append(s, e), x)
    <3>1. Len(s) + 1 \in DOMAIN Append(s, e)
      BY <1>2
    <3> QED BY <2>2, <3>1, <1>1 DEF In
  <2>3. ASSUME In(Append(s, e), x), e # x PROVE In(s, x)
    BY <2>3, <1>1, <1>2 DEF In
  <2> QED BY <2>1, <2>2, <2>3
<1>4. ASSUME Once(s, x), e = x => ~In(s, x)
      PROVE  Once(Append(s, e), x)
  <2> SUFFICES ASSUME NEW i \in 1 .. Len(s) + 1, NEW j \in 1 .. Len(s) + 1,
                      Append(s, e)[i] = x, Append(s, e)[j] = x
               PROVE  i = j
    BY <1>2 DEF Once
  <2>1. CASE e # x
    BY <2>1, <1>1, <1>2, <1>4 DEF Once
  <2>2. CASE e = x
    <3>1. \A k \in 1 .. Len(s) : s[k] # x
      BY <2>2, <1>2, <1>4 DEF In
    <3> QED BY <3>1, <1>1, <1>2
  <2> QED BY <2>1, <2>2
<1> QED BY <1>1, <1>3, <1>4

\* What a pop takes from a queue: one occurrence of its head.
LEMMA PopIn ==
    ASSUME NEW T, NEW s \in Seq(T), s # <<>>, NEW x
    PROVE  /\ Tail(s) \in Seq(T)
           /\ Head(s) \in T
           /\ In(s, Head(s))
           /\ In(Tail(s), x) => In(s, x)
           /\ In(s, x) /\ Head(s) # x => In(Tail(s), x)
           /\ Once(s, x) => Once(Tail(s), x)
           /\ Once(s, x) /\ Head(s) = x => ~In(Tail(s), x)
<1>1. /\ Tail(s) \in Seq(T)
      /\ Len(s) \in Nat \ {0}
      /\ Len(Tail(s)) = Len(s) - 1
      /\ \A i \in 1 .. Len(s) - 1 : Tail(s)[i] = s[i + 1]
      /\ Head(s) = s[1]
      /\ Head(s) \in T
  OBVIOUS
<1>2. /\ DOMAIN s = 1 .. Len(s)
      /\ DOMAIN Tail(s) = 1 .. Len(s) - 1
  BY <1>1
<1>3. \A i \in DOMAIN Tail(s) : i + 1 \in DOMAIN s /\ Tail(s)[i] = s[i + 1]
  BY <1>1, <1>2
<1>4. In(s, Head(s))
  BY <1>1, <1>2 DEF In
<1>5. In(Tail(s), x) => In(s, x)
  BY <1>3 DEF In
<1>6. ASSUME In(s, x), Head(s) # x PROVE In(Tail(s), x)
  <2>1. PICK i \in 1 .. Len(s) : s[i] = x
    BY <1>6, <1>2 DEF In
  <2>2. i # 1
    BY <2>1, <1>1, <1>6
  <2>3. i - 1 \in 1 .. Len(s) - 1 /\ (i - 1) + 1 = i
    BY <2>2, <1>1
  <2>4. i - 1 \in DOMAIN Tail(s) /\ Tail(s)[i - 1] = x
    BY <2>1, <2>3, <1>2, <1>3
  <2> QED BY <2>4 DEF In
<1>7. ASSUME Once(s, x) PROVE Once(Tail(s), x)
  <2> SUFFICES ASSUME NEW i \in DOMAIN Tail(s), NEW j \in DOMAIN Tail(s),
                      Tail(s)[i] = x, Tail(s)[j] = x
               PROVE  i = j
    BY DEF Once
  <2>1. i + 1 = j + 1
    BY <1>3, <1>7 DEF Once
  <2> QED BY <2>1, <1>2, <1>1
<1>8. ASSUME Once(s, x), Head(s) = x, In(Tail(s), x) PROVE FALSE
  <2>1. PICK i \in DOMAIN Tail(s) : Tail(s)[i] = x
    BY <1>8 DEF In
  <2>2. i + 1 \in DOMAIN s /\ s[i + 1] = x /\ 1 \in DOMAIN s /\ s[1] = x
    BY <2>1, <1>1, <1>2, <1>3, <1>8
  <2>3. i + 1 = 1
    BY <2>2, <1>8 DEF Once
  <2> QED BY <2>1, <2>3, <1>1, <1>2
<1> QED BY <1>1, <1>4, <1>5, <1>6, <1>7, <1>8

-----------------------------------------------------------------------------
(* Owed tasks.                                                             *)

Queues == [Producers -> Seq(Task)]

Pushed(q, p, e) == [q EXCEPT ![p] = Append(@, e)]
Popped(q, p)    == [q EXCEPT ![p] = Tail(@)]

\* A thread that begins an operation becomes the only one to owe its task.
LEMMA CarryOwed ==
    ASSUME NEW q \in Queues, NEW k, NEW x, NEW p0 \in Producers,
           Sole(q, k, x), ~Owed(q, k, x)
    PROVE  Sole(q, k \cup {p0}, x) /\ Owed(q, k \cup {p0}, x)
BY DEF Sole, Owed

\* A push hands the task from its carrier to the queue, or adds a new one, and
\* leaves what is owed of any other task alone.
LEMMA PushOwed ==
    ASSUME NEW q \in Queues, NEW k, NEW x, NEW p0 \in Producers, NEW e \in Task
    PROVE  /\ Pushed(q, p0, e) \in Queues
           /\ e # x => /\ Owed(Pushed(q, p0, e), k, x) <=> Owed(q, k, x)
                       /\ Sole(q, k, x) => Sole(Pushed(q, p0, e), k, x)
           /\ e = x => /\ Owed(Pushed(q, p0, e), k, x)
                       /\ Sole(q, k, x) /\ ~Owed(q, k, x) => Sole(Pushed(q, p0, e), k, x)
                       /\ Sole(q, k, x) /\ p0 \in k
                            => Sole(Pushed(q, p0, e), k \ {p0}, x) /\ Owed(Pushed(q, p0, e), k \ {p0}, x)
<1> DEFINE q1 == Pushed(q, p0, e)
<1>1. /\ q[p0] \in Seq(Task)
      /\ q1[p0] = Append(q[p0], e)
      /\ \A p \in Producers \ {p0} : q1[p] = q[p]
  BY DEF Queues, Pushed
<1> HIDE DEF q1
<1>2. /\ q1[p0] \in Seq(Task)
      /\ In(q1[p0], x) <=> In(q[p0], x) \/ e = x
      /\ Once(q[p0], x) /\ (e = x => ~In(q[p0], x)) => Once(q1[p0], x)
  BY <1>1, PushIn
<1>3. q1 \in Queues
  <2>1. q1 = [p \in Producers |-> q1[p]]
    BY DEF q1, Pushed, Queues
  <2> QED BY <1>1, <1>2, <2>1 DEF Queues
<1>4. ASSUME e # x
      PROVE  /\ Owed(q1, k, x) <=> Owed(q, k, x)
             /\ Sole(q, k, x) => Sole(q1, k, x)
  BY <1>1, <1>2, <1>4 DEF Owed, Sole
<1>5. ASSUME e = x PROVE Owed(q1, k, x)
  BY <1>2, <1>5 DEF Owed
<1>6. ASSUME e = x, Sole(q, k, x), ~Owed(q, k, x) PROVE Sole(q1, k, x)
  BY <1>1, <1>2, <1>6 DEF Owed, Sole
<1>7. ASSUME e = x, Sole(q, k, x), p0 \in k
      PROVE  Sole(q1, k \ {p0}, x) /\ Owed(q1, k \ {p0}, x)
  BY <1>1, <1>2, <1>7 DEF Owed, Sole
<1> QED BY <1>3, <1>4, <1>5, <1>6, <1>7 DEF q1

\* A pop settles what its head owed, and leaves any other task alone.
LEMMA PopOwed ==
    ASSUME NEW q \in Queues, NEW k, NEW x, NEW p0 \in Producers, q[p0] # <<>>
    PROVE  /\ Popped(q, p0) \in Queues
           /\ Head(q[p0]) \in Task
           /\ Owed(Popped(q, p0), k, x) => Owed(q, k, x)
           /\ Sole(q, k, x) => Sole(Popped(q, p0), k, x)
           /\ Head(q[p0]) # x => (Owed(Popped(q, p0), k, x) <=> Owed(q, k, x))
           /\ Head(q[p0]) = x => /\ Owed(q, k, x)
                                 /\ Sole(q, k, x) => ~Owed(Popped(q, p0), k, x)
<1> DEFINE q1 == Popped(q, p0)
<1>1. /\ q[p0] \in Seq(Task)
      /\ q1[p0] = Tail(q[p0])
      /\ \A p \in Producers \ {p0} : q1[p] = q[p]
  BY DEF Queues, Popped
<1> HIDE DEF q1
<1>2. /\ q1[p0] \in Seq(Task)
      /\ Head(q[p0]) \in Task
      /\ In(q[p0], Head(q[p0]))
      /\ In(q1[p0], x) => In(q[p0], x)
      /\ In(q[p0], x) /\ Head(q[p0]) # x => In(q1[p0], x)
      /\ Once(q[p0], x) => Once(q1[p0], x)
      /\ Once(q[p0], x) /\ Head(q[p0]) = x => ~In(q1[p0], x)
  BY <1>1, PopIn
<1>3. q1 \in Queues
  <2>1. q1 = [p \in Producers |-> q1[p]]
    BY DEF q1, Popped, Queues
  <2> QED BY <1>1, <1>2, <2>1 DEF Queues
<1>4. Owed(q1, k, x) => Owed(q, k, x)
  BY <1>1, <1>2 DEF Owed
<1>5. Sole(q, k, x) => Sole(q1, k, x)
  BY <1>1, <1>2 DEF Sole
<1>6. ASSUME Head(q[p0]) # x, Owed(q, k, x) PROVE Owed(q1, k, x)
  BY <1>1, <1>2, <1>6 DEF Owed
<1>7. ASSUME Head(q[p0]) = x PROVE Owed(q, k, x)
  BY <1>2, <1>7 DEF Owed
<1>8. ASSUME Head(q[p0]) = x, Sole(q, k, x) PROVE ~Owed(q1, k, x)
  BY <1>1, <1>2, <1>8 DEF Owed, Sole
<1> QED BY <1>2, <1>3, <1>4, <1>5, <1>6, <1>7, <1>8 DEF q1

-----------------------------------------------------------------------------
(* The inductive invariant.                                                *)

\* An asyncConnect is owed once, and only while its channel does not exist.
ConnectOnce ==
    \A c \in Conns :
        /\ OwedOnce(ConnectTask(c))
        /\ IsOwed(ConnectTask(c)) => c \in Outbound /\ tcp[c] = "none"

\* A send is only owed for a channel that exists.
SendKnown == \A c \in Conns : IsOwed(SendTask(c)) => tcp[c] # "none"

\* How the registry, the two handles and on_closed go together.
HandlesAgree ==
    \A c \in Conns :
        /\ c \in registry <=> tcp[c] # "none" /\ ~(tcp[c] = "closed" /\ timer[c] = "closed")
        /\ tcp[c] = "none" => ~closed[c] /\ timer[c] = "raw" /\ ~writing[c]
        /\ notified[c] = 1 <=> tcp[c] \in {"closing", "closed"}
        /\ timer[c] \in {"closing", "closed"} <=> tcp[c] \in {"closing", "closed"}
        /\ tcp[c] \in {"closing", "closed"} => closed[c]
        /\ tcp[c] = "closed" => ~writing[c]

\* Main only ever posts connectIpc; a registry lookup belongs to a close.
OpsAgree ==
    /\ op[Main] = IpcTask /\ tpc[Main] # "lookup"
    /\ \A t \in Threads : tpc[t] = "lookup" => op[t].kind = "close"

IInv == TypeOK /\ TeardownOnce /\ ConnectOnce /\ SendKnown /\ HandlesAgree /\ OpsAgree

\* Initially nothing is owed and no channel exists.
LEMMA InitIInv == Init => IInv
<1> SUFFICES ASSUME Init PROVE IInv
  OBVIOUS
<1> USE LoopAssumption
<1>1. TypeOK
  <2>1. IpcTask \in Task /\ <<>> \in Seq(Task)
    BY DEF Task
  <2>2. tasks \in [Producers -> Seq(Task)] /\ op \in [Threads \cup {Main} -> Task]
    BY <2>1 DEF Init
  <2>3. ops \in [Threads -> Nat] /\ notified \in [Conns -> 0 .. 1]
    BY DEF Init
  <2> QED BY <2>2, <2>3 DEF Init, TypeOK, Draining
<1>2. \A x : Carriers(tpc, op, x) = {}
  BY DEF Init, Carriers
<1>3. \A x : ~Owed(tasks, {}, x) /\ Sole(tasks, {}, x)
  <2>1. \A p \in Producers : tasks[p] = <<>> /\ DOMAIN tasks[p] = {}
    BY DEF Init
  <2> QED BY <2>1 DEF Owed, Sole, In, Once
<1>4. TeardownOnce /\ ConnectOnce /\ SendKnown
  BY <1>2, <1>3 DEF Init, IsOwed, OwedOnce, TeardownOnce, ConnectOnce, SendKnown
<1>5. HandlesAgree
  BY DEF Init, HandlesAgree
<1>6. OpsAgree
  BY DEF Init, OpsAgree
<1> QED BY <1>1, <1>4, <1>5, <1>6 DEF IInv

\* Steps of the loop thread that neither push nor pop.
LEMMA QuietLoopStep ==
    ASSUME IInv,
           \/ LoopStarts \/ LoopInitFails \/ AsyncWrite \/ StopTriggered
           \/ StopDrains \/ DrainEnds \/ RunReturns \/ IpcEof
           \/ \E ok \in BOOLEAN : IpcConnected(ok)
           \/ \E c \in Conns : Adopt(c) \/ Connected(c) \/ TcpClosed(c) \/ TimerClosed(c)
    PROVE  IInv'
<1> USE LoopAssumption
<1>1. /\ UNCHANGED <<tasks, tpc, op, ops, closed, notified, stopping, faults>>
      /\ wake' \in BOOLEAN /\ stopSig' \in BOOLEAN
      /\ asyncs' \in {"none", "open", "closed"}
      /\ ipc' \in {"none", "connecting", "open", "failed", "closed"}
      /\ lpc' \in {"new", "poll", "stopClose", "done", "aborted"} \cup Draining
  <2>1. CASE LoopStarts \/ LoopInitFails \/ AsyncWrite
    BY <2>1 DEF LoopStarts, LoopInitFails, AsyncWrite, chanVars, thrVars, IInv, TypeOK,
                Draining
  <2>2. CASE StopTriggered \/ StopDrains
    BY <2>2 DEF StopTriggered, StopDrains, IpcAfterClose, chanVars, thrVars, IInv, TypeOK,
                Draining
  <2>3. CASE DrainEnds \/ RunReturns
    BY <2>3 DEF DrainEnds, RunReturns, IpcAfterClose, chanVars, thrVars, IInv, TypeOK,
                Draining
  <2>4. CASE IpcEof \/ \E ok \in BOOLEAN : IpcConnected(ok)
    BY <2>4 DEF IpcEof, IpcConnected, IpcAfterClose, chanVars, thrVars, IInv, TypeOK
  <2>5. CASE \E c \in Conns : Adopt(c) \/ Connected(c) \/ TcpClosed(c) \/ TimerClosed(c)
    BY <2>5 DEF Adopt, Connected, TcpClosed, TimerClosed, loopVars, thrVars, IInv, TypeOK
  <2> QED BY <2>1, <2>2, <2>3, <2>4, <2>5
\* What becomes of the channels.
<1>2. \/ UNCHANGED <<tcp, timer, writing, registry>>
      \/ RunReturns
      \/ \E c \in Conns : Adopt(c) \/ Connected(c) \/ TcpClosed(c) \/ TimerClosed(c)
  BY DEF LoopStarts, LoopInitFails, AsyncWrite, StopTriggered, StopDrains, DrainEnds,
         IpcEof, IpcConnected, chanVars
<1>3. /\ tcp' \in [Conns -> {"none", "connecting", "reading", "idle",
                             "closing", "closed", "walked"}]
      /\ timer' \in [Conns -> {"raw", "active", "closing", "closed"}]
      /\ writing' \in [Conns -> BOOLEAN]
      /\ registry' \in SUBSET Conns
  <2>1. CASE RunReturns
    BY <2>1 DEF RunReturns, IInv, TypeOK
  <2>2. CASE \E c \in Conns : Adopt(c) \/ Connected(c) \/ TcpClosed(c) \/ TimerClosed(c)
    BY <2>2 DEF Adopt, Connected, TcpClosed, TimerClosed, StartTimer, IInv, TypeOK
  <2> QED BY <1>2, <2>1, <2>2 DEF IInv, TypeOK
<1>4. /\ HandlesAgree'
      /\ \A c \in Conns : /\ tcp'[c] = "none" => tcp[c] = "none"
                          /\ tcp[c] = "none" /\ c \in Outbound => tcp'[c] = "none"
  <2>1. CASE RunReturns
    BY <1>1, <2>1 DEF RunReturns, IInv, TypeOK, HandlesAgree
  <2>2. CASE \E c \in Conns : Adopt(c) \/ Connected(c)
    BY <1>1, <2>2 DEF Adopt, Connected, StartTimer, IInv, TypeOK, HandlesAgree
  <2>3. CASE \E c \in Conns : TcpClosed(c) \/ TimerClosed(c)
    BY <1>1, <2>3 DEF TcpClosed, TimerClosed, IInv, TypeOK, HandlesAgree
  <2> QED BY <1>1, <1>2, <2>1, <2>2, <2>3 DEF IInv, HandlesAgree
<1>5. TypeOK'
  BY <1>1, <1>3 DEF IInv, TypeOK
<1>6. TeardownOnce'
  BY <1>1 DEF IInv, TeardownOnce, IsOwed, OwedOnce
<1>7. ConnectOnce' /\ SendKnown'
  BY <1>1, <1>4 DEF IInv, ConnectOnce, SendKnown, IsOwed, OwedOnce
<1>8. OpsAgree'
  BY <1>1 DEF IInv, OpsAgree
<1> QED BY <1>4, <1>5, <1>6, <1>7, <1>8 DEF IInv

-----------------------------------------------------------------------------
(* Steps that close a channel on the loop thread.                          *)

\* The tasks are distinct, and tasks.
LEMMA TaskFacts ==
    ASSUME NEW c \in Conns, NEW d \in Conns
    PROVE  /\ CloseTask(c) \in Task /\ SendTask(c) \in Task /\ ConnectTask(c) \in Task
           /\ CloseTask(c) = CloseTask(d) <=> c = d
           /\ SendTask(c) = SendTask(d) <=> c = d
           /\ ConnectTask(c) = ConnectTask(d) <=> c = d
           /\ CloseTask(c) # SendTask(d)
           /\ CloseTask(c) # ConnectTask(d)
           /\ SendTask(c) # ConnectTask(d)
           /\ IpcTask \in Task
           /\ IpcTask # CloseTask(c) /\ IpcTask # SendTask(c) /\ IpcTask # ConnectTask(c)
BY DEF CloseTask, SendTask, ConnectTask, IpcTask, Task

\* The invariants on owed tasks, over the queues q.
OwedInv(q) ==
    \A c \in Conns :
        /\ Sole(q, Carriers(tpc, op, CloseTask(c)), CloseTask(c))
        /\ Owed(q, Carriers(tpc, op, CloseTask(c)), CloseTask(c))
                <=> closed[c] /\ notified[c] = 0
        /\ Sole(q, Carriers(tpc, op, ConnectTask(c)), ConnectTask(c))
        /\ Owed(q, Carriers(tpc, op, ConnectTask(c)), ConnectTask(c))
                => c \in Outbound /\ tcp[c] = "none"
        /\ Owed(q, Carriers(tpc, op, SendTask(c)), SendTask(c)) => tcp[c] # "none"

LEMMA OwedInvIs == OwedInv(tasks) <=> TeardownOnce /\ ConnectOnce /\ SendKnown
BY DEF OwedInv, TeardownOnce, ConnectOnce, SendKnown, IsOwed, OwedOnce

\* LoopCloses leaves every task but the close of c alone, and owes that one
\* exactly when the exchange was its own.
LEMMA LoopClosesOwed ==
    ASSUME TypeOK, HandlesAgree, NEW q \in Queues, OwedInv(q),
           NEW c \in Conns, LoopCloses(c, q), UNCHANGED <<tpc, op, notified>>,
           \A d \in Conns :
                /\ tcp'[d] = "none" => tcp[d] = "none"
                /\ tcp'[d] # tcp[d]
                    => ~Owed(q, Carriers(tpc, op, ConnectTask(d)), ConnectTask(d))
    PROVE  /\ tasks' \in Queues /\ closed' \in [Conns -> BOOLEAN] /\ wake' \in BOOLEAN
           /\ TeardownOnce' /\ ConnectOnce' /\ SendKnown'
<1>1. /\ closed' \in [Conns -> BOOLEAN] /\ closed'[c]
      /\ \A d \in Conns \ {c} : closed'[d] = closed[d]
  BY DEF LoopCloses, TypeOK
<1>2. wake' \in BOOLEAN
  BY DEF LoopCloses, TypeOK
<1>3. CASE closed[c]
  <2>1. tasks' = q /\ closed' = closed
    BY <1>3, <1>1 DEF LoopCloses, TypeOK
  <2> QED
    BY <1>1, <1>2, <2>1 DEF OwedInv, TeardownOnce, ConnectOnce, SendKnown, IsOwed, OwedOnce
<1>4. CASE ~closed[c]
  <2>1. tasks' = Pushed(q, Loop, CloseTask(c)) /\ Loop \in Producers
    BY <1>4 DEF LoopCloses, Producers, Pushed
  <2>2. \A k, x : /\ tasks' \in Queues
                  /\ CloseTask(c) # x => /\ Owed(tasks', k, x) <=> Owed(q, k, x)
                                         /\ Sole(q, k, x) => Sole(tasks', k, x)
                  /\ CloseTask(c) = x
                        => /\ Owed(tasks', k, x)
                           /\ Sole(q, k, x) /\ ~Owed(q, k, x) => Sole(tasks', k, x)
    <3> SUFFICES ASSUME NEW k, NEW x
                 PROVE  /\ tasks' \in Queues
                        /\ CloseTask(c) # x => /\ Owed(tasks', k, x) <=> Owed(q, k, x)
                                               /\ Sole(q, k, x) => Sole(tasks', k, x)
                        /\ CloseTask(c) = x
                            => /\ Owed(tasks', k, x)
                               /\ Sole(q, k, x) /\ ~Owed(q, k, x) => Sole(tasks', k, x)
      OBVIOUS
    <3>1. CloseTask(c) \in Task
      BY TaskFacts
    <3> QED BY <2>1, <3>1, PushOwed
  <2>3. notified[c] = 0
    BY <1>4 DEF HandlesAgree, TypeOK
  <2>4. TeardownOnce'
    <3> SUFFICES ASSUME NEW d \in Conns
                 PROVE  /\ Sole(tasks', Carriers(tpc, op, CloseTask(d)), CloseTask(d))
                        /\ Owed(tasks', Carriers(tpc, op, CloseTask(d)), CloseTask(d))
                                <=> closed'[d] /\ notified[d] = 0
      BY DEF TeardownOnce, IsOwed, OwedOnce
    <3>1. /\ Sole(q, Carriers(tpc, op, CloseTask(d)), CloseTask(d))
          /\ Owed(q, Carriers(tpc, op, CloseTask(d)), CloseTask(d))
                    <=> closed[d] /\ notified[d] = 0
      BY DEF OwedInv
    <3>2. CASE d = c
      BY <1>1, <1>4, <2>2, <2>3, <3>1, <3>2
    <3>3. CASE d # c
      <4>1. CloseTask(c) # CloseTask(d)
        BY <3>3, TaskFacts
      <4>2. closed'[d] = closed[d]
        BY <1>1, <3>3
      <4> QED BY <2>2, <3>1, <4>1, <4>2
    <3> QED BY <3>2, <3>3
  <2>5. ConnectOnce'
    BY <2>2, TaskFacts DEF OwedInv, ConnectOnce, IsOwed, OwedOnce
  <2>6. SendKnown'
    BY <2>2, TaskFacts DEF OwedInv, SendKnown, IsOwed
  <2> QED BY <1>1, <1>2, <2>2, <2>4, <2>5, <2>6
<1> QED BY <1>3, <1>4

\* A callback or the stop sequence closes a channel.
LEMMA LoopCloseStep ==
    ASSUME IInv, NEW c \in Conns,
           \/ StopCloses(c) \/ ConnectFails(c) \/ ReadEnds(c)
           \/ CallbackCloses(c) \/ WriteCompletes(c)
    PROVE  IInv'
<1>1. /\ UNCHANGED <<tpc, op, ops, notified, registry, timer, stopSig, stopping,
                     asyncs, ipc, lpc, faults>>
      /\ LoopCloses(c, tasks) \/ UNCHANGED <<closed, tasks, wake>>
  BY DEF StopCloses, ConnectFails, ReadEnds, CallbackCloses, WriteCompletes, thrVars
<1>2. /\ tcp[c] # "none"
      /\ \/ tcp' = tcp
         \/ tcp[c] \in {"connecting", "reading"} /\ tcp' = [tcp EXCEPT ![c] = "idle"]
      /\ writing' = writing \/ writing' = [writing EXCEPT ![c] = FALSE]
  BY DEF StopCloses, ConnectFails, ReadEnds, CallbackCloses, WriteCompletes, IInv, HandlesAgree
<1>3. /\ tcp' \in [Conns -> {"none", "connecting", "reading", "idle",
                             "closing", "closed", "walked"}]
      /\ writing' \in [Conns -> BOOLEAN]
      /\ \A d \in Conns \ {c} : tcp'[d] = tcp[d] /\ writing'[d] = writing[d]
      /\ tcp'[c] # tcp[c] => tcp[c] \in {"connecting", "reading"} /\ tcp'[c] = "idle"
      /\ writing'[c] => writing[c]
  BY <1>2 DEF IInv, TypeOK
<1>4. /\ tasks' \in Queues /\ closed' \in [Conns -> BOOLEAN] /\ wake' \in BOOLEAN
      /\ TeardownOnce' /\ ConnectOnce' /\ SendKnown'
  <2>1. tasks \in Queues /\ OwedInv(tasks)
    BY OwedInvIs DEF IInv, TypeOK, Queues
  <2>2. \A d \in Conns :
            /\ tcp'[d] = "none" => tcp[d] = "none"
            /\ tcp'[d] # tcp[d]
                => ~Owed(tasks, Carriers(tpc, op, ConnectTask(d)), ConnectTask(d))
    BY <1>3, <1>2, <2>1 DEF OwedInv
  <2>3. CASE LoopCloses(c, tasks)
    BY <1>1, <2>1, <2>2, <2>3, LoopClosesOwed DEF IInv
  <2>4. CASE UNCHANGED <<closed, tasks, wake>>
    <3>1. tasks' \in Queues /\ closed' \in [Conns -> BOOLEAN] /\ wake' \in BOOLEAN
      BY <2>1, <2>4 DEF IInv, TypeOK
    <3> QED BY <1>1, <2>1, <2>2, <2>4, <3>1
            DEF OwedInv, TeardownOnce, ConnectOnce, SendKnown, IsOwed, OwedOnce
  <2> QED BY <1>1, <2>3, <2>4
<1>5. TypeOK'
  BY <1>1, <1>3, <1>4 DEF IInv, TypeOK, Queues
<1>6. HandlesAgree'
  <2>1. \A d \in Conns : (closed[d] => closed'[d]) /\ (d # c => closed'[d] = closed[d])
    BY <1>1 DEF LoopCloses, IInv, TypeOK
  <2> QED BY <1>1, <1>2, <1>3, <2>1 DEF IInv, HandlesAgree
<1>7. OpsAgree'
  BY <1>1 DEF IInv, OpsAgree
<1> QED BY <1>4, <1>5, <1>6, <1>7 DEF IInv

-----------------------------------------------------------------------------
(* Steps that run a task.                                                  *)

\* Every task is one of the four.
LEMMA TaskCases ==
    ASSUME NEW e \in Task
    PROVE  \/ e = IpcTask /\ e.kind = "ipc"
           \/ e.kind = "close" /\ e.ch \in Conns /\ e = CloseTask(e.ch)
           \/ e.kind = "send" /\ e.ch \in Conns /\ e = SendTask(e.ch)
           \/ e.kind = "connect" /\ e.ch \in Conns /\ e = ConnectTask(e.ch)
BY DEF Task, IpcTask, CloseTask, SendTask, ConnectTask

\* What is known of the task at the head of a queue, and of what is still owed
\* once it has been popped.
LEMMA PopInv ==
    ASSUME IInv, NEW p \in Producers, tasks[p] # <<>>
    PROVE  LET q == Popped(tasks, p)
               e == Head(tasks[p])
           IN  /\ q \in Queues /\ e \in Task
               /\ (\A c \in Conns : e # CloseTask(c)) => OwedInv(q)
               /\ \A c \in Conns :
                    /\ Sole(q, Carriers(tpc, op, CloseTask(c)), CloseTask(c))
                    /\ e # CloseTask(c)
                        => (Owed(q, Carriers(tpc, op, CloseTask(c)), CloseTask(c))
                                <=> closed[c] /\ notified[c] = 0)
                    /\ e = CloseTask(c)
                        => /\ closed[c] /\ notified[c] = 0
                           /\ ~Owed(q, Carriers(tpc, op, CloseTask(c)), CloseTask(c))
                    /\ Sole(q, Carriers(tpc, op, ConnectTask(c)), ConnectTask(c))
                    /\ Owed(q, Carriers(tpc, op, ConnectTask(c)), ConnectTask(c))
                            => c \in Outbound /\ tcp[c] = "none"
                    /\ e = ConnectTask(c)
                        => /\ c \in Outbound /\ tcp[c] = "none"
                           /\ ~Owed(q, Carriers(tpc, op, ConnectTask(c)), ConnectTask(c))
                    /\ Owed(q, Carriers(tpc, op, SendTask(c)), SendTask(c)) => tcp[c] # "none"
                    /\ e = SendTask(c) => tcp[c] # "none"
<1> DEFINE q == Popped(tasks, p)
           e == Head(tasks[p])
<1>1. tasks \in Queues
  BY DEF IInv, TypeOK, Queues
<1>2. q \in Queues /\ e \in Task
  BY <1>1, PopOwed
<1>3. \A k, x : /\ Owed(q, k, x) => Owed(tasks, k, x)
                /\ Sole(tasks, k, x) => Sole(q, k, x)
                /\ e # x => (Owed(q, k, x) <=> Owed(tasks, k, x))
                /\ e = x => /\ Owed(tasks, k, x)
                            /\ Sole(tasks, k, x) => ~Owed(q, k, x)
  BY <1>1, PopOwed
<1>4. OwedInv(tasks)
  BY OwedInvIs DEF IInv
<1> HIDE DEF q, e
<1>5. ASSUME NEW c \in Conns
      PROVE  /\ Sole(q, Carriers(tpc, op, CloseTask(c)), CloseTask(c))
             /\ e # CloseTask(c)
                    => (Owed(q, Carriers(tpc, op, CloseTask(c)), CloseTask(c))
                            <=> closed[c] /\ notified[c] = 0)
             /\ e = CloseTask(c)
                    => /\ closed[c] /\ notified[c] = 0
                       /\ ~Owed(q, Carriers(tpc, op, CloseTask(c)), CloseTask(c))
  BY <1>3, <1>4 DEF OwedInv
<1>6. ASSUME NEW c \in Conns
      PROVE  /\ Sole(q, Carriers(tpc, op, ConnectTask(c)), ConnectTask(c))
             /\ Owed(q, Carriers(tpc, op, ConnectTask(c)), ConnectTask(c))
                    => c \in Outbound /\ tcp[c] = "none"
             /\ e = ConnectTask(c)
                    => /\ c \in Outbound /\ tcp[c] = "none"
                       /\ ~Owed(q, Carriers(tpc, op, ConnectTask(c)), ConnectTask(c))
  BY <1>3, <1>4 DEF OwedInv
<1>7. ASSUME NEW c \in Conns
      PROVE  /\ Owed(q, Carriers(tpc, op, SendTask(c)), SendTask(c)) => tcp[c] # "none"
             /\ e = SendTask(c) => tcp[c] # "none"
  BY <1>3, <1>4 DEF OwedInv
<1>8. (\A c \in Conns : e # CloseTask(c)) => OwedInv(q)
  BY <1>5, <1>6, <1>7 DEF OwedInv
<1> QED BY <1>2, <1>5, <1>6, <1>7, <1>8 DEF q, e

\* The close of a channel: its one closeInLoop.
LEMMA CloseInLoopStep ==
    ASSUME IInv, NEW p \in Producers, tasks[p] # <<>>, NEW c \in Conns,
           Head(tasks[p]) = CloseTask(c), CloseInLoop(c, Popped(tasks, p)),
           lpc \in Draining, UNCHANGED <<thrVars, stopSig, stopping, asyncs>>
    PROVE  IInv'
<1> DEFINE q == Popped(tasks, p)
<1>1. /\ tasks' = q /\ q \in Queues
      /\ UNCHANGED <<tpc, op, ops, closed, writing, registry, wake, ipc,
                     stopSig, stopping, asyncs>>
      /\ tcp' = [tcp EXCEPT ![c] = "closing"]
      /\ timer' = [timer EXCEPT ![c] = "closing"]
      /\ notified' = [notified EXCEPT ![c] = @ + 1]
      /\ lpc' \in {lpc, "aborted"}
      /\ faults' \in SUBSET {"rawTimerClosed", "closedTwice", "sendOnClosedAsync"}
  BY PopInv DEF CloseInLoop, Undefined, thrVars, IInv, TypeOK
<1>2. closed[c] /\ notified[c] = 0 /\ tcp[c] \notin {"none", "closing", "closed"}
  BY PopInv DEF IInv, HandlesAgree, TypeOK
<1>3. TypeOK'
  BY <1>1, <1>2 DEF IInv, TypeOK, Queues
<1>4. /\ tcp'[c] = "closing" /\ timer'[c] = "closing" /\ notified'[c] = 1
      /\ \A d \in Conns \ {c} : /\ tcp'[d] = tcp[d] /\ timer'[d] = timer[d]
                                /\ notified'[d] = notified[d]
  BY <1>1, <1>2 DEF IInv, TypeOK
<1>5. TeardownOnce' /\ ConnectOnce' /\ SendKnown'
  <2> HIDE DEF q
  <2>1. \A d \in Conns \ {c} : CloseTask(c) # CloseTask(d)
    BY TaskFacts
  <2>2. TeardownOnce'
    <3>1. ASSUME NEW d \in Conns \ {c}
          PROVE  /\ Sole(q, Carriers(tpc, op, CloseTask(d)), CloseTask(d))
                 /\ Owed(q, Carriers(tpc, op, CloseTask(d)), CloseTask(d))
                        <=> closed[d] /\ notified[d] = 0
      BY <2>1, PopInv DEF q
    <3>2. /\ Sole(q, Carriers(tpc, op, CloseTask(c)), CloseTask(c))
          /\ ~Owed(q, Carriers(tpc, op, CloseTask(c)), CloseTask(c))
      BY PopInv DEF q
    <3> QED BY <1>1, <1>4, <3>1, <3>2 DEF TeardownOnce, IsOwed, OwedOnce
  <2>3. ConnectOnce'
    <3>1. ASSUME NEW d \in Conns
          PROVE  /\ Sole(q, Carriers(tpc, op, ConnectTask(d)), ConnectTask(d))
                 /\ Owed(q, Carriers(tpc, op, ConnectTask(d)), ConnectTask(d))
                        => d \in Outbound /\ tcp[d] = "none"
      BY PopInv DEF q
    <3> QED BY <1>1, <1>2, <1>4, <3>1 DEF ConnectOnce, IsOwed, OwedOnce
  <2>4. SendKnown'
    <3>1. ASSUME NEW d \in Conns
          PROVE  Owed(q, Carriers(tpc, op, SendTask(d)), SendTask(d)) => tcp[d] # "none"
      BY PopInv DEF q
    <3> QED BY <1>1, <1>2, <1>4, <3>1 DEF SendKnown, IsOwed
  <2> QED BY <2>2, <2>3, <2>4
<1>6. HandlesAgree'
  BY <1>1, <1>2, <1>4 DEF IInv, HandlesAgree
<1>7. OpsAgree'
  BY <1>1 DEF IInv, OpsAgree
<1> QED BY <1>3, <1>5, <1>6, <1>7 DEF IInv

\* A send: the frame is dropped or joins a write, or the channel is closed.
LEMMA WriteInLoopStep ==
    ASSUME IInv, NEW p \in Producers, tasks[p] # <<>>, NEW c \in Conns,
           Head(tasks[p]) = SendTask(c), WriteInLoop(c, Popped(tasks, p)),
           UNCHANGED <<thrVars, stopSig, stopping, asyncs>>
    PROVE  IInv'
<1> DEFINE q == Popped(tasks, p)
<1>1. UNCHANGED <<tpc, op, ops, tcp, timer, notified, registry, ipc, lpc, faults,
                  stopSig, stopping, asyncs>>
  BY DEF WriteInLoop, thrVars
<1>2. q \in Queues /\ OwedInv(q) /\ tcp[c] # "none"
  BY PopInv, TaskFacts
<1>3. /\ writing' \in [Conns -> BOOLEAN]
      /\ \A d \in Conns : writing'[d] => writing[d] \/ (d = c /\ ~closed[c])
      /\ LoopCloses(c, q) \/ (tasks' = q /\ UNCHANGED <<closed, wake>>)
  <2> HIDE DEF q
  <2>1. \/ tasks' = q /\ UNCHANGED <<closed, writing, wake>>
        \/ /\ ~closed[c] /\ writing' = [writing EXCEPT ![c] = TRUE]
           /\ tasks' = q /\ UNCHANGED <<closed, wake>>
        \/ LoopCloses(c, q) /\ UNCHANGED writing
    BY DEF WriteInLoop, q
  <2>2. /\ writing' \in [Conns -> BOOLEAN]
        /\ \A d \in Conns : writing'[d] => writing[d] \/ (d = c /\ ~closed[c])
    BY <2>1 DEF IInv, TypeOK
  <2> QED BY <2>1, <2>2
<1> HIDE DEF q
<1>4. /\ tasks' \in Queues /\ closed' \in [Conns -> BOOLEAN] /\ wake' \in BOOLEAN
      /\ TeardownOnce' /\ ConnectOnce' /\ SendKnown'
  <2>1. CASE LoopCloses(c, q)
    BY <1>1, <1>2, <2>1, LoopClosesOwed DEF IInv
  <2>2. CASE tasks' = q /\ UNCHANGED <<closed, wake>>
    <3>1. tasks' \in Queues /\ closed' \in [Conns -> BOOLEAN] /\ wake' \in BOOLEAN
      BY <1>2, <2>2 DEF IInv, TypeOK
    <3> QED BY <1>1, <1>2, <2>2, <3>1
            DEF OwedInv, TeardownOnce, ConnectOnce, SendKnown, IsOwed, OwedOnce
  <2> QED BY <1>3, <2>1, <2>2
<1>5. TypeOK'
  BY <1>1, <1>3, <1>4 DEF IInv, TypeOK, Queues
<1>6. HandlesAgree'
  <2>1. \A d \in Conns : (closed[d] => closed'[d]) /\ (d # c => closed'[d] = closed[d])
    BY <1>3 DEF LoopCloses, IInv, TypeOK
  <2> QED BY <1>1, <1>2, <1>3, <2>1 DEF IInv, HandlesAgree
<1>7. OpsAgree'
  BY <1>1 DEF IInv, OpsAgree
<1> QED BY <1>4, <1>5, <1>6, <1>7 DEF IInv

\* An asyncConnect: the channel is created, unless the address is invalid.
LEMMA ConnectInLoopStep ==
    ASSUME IInv, NEW p \in Producers, tasks[p] # <<>>, NEW c \in Conns,
           Head(tasks[p]) = ConnectTask(c), ConnectInLoop(c, Popped(tasks, p)),
           UNCHANGED <<thrVars, stopSig, stopping, asyncs>>
    PROVE  IInv'
<1> DEFINE q == Popped(tasks, p)
<1>1. UNCHANGED <<tpc, op, ops, timer, writing, notified, ipc, lpc, faults,
                  stopSig, stopping, asyncs>>
  BY DEF ConnectInLoop, thrVars
<1>2. /\ q \in Queues /\ OwedInv(q) /\ tcp[c] = "none"
      /\ ~Owed(q, Carriers(tpc, op, ConnectTask(c)), ConnectTask(c))
  BY PopInv, TaskFacts
<1>3. /\ tcp' \in [Conns -> {"none", "connecting", "reading", "idle",
                             "closing", "closed", "walked"}]
      /\ registry' \in SUBSET Conns
      /\ \A d \in Conns \ {c} : tcp'[d] = tcp[d] /\ (d \in registry' <=> d \in registry)
      /\ \/ tcp' = tcp /\ registry' = registry /\ tasks' = q /\ UNCHANGED <<closed, wake>>
         \/ /\ tcp'[c] \in {"connecting", "idle"} /\ c \in registry'
            /\ LoopCloses(c, q) \/ (tasks' = q /\ UNCHANGED <<closed, wake>>)
  <2> HIDE DEF q
  <2>1. \/ tcp' = tcp /\ registry' = registry /\ tasks' = q /\ UNCHANGED <<closed, wake>>
        \/ /\ registry' = registry \cup {c}
           /\ \/ /\ tcp' = [tcp EXCEPT ![c] = "connecting"]
                 /\ tasks' = q /\ UNCHANGED <<closed, wake>>
              \/ tcp' = [tcp EXCEPT ![c] = "idle"] /\ LoopCloses(c, q)
    BY DEF ConnectInLoop, q
  <2>2. \/ tcp' = tcp /\ registry' = registry
        \/ /\ registry' = registry \cup {c}
           /\ \/ tcp' = [tcp EXCEPT ![c] = "connecting"]
              \/ tcp' = [tcp EXCEPT ![c] = "idle"]
    BY <2>1
  <2>3. /\ tcp' \in [Conns -> {"none", "connecting", "reading", "idle",
                                "closing", "closed", "walked"}]
        /\ registry' \in SUBSET Conns
        /\ \A d \in Conns \ {c} : tcp'[d] = tcp[d] /\ (d \in registry' <=> d \in registry)
        /\ \/ tcp' = tcp /\ registry' = registry
           \/ tcp'[c] \in {"connecting", "idle"} /\ c \in registry'
    BY <2>2 DEF IInv, TypeOK
  <2> QED BY <2>1, <2>3
<1> HIDE DEF q
<1>4. /\ tasks' \in Queues /\ closed' \in [Conns -> BOOLEAN] /\ wake' \in BOOLEAN
      /\ TeardownOnce' /\ ConnectOnce' /\ SendKnown'
  <2>1. \A d \in Conns :
            /\ tcp'[d] = "none" => tcp[d] = "none"
            /\ tcp'[d] # tcp[d]
                => ~Owed(q, Carriers(tpc, op, ConnectTask(d)), ConnectTask(d))
    BY <1>2, <1>3
  <2>2. CASE LoopCloses(c, q)
    BY <1>1, <1>2, <2>1, <2>2, LoopClosesOwed DEF IInv
  <2>3. CASE tasks' = q /\ UNCHANGED <<closed, wake>>
    <3>1. tasks' \in Queues /\ closed' \in [Conns -> BOOLEAN] /\ wake' \in BOOLEAN
      BY <1>2, <2>3 DEF IInv, TypeOK
    <3> QED BY <1>1, <1>2, <2>1, <2>3, <3>1
            DEF OwedInv, TeardownOnce, ConnectOnce, SendKnown, IsOwed, OwedOnce
  <2> QED BY <1>3, <2>2, <2>3
<1>5. TypeOK'
  BY <1>1, <1>3, <1>4 DEF IInv, TypeOK, Queues
<1>6. HandlesAgree'
  <2>1. \A d \in Conns : (closed[d] => closed'[d]) /\ (d # c => closed'[d] = closed[d])
    BY <1>3 DEF LoopCloses, IInv, TypeOK
  <2>2. tcp' = tcp => closed' = closed /\ registry' = registry
    BY <1>2, <1>3
  <2> QED BY <1>1, <1>2, <1>3, <2>1, <2>2 DEF IInv, HandlesAgree
<1>7. OpsAgree'
  BY <1>1 DEF IInv, OpsAgree
<1> QED BY <1>4, <1>5, <1>6, <1>7 DEF IInv

\* EventLoop::execute runs one task.
LEMMA RunTaskStep == ASSUME IInv, NEW p \in Producers, RunTask(p) PROVE IInv'
<1> DEFINE e == Head(tasks[p])
           q == Popped(tasks, p)
<1>1. /\ tasks[p] # <<>> /\ lpc \in Draining
      /\ UNCHANGED <<thrVars, stopSig, stopping, asyncs>>
      /\ \/ e.kind = "close"   /\ CloseInLoop(e.ch, q)
         \/ e.kind = "send"    /\ WriteInLoop(e.ch, q)
         \/ e.kind = "connect" /\ ConnectInLoop(e.ch, q)
         \/ e.kind = "ipc"     /\ IpcInLoop(q)
  BY DEF RunTask, Popped
<1>2. e \in Task /\ q \in Queues
  BY <1>1, PopInv
<1> HIDE DEF e, q
<1>3. CASE e.kind = "close"
  <2>1. e.ch \in Conns /\ e = CloseTask(e.ch) /\ CloseInLoop(e.ch, q)
    BY <1>1, <1>2, <1>3, TaskCases
  <2> QED BY <1>1, <2>1, CloseInLoopStep DEF e, q
<1>4. CASE e.kind = "send"
  <2>1. e.ch \in Conns /\ e = SendTask(e.ch) /\ WriteInLoop(e.ch, q)
    BY <1>1, <1>2, <1>4, TaskCases
  <2> QED BY <1>1, <2>1, WriteInLoopStep DEF e, q
<1>5. CASE e.kind = "connect"
  <2>1. e.ch \in Conns /\ e = ConnectTask(e.ch) /\ ConnectInLoop(e.ch, q)
    BY <1>1, <1>2, <1>5, TaskCases
  <2> QED BY <1>1, <2>1, ConnectInLoopStep DEF e, q
<1>6. CASE e.kind = "ipc"
  <2>1. e = IpcTask /\ IpcInLoop(q)
    BY <1>1, <1>2, <1>6, TaskCases
  <2>2. OwedInv(q)
    BY <1>1, <2>1, PopInv, TaskFacts DEF e, q
  <2>3. /\ UNCHANGED <<closed, tcp, timer, writing, notified, registry, wake, lpc, faults,
                       tpc, op, ops, stopSig, stopping, asyncs>>
        /\ tasks' = q /\ ipc' = "connecting"
    BY <1>1, <2>1 DEF IpcInLoop, chanVars, thrVars
  <2>4. TypeOK'
    BY <1>2, <2>3 DEF IInv, TypeOK, Queues
  <2>5. TeardownOnce' /\ ConnectOnce' /\ SendKnown'
    BY <2>2, <2>3 DEF OwedInv, TeardownOnce, ConnectOnce, SendKnown, IsOwed, OwedOnce
  <2>6. HandlesAgree' /\ OpsAgree'
    BY <2>3 DEF IInv, HandlesAgree, OpsAgree
  <2> QED BY <2>4, <2>5, <2>6 DEF IInv
<1> QED BY <1>1, <1>3, <1>4, <1>5, <1>6

-----------------------------------------------------------------------------
(* Steps of the threads.                                                   *)

\* A thread that begins an operation carries its task, and no other.
LEMMA BeginCarriers ==
    ASSUME TypeOK, NEW t \in Threads, NEW e \in Task, NEW to \in {"lookup", "push"},
           Begins(t, e, to)
    PROVE  /\ tpc' \in [Threads \cup {Main} ->
                    {"idle", "lookup", "push", "check", "send", "stop", "end"}]
           /\ op' \in [Threads \cup {Main} -> Task]
           /\ ops' \in [Threads -> Nat]
           /\ tpc'[t] = to /\ op'[t] = e
           /\ \A u \in (Threads \cup {Main}) \ {t} : tpc'[u] = tpc[u] /\ op'[u] = op[u]
           /\ Carriers(tpc', op', e) = Carriers(tpc, op, e) \cup {t}
           /\ \A x : x # e => Carriers(tpc', op', x) = Carriers(tpc, op, x)
<1>1. /\ tpc' \in [Threads \cup {Main} ->
                    {"idle", "lookup", "push", "check", "send", "stop", "end"}]
      /\ op' \in [Threads \cup {Main} -> Task]
      /\ ops' \in [Threads -> Nat]
      /\ tpc[t] = "idle" /\ tpc'[t] = to /\ op'[t] = e
      /\ \A u \in (Threads \cup {Main}) \ {t} : tpc'[u] = tpc[u] /\ op'[u] = op[u]
  BY DEF Begins, Goes, TypeOK
<1>2. Carriers(tpc', op', e) = Carriers(tpc, op, e) \cup {t}
  BY <1>1 DEF Carriers
<1>3. ASSUME NEW x, x # e PROVE Carriers(tpc', op', x) = Carriers(tpc, op, x)
  BY <1>1, <1>3 DEF Carriers
<1> QED BY <1>1, <1>2, <1>3

\* A thread wins the exchange of closed_.
LEMMA CloseBeginsStep ==
    ASSUME IInv, NEW t \in Threads, NEW c \in Conns, CloseBegins(t, c)
    PROVE  IInv'
<1> USE LoopAssumption
<1>1. /\ ~closed[c] /\ tcp[c] # "none" /\ closed' = [closed EXCEPT ![c] = TRUE]
      /\ UNCHANGED <<tcp, timer, writing, notified, registry, tasks, wake, stopSig,
                     stopping, asyncs, ipc, lpc, faults>>
      /\ Begins(t, CloseTask(c), "lookup")
  BY DEF CloseBegins, Known, loopVars
<1>2. CloseTask(c) \in Task /\ t \in Producers
  BY TaskFacts DEF Producers
<1>3. /\ tpc'[t] = "lookup" /\ op'[t] = CloseTask(c)
      /\ \A u \in (Threads \cup {Main}) \ {t} : tpc'[u] = tpc[u] /\ op'[u] = op[u]
      /\ Carriers(tpc', op', CloseTask(c)) = Carriers(tpc, op, CloseTask(c)) \cup {t}
      /\ \A x : x # CloseTask(c) => Carriers(tpc', op', x) = Carriers(tpc, op, x)
  BY <1>1, <1>2, BeginCarriers DEF IInv
<1>4. closed' \in [Conns -> BOOLEAN] /\ closed'[c] /\ \A d \in Conns \ {c} : closed'[d] = closed[d]
  BY <1>1 DEF IInv, TypeOK
<1>5. notified[c] = 0
  BY <1>1 DEF IInv, HandlesAgree, TypeOK
<1>6. TypeOK'
  BY <1>1, <1>2, <1>4, BeginCarriers DEF IInv, TypeOK
<1>7. TeardownOnce'
  <2>1. tasks \in Queues
    BY DEF IInv, TypeOK, Queues
  <2>2. /\ Sole(tasks, Carriers(tpc', op', CloseTask(c)), CloseTask(c))
        /\ Owed(tasks, Carriers(tpc', op', CloseTask(c)), CloseTask(c))
    <3>1. /\ Sole(tasks, Carriers(tpc, op, CloseTask(c)), CloseTask(c))
          /\ ~Owed(tasks, Carriers(tpc, op, CloseTask(c)), CloseTask(c))
      BY <1>1 DEF IInv, TeardownOnce, IsOwed, OwedOnce
    <3> QED BY <1>2, <1>3, <2>1, <3>1, CarryOwed
  <2>3. ASSUME NEW d \in Conns \ {c}
        PROVE  /\ Sole(tasks, Carriers(tpc', op', CloseTask(d)), CloseTask(d))
               /\ Owed(tasks, Carriers(tpc', op', CloseTask(d)), CloseTask(d))
                    <=> closed'[d] /\ notified[d] = 0
    <3>1. Carriers(tpc', op', CloseTask(d)) = Carriers(tpc, op, CloseTask(d))
      BY <1>3, TaskFacts
    <3> QED BY <1>4, <3>1 DEF IInv, TeardownOnce, IsOwed, OwedOnce
  <2> QED BY <1>1, <1>4, <1>5, <2>2, <2>3 DEF TeardownOnce, IsOwed, OwedOnce
<1>8. ConnectOnce' /\ SendKnown'
  <2>1. \A d \in Conns : SendTask(d) # CloseTask(c) /\ ConnectTask(d) # CloseTask(c)
    BY TaskFacts
  <2> QED BY <1>1, <1>3, <2>1 DEF IInv, ConnectOnce, SendKnown, IsOwed, OwedOnce
<1>9. HandlesAgree'
  BY <1>1, <1>4 DEF IInv, HandlesAgree
<1>10. OpsAgree'
  BY <1>3 DEF IInv, OpsAgree, CloseTask
<1> QED BY <1>6, <1>7, <1>8, <1>9, <1>10 DEF IInv

\* A thread begins a send or an asyncConnect.
LEMMA PostBeginsStep ==
    ASSUME IInv, NEW t \in Threads, NEW c \in Conns, SendBegins(t, c) \/ ConnectBegins(t, c)
    PROVE  IInv'
<1> USE LoopAssumption
<1>1. UNCHANGED <<closed, tcp, timer, writing, notified, registry, tasks, wake, stopSig,
                  stopping, asyncs, ipc, lpc, faults>>
  BY DEF SendBegins, ConnectBegins, chanVars, loopVars
<1>2. PICK e \in Task :
        /\ Begins(t, e, "push")
        /\ \/ e = SendTask(c) /\ tcp[c] # "none"
           \/ e = ConnectTask(c) /\ c \in Outbound /\ tcp[c] = "none" /\ ~IsOwed(e)
  <2>1. SendTask(c) \in Task /\ ConnectTask(c) \in Task
    BY TaskFacts
  <2> QED BY <2>1 DEF SendBegins, ConnectBegins, Known
<1>3. /\ tpc'[t] = "push" /\ op'[t] = e
      /\ \A u \in (Threads \cup {Main}) \ {t} : tpc'[u] = tpc[u] /\ op'[u] = op[u]
      /\ Carriers(tpc', op', e) = Carriers(tpc, op, e) \cup {t}
      /\ \A x : x # e => Carriers(tpc', op', x) = Carriers(tpc, op, x)
  BY <1>2, BeginCarriers DEF IInv
<1>4. TypeOK'
  <2>1. /\ tpc' \in [Threads \cup {Main} -> {"idle", "lookup", "push", "check", "send",
                                            "stop", "end"}]
        /\ op' \in [Threads \cup {Main} -> Task] /\ ops' \in [Threads -> Nat]
    BY <1>2, BeginCarriers DEF IInv
  <2> QED BY <1>1, <2>1 DEF IInv, TypeOK
<1>5. TeardownOnce'
  <2>1. \A d \in Conns : CloseTask(d) # e
    BY <1>2, TaskFacts
  <2> QED BY <1>1, <1>3, <2>1 DEF IInv, TeardownOnce, IsOwed, OwedOnce
<1>6. ConnectOnce'
  <2> SUFFICES ASSUME NEW d \in Conns
               PROVE  /\ Sole(tasks, Carriers(tpc', op', ConnectTask(d)), ConnectTask(d))
                      /\ Owed(tasks, Carriers(tpc', op', ConnectTask(d)), ConnectTask(d))
                            => d \in Outbound /\ tcp[d] = "none"
    BY <1>1 DEF ConnectOnce, IsOwed, OwedOnce
  <2>1. /\ Sole(tasks, Carriers(tpc, op, ConnectTask(d)), ConnectTask(d))
        /\ Owed(tasks, Carriers(tpc, op, ConnectTask(d)), ConnectTask(d))
                => d \in Outbound /\ tcp[d] = "none"
    BY DEF IInv, ConnectOnce, IsOwed, OwedOnce
  <2>2. CASE ConnectTask(d) # e
    BY <1>3, <2>1, <2>2
  <2>3. CASE ConnectTask(d) = e
    <3>1. d = c /\ c \in Outbound /\ tcp[c] = "none"
          /\ ~Owed(tasks, Carriers(tpc, op, ConnectTask(d)), ConnectTask(d))
      BY <1>2, <2>3, TaskFacts DEF IsOwed
    <3>2. tasks \in Queues /\ t \in Producers
      BY DEF IInv, TypeOK, Queues, Producers
    <3>3. Sole(tasks, Carriers(tpc, op, ConnectTask(d)) \cup {t}, ConnectTask(d))
      BY <2>1, <3>1, <3>2, CarryOwed
    <3> QED BY <1>3, <2>3, <3>1, <3>3
  <2> QED BY <2>2, <2>3
<1>7. SendKnown'
  <2> SUFFICES ASSUME NEW d \in Conns,
                      Owed(tasks, Carriers(tpc', op', SendTask(d)), SendTask(d))
               PROVE  tcp[d] # "none"
    BY <1>1 DEF SendKnown, IsOwed
  <2>1. CASE SendTask(d) # e
    BY <1>3, <2>1 DEF IInv, SendKnown, IsOwed
  <2>2. CASE SendTask(d) = e
    BY <1>2, <2>2, TaskFacts
  <2> QED BY <2>1, <2>2
<1>8. HandlesAgree'
  BY <1>1 DEF IInv, HandlesAgree
<1>9. OpsAgree'
  BY <1>3 DEF IInv, OpsAgree
<1> QED BY <1>4, <1>5, <1>6, <1>7, <1>8, <1>9 DEF IInv

\* The thread that won the exchange still finds its channel.
LEMMA LookupLemma == IInv => LookupSucceeds
<1> SUFFICES ASSUME IInv, NEW t \in Threads, tpc[t] = "lookup"
             PROVE  op[t].ch \in registry
  BY DEF LookupSucceeds
<1> DEFINE c == op[t].ch
<1>1. op[t] \in Task /\ op[t].kind = "close"
  BY DEF IInv, OpsAgree, TypeOK
<1>2. c \in Conns /\ op[t] = CloseTask(c)
  BY <1>1, TaskCases DEF IpcTask
<1>3. t \in Carriers(tpc, op, CloseTask(c)) /\ t \in Producers
  BY <1>2 DEF Carriers, Producers
<1>4. Owed(tasks, Carriers(tpc, op, CloseTask(c)), CloseTask(c))
  BY <1>3 DEF Owed
<1>5. closed[c] /\ notified[c] = 0
  BY <1>2, <1>4 DEF IInv, TeardownOnce, IsOwed
<1> QED BY <1>2, <1>5 DEF IInv, HandlesAgree

\* A thread pushes its task: it passes from the thread to the queue.
LEMMA PushStep ==
    ASSUME IInv, NEW t \in Threads \cup {Main}, Push(t)
    PROVE  IInv'
<1> USE LoopAssumption
<1> DEFINE e == op[t]
<1>1. /\ UNCHANGED <<closed, tcp, timer, writing, notified, registry, wake, stopSig,
                     stopping, asyncs, ipc, lpc, op, ops, faults>>
      /\ tpc[t] = "push" /\ tpc' = [tpc EXCEPT ![t] = "check"]
      /\ tasks' = Pushed(tasks, t, e)
  BY DEF Push, Goes, Pushed, chanVars
<1>2. tasks \in Queues /\ t \in Producers /\ e \in Task
  BY DEF IInv, TypeOK, Queues, Producers
<1>3. tasks' \in Queues
  BY <1>1, <1>2, PushOwed
<1>4. /\ tpc' \in [Threads \cup {Main} ->
                    {"idle", "lookup", "push", "check", "send", "stop", "end"}]
      /\ tpc'[t] = "check"
      /\ \A u \in (Threads \cup {Main}) \ {t} : tpc'[u] = tpc[u]
  BY <1>1 DEF IInv, TypeOK
<1>5. /\ \A x : x # e => Carriers(tpc', op', x) = Carriers(tpc, op, x)
      /\ Carriers(tpc', op', e) = Carriers(tpc, op, e) \ {t}
      /\ t \in Threads => t \in Carriers(tpc, op, e)
  BY <1>1, <1>4 DEF Carriers
<1>6. t \notin Threads => e = IpcTask
  BY DEF IInv, OpsAgree
<1> HIDE DEF e
<1>7. ASSUME NEW x \in Task \ {IpcTask}
      PROVE  /\ Sole(tasks, Carriers(tpc, op, x), x) =>
                    /\ Sole(tasks', Carriers(tpc', op', x), x)
             /\ Owed(tasks, Carriers(tpc, op, x), x) <=> Owed(tasks', Carriers(tpc', op', x), x)
  <2>1. CASE x # e
    BY <1>1, <1>2, <1>5, <2>1, PushOwed
  <2>2. CASE x = e
    <3>1. t \in Carriers(tpc, op, x)
      BY <1>5, <1>6, <2>2
    <3>2. Owed(tasks, Carriers(tpc, op, x), x)
      BY <1>2, <3>1 DEF Owed
    <3>3. /\ Owed(tasks', Carriers(tpc', op', x), x)
          /\ Sole(tasks, Carriers(tpc, op, x), x) =>
                Sole(tasks', Carriers(tpc, op, x) \ {t}, x)
      BY <1>1, <1>2, <2>2, <3>1, PushOwed
    <3> QED BY <1>5, <2>2, <3>2, <3>3
  <2> QED BY <2>1, <2>2
<1>8. TypeOK'
  BY <1>1, <1>3, <1>4 DEF IInv, TypeOK, Queues
<1>9. TeardownOnce' /\ ConnectOnce' /\ SendKnown'
  <2>1. \A c \in Conns : {CloseTask(c), SendTask(c), ConnectTask(c)} \subseteq Task \ {IpcTask}
    BY TaskFacts
  <2>2. TeardownOnce'
    BY <1>1, <1>7, <2>1 DEF IInv, TeardownOnce, IsOwed, OwedOnce
  <2>3. ConnectOnce'
    BY <1>1, <1>7, <2>1 DEF IInv, ConnectOnce, IsOwed, OwedOnce
  <2>4. SendKnown'
    BY <1>1, <1>7, <2>1 DEF IInv, SendKnown, IsOwed
  <2> QED BY <2>2, <2>3, <2>4
<1>10. HandlesAgree'
  BY <1>1 DEF IInv, HandlesAgree
<1>11. OpsAgree'
  BY <1>1, <1>4 DEF IInv, OpsAgree
<1> QED BY <1>8, <1>9, <1>10, <1>11 DEF IInv

\* The other steps of the threads move no task and touch no channel.
LEMMA QuietThreadStep ==
    ASSUME IInv,
           \/ \E t \in Threads \cup {Main} : CloseLooksUp(t) \/ WakeChecks(t) \/ WakeSends(t)
           \/ ConnectIpc \/ StopBegins \/ StopSends
    PROVE  IInv'
<1> USE LoopAssumption
<1>1. UNCHANGED <<closed, tcp, timer, writing, notified, registry, tasks, asyncs, ipc, op, ops>>
  BY DEF CloseLooksUp, WakeChecks, WakeSends, ConnectIpc, StopBegins, StopSends,
         chanVars, loopVars
<1>2. PICK t \in Threads \cup {Main}, to \in {"idle", "push", "check", "send", "stop", "end"} :
        /\ tpc' = [tpc EXCEPT ![t] = to]
        /\ t = Main \/ (tpc[t] = "lookup" /\ to = "push")
           \/ (tpc[t] \in {"check", "send"} /\ to \in {"idle", "send"})
  <2>1. CASE \E t \in Threads \cup {Main} : CloseLooksUp(t)
    <3>1. PICK t \in Threads \cup {Main} : CloseLooksUp(t)
      BY <2>1
    <3>2. t \in Threads /\ op[t].ch \in registry
      BY <3>1, LookupLemma DEF CloseLooksUp, Goes, IInv, OpsAgree, LookupSucceeds
    <3> QED BY <3>1, <3>2 DEF CloseLooksUp, Goes
  <2>2. CASE \E t \in Threads \cup {Main} : WakeChecks(t)
    BY <2>2 DEF WakeChecks, Goes
  <2>3. CASE \E t \in Threads \cup {Main} : WakeSends(t)
    BY <2>3 DEF WakeSends, Goes
  <2>4. CASE ConnectIpc \/ StopBegins \/ StopSends
    BY <2>4 DEF ConnectIpc, StopBegins, StopSends, Goes
  <2> QED BY <2>1, <2>2, <2>3, <2>4
<1>3. /\ tpc' \in [Threads \cup {Main} ->
                    {"idle", "lookup", "push", "check", "send", "stop", "end"}]
      /\ tpc'[t] = to
      /\ \A u \in (Threads \cup {Main}) \ {t} : tpc'[u] = tpc[u]
  BY <1>2 DEF IInv, TypeOK
<1>4. \A x : Carriers(tpc', op', x) = Carriers(tpc, op, x)
  BY <1>1, <1>2, <1>3 DEF Carriers
<1>5. /\ wake' \in BOOLEAN /\ stopSig' \in BOOLEAN /\ stopping' \in BOOLEAN
      /\ lpc' \in {lpc, "aborted"}
      /\ faults' \in SUBSET {"rawTimerClosed", "closedTwice", "sendOnClosedAsync"}
  BY DEF CloseLooksUp, WakeChecks, WakeSends, ConnectIpc, StopBegins, StopSends,
         Undefined, chanVars, loopVars, IInv, TypeOK
<1>6. TypeOK'
  BY <1>1, <1>3, <1>5 DEF IInv, TypeOK
<1>7. TeardownOnce' /\ ConnectOnce' /\ SendKnown'
  BY <1>1, <1>4 DEF IInv, TeardownOnce, ConnectOnce, SendKnown, IsOwed, OwedOnce
<1>8. HandlesAgree'
  BY <1>1 DEF IInv, HandlesAgree
<1>9. OpsAgree'
  BY <1>1, <1>2, <1>3 DEF IInv, OpsAgree
<1> QED BY <1>6, <1>7, <1>8, <1>9 DEF IInv

-----------------------------------------------------------------------------
(* The theorems.                                                           *)

\* Every step keeps the invariant.
LEMMA NextIInv == IInv /\ [Next]_vars => IInv'
<1> SUFFICES ASSUME IInv, [Next]_vars PROVE IInv'
  OBVIOUS
<1>1. CASE LoopNext
  <2>1. CASE \E p \in Producers : RunTask(p)
    BY <2>1, RunTaskStep
  <2>2. CASE \E c \in Conns : \/ StopCloses(c) \/ ConnectFails(c) \/ ReadEnds(c)
                              \/ CallbackCloses(c) \/ WriteCompletes(c)
    BY <2>2, LoopCloseStep
  <2> QED BY <1>1, <2>1, <2>2, QuietLoopStep DEF LoopNext
<1>2. CASE ThreadNext
  <2>1. CASE \E t \in Threads : \E c \in Conns : CloseBegins(t, c)
    BY <2>1, CloseBeginsStep
  <2>2. CASE \E t \in Threads : \E c \in Conns : SendBegins(t, c) \/ ConnectBegins(t, c)
    BY <2>2, PostBeginsStep
  <2>3. CASE \E t \in Threads \cup {Main} : Push(t)
    BY <2>3, PushStep
  <2> QED BY <1>2, <2>1, <2>2, <2>3, QuietThreadStep DEF ThreadNext, ThreadSteps
<1>3. CASE UNCHANGED vars
  <2>1. UNCHANGED <<closed, tcp, timer, writing, notified, registry, tasks, wake, stopSig,
                    stopping, asyncs, ipc, lpc, tpc, op, ops, faults>>
    BY <1>3 DEF vars, chanVars, loopVars, thrVars
  <2> QED BY <2>1 DEF IInv, TypeOK, TeardownOnce, ConnectOnce, SendKnown, HandlesAgree,
                      OpsAgree, IsOwed, OwedOnce
<1> QED BY <1>1, <1>2, <1>3 DEF Next

\* The invariant holds in every behaviour of the loop and its threads.
THEOREM Invariance == Spec => []IInv
BY InitIInv, NextIInv, PTL DEF Spec

\* Type correctness of every variable, on_closed at most once among it.
THEOREM TypeCorrect == Spec => []TypeOK
<1>1. IInv => TypeOK
  BY DEF IInv
<1> QED BY <1>1, Invariance, PTL

\* Channel::close from any threads and callbacks: one closeInLoop, never two.
THEOREM OneTeardown == Spec => []TeardownOnce
<1>1. IInv => TeardownOnce
  BY DEF IInv
<1> QED BY <1>1, Invariance, PTL

\* releaseChannel comes after the last callback that uses the raw Channel*.
THEOREM CallbacksFindChannel == Spec => []CallbackTargetLive
<1>1. IInv => CallbackTargetLive
  BY DEF IInv, HandlesAgree, CallbackTargetLive, TypeOK
<1> QED BY <1>1, Invariance, PTL

\* The early return of Channel::close after its exchange is never taken.
THEOREM NoCloseLost == Spec => []LookupSucceeds
BY LookupLemma, Invariance, PTL

-----------------------------------------------------------------------------
(* Wake-ups.                                                               *)

\* Before the loop has run initAsynEvent nobody has posted anything.
QuietStart ==
    lpc = "new" =>
        /\ asyncs = "none"
        /\ \A p \in Producers : tasks[p] = <<>>
        /\ \A t \in Threads \cup {Main} : tpc[t] = "idle"

WakeInv == QuietStart /\ NoLostWakeup

\* A push of the loop thread itself comes with its wake-up.
LEMMA LoopClosesWakes ==
    ASSUME NEW c \in Conns, LoopCloses(c, tasks), asyncs = "open",
           UNCHANGED <<stopping, tpc>>, lpc = "poll", WakeInv
    PROVE  (\E p \in Producers : tasks'[p] # <<>>) =>
                wake' \/ stopping' \/ \E t \in Threads \cup {Main} : tpc'[t] \in {"check", "send"}
<1>1. CASE closed[c]
  BY <1>1 DEF LoopCloses, WakeInv, NoLostWakeup
<1>2. CASE ~closed[c]
  BY <1>2 DEF LoopCloses
<1> QED BY <1>1, <1>2

\* Steps of the loop thread.
LEMMA WakeInvLoop == IInv /\ WakeInv /\ LoopNext => WakeInv'
<1> SUFFICES ASSUME IInv, WakeInv, LoopNext PROVE WakeInv'
  OBVIOUS
<1>1. CASE LoopStarts \/ LoopInitFails \/ AsyncWrite \/ StopTriggered \/ StopDrains
  BY <1>1 DEF LoopStarts, LoopInitFails, AsyncWrite, StopTriggered, StopDrains,
              WakeInv, QuietStart, NoLostWakeup, thrVars, Draining
<1>2. CASE DrainEnds \/ RunReturns
  BY <1>2 DEF DrainEnds, RunReturns, WakeInv, QuietStart, NoLostWakeup, thrVars, Draining
<1>3. CASE IpcEof \/ \E ok \in BOOLEAN : IpcConnected(ok)
  BY <1>3 DEF IpcEof, IpcConnected, WakeInv, QuietStart, NoLostWakeup, thrVars
<1>4. CASE \E p \in Producers : RunTask(p)
  <2>1. lpc \in Draining /\ lpc' \in {lpc, "aborted"}
    BY <1>4 DEF RunTask, CloseInLoop, WriteInLoop, ConnectInLoop, IpcInLoop, Undefined
  <2> QED BY <2>1 DEF WakeInv, QuietStart, NoLostWakeup, Draining
<1>5. CASE \E c \in Conns : \/ StopCloses(c) \/ ConnectFails(c) \/ ReadEnds(c)
                            \/ CallbackCloses(c) \/ WriteCompletes(c)
  <2>1. PICK c \in Conns : \/ StopCloses(c) \/ ConnectFails(c) \/ ReadEnds(c)
                           \/ CallbackCloses(c) \/ WriteCompletes(c)
    BY <1>5
  <2>2. /\ UNCHANGED <<tpc, stopping, asyncs, lpc>> /\ lpc # "new"
        /\ LoopCloses(c, tasks) \/ UNCHANGED <<tasks, wake>>
    BY <2>1 DEF StopCloses, ConnectFails, ReadEnds, CallbackCloses, WriteCompletes, thrVars
  <2>3. CASE LoopCloses(c, tasks)
    BY <2>2, <2>3, LoopClosesWakes DEF WakeInv, QuietStart, NoLostWakeup
  <2>4. CASE UNCHANGED <<tasks, wake>>
    BY <2>2, <2>4 DEF WakeInv, QuietStart, NoLostWakeup
  <2> QED BY <2>2, <2>3, <2>4
<1>6. CASE \E c \in Conns : Adopt(c) \/ Connected(c) \/ TcpClosed(c) \/ TimerClosed(c)
  BY <1>6 DEF Adopt, Connected, TcpClosed, TimerClosed, WakeInv, QuietStart, NoLostWakeup,
              thrVars, loopVars
<1> QED BY <1>1, <1>2, <1>3, <1>4, <1>5, <1>6 DEF LoopNext

\* Steps of the threads: between the push and the check or the send, the thread
\* itself stands for the wake-up.
LEMMA WakeInvThreads == IInv /\ WakeInv /\ ThreadNext => WakeInv'
<1> SUFFICES ASSUME IInv, WakeInv, ThreadNext PROVE WakeInv'
  OBVIOUS
<1>1. CASE \E t \in Threads : \E c \in Conns :
                CloseBegins(t, c) \/ SendBegins(t, c) \/ ConnectBegins(t, c)
  <2>1. PICK t \in Threads, to \in {"lookup", "push"} :
            tpc[t] = "idle" /\ tpc' = [tpc EXCEPT ![t] = to]
    BY <1>1 DEF CloseBegins, SendBegins, ConnectBegins, Begins, Goes
  <2>2. lpc # "new" /\ UNCHANGED <<tasks, wake, stopping, asyncs, lpc>>
    BY <1>1 DEF CloseBegins, SendBegins, ConnectBegins, Begins, loopVars
  <2>3. \A u \in Threads \cup {Main} : tpc[u] \in {"check", "send"} => tpc'[u] = tpc[u]
    BY <2>1 DEF IInv, TypeOK
  <2> QED BY <2>2, <2>3 DEF WakeInv, QuietStart, NoLostWakeup
<1>2. CASE \E t \in Threads \cup {Main} : ThreadSteps(t)
  <2>1. PICK t \in Threads \cup {Main} : ThreadSteps(t)
    BY <1>2
  <2>2. tpc[t] # "idle" /\ lpc # "new"
    BY <2>1 DEF ThreadSteps, CloseLooksUp, Push, WakeChecks, WakeSends, Goes,
                WakeInv, QuietStart
  <2>3. CASE CloseLooksUp(t)
    <3>1. tpc[t] = "lookup" /\ UNCHANGED <<tasks, wake, stopping, asyncs, lpc>>
      BY <2>3 DEF CloseLooksUp, Goes, loopVars
    <3>2. \A u \in Threads \cup {Main} : tpc[u] \in {"check", "send"} => tpc'[u] = tpc[u]
      BY <2>3, <3>1 DEF CloseLooksUp, Goes, IInv, TypeOK
    <3> QED BY <2>2, <3>1, <3>2 DEF WakeInv, QuietStart, NoLostWakeup
  <2>4. CASE Push(t)
    <3>1. tpc'[t] = "check" /\ lpc' = lpc
      BY <2>4 DEF Push, Goes, IInv, TypeOK
    <3> QED BY <2>2, <3>1 DEF WakeInv, QuietStart, NoLostWakeup
  <2>5. CASE WakeChecks(t)
    <3>1. UNCHANGED <<tasks, wake, stopping, asyncs, lpc>>
      BY <2>5 DEF WakeChecks, loopVars
    <3>2. ~stopping /\ asyncs = "open" => tpc'[t] = "send"
      BY <2>5 DEF WakeChecks, Goes, IInv, TypeOK
    <3> QED BY <2>2, <3>1, <3>2 DEF WakeInv, QuietStart, NoLostWakeup
  <2>6. CASE WakeSends(t)
    <3>1. lpc' \in {lpc, "aborted"} /\ asyncs' = asyncs /\ (asyncs = "open" => wake')
      BY <2>6 DEF WakeSends, Undefined
    <3> QED BY <2>2, <3>1 DEF WakeInv, QuietStart, NoLostWakeup
  <2> QED BY <2>1, <2>3, <2>4, <2>5, <2>6 DEF ThreadSteps
<1>3. CASE ConnectIpc \/ StopBegins \/ StopSends
  <2>1. /\ lpc # "new" /\ UNCHANGED <<tasks, wake, asyncs, lpc>>
        /\ stopping' = stopping \/ stopping'
        /\ tpc[Main] \in {"idle", "stop"}
        /\ \E to \in {"stop", "push", "end"} : tpc' = [tpc EXCEPT ![Main] = to]
    BY <1>3 DEF ConnectIpc, StopBegins, StopSends, Goes, loopVars, WakeInv, QuietStart
  <2>2. \A u \in Threads \cup {Main} : tpc[u] \in {"check", "send"} => tpc'[u] = tpc[u]
    BY <2>1 DEF IInv, TypeOK
  <2> QED BY <2>1, <2>2 DEF WakeInv, QuietStart, NoLostWakeup
<1> QED BY <1>1, <1>2, <1>3 DEF ThreadNext

\* The hand-over from the queue to uv_async_send loses no wake-up.
THEOREM NoWakeupLost == Spec => []NoLostWakeup
<1>1. Init => WakeInv
  BY DEF Init, WakeInv, QuietStart, NoLostWakeup
<1>2. IInv /\ WakeInv /\ [Next]_vars => WakeInv'
  <2>1. ASSUME WakeInv, UNCHANGED vars PROVE WakeInv'
    BY <2>1 DEF vars, loopVars, thrVars, WakeInv, QuietStart, NoLostWakeup
  <2> QED BY <2>1, WakeInvLoop, WakeInvThreads DEF Next
<1>3. WakeInv => NoLostWakeup
  BY DEF WakeInv
<1> QED BY <1>1, <1>2, <1>3, Invariance, PTL DEF Spec

-----------------------------------------------------------------------------
(* What a loop that ended leaves behind.                                   *)

\* An adopted connection has its heartbeat timer from the moment it is adopted,
\* so that uv_run waits for both of its handles.
Timed == \A c \in Inbound : tcp[c] # "none" => timer[c] # "raw"

\* Before uv_run and once it has returned, no adopted connection is registered.
Emptied == lpc \in {"new", "tailDrain", "done"} => registry \cap Inbound = {}

\* A registered connection with a timer keeps uv_run from returning: both of its
\* handles are open, or one of them has its close callback to come.
LEMMA TimedKeepsAlive ==
    ASSUME IInv, Timed, NEW c \in Inbound, c \in registry
    PROVE  Alive
<1>1. /\ tcp[c] # "none" /\ timer[c] \in {"active", "closing", "closed"}
      /\ ~(tcp[c] = "closed" /\ timer[c] = "closed")
      /\ timer[c] = "closed" => tcp[c] \in {"closing", "closed"}
  BY DEF IInv, TypeOK, HandlesAgree, Timed, Conns
<1> QED BY <1>1 DEF Alive, Conns

\* A step that registers nobody, opens no handle and stays within uv_run, or
\* outside it.
LEMMA ExitQuiet ==
    ASSUME Timed, Emptied,
           registry' \cap Inbound \subseteq registry,
           \A c \in Inbound : /\ tcp'[c] # "none" => tcp[c] # "none"
                              /\ timer[c] # "raw" => timer'[c] # "raw",
           lpc' \in {"new", "tailDrain", "done"} => lpc \in {"new", "tailDrain", "done"}
    PROVE  Timed' /\ Emptied'
<1>1. Timed'
  BY DEF Timed
<1>2. Emptied'
  <2> SUFFICES ASSUME lpc' \in {"new", "tailDrain", "done"}, NEW c \in registry' \cap Inbound
               PROVE  FALSE
    BY DEF Emptied
  <2> QED BY DEF Emptied
<1> QED BY <1>1, <1>2

\* The steps of the loop thread that run no task.
LEMMA ExitLoop ==
    ASSUME HasTrigger, IInv, Timed, Emptied, LoopNext,
           \A p \in Producers : ~RunTask(p)
    PROVE  Timed' /\ Emptied'
<1>1. CASE \/ LoopStarts \/ LoopInitFails \/ AsyncWrite \/ StopTriggered \/ StopDrains
           \/ DrainEnds
  <2>1. UNCHANGED <<tcp, timer, registry>>
    BY <1>1 DEF LoopStarts, LoopInitFails, AsyncWrite, StopTriggered, StopDrains,
                DrainEnds, chanVars
  <2>2. lpc' \in {"new", "tailDrain", "done"} => lpc \in {"new", "tailDrain", "done"}
    BY <1>1 DEF LoopStarts, LoopInitFails, AsyncWrite, StopTriggered, StopDrains,
                DrainEnds
  <2> QED BY <2>1, <2>2, ExitQuiet
<1>2. CASE RunReturns
  <2>1. registry \cap Inbound = {}
    BY <1>2, TimedKeepsAlive DEF RunReturns
  <2>2. UNCHANGED <<timer, registry>> /\ \A c \in Conns : tcp'[c] # "none" => tcp[c] # "none"
    BY <1>2 DEF RunReturns
  <2> QED BY <2>1, <2>2 DEF Timed, Emptied, Conns
<1>3. CASE IpcEof \/ \E ok \in BOOLEAN : IpcConnected(ok)
  BY <1>3, ExitQuiet DEF IpcEof, IpcConnected, chanVars
<1>4. CASE \E c \in Conns : \/ StopCloses(c) \/ ConnectFails(c) \/ ReadEnds(c)
                            \/ CallbackCloses(c) \/ WriteCompletes(c)
  <2>1. PICK c \in Conns : \/ StopCloses(c) \/ ConnectFails(c) \/ ReadEnds(c)
                           \/ CallbackCloses(c) \/ WriteCompletes(c)
    BY <1>4
  <2>2. /\ UNCHANGED <<timer, registry, lpc>>
        /\ \/ tcp' = tcp
           \/ tcp[c] # "none" /\ tcp' = [tcp EXCEPT ![c] = "idle"]
    BY <2>1 DEF StopCloses, ConnectFails, ReadEnds, CallbackCloses, WriteCompletes
  <2>3. \A d \in Inbound : tcp'[d] # "none" => tcp[d] # "none"
    BY <2>2 DEF IInv, TypeOK, Conns
  <2> QED BY <2>2, <2>3, ExitQuiet
<1>5. CASE \E c \in Conns : Adopt(c)
  <2>1. PICK c \in Conns : Adopt(c)
    BY <1>5
  <2>2. /\ lpc' = "poll" /\ timer' = [timer EXCEPT ![c] = "active"]
        /\ tcp' = [tcp EXCEPT ![c] = "reading"]
    BY <2>1 DEF Adopt, StartTimer, loopVars
  <2> QED BY <2>2 DEF IInv, TypeOK, Timed, Emptied, Conns
<1>6. CASE \E c \in Conns : Connected(c)
  <2>1. PICK c \in Conns : Connected(c)
    BY <1>6
  <2>2. /\ lpc' = "poll" /\ timer' = [timer EXCEPT ![c] = "active"]
        /\ tcp' = [tcp EXCEPT ![c] = "reading"]
    BY <2>1 DEF Connected, StartTimer, loopVars
  <2> QED BY <2>2 DEF IInv, TypeOK, Timed, Emptied, Conns
<1>7. CASE \E c \in Conns : TcpClosed(c) \/ TimerClosed(c)
  <2>1. PICK c \in Conns : TcpClosed(c) \/ TimerClosed(c)
    BY <1>7
  <2>2. lpc' = "poll" /\ lpc = "poll"
    BY <2>1 DEF TcpClosed, TimerClosed, loopVars
  <2>3. \A d \in Conns : /\ tcp'[d] # "none" => tcp[d] # "none"
                         /\ timer[d] # "raw" => timer'[d] # "raw"
    BY <2>1 DEF TcpClosed, TimerClosed, IInv, TypeOK
  <2> QED BY <2>2, <2>3 DEF Timed, Emptied, Conns
<1> QED BY <1>1, <1>2, <1>3, <1>4, <1>5, <1>6, <1>7 DEF LoopNext

\* A task closes a channel, writes to one, or registers one that asyncConnect
\* made: none of them adopts.
LEMMA ExitTask ==
    ASSUME IInv, Timed, Emptied, NEW p \in Producers, RunTask(p)
    PROVE  Timed' /\ Emptied'
<1> DEFINE q == Popped(tasks, p)
           e == Head(tasks[p])
<1>0. q = [tasks EXCEPT ![p] = Tail(@)]
  BY DEF Popped
<1>1. tasks[p] # <<>> /\ lpc \in Draining
  BY DEF RunTask
<1>2. e \in Task
  BY <1>1, PopInv
<1>3. /\ \/ e.kind = "close" /\ CloseInLoop(e.ch, q)
         \/ e.kind = "send" /\ WriteInLoop(e.ch, q)
         \/ e.kind = "connect" /\ ConnectInLoop(e.ch, q)
         \/ e.kind = "ipc" /\ IpcInLoop(q)
  BY <1>0 DEF RunTask
<1> HIDE DEF q
<1>4. lpc' \in {lpc, "aborted"}
  BY <1>3 DEF CloseInLoop, WriteInLoop, ConnectInLoop, IpcInLoop, Undefined
<1>5. CASE e.kind = "close" /\ CloseInLoop(e.ch, q)
  <2>1. e.ch \in Conns /\ e = CloseTask(e.ch)
    BY <1>2, <1>5, TaskCases
  <2>2. tcp[e.ch] # "none"
    <3>1. closed[e.ch]
      BY <1>1, <2>1, PopInv
    <3> QED BY <2>1, <3>1 DEF IInv, HandlesAgree
  <2>3. registry' = registry
    BY <1>5 DEF CloseInLoop
  <2>4. \A c \in Conns : /\ tcp'[c] # "none" => tcp[c] # "none"
                         /\ timer[c] # "raw" => timer'[c] # "raw"
    BY <1>5, <2>1, <2>2 DEF CloseInLoop, IInv, TypeOK
  <2> QED BY <1>4, <2>3, <2>4, ExitQuiet DEF Conns
<1>6. CASE e.kind = "send" /\ WriteInLoop(e.ch, q)
  BY <1>4, <1>6, ExitQuiet DEF WriteInLoop
<1>7. CASE e.kind = "connect" /\ ConnectInLoop(e.ch, q)
  <2>1. e.ch \in Conns /\ e = ConnectTask(e.ch)
    BY <1>2, <1>7, TaskCases
  <2>2. e.ch \notin Inbound
    BY <1>1, <2>1, PopInv, LoopAssumption
  <2>3. timer' = timer /\ registry' \subseteq registry \cup {e.ch}
    BY <1>7 DEF ConnectInLoop
  <2>4. \A c \in Inbound : tcp'[c] = tcp[c]
    BY <1>7, <2>1, <2>2 DEF ConnectInLoop, IInv, TypeOK, Conns
  <2> QED BY <1>4, <2>2, <2>3, <2>4, ExitQuiet
<1>8. CASE e.kind = "ipc" /\ IpcInLoop(q)
  BY <1>4, <1>8, ExitQuiet DEF IpcInLoop, chanVars
<1> QED BY <1>3, <1>5, <1>6, <1>7, <1>8

\* No business thread touches the registry or a handle.
LEMMA ExitThread ==
    ASSUME Timed, Emptied, ThreadNext
    PROVE  Timed' /\ Emptied'
<1>1. UNCHANGED <<tcp, timer, registry>> /\ lpc' \in {lpc, "aborted"}
  <2>1. CASE \E t \in Threads : \E c \in Conns :
                CloseBegins(t, c) \/ SendBegins(t, c) \/ ConnectBegins(t, c)
    BY <2>1 DEF CloseBegins, SendBegins, ConnectBegins, chanVars, loopVars
  <2>2. CASE \E t \in Threads \cup {Main} : ThreadSteps(t)
    BY <2>2 DEF ThreadSteps, CloseLooksUp, Push, WakeChecks, WakeSends, Undefined,
                chanVars, loopVars
  <2>3. CASE ConnectIpc \/ StopBegins \/ StopSends
    BY <2>3 DEF ConnectIpc, StopBegins, StopSends, chanVars, loopVars
  <2> QED BY <2>1, <2>2, <2>3 DEF ThreadNext
<1> QED BY <1>1, ExitQuiet

\* Where an EventTrigger is set (AthenaTcpServer::setChannelIdleTime, which every
\* server of the repository calls), a loop thread that ended has closed and released
\* every connection it adopted, however many there were and whoever closed them.
THEOREM ExitIsClean == ASSUME HasTrigger PROVE Spec => []ExitReleasesAll
<1>1. Init => Timed /\ Emptied
  BY DEF Init, Timed, Emptied, Conns
<1>2. IInv /\ Timed /\ Emptied /\ [Next]_vars => Timed' /\ Emptied'
  <2>1. ASSUME Timed, Emptied, UNCHANGED vars PROVE Timed' /\ Emptied'
    BY <2>1 DEF vars, chanVars, loopVars, Timed, Emptied
  <2> QED BY <2>1, ExitLoop, ExitTask, ExitThread DEF Next
<1>3. Timed /\ Emptied => ExitReleasesAll
  BY DEF Emptied, ExitReleasesAll
<1> QED BY <1>1, <1>2, <1>3, Invariance, PTL DEF Spec
=============================================================================
