------------------------- MODULE ServerProcessProofs -------------------------
(***************************************************************************)
(* Proofs about ServerStartup, for every number of workers, connections    *)
(* and failed calls; about Snowflake, for every width of the sequence and  *)
(* without a use of the bounds on the clock and on the restarts; and about *)
(* MCServerProcess, which composes them with a byte ring.                  *)
(***************************************************************************)
EXTENDS MCServerProcess, RingByteBufProofs, FiniteSetTheorems, TLAPS

-----------------------------------------------------------------------------
(***************************************************************************)
(* How the server starts, hands connections on and stops.                  *)
(***************************************************************************)
\* What happens in the boss and the workers only once stop has begun.
Stops ==
    /\ stopSent => stopping
    /\ boss = "stopped" => stopping
    /\ server = "closed" => stopping
    /\ main = "stop workers" => stopping
    /\ \A i \in Workers : workerStop[i] => stopping /\ main \notin {"boss", "workers", "ipc"}
    /\ \A i \in Workers : session[i] = "closed" => stopping

\* The two ends of the pipe of each worker.
Links ==
    \A i \in Workers :
        /\ session[i] # "none" => ipc[i] \in {"up", "closed"}
        /\ session[i] = "up" /\ ~stopping => ipc[i] = "up"
        /\ ipc[i] \in {"asked", "connecting", "up"} => worker[i] = "loop"
        /\ main \in {"boss", "workers", "ipc"} => ipc[i] = "none"

\* ready_workers_ counts the sessions, each once.
Counted == ready = Cardinality({i \in Workers : session[i] # "none"})

\* startListen comes after every session.
AllReady ==
    main \in {"listen", "serving"} \/ task # "none" =>
        \A i \in Workers : session[i] # "none"

\* The task of startListen, what it leaves, and the wait for it.
Listening ==
    /\ server # "zero" => task \in {"done", "late"}
    /\ listenOk => task \in {"done", "late"} /\ server \in {"listening", "closed"}
    /\ main = "serving" => listenOk
    /\ main \in {"boss", "workers", "ipc", "ready"} => task = "none"

\* A connection is on its way to a worker that has a session.
Handed == \A k \in Clients : client[k] = "writing" => session[to[k]] # "none"

StartInv ==
    /\ ThreadTypes /\ PipeTypes /\ PortTypes
    /\ Stops /\ Links /\ Counted /\ AllReady /\ Listening /\ Handed /\ NoneDropped

LEMMA FaultsAreCounted == ASSUME faults \in Nat, Fault PROVE faults' \in Nat
<1>1. faults' = faults + 1
  BY Zenon DEF Fault
<1> QED BY <1>1

LEMMA WorkersFinite == IsFiniteSet(Workers) /\ Cardinality(Workers) = N
BY FS_Interval, StartAssumption DEF Workers

(***************************************************************************)
(* As many sessions as workers are the sessions of all workers.            *)
(***************************************************************************)
LEMMA AllCounted ==
    ASSUME Counted, ready >= N, ready \in Nat
    PROVE  \A i \in Workers : session[i] # "none"
<1> DEFINE up == {i \in Workers : session[i] # "none"}
<1>1. IsFiniteSet(Workers) /\ Cardinality(Workers) = N
  BY WorkersFinite
<1>2. up \in SUBSET Workers
  OBVIOUS
<1>3. Cardinality(up) <= Cardinality(Workers)
      /\ (Cardinality(Workers) = Cardinality(up) => Workers = up)
  BY <1>1, <1>2, FS_Subset
<1>4. Cardinality(up) = N
  BY <1>1, <1>3, StartAssumption DEF Counted
<1> QED BY <1>1, <1>3, <1>4

\* While the port is listened on there are sessions to choose from.
LEMMA SomeSession ==
    ASSUME StartInv, NEW k \in Clients, Accepts(k)
    PROVE  \E i \in Workers : session[i] # "none"
<1>1. 1 \in Workers
  BY StartAssumption DEF Workers
<1>2. \A i \in Workers : session[i] # "none"
  BY DEF Accepts, StartInv, Listening, AllReady
<1> QED BY <1>1, <1>2

-----------------------------------------------------------------------------
(* One lemma for each action. *)

LEMMA StartBossPreserves ==
    ASSUME StartInv, StartBoss
    PROVE  StartInv'
<1>1. ThreadTypes' /\ PipeTypes' /\ PortTypes' /\ Stops' /\ Links' /\ AllReady' /\
      Listening' /\ Handed' /\ NoneDropped' /\ Counted'
  <2>1. ThreadTypes'
    BY DEF StartBoss, mainVars, workerVars, clientVars, StartInv, ThreadTypes
  <2>2. PipeTypes'
    BY DEF StartBoss, mainVars, workerVars, clientVars, StartInv, PipeTypes
  <2>3. PortTypes'
    BY DEF StartBoss, mainVars, workerVars, clientVars, StartInv, PortTypes
  <2>4. Stops'
    BY DEF StartBoss, mainVars, workerVars, clientVars, StartInv, Stops
  <2>5. Links'
    BY DEF StartBoss, mainVars, workerVars, clientVars, StartInv, Links
  <2>6. AllReady'
    BY DEF StartBoss, mainVars, workerVars, clientVars, StartInv, AllReady
  <2>7. Listening'
    BY DEF StartBoss, mainVars, workerVars, clientVars, StartInv, Listening
  <2>8. Handed'
    BY DEF StartBoss, mainVars, workerVars, clientVars, StartInv, Handed
  <2>9. NoneDropped'
    BY DEF StartBoss, mainVars, workerVars, clientVars, StartInv, NoneDropped
  <2>10. Counted'
    BY DEF StartBoss, mainVars, workerVars, clientVars, StartInv, Counted
  <2> QED BY <2>1, <2>2, <2>3, <2>4, <2>5, <2>6, <2>7, <2>8, <2>9, <2>10
<1> QED BY <1>1 DEF StartInv

LEMMA BossUpPreserves ==
    ASSUME StartInv, BossUp
    PROVE  StartInv'
<1>1. ThreadTypes' /\ PipeTypes' /\ PortTypes' /\ Stops' /\ Links' /\ AllReady' /\
      Listening' /\ Handed' /\ NoneDropped' /\ Counted'
  <2>1. ThreadTypes'
    BY DEF BossUp, mainVars, workerVars, clientVars, StartInv, ThreadTypes
  <2>2. PipeTypes'
    BY DEF BossUp, mainVars, workerVars, clientVars, StartInv, PipeTypes
  <2>3. PortTypes'
    BY DEF BossUp, mainVars, workerVars, clientVars, StartInv, PortTypes
  <2>4. Stops'
    BY DEF BossUp, mainVars, workerVars, clientVars, StartInv, Stops
  <2>5. Links'
    BY DEF BossUp, mainVars, workerVars, clientVars, StartInv, Links
  <2>6. AllReady'
    BY DEF BossUp, mainVars, workerVars, clientVars, StartInv, AllReady
  <2>7. Listening'
    BY DEF BossUp, mainVars, workerVars, clientVars, StartInv, Listening
  <2>8. Handed'
    BY DEF BossUp, mainVars, workerVars, clientVars, StartInv, Handed
  <2>9. NoneDropped'
    BY DEF BossUp, mainVars, workerVars, clientVars, StartInv, NoneDropped
  <2>10. Counted'
    BY DEF BossUp, mainVars, workerVars, clientVars, StartInv, Counted
  <2> QED BY <2>1, <2>2, <2>3, <2>4, <2>5, <2>6, <2>7, <2>8, <2>9, <2>10
<1> QED BY <1>1 DEF StartInv

LEMMA BossAbortsPreserves ==
    ASSUME StartInv, BossAborts
    PROVE  StartInv'
<1>f. faults' \in Nat
  BY FaultsAreCounted DEF BossAborts, StartInv, PipeTypes
<1>1. ThreadTypes' /\ PipeTypes' /\ PortTypes' /\ Stops' /\ Links' /\ AllReady' /\
      Listening' /\ Handed' /\ NoneDropped' /\ Counted'
  <2>1. ThreadTypes'
    BY DEF BossAborts, mainVars, workerVars, clientVars, StartInv, ThreadTypes
  <2>2. PipeTypes'
    BY <1>f DEF BossAborts, mainVars, workerVars, clientVars, StartInv, PipeTypes
  <2>3. PortTypes'
    BY DEF BossAborts, mainVars, workerVars, clientVars, StartInv, PortTypes
  <2>4. Stops'
    BY DEF BossAborts, mainVars, workerVars, clientVars, StartInv, Stops
  <2>5. Links'
    BY DEF BossAborts, mainVars, workerVars, clientVars, StartInv, Links
  <2>6. AllReady'
    BY DEF BossAborts, mainVars, workerVars, clientVars, StartInv, AllReady
  <2>7. Listening'
    BY DEF BossAborts, mainVars, workerVars, clientVars, StartInv, Listening
  <2>8. Handed'
    BY DEF BossAborts, mainVars, workerVars, clientVars, StartInv, Handed
  <2>9. NoneDropped'
    BY DEF BossAborts, mainVars, workerVars, clientVars, StartInv, NoneDropped
  <2>10. Counted'
    BY DEF BossAborts, mainVars, workerVars, clientVars, StartInv, Counted
  <2> QED BY <2>1, <2>2, <2>3, <2>4, <2>5, <2>6, <2>7, <2>8, <2>9, <2>10
<1> QED BY <1>1 DEF StartInv

LEMMA BossStopsItselfPreserves ==
    ASSUME StartInv, NEW i \in Workers, BossStopsItself(i)
    PROVE  StartInv'
<1>f. faults' \in Nat
  BY FaultsAreCounted DEF BossStopsItself, StartInv, PipeTypes
<1>1. ThreadTypes' /\ PipeTypes' /\ PortTypes' /\ Stops' /\ Links' /\ AllReady' /\
      Listening' /\ Handed' /\ NoneDropped' /\ Counted'
  <2>1. ThreadTypes'
    BY DEF BossStopsItself, workerVars, clientVars, StartInv, ThreadTypes
  <2>2. PipeTypes'
    BY <1>f DEF BossStopsItself, workerVars, clientVars, StartInv, PipeTypes
  <2>3. PortTypes'
    BY DEF BossStopsItself, workerVars, clientVars, StartInv, PortTypes
  <2>4. Stops'
    BY DEF BossStopsItself, workerVars, clientVars, StartInv, Stops
  <2>5. Links'
    BY DEF BossStopsItself, workerVars, clientVars, StartInv, Links
  <2>6. AllReady'
    BY DEF BossStopsItself, workerVars, clientVars, StartInv, AllReady
  <2>7. Listening'
    BY DEF BossStopsItself, workerVars, clientVars, StartInv, Listening
  <2>8. Handed'
    BY DEF BossStopsItself, workerVars, clientVars, StartInv, Handed
  <2>9. NoneDropped'
    BY DEF BossStopsItself, workerVars, clientVars, StartInv, NoneDropped
  <2>10. Counted'
    BY DEF BossStopsItself, workerVars, clientVars, StartInv, Counted
  <2> QED BY <2>1, <2>2, <2>3, <2>4, <2>5, <2>6, <2>7, <2>8, <2>9, <2>10
<1> QED BY <1>1 DEF StartInv

LEMMA BossStartedPreserves ==
    ASSUME StartInv, BossStarted
    PROVE  StartInv'
<1>1. ThreadTypes' /\ PipeTypes' /\ PortTypes' /\ Stops' /\ Links' /\ AllReady' /\
      Listening' /\ Handed' /\ NoneDropped' /\ Counted'
  <2>1. ThreadTypes'
    BY DEF BossStarted, bossVars, workerVars, clientVars, StartInv, ThreadTypes
  <2>2. PipeTypes'
    BY DEF BossStarted, bossVars, workerVars, clientVars, StartInv, PipeTypes
  <2>3. PortTypes'
    BY DEF BossStarted, bossVars, workerVars, clientVars, StartInv, PortTypes
  <2>4. Stops'
    BY DEF BossStarted, bossVars, workerVars, clientVars, StartInv, Stops
  <2>5. Links'
    BY DEF BossStarted, bossVars, workerVars, clientVars, StartInv, Links
  <2>6. AllReady'
    BY DEF BossStarted, bossVars, workerVars, clientVars, StartInv, AllReady
  <2>7. Listening'
    BY DEF BossStarted, bossVars, workerVars, clientVars, StartInv, Listening
  <2>8. Handed'
    BY DEF BossStarted, bossVars, workerVars, clientVars, StartInv, Handed
  <2>9. NoneDropped'
    BY DEF BossStarted, bossVars, workerVars, clientVars, StartInv, NoneDropped
  <2>10. Counted'
    BY DEF BossStarted, bossVars, workerVars, clientVars, StartInv, Counted
  <2> QED BY <2>1, <2>2, <2>3, <2>4, <2>5, <2>6, <2>7, <2>8, <2>9, <2>10
<1> QED BY <1>1 DEF StartInv

LEMMA StartWorkersPreserves ==
    ASSUME StartInv, StartWorkers
    PROVE  StartInv'
<1>w. PICK dead \in SUBSET Workers :
        /\ worker' = [i \in Workers |-> IF i \in dead THEN "dead" ELSE "loop"]
        /\ faults' = faults + Cardinality(dead)
  BY Zenon DEF StartWorkers
<1>u. /\ main = "workers" /\ main' = "ipc"
      /\ UNCHANGED <<stopping, stopSent, bossVars, task, workerStop, ipc, clientVars,
                     crashed>>
  BY Zenon DEF StartWorkers
<1>f. faults' \in Nat
  <2>1. IsFiniteSet(dead)
    BY WorkersFinite, FS_Subset
  <2>2. Cardinality(dead) \in Nat
    BY <2>1, FS_CardinalityType
  <2>3. faults \in Nat
    BY DEF StartInv, PipeTypes
  <2> QED BY <1>w, <2>2, <2>3
<1>1. ThreadTypes'
  BY <1>w, <1>u DEF bossVars, StartInv, ThreadTypes
<1>2. PipeTypes'
  BY <1>u, <1>f DEF bossVars, StartInv, PipeTypes
<1>3. PortTypes'
  BY <1>w, <1>u DEF bossVars, clientVars, StartInv, PortTypes
<1>4. Stops' /\ Links' /\ AllReady' /\ Listening' /\ Handed' /\ NoneDropped'
      /\ Counted'
  BY <1>w, <1>u DEF bossVars, clientVars, StartInv, Stops, Links, AllReady,
     Listening, Handed, NoneDropped, Counted
<1> QED BY <1>1, <1>2, <1>3, <1>4 DEF StartInv

LEMMA ConnectIpcPreserves ==
    ASSUME StartInv, ConnectIpc
    PROVE  StartInv'
<1>1. ThreadTypes' /\ PipeTypes' /\ PortTypes' /\ Stops' /\ Links' /\ AllReady' /\
      Listening' /\ Handed' /\ NoneDropped' /\ Counted'
  <2>1. ThreadTypes'
    BY DEF ConnectIpc, bossVars, clientVars, StartInv, ThreadTypes
  <2>2. PipeTypes'
    BY DEF ConnectIpc, bossVars, clientVars, StartInv, PipeTypes
  <2>3. PortTypes'
    BY DEF ConnectIpc, bossVars, clientVars, StartInv, PortTypes
  <2>4. Stops'
    BY DEF ConnectIpc, bossVars, clientVars, StartInv, Stops
  <2>5. Links'
    BY DEF ConnectIpc, bossVars, clientVars, StartInv, Links
  <2>6. AllReady'
    BY DEF ConnectIpc, bossVars, clientVars, StartInv, AllReady
  <2>7. Listening'
    BY DEF ConnectIpc, bossVars, clientVars, StartInv, Listening
  <2>8. Handed'
    BY DEF ConnectIpc, bossVars, clientVars, StartInv, Handed
  <2>9. NoneDropped'
    BY DEF ConnectIpc, bossVars, clientVars, StartInv, NoneDropped
  <2>10. Counted'
    BY DEF ConnectIpc, bossVars, clientVars, StartInv, Counted
  <2> QED BY <2>1, <2>2, <2>3, <2>4, <2>5, <2>6, <2>7, <2>8, <2>9, <2>10
<1> QED BY <1>1 DEF StartInv

LEMMA WaitReadyPreserves ==
    ASSUME StartInv, WaitReady
    PROVE  StartInv'
<1>r. main' = "listen" => \A i \in Workers : session[i] # "none"
  BY AllCounted DEF WaitReady, WorkersReady, StartInv, PipeTypes
<1>1. ThreadTypes' /\ PipeTypes' /\ PortTypes' /\ Stops' /\ Links' /\ Handed' /\
      NoneDropped' /\ Counted'
  <2>1. ThreadTypes'
    BY DEF WaitReady, bossVars, workerVars, clientVars, StartInv, ThreadTypes
  <2>2. PipeTypes'
    BY DEF WaitReady, bossVars, workerVars, clientVars, StartInv, PipeTypes
  <2>3. PortTypes'
    BY DEF WaitReady, bossVars, workerVars, clientVars, StartInv, PortTypes
  <2>4. Stops'
    BY DEF WaitReady, bossVars, workerVars, clientVars, StartInv, Stops
  <2>5. Links'
    BY DEF WaitReady, bossVars, workerVars, clientVars, StartInv, Links
  <2>6. Handed'
    BY DEF WaitReady, bossVars, workerVars, clientVars, StartInv, Handed
  <2>7. NoneDropped'
    BY DEF WaitReady, bossVars, workerVars, clientVars, StartInv, NoneDropped
  <2>8. Counted'
    BY DEF WaitReady, bossVars, workerVars, clientVars, StartInv, Counted
  <2> QED BY <2>1, <2>2, <2>3, <2>4, <2>5, <2>6, <2>7, <2>8
<1>2. AllReady'
  BY <1>r DEF WaitReady, bossVars, StartInv, AllReady
<1>3. Listening'
  BY DEF WaitReady, bossVars, StartInv, Listening
<1> QED BY <1>1, <1>2, <1>3 DEF StartInv

LEMMA WaitListeningPreserves ==
    ASSUME StartInv, WaitListening
    PROVE  StartInv'
<1>1. ThreadTypes' /\ PipeTypes' /\ PortTypes' /\ Stops' /\ Links' /\ AllReady' /\
      Listening' /\ Handed' /\ NoneDropped' /\ Counted'
  <2>1. ThreadTypes'
    BY DEF WaitListening, ListeningOk, bossVars, workerVars, clientVars, StartInv,
       ThreadTypes
  <2>2. PipeTypes'
    BY DEF WaitListening, ListeningOk, bossVars, workerVars, clientVars, StartInv,
       PipeTypes
  <2>3. PortTypes'
    BY DEF WaitListening, ListeningOk, bossVars, workerVars, clientVars, StartInv,
       PortTypes
  <2>4. Stops'
    BY DEF WaitListening, ListeningOk, bossVars, workerVars, clientVars, StartInv,
       Stops
  <2>5. Links'
    BY DEF WaitListening, ListeningOk, bossVars, workerVars, clientVars, StartInv,
       Links
  <2>6. AllReady'
    BY DEF WaitListening, ListeningOk, bossVars, workerVars, clientVars, StartInv,
       AllReady
  <2>7. Listening'
    BY DEF WaitListening, ListeningOk, bossVars, workerVars, clientVars, StartInv,
       Listening
  <2>8. Handed'
    BY DEF WaitListening, ListeningOk, bossVars, workerVars, clientVars, StartInv,
       Handed
  <2>9. NoneDropped'
    BY DEF WaitListening, ListeningOk, bossVars, workerVars, clientVars, StartInv,
       NoneDropped
  <2>10. Counted'
    BY DEF WaitListening, ListeningOk, bossVars, workerVars, clientVars, StartInv,
       Counted
  <2> QED BY <2>1, <2>2, <2>3, <2>4, <2>5, <2>6, <2>7, <2>8, <2>9, <2>10
<1> QED BY <1>1 DEF StartInv

LEMMA QuitPreserves ==
    ASSUME StartInv, Quit
    PROVE  StartInv'
<1>1. ThreadTypes' /\ PipeTypes' /\ PortTypes' /\ Stops' /\ Links' /\ AllReady' /\
      Listening' /\ Handed' /\ NoneDropped' /\ Counted'
  <2>1. ThreadTypes'
    BY DEF Quit, bossVars, workerVars, clientVars, StartInv, ThreadTypes
  <2>2. PipeTypes'
    BY DEF Quit, bossVars, workerVars, clientVars, StartInv, PipeTypes
  <2>3. PortTypes'
    BY DEF Quit, bossVars, workerVars, clientVars, StartInv, PortTypes
  <2>4. Stops'
    BY DEF Quit, bossVars, workerVars, clientVars, StartInv, Stops
  <2>5. Links'
    BY DEF Quit, bossVars, workerVars, clientVars, StartInv, Links
  <2>6. AllReady'
    BY DEF Quit, bossVars, workerVars, clientVars, StartInv, AllReady
  <2>7. Listening'
    BY DEF Quit, bossVars, workerVars, clientVars, StartInv, Listening
  <2>8. Handed'
    BY DEF Quit, bossVars, workerVars, clientVars, StartInv, Handed
  <2>9. NoneDropped'
    BY DEF Quit, bossVars, workerVars, clientVars, StartInv, NoneDropped
  <2>10. Counted'
    BY DEF Quit, bossVars, workerVars, clientVars, StartInv, Counted
  <2> QED BY <2>1, <2>2, <2>3, <2>4, <2>5, <2>6, <2>7, <2>8, <2>9, <2>10
<1> QED BY <1>1 DEF StartInv

LEMMA StopBossPreserves ==
    ASSUME StartInv, StopBoss
    PROVE  StartInv'
<1>1. ThreadTypes' /\ PipeTypes' /\ PortTypes' /\ Stops' /\ Links' /\ AllReady' /\
      Listening' /\ Handed' /\ NoneDropped' /\ Counted'
  <2>1. ThreadTypes'
    BY DEF StopBoss, bossVars, workerVars, clientVars, StartInv, ThreadTypes
  <2>2. PipeTypes'
    BY DEF StopBoss, bossVars, workerVars, clientVars, StartInv, PipeTypes
  <2>3. PortTypes'
    BY DEF StopBoss, bossVars, workerVars, clientVars, StartInv, PortTypes
  <2>4. Stops'
    BY DEF StopBoss, bossVars, workerVars, clientVars, StartInv, Stops
  <2>5. Links'
    BY DEF StopBoss, bossVars, workerVars, clientVars, StartInv, Links
  <2>6. AllReady'
    BY DEF StopBoss, bossVars, workerVars, clientVars, StartInv, AllReady
  <2>7. Listening'
    BY DEF StopBoss, bossVars, workerVars, clientVars, StartInv, Listening
  <2>8. Handed'
    BY DEF StopBoss, bossVars, workerVars, clientVars, StartInv, Handed
  <2>9. NoneDropped'
    BY DEF StopBoss, bossVars, workerVars, clientVars, StartInv, NoneDropped
  <2>10. Counted'
    BY DEF StopBoss, bossVars, workerVars, clientVars, StartInv, Counted
  <2> QED BY <2>1, <2>2, <2>3, <2>4, <2>5, <2>6, <2>7, <2>8, <2>9, <2>10
<1> QED BY <1>1 DEF StartInv

LEMMA StopWorkersPreserves ==
    ASSUME StartInv, StopWorkers
    PROVE  StartInv'
<1>1. ThreadTypes' /\ PipeTypes' /\ PortTypes' /\ Stops' /\ Links' /\ AllReady' /\
      Listening' /\ Handed' /\ NoneDropped' /\ Counted'
  <2>1. ThreadTypes'
    BY DEF StopWorkers, bossVars, clientVars, StartInv, ThreadTypes
  <2>2. PipeTypes'
    BY DEF StopWorkers, bossVars, clientVars, StartInv, PipeTypes
  <2>3. PortTypes'
    BY DEF StopWorkers, bossVars, clientVars, StartInv, PortTypes
  <2>4. Stops'
    BY DEF StopWorkers, bossVars, clientVars, StartInv, Stops
  <2>5. Links'
    BY DEF StopWorkers, bossVars, clientVars, StartInv, Links
  <2>6. AllReady'
    BY DEF StopWorkers, bossVars, clientVars, StartInv, AllReady
  <2>7. Listening'
    BY DEF StopWorkers, bossVars, clientVars, StartInv, Listening
  <2>8. Handed'
    BY DEF StopWorkers, bossVars, clientVars, StartInv, Handed
  <2>9. NoneDropped'
    BY DEF StopWorkers, bossVars, clientVars, StartInv, NoneDropped
  <2>10. Counted'
    BY DEF StopWorkers, bossVars, clientVars, StartInv, Counted
  <2> QED BY <2>1, <2>2, <2>3, <2>4, <2>5, <2>6, <2>7, <2>8, <2>9, <2>10
<1> QED BY <1>1 DEF StartInv

LEMMA JoinBossPreserves ==
    ASSUME StartInv, JoinBoss
    PROVE  StartInv'
<1>1. ThreadTypes' /\ PipeTypes' /\ PortTypes' /\ Stops' /\ Links' /\ AllReady' /\
      Listening' /\ Handed' /\ NoneDropped' /\ Counted'
  <2>1. ThreadTypes'
    BY DEF JoinBoss, bossVars, workerVars, clientVars, StartInv, ThreadTypes
  <2>2. PipeTypes'
    BY DEF JoinBoss, bossVars, workerVars, clientVars, StartInv, PipeTypes
  <2>3. PortTypes'
    BY DEF JoinBoss, bossVars, workerVars, clientVars, StartInv, PortTypes
  <2>4. Stops'
    BY DEF JoinBoss, bossVars, workerVars, clientVars, StartInv, Stops
  <2>5. Links'
    BY DEF JoinBoss, bossVars, workerVars, clientVars, StartInv, Links
  <2>6. AllReady'
    BY DEF JoinBoss, bossVars, workerVars, clientVars, StartInv, AllReady
  <2>7. Listening'
    BY DEF JoinBoss, bossVars, workerVars, clientVars, StartInv, Listening
  <2>8. Handed'
    BY DEF JoinBoss, bossVars, workerVars, clientVars, StartInv, Handed
  <2>9. NoneDropped'
    BY DEF JoinBoss, bossVars, workerVars, clientVars, StartInv, NoneDropped
  <2>10. Counted'
    BY DEF JoinBoss, bossVars, workerVars, clientVars, StartInv, Counted
  <2> QED BY <2>1, <2>2, <2>3, <2>4, <2>5, <2>6, <2>7, <2>8, <2>9, <2>10
<1> QED BY <1>1 DEF StartInv

LEMMA JoinWorkersPreserves ==
    ASSUME StartInv, JoinWorkers
    PROVE  StartInv'
<1>1. ThreadTypes' /\ PipeTypes' /\ PortTypes' /\ Stops' /\ Links' /\ AllReady' /\
      Listening' /\ Handed' /\ NoneDropped' /\ Counted'
  <2>1. ThreadTypes'
    BY DEF JoinWorkers, bossVars, workerVars, clientVars, StartInv, ThreadTypes
  <2>2. PipeTypes'
    BY DEF JoinWorkers, bossVars, workerVars, clientVars, StartInv, PipeTypes
  <2>3. PortTypes'
    BY DEF JoinWorkers, bossVars, workerVars, clientVars, StartInv, PortTypes
  <2>4. Stops'
    BY DEF JoinWorkers, bossVars, workerVars, clientVars, StartInv, Stops
  <2>5. Links'
    BY DEF JoinWorkers, bossVars, workerVars, clientVars, StartInv, Links
  <2>6. AllReady'
    BY DEF JoinWorkers, bossVars, workerVars, clientVars, StartInv, AllReady
  <2>7. Listening'
    BY DEF JoinWorkers, bossVars, workerVars, clientVars, StartInv, Listening
  <2>8. Handed'
    BY DEF JoinWorkers, bossVars, workerVars, clientVars, StartInv, Handed
  <2>9. NoneDropped'
    BY DEF JoinWorkers, bossVars, workerVars, clientVars, StartInv, NoneDropped
  <2>10. Counted'
    BY DEF JoinWorkers, bossVars, workerVars, clientVars, StartInv, Counted
  <2> QED BY <2>1, <2>2, <2>3, <2>4, <2>5, <2>6, <2>7, <2>8, <2>9, <2>10
<1> QED BY <1>1 DEF StartInv

LEMMA PipeConnectionPreserves ==
    ASSUME StartInv, NEW i \in Workers, PipeConnection(i)
    PROVE  StartInv'
<1>s. session[i] = "none" /\ session' = [session EXCEPT ![i] = "up"]
  BY DEF PipeConnection, StartInv, PipeTypes, Links
<1>1. ThreadTypes' /\ PortTypes'
  BY DEF PipeConnection, mainVars, clientVars, StartInv, ThreadTypes, PortTypes
<1>2. PipeTypes'
  <2>1. ready' = ready + 1 /\ ready \in Nat
    BY DEF PipeConnection, StartInv, PipeTypes
  <2> QED BY <1>s, <2>1 DEF PipeConnection, StartInv, PipeTypes
<1>3. Stops'
  BY <1>s DEF PipeConnection, mainVars, StartInv, PipeTypes, Stops
<1>4. Links'
  BY <1>s DEF PipeConnection, mainVars, StartInv, PipeTypes, Links
<1>5. AllReady' /\ Listening' /\ Handed' /\ NoneDropped'
  BY DEF PipeConnection, mainVars, clientVars, StartInv, AllReady, Listening,
     Handed, NoneDropped
<1>6. Counted'
  <2> DEFINE up == {j \in Workers : session[j] # "none"}
  <2>2. IsFiniteSet(up)
    BY WorkersFinite, FS_Subset
  <2>3. i \notin up /\ {j \in Workers : session'[j] # "none"} = up \cup {i}
    BY <1>s DEF StartInv, PipeTypes
  <2>4. Cardinality(up \cup {i}) = Cardinality(up) + 1
    BY <2>2, <2>3, FS_AddElement
  <2> QED BY <2>3, <2>4 DEF PipeConnection, StartInv, Counted
<1> QED BY <1>1, <1>2, <1>3, <1>4, <1>5, <1>6 DEF StartInv

LEMMA PipeConnectionFailsPreserves ==
    ASSUME StartInv, NEW i \in Workers, PipeConnectionFails(i)
    PROVE  StartInv'
<1>f. faults' \in Nat
  BY FaultsAreCounted DEF PipeConnectionFails, StartInv, PipeTypes
<1>1. ThreadTypes' /\ PipeTypes' /\ PortTypes' /\ Stops' /\ Links' /\ AllReady' /\
      Listening' /\ Handed' /\ NoneDropped' /\ Counted'
  <2>1. ThreadTypes'
    BY DEF PipeConnectionFails, mainVars, bossVars, clientVars, StartInv,
       ThreadTypes
  <2>2. PipeTypes'
    BY <1>f DEF PipeConnectionFails, mainVars, bossVars, clientVars, StartInv,
       PipeTypes
  <2>3. PortTypes'
    BY DEF PipeConnectionFails, mainVars, bossVars, clientVars, StartInv, PortTypes
  <2>4. Stops'
    BY DEF PipeConnectionFails, mainVars, bossVars, clientVars, StartInv, Stops
  <2>5. Links'
    BY DEF PipeConnectionFails, mainVars, bossVars, clientVars, StartInv, Links
  <2>6. AllReady'
    BY DEF PipeConnectionFails, mainVars, bossVars, clientVars, StartInv, AllReady
  <2>7. Listening'
    BY DEF PipeConnectionFails, mainVars, bossVars, clientVars, StartInv, Listening
  <2>8. Handed'
    BY DEF PipeConnectionFails, mainVars, bossVars, clientVars, StartInv, Handed
  <2>9. NoneDropped'
    BY DEF PipeConnectionFails, mainVars, bossVars, clientVars, StartInv,
       NoneDropped
  <2>10. Counted'
    BY DEF PipeConnectionFails, mainVars, bossVars, clientVars, StartInv, Counted
  <2> QED BY <2>1, <2>2, <2>3, <2>4, <2>5, <2>6, <2>7, <2>8, <2>9, <2>10
<1> QED BY <1>1 DEF StartInv

LEMMA ListensPreserves ==
    ASSUME StartInv, Listens
    PROVE  StartInv'
<1>1. ThreadTypes' /\ PipeTypes' /\ PortTypes' /\ Stops' /\ Links' /\ AllReady' /\
      Listening' /\ Handed' /\ NoneDropped' /\ Counted'
  <2>1. ThreadTypes'
    BY DEF Listens, mainVars, workerVars, clientVars, StartInv, ThreadTypes
  <2>2. PipeTypes'
    BY DEF Listens, mainVars, workerVars, clientVars, StartInv, PipeTypes
  <2>3. PortTypes'
    BY DEF Listens, mainVars, workerVars, clientVars, StartInv, PortTypes
  <2>4. Stops'
    BY DEF Listens, mainVars, workerVars, clientVars, StartInv, Stops
  <2>5. Links'
    BY DEF Listens, mainVars, workerVars, clientVars, StartInv, Links
  <2>6. AllReady'
    BY DEF Listens, mainVars, workerVars, clientVars, StartInv, AllReady
  <2>7. Listening'
    BY DEF Listens, mainVars, workerVars, clientVars, StartInv, Listening
  <2>8. Handed'
    BY DEF Listens, mainVars, workerVars, clientVars, StartInv, Handed
  <2>9. NoneDropped'
    BY DEF Listens, mainVars, workerVars, clientVars, StartInv, NoneDropped
  <2>10. Counted'
    BY DEF Listens, mainVars, workerVars, clientVars, StartInv, Counted
  <2> QED BY <2>1, <2>2, <2>3, <2>4, <2>5, <2>6, <2>7, <2>8, <2>9, <2>10
<1> QED BY <1>1 DEF StartInv

LEMMA ListenFailsPreserves ==
    ASSUME StartInv, ListenFails
    PROVE  StartInv'
<1>f. faults' \in Nat
  BY FaultsAreCounted DEF ListenFails, StartInv, PipeTypes
<1>1. ThreadTypes' /\ PipeTypes' /\ PortTypes' /\ Stops' /\ Links' /\ AllReady' /\
      Listening' /\ Handed' /\ NoneDropped' /\ Counted'
  <2>1. ThreadTypes'
    BY DEF ListenFails, mainVars, workerVars, clientVars, StartInv, ThreadTypes
  <2>2. PipeTypes'
    BY <1>f DEF ListenFails, mainVars, workerVars, clientVars, StartInv, PipeTypes
  <2>3. PortTypes'
    BY DEF ListenFails, mainVars, workerVars, clientVars, StartInv, PortTypes
  <2>4. Stops'
    BY DEF ListenFails, mainVars, workerVars, clientVars, StartInv, Stops
  <2>5. Links'
    BY DEF ListenFails, mainVars, workerVars, clientVars, StartInv, Links
  <2>6. AllReady'
    BY DEF ListenFails, mainVars, workerVars, clientVars, StartInv, AllReady
  <2>7. Listening'
    BY DEF ListenFails, mainVars, workerVars, clientVars, StartInv, Listening
  <2>8. Handed'
    BY DEF ListenFails, mainVars, workerVars, clientVars, StartInv, Handed
  <2>9. NoneDropped'
    BY DEF ListenFails, mainVars, workerVars, clientVars, StartInv, NoneDropped
  <2>10. Counted'
    BY DEF ListenFails, mainVars, workerVars, clientVars, StartInv, Counted
  <2> QED BY <2>1, <2>2, <2>3, <2>4, <2>5, <2>6, <2>7, <2>8, <2>9, <2>10
<1> QED BY <1>1 DEF StartInv

LEMMA ConnectsPreserves ==
    ASSUME StartInv, NEW k \in Clients, Connects(k)
    PROVE  StartInv'
<1>1. ThreadTypes' /\ PipeTypes' /\ PortTypes' /\ Stops' /\ Links' /\ AllReady' /\
      Listening' /\ Handed' /\ NoneDropped' /\ Counted'
  <2>1. ThreadTypes'
    BY DEF Connects, mainVars, bossVars, workerVars, StartInv, ThreadTypes
  <2>2. PipeTypes'
    BY DEF Connects, mainVars, bossVars, workerVars, StartInv, PipeTypes
  <2>3. PortTypes'
    BY DEF Connects, mainVars, bossVars, workerVars, StartInv, PortTypes
  <2>4. Stops'
    BY DEF Connects, mainVars, bossVars, workerVars, StartInv, Stops
  <2>5. Links'
    BY DEF Connects, mainVars, bossVars, workerVars, StartInv, Links
  <2>6. AllReady'
    BY DEF Connects, mainVars, bossVars, workerVars, StartInv, AllReady
  <2>7. Listening'
    BY DEF Connects, mainVars, bossVars, workerVars, StartInv, Listening
  <2>8. Handed'
    BY DEF Connects, mainVars, bossVars, workerVars, StartInv, Handed
  <2>9. NoneDropped'
    BY DEF Connects, mainVars, bossVars, workerVars, StartInv, NoneDropped
  <2>10. Counted'
    BY DEF Connects, mainVars, bossVars, workerVars, StartInv, Counted
  <2> QED BY <2>1, <2>2, <2>3, <2>4, <2>5, <2>6, <2>7, <2>8, <2>9, <2>10
<1> QED BY <1>1 DEF StartInv

LEMMA HandoffPreserves ==
    ASSUME StartInv, NEW k \in Clients, Handoff(k)
    PROVE  StartInv'
<1>s. PICK i \in Workers :
        /\ session[i] # "none"
        /\ client' = [client EXCEPT ![k] = "writing"]
        /\ to' = [to EXCEPT ![k] = i]
        /\ next' = After(i)
  BY SomeSession DEF Handoff, HasTurn
<1>1. ThreadTypes' /\ PipeTypes' /\ Stops' /\ Links' /\ AllReady' /\ Listening' /\
      Counted'
  <2>1. ThreadTypes'
    BY DEF Handoff, HandoffVars, Accepts, mainVars, bossVars, workerVars, StartInv,
       ThreadTypes
  <2>2. PipeTypes'
    BY DEF Handoff, HandoffVars, Accepts, mainVars, bossVars, workerVars, StartInv,
       PipeTypes
  <2>3. Stops'
    BY DEF Handoff, HandoffVars, Accepts, mainVars, bossVars, workerVars, StartInv,
       Stops
  <2>4. Links'
    BY DEF Handoff, HandoffVars, Accepts, mainVars, bossVars, workerVars, StartInv,
       Links
  <2>5. AllReady'
    BY DEF Handoff, HandoffVars, Accepts, mainVars, bossVars, workerVars, StartInv,
       AllReady
  <2>6. Listening'
    BY DEF Handoff, HandoffVars, Accepts, mainVars, bossVars, workerVars, StartInv,
       Listening
  <2>7. Counted'
    BY DEF Handoff, HandoffVars, Accepts, mainVars, bossVars, workerVars, StartInv,
       Counted
  <2> QED BY <2>1, <2>2, <2>3, <2>4, <2>5, <2>6, <2>7
<1>2. PortTypes'
  <2>1. next' \in Workers
    BY <1>s, StartAssumption DEF After, Workers
  <2> QED
    BY <1>s, <2>1 DEF Handoff, HandoffVars, bossVars, StartInv, PortTypes
<1>3. Handed'
  BY <1>s DEF Handoff, HandoffVars, bossVars, StartInv, PortTypes, Handed
<1>4. NoneDropped'
  BY <1>s DEF Handoff, HandoffVars, mainVars, StartInv, PortTypes, NoneDropped
<1> QED BY <1>1, <1>2, <1>3, <1>4 DEF StartInv

LEMMA HandoffFailsPreserves ==
    ASSUME StartInv, NEW k \in Clients, NEW i \in Workers, HandoffFails(k, i)
    PROVE  StartInv'
<1>f. faults' \in Nat
  BY FaultsAreCounted DEF HandoffFails, StartInv, PipeTypes
<1>1. ThreadTypes'
  BY DEF HandoffFails, HandoffVars, Accepts, mainVars, bossVars, workerVars,
     StartInv, ThreadTypes
<1>2. PipeTypes'
  BY <1>f DEF HandoffFails, HandoffVars, Accepts, mainVars, bossVars,
     workerVars, StartInv, PipeTypes
<1>3. PortTypes'
  <2>1. next' \in Workers
    BY StartAssumption DEF HandoffFails, After, Workers
  <2> QED
    BY <2>1 DEF HandoffFails, HandoffVars, bossVars, StartInv, PortTypes
<1>4. Stops'
  BY DEF HandoffFails, HandoffVars, Accepts, mainVars, bossVars, workerVars,
     StartInv, Stops
<1>5. Links'
  BY DEF HandoffFails, HandoffVars, Accepts, mainVars, bossVars, workerVars,
     StartInv, Links
<1>6. AllReady'
  BY DEF HandoffFails, HandoffVars, Accepts, mainVars, bossVars, workerVars,
     StartInv, AllReady
<1>7. Listening'
  BY DEF HandoffFails, HandoffVars, Accepts, mainVars, bossVars, workerVars,
     StartInv, Listening
<1>8. Handed'
  BY DEF HandoffFails, HandoffVars, Accepts, mainVars, bossVars, workerVars,
     StartInv, Handed
<1>9. NoneDropped'
  BY DEF HandoffFails, HandoffVars, Accepts, mainVars, bossVars, workerVars,
     StartInv, NoneDropped
<1>10. Counted'
  BY DEF HandoffFails, HandoffVars, Accepts, mainVars, bossVars, workerVars,
     StartInv, Counted
<1> QED BY <1>1, <1>2, <1>3, <1>4, <1>5, <1>6, <1>7, <1>8, <1>9, <1>10 DEF StartInv

LEMMA HandoffDonePreserves ==
    ASSUME StartInv, NEW k \in Clients, HandoffDone(k)
    PROVE  StartInv'
<1>1. ThreadTypes' /\ PipeTypes' /\ PortTypes' /\ Stops' /\ Links' /\ AllReady' /\
      Listening' /\ Handed' /\ Counted'
  <2>1. ThreadTypes'
    BY DEF HandoffDone, HandoffVars, mainVars, bossVars, workerVars, StartInv,
       ThreadTypes
  <2>2. PipeTypes'
    BY DEF HandoffDone, HandoffVars, mainVars, bossVars, workerVars, StartInv,
       PipeTypes
  <2>3. PortTypes'
    BY DEF HandoffDone, HandoffVars, mainVars, bossVars, workerVars, StartInv,
       PortTypes
  <2>4. Stops'
    BY DEF HandoffDone, HandoffVars, mainVars, bossVars, workerVars, StartInv, Stops
  <2>5. Links'
    BY DEF HandoffDone, HandoffVars, mainVars, bossVars, workerVars, StartInv, Links
  <2>6. AllReady'
    BY DEF HandoffDone, HandoffVars, mainVars, bossVars, workerVars, StartInv,
       AllReady
  <2>7. Listening'
    BY DEF HandoffDone, HandoffVars, mainVars, bossVars, workerVars, StartInv,
       Listening
  <2>8. Handed'
    BY DEF HandoffDone, HandoffVars, mainVars, bossVars, workerVars, StartInv,
       Handed
  <2>9. Counted'
    BY DEF HandoffDone, HandoffVars, mainVars, bossVars, workerVars, StartInv,
       Counted
  <2> QED BY <2>1, <2>2, <2>3, <2>4, <2>5, <2>6, <2>7, <2>8, <2>9
<1>2. NoneDropped'
  <2>1. ~stopping => ipc[to[k]] = "up"
    <3>1. to[k] \in Workers /\ session[to[k]] # "none"
      BY DEF HandoffDone, StartInv, PortTypes, Handed
    <3>2. session[to[k]] \in {"up", "closed"}
      BY <3>1 DEF StartInv, PipeTypes
    <3> QED BY <3>1, <3>2 DEF StartInv, Stops, Links
  <2> QED BY <2>1 DEF HandoffDone, HandoffVars, mainVars, StartInv, PortTypes, NoneDropped
<1> QED BY <1>1, <1>2 DEF StartInv

LEMMA HandoffErrsPreserves ==
    ASSUME StartInv, NEW k \in Clients, HandoffErrs(k)
    PROVE  StartInv'
<1>f. faults' \in Nat
  BY FaultsAreCounted DEF HandoffErrs, StartInv, PipeTypes
<1>1. ThreadTypes'
  BY DEF HandoffErrs, HandoffVars, mainVars, bossVars, workerVars, StartInv, ThreadTypes
<1>2. PipeTypes'
  BY <1>f DEF HandoffErrs, HandoffVars, mainVars, bossVars, workerVars, StartInv,
     PipeTypes
<1>3. PortTypes'
  BY DEF HandoffErrs, HandoffVars, mainVars, bossVars, workerVars, StartInv, PortTypes
<1>4. Stops'
  BY DEF HandoffErrs, HandoffVars, mainVars, bossVars, workerVars, StartInv, Stops
<1>5. Links'
  BY DEF HandoffErrs, HandoffVars, mainVars, bossVars, workerVars, StartInv, Links
<1>6. AllReady'
  BY DEF HandoffErrs, HandoffVars, mainVars, bossVars, workerVars, StartInv, AllReady
<1>7. Listening'
  BY DEF HandoffErrs, HandoffVars, mainVars, bossVars, workerVars, StartInv, Listening
<1>8. Handed'
  BY DEF HandoffErrs, HandoffVars, mainVars, bossVars, workerVars, StartInv, Handed
<1>9. NoneDropped'
  BY DEF HandoffErrs, HandoffVars, mainVars, bossVars, workerVars, StartInv, NoneDropped
<1>10. Counted'
  BY DEF HandoffErrs, HandoffVars, mainVars, bossVars, workerVars, StartInv, Counted
<1> QED BY <1>1, <1>2, <1>3, <1>4, <1>5, <1>6, <1>7, <1>8, <1>9, <1>10 DEF StartInv

LEMMA BossStopsPreserves ==
    ASSUME StartInv, BossStops
    PROVE  StartInv'
<1>1. ThreadTypes' /\ PipeTypes' /\ PortTypes' /\ Stops' /\ Links' /\ AllReady' /\
      Listening' /\ Handed' /\ NoneDropped' /\ Counted'
  <2>1. ThreadTypes'
    BY DEF BossStops, ClosesHandles, ServerClosed, mainVars, StartInv, ThreadTypes
  <2>2. PipeTypes'
    BY DEF BossStops, ClosesHandles, ServerClosed, mainVars, StartInv, PipeTypes
  <2>3. PortTypes'
    BY DEF BossStops, ClosesHandles, ServerClosed, mainVars, StartInv, PortTypes
  <2>4. Stops'
    BY DEF BossStops, ClosesHandles, ServerClosed, mainVars, StartInv, Stops
  <2>5. Links'
    BY DEF BossStops, ClosesHandles, ServerClosed, mainVars, StartInv, Links
  <2>6. AllReady'
    BY DEF BossStops, ClosesHandles, ServerClosed, mainVars, StartInv, AllReady
  <2>7. Listening'
    BY DEF BossStops, ClosesHandles, ServerClosed, mainVars, StartInv, Listening
  <2>8. Handed'
    BY DEF BossStops, ClosesHandles, ServerClosed, mainVars, StartInv, Handed
  <2>9. NoneDropped'
    <3>1. stopping'
      BY DEF BossStops, ClosesHandles, mainVars, StartInv, Stops
    <3> QED BY <3>1 DEF NoneDropped
  <2>10. Counted'
    BY DEF BossStops, ClosesHandles, ServerClosed, mainVars, StartInv, Counted
  <2> QED BY <2>1, <2>2, <2>3, <2>4, <2>5, <2>6, <2>7, <2>8, <2>9, <2>10
<1> QED BY <1>1 DEF StartInv

LEMMA BossStopsLatePreserves ==
    ASSUME StartInv, BossStopsLate
    PROVE  StartInv'
<1>f. faults' \in Nat
  BY FaultsAreCounted DEF BossStopsLate, StartInv, PipeTypes
<1>1. ThreadTypes'
  BY DEF BossStopsLate, ClosesHandles, mainVars, StartInv, ThreadTypes
<1>2. PipeTypes'
  BY <1>f DEF BossStopsLate, ClosesHandles, mainVars, StartInv, PipeTypes
<1>3. PortTypes'
  BY DEF BossStopsLate, ClosesHandles, mainVars, StartInv, PortTypes
<1>4. Stops'
  BY DEF BossStopsLate, ClosesHandles, mainVars, StartInv, Stops
<1>5. Links'
  BY DEF BossStopsLate, ClosesHandles, mainVars, StartInv, Links
<1>6. AllReady'
  BY DEF BossStopsLate, ClosesHandles, mainVars, StartInv, AllReady
<1>7. Listening'
  BY DEF BossStopsLate, ClosesHandles, mainVars, StartInv, Listening
<1>8. Handed'
  BY DEF BossStopsLate, ClosesHandles, mainVars, StartInv, Handed
<1>9. NoneDropped'
  <2>1. stopping'
    BY DEF BossStopsLate, ClosesHandles, mainVars, StartInv, Stops
  <2> QED BY <2>1 DEF NoneDropped
<1>10. Counted'
  BY DEF BossStopsLate, ClosesHandles, mainVars, StartInv, Counted
<1> QED BY <1>1, <1>2, <1>3, <1>4, <1>5, <1>6, <1>7, <1>8, <1>9, <1>10 DEF StartInv

LEMMA AcceptsLatePreserves ==
    ASSUME StartInv, NEW k \in Clients, AcceptsLate(k)
    PROVE  StartInv'
<1>1. ThreadTypes'
  BY DEF AcceptsLate, mainVars, bossVars, workerVars, clientVars, StartInv, ThreadTypes
<1>2. PipeTypes'
  BY DEF AcceptsLate, mainVars, bossVars, workerVars, clientVars, StartInv, PipeTypes
<1>3. PortTypes'
  BY DEF AcceptsLate, mainVars, bossVars, workerVars, clientVars, StartInv, PortTypes
<1>4. Stops'
  BY DEF AcceptsLate, mainVars, bossVars, workerVars, clientVars, StartInv, Stops
<1>5. Links'
  BY DEF AcceptsLate, mainVars, bossVars, workerVars, clientVars, StartInv, Links
<1>6. AllReady'
  BY DEF AcceptsLate, mainVars, bossVars, workerVars, clientVars, StartInv, AllReady
<1>7. Listening'
  BY DEF AcceptsLate, mainVars, bossVars, workerVars, clientVars, StartInv, Listening
<1>8. Handed'
  BY DEF AcceptsLate, mainVars, bossVars, workerVars, clientVars, StartInv, Handed
<1>9. NoneDropped'
  BY DEF AcceptsLate, mainVars, bossVars, workerVars, clientVars, StartInv, NoneDropped
<1>10. Counted'
  BY DEF AcceptsLate, mainVars, bossVars, workerVars, clientVars, StartInv, Counted
<1> QED BY <1>1, <1>2, <1>3, <1>4, <1>5, <1>6, <1>7, <1>8, <1>9, <1>10 DEF StartInv

LEMMA BossEndsPreserves ==
    ASSUME StartInv, BossEnds
    PROVE  StartInv'
<1>1. ThreadTypes' /\ PipeTypes' /\ PortTypes' /\ Stops' /\ Links' /\ AllReady' /\
      Listening' /\ Handed' /\ NoneDropped' /\ Counted'
  <2>1. ThreadTypes'
    BY DEF BossEnds, mainVars, workerVars, clientVars, StartInv, ThreadTypes
  <2>2. PipeTypes'
    BY DEF BossEnds, mainVars, workerVars, clientVars, StartInv, PipeTypes
  <2>3. PortTypes'
    BY DEF BossEnds, mainVars, workerVars, clientVars, StartInv, PortTypes
  <2>4. Stops'
    BY DEF BossEnds, mainVars, workerVars, clientVars, StartInv, Stops
  <2>5. Links'
    BY DEF BossEnds, mainVars, workerVars, clientVars, StartInv, Links
  <2>6. AllReady'
    BY DEF BossEnds, mainVars, workerVars, clientVars, StartInv, AllReady
  <2>7. Listening'
    BY DEF BossEnds, mainVars, workerVars, clientVars, StartInv, Listening
  <2>8. Handed'
    BY DEF BossEnds, mainVars, workerVars, clientVars, StartInv, Handed
  <2>9. NoneDropped'
    BY DEF BossEnds, mainVars, workerVars, clientVars, StartInv, NoneDropped
  <2>10. Counted'
    BY DEF BossEnds, mainVars, workerVars, clientVars, StartInv, Counted
  <2> QED BY <2>1, <2>2, <2>3, <2>4, <2>5, <2>6, <2>7, <2>8, <2>9, <2>10
<1> QED BY <1>1 DEF StartInv

LEMMA WorkerConnectsPreserves ==
    ASSUME StartInv, NEW i \in Workers, WorkerConnects(i)
    PROVE  StartInv'
<1>1. ThreadTypes' /\ PipeTypes' /\ PortTypes' /\ Stops' /\ Links' /\ AllReady' /\
      Listening' /\ Handed' /\ NoneDropped' /\ Counted'
  <2>1. ThreadTypes'
    BY DEF WorkerConnects, mainVars, bossVars, clientVars, StartInv, ThreadTypes
  <2>2. PipeTypes'
    BY DEF WorkerConnects, mainVars, bossVars, clientVars, StartInv, PipeTypes
  <2>3. PortTypes'
    BY DEF WorkerConnects, mainVars, bossVars, clientVars, StartInv, PortTypes
  <2>4. Stops'
    BY DEF WorkerConnects, mainVars, bossVars, clientVars, StartInv, Stops
  <2>5. Links'
    BY DEF WorkerConnects, mainVars, bossVars, clientVars, StartInv, Links
  <2>6. AllReady'
    BY DEF WorkerConnects, mainVars, bossVars, clientVars, StartInv, AllReady
  <2>7. Listening'
    BY DEF WorkerConnects, mainVars, bossVars, clientVars, StartInv, Listening
  <2>8. Handed'
    BY DEF WorkerConnects, mainVars, bossVars, clientVars, StartInv, Handed
  <2>9. NoneDropped'
    BY DEF WorkerConnects, mainVars, bossVars, clientVars, StartInv, NoneDropped
  <2>10. Counted'
    BY DEF WorkerConnects, mainVars, bossVars, clientVars, StartInv, Counted
  <2> QED BY <2>1, <2>2, <2>3, <2>4, <2>5, <2>6, <2>7, <2>8, <2>9, <2>10
<1> QED BY <1>1 DEF StartInv

LEMMA AdoptsPreserves ==
    ASSUME StartInv, NEW k \in Clients, Adopts(k)
    PROVE  StartInv'
<1>1. ThreadTypes'
  BY DEF Adopts, HandoffVars, mainVars, bossVars, workerVars, StartInv,
     ThreadTypes
<1>2. PipeTypes'
  BY DEF Adopts, HandoffVars, mainVars, bossVars, workerVars, StartInv,
     PipeTypes
<1>3. PortTypes'
  BY DEF Adopts, HandoffVars, mainVars, bossVars, workerVars, StartInv,
     PortTypes
<1>4. Stops'
  BY DEF Adopts, HandoffVars, mainVars, bossVars, workerVars, StartInv, Stops
<1>5. Links'
  BY DEF Adopts, HandoffVars, mainVars, bossVars, workerVars, StartInv, Links
<1>6. AllReady'
  BY DEF Adopts, HandoffVars, mainVars, bossVars, workerVars, StartInv, AllReady
<1>7. Listening'
  BY DEF Adopts, HandoffVars, mainVars, bossVars, workerVars, StartInv,
     Listening
<1>8. Handed'
  BY DEF Adopts, HandoffVars, mainVars, bossVars, workerVars, StartInv, Handed
<1>9. NoneDropped'
  BY DEF Adopts, HandoffVars, mainVars, bossVars, workerVars, StartInv,
     NoneDropped
<1>10. Counted'
  BY DEF Adopts, HandoffVars, mainVars, bossVars, workerVars, StartInv, Counted
<1> QED BY <1>1, <1>2, <1>3, <1>4, <1>5, <1>6, <1>7, <1>8, <1>9, <1>10 DEF StartInv

LEMMA WorkerSeesEndPreserves ==
    ASSUME StartInv, NEW i \in Workers, WorkerSeesEnd(i)
    PROVE  StartInv'
<1>1. ThreadTypes'
  BY DEF WorkerSeesEnd, mainVars, bossVars, clientVars, StartInv, ThreadTypes
<1>2. PipeTypes'
  BY DEF WorkerSeesEnd, mainVars, bossVars, clientVars, StartInv, PipeTypes
<1>3. PortTypes'
  BY DEF WorkerSeesEnd, mainVars, bossVars, clientVars, StartInv, PortTypes
<1>4. Stops'
  BY DEF WorkerSeesEnd, mainVars, bossVars, clientVars, StartInv, Stops
<1>5. Links'
  BY DEF WorkerSeesEnd, mainVars, bossVars, clientVars, StartInv, Links
<1>6. AllReady'
  BY DEF WorkerSeesEnd, mainVars, bossVars, clientVars, StartInv, AllReady
<1>7. Listening'
  BY DEF WorkerSeesEnd, mainVars, bossVars, clientVars, StartInv, Listening
<1>8. Handed'
  BY DEF WorkerSeesEnd, mainVars, bossVars, clientVars, StartInv, Handed
<1>9. NoneDropped'
  BY DEF WorkerSeesEnd, mainVars, bossVars, clientVars, StartInv, NoneDropped
<1>10. Counted'
  BY DEF WorkerSeesEnd, mainVars, bossVars, clientVars, StartInv, Counted
<1> QED BY <1>1, <1>2, <1>3, <1>4, <1>5, <1>6, <1>7, <1>8, <1>9, <1>10 DEF StartInv

LEMMA WorkerStopsPreserves ==
    ASSUME StartInv, NEW i \in Workers, WorkerStops(i)
    PROVE  StartInv'
<1>1. ThreadTypes'
  BY DEF WorkerStops, mainVars, bossVars, StartInv, ThreadTypes
<1>2. PipeTypes'
  BY DEF WorkerStops, mainVars, bossVars, StartInv, PipeTypes
<1>3. PortTypes'
  BY DEF WorkerStops, mainVars, bossVars, StartInv, PortTypes
<1>4. Stops'
  BY DEF WorkerStops, mainVars, bossVars, StartInv, Stops
<1>5. Links'
  BY DEF WorkerStops, mainVars, bossVars, StartInv, ThreadTypes, PipeTypes, Stops, Links
<1>6. AllReady'
  BY DEF WorkerStops, mainVars, bossVars, StartInv, AllReady
<1>7. Listening'
  BY DEF WorkerStops, mainVars, bossVars, StartInv, Listening
<1>8. Handed'
  BY DEF WorkerStops, mainVars, bossVars, StartInv, Handed
<1>9. NoneDropped'
  BY DEF WorkerStops, mainVars, StartInv, PortTypes, Stops, NoneDropped
<1>10. Counted'
  BY DEF WorkerStops, mainVars, bossVars, StartInv, Counted
<1> QED BY <1>1, <1>2, <1>3, <1>4, <1>5, <1>6, <1>7, <1>8, <1>9, <1>10 DEF StartInv

-----------------------------------------------------------------------------
LEMMA StartInitHolds == StartInit => StartInv
<1> SUFFICES ASSUME StartInit PROVE StartInv
  OBVIOUS
<1>1. ThreadTypes /\ PipeTypes
  BY DEF StartInit, ThreadTypes, PipeTypes
<1>4. PortTypes
  <2>1. 1 \in Workers
    BY StartAssumption DEF Workers
  <2> QED BY <2>1 DEF StartInit, PortTypes
<1>2. Stops /\ Links /\ AllReady /\ Listening /\ Handed /\ NoneDropped
  BY DEF StartInit, Stops, Links, AllReady, Listening, Handed, NoneDropped
<1>3. Counted
  <2>1. {i \in Workers : session[i] # "none"} = {}
    BY DEF StartInit
  <2> QED BY <2>1, FS_EmptySet DEF StartInit, Counted
<1> QED BY <1>1, <1>2, <1>3, <1>4 DEF StartInv

LEMMA StutterPreserves == ASSUME StartInv, UNCHANGED startVars PROVE StartInv'
<1>1. ThreadTypes' /\ PipeTypes'
  BY DEF startVars, mainVars, bossVars, workerVars, StartInv, ThreadTypes, PipeTypes
<1>5. PortTypes'
  BY DEF startVars, bossVars, clientVars, StartInv, PortTypes
<1>3. Stops' /\ Links' /\ AllReady' /\ Listening'
  BY DEF startVars, mainVars, bossVars, workerVars, StartInv, Stops, Links, AllReady,
     Listening
<1>4. Handed' /\ NoneDropped'
  BY DEF startVars, mainVars, bossVars, clientVars, StartInv, Handed, NoneDropped
<1>2. Counted'
  BY DEF startVars, bossVars, StartInv, Counted
<1> QED BY <1>1, <1>2, <1>3, <1>4, <1>5 DEF StartInv

LEMMA StartStepPreserves == StartInv /\ [StartNext]_startVars => StartInv'
<1> SUFFICES ASSUME StartInv, [StartNext]_startVars PROVE StartInv'
  OBVIOUS
<1>1. CASE MainSteps
  BY <1>1, StartBossPreserves, BossStartedPreserves, StartWorkersPreserves,
     ConnectIpcPreserves, WaitReadyPreserves, WaitListeningPreserves, StopBossPreserves,
     StopWorkersPreserves, JoinBossPreserves, JoinWorkersPreserves DEF MainSteps
<1>2. CASE BossSteps
  BY <1>2, BossUpPreserves, ListensPreserves, BossStopsPreserves, BossEndsPreserves,
     PipeConnectionPreserves, HandoffPreserves, HandoffDonePreserves,
     BossStopsLatePreserves, AcceptsLatePreserves DEF BossSteps
<1>3. CASE \E i \in Workers : WorkerSteps(i)
  BY <1>3, WorkerConnectsPreserves, WorkerSeesEndPreserves, WorkerStopsPreserves,
     AdoptsPreserves DEF WorkerSteps
<1>4. CASE Faulty
  BY <1>4, BossAbortsPreserves, ListenFailsPreserves, BossStopsItselfPreserves,
     PipeConnectionFailsPreserves, HandoffFailsPreserves, HandoffErrsPreserves DEF Faulty
<1>5. CASE Quit
  BY <1>5, QuitPreserves
<1>6. CASE \E k \in Clients : Connects(k)
  BY <1>6, ConnectsPreserves
<1>7. CASE UNCHANGED startVars
  BY <1>7, StutterPreserves
<1> QED BY <1>1, <1>2, <1>3, <1>4, <1>5, <1>6, <1>7 DEF StartNext

LEMMA StartInvariant == StartSpec => []StartInv
BY StartInitHolds, StartStepPreserves, PTL DEF StartSpec

-----------------------------------------------------------------------------
(***************************************************************************)
(* The threads, the pipes and the connections of a server keep their types *)
(* through start and stop (ServerStartup!StartTypeOK).                     *)
(***************************************************************************)
THEOREM StartTypeCorrect == StartSpec => []StartTypeOK
<1>1. StartInv => StartTypeOK
  BY DEF StartInv, StartTypeOK
<1> QED BY <1>1, StartInvariant, PTL

\* With every worker's session counted, and sessions and pipes lost only by a stop.
LEMMA StartInvIsReady == StartInv => StartedIsReady
<1> SUFFICES ASSUME StartInv, main = "serving", ~stopping
             PROVE  /\ server = "listening"
                    /\ \A i \in Workers :
                          worker[i] = "loop" /\ session[i] = "up" /\ ipc[i] = "up"
  BY DEF StartedIsReady
<1>1. server = "listening"
  BY DEF StartInv, Listening, Stops
<1>2. \A i \in Workers : session[i] = "up"
  BY DEF StartInv, PipeTypes, AllReady, Stops
<1> QED BY <1>1, <1>2 DEF StartInv, Links

(***************************************************************************)
(* For every number of workers: when start has returned true, the port is  *)
(* listened on and each worker runs with its session at the boss, until    *)
(* stop begins (ServerStartup!StartedIsReady).                             *)
(***************************************************************************)
THEOREM StartedServersAreReady == StartSpec => []StartedIsReady
BY StartInvIsReady, StartInvariant, PTL

(***************************************************************************)
(* For every number of workers and connections: whatever the boss accepts  *)
(* before stop begins goes to a worker that has a session, or its own      *)
(* uv_write2 failed (ServerStartup!NoneDropped).                           *)
(***************************************************************************)
THEOREM AcceptedAreHandedOn == StartSpec => []NoneDropped
<1>1. StartInv => NoneDropped
  BY DEF StartInv
<1> QED BY <1>1, StartInvariant, PTL

-----------------------------------------------------------------------------
(***************************************************************************)
(* The id generator.                                                       *)
(***************************************************************************)
(***************************************************************************)
(* Where the ids given out lie: at times an earlier run of the process     *)
(* used, before lastTimestamp_, or in its millisecond and not above        *)
(* sequence_, which starts again only while nextId waits for the next.     *)
(***************************************************************************)
IssuedBehind ==
    \A id \in issued :
        \/ id.time <= high
        \/ id.time < lastTimestamp
        \/ id.time = lastTimestamp /\ (call = "full" \/ id.seq <= sequence)

IdInv == IdTypeOK /\ IssuedBehind /\ IdsUnique

-----------------------------------------------------------------------------
(***************************************************************************)
(* nextId gives out a time and a sequence that no id of this run has: the  *)
(* one thing its callers have to show.                                     *)
(***************************************************************************)
LEMMA GivesPreserves ==
    ASSUME IdInv, NEW time \in Nat, NEW seq \in 0 .. SequenceMask, Gives(time, seq),
           UNCHANGED <<clockVars, restarts, high>>,
           \/ time > lastTimestamp
           \/ time = lastTimestamp /\ call # "full" /\ seq > sequence
    PROVE  IdInv'
<1> DEFINE new == [time |-> time, seq |-> seq]
<1>1. new \in Id /\ new.time = time /\ new.seq = seq
  BY DEF Id
<1>2. /\ lastTimestamp' = time /\ sequence' = seq /\ call' = "none"
      /\ issued' = issued \cup {new}
      /\ repeated' = repeated \cup ({new} \cap issued)
      /\ high' = high
  BY DEF Gives
<1>3. IdTypeOK'
  BY <1>1, <1>2 DEF IdInv, IdTypeOK, clockVars
<1>4. issued \subseteq Id /\ lastTimestamp \in Nat /\ sequence \in Nat /\ high \in Nat
  BY SnowflakeAssumption DEF IdInv, IdTypeOK
<1>5. IssuedBehind'
  <2> SUFFICES ASSUME NEW id \in issued'
               PROVE  \/ id.time <= high
                      \/ id.time < time
                      \/ id.time = time /\ id.seq <= seq
    BY <1>2 DEF IssuedBehind
  <2>1. CASE id = new
    BY <2>1, <1>1, SnowflakeAssumption
  <2>2. CASE id \in issued
    <3>1. id.time \in Nat /\ id.seq \in Nat
      BY <2>2, <1>4, SnowflakeAssumption DEF Id
    <3>2. \/ id.time <= high \/ id.time < lastTimestamp
          \/ id.time = lastTimestamp /\ (call = "full" \/ id.seq <= sequence)
      BY <2>2 DEF IdInv, IssuedBehind
    <3> QED BY <3>1, <3>2, <1>4, SnowflakeAssumption
  <2> QED BY <2>1, <2>2, <1>2
<1>6. IdsUnique'
  <2> SUFFICES ASSUME NEW id \in repeated' PROVE id.time <= high
    BY <1>2 DEF IdsUnique
  <2>1. CASE id \in repeated
    BY <2>1 DEF IdInv, IdsUnique
  <2>2. CASE id = new /\ new \in issued
    <3>1. \/ time <= high \/ time < lastTimestamp
          \/ time = lastTimestamp /\ (call = "full" \/ seq <= sequence)
      BY <2>2, <1>1 DEF IdInv, IssuedBehind
    <3> QED BY <3>1, <2>2, <1>1, <1>4, SnowflakeAssumption
  <2> QED BY <2>1, <2>2, <1>2
<1> QED BY <1>3, <1>5, <1>6 DEF IdInv

(***************************************************************************)
(* The sequence goes up by one, or back to 0 when it is used up.           *)
(***************************************************************************)
LEMMA SequenceGrows ==
    ASSUME sequence \in 0 .. SequenceMask
    PROVE  /\ NextSequence \in 0 .. SequenceMask
           /\ NextSequence # 0 => NextSequence = sequence + 1
<1>1. CASE sequence = SequenceMask
  BY <1>1, SnowflakeAssumption DEF NextSequence
<1>2. CASE sequence < SequenceMask
  BY <1>2, SnowflakeAssumption DEF NextSequence
<1> QED BY <1>1, <1>2, SnowflakeAssumption

(***************************************************************************)
(* The second half of nextIdImp, whose clock does not lie back.            *)
(***************************************************************************)
LEMMA ContinuesPreserves ==
    ASSUME IdInv, Continues, now >= lastTimestamp, call # "full",
           UNCHANGED <<clockVars, restarts, high>>
    PROVE  IdInv'
<1>1. /\ now \in Nat /\ lastTimestamp \in Nat /\ sequence \in 0 .. SequenceMask
      /\ sequence \in Nat
  BY SnowflakeAssumption DEF IdInv, IdTypeOK
<1>2. CASE now = lastTimestamp /\ NextSequence # 0 /\ Gives(now, NextSequence)
  BY <1>1, <1>2, GivesPreserves, SequenceGrows
<1>3. CASE /\ now = lastTimestamp /\ NextSequence = 0
           /\ sequence' = 0
           /\ call' = "full"
           /\ UNCHANGED <<lastTimestamp, issued, repeated>>
  <2>1. IdTypeOK'
    BY <1>3, SnowflakeAssumption DEF IdInv, IdTypeOK, clockVars
  <2>2. IssuedBehind'
    BY <1>3 DEF IdInv, IssuedBehind
  <2>3. IdsUnique'
    BY <1>3 DEF IdInv, IdsUnique
  <2> QED BY <2>1, <2>2, <2>3 DEF IdInv
<1>4. CASE now # lastTimestamp /\ Gives(now, 0)
  <2>1. now > lastTimestamp /\ 0 \in 0 .. SequenceMask
    BY <1>1, <1>4, SnowflakeAssumption
  <2> QED BY <1>1, <1>4, <2>1, GivesPreserves
<1> QED BY <1>2, <1>3, <1>4 DEF Continues

LEMMA IdInitHolds == IdInit => IdInv
BY SnowflakeAssumption DEF IdInit, IdInv, IdTypeOK, IssuedBehind, IdsUnique

LEMMA IdStepPreserves == IdInv /\ [IdNext]_idVars => IdInv'
<1> SUFFICES ASSUME IdInv, [IdNext]_idVars PROVE IdInv'
  OBVIOUS
<1>t. /\ now \in Nat \ {0} /\ setbacks \in Nat /\ restarts \in Nat
      /\ lastTimestamp \in Nat /\ high \in Nat /\ issued \subseteq Id
  BY DEF IdInv, IdTypeOK
<1>1. CASE Tick
  BY <1>1, <1>t DEF Tick, IdInv, IdTypeOK, IssuedBehind, IdsUnique
<1>2. CASE SetBack
  BY <1>2, <1>t DEF SetBack, IdInv, IdTypeOK, IssuedBehind, IdsUnique
<1>3. CASE NextId
  <2>1. CASE now < lastTimestamp
    BY <1>3, <2>1, <1>t DEF NextId, clockVars, IdInv, IdTypeOK, IssuedBehind, IdsUnique
  <2>2. CASE now >= lastTimestamp
    BY <1>3, <2>2, <1>t, ContinuesPreserves DEF NextId
  <2> QED BY <2>1, <2>2, <1>t
<1>4. CASE CatchesUp
  BY <1>4, ContinuesPreserves DEF CatchesUp
<1>5. CASE Renews
  <2>1. now > lastTimestamp /\ now \in Nat /\ 0 \in 0 .. SequenceMask
    BY <1>5, <1>t, SnowflakeAssumption DEF Renews, NextMillisecond
  <2> QED BY <1>5, <2>1, GivesPreserves DEF Renews
<1>6. CASE Restart
  <2>1. high' \in Nat /\ high' >= high /\ high' >= lastTimestamp
    BY <1>6, <1>t DEF Restart
  <2>2. IdTypeOK'
    BY <1>6, <1>t, <2>1, SnowflakeAssumption DEF Restart, IdInv, IdTypeOK, clockVars
  <2>3. \A id \in issued : id.time <= high'
    <3> TAKE id \in issued
    <3>1. id.time \in Nat
      BY <1>t DEF Id
    <3>2. \/ id.time <= high \/ id.time < lastTimestamp \/ id.time = lastTimestamp
      BY DEF IdInv, IssuedBehind
    <3> QED BY <3>1, <3>2, <2>1, <1>t
  <2>4. IssuedBehind' /\ IdsUnique'
    BY <1>6, <2>3 DEF Restart, IdInv, IdTypeOK, IssuedBehind, IdsUnique
  <2> QED BY <2>2, <2>4 DEF IdInv
<1>7. CASE UNCHANGED idVars
  BY <1>7 DEF idVars, clockVars, IdInv, IdTypeOK, IssuedBehind, IdsUnique
<1> QED BY <1>1, <1>2, <1>3, <1>4, <1>5, <1>6, <1>7 DEF IdNext

LEMMA IdInvariant == IdSpec => []IdInv
BY IdInitHolds, IdStepPreserves, PTL DEF IdSpec

-----------------------------------------------------------------------------
(***************************************************************************)
(* Times, sequences and ids keep their types (Snowflake!IdTypeOK): the     *)
(* sequence never leaves the bits nextIdImp keeps for it.                  *)
(***************************************************************************)
THEOREM IdTypeCorrect == IdSpec => []IdTypeOK
<1>1. IdInv => IdTypeOK
  BY DEF IdInv
<1> QED BY <1>1, IdInvariant, PTL

(***************************************************************************)
(* For every width of the sequence, nextId gives out no id twice, unless   *)
(* the process was started again and its clock shows a time that an        *)
(* earlier run had used (Snowflake!IdsUnique).                             *)
(***************************************************************************)
THEOREM IdsAreUnique == IdSpec => []IdsUnique
<1>1. IdInv => IdsUnique
  BY DEF IdInv
<1> QED BY <1>1, IdInvariant, PTL

-----------------------------------------------------------------------------
(***************************************************************************)
(* The three parts in one process: a step is a step of one of them and     *)
(* leaves the state of the others as it was.                               *)
(***************************************************************************)
LEMMA PartsApart ==
    /\ [ProcessNext]_<<vars, startVars, idVars, part>> => [Next]_vars
    /\ [ProcessNext]_<<vars, startVars, idVars, part>> => [StartNext]_startVars
    /\ [ProcessNext]_<<vars, startVars, idVars, part>> => [IdNext]_idVars
BY DEF ProcessNext

LEMMA ProcessIsRing == ProcessSpec => Spec
<1>1. ProcessInit => Init
  BY DEF ProcessInit
<1> QED BY <1>1, PartsApart, PTL DEF ProcessSpec, Spec

LEMMA ProcessIsIds == ProcessSpec => IdSpec
<1>1. ProcessInit => IdInit
  BY DEF ProcessInit
<1> QED BY <1>1, PartsApart, PTL DEF ProcessSpec, IdSpec

\* What the invariants of the start need of StartSpec, whose fairness only
\* one of the parts has.
LEMMA ProcessStarts == ProcessSpec => []StartInv
<1>1. ProcessInit => StartInv
  BY StartInitHolds DEF ProcessInit
<1> QED BY <1>1, PartsApart, StartStepPreserves, PTL DEF ProcessSpec

(***************************************************************************)
(* The rings' indices and cells, the threads, pipes and ports of the       *)
(* server, and the times and ids of nextId keep their types in the process *)
(* that has all three (MCServerProcess!ProcessTypeOK).                     *)
(***************************************************************************)
THEOREM ProcessTypes == ProcessSpec => []ProcessTypeOK
<1>1. IInv => TypeOK
  BY DEF IInv
<1>2. StartInv => StartTypeOK
  BY DEF StartInv, StartTypeOK
<1>3. IdInv => IdTypeOK
  BY DEF IdInv
<1>4. IInv /\ StartInv /\ IdInv => ProcessTypeOK
  BY <1>1, <1>2, <1>3 DEF ProcessTypeOK
<1> QED BY <1>4, ProcessIsRing, Invariance, ProcessStarts, ProcessIsIds, IdInvariant, PTL
(***************************************************************************)
(* What is proved of each part holds of it in the process with all three,  *)
(* which is what the run checks: the ring reads in order and implements a  *)
(* byte queue, a server that started is ready and drops no connection, and *)
(* nextId repeats no id.                                                   *)
(***************************************************************************)
THEOREM ProcessIsSafe ==
    ProcessSpec => /\ [](ReaderSeesStream /\ WriterKeepsOff)
                   /\ [](StartedIsReady /\ NoneDropped)
                   /\ []IdsUnique
                   /\ IsByteQueue
<1>1. StartInv => StartedIsReady
  BY StartInvIsReady
<1>2. StartInv => NoneDropped
  BY DEF StartInv
<1> QED BY <1>1, <1>2, ProcessStarts, ProcessIsRing, ProcessIsIds, ReadsInOrder, NoOverrun,
           RingIsByteQueue, IdsAreUnique, PTL
=============================================================================
