--------------------------- MODULE ActorSystemProofs ---------------------------
(***************************************************************************)
(* Theorems about ActorSystem, from SystemAssumption alone: for any number of *)
(* actors and threads, any of which post by pointer, and any Budget.       *)
(***************************************************************************)
EXTENDS ActorSystem, TLAPS

\* A producer holds the mutex from the lookup to the end of execute, unless it
\* posts by pointer.
MutexHeld ==
    \A p \in Producers :
        ppc[p] = "find" \/ (ppc[p] \in {"check", "enqueue"} /\ p \notin Unlocked) => mutex = p

\* Who tests or posts to an actor has it in the table.
TargetRegistered == \A p \in Producers : ppc[p] \in {"check", "enqueue"} => target[p] \in registered

\* What is in the table runs; what was started is in the table or in stopAll's
\* snapshot; whoever left the loop has been told to.
Lifecycle ==
    \A a \in Actors :
        /\ a \in registered => isRun[a] /\ apc[a] = "loop"
        /\ apc[a] \in {"loop", "drain", "done"} => a \in registered \cup dead
        /\ apc[a] \in {"drain", "done", "deleted"} => ~isRun[a]
        /\ apc[a] = "deleted" => stopAll # "before"

\* stopAll empties the table, when those that post by pointer have ended.
TableEmptied ==
    /\ stopAll = "before" => dead = {}
    /\ stopAll # "before" => registered = {} /\ Unlocked \subseteq ended
    /\ \A t \in ended : ppc[t] = "idle"

\* A thread that ended left nothing in the mailbox and no task half done.
MailboxEmptied ==
    \A a \in Actors : apc[a] \in {"done", "deleted"} => mailbox[a] = 0 /\ a \notin busy

IInv == /\ TypeOK /\ MutexHeld /\ TargetRegistered
        /\ Lifecycle /\ TableEmptied /\ MailboxEmptied

LEMMA InitIInv == Init => IInv
  BY SystemAssumption
  DEF Init, IInv, TypeOK, MutexHeld, TargetRegistered, Lifecycle, TableEmptied, MailboxEmptied, Producers

-----------------------------------------------------------------------------
\* The steps of an actor's thread: they change its mailbox and its place in run.
LEMMA ActorKeeps ==
    ASSUME IInv, NEW a \in Actors, ActorSteps(a)  PROVE IInv'
<1>. USE SystemAssumption DEF prodVars, stopVars
<1>1. CASE RunTask(a)
  BY <1>1 DEF RunTask, IInv, TypeOK, MutexHeld, TargetRegistered, Lifecycle, TableEmptied, MailboxEmptied
<1>2. CASE TaskEnds(a)
  BY <1>2 DEF TaskEnds, IInv, TypeOK, MutexHeld, TargetRegistered, Lifecycle, TableEmptied, MailboxEmptied
<1>3. CASE LeavesLoop(a)
  BY <1>3 DEF LeavesLoop, IInv, TypeOK, MutexHeld, TargetRegistered, Lifecycle, TableEmptied, MailboxEmptied
<1>4. CASE DrainEnds(a)
  BY <1>4 DEF DrainEnds, IInv, TypeOK, MutexHeld, TargetRegistered, Lifecycle, TableEmptied, MailboxEmptied
<1>. QED  BY <1>1, <1>2, <1>3, <1>4 DEF ActorSteps

\* spawn: a new actor enters the table with its thread started.
LEMMA SpawnKeeps ==
    ASSUME IInv, NEW a \in Actors, Spawn(a) \/ SpawnFails(a)  PROVE IInv'
<1>. USE SystemAssumption DEF prodVars, stopVars
<1>1. CASE Spawn(a)
  BY <1>1 DEF Spawn, IInv, TypeOK, MutexHeld, TargetRegistered, Lifecycle, TableEmptied, MailboxEmptied
<1>2. CASE SpawnFails(a)
  BY <1>2 DEF SpawnFails, IInv, TypeOK, MutexHeld, TargetRegistered, Lifecycle, TableEmptied, MailboxEmptied
<1>. QED  BY <1>1, <1>2

-----------------------------------------------------------------------------
\* A call of execute, up to the mutex or, by pointer, up to the test.
LEMMA BeginKeeps ==
    ASSUME IInv, NEW p \in Producers, NEW a \in Actors, ExecuteBegins(p, a)  PROVE IInv'
<1>. USE SystemAssumption DEF ExecuteBegins, Free, stopVars
<1>1. TypeOK'
  BY DEF IInv, TypeOK, Producers
<1>2. p \in Unlocked => a \in registered
  BY DEF IInv, TypeOK, Lifecycle, TableEmptied, Producers
<1>3. MutexHeld' /\ TargetRegistered'
  BY <1>2 DEF IInv, TypeOK, MutexHeld, TargetRegistered
<1>4. Lifecycle' /\ MailboxEmptied'
  BY DEF IInv, TypeOK, Lifecycle, MailboxEmptied
<1>5. TableEmptied'
  BY DEF IInv, TypeOK, TableEmptied, Producers
<1>. QED  BY <1>1, <1>3, <1>4, <1>5 DEF IInv

\* The rest of execute: the mutex, the lookup, the test and the enqueue.
LEMMA ExecuteKeeps ==
    ASSUME IInv, NEW p \in Producers, ExecuteSteps(p)  PROVE IInv'
<1>. USE SystemAssumption DEF stopVars, Returns, Unlocks
<1>1. CASE ExecuteLocks(p)
  <2>. USE <1>1 DEF ExecuteLocks
  <2>1. TypeOK'
    BY DEF IInv, TypeOK, Producers
  <2>2. MutexHeld'
    BY DEF IInv, TypeOK, MutexHeld
  <2>3. TargetRegistered' /\ Lifecycle' /\ MailboxEmptied'
    BY DEF IInv, TypeOK, TargetRegistered, Lifecycle, MailboxEmptied
  <2>4. TableEmptied'
    BY DEF IInv, TypeOK, TableEmptied, Producers
  <2>. QED  BY <2>1, <2>2, <2>3, <2>4 DEF IInv
<1>2. CASE ExecuteFinds(p)
  <2>. USE <1>2 DEF ExecuteFinds
  <2>1. TypeOK'
    BY DEF IInv, TypeOK, Producers
  <2>2. MutexHeld'
    BY DEF IInv, TypeOK, MutexHeld
  <2>3. TargetRegistered' /\ Lifecycle' /\ MailboxEmptied'
    BY DEF IInv, TypeOK, TargetRegistered, Lifecycle, MailboxEmptied
  <2>4. TableEmptied'
    BY DEF IInv, TypeOK, TableEmptied, Producers
  <2>. QED  BY <2>1, <2>2, <2>3, <2>4 DEF IInv
<1>3. CASE ExecuteChecks(p)
  <2>. USE <1>3 DEF ExecuteChecks
  <2>1. TypeOK'
    BY DEF IInv, TypeOK, Producers
  <2>2. MutexHeld'
    BY DEF IInv, TypeOK, MutexHeld
  <2>3. TargetRegistered' /\ Lifecycle' /\ MailboxEmptied'
    BY DEF IInv, TypeOK, TargetRegistered, Lifecycle, MailboxEmptied
  <2>4. TableEmptied'
    BY DEF IInv, TypeOK, TableEmptied, Producers
  <2>. QED  BY <2>1, <2>2, <2>3, <2>4 DEF IInv
<1>4. CASE ExecuteEnqueues(p)
  BY <1>4 DEF ExecuteEnqueues, IInv, TypeOK, MutexHeld, TargetRegistered, Lifecycle, TableEmptied, MailboxEmptied
<1>. QED  BY <1>1, <1>2, <1>3, <1>4 DEF ExecuteSteps

\* A loop thread ends between two calls.
LEMMA ThreadKeeps ==
    ASSUME IInv, NEW t \in Threads, ThreadEnds(t)  PROVE IInv'
  BY DEF ThreadEnds, stopVars, IInv, TypeOK, MutexHeld, TargetRegistered, Lifecycle, TableEmptied, MailboxEmptied

-----------------------------------------------------------------------------
\* stopAll takes the table: nobody holds the mutex, and nobody posts by pointer,
\* so nobody is between the lookup and the enqueue.
LEMMA TakeKeeps == ASSUME IInv, StopAllTakes  PROVE IInv'
<1>. USE SystemAssumption DEF StopAllTakes, prodVars
<1>1. \A p \in Producers : ppc[p] \notin {"check", "enqueue"}
  BY DEF IInv, TypeOK, MutexHeld, TableEmptied
<1>. QED
  BY <1>1 DEF IInv, TypeOK, MutexHeld, TargetRegistered, Lifecycle, TableEmptied, MailboxEmptied

\* stopAll stops, joins and deletes an actor, and returns.
LEMMA StopKeeps ==
    ASSUME IInv, (\E a \in Actors : StopExchanges(a) \/ StopJoins(a)) \/ StopAllReturns
    PROVE  IInv'
<1>. USE SystemAssumption DEF prodVars
<1>1. ASSUME NEW a \in Actors, StopExchanges(a) PROVE IInv'
  BY <1>1 DEF StopExchanges, IInv, TypeOK, MutexHeld, TargetRegistered, Lifecycle, TableEmptied, MailboxEmptied
<1>2. ASSUME NEW a \in Actors, StopJoins(a) PROVE IInv'
  BY <1>2 DEF StopJoins, IInv, TypeOK, MutexHeld, TargetRegistered, Lifecycle, TableEmptied, MailboxEmptied
<1>3. CASE StopAllReturns
  BY <1>3 DEF StopAllReturns, IInv, TypeOK, MutexHeld, TargetRegistered, Lifecycle, TableEmptied, MailboxEmptied
<1>. QED  BY <1>1, <1>2, <1>3

LEMMA NextKeeps == IInv /\ [Next]_vars => IInv'
<1>. SUFFICES ASSUME IInv, [Next]_vars  PROVE IInv'
  OBVIOUS
<1>1. CASE UNCHANGED vars
  BY <1>1 DEF vars, prodVars, stopVars, IInv, TypeOK, MutexHeld, TargetRegistered,
              Lifecycle, TableEmptied, MailboxEmptied
<1>2. CASE Next
  BY <1>2, ActorKeeps, SpawnKeeps, BeginKeeps, ExecuteKeeps, ThreadKeeps, TakeKeeps, StopKeeps DEF Next
<1>. QED  BY <1>1, <1>2

LEMMA Inductive == Spec => []IInv
  BY InitIInv, NextKeeps, PTL DEF Spec

-----------------------------------------------------------------------------
\* The variables of ActorSystem keep their types; a mailbox never has fewer than
\* no tasks.
THEOREM TypeCorrect == Spec => []TypeOK
<1>1. IInv => TypeOK  BY DEF IInv
<1>. QED  BY <1>1, Inductive, PTL

\* execute never touches an actor that stopAll has deleted.
THEOREM TargetsLive == Spec => []TargetLives
<1>1. IInv => TargetLives
  BY DEF IInv, TypeOK, TargetRegistered, Lifecycle, TargetLives
<1>. QED  BY <1>1, Inductive, PTL

\* execute by id never refuses an actor it has found.
THEOREM FoundActorsAccept == Spec => []FoundAccepts
<1>1. IInv => FoundAccepts
  BY DEF IInv, TypeOK, TargetRegistered, Lifecycle, FoundAccepts
<1>. QED  BY <1>1, Inductive, PTL

\* No accepted task is left behind by an actor that ended.
THEOREM AcceptedTasksRun == Spec => []AcceptedIsRun
<1>1. IInv => AcceptedIsRun
  BY DEF IInv, TypeOK, TargetRegistered, Lifecycle, MailboxEmptied, AcceptedIsRun
<1>. QED  BY <1>1, Inductive, PTL
=============================================================================
