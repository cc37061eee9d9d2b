----------------------------- MODULE ActorSystem -----------------------------
(***************************************************************************)
(* ActorSystem and its Actors: an actor is a thread with a mailbox, and any  *)
(* thread posts to it, through the system by id or by the pointer spawn      *)
(* gave it.  stopAll takes the actors off the system, waits for each to      *)
(* empty its mailbox, and deletes it.                                      *)
(*                                                                         *)
(* A step is one access to shared data.  A task may post further tasks, so  *)
(* an actor is a producer as well; what a task does otherwise is left out,   *)
(* and a mailbox is the number of tasks in it.                             *)
(***************************************************************************)
EXTENDS Naturals, FiniteSets

CONSTANTS
    Actors,    \* what spawn creates
    Threads,   \* loop threads
    Unlocked,  \* those that post by pointer, as GateActor::execute does
    Budget,    \* bound: calls of execute by each producer
    Main,      \* the thread that calls stopAll
    None

Producers == Threads \cup Actors

ASSUME SystemAssumption ==
    /\ Unlocked \subseteq Threads /\ Threads \cap Actors = {}
    /\ Budget \in Nat
    /\ Main \notin Producers /\ None \notin Producers \cup {Main}

VARIABLES
    registered,  \* _actors
    mutex,       \* who holds ActorSystem::_mutex
    isRun,       \* Actor::_isRun
    mailbox,     \* Actor::_mailbox
    apc,         \* the life of each actor and the place of its thread
    busy,        \* actors with a task under way
    ppc,         \* the place of each producer in execute
    target,      \* the actor it posts to
    posts,       \* calls of execute so far
    ended,       \* threads that have been joined
    stopAll,     \* "before", "stopping", "returned"
    dead,        \* stopAll's snapshot, of which it has yet to delete
    stopping     \* the actor stopAll is joining

prodVars == <<ppc, target, posts, ended>>
stopVars == <<stopAll, dead, stopping>>
vars == <<registered, mutex, isRun, mailbox, apc, busy, prodVars, stopVars>>

TypeOK ==
    /\ registered \subseteq Actors
    /\ mutex \in Producers \cup {Main, None}
    /\ isRun \in [Actors -> BOOLEAN]
    /\ mailbox \in [Actors -> Nat]
    /\ apc \in [Actors -> {"new", "failed", "loop", "drain", "done", "deleted"}]
    /\ busy \subseteq Actors
    /\ ppc \in [Producers -> {"idle", "lock", "find", "check", "enqueue"}]
    /\ target \in [Producers -> Actors \cup {None}]
    /\ posts \in [Producers -> 0 .. Budget]
    /\ ended \subseteq Threads
    /\ stopAll \in {"before", "stopping", "returned"}
    /\ dead \subseteq Actors /\ stopping \in Actors \cup {None}

Init ==
    /\ registered = {} /\ mutex = None
    /\ isRun = [a \in Actors |-> FALSE]
    /\ mailbox = [a \in Actors |-> 0]
    /\ apc = [a \in Actors |-> "new"]
    /\ busy = {}
    /\ ppc = [p \in Producers |-> "idle"]
    /\ target = [p \in Producers |-> None]
    /\ posts = [p \in Producers |-> 0]
    /\ ended = {}
    /\ stopAll = "before" /\ dead = {} /\ stopping = None

-----------------------------------------------------------------------------
(* ActorSystem::spawn and Actor::run.                                      *)

\* spawn, under the mutex: the thread is started and the actor registered.
Spawn(a) ==
    /\ stopAll = "before" /\ mutex = None /\ apc[a] = "new"
    /\ isRun' = [isRun EXCEPT ![a] = TRUE]
    /\ apc' = [apc EXCEPT ![a] = "loop"]
    /\ registered' = registered \cup {a}
    /\ UNCHANGED <<mutex, mailbox, busy, prodVars, stopVars>>

\* spawn: std::thread throws, the actor is deleted.
SpawnFails(a) ==
    /\ stopAll = "before" /\ mutex = None /\ apc[a] = "new"
    /\ apc' = [apc EXCEPT ![a] = "failed"]
    /\ UNCHANGED <<registered, mutex, isRun, mailbox, busy, prodVars, stopVars>>

\* Mutant of RunTask: the result of try_dequeue is not tested.
RunTaskUntested(a) ==
    /\ apc[a] = "drain" \/ (apc[a] = "loop" /\ isRun[a])
    /\ a \notin busy
    /\ mailbox' = [mailbox EXCEPT ![a] = @ - 1]
    /\ busy' = busy \cup {a}
    /\ UNCHANGED <<registered, mutex, isRun, apc, prodVars, stopVars>>

\* run: a task leaves the mailbox, in the loop or in the drain after it.
RunTask(a) ==
    /\ apc[a] = "drain" \/ (apc[a] = "loop" /\ isRun[a])
    /\ a \notin busy /\ mailbox[a] > 0
    /\ mailbox' = [mailbox EXCEPT ![a] = @ - 1]
    /\ busy' = busy \cup {a}
    /\ UNCHANGED <<registered, mutex, isRun, apc, prodVars, stopVars>>

\* run: the task returns or throws.
TaskEnds(a) ==
    /\ a \in busy /\ ppc[a] = "idle"
    /\ busy' = busy \ {a}
    /\ UNCHANGED <<registered, mutex, isRun, mailbox, apc, prodVars, stopVars>>

\* Mutant of LeavesLoop: the thread ends without the drain.
LeavesLoopToEnd(a) ==
    /\ apc[a] = "loop" /\ a \notin busy /\ ~isRun[a]
    /\ apc' = [apc EXCEPT ![a] = "done"]
    /\ UNCHANGED <<registered, mutex, isRun, mailbox, busy, prodVars, stopVars>>

\* run: _isRun is false.
LeavesLoop(a) ==
    /\ apc[a] = "loop" /\ a \notin busy /\ ~isRun[a]
    /\ apc' = [apc EXCEPT ![a] = "drain"]
    /\ UNCHANGED <<registered, mutex, isRun, mailbox, busy, prodVars, stopVars>>

\* run: the mailbox is empty; onStop, and the thread ends.
DrainEnds(a) ==
    /\ apc[a] = "drain" /\ a \notin busy /\ mailbox[a] = 0
    /\ apc' = [apc EXCEPT ![a] = "done"]
    /\ UNCHANGED <<registered, mutex, isRun, mailbox, busy, prodVars, stopVars>>

-----------------------------------------------------------------------------
(* ActorSystem::execute and Actor::execute.                                *)

\* Threads and tasks that may call execute.
Free(p) == /\ ppc[p] = "idle" /\ posts[p] < Budget
           /\ IF p \in Actors THEN p \in busy ELSE p \notin ended

Returns(p) == ppc' = [ppc EXCEPT ![p] = "idle"] /\ target' = [target EXCEPT ![p] = None]
Unlocks(p) == mutex' = IF mutex = p THEN None ELSE mutex

\* A call of execute, for an actor that spawn has returned.
ExecuteBegins(p, a) ==
    /\ Free(p) /\ apc[a] \notin {"new", "failed"}
    /\ ppc' = [ppc EXCEPT ![p] = IF p \in Unlocked THEN "check" ELSE "lock"]
    /\ target' = [target EXCEPT ![p] = a]
    /\ posts' = [posts EXCEPT ![p] = @ + 1]
    /\ UNCHANGED <<registered, mutex, isRun, mailbox, apc, busy, ended, stopVars>>

\* ActorSystem::execute: the mutex is taken.
ExecuteLocks(p) ==
    /\ ppc[p] = "lock" /\ mutex = None
    /\ mutex' = p
    /\ ppc' = [ppc EXCEPT ![p] = "find"]
    /\ UNCHANGED <<registered, isRun, mailbox, apc, busy, target, posts, ended, stopVars>>

\* Mutant of ExecuteFinds: the mutex is released after the lookup.
ExecuteFindsUnlocks(p) ==
    /\ ppc[p] = "find"
    /\ Unlocks(p)
    /\ IF target[p] \in registered
       THEN ppc' = [ppc EXCEPT ![p] = "check"] /\ UNCHANGED target
       ELSE Returns(p)
    /\ UNCHANGED <<registered, isRun, mailbox, apc, busy, posts, ended, stopVars>>

\* ActorSystem::execute: the lookup.
ExecuteFinds(p) ==
    /\ ppc[p] = "find"
    /\ IF target[p] \in registered
       THEN ppc' = [ppc EXCEPT ![p] = "check"] /\ UNCHANGED <<target, mutex>>
       ELSE Returns(p) /\ Unlocks(p)
    /\ UNCHANGED <<registered, isRun, mailbox, apc, busy, posts, ended, stopVars>>

\* Actor::execute: isRunning.
ExecuteChecks(p) ==
    /\ ppc[p] = "check"
    /\ IF isRun[target[p]]
       THEN ppc' = [ppc EXCEPT ![p] = "enqueue"] /\ UNCHANGED <<target, mutex>>
       ELSE Returns(p) /\ Unlocks(p)
    /\ UNCHANGED <<registered, isRun, mailbox, apc, busy, posts, ended, stopVars>>

\* Actor::execute: the task is in the mailbox.
ExecuteEnqueues(p) ==
    /\ ppc[p] = "enqueue"
    /\ mailbox' = [mailbox EXCEPT ![target[p]] = @ + 1]
    /\ Returns(p) /\ Unlocks(p)
    /\ UNCHANGED <<registered, isRun, apc, busy, posts, ended, stopVars>>

\* A loop thread is stopped and joined.
ThreadEnds(t) ==
    /\ ppc[t] = "idle" /\ t \notin ended
    /\ ended' = ended \cup {t}
    /\ UNCHANGED <<registered, mutex, isRun, mailbox, apc, busy, ppc, target, posts, stopVars>>

-----------------------------------------------------------------------------
(* ActorSystem::stopAll and Actor::stop.                                   *)

\* Mutants of StopAllTakes: the mutex is not taken; or it is held on to.
StopAllTakesUnlocked ==
    /\ stopAll = "before" /\ Unlocked \subseteq ended
    /\ stopAll' = "stopping"
    /\ dead' = registered /\ registered' = {}
    /\ UNCHANGED <<mutex, isRun, mailbox, apc, busy, prodVars, stopping>>
StopAllTakesHolds ==
    /\ stopAll = "before" /\ mutex = None /\ Unlocked \subseteq ended
    /\ stopAll' = "stopping"
    /\ dead' = registered /\ registered' = {}
    /\ mutex' = Main
    /\ UNCHANGED <<isRun, mailbox, apc, busy, prodVars, stopping>>

\* stopAll: the actors leave the table, under the mutex.  The threads that post
\* by pointer have been joined: the servers of main are destroyed before the
\* system, which is static.
StopAllTakes ==
    /\ stopAll = "before" /\ mutex = None /\ Unlocked \subseteq ended
    /\ stopAll' = "stopping"
    /\ dead' = registered /\ registered' = {}
    /\ UNCHANGED <<mutex, isRun, mailbox, apc, busy, prodVars, stopping>>

\* stop: _isRun is cleared.
StopExchanges(a) ==
    /\ stopAll = "stopping" /\ stopping = None /\ a \in dead
    /\ isRun' = [isRun EXCEPT ![a] = FALSE]
    /\ stopping' = a
    /\ UNCHANGED <<registered, mutex, mailbox, apc, busy, prodVars, stopAll, dead>>

\* stop has joined the thread; stopAll deletes the actor.
StopJoins(a) ==
    /\ stopping = a /\ apc[a] = "done"
    /\ apc' = [apc EXCEPT ![a] = "deleted"]
    /\ dead' = dead \ {a} /\ stopping' = None
    /\ UNCHANGED <<registered, mutex, isRun, mailbox, busy, prodVars, stopAll>>

StopAllReturns ==
    /\ stopAll = "stopping" /\ dead = {}
    /\ stopAll' = "returned"
    /\ UNCHANGED <<registered, mutex, isRun, mailbox, apc, busy, prodVars, dead, stopping>>

-----------------------------------------------------------------------------
ActorSteps(a) == RunTask(a) \/ TaskEnds(a) \/ LeavesLoop(a) \/ DrainEnds(a)
ExecuteSteps(p) ==
    ExecuteLocks(p) \/ ExecuteFinds(p) \/ ExecuteChecks(p) \/ ExecuteEnqueues(p)

Next ==
    \/ \E a \in Actors : \/ Spawn(a) \/ SpawnFails(a) \/ ActorSteps(a)
                         \/ StopExchanges(a) \/ StopJoins(a)
    \/ \E p \in Producers : ExecuteSteps(p) \/ \E a \in Actors : ExecuteBegins(p, a)
    \/ \E t \in Threads : ThreadEnds(t)
    \/ StopAllTakes \/ StopAllReturns

\* Threads run, and a mutex that is free is taken by somebody who waits for it.
\* Nobody has to spawn, to post, to end or to call stopAll.
Fairness ==
    /\ \A a \in Actors : WF_vars(ActorSteps(a)) /\ WF_vars(StopExchanges(a) \/ StopJoins(a))
    /\ \A p \in Producers : WF_vars(ExecuteSteps(p))
    /\ WF_vars(StopAllReturns)

Spec == Init /\ [][Next]_vars /\ Fairness

-----------------------------------------------------------------------------
(* Properties.                                                             *)

\* The actor a producer has looked up lives until the task is in its mailbox.
\* (ActorSystem::execute holds the mutex for nothing else.)
TargetLives ==
    \A p \in Producers : ppc[p] \in {"check", "enqueue"} => apc[target[p]] # "deleted"

\* An actor found by its id takes the task: stopAll never clears _isRun between
\* the lookup and the test of isRunning, so execute(id) refuses only what is gone.
FoundAccepts ==
    \A p \in Producers \ Unlocked : ppc[p] \in {"check", "enqueue"} => isRun[target[p]]

\* An actor that ended has run every task it accepted.  (run: what is in the
\* mailbox is processed before the thread ends.)
AcceptedIsRun ==
    \A a \in Actors : apc[a] \in {"done", "deleted"} =>
        mailbox[a] = 0 /\ a \notin busy /\ \A p \in Producers : ppc[p] = "enqueue" => target[p] # a

\* stopAll returns, with every actor deleted, whatever the tasks of the last
\* drains post.
StopAllEnds ==
    stopAll = "stopping" ~> stopAll = "returned" /\ \A a \in Actors : apc[a] \in {"new", "failed", "deleted"}

=============================================================================
