CONSTANTS
    a1 = a1
    a2 = a2
    t1 = t1
    t2 = t2
    Actors <- TwoActors
    Threads <- TwoThreads
    Unlocked <- ByPointer
    Budget = 2
    Main = Main
    None = None
SPECIFICATION Spec
INVARIANTS TypeOK TargetLives FoundAccepts AcceptedIsRun
PROPERTY StopAllEnds
CHECK_DEADLOCK FALSE
