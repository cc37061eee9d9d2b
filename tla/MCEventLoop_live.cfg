CONSTANTS
    c1 = c1
    c2 = c2
    t1 = t1
    t2 = t2
    Inbound <- OneConn
    Outbound <- OtherConn
    Threads <- TwoThreads
    Closers <- TwoThreads
    Senders <- OneThread
    Loop = Loop
    Main = Main
    NoConn = NoConn
    HasTrigger = TRUE
    Budget = 1
SPECIFICATION FairSpec
INVARIANTS TypeOK CallbackTargetLive TeardownOnce LookupSucceeds NoLostWakeup ExitReleasesAll
PROPERTIES CloseCompletes StopEndsUnlessRaced
CHECK_DEADLOCK FALSE
