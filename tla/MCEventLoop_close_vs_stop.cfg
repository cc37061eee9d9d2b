CONSTANTS
    c1 = c1
    c2 = c2
    t1 = t1
    t2 = t2
    Inbound <- OneConn
    Outbound <- Nobody
    Threads <- OneThread
    Closers <- OneThread
    Senders <- Nobody
    Loop = Loop
    Main = Main
    NoConn = NoConn
    HasTrigger = TRUE
    Budget = 1
SPECIFICATION FairSpec
PROPERTY StopTerminates
CHECK_DEADLOCK FALSE
