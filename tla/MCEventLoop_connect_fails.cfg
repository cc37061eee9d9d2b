CONSTANTS
    c1 = c1
    c2 = c2
    t1 = t1
    t2 = t2
    Inbound <- Nobody
    Outbound <- OneConn
    Threads <- OneThread
    Closers <- Nobody
    Senders <- Nobody
    Loop = Loop
    Main = Main
    NoConn = NoConn
    HasTrigger = TRUE
    Budget = 1
SPECIFICATION Spec
INVARIANT OnlyLiveHandlesClosed
CHECK_DEADLOCK FALSE
