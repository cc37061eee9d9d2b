CONSTANTS
    p1 = p1
    p2 = p2
    l1 = l1
    l2 = l2
    l3 = l3
    c1 = c1
    c2 = c2
    Pids <- TwoPids
    Logins <- ThreeLogins
    LoginPid <- PidOfLogin
    Conns <- TwoConns
    NoPlayer = NoPlayer
    NoConn = NoConn
    Leaves = 2
    Failures = 1
SPECIFICATION Spec
INVARIANTS TypeOK DataLostOnlyAfterError SessionsAttached EndedSessionsSaved
SYMMETRY Symmetry
CHECK_DEADLOCK FALSE
