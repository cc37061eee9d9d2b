CONSTANTS
    u1 = u1
    u2 = u2
    c1 = c1
    c2 = c2
    o1 = o1
    o2 = o2
    o3 = o3
    Uids <- TwoPlayers
    Chans <- TwoChans
    Logins <- TwoLogins
    LoginUid <- SameUid
    LoginChan <- BothChans
    Objs <- ThreeObjs
    MaxFree = 1
    NoObj = NoObj
    NoLogin = NoLogin
SPECIFICATION Spec
INVARIANT OfflineLeaves
CHECK_DEADLOCK FALSE
