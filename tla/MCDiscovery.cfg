CONSTANTS
    n1 = n1
    n2 = n2
    c1 = c1
    c2 = c2
    Nodes <- PeerNodes
    Chans <- PeerChans
    NoNode = NoNode
    Boots <- PeerBoots
    Faults <- PeerFaults
SPECIFICATION FairSpec
INVARIANTS TypeOK DeadLeaveUnlessRaced LiveStayRegistered
PROPERTY PeersGetKnown
CHECK_DEADLOCK FALSE
