CONSTANTS
    Frames <- FourFrames
    BodyLen <- Bodies
    Links <- AllLinks
    MaxPacket = 5
    SCap = 8
    Torn = Torn
SPECIFICATION FairSpec
INVARIANTS TypeOK StreamConserved RefusesRightly
PROPERTIES IsFramePipe AcceptedDelivered OtherProtocolDropped
CHECK_DEADLOCK FALSE
