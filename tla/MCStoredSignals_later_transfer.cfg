SPECIFICATION SignalsSpec
CONSTANTS
    Packet = {p1, p2}
    Zero = p1
    Clocked = {"ordered"}
    Depth = 2
    Drive <- InvalidatingDrive
    FifoDepth = 2
    FifoDrive <- GenerableDrive
    SkidDrive <- OrderedDrive
    BufDrive <- GenerableDrive
    PortDrive <- GenerableDrive
    EndpointDrive <- HandshakeDrive
PROPERTY LaterTransferWins
