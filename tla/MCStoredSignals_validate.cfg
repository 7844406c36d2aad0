SPECIFICATION SignalsSpec
CONSTANTS
    Packet = {p1, p2}
    Zero = p1
    Clocked = {"port"}
    Depth = 2
    Drive <- OrderedDrive
    FifoDepth = 2
    FifoDrive <- GenerableDrive
    SkidDrive <- OrderedDrive
    BufDrive <- GenerableDrive
    PortDrive <- ValidatingDrive
    EndpointDrive <- HandshakeDrive
PROPERTY PortShowsAccepted
