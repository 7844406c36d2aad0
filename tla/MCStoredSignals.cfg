SPECIFICATION SignalsSpec
CONSTANTS
    Packet = {p1, p2}
    Zero = p1
    Clocked = {"ordered", "fifo", "skid", "buf", "port", "endpoint"}
    Depth = 3
    Drive <- OrderedDrive
    FifoDepth = 2
    FifoDrive <- GenerableDrive
    SkidDrive <- OrderedDrive
    BufDrive <- GenerableDrive
    PortDrive <- GenerableDrive
    EndpointDrive <- HandshakeDrive
INVARIANTS TypeOK PointersAgree
PROPERTIES
    ImplementsQueue FifoLoneActionActs SkidImplementsQueue BufImplementsQueue BufComposes
    PortComposes EndpointImplementsQueue
