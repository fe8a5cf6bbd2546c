SPECIFICATION Spec
CONSTANTS
    MaxTCPPacketSize = 1460
    NoName = NoName
    Settings <- MCSettings
    Hellos <- MCHellos
    Datagrams <- MCDatagrams
    TcpHdr = 32
    RealTTL = 64
    Hops = 12
    Window = 64000
    MaxFaults = 1
INVARIANTS StreamIntact NothingMissing FakesStop HelloIntact
CHECK_DEADLOCK FALSE
