SPECIFICATION Spec
CONSTANTS
    Sets <- MCSets
    Configs <- MCConfigs
    Startup <- MCStartup
    ParentsOf <- MCParentsOf
    IPs = {"i1", "i2", "i3"}
    Packets <- MCPackets
    LearnedLimit = 2
    MaxUpdates = 1
    MaxPackets = 3
    None = None
INVARIANTS
    DevicesRespected
    LearnedCurrent
    GatesAgree
CHECK_DEADLOCK FALSE
