SPECIFICATION FairSpec
CONSTANTS
    SetSeq <- MCSetSeq
    Ifaces = {"i1", "i2"}
    Configs <- MCConfigs
    Startup <- MCStartup
    HashOf <- MCHashOf
    Pin <- MCPin
    ProxyMark <- MCProxyMark
    None = None
    MaxId = 4
    MaxEvents = 2
INVARIANTS DistinctTables SharedPolicyKept ExactAfterSync
PROPERTY RulesReturn
CHECK_DEADLOCK FALSE
