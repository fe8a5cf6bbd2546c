SPECIFICATION ProxiesSpec
CONSTANTS
    Conns = {1, 2}
    Secrets = {"s1", "s2"}
    Fresh = "fresh"
    None = None
    Pools = {1, 2, 3}
    Domains = {"cf1", "cf2"}
    Frame = 5
    Keys = {k1}
    Sessions = {1, 2}
    Tasks = {1, 2}
    Nil = Nil
    Settings <- MCSettings
INVARIANTS
    RevokedClosed
    FallbackReached
    BytesKept
    NoOrphanSession
PROPERTIES
    SlotReturned
    IdleSessionsEnd
CHECK_DEADLOCK FALSE
