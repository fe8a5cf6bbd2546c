SPECIFICATION Spec
CONSTANTS
    Uplinks = {"wan1", "wan2"}
    Dev = "b4tun0"
    None = None
    Torn = Torn
    Empty = Empty
    MaxAddr = 1
    Settings <- MCSettings
INVARIANTS
    CleanStop
    DefaultSurvives
PROPERTIES
    FollowsDefault
CHECK_DEADLOCK FALSE
