SPECIFICATION FairSpec
CONSTANTS
    u1 = u1
    u2 = u2
    a = a
    b = b
    Users <- OneUser
    Tracks <- OneTrack
    Nil = Nil
    Duration <- OneDuration
    ReadyTimeouts = {2}
    StartBuffer = 1
    EndGrace = 1
    Seeks <- MCSeeks
    MaxControls = 3
    MaxCalls = 2
    MaxPos = 2
INVARIANTS
    EndOnTime
PROPERTIES
    TrackEnds
CHECK_DEADLOCK FALSE
