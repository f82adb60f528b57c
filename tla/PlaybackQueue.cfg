SPECIFICATION Spec
CONSTANTS
    u1 = u1
    u2 = u2
    a = a
    b = b
    Users <- MCUsers
    Tracks <- MCTracks
    Nil = Nil
    Duration <- MCDuration
    ReadyTimeouts = {1}
    StartBuffer = 1
    EndGrace = 0
    Seeks <- MCSeeks
    MaxControls = 0
    MaxCalls = 2
    MaxPos = 1
CONSTRAINT OneOrphan
SYMMETRY Interchangeable
INVARIANTS
    PlaybackInv PrepareHasDeadline
PROPERTIES
    StartFollowsReadiness ImplementsPlayer
CHECK_DEADLOCK FALSE
