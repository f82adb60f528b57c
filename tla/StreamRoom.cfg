SPECIFICATION FairSpec
CONSTANTS
    Users = {u1}
    MaxSkips = 1
    Tracks = {a, b}
    Pumps = {p1, p2}
    MaxCalls = 2
    Nil = Nil
INVARIANTS
    StreamInv NoLostWakeup
PROPERTIES
    OnlyLateCallStrands TrackEndsUnskipped ImplementsFairPlayer
CHECK_DEADLOCK FALSE
