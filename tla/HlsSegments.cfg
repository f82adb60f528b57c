SPECIFICATION FairSpec
CONSTANTS
    Requests = {q1}
    Duration = 5
    SegMs = 3
    ReadAhead = 1
    Slots = 2
    MaxDuration = 10
    Nil = Nil
INVARIANTS
    HlsInv SegmentIsWhole OnlyLateOrphans PlaylistCovers
PROPERTIES
    RequestEnds
CHECK_DEADLOCK FALSE
