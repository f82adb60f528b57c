SPECIFICATION FairSpec
CONSTANTS
    Conns = {c1}
    Others = {g1, g2}
    Cap = 2
    MaxChanges = 3
    MaxControls = 2
    Lost = Lost
INVARIANTS
    DeliveryInv NowPlayingIsLatest
PROPERTIES
    DropIsNoticed
CHECK_DEADLOCK FALSE
