SPECIFICATION Spec
CONSTANTS
    Readers = {g1, g2}
    PCs = {x1, x2}
    Closer = closer
    Leaver = leaver
    MaxCandidates = 1
    Nil = Nil
SYMMETRY Interchangeable
INVARIANTS
    PeersInv NoForgottenPeer NoPeerAfterClose
PROPERTIES
    FirstPeerIsKept
CHECK_DEADLOCK FALSE
