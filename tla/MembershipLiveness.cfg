SPECIFICATION FairSpec
CONSTANTS
    Conns = {c1, c2}
    Tokens = {t1, t2}
    Nil = Nil
INVARIANTS
    IInv
PROPERTIES
    SlotsAreResolved EmptyRoomVanishes
CHECK_DEADLOCK FALSE
