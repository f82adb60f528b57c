SPECIFICATION PermissionSpec
CONSTANTS
    Conns = {c1, c2, c3}
    Tokens = {t1, t2, t3, t4}
    Nil = Nil
CONSTRAINT OneRequest
SYMMETRY Interchangeable
INVARIANTS
    RegisteredIsLive TokenResumesMember GrantHolds
PROPERTIES
    HostKeepsGrace DropEvictsOnlyItself HostLostOnlyWhenEmpty
CHECK_DEADLOCK FALSE
