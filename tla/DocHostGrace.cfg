SPECIFICATION Spec
CONSTANTS
    Conns = {c1, c2, c3}
    Tokens = {t1, t2, t3}
    Nil = Nil
CONSTRAINT NotReaped
SYMMETRY Interchangeable
PROPERTY HostRoleIsHeld
CHECK_DEADLOCK FALSE
