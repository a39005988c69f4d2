SPECIFICATION ChannelSpec
CONSTANTS
    c1 = c1  c2 = c2  c3 = c3
    Callers = {c1, c2, c3}
    MaxSessions = 4
    None = None
INVARIANTS
    OneOpenSession
    AloneIsServed
SYMMETRY Perms
CHECK_DEADLOCK FALSE
