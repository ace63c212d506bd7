SPECIFICATION Spec
CONSTANTS
    s1 = s1
    s2 = s2
    c1 = c1
    c2 = c2
    r1 = r1
    r2 = r2
    Sessions = {s1, s2}
    Callers = {c1, c2}
    Registrars = {r1, r2}
    Target <- TwoSessions
    Receiver = receiver
    Watcher = watcher
    Closer = closer
    Nobody = nobody
    Disturbances = {"crash", "stopFails", "timeout"}
SYMMETRY Swap
INVARIANTS
    NoWaitingCircle
CHECK_DEADLOCK FALSE
