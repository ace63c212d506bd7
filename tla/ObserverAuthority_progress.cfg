SPECIFICATION Spec
CONSTANTS
    s1 = s1
    s2 = s2
    c1 = c1
    c2 = c2
    r1 = r1
    r2 = r2
    Sessions = {s1}
    Callers = {c1}
    Registrars = {r1}
    Target <- OneCaller
    Receiver = receiver
    Watcher = watcher
    Closer = closer
    Nobody = nobody
    Disturbances = {"close", "crash", "stopFails", "timeout", "stream"}
PROPERTIES
    EveryCallReturns
    TeardownCompletes
CHECK_DEADLOCK FALSE
