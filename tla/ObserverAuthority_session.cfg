SPECIFICATION Spec
CONSTANTS
    s1 = s1
    s2 = s2
    c1 = c1
    c2 = c2
    r1 = r1
    r2 = r2
    Sessions = {s1}
    Callers = {c1, c2}
    Registrars = {r1}
    Target <- OneSession
    Receiver = receiver
    Watcher = watcher
    Closer = closer
    Nobody = nobody
    Disturbances = {"close", "crash", "stopFails", "timeout", "stream"}
SYMMETRY SwapCallers
INVARIANTS
    AdmissionNotErased
    PeerServesOneCall
    ReportIsTrue
    NoSessionOutlivesObserver
CHECK_DEADLOCK FALSE
