SPECIFICATION MCSpec
CONSTANTS
    Awaiters = {a1, a2}
    Derefs = {d1, d2}
    AtDerefs = {}
    TimedDerefs = {t1}
    SyncAwaits = {s1}
    Cancellers = {}
    PlainDerefs = {d1, d2}
    PlainAtDerefs = {e1, e2}
    PlainTimedDerefs = {t1}
    PlainCancellers = {c1, c2}
    HasExecutor = TRUE
    None = None
INVARIANTS
    BodyIsHonoured
PROPERTIES
    ImplementsOneShot
    AwaitersResolve
    PlainIsOneShot
