SPECIFICATION MCSpec
CONSTANTS
    Capacity = 0
    BufferSize = 2
    Takers = {t1, t2}
    Putters = {p1, p2, p3}
    Pollers = {q1}
    Offerers = {o1}
    SyncTakers = {s1}
    SyncPutters = {b1}
    Nil = Nil
    None = None
INVARIANTS
    OfferOwnsSlot
    WokenOfferIsSettled
    ChannelHonest
PROPERTIES
    ImplementsChannel
    BufferedIsChannel
    BufferedProgress
