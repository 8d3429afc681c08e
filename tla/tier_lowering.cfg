SPECIFICATION Spec
CONSTANTS
    None = None
    a1 = a1
    a2 = a2
    h1 = h1
    home = home
    worker = worker
    Home = home
    Arities <- TwoArities
    Unlowerable <- SecondUnlowerable
    Headers <- Nothing
    Isolates <- TwoIsolates
    WarmVersions <- AllWarm
    LowerQueueCap = 2
    JitQueueCap = 0
    MaxAttempts = 3
    MaxRebinds = 2
    MaxRedefs = 1
    MaxEpochs = 0
    MaxDepth = 0
INVARIANTS
    EdgeCovers
    NoStaleIr
