SPECIFICATION Spec
CONSTANTS
    None = None
    a1 = a1
    a2 = a2
    h1 = h1
    home = home
    worker = worker
    Home = home
    Arities <- OneArity
    Unlowerable <- Nothing
    Headers <- OneHeader
    Isolates <- OneIsolate
    WarmVersions <- Nothing
    LowerQueueCap = 1
    JitQueueCap = 1
    MaxAttempts = 1
    MaxRebinds = 0
    MaxRedefs = 1
    MaxEpochs = 2
    MaxDepth = 1
INVARIANTS
    NoFreedCode
