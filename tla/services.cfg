SPECIFICATION Spec
CONSTANTS
    None = None
    Done = Done
    IsolateCallIds = {1, 2, 3}
    PoolWorkers <- TwoWorkers
    Takes = {"t1", "t2", "t3"}
    Puts = {"v1", "v2"}
    Isolates = {"i1", "i2"}
    MaxWrites = 4
    NReplRequests = {1, 2, 3}
    Sessions = {"s1"}
    MessageIds = {"a", "b"}
    MaxEvalForms = 2
    PodIds = {"p1"}
    MaxInvokes = 3
    AtomOps = {1, 2}
    MaxNesting = 3
    Taps = {"t1", "t2"}
    Inputs = {"i1", "i2"}
    MaxValues = 2
    Tasks = {"t1", "t2"}
    MaxForms = 2
    MaxBinds = 2
    MaxTx = 2
    TxGas = 6
    TxDepth = 2
    MaxFrames = 4
INVARIANTS IsolatesKeepApart InterruptsAreHonest PodsAnswerOwn ForcedOnce ThreadStateIsOwn
PROPERTIES EveryCallIsAnswered OnlyEnclosingSwapLoses RelaysDeliver
CHECK_DEADLOCK FALSE
