SPECIFICATION MCSpec
CONSTANTS
    Cfgs <- MCCfgs
    Throws <- MCThrows
    Allocs = {x, y}
    Fn = Fn
    MaxSteps = 6
    MaxPhis = 2
    MaxCalls = 3
SYMMETRY MCSymmetry
INVARIANTS
    DominatorsCorrect
    RegionsAreSafe
    BridgesAgree
CHECK_DEADLOCK FALSE
