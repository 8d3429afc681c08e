SPECIFICATION Spec
CONSTANTS
    Objs = {o1, o2, o3}
    Tasks = {t1, t2}
    Main = Main
    None = None
    Baseline = 10
    SoftLimit = 10
    Scopes <- MCScopes
INVARIANTS NoDangling InFlightIsRooted PressureIsServed
SYMMETRY MCSymmetry
CHECK_DEADLOCK FALSE
CONSTRAINT Assumed
