SPECIFICATION IrSpec
CONSTANTS
    Programs <- CorePrograms
    Compiled <- LowerProgram
    Expected <- TreeWalk
    NativeGas = 2000
INVARIANTS TiersAgree PhisHaveEdges NativeAgrees
PROPERTY Terminates
