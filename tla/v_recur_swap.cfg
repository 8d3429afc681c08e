SPECIFICATION IrSpec
CONSTANTS
    Programs <- SwapPrograms
    Compiled <- LowerProgram
    Expected <- TreeWalk
    NativeGas = 2000
INVARIANT TiersAgree
