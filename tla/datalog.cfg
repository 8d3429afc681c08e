SPECIFICATION Spec
CONSTANTS
    Attrs = {a1, a2}
    Entities = {1, 2}
    Giants = {g}
    Oversized = {o}
    MaxOps = 4
    MaxFaults = 2
INVARIANTS
    StoreIsSound
    SearchAgrees
PROPERTIES
    ImplementsDatomSet
CHECK_DEADLOCK FALSE
