----------------------------- MODULE MCGcHeap -----------------------------
(***************************************************************************)
(* Boxes and tasks are interchangeable.  A behaviour has two tasks that      *)
(* loop, regions and a cell, a task spawned beside a region, or forms that   *)
(* only allocate; it is not continued past the point where an assumption of  *)
(* NoDangling breaks.                                                        *)
(***************************************************************************)
EXTENDS GcHeap, TLC

MCScopes == {
    [boxes |-> 2, tasks |-> 2, forms |-> 1, collections |-> 1, depth |-> 0, uses |-> {"loops"}],
    [boxes |-> 2, tasks |-> 2, forms |-> 1, collections |-> 2, depth |-> 0, uses |-> {}],
    [boxes |-> 3, tasks |-> 0, forms |-> 1, collections |-> 1, depth |-> 2, uses |-> {"cells"}],
    [boxes |-> 2, tasks |-> 1, forms |-> 1, collections |-> 2, depth |-> 1, uses |-> {"cells"}],
    [boxes |-> 3, tasks |-> 0, forms |-> 2, collections |-> 3, depth |-> 0, uses |-> {"cells"}]}
MCSymmetry == Permutations(Objs) \cup Permutations(Tasks)
Assumed == ~exposed /\ ~mispopped
=============================================================================
