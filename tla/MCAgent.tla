------------------------------ MODULE MCAgent ------------------------------
(* Agent for TLC.  The actions are interchangeable, and so are the awaits.   *)
EXTENDS Agent, TLC

Symmetry == Permutations(Actions) \cup Permutations(Awaiters)
=============================================================================
