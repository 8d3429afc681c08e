----------------------------- MODULE DatomSet -----------------------------
(***************************************************************************)
(* What the datalog store promises: a set of datoms <<entity, attribute,    *)
(* value>> that transactions change all at once or not at all.  An add to a  *)
(* cardinality-one attribute replaces the entity's previous value.           *)
(***************************************************************************)
CONSTANTS Entities, Attrs, StoreValues

VARIABLES
    datoms,    \* the committed datoms
    many,      \* the cardinality-many attributes
    pending    \* the datoms as the open transaction sees them, or as committed

Init == datoms = {} /\ many = {} /\ pending = {}

Add(e, a, v) ==
    /\ pending' = {d \in pending : a \in many \/ d[1] # e \/ d[2] # a}
                    \cup {<<e, a, v>>}
    /\ UNCHANGED <<datoms, many>>

Retract(e, a, v) ==
    /\ pending' = pending \ {<<e, a, v>>}
    /\ UNCHANGED <<datoms, many>>

Commit == datoms' = pending /\ UNCHANGED <<many, pending>>

\* The transaction fails or the process dies: as if it had never begun.
Forget == pending' = datoms /\ UNCHANGED <<datoms, many>>

\* Attribute properties change outside transactions; the datoms stay.
Declare ==
    /\ pending = datoms
    /\ many' \in SUBSET Attrs
    /\ UNCHANGED <<datoms, pending>>

Next ==
    \/ \E e \in Entities, a \in Attrs, v \in StoreValues : Add(e, a, v) \/ Retract(e, a, v)
    \/ Commit \/ Forget \/ Declare

Spec == Init /\ [][Next]_<<datoms, many, pending>>
=============================================================================
