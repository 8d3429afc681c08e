----------------------------- MODULE SharedAtom -----------------------------
(***************************************************************************)
(* shared-atom (cljrs-value/src/shared.rs; cljrs-interp/src/apply.rs;          *)
(* cljrs-builtins/src/builtins.rs): one cell written by several isolates, each  *)
(* a thread of its own.  A write is promoted to a fresh Arc; swap! and          *)
(* compare-and-set! commit only if the cell still holds the very Arc they read. *)
(***************************************************************************)
EXTENDS Integers, FiniteSets

CONSTANTS
    Isolates,
    MaxWrites   \* Arcs ever stored

VARIABLES
    cell,       \* [arc, val]: the Arc in the cell and the count it holds
    arcs,       \* Arcs made so far
    op,         \* per isolate: "idle", "swap" or "cas", between load and commit
    read,       \* per isolate: the [arc, val] it loaded
    expect,     \* history: the value all commits so far add up to
    lied        \* history: compare-and-set! answered true though the cell did not
                \*   hold the expected value when it stored
vars == <<cell, arcs, op, read, expect, lied>>

Init ==
    /\ cell = [arc |-> 0, val |-> 0] /\ arcs = 0
    /\ op = [i \in Isolates |-> "idle"] /\ read = [i \in Isolates |-> cell]
    /\ expect = 0 /\ lied = FALSE

-----------------------------------------------------------------------------
\* promote allocates an Arc of its own for every write, also of an equal value.
Promote(v) == [arc |-> arcs + 1, val |-> v]
Fresh == arcs < MaxWrites /\ arcs' = arcs + 1

\* shared_atom_reset: the count starts again.
Reset(i) ==
    /\ op[i] = "idle" /\ Fresh
    /\ cell' = Promote(0) /\ expect' = 0
    /\ UNCHANGED <<op, read, lied>>

\* deref_val, and the demoted value is passed to f (or compared, by value, with
\* the expected one).
Load(i, kind) ==
    /\ op[i] = "idle"
    /\ op' = [op EXCEPT ![i] = kind] /\ read' = [read EXCEPT ![i] = cell]
    /\ UNCHANGED <<cell, arcs, expect, lied>>

\* Mutant: the commit is a plain store.
AnyArc(i) == TRUE

\* compare_and_swap: by identity of the Arc.
Same(i) == cell.arc = read[i].arc

\* shared_atom_swap, here of inc: commit, or read again.
SwapCommit(i) ==
    /\ op[i] = "swap"
    /\ IF Same(i)
       THEN /\ Fresh /\ cell' = Promote(read[i].val + 1) /\ expect' = expect + 1
            /\ op' = [op EXCEPT ![i] = "idle"] /\ UNCHANGED read
       ELSE /\ read' = [read EXCEPT ![i] = cell]
            /\ UNCHANGED <<cell, arcs, expect, op>>
    /\ UNCHANGED lied

\* f throws, or its result is not promotable.
SwapFails(i) ==
    /\ op[i] = "swap" /\ op' = [op EXCEPT ![i] = "idle"]
    /\ UNCHANGED <<cell, arcs, read, expect, lied>>

\* builtin_compare_and_set, whose load found the value it expects: one attempt.
CasCommit(i) ==
    /\ op[i] = "cas"
    /\ op' = [op EXCEPT ![i] = "idle"]
    /\ IF Same(i)
       THEN /\ Fresh /\ cell' = Promote(read[i].val + 1) /\ expect' = expect + 1
            /\ lied' = (lied \/ cell.val # read[i].val)
       ELSE UNCHANGED <<cell, arcs, expect, lied>>
    /\ UNCHANGED read

Next ==
    \E i \in Isolates :
        \/ Reset(i) \/ SwapCommit(i) \/ SwapFails(i) \/ CasCommit(i)
        \/ \E k \in {"swap", "cas"} : Load(i, k)
Spec == Init /\ [][Next]_vars

-----------------------------------------------------------------------------
(* Properties *)

\* No update of any isolate is lost, and compare-and-set! tells the truth, with
\* resets to equal values in between.
CommitsAddUp == cell.val = expect /\ ~lied
=============================================================================
