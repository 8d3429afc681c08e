-------------------------------- MODULE Refs --------------------------------
(***************************************************************************)
(* Atoms, delays and lazy sequences on one interpreter thread                 *)
(* (cljrs-value: types.rs; cljrs-interp: apply.rs; cljrs-compiler: rt_abi.rs). *)
(*                                                                          *)
(* No operation here runs concurrently with another, but each runs user code   *)
(* in the middle: the function of a swap!, a validator, a watch, the thunk of   *)
(* a delay.  That code may use the same reference again, so the state is a     *)
(* stack of operations in progress.  An atom holds the set of the updates      *)
(* applied to it; a swap! adds its own identity, a reset! leaves only that.    *)
(***************************************************************************)
EXTENDS Integers, Sequences, SequencesExt, FiniteSets

CONSTANTS
    Ops,        \* identities of operations on the atom (0 is none)
    MaxDepth    \* operations in progress at once

VARIABLES
    atom,       \* the value of the atom
    stack,      \* operations in progress, the innermost last: [op, id, old, at]
    under,      \* history: operation -> the operations it was nested in when it stored
    cells,      \* "delay" and "lazy": "pending", "nil", "value" or "error"
    threw,      \* history: cells whose thunk threw
    runs,       \* history: how often each thunk was run
    saw         \* history: [cell, in, got] of the last answer of a force
vars == <<atom, stack, under, cells, threw, runs, saw>>
atomVars == <<atom, under>>
cellVars == <<cells, threw, runs, saw>>

Init ==
    /\ atom = {} /\ stack = <<>> /\ under = [o \in {} |-> {}]
    /\ cells = [c \in {"delay", "lazy"} |-> "pending"]
    /\ threw = {} /\ runs = [c \in {"delay", "lazy"} |-> 0]
    /\ saw = [cell |-> "delay", in |-> FALSE, got |-> "value"]

-----------------------------------------------------------------------------
Top == Last(stack)
Frames == Range(stack)
Push(f) == Len(stack) < MaxDepth /\ stack' = Append(stack, f)
Pop == stack' = Front(stack)
Fresh(id) == id \notin DOMAIN under /\ \A f \in Frames : f.id # id
At == IF stack = <<>> THEN "none" ELSE Top.at
Now(at) == At = at
Step(at) == stack' = Front(stack) \o <<[Top EXCEPT !.at = at]>>

\* User code runs in the innermost operation, or there is none.
UserCode == At \in {"none", "f", "watch", "thunk"}

\* An operation stores its value.
Store(id, v) ==
    /\ atom' = v
    /\ under' = [o \in DOMAIN under \cup {id} |->
                   IF o = id THEN {f.id : f \in Frames} \ {id} ELSE under[o]]

-----------------------------------------------------------------------------
(* swap!, reset! and compare-and-set! *)

\* handle_swap_call reads the atom and calls f; rt_atom_swap, its compiled form,
\* does the same in a loop.
BeginSwap(id, op) ==
    /\ UserCode /\ Fresh(id)
    /\ Push([op |-> op, id |-> id, old |-> atom, at |-> "f"])
    /\ UNCHANGED <<atomVars, cellVars>>

\* f throws, or the validator refuses.
AbortSwap ==
    /\ Now("f") /\ Pop
    /\ UNCHANGED <<atomVars, cellVars>>

\* Interpreted: the new value is stored whatever the atom holds now; then the
\* watches.
EndSwap ==
    /\ Now("f") /\ Top.op = "swap"
    /\ Store(Top.id, Top.old \cup {Top.id})
    /\ Step("watch")
    /\ UNCHANGED cellVars
EndWatch ==
    /\ Now("watch") /\ Pop
    /\ UNCHANGED <<atomVars, cellVars>>

\* Mutant: the compiled swap! does not look again.
NeverStale(f) == TRUE

\* Compiled: only if the atom still equals the value read, else again; neither
\* validator nor watches.
Current(f) == atom = f.old
EndSwapRt ==
    /\ Now("f") /\ Top.op = "rt_swap"
    /\ IF Current(Top)
       THEN Store(Top.id, Top.old \cup {Top.id}) /\ Pop
       ELSE stack' = Front(stack) \o <<[Top EXCEPT !.old = atom]>> /\ UNCHANGED atomVars
    /\ UNCHANGED cellVars

\* reset! (then its watches) and compare-and-set! (no watches).
Reset(id) ==
    /\ UserCode /\ Fresh(id)
    /\ Push([op |-> "reset", id |-> id, old |-> atom, at |-> "watch"])
    /\ Store(id, {id})
    /\ UNCHANGED cellVars
CompareAndSet(id, expected) ==
    /\ UserCode /\ Fresh(id) /\ expected = atom
    /\ Store(id, {id})
    /\ UNCHANGED <<stack, cellVars>>

-----------------------------------------------------------------------------
(* Delay::force and LazySeq::realize *)

Running(c) == \E f \in Frames : f.op = c
See(c, got) == saw' = [cell |-> c, in |-> Running(c), got |-> got]

\* Realized already, or in progress: the state answers.
ForceCached(c) ==
    /\ UserCode /\ cells[c] # "pending"
    /\ See(c, IF cells[c] = "error" THEN "nil" ELSE cells[c])
    /\ UNCHANGED <<atomVars, stack, cells, threw, runs>>

\* Mutant: the thunk is taken out only once it has run.
StillPending(c) == cells[c]

\* The thunk is replaced by nil and runs without the lock.
Placeholder(c) == "nil"
BeginForce(c) ==
    /\ UserCode /\ cells[c] = "pending"
    /\ Push([op |-> c, id |-> 0, old |-> {}, at |-> "thunk"])
    /\ cells' = [cells EXCEPT ![c] = Placeholder(c)]
    /\ runs' = [runs EXCEPT ![c] = @ + 1]
    /\ UNCHANGED <<atomVars, threw, saw>>
EndForce ==
    LET c == Top.op
    IN  /\ Now("thunk") /\ Pop
        /\ cells' = [cells EXCEPT ![c] = "value"]
        /\ saw' = [cell |-> c, in |-> FALSE, got |-> "value"]
        /\ UNCHANGED <<atomVars, threw, runs>>

\* A delay keeps the placeholder; a lazy sequence remembers the error.
ThunkThrows ==
    LET c == Top.op
    IN  /\ Now("thunk") /\ Pop
        /\ cells' = [cells EXCEPT ![c] = IF c = "lazy" THEN "error" ELSE @]
        /\ threw' = threw \cup {c}
        /\ UNCHANGED <<atomVars, runs, saw>>

Next ==
    \/ \E id \in Ops, op \in {"swap", "rt_swap"} : BeginSwap(id, op)
    \/ \E id \in Ops : Reset(id) \/ CompareAndSet(id, atom)
    \/ AbortSwap \/ EndSwap \/ EndWatch \/ EndSwapRt
    \/ \E c \in {"delay", "lazy"} : ForceCached(c) \/ BeginForce(c)
    \/ EndForce \/ ThunkThrows
Spec == Init /\ [][Next]_vars

-----------------------------------------------------------------------------
(* Properties *)

\* An update leaves the atom only by a reset! or compare-and-set!, or when the
\* interpreted swap! in whose function it was made stores its own value.
OnlyEnclosingSwapLoses ==
    [][\A u \in atom \ atom' :
          \/ \E o \in Ops : Reset(o) \/ CompareAndSet(o, atom)
          \/ EndSwap /\ Top.id \in under[u]]_vars

\* A thunk runs once, and whoever asks for its value, other than the thunk itself,
\* gets it, unless the thunk threw.
ForcedOnce ==
    /\ \A c \in DOMAIN runs : runs[c] <= 1
    /\ ~saw.in /\ saw.cell \notin threw => saw.got = "value"
=============================================================================
