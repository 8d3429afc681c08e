----------------------------- MODULE TxSandbox ------------------------------
(***************************************************************************)
(* Transaction functions (cljrs-tx/src/lib.rs): each runs in an arena and an    *)
(* environment of its own, under guards that set thread-local state: the        *)
(* allocation context, the execution policy, a gas meter and a call-depth       *)
(* counter.  It ends with a value, with an error that unwinds as a Result, or   *)
(* with a panic of the allocator, which catch_unwind turns into an error; only  *)
(* drop handlers run then.                                                     *)
(***************************************************************************)
EXTENDS Integers, Sequences, SequencesExt, FiniteSets

CONSTANTS
    MaxTx,      \* transactions executed one after the other on a thread
    Gas,        \* limits.gas
    Limit,      \* limits.call_depth
    MaxFrames   \* frames of any kind at a time

VARIABLES
    tx,         \* transactions begun
    running,    \* one is running
    frames,     \* its evaluator frames, innermost last: "apply", "native" or "bind"
    arena,      \* ALLOC_CTX: the arena of this transaction is active (0: none)
    policy,     \* TRANSACTION_DEPTH
    gas,        \* the meter, 0..Gas
    depth,      \* CALL_DEPTH: the counter, or -1 for None
    ctx,        \* EVAL_CONTEXT: the transaction whose environment each entry holds
    bound,      \* frames of BINDING_STACK
    panicked    \* history: some transaction ended by a panic in a native call
vars == <<tx, running, frames, arena, policy, gas, depth, ctx, bound, panicked>>

Init ==
    /\ tx = 0 /\ running = FALSE /\ frames = <<>> /\ arena = 0 /\ policy = 0
    /\ gas = 0 /\ depth = -1 /\ ctx = <<>> /\ bound = 0 /\ panicked = FALSE

Count(s, k) == Cardinality({i \in DOMAIN s : s[i] = k})
Max0(n) == IF n > 0 THEN n ELSE 0
-----------------------------------------------------------------------------
\* execute_inner installs its guards; the environment is built inside the arena.
Begin ==
    /\ ~running /\ tx < MaxTx
    /\ tx' = tx + 1 /\ running' = TRUE
    /\ arena' = tx + 1 /\ policy' = policy + 1 /\ gas' = Gas /\ depth' = 0
    /\ UNCHANGED <<frames, ctx, bound, panicked>>

\* hook_call counts an application, or refuses it.
CanApply == depth = -1 \/ depth < Limit
Apply ==
    /\ running /\ gas > 0 /\ Len(frames) < MaxFrames /\ CanApply
    /\ frames' = Append(frames, "apply") /\ gas' = gas - 1
    /\ depth' = IF depth = -1 THEN -1 ELSE depth + 1
    /\ UNCHANGED <<tx, running, arena, policy, ctx, bound, panicked>>

\* A native call, host functions among them, and a binding form.
Native ==
    /\ running /\ gas > 0 /\ Len(frames) < MaxFrames
    /\ frames' = Append(frames, "native") /\ gas' = gas - 1
    /\ ctx' = Append(ctx, tx)
    /\ UNCHANGED <<tx, running, arena, policy, depth, bound, panicked>>
Bind ==
    /\ running /\ gas > 0 /\ Len(frames) < MaxFrames
    /\ frames' = Append(frames, "bind") /\ gas' = gas - 1
    /\ bound' = bound + 1
    /\ UNCHANGED <<tx, running, arena, policy, depth, ctx, panicked>>

\* Mutant: hook_call passes an error on with "?" and never counts down.
CountedOnSuccess(gone, ok) == IF ok THEN Count(gone, "apply") ELSE 0

\* The last frames return, or an error leaves them and is caught in the one below:
\* each undoes what it pushed.
CountedDown(gone, ok) == Count(gone, "apply")
Leave(n, ok) ==
    LET gone == SubSeq(frames, Len(frames) - n + 1, Len(frames))
    IN  /\ frames' = SubSeq(frames, 1, Len(frames) - n)
        /\ depth' = IF depth = -1 THEN -1 ELSE Max0(depth - CountedDown(gone, ok))
        /\ ctx' = SubSeq(ctx, 1, Len(ctx) - Count(gone, "native"))
        /\ bound' = bound - Count(gone, "bind")
Return ==
    /\ running /\ frames # <<>> /\ Leave(1, TRUE)
    /\ UNCHANGED <<tx, running, arena, policy, gas, panicked>>
Caught(n) ==
    /\ running /\ n \in 1..Len(frames) /\ Leave(n, FALSE)
    /\ UNCHANGED <<tx, running, arena, policy, gas, panicked>>

\* Mutant: the guard of the policy is forgotten.
KeptPolicy == policy

\* The guards are dropped, the arena last.
DroppedPolicy == Max0(policy - 1)
DropGuards ==
    /\ policy' = DroppedPolicy /\ gas' = 0 /\ depth' = -1 /\ arena' = 0 /\ running' = FALSE

\* The result crosses as data, or an uncaught error (of the program, of gas, of
\* depth, of a forbidden effect) is mapped to a TxError.
End ==
    /\ running /\ frames = <<>> /\ DropGuards
    /\ UNCHANGED <<tx, frames, ctx, bound, panicked>>
Fail ==
    LET n == Len(frames)
    IN  /\ running /\ n > 0
        /\ frames' = <<>>
        /\ ctx' = SubSeq(ctx, 1, Len(ctx) - Count(frames, "native"))
        /\ bound' = bound - Count(frames, "bind")
        /\ DropGuards /\ UNCHANGED <<tx, panicked>>

\* RegionLimitExceeded, or another panic: binding frames have a guard, the eval
\* context of a native call has none.
Panic ==
    /\ running
    /\ frames' = <<>> /\ bound' = bound - Count(frames, "bind")
    /\ panicked' = (panicked \/ Count(frames, "native") > 0)
    /\ DropGuards /\ UNCHANGED <<tx, ctx>>

Next ==
    \/ Begin \/ Apply \/ Native \/ Bind \/ Return \/ End \/ Fail \/ Panic
    \/ \E n \in 1..MaxFrames : Caught(n)
Spec == Init /\ [][Next]_vars

-----------------------------------------------------------------------------
(* Properties *)

\* Applications never nest deeper than the limit, and a transaction may always use
\* its whole depth: errors it caught do not eat it up.
DepthIsExact == running => depth = Count(frames, "apply") /\ depth <= Limit

\* When a transaction has ended, however it ended, the thread is as it was before,
\* except for eval contexts left behind by a panic in a native call.
NoTrace ==
    ~running => /\ arena = 0 /\ policy = 0 /\ depth = -1 /\ bound = 0
                /\ ~panicked => ctx = <<>>

\* cljrs-tx/src/lib.rs: "The environment, inputs, closures, lazy sequences, local
\* mutable cells, and all intermediate values are destroyed together when execution
\* finishes": nothing on the thread still refers to a transaction that is over.
EnvironmentIsGone == \A i \in DOMAIN ctx : running /\ ctx[i] = tx
=============================================================================
