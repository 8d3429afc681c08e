------------------------------ MODULE Tiering ------------------------------
(***************************************************************************)
(* The execution tiers of a function: tree walking, the IR interpreter and  *)
(* native code.  Dispatch (cljrs-eval, apply.rs, ir_interp.rs), the per-    *)
(* arity state (jit_state.rs), the IR cache (ir_cache.rs), the cross-defn   *)
(* registry (defn_registry.rs), the lowering thread (lower_worker.rs), the  *)
(* compiling thread (cljrs-jit, jit_worker.rs), the hooks of a var rebind   *)
(* (cljrs-jit lib.rs, defn_registry.rs) and the unloading of code at a      *)
(* collection (code_cache.rs).                                              *)
(*                                                                          *)
(* The functions of Arities call one other defn, the callee, whose body the *)
(* lowering clones into them when the callee is registered.  IR and native  *)
(* code are abstracted to the version of the callee they contain.  Call     *)
(* counts are abstracted to a choice: a call may or may not cross a         *)
(* threshold, and an IR entry may or may not have outlived its TTL.         *)
(*                                                                          *)
(* Home is the isolate (thread) that calls the functions.  The others are   *)
(* worker isolates: they walk trees, but they rebind vars of the same name, *)
(* and collect, and every table here is shared by the process.              *)
(***************************************************************************)
EXTENDS Naturals, Sequences, FiniteSets

CONSTANTS
    Arities,       \* the arities that call the callee
    Unlowerable,   \* those whose body the lowering does not support
    Headers,       \* loop headers in each of them
    Isolates,      \* threads that run Clojure code
    Home,          \* the one that owns and calls Arities
    WarmVersions,  \* versions of the callee that become warm and are lowered
    LowerQueueCap, \* capacity of the queue of the lowering worker
    JitQueueCap,   \* capacity of the queue of the JIT worker; 0: no JIT linked
    MaxAttempts,   \* MAX_LOWER_ATTEMPTS
    MaxRebinds,    \* bound on the number of rebinds of the callee
    MaxRedefs,     \* bound on the number of redefinitions of an arity
    MaxEpochs,     \* bound on the number of compiled modules
    MaxDepth,      \* bound on the depth of Home's call stack
    None

ASSUME TieringAssumption ==
    /\ Home \in Isolates
    /\ Unlowerable \subseteq Arities
    /\ {LowerQueueCap, JitQueueCap, MaxAttempts, MaxRebinds, MaxRedefs,
        MaxEpochs, MaxDepth} \subseteq Nat
    /\ WarmVersions \subseteq Nat
    /\ None \notin Arities \cup Headers

VARIABLES
    ver,        \* version of the callee Home's var holds
    asked,      \* versions of the callee whose lowering was requested
    reg,        \* REGISTRY: {} or the registered version of the callee
    late,       \* history: versions registered after the rebind that replaced them
    dependents, \* DEPENDENTS: arities whose lowering consumed the callee
    relower,    \* RELOWER: arities to lower again
    cache,      \* IR_CACHE: Absent, Unsupported or an IR
    lowerQ,     \* JIT_TABLE: entries with lower_queued
    compileQ,   \* JIT_TABLE: entries with compile_queued
    native,     \* JIT_TABLE: epoch of the published code, 0 if none
    banned,     \* SPEC_BANNED
    osr,        \* OSR_TABLE: state of each loop
    osrEpoch,   \* OSR_TABLE: epoch of a Ready slot, 0 if none
    lowerReqs,  \* queue of the lowering worker
    lw,         \* the lowering worker
    jitReqs,    \* queue of the JIT worker
    jw,         \* the JIT worker
    code,       \* history: what the module of each epoch was compiled from
    live,       \* CacheState.live
    stale,      \* CacheState.stale
    pinned,     \* CacheState.pinned
    freed,      \* history: epochs whose memory was released
    declined,   \* history: arities whose compile ended in an error
    stack,      \* Home's IR and native frames, MY_FRAMES being the native ones
    fetched,    \* code Home has looked up and not entered yet, 0 if none
    op,         \* what each isolate is in the middle of
    rebinds, redefs

dispatchVars == <<lowerQ, compileQ, native, banned>>
defnVars  == <<ver, asked, reg, late, dependents>>
osrVars   == <<osr, osrEpoch>>
moduleVars == <<code, live, stale, pinned, freed>>
homeVars  == <<stack, fetched>>
boundVars == <<rebinds, redefs>>
vars == <<defnVars, relower, cache, dispatchVars, osrVars, lowerReqs, lw, jitReqs, jw,
          moduleVars, declined, homeVars, op, boundVars>>

\* IrCacheEntry.  An IR is an Arc: a name nobody else holds, and the version of
\* the callee its body contains, if any.
Absent == [st |-> "absent", id |-> 0, inl |-> {}]
Unsupported == [st |-> "unsupported", id |-> 0, inl |-> {}]
IsIr(c) == c.st = "ir"

IdleLw == [pc |-> "idle", arity |-> None, inl |-> {}, attempts |-> 0]
IdleJw == [pc |-> "idle", req |-> None, epoch |-> 0]

\* What an isolate is in the middle of: a stage, the arities it still has to
\* deal with, and what it holds on to.
Stage(pc, todo, held) == [pc |-> pc, todo |-> todo, held |-> held]
IdleOp == Stage("idle", {}, {})

\* The callee may have been registered before its first rebind.
Init ==
    /\ ver = 0 /\ asked = {}
    /\ reg \in {{}, {0}} /\ late = {}
    /\ dependents = {} /\ relower = {}
    /\ cache = [a \in Arities |-> Absent]
    /\ lowerQ = {} /\ compileQ = {} /\ banned = {}
    /\ native = [a \in Arities |-> 0]
    /\ osr = [l \in Arities \X Headers |-> "none"]
    /\ osrEpoch = [l \in Arities \X Headers |-> 0]
    /\ lowerReqs = <<>> /\ lw = IdleLw
    /\ jitReqs = <<>> /\ jw = IdleJw
    /\ code = <<>> /\ live = {} /\ stale = {} /\ pinned = {} /\ freed = {}
    /\ declined = {}
    /\ stack = <<>> /\ fetched = 0
    /\ op = [i \in Isolates |-> IdleOp]
    /\ rebinds = 0 /\ redefs = 0

\* Isolate i is between two operations: it may call, rebind or collect.
CanRun(i) == op[i].pc = "idle" /\ (i = Home => fetched = 0)

\* live_epochs: the epochs of every frame pushed by push_jit_frame.
LiveFrames == {stack[k].epoch : k \in DOMAIN stack} \ {0}

Top == stack[Len(stack)]
IrOnTop == stack # <<>> /\ Top.epoch = 0
NativeOnTop == stack # <<>> /\ Top.epoch # 0

IrFrame(a, ir)  == [arity |-> a, ir |-> ir, epoch |-> 0, at |-> ver]
NativeFrame(e) == [arity |-> code[e].arity, ir |-> Absent, epoch |-> e, at |-> ver]

-----------------------------------------------------------------------------
\* take_native_epoch and take_osr_epochs drop the entries of the arities S and
\* give the epochs they published; mark_stale takes those out of live.

NativeEpochs(S) == {native[a] : a \in S} \ {0}
OsrEpochs(S) == {osrEpoch[l] : l \in S \X Headers} \ {0}

\* Mutant: the pointer is cleared and the entry, with lower_queued, is kept.
TakeNativeKeepsFlag(S) ==
    /\ lowerQ' = lowerQ
    /\ compileQ' = compileQ \ S
    /\ native' = [a \in Arities |-> IF a \in S THEN 0 ELSE native[a]]

TakeNative(S) ==
    /\ lowerQ' = lowerQ \ S
    /\ compileQ' = compileQ \ S
    /\ native' = [a \in Arities |-> IF a \in S THEN 0 ELSE native[a]]

\* Mutant: the epochs are taken and the slots stay.
TakeOsrKeepsSlots(S) == UNCHANGED osrVars

TakeOsr(S) ==
    /\ osr' = [l \in Arities \X Headers |-> IF l[1] \in S THEN "none" ELSE osr[l]]
    /\ osrEpoch' = [l \in Arities \X Headers |-> IF l[1] \in S THEN 0 ELSE osrEpoch[l]]

\* Mutant: the record is copied to the stale set.
MarkStaleCopies(E) ==
    /\ live' = live
    /\ stale' = stale \cup (E \cap live)

MarkStale(E) ==
    /\ live' = live \ E
    /\ stale' = stale \cup (E \cap live)

-----------------------------------------------------------------------------
\* Dispatch on Home (call_cljrs_fn).

\* A dispatch that does not go native asks for a lowering because of a relower
\* mark (try_ir_path) or as a warm tree-walked call (maybe_request_lowering).
WantsLower(a) ==
    native[a] = 0 /\ a \notin lowerQ /\ (a \in relower \/ cache[a] = Absent)

\* request_background_lower; a full queue changes nothing.
RequestLower(a) ==
    /\ CanRun(Home) /\ WantsLower(a)
    /\ Len(lowerReqs) < LowerQueueCap
    /\ lowerReqs' = Append(lowerReqs, [arity |-> a, ver |-> 0])
    /\ op' = [op EXCEPT ![Home] = Stage("asking", {a}, {})]
    /\ UNCHANGED <<defnVars, relower, cache, dispatchVars, osrVars, lw, jitReqs, jw,
                   moduleVars, declined, homeVars, boundVars>>

\* The end of request_background_lower: the request was accepted.
MarkLowerQueued ==
    /\ op[Home].pc = "asking"
    /\ lowerQ' = lowerQ \cup op[Home].todo
    /\ op' = [op EXCEPT ![Home] = IdleOp]
    /\ UNCHANGED <<defnVars, relower, cache, compileQ, native, banned, osrVars, lowerReqs,
                   lw, jitReqs, jw, moduleVars, declined, homeVars, boundVars>>

\* A warm call of an arity whose lowering failed pins the flag.
PinUnsupported(a) ==
    /\ CanRun(Home)
    /\ native[a] = 0 /\ cache[a] = Unsupported /\ a \notin lowerQ
    /\ lowerQ' = lowerQ \cup {a}
    /\ UNCHANGED <<defnVars, relower, cache, compileQ, native, banned, osrVars, lowerReqs,
                   lw, jitReqs, jw, moduleVars, declined, homeVars, op, boundVars>>

\* try_send of a compile request: a full queue, or no JIT, loses it.
SendJit(r) ==
    jitReqs' = IF Len(jitReqs) < JitQueueCap THEN Append(jitReqs, r) ELSE jitReqs

\* record_call: the first hot call asks for a compile.
RecordCall(a) ==
    \/ UNCHANGED <<compileQ, jitReqs>>
    \/ /\ a \notin compileQ
       /\ compileQ' = compileQ \cup {a}
       /\ SendJit([arity |-> a, header |-> None, ir |-> cache[a]])

\* Tier-1 dispatch.
Tier1Call(a) ==
    /\ CanRun(Home)
    /\ native[a] = 0 /\ IsIr(cache[a])
    /\ Len(stack) < MaxDepth
    /\ stack' = Append(stack, IrFrame(a, cache[a]))
    /\ RecordCall(a)
    /\ UNCHANGED <<defnVars, relower, cache, lowerQ, native, banned, osrVars, lowerReqs,
                   lw, jw, moduleVars, declined, fetched, op, boundVars>>

Return ==
    /\ CanRun(Home) /\ stack # <<>>
    /\ stack' = SubSeq(stack, 1, Len(stack) - 1)
    /\ UNCHANGED <<defnVars, relower, cache, dispatchVars, osrVars, lowerReqs, lw, jitReqs,
                   jw, moduleVars, declined, fetched, op, boundVars>>

\* osr_request for a loop nobody requested yet.
RequestOsr(a, h, ir) ==
    /\ osr[<<a, h>>] = "none"
    /\ osr' = [osr EXCEPT ![<<a, h>>] = IF JitQueueCap = 0 THEN "failed" ELSE "queued"]
    /\ SendJit([arity |-> a, header |-> h, ir |-> ir])

\* record_back_edge: the loop at h is hot in this execution.
OsrRequest(h) ==
    /\ CanRun(Home) /\ IrOnTop
    /\ RequestOsr(Top.arity, h, Top.ir)
    /\ UNCHANGED <<defnVars, relower, cache, dispatchVars, osrEpoch, lowerReqs, lw, jw,
                   moduleVars, declined, homeVars, op, boundVars>>

\* get_native_fn: Home holds a pointer and an epoch that no frame shows yet.
NativeCall(a) ==
    /\ CanRun(Home)
    /\ native[a] # 0
    /\ Len(stack) < MaxDepth
    /\ fetched' = native[a]
    /\ UNCHANGED <<defnVars, relower, cache, dispatchVars, osrVars, lowerReqs, lw, jitReqs,
                   jw, moduleVars, declined, stack, op, boundVars>>

\* The slot osr_poll returns at the header; the native code takes the place of
\* the interpreted execution, whose result it gives.
OsrEnter(h) ==
    /\ CanRun(Home) /\ IrOnTop
    /\ osr[<<Top.arity, h>>] = "ready"
    /\ fetched' = osrEpoch[<<Top.arity, h>>]
    /\ stack' = SubSeq(stack, 1, Len(stack) - 1)
    /\ UNCHANGED <<defnVars, relower, cache, dispatchVars, osrVars, lowerReqs, lw, jitReqs,
                   jw, moduleVars, declined, op, boundVars>>

\* push_jit_frame and the jump into native code.
EnterNative ==
    /\ fetched # 0
    /\ stack' = Append(stack, NativeFrame(fetched))
    /\ fetched' = 0
    /\ UNCHANGED <<defnVars, relower, cache, dispatchVars, osrVars, lowerReqs, lw, jitReqs,
                   jw, moduleVars, declined, op, boundVars>>

\* record_deopt, below deopt_limit or reaching it.
RecordDeopt(a) ==
    \/ UNCHANGED <<dispatchVars, live, stale>>
    \/ /\ banned' = banned \cup {a}
       /\ TakeNative({a})
       /\ MarkStale(NativeEpochs({a}))

\* The entry guard of specialised code fails: the call runs again at Tier 1 (or
\* as a tree walk), its frame still in place.
EnterDeopt ==
    /\ fetched # 0 /\ code[fetched].spec
    /\ LET a == code[fetched].arity IN
         /\ stack' = Append(stack, NativeFrame(fetched)) \o
                       IF IsIr(cache[a]) THEN <<IrFrame(a, cache[a])>> ELSE <<>>
         /\ RecordDeopt(a)
    /\ fetched' = 0
    /\ UNCHANGED <<defnVars, relower, cache, osrVars, lowerReqs, lw, jitReqs,
                   jw, code, pinned, freed, declined, op, boundVars>>

\* pin_epoch: running code builds a closure.
PinEpoch ==
    /\ CanRun(Home) /\ NativeOnTop
    /\ pinned' = pinned \cup {Top.epoch}
    /\ UNCHANGED <<defnVars, relower, cache, dispatchVars, osrVars, lowerReqs, lw, jitReqs,
                   jw, code, live, stale, freed, declined, homeVars, op, boundVars>>

\* A version of the callee gets warm.
CalleeWarm(v) ==
    /\ CanRun(Home)
    /\ v <= ver /\ v \notin asked
    /\ Len(lowerReqs) < LowerQueueCap
    /\ asked' = asked \cup {v}
    /\ lowerReqs' = Append(lowerReqs, [arity |-> None, ver |-> v])
    /\ UNCHANGED <<ver, reg, late, dependents, relower, cache, dispatchVars, osrVars, lw, jitReqs,
                   jw, moduleVars, declined, homeVars, op, boundVars>>

\* Home rebinds the var of an arity; old references may still call the function.
Redefine(a) ==
    /\ CanRun(Home) /\ redefs < MaxRedefs
    /\ redefs' = redefs + 1
    /\ TakeNative({a})
    /\ TakeOsr({a})
    /\ MarkStale(NativeEpochs({a}) \cup OsrEpochs({a}))
    /\ UNCHANGED <<defnVars, relower, cache, banned, lowerReqs, lw, jitReqs, jw, code,
                   pinned, freed, declined, homeVars, op, rebinds>>

-----------------------------------------------------------------------------
\* A rebind of the callee by isolate i: Var::bind, then on_redefined and the
\* rest of the invalidation hook, whose locks are taken one at a time.

RebindUnchanged == <<asked, lowerReqs, lw, jitReqs, jw, code, pinned, freed, declined,
                     banned, homeVars, redefs>>

Rebind(i) ==
    /\ CanRun(i) /\ rebinds < MaxRebinds
    /\ rebinds' = rebinds + 1
    /\ ver' = IF i = Home THEN ver + 1 ELSE ver
    /\ late' = IF i = Home THEN {} ELSE late
    /\ op' = [op EXCEPT ![i] = Stage("drop", {}, {})]
    /\ UNCHANGED <<reg, dependents, relower, cache, lowerQ, compileQ, native, osrVars, live,
                   stale, RebindUnchanged>>

DropRegistration(i) ==
    /\ op[i].pc = "drop"
    /\ reg' = {}
    /\ op' = [op EXCEPT ![i] = Stage("drain", {}, {})]
    /\ UNCHANGED <<ver, late, dependents, relower, cache, lowerQ, compileQ, native, osrVars, live,
                   stale, rebinds, RebindUnchanged>>

DrainDependents(i) ==
    /\ op[i].pc = "drain"
    /\ dependents' = {}
    /\ op' = [op EXCEPT ![i] = Stage("mark", dependents, {})]
    /\ UNCHANGED <<ver, late, reg, relower, cache, lowerQ, compileQ, native, osrVars, live,
                   stale, rebinds, RebindUnchanged>>

NextInvalidation(todo) == IF todo = {} THEN IdleOp ELSE Stage("invalidate", todo, {})

MarkRelower(i) ==
    /\ op[i].pc = "mark"
    /\ relower' = relower \cup op[i].todo
    /\ op' = [op EXCEPT ![i] = NextInvalidation(op[i].todo)]
    /\ UNCHANGED <<ver, late, reg, dependents, cache, lowerQ, compileQ, native, osrVars, live,
                   stale, rebinds, RebindUnchanged>>

\* held is the dependent whose cached IR is gone and whose code is not yet.
InvalidateIr(i, a) ==
    /\ op[i].pc = "invalidate" /\ a \in op[i].todo
    /\ cache' = [cache EXCEPT ![a] = Absent]
    /\ op' = [op EXCEPT ![i] = Stage("unpublish", op[i].todo, {a})]
    /\ UNCHANGED <<ver, late, reg, dependents, relower, lowerQ, compileQ, native, osrVars, live,
                   stale, rebinds, RebindUnchanged>>

\* stale_native_code
StaleNativeCode(i) ==
    /\ op[i].pc = "unpublish"
    /\ LET S == op[i].held IN
         /\ TakeNative(S)
         /\ TakeOsr(S)
         /\ MarkStale(NativeEpochs(S) \cup OsrEpochs(S))
         /\ op' = [op EXCEPT ![i] = NextInvalidation(op[i].todo \ S)]
    /\ UNCHANGED <<ver, late, reg, dependents, relower, cache, rebinds, RebindUnchanged>>

-----------------------------------------------------------------------------
\* The lowering worker (process_request).

LwUnchanged == <<ver, asked, compileQ, native, banned, osrVars, jitReqs, jw, moduleVars,
                 declined, homeVars, op, boundVars>>

\* An arity with a terminal state and no mark is skipped.
LwTake ==
    /\ lw.pc = "idle" /\ lowerReqs # <<>>
    /\ lowerReqs' = Tail(lowerReqs)
    /\ LET r == Head(lowerReqs) IN
         lw' = CASE r.arity = None -> [IdleLw EXCEPT !.pc = "register", !.inl = {r.ver}]
                 [] r.arity # None /\ cache[r.arity] # Absent /\ r.arity \notin relower
                      -> IdleLw
                 [] OTHER -> [IdleLw EXCEPT !.pc = "clear", !.arity = r.arity]
    /\ UNCHANGED <<reg, late, dependents, relower, cache, lowerQ, LwUnchanged>>

\* take_relower and invalidate, at the start of an attempt.
LwClear ==
    /\ lw.pc = "clear"
    /\ relower' = relower \ {lw.arity}
    /\ cache' = [cache EXCEPT ![lw.arity] = Absent]
    /\ lw' = [lw EXCEPT !.pc = "lower", !.attempts = @ + 1]
    /\ UNCHANGED <<reg, late, dependents, lowerQ, lowerReqs, LwUnchanged>>

\* Mutant: the externals are read and the edge is not recorded with them.
LwSnapshotNoEdge ==
    /\ lw.pc = "lower" /\ lw.arity \notin Unlowerable
    /\ lw' = [lw EXCEPT !.pc = "store", !.inl = reg]
    /\ UNCHANGED <<reg, late, dependents, relower, cache, lowerQ, lowerReqs, LwUnchanged>>

\* snapshot_externals: the edge is recorded with the registry locked.
LwSnapshot ==
    /\ lw.pc = "lower" /\ lw.arity \notin Unlowerable
    /\ lw' = [lw EXCEPT !.pc = "store", !.inl = reg]
    /\ dependents' = IF reg = {} THEN dependents ELSE dependents \cup {lw.arity}
    /\ UNCHANGED <<reg, late, relower, cache, lowerQ, lowerReqs, LwUnchanged>>

LwUnsupported ==
    /\ lw.pc = "lower" /\ lw.arity \in Unlowerable
    /\ cache' = [cache EXCEPT ![lw.arity] = Unsupported]
    /\ lw' = IdleLw
    /\ UNCHANGED <<reg, late, dependents, relower, lowerQ, lowerReqs, LwUnchanged>>

\* worker_loop catches the panic; the flags stay as they are.
LwPanics ==
    /\ lw.pc \in {"lower", "store"}
    /\ lw' = IdleLw
    /\ UNCHANGED <<reg, late, dependents, relower, cache, lowerQ, lowerReqs, LwUnchanged>>

\* The IRs somebody holds.
HeldIrs == {cache[a] : a \in Arities} \cup {stack[k].ir : k \in DOMAIN stack}
             \cup {jitReqs[k].ir : k \in DOMAIN jitReqs}
             \cup (IF jw.pc = "idle" THEN {} ELSE {jw.req.ir})
HeldIds == {c.id : c \in {d \in HeldIrs : IsIr(d)}}
NewIr(inl) ==
    [st |-> "ir", id |-> CHOOSE n \in 1..(Cardinality(HeldIds) + 1) : n \notin HeldIds,
     inl |-> inl]

LwStore ==
    /\ lw.pc = "store"
    /\ cache' = [cache EXCEPT ![lw.arity] = NewIr(lw.inl)]
    /\ lw' = [lw EXCEPT !.pc = "peek"]
    /\ UNCHANGED <<reg, late, dependents, relower, lowerQ, lowerReqs, LwUnchanged>>

\* Mutant: the mark is not looked at after the store.
LwPeekBlind ==
    /\ lw.pc = "peek"
    /\ lw' = IdleLw
    /\ UNCHANGED <<reg, late, dependents, relower, cache, lowerQ, lowerReqs, LwUnchanged>>

\* relower_marked after the store; the attempts are bounded.
LwPeek ==
    /\ lw.pc = "peek"
    /\ \/ /\ lw.arity \notin relower
          /\ lw' = IdleLw
          /\ UNCHANGED <<cache, lowerQ>>
       \/ /\ lw.arity \in relower
          /\ cache' = [cache EXCEPT ![lw.arity] = Absent]
          /\ \/ /\ lw.attempts < MaxAttempts
                /\ lw' = [lw EXCEPT !.pc = "clear"]
                /\ UNCHANGED lowerQ
             \/ /\ lw.attempts >= MaxAttempts
                /\ lw' = IdleLw
                /\ lowerQ' = lowerQ \ {lw.arity}
    /\ UNCHANGED <<reg, late, dependents, relower, lowerReqs, LwUnchanged>>

\* register_defn at the end of the callee's own request, whatever Home's var holds
\* by now.  The registration is late unless Home's hook has still to drop it.
LwRegister ==
    /\ lw.pc = "register"
    /\ reg' = lw.inl
    /\ late' = IF op[Home].pc = "drop" THEN late ELSE late \cup (lw.inl \ {ver})
    /\ lw' = IdleLw
    /\ UNCHANGED <<dependents, relower, cache, lowerQ, lowerReqs, LwUnchanged>>

-----------------------------------------------------------------------------
\* The JIT worker (compile_function_request, compile_osr_request).

JwUnchanged == <<defnVars, relower, cache, lowerQ, compileQ, banned, lowerReqs, lw, pinned,
                 freed, homeVars, op, boundVars>>

\* The compile succeeds and register gives the module its epoch; only a whole
\* function whose arity is not banned may be specialised.
JwCompile ==
    /\ jw.pc = "idle" /\ jitReqs # <<>> /\ Len(code) < MaxEpochs
    /\ LET r == Head(jitReqs)
           e == Len(code) + 1 IN
         /\ \E s \in BOOLEAN :
              /\ s => r.header = None /\ r.arity \notin banned
              /\ code' = Append(code, [arity |-> r.arity, inl |-> r.ir.inl, spec |-> s])
         /\ live' = live \cup {e}
         /\ jw' = [pc |-> IF r.header = None THEN "guard" ELSE "storeOsr",
                   req |-> r, epoch |-> e]
    /\ jitReqs' = Tail(jitReqs)
    /\ UNCHANGED <<native, osrVars, stale, declined, JwUnchanged>>

\* The compile ends in an error or a panic.
JwDecline ==
    /\ jw.pc = "idle" /\ jitReqs # <<>>
    /\ LET r == Head(jitReqs) IN
         \/ /\ r.header = None
            /\ declined' = declined \cup {r.arity}
            /\ UNCHANGED osrVars
         \/ /\ r.header # None
            /\ osr' = [osr EXCEPT ![<<r.arity, r.header>>] = "failed"]
            /\ osrEpoch' = [osrEpoch EXCEPT ![<<r.arity, r.header>>] = 0]
            /\ UNCHANGED declined
    /\ jitReqs' = Tail(jitReqs)
    /\ UNCHANGED <<native, jw, code, live, stale, JwUnchanged>>

\* Mutant: a stale module is handed to reclamation and published all the same.
JwGuardGoesOn ==
    /\ jw.pc = "guard"
    /\ jw' = [jw EXCEPT !.pc = "storeNative"]
    /\ IF cache[jw.req.arity] = jw.req.ir
       THEN UNCHANGED <<live, stale>> ELSE MarkStale({jw.epoch})
    /\ UNCHANGED <<native, osrVars, jitReqs, code, declined, JwUnchanged>>

\* The publish guard: the request's IR must still be the cached one.
JwGuard ==
    /\ jw.pc = "guard"
    /\ \/ /\ cache[jw.req.arity] = jw.req.ir
          /\ jw' = [jw EXCEPT !.pc = "storeNative"]
          /\ UNCHANGED <<live, stale>>
       \/ /\ cache[jw.req.arity] # jw.req.ir
          /\ MarkStale({jw.epoch})
          /\ jw' = IdleJw
    /\ UNCHANGED <<native, osrVars, jitReqs, code, declined, JwUnchanged>>

\* store_native_fn
JwStoreNative ==
    /\ jw.pc = "storeNative"
    /\ native' = [native EXCEPT ![jw.req.arity] = jw.epoch]
    /\ jw' = IdleJw
    /\ UNCHANGED <<osrVars, jitReqs, code, live, stale, declined, JwUnchanged>>

\* store_osr_fn, whatever the slot holds by now.
JwStoreOsr ==
    /\ jw.pc = "storeOsr"
    /\ osr' = [osr EXCEPT ![<<jw.req.arity, jw.req.header>>] = "ready"]
    /\ osrEpoch' = [osrEpoch EXCEPT ![<<jw.req.arity, jw.req.header>>] = jw.epoch]
    /\ jw' = IdleJw
    /\ UNCHANGED <<native, jitReqs, code, live, stale, declined, JwUnchanged>>

-----------------------------------------------------------------------------
\* The tail of a collection by isolate i (run_stw_reclaim): reclaim_at_stw,
\* then sweep_idle.  Only the threads of i are parked.

CollectUnchanged == <<defnVars, relower, banned, lowerReqs, lw, jitReqs, jw, code, pinned,
                      declined, homeVars, boundVars>>

\* live_epochs
ScanFrames(i) ==
    /\ CanRun(i)
    /\ op' = [op EXCEPT ![i] = Stage("free", {}, LiveFrames)]
    /\ UNCHANGED <<cache, lowerQ, compileQ, native, osrVars, live, stale, freed,
                   CollectUnchanged>>

\* Mutants: frames, or escaped closures, do not protect a module.
SelectIgnoresFrames(held) == stale \ pinned
SelectIgnoresPins(held) == stale \ held

SelectReclaimable(held) == stale \ (held \cup pinned)

FreeModules(i) ==
    /\ op[i].pc = "free"
    /\ freed' = freed \cup SelectReclaimable(op[i].held)
    /\ stale' = stale \ SelectReclaimable(op[i].held)
    /\ op' = [op EXCEPT ![i] = Stage("sweep", {}, {})]
    /\ UNCHANGED <<cache, lowerQ, compileQ, native, osrVars, live, CollectUnchanged>>

\* sweep_idle: the entries idle for too long, except the JIT's fallbacks.
Evictable == {a \in Arities : IsIr(cache[a]) /\ native[a] = 0 /\ a \notin compileQ}

SweepIdle(i) ==
    /\ op[i].pc = "sweep"
    /\ \E S \in SUBSET Evictable :
         /\ cache' = [a \in Arities |-> IF a \in S THEN Absent ELSE cache[a]]
         /\ op' = [op EXCEPT ![i] = Stage("evict", S, {})]
    /\ UNCHANGED <<lowerQ, compileQ, native, osrVars, live, stale, freed, CollectUnchanged>>

\* evict_entry_if_cold and stale_osr_code for the evicted arities.
EvictEntries(i) ==
    /\ op[i].pc = "evict"
    /\ LET S == op[i].todo
           cold == {a \in S : native[a] = 0 /\ a \notin compileQ} IN
         /\ TakeNative(cold)
         /\ TakeOsr(S)
         /\ MarkStale(OsrEpochs(S))
    /\ op' = [op EXCEPT ![i] = IdleOp]
    /\ UNCHANGED <<cache, freed, CollectUnchanged>>

-----------------------------------------------------------------------------
Dispatch ==
    \/ \E a \in Arities : \/ RequestLower(a) \/ PinUnsupported(a) \/ Tier1Call(a)
                          \/ NativeCall(a) \/ Redefine(a)
    \/ \E h \in Headers : OsrRequest(h) \/ OsrEnter(h)
    \/ MarkLowerQueued \/ Return \/ EnterNative \/ EnterDeopt \/ PinEpoch
    \/ \E v \in WarmVersions : CalleeWarm(v)

RebindStep(i) ==
    \/ Rebind(i) \/ DropRegistration(i) \/ DrainDependents(i) \/ MarkRelower(i)
    \/ \E a \in Arities : InvalidateIr(i, a)
    \/ StaleNativeCode(i)

LowerWorker ==
    \/ LwTake \/ LwClear \/ LwSnapshot \/ LwUnsupported \/ LwPanics \/ LwStore
    \/ LwPeek \/ LwRegister

JitWorker == JwCompile \/ JwDecline \/ JwGuard \/ JwStoreNative \/ JwStoreOsr

Collection(i) == ScanFrames(i) \/ FreeModules(i) \/ SweepIdle(i) \/ EvictEntries(i)

Next ==
    \/ Dispatch
    \/ \E i \in Isolates : RebindStep(i) \/ Collection(i)
    \/ LowerWorker
    \/ JitWorker

Spec == Init /\ [][Next]_vars

-----------------------------------------------------------------------------
\* Every table holds what its readers expect; in particular each module is in
\* exactly one of live, stale and freed (CacheState).
TypeOK ==
    /\ ver \in Nat /\ asked \subseteq WarmVersions
    /\ reg \subseteq 0..ver /\ Cardinality(reg) <= 1
    /\ {dependents, relower, lowerQ, compileQ, banned, declined} \subseteq SUBSET Arities
    /\ \A a \in Arities : IsIr(cache[a]) => cache[a].inl \subseteq 0..ver
    /\ \A a \in Arities : native[a] \in {0} \cup DOMAIN code
    /\ \A l \in Arities \X Headers :
         /\ osr[l] \in {"none", "queued", "ready", "failed"}
         /\ osrEpoch[l] \in DOMAIN code <=> osr[l] = "ready"
    /\ Len(lowerReqs) <= LowerQueueCap /\ Len(jitReqs) <= JitQueueCap
    /\ lw.attempts <= MaxAttempts
    /\ fetched \in {0} \cup DOMAIN code
    /\ Len(stack) <= MaxDepth + 1
    /\ live \cup stale \cup freed = DOMAIN code
    /\ live \cap stale = {} /\ (live \cup stale) \cap freed = {}
    /\ pinned \subseteq DOMAIN code

\* Memory that was released is never reached again: no frame runs in it, Home is
\* not about to enter it, no table leads to it and no closure points into it.
NoFreedCode ==
    freed \cap (LiveFrames \cup {fetched} \cup pinned
                  \cup NativeEpochs(Arities) \cup OsrEpochs(Arities)) = {}

\* The code a table leads to, or that the JIT worker is about to publish, was not
\* handed to reclamation: unpublishing always comes with, or before, mark_stale.
PublishedIsLive ==
    NativeEpochs(Arities) \cup OsrEpochs(Arities) \cup ({jw.epoch} \ {0}) \subseteq live

\* IR with the body of the callee in it can always be found by the next rebind:
\* it has a dependent edge or a relower mark, or a rebind or the lowering worker
\* is about to drop it.
EdgeCovers ==
    \A a \in Arities : IsIr(cache[a]) /\ cache[a].inl # {} =>
        a \in dependents \cup relower \cup UNION {op[i].todo : i \in Isolates}

\* Nothing is under way: no rebind, no collection, no request.
Quiet ==
    /\ \A i \in Isolates : op[i].pc = "idle"
    /\ fetched = 0
    /\ lw.pc = "idle" /\ lowerReqs = <<>>
    /\ jw.pc = "idle" /\ jitReqs = <<>>

\* Once the workers have caught up, no cached IR contains a dead definition of
\* the callee, but for one that was registered only after the last rebind of
\* Home had dropped the registration: register_defn does not look at the var.
NoStaleIr ==
    Quiet => \A a \in Arities : IsIr(cache[a]) => cache[a].inl \subseteq {ver} \cup late

\* An arity marked for lowering again can ask for it: the flag that suppresses
\* requests is not left set once the workers are idle.
MarkIsActionable ==
    Quiet => relower \cap lowerQ = {}

-----------------------------------------------------------------------------
(* Documented behaviour that this model of the code does not have in general; *)
(* the README gives the executions.                                           *)

\* Once the workers have caught up, no published native code contains a dead
\* definition of the callee ...
NoStaleNative ==
    Quiet => \A e \in NativeEpochs(Arities) : code[e].inl \subseteq {ver}

\* ... and for published OSR entries.
NoStaleOsr ==
    Quiet => \A e \in OsrEpochs(Arities) : code[e].inl \subseteq {ver}

\* A call that begins after a redefinition returned runs the new definition,
\* whatever the workers were doing meanwhile.
NoStaleDispatch ==
    \A k \in DOMAIN stack :
        LET f == stack[k]
            inl == IF f.epoch = 0 THEN f.ir.inl ELSE code[f.epoch].inl
        IN  inl \subseteq {f.at}

\* An arity flagged as queued for compilation was compiled, or its compile failed,
\* once the workers are idle: it is not kept at Tier 1 by a request nobody has.
QueuedIsServed ==
    Quiet => \A a \in compileQ : native[a] # 0 \/ a \in declined
=============================================================================
