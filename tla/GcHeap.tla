------------------------------- MODULE GcHeap -------------------------------
(***************************************************************************)
(* The garbage collector of one isolate: GcHeap (cljrs-gc, lib.rs), the      *)
(* shadow stacks its roots come from (cljrs-env, gc_roots.rs), bump regions  *)
(* and the publish barrier (region.rs, publish.rs), and the asynchronous     *)
(* evaluator whose tasks share these stacks (cljrs-async, eval_async.rs).    *)
(*                                                                          *)
(* A heap, its stacks and its tasks belong to one thread, so a collection    *)
(* runs alone.  It marks from the global cells, the Envs on ENV_ROOTS, the   *)
(* objects on ALLOC_ROOTS, the children of region objects and the words of   *)
(* the running stack.  A suspended task's locals are in its boxed future,    *)
(* which nothing scans.  An unmarked object survives one collection.         *)
(*                                                                          *)
(* An object has at most one child.  Its size is one unit; Baseline units    *)
(* belong to the program and are never collected.                           *)
(***************************************************************************)
EXTENDS Integers, Sequences, SequencesExt, FiniteSets

CONSTANTS
    Objs,           \* boxes that may be allocated in a behaviour
    Tasks,          \* calls of async functions
    Main,           \* the evaluator of top-level forms
    None,
    Baseline,       \* memory in use before the behaviour starts
    SoftLimit,      \* GcConfig::soft_limit
    Scopes          \* the bounds a behaviour may have: on its boxes, tasks,
                    \* top-level forms, collections and nested regions, and
                    \* which of loops and cells it uses

ASSUME GcAssumption ==
    /\ {Baseline, SoftLimit} \subseteq Nat /\ IsFiniteSet(Objs)
    /\ Scopes \subseteq [boxes : Nat, tasks : Nat, forms : Nat, collections : Nat, depth : Nat, uses : SUBSET {"loops", "cells"}]
    /\ Main \notin Tasks /\ None \notin Tasks \cup {Main} \cup Objs

VARIABLES
    heap,        \* GcHeap's list: box -> lives
    kids,        \* the boxes a box points to
    opaque,      \* boxes the publish scan cannot look into (closures)
    gone,        \* boxes whose memory was freed
    regions,     \* REGION_STACK: the boxes of each active region
    retired,     \* RETIRED_REGIONS
    watermark,   \* POISON_WATERMARK
    cell,        \* what a program-lifetime cell (a var, an atom) holds
    st,          \* "none", "spawned", "running", "parked", "done"
    bound,       \* the boxes bound in a task's Env
    boxed,       \* the boxes in the locals of a task's future
    stack,       \* the boxes on the running thread's stack
    cur,         \* the running actor, or None
    envRoots, allocRoots,   \* ENV_ROOTS, ALLOC_ROOTS
    frame,       \* AllocRootGuard of the top-level form: saved_len, or -1
    loop,        \* eval_loop_async: its watermark (-1: none) and yielded
    mem, requested, suppressed, threshold, headroom,   \* pressure
    scope, forms, collections,   \* the bounds of this behaviour, and what they bound
    exposed,     \* history: a collection ran while a future held an unmarked box
    mispopped,   \* history: an EnvRootGuard popped the entry of another task
    mine,        \* history: what an actor allocated and did not release itself
    afterGc      \* history: mem after the last collection

heapVars == <<heap, kids, opaque, gone>>
regionVars == <<regions, retired, watermark>>
taskVars == <<cell, st, bound, boxed, stack, cur>>
rootVars == <<envRoots, allocRoots, frame, loop, mine, mispopped>>
pressureVars == <<mem, requested, suppressed, threshold, headroom>>
boundVars == <<scope, forms, collections, exposed, afterGc>>
vars == <<heapVars, regionVars, taskVars, rootVars, pressureVars, boundVars>>

Actors == Tasks \cup {Main}
InRegions == (UNION Range(regions)) \cup retired
Used == DOMAIN heap \cup InRegions \cup gone
Fresh == IF Cardinality(Used) < scope.boxes THEN Objs \ Used ELSE {}
NoLoop == [at |-> -1, yielded |-> FALSE]

\* Everything a set of boxes leads to.
Step(S) == S \cup UNION {kids[o] : o \in S}
Reach(S) ==
    LET R[n \in 0..Cardinality(Objs)] == IF n = 0 THEN S ELSE Step(R[n - 1])
    IN  R[Cardinality(Objs)]

Init ==
    /\ heap = [o \in {} |-> 0] /\ kids = [o \in Objs |-> {}]
    /\ opaque = {} /\ gone = {}
    /\ regions = <<>> /\ retired = {} /\ watermark = 0
    /\ cell = {} /\ st = [t \in Actors |-> "none"] /\ cur = None
    /\ bound = [t \in Actors |-> {}] /\ boxed = [t \in Actors |-> {}] /\ stack = {}
    /\ envRoots = <<>> /\ allocRoots = <<>> /\ frame = -1
    /\ loop = [t \in Actors |-> NoLoop]
    /\ mine = [t \in Actors |-> {}]
    /\ mem = Baseline /\ requested = FALSE /\ suppressed = FALSE
    /\ threshold = 0 /\ headroom = 0
    /\ scope \in Scopes /\ forms = 0 /\ collections = 0
    /\ exposed = FALSE /\ mispopped = FALSE /\ afterGc = Baseline

-----------------------------------------------------------------------------
(* Allocation *)

\* Mutant: suppression is never lifted.
PressureSuppressed(m) ==
    /\ mem' = m
    /\ requested' = (requested \/ (m > SoftLimit /\ ~suppressed))
    /\ UNCHANGED <<suppressed, threshold, headroom>>

\* The pressure test of alloc, with m the memory in use after it.
Pressure(m) ==
    /\ mem' = m
    /\ requested' = (requested \/ (m > SoftLimit /\ (suppressed => m > threshold)))
    /\ suppressed' = (suppressed /\ ~(m > SoftLimit /\ m > threshold))
    /\ UNCHANGED <<threshold, headroom>>

\* GcHeap::alloc by actor t: linked, counted, registered on ALLOC_ROOTS.
NewBox(t, o, ks, op) ==
    /\ heap' = [p \in DOMAIN heap \cup {o} |-> IF p = o THEN 1 ELSE heap[p]]
    /\ kids' = [kids EXCEPT ![o] = ks]
    /\ opaque' = IF op THEN opaque \cup {o} ELSE opaque
    /\ allocRoots' = Append(allocRoots, o)
    /\ mine' = [mine EXCEPT ![t] = @ \cup {o}]
    /\ Pressure(mem + 1)

\* A value built from what the running code holds.
Alloc(o, ks, op) ==
    /\ cur # None /\ o \in Fresh /\ ks \subseteq stack /\ Cardinality(ks) <= 1
    /\ op => scope.depth > 0
    /\ NewBox(cur, o, ks, op)
    /\ stack' = stack \cup {o}
    /\ UNCHANGED <<gone, regionVars, cell, st, bound, boxed, cur, envRoots, frame, loop, mispopped, boundVars>>

\* RegionAlloc: bump-allocated in the innermost region, on no list and no stack.
RegionAlloc(o, ks, op) ==
    /\ cur # None /\ regions # <<>> /\ o \in Fresh
    /\ ks \subseteq stack /\ Cardinality(ks) <= 1
    /\ regions' = [regions EXCEPT ![Len(regions)] = @ \cup {o}]
    /\ kids' = [kids EXCEPT ![o] = ks]
    /\ opaque' = IF op THEN opaque \cup {o} ELSE opaque
    /\ stack' = stack \cup {o}
    /\ UNCHANGED <<heap, gone, retired, watermark, cell, st, bound, boxed, cur, rootVars, pressureVars, boundVars>>

-----------------------------------------------------------------------------
(* Regions and the publish barrier *)

RegionStart ==
    /\ cur # None /\ Len(regions) < scope.depth
    /\ regions' = Append(regions, {})
    /\ UNCHANGED <<heapVars, retired, watermark, taskVars, rootVars, pressureVars, boundVars>>

\* poison_active_regions
Poisoned == IF Len(regions) > watermark THEN Len(regions) ELSE watermark

\* close_region.  Escape analysis puts in a region only what the scope does
\* not return or bind: no Env leads to it, and what does on the stack is dead.
RegionEnd ==
    LET depth == Len(regions)
        boxes == regions[depth]
        poisoned == depth <= watermark
    IN  /\ cur # None /\ regions # <<>>
        /\ Reach(bound[cur] \cup boxed[cur]) \cap boxes = {}
        /\ stack' = {o \in stack : Reach({o}) \cap boxes = {}}
        /\ regions' = Front(regions)
        /\ watermark' = IF poisoned THEN depth - 1 ELSE watermark
        /\ retired' = IF poisoned THEN retired \cup boxes ELSE retired
        /\ gone' = IF poisoned THEN gone ELSE gone \cup boxes
        /\ UNCHANGED <<heap, kids, opaque, cell, st, bound, boxed, cur, rootVars, pressureVars, boundVars>>

\* scan: a closure is opaque wherever it lives, so is the region box of one;
\* a region box is dirty; children are looked into except through a closure.
Scan(o) ==
    LET seen == Reach({o})
    IN  CASE seen \cap opaque # {} -> "opaque"
          [] seen \cap InRegions # {} -> "dirty"
          [] OTHER -> "clean"

\* publish_value and the store: as it is outside a region, clean or opaque
\* (which poisons the regions), a heap copy of the whole graph when dirty.
StoreAsIs(o) ==
    /\ cell' = {o}
    /\ UNCHANGED <<heapVars, allocRoots, mine, pressureVars>>
StoreCopy(o) ==
    \E c \in Fresh : NewBox(cur, c, {}, FALSE) /\ cell' = {c} /\ UNCHANGED gone
PublishValue(o) ==
    IF regions = <<>> \/ Scan(o) = "clean"
    THEN StoreAsIs(o) /\ UNCHANGED watermark
    ELSE IF Scan(o) = "dirty"
    THEN StoreCopy(o) /\ UNCHANGED watermark
    ELSE StoreAsIs(o) /\ watermark' = Poisoned
Publish(o) ==
    /\ cur # None /\ "cells" \in scope.uses /\ o \in stack /\ cell # {o}
    /\ PublishValue(o)
    /\ UNCHANGED <<regions, retired, st, bound, boxed, stack, cur, envRoots, frame, loop, mispopped, boundVars>>

-----------------------------------------------------------------------------
(* What running code does with its values *)

\* A let: the Env binds the value.
Bind(o) ==
    /\ cur \in Tasks /\ o \in stack \ bound[cur]
    /\ bound' = [bound EXCEPT ![cur] = @ \cup {o}]
    /\ stack' = stack \ {o}
    /\ UNCHANGED <<heapVars, regionVars, cell, st, boxed, cur, rootVars, pressureVars, boundVars>>

\* pop_frame: the value of the let is on the stack.
PopFrame ==
    /\ cur \in Tasks /\ bound[cur] # {}
    /\ bound' = [bound EXCEPT ![cur] = {}]
    /\ UNCHANGED <<heapVars, regionVars, cell, st, boxed, stack, cur, rootVars, pressureVars, boundVars>>

\* A value evaluated before an await in the same literal or argument list:
\* it waits in the Vec of the future.
Stash(o) ==
    /\ cur \in Tasks /\ o \in stack \ boxed[cur]
    /\ boxed' = [boxed EXCEPT ![cur] = @ \cup {o}]
    /\ stack' = stack \ {o}
    /\ UNCHANGED <<heapVars, regionVars, cell, st, bound, cur, rootVars, pressureVars, boundVars>>

\* Reading a binding, the global cell or the future's Vec.
Load(o) ==
    /\ cur # None /\ o \in (bound[cur] \cup cell \cup boxed[cur]) \ stack
    /\ stack' = stack \cup {o}
    /\ boxed' = [boxed EXCEPT ![cur] = @ \ {o}]
    /\ UNCHANGED <<heapVars, regionVars, cell, st, bound, cur, rootVars, pressureVars, boundVars>>

\* The end of an expression: its values are dead.
Discard ==
    /\ cur # None /\ stack # {}
    /\ stack' = {}
    /\ UNCHANGED <<heapVars, regionVars, cell, st, bound, boxed, cur, rootVars, pressureVars, boundVars>>

-----------------------------------------------------------------------------
(* Tasks and forms *)

\* spawn_async_call: the arguments are captured by a future nobody has polled;
\* spawn_future poisons the active regions.
Spawn(t, args) ==
    /\ cur # None /\ t \in Tasks /\ st[t] = "none"
    /\ Cardinality({u \in Tasks : st[u] # "none"}) < scope.tasks
    /\ args \subseteq stack /\ Cardinality(args) <= 1
    /\ st' = [st EXCEPT ![t] = "spawned"]
    /\ boxed' = [boxed EXCEPT ![t] = args]
    /\ watermark' = Poisoned
    /\ UNCHANGED <<heapVars, regions, retired, cell, bound, stack, cur, rootVars, pressureVars, boundVars>>

\* The first poll of run_async_fn: the Env is pushed and binds the arguments.
FirstPoll(t) ==
    /\ cur = None /\ t \in Tasks /\ st[t] = "spawned"
    /\ st' = [st EXCEPT ![t] = "running"] /\ cur' = t
    /\ bound' = [bound EXCEPT ![t] = boxed[t]]
    /\ boxed' = [boxed EXCEPT ![t] = {}]
    /\ envRoots' = Append(envRoots, t)
    /\ UNCHANGED <<heapVars, regionVars, cell, stack, allocRoots, frame, loop, mine, mispopped, pressureVars, boundVars>>

\* await: what the stack held and the code still needs is in the future.
Await ==
    /\ cur # None /\ regions = <<>>
    /\ st' = [st EXCEPT ![cur] = "parked"]
    /\ loop' = [loop EXCEPT ![cur].yielded = (loop[cur].at # -1)]
    /\ stack' = {} /\ cur' = None
    /\ UNCHANGED <<heapVars, regionVars, cell, bound, boxed, envRoots, allocRoots, frame, mine, mispopped, pressureVars, boundVars>>

Resume(t) ==
    /\ cur = None /\ st[t] = "parked"
    /\ st' = [st EXCEPT ![t] = "running"] /\ cur' = t
    /\ UNCHANGED <<heapVars, regionVars, cell, bound, boxed, stack, rootVars, pressureVars, boundVars>>

\* run_async_fn returns: EnvRootGuard::drop pops the last entry, whosever it is.
PopEnv(t) ==
    /\ envRoots' = Front(envRoots)
    /\ mispopped' = (mispopped \/ Last(envRoots) # t)
Finish ==
    /\ cur \in Tasks /\ regions = <<>> /\ loop[cur].at = -1
    /\ PopEnv(cur)
    /\ st' = [st EXCEPT ![cur] = "done"] /\ cur' = None
    /\ bound' = [bound EXCEPT ![cur] = {}] /\ boxed' = [boxed EXCEPT ![cur] = {}]
    /\ stack' = {} /\ mine' = [mine EXCEPT ![cur] = {}]
    /\ UNCHANGED <<heapVars, regionVars, cell, allocRoots, frame, loop, pressureVars, boundVars>>

\* eval_str: one AllocRootGuard for each top-level form.
BeginForm ==
    /\ cur = None /\ st[Main] = "none" /\ forms < scope.forms
    /\ frame' = Len(allocRoots)
    /\ st' = [st EXCEPT ![Main] = "running"] /\ cur' = Main
    /\ forms' = forms + 1
    /\ UNCHANGED <<heapVars, regionVars, cell, bound, boxed, stack, envRoots, allocRoots, loop, mine, mispopped, pressureVars, scope, collections, exposed, afterGc>>

Truncate(n) == IF n < Len(allocRoots) THEN SubSeq(allocRoots, 1, n) ELSE allocRoots
EndForm ==
    /\ cur = Main /\ regions = <<>>
    /\ allocRoots' = Truncate(frame)
    /\ mine' = [t \in Actors |-> mine[t] \cap Range(allocRoots')]
    /\ frame' = -1
    /\ st' = [st EXCEPT ![Main] = "none"] /\ cur' = None
    /\ stack' = {}
    /\ UNCHANGED <<heapVars, regionVars, cell, bound, boxed, envRoots, loop, mispopped, pressureVars, boundVars>>

\* eval_loop_async: the watermark of an iteration ...
LoopStart ==
    /\ cur \in Tasks /\ "loops" \in scope.uses /\ loop[cur].at = -1
    /\ loop' = [loop EXCEPT ![cur] = [at |-> Len(allocRoots), yielded |-> FALSE]]
    /\ UNCHANGED <<heapVars, regionVars, taskVars, envRoots, allocRoots, frame, mine, mispopped, pressureVars, boundVars>>

\* Mutant: the back edge truncates although the body yielded.
BackEdgeAlways(l) == Truncate(l.at)

\* ... and its back edge, which releases the iteration's entries unless the
\* body yielded.
BackEdge(l) == IF l.yielded THEN allocRoots ELSE Truncate(l.at)
LoopEnd ==
    /\ cur \in Tasks /\ loop[cur].at # -1
    /\ allocRoots' = BackEdge(loop[cur])
    /\ mine' = [mine EXCEPT ![cur] = @ \cap Range(allocRoots')]
    /\ loop' = [loop EXCEPT ![cur] = NoLoop]
    /\ UNCHANGED <<heapVars, regionVars, taskVars, envRoots, frame, mispopped, pressureVars, boundVars>>

-----------------------------------------------------------------------------
(* Collection *)

\* The roots of async_gc_collect, and the Env gc_safepoint passes.
Roots ==
    cell \cup (UNION {bound[envRoots[i]] : i \in DOMAIN envRoots}) \cup Range(allocRoots)
    \cup stack \cup (IF cur = None THEN {} ELSE bound[cur])

\* A region box met by the mark is skipped; the children of the boxes of active
\* and retired regions are roots.
RegionChildren == UNION {kids[o] : o \in InRegions}
\* Mutant: the children of retired regions are not roots.
MarkForgetsRetired ==
    LET active == UNION Range(regions)
        R[n \in 0..Cardinality(Objs)] ==
            IF n = 0 THEN (Roots \cup UNION {kids[o] : o \in active}) \ InRegions
            ELSE Step(R[n - 1]) \ InRegions
    IN  R[Cardinality(Objs)]

Mark ==
    LET R[n \in 0..Cardinality(Objs)] ==
            IF n = 0 THEN (Roots \cup RegionChildren) \ InRegions
            ELSE Step(R[n - 1]) \ InRegions
    IN  R[Cardinality(Objs)]

\* The sweep: marked again, in grace, or freed.
Lives(marked, o) == IF o \in marked THEN 1 ELSE heap[o] - 1
Swept(marked) == {o \in DOMAIN heap : Lives(marked, o) < 0}

\* Exponential backoff after a collection that freed nothing.
BaseHeadroom == IF SoftLimit \div 10 > 1 THEN SoftLimit \div 10 ELSE 1
MaxHeadroom == IF SoftLimit \div 4 > BaseHeadroom THEN SoftLimit \div 4 ELSE BaseHeadroom
NextHeadroom ==
    IF headroom = 0 THEN BaseHeadroom
    ELSE IF 2 * headroom < MaxHeadroom THEN 2 * headroom ELSE MaxHeadroom

CollectInner ==
    LET marked == Mark
        dead == Swept(marked)
        post == mem - Cardinality(dead)
    IN  /\ collections < scope.collections /\ collections' = collections + 1
        /\ heap' = [o \in DOMAIN heap \ dead |-> Lives(marked, o)]
        /\ gone' = gone \cup dead
        /\ mem' = post /\ afterGc' = post
        /\ suppressed' = (dead = {})
        /\ headroom' = IF dead = {} THEN NextHeadroom ELSE 0
        /\ threshold' = IF dead = {} THEN post + NextHeadroom ELSE threshold
        /\ requested' = FALSE
        /\ exposed' = (exposed \/ ~ (UNION Range(boxed) \subseteq marked \cup InRegions))
        /\ UNCHANGED <<kids, opaque, regionVars, taskVars, rootVars, scope, forms>>

\* gc_safepoint, and async_gc_collect at a suspension or by the GC service.
Safepoint == requested /\ CollectInner

\* force_collect, from running code.
ForceCollect == cur # None /\ ~requested /\ CollectInner

Next ==
    \/ \E o \in Objs, op \in BOOLEAN : \E ks \in SUBSET stack :
           Alloc(o, ks, op) \/ RegionAlloc(o, ks, op)
    \/ RegionStart \/ RegionEnd
    \/ \E o \in Objs : Publish(o) \/ Bind(o) \/ Stash(o) \/ Load(o)
    \/ PopFrame \/ Discard
    \/ \E t \in Tasks, args \in SUBSET stack : Spawn(t, args)
    \/ \E t \in Actors : FirstPoll(t) \/ Resume(t)
    \/ Await \/ Finish \/ BeginForm \/ EndForm \/ LoopStart \/ LoopEnd
    \/ Safepoint \/ ForceCollect

Spec == Init /\ [][Next]_vars

-----------------------------------------------------------------------------
(* Properties *)

TypeOK ==
    /\ heap \in UNION {[S -> 0..1] : S \in SUBSET Objs}
    /\ kids \in [Objs -> SUBSET Objs] /\ opaque \subseteq Objs /\ gone \subseteq Objs
    /\ retired \subseteq Objs /\ cell \subseteq Objs /\ stack \subseteq Objs
    /\ cur \in Actors \cup {None}
    /\ \A i \in DOMAIN envRoots : envRoots[i] \in Tasks

InUse == cell \cup stack \cup UNION {bound[t] \cup boxed[t] : t \in Actors}

\* Unless a task's Env was popped by another or a collection ran over a future
\* whose locals no root reached, nothing the program can reach is ever freed:
\* not a box of a suspended task, and not region memory published to a cell.
NoDangling == ~exposed /\ ~mispopped => Reach(InUse) \cap gone = {}

\* A loop's back edge releases only what its own task allocated: a value waiting
\* in the future of another task keeps its entry until that task's own back edge
\* or the end of the form.
InFlightIsRooted == \A t \in Actors : boxed[t] \cap mine[t] \subseteq Range(allocRoots)

\* Backoff never lets the heap grow unnoticed: over the soft limit with no
\* collection pending, it has grown by at most a quarter of the limit since the last.
PressureIsServed ==
    mem > SoftLimit /\ ~requested => mem <= afterGc + MaxHeadroom

\* gc_roots.rs: the thread's root stacks describe all that suspended tasks hold.
SuspendedTasksAreRooted ==
    \A t \in Actors : st[t] = "parked" =>
        bound[t] \cup boxed[t] \subseteq Mark \cup InRegions
=============================================================================
