---------------------------- MODULE RegionScopes ----------------------------
(***************************************************************************)
(* The region pass of the IR optimizer (cljrs-ir, lower/optimize.rs) and the *)
(* interpreter that executes its output (cljrs-eval, ir_interp.rs; regions   *)
(* close as in cljrs-gc, region.rs).                                         *)
(*                                                                          *)
(* For each allocation that escape analysis calls NoEscape, in the order of  *)
(* a hash map, the pass opens a region at the head of the block that         *)
(* dominates the allocation and all its uses and closes it at the end of the *)
(* block that post-dominates them, unless the blocks between hold a back     *)
(* edge or a throw.  A use may be a phi's, in the block where the paths join, *)
(* and then the region starts in a block above the allocation's own.         *)
(* RegionEnd names its region; the interpreter pops the innermost.           *)
(*                                                                          *)
(* A function is given by its control-flow graph, the block of each          *)
(* allocation, the phi entries its value flows through, the blocks its uses   *)
(* are in, and the blocks that use it as the result of a call that returns its *)
(* argument.                                                                  *)
(***************************************************************************)
EXTENDS Integers, Sequences, SequencesExt, FiniteSets

CONSTANTS
    Cfgs,       \* graphs: block -> its successors; 0 is the entry
    Throws,     \* the blocks of a graph that end in a throw
    Allocs,     \* AllocVector, AllocMap, ... instructions that do not escape
    Fn,         \* the region of the whole function body
    MaxSteps,   \* bound on the blocks executed
    MaxPhis     \* bound on the phi entries the allocations flow through

ASSUME RegionAssumption ==
    /\ MaxSteps \in Nat /\ MaxPhis \in Nat /\ Fn \notin Allocs
    /\ IsFiniteSet(Allocs)
    /\ \A c \in Cfgs : /\ IsFiniteSet(DOMAIN c) /\ 0 \in DOMAIN c
                       /\ c \in [DOMAIN c -> SUBSET DOMAIN c]

\* t is on every path to b: some Z has all that is reached without t, and not b.
OnEveryPath(c, t, b) ==
    \E Z \in SUBSET DOMAIN c : /\ 0 \in Z \cup {t} /\ t \notin Z /\ b \notin Z
                               /\ \A x \in Z : c[x] \subseteq Z \cup {t}

\* s is the last block before j on every path to it; and whatever leaves s comes
\* to j, unless it throws or goes back.
Splits(c, s, j) ==
    /\ s # j /\ OnEveryPath(c, s, j)
    /\ \A d \in DOMAIN c \ {j} : OnEveryPath(c, d, j) => OnEveryPath(c, d, s)
Meets(c, s, j) ==
    \E Z \in SUBSET DOMAIN c :
        s \in Z /\ \A x \in Z : /\ c[x] = {} => x \in Throws[c]
                                /\ \A t \in c[x] : t \in Z \cup {j} \/ OnEveryPath(c, t, x)

\* What lowering makes: nothing leads back to the entry; with an order of the
\* blocks every edge leads forward or, a recur, to a block on every path to its
\* source; and where paths join, they are the branches of one block.
Structured(c) ==
    /\ \A b \in DOMAIN c : 0 \notin c[b]
    /\ \E rank \in [DOMAIN c -> 0..Cardinality(DOMAIN c)] :
           \A b \in DOMAIN c : \A t \in c[b] : rank[b] < rank[t] \/ OnEveryPath(c, t, b)
    /\ \A j, p, q \in DOMAIN c : p # q /\ j \in c[p] \cap c[q] =>
           \A s \in DOMAIN c : Splits(c, s, j) => Meets(c, s, j)

VARIABLES
    succ, throws,         \* the function
    dom, pdom,            \* its dominators and post-dominators
    at, uses, aliases,    \* its allocations
    flow,                 \* the phi entries that carry each: edges <<p, j>>
    todo,                 \* allocations the pass has not visited
    scoped,               \* allocations rewritten to RegionAlloc
    starts, ends,         \* RegionStart and RegionEnd instructions by block
    pc,                   \* "analyse", "optimize", "run", "at", "done", "raised"
    here,                 \* the block executed last
    steps,                \* bounded by MaxSteps
    stack,                \* the open regions, oldest first
    watermark,            \* POISON_WATERMARK
    val, phi,             \* "none", "heap", "region", "freed": the value of each
                          \* allocation's variable and of each phi that carries it
    published,            \* history: regions open when an opaque value was published
    crossed,              \* history: a region was not closed innermost first
    dead,                 \* history: values used after their region was freed
    lost                  \* history: published regions that were freed

funVars == <<succ, throws, dom, pdom, at, uses, aliases, flow>>
codeVars == <<todo, scoped, starts, ends>>
vars == <<funVars, codeVars, pc, here, steps, stack, watermark, val, phi, published, crossed, dead, lost>>

Blocks == DOMAIN succ
preds == [b \in Blocks |-> {p \in Blocks : b \in succ[p]}]
Exits == {b \in Blocks : succ[b] = {}}

-----------------------------------------------------------------------------
(* Dominators *)

\* reverse_postorder visits what the entry reaches.
Closure(S, next) ==
    LET R[n \in 0..Cardinality(Blocks)] ==
            IF n = 0 THEN S ELSE LET r == R[n - 1] IN r \cup UNION {next[b] : b \in r}
    IN  R[Cardinality(Blocks)]
Reachable == Closure({0}, succ)

\* dom_iterate: from everything down to the fixed point; one round at a time.
DomIterate(roots, pred) ==
    LET all == Reachable
        Meet(d, b) ==
            LET ps == pred[b] \cap all
            IN  IF b \in roots \/ ps = {} THEN d[b]
                ELSE {b} \cup {x \in all : \A p \in ps : x \in d[p]}
        Round[n \in 0..Cardinality(Blocks)] ==
            IF n = 0
            THEN [b \in all |-> IF b \in roots THEN {b} ELSE all]
            ELSE LET d == Round[n - 1] IN [b \in all |-> Meet(d, b)]
    IN  Round[Cardinality(Blocks)]

Dominators == DomIterate({0}, preds)
PostDominatorsForward == DomIterate(Exits, preds)
PostDominators == DomIterate(Exits, succ)

\* lca_of_many: the common ancestor with the most ancestors.
Deepest(doms, S) == CHOOSE x \in S : \A y \in S : Cardinality(doms[y]) <= Cardinality(doms[x])
Common(doms, S) == {x \in DOMAIN doms : \A b \in S : x \in doms[b]}

\* blocks_on_path: from start, not past end.
BlocksOnPath(start, end) == Closure({start}, [succ EXCEPT ![end] = {}])
HasBackEdge(S, doms) == \E b \in S : \E s \in succ[b] \cap S : s \in doms[b]

\* collect_use_blocks: the uses, through phis too, but not the uses of the
\* result of a call that returns the value.
CollectDirect(a) == {b \in uses[a] : at[a] \in dom[b]}
CollectUseBlocks(a) == uses[a]

-----------------------------------------------------------------------------
(* The pass *)

\* What escape analysis hands over: an allocation outside the throwing blocks;
\* the phi entries its value flows through, each along an edge from a block that
\* the allocation or such a phi dominates (recur_target_phis too); the blocks of
\* its uses, below one of these, with the block of each phi and of each recur; and
\* a use of the result of a call that returns it.
Under(ds, b) == {c \in DOMAIN ds : b \in ds[c]}
Jumps == UNION {{<<b, c>> : c \in succ[b]} : b \in Blocks}
Carries(ds, b, F) ==
    \A f \in F : f[1] \in Under(ds, b) \cup UNION {Under(ds, g[2]) : g \in {h \in F : h[1] \in Under(ds, b)}}
PhiUses(ds, F) == {f[2] : f \in F} \cup {f[1] : f \in {g \in F : g[2] \in ds[g[1]]}}

Place(ds, b, F, U, T) == [block |-> b, flow |-> F, uses |-> U \cup PhiUses(ds, F), through |-> T]
Direct(ds, b) ==
    LET pairs == Under(ds, b) \X Under(ds, b)
    IN  {Place(ds, b, {}, {w[1], w[2]}, {}) : w \in pairs} \cup {Place(ds, b, {}, {w[1]}, {w[2]}) : w \in pairs}
ByPhi(ds, b, F) == {Place(ds, b, F, {c}, {}) : c \in Under(ds, b) \cup UNION {Under(ds, f[2]) : f \in F}}
Flows(ds, b) == {F \in {{f, g} : f, g \in Jumps} : Carries(ds, b, F)}
Places(ds) ==
    UNION {Direct(ds, b) \cup UNION {ByPhi(ds, b, F) : F \in Flows(ds, b)} : b \in DOMAIN ds \ throws}

Init ==
    /\ succ \in Cfgs /\ throws = Throws[succ]
    /\ dom = <<>> /\ pdom = <<>>
    /\ at = <<>> /\ uses = <<>> /\ aliases = <<>> /\ flow = <<>>
    /\ todo = Allocs /\ scoped = {}
    /\ starts = [b \in Blocks |-> <<>>] /\ ends = [b \in Blocks |-> <<>>]
    /\ pc = "analyse" /\ here = 0 /\ steps = 0
    /\ stack = <<>> /\ watermark = 0 /\ val = [a \in Allocs |-> "none"]
    /\ phi = [a \in Allocs |-> [b \in Blocks |-> "none"]]
    /\ published = {} /\ crossed = FALSE /\ dead = {} /\ lost = {}

\* optimize_regions: the analyses, once for the function.
Analyse ==
    /\ pc = "analyse" /\ pc' = "optimize"
    /\ dom' = Dominators /\ pdom' = PostDominators
    /\ \E p \in [Allocs -> Places(dom')] :
            /\ at' = [a \in Allocs |-> p[a].block]
            /\ uses' = [a \in Allocs |-> p[a].uses]
            /\ aliases' = [a \in Allocs |-> p[a].through]
            /\ flow' = [a \in Allocs |-> p[a].flow]
            /\ Cardinality(UNION {{a} \X p[a].flow : a \in Allocs}) <= MaxPhis
    /\ UNCHANGED <<succ, throws, codeVars, here, steps, stack, watermark, val, phi, published, crossed, dead, lost>>

\* The scope emit_region_for_alloc finds: start and end blocks, if any.
Scope(a) ==
    LET relevant == CollectUseBlocks(a) \cup {at[a]}
        below == Common(dom, relevant)
        above == Common(pdom, relevant)
    IN  IF below = {} \/ above = {} THEN {}
        ELSE LET s == Deepest(dom, below)
                 e == Deepest(pdom, above)
                 region == BlocksOnPath(s, e)
             IN  IF \/ s \notin dom[at[a]]
                    \/ HasBackEdge(region \cup relevant, dom)
                    \/ region \cap throws # {}
                 THEN {} ELSE {<<s, e>>}

\* RegionStart at the head of the block, RegionEnd before its terminator.
Insert(r, s, E) ==
    /\ starts' = [starts EXCEPT ![s] = <<r>> \o @]
    /\ ends' = [b \in Blocks |-> IF b \in E THEN Append(ends[b], r) ELSE ends[b]]

\* One allocation of optimize_regions; the map gives no order.
EmitRegion(a) ==
    /\ pc = "optimize" /\ a \in todo
    /\ todo' = todo \ {a}
    /\ IF Scope(a) = {} THEN UNCHANGED <<scoped, starts, ends>>
       ELSE \E w \in Scope(a) : Insert(a, w[1], {w[2]}) /\ scoped' = scoped \cup {a}
    /\ UNCHANGED <<funVars, pc, here, steps, stack, watermark, val, phi, published, crossed, dead, lost>>

\* Mutant: only a Return of the entry block is given a RegionEnd.
WrapEntryOnly(scalar) ==
    /\ pc = "optimize" /\ todo = {}
    /\ IF scalar THEN Insert(Fn, 0, Exits \cap {0}) ELSE UNCHANGED <<starts, ends>>
    /\ pc' = "run"
    /\ UNCHANGED <<funVars, todo, scoped, here, steps, stack, watermark, val, phi, published, crossed, dead, lost>>

\* wrap_scalar_returning: a region around the body when it returns a scalar.
WrapFunction(scalar) ==
    /\ pc = "optimize" /\ todo = {}
    /\ IF scalar THEN Insert(Fn, 0, Exits \ throws) ELSE UNCHANGED <<starts, ends>>
    /\ pc' = "run"
    /\ UNCHANGED <<funVars, todo, scoped, here, steps, stack, watermark, val, phi, published, crossed, dead, lost>>

-----------------------------------------------------------------------------
(* Execution *)

\* RegionStart; the region of an earlier iteration is another one.
Opened(b) == stack \o starts[b]

\* The allocations and uses of a block: a RegionAlloc finds its region by name.
Held(b, opened, v) ==
    [a \in Allocs |-> IF at[a] # b THEN v[a]
                      ELSE IF a \notin scoped THEN "heap"
                      ELSE IF a \in Range(opened) THEN "region" ELSE "freed"]

\* The phis at the head of a block, entered from the block before: a phi holds
\* what its entry for that edge names, the allocation's variable or another phi.
Joins(a) == {f[2] : f \in flow[a]}
Named(a, p) ==
    IF at[a] \in dom[p] THEN val[a] ELSE phi[a][Deepest(dom, Joins(a) \cap dom[p])]
Joined(b) ==
    [a \in Allocs |-> IF b \notin Joins(a) THEN phi[a]
                      ELSE [phi[a] EXCEPT ![b] = IF <<here, b>> \in flow[a] THEN Named(a, here) ELSE "none"]]

\* The allocations used in a block, by any variable in scope, after they were freed.
DeadIn(b, v, f) ==
    {a \in Allocs : \/ b \in uses[a] \cup aliases[a] \cup {at[a]} /\ at[a] \in dom[b] /\ v[a] = "freed"
                    \/ b \in uses[a] /\ \E j \in Joins(a) \cap dom[b] : f[a][j] = "freed"}

\* close_region at a depth: retired when poisoned, else its values are freed.
Close(x) == IF x = "region" THEN "freed" ELSE x
Freed(v, closed) == [a \in Allocs |-> IF a \in closed THEN Close(v[a]) ELSE v[a]]
FreedPhis(f, closed) ==
    [a \in Allocs |-> IF a \in closed THEN [b \in Blocks |-> Close(f[a][b])] ELSE f[a]]
Least(m, n) == IF m < n THEN m ELSE n

\* RegionEnd pops the innermost region of the frame, if any, whatever it names.
Popped(opened, n) == [i \in 1..n |-> opened[Len(opened) - i + 1]]
DoomedAlways(opened, keep, w) == {opened[i] : i \in (keep + 1)..Len(opened)}
Doomed(opened, keep, w) == {opened[i] : i \in {j \in (keep + 1)..Len(opened) : j > w}}

\* One block: starts, body (which may publish an opaque value), ends.
ExecBlock(b, poison) ==
    LET opened == Opened(b)
        n == Least(Len(ends[b]), Len(opened))
        keep == Len(opened) - n
        w == IF poison THEN Len(opened) ELSE watermark
        pub == (published \ Range(starts[b])) \cup IF poison THEN Range(opened) ELSE {}
        joined == Joined(b)
        held == Held(b, opened, val)
        doomed == Doomed(opened, keep, w)
    IN  /\ steps < MaxSteps /\ steps' = steps + 1
        /\ crossed' = (crossed \/ Popped(opened, n) # ends[b])
        /\ dead' = dead \cup DeadIn(b, held, joined)
        /\ lost' = lost \cup (pub \cap doomed)
        /\ stack' = SubSeq(opened, 1, keep)
        /\ watermark' = Least(w, keep)
        /\ val' = Freed(held, doomed) /\ phi' = FreedPhis(joined, doomed)
        /\ published' = pub
        /\ pc' = (IF succ[b] = {} THEN "done" ELSE "at") /\ here' = b
        /\ UNCHANGED <<funVars, codeVars>>

\* The entry block first, then a successor of the block before.
Comes(b) == (pc = "run" /\ b = 0) \/ (pc = "at" /\ b \in succ[here])
Goto(b, poison) == Comes(b) /\ b \notin throws /\ ExecBlock(b, poison)

\* An error leaves the block after some of it: the frame drops its Vec of
\* regions, oldest first, each closing at the depth of the moment.
UnwindFreed(opened, w) == {opened[i] : i \in {j \in 1..Len(opened) : Len(opened) - j + 1 > w}}
Raise(b, poison) ==
    LET opened == Opened(b)
        w == IF poison THEN Len(opened) ELSE watermark
        pub == (published \ Range(starts[b])) \cup IF poison THEN Range(opened) ELSE {}
        joined == Joined(b)
        held == Held(b, opened, val)
        freed == UnwindFreed(opened, w)
    IN  /\ Comes(b) /\ steps < MaxSteps /\ steps' = steps + 1
        /\ dead' = dead \cup DeadIn(b, held, joined)
        /\ crossed' = (crossed \/ Len(opened) > 1)
        /\ lost' = lost \cup (pub \cap freed)
        /\ val' = Freed(held, freed) /\ phi' = FreedPhis(joined, freed)
        /\ stack' = <<>> /\ watermark' = 0 /\ published' = pub /\ pc' = "raised"
        /\ UNCHANGED <<funVars, codeVars, here>>

Next ==
    \/ Analyse
    \/ \E a \in Allocs : EmitRegion(a)
    \/ \E s \in BOOLEAN : WrapFunction(s)
    \/ \E b \in Blocks, p \in BOOLEAN : Goto(b, p) \/ Raise(b, p)

Spec == Init /\ [][Next]_vars

-----------------------------------------------------------------------------
(* Properties *)

\* The iteration finds the dominators: d is one of b exactly when no path from
\* the entry avoids d; and post-dominators likewise towards the exits.
DominatorsCorrect ==
    LET Avoiding(d) == Closure({0} \ {d}, [b \in Blocks |-> succ[b] \ {d}])
        ToExit(d) == Closure(Exits \ {d}, [b \in Blocks |-> preds[b] \ {d}])
    IN  pc = "analyse" =>
        LET ds == Dominators
            ps == PostDominators
        IN  \A b, d \in Reachable :
            /\ (d \in ds[b]) <=> (b = d \/ b \notin Avoiding(d))
            /\ (d \in ps[b]) <=> (b = d \/ b \notin ToExit(d))

\* The end e of a scope comes again before its start s does, and a use of the
\* value is on no path from s to e: seen from sets that have, with a block, all
\* that follows it.
ComesAgain(s, e) ==
    \A Z \in SUBSET Blocks : (\A b \in Z \cup {e} : succ[b] \ {s} \subseteq Z) => e \in Z
OffPath(s, e, u) ==
    \E Z \in SUBSET Blocks : s \in Z /\ u \notin Z /\ \A b \in Z \ {e} : succ[b] \subseteq Z

\* A scope that starts before a loop and ends in it; and one whose end
\* post-dominates a use only around a loop.
Scopes(a) == {w \in Blocks \X Blocks : a \in Range(starts[w[1]]) /\ a \in Range(ends[w[2]])}
EndsInLoop(a) == \E w \in Scopes(a) : ComesAgain(w[1], w[2])
UsedAround(a) ==
    \E w \in Scopes(a) : \E u \in uses[a] \cup {at[a]} : w[2] \in pdom[u] /\ OffPath(w[1], w[2], u)

\* A value is allocated in and used from a region that is still open, whatever
\* path is taken, once four kinds of scope are set aside: regions that were not
\* closed innermost first, values used through a call that returns them, scopes
\* that end in a loop they start before, and uses the end meets around a loop.
NoUseAfterFree == \A a \in dead : crossed \/ aliases[a] # {} \/ EndsInLoop(a) \/ UsedAround(a)

\* A function that returns has closed every region it opened, exactly once.
ReturnsBalanced == pc = "done" => stack = <<>>

\* A region open when an opaque value was published is retired, never freed.
PublishedIsRetired == ~crossed => lost = {}

\* A region is there for every use of its values and gone when the function
\* returns, or retired if its values may have got out.
RegionsAreSafe == NoUseAfterFree /\ ReturnsBalanced /\ PublishedIsRetired
=============================================================================
