# A TLA+ model of clojurust

clojurust is an implementation of Clojure in Rust: a reader, a tree-walking
interpreter, an IR interpreter and a JIT, persistent collections, a garbage
collector, a single-threaded asynchronous runtime with channels, futures and
agents, isolates (OS threads with heaps of their own), and services around them
(nREPL, pods, a datalog store, transaction sandboxes).  This directory holds TLA+
models of the parts whose correctness depends on the order in which tasks, threads,
callbacks and passes run, or on two implementations of one language agreeing, the
TLC configurations that check them and the TLAPS proofs of what matters most.

Paths below are relative to `src/`.  `PROJECT.json` maps every definition to the
lines it translates.

    cd tla
    tlc -workers 2 -config channel.cfg MCCljChannel
    tlapm CljChannelProofs.tla


## 1. Inventory

### How the parts interact

A program runs in an *isolate*: one OS thread, one heap, one Tokio
`current_thread` runtime with a `LocalSet`.  Values are `!Send`, so channels,
futures, promises, agents and delays belong to one thread.  Tasks of that thread
interleave only at `await`; but a synchronous call (`deref`, `<!!`, a drain of an
agent) keeps the thread until it returns, and user code runs inside it.  What is
kept per thread (root stacks of the collector, gas meters, dynamic bindings, the
region stack) is shared by all tasks of the thread.

What crosses threads is copied (`isolate-call`, isolate channels), promoted
(shared atoms) or part of the process-wide execution tables: the IR cache, the
defn registry, the JIT table, the OSR table and the code cache are shared by all
isolates and by two worker threads, one that lowers function bodies to IR and one
that compiles IR to machine code.  `Var::bind` calls hooks into these tables; the
garbage collector calls hooks that unload code and evict IR.

A function is run by the tree-walker at first, by the IR interpreter once it was
lowered, by machine code once it is hot; the three must agree.

### Components

| Component | State | Operations | What is hard | What makes it correct |
|---|---|---|---|---|
| Channels (`cljrs-async/channel.rs`) | queue, closed, count of takes, two `Notify`, two condvars | `take!`, `put!`, `poll!`, `offer!`, `close!`, `<!!`, `>!!` | wake-ups passed from task to task; the two phases of a rendezvous put; blocking calls on the executor thread | FIFO without loss; `true` means delivered, `false` means never; every waiter ends after `close!` |
| Async builtins (`builtins.rs`, `core_async.cljrs`) | taps of a mult, counter of merge | `mult`, `tap!`, `merge`, `onto-chan!`, `alts`, `timeout` | a tap added late or never read | every value reaches every tap; outputs are closed |
| Futures (`types.rs`, `eval_async.rs`, `builtins.rs`) | state, claimable body, wakers | `future`, `await`, `deref`, `@`, `future-cancel` | executor task against stealing deref; late results after cancel | the body runs once; all readers agree; awaits end |
| Agents (`types.rs`, `runtime.rs`, `builtins.rs`) | state, error, mailbox, drain flag, wakers | `send`, `await`, `await-agent`, `restart-agent` | sends by an action, suspended actions, failure in the middle of the mailbox | order of actions; no lost update; a failed agent stops |
| Delay, lazy seq, atom (`types.rs`) | one cell each | `force`, `realize`, `swap!`, `reset!` | user code that reaches its own cell, or throws | forced once; an update is lost only to the swap! around it |
| Shared atoms (`shared.rs`, `interp/apply.rs`) | one swappable cell | `swap!`, `reset!`, `compare-and-set!` | user code between load and store | no lost update |
| Isolates (`isolate*.rs`, `worker_pool.rs`) | command queue, reply slots, handle | `isolate-call`, `isolate-close!`, `isolate-put!`, `isolate-take!` | worker death, close with calls queued, two takers | every call is answered, with its own arguments |
| Tiering (`cljrs-eval`, `cljrs-jit`) | IR cache, registry and dependents, JIT and OSR tables, code cache, two bounded queues | dispatch, lowering, compile, publish, deoptimise, OSR, rebind, reclaim, evict | three kinds of threads over tables that are locked one at a time | no call runs a dead definition; released code is never reached; a trigger is not lost |
| Tree-walker, lowering, IR interpreter, machine code (`cljrs-interp`, `cljrs-ir`, `cljrs-eval`, `cljrs-compiler`) | environments; blocks, registers and phis; types of registers | evaluate, lower, infer, emit | contexts nested in contexts: recur under try under let | one program has one meaning |
| Collection functions (`cljrs-builtins`, `rt_abi.rs`) | none between calls | `seq`, `conj`, `into`, ... | compiled code keeps other representations, seen only by a later call | one value interpreted and compiled |
| Region pass (`optimize.rs`, `ir_interp.rs`, `region.rs`) | region stack, watermark | open, allocate, publish, close, unwind | values that outlive a path or a loop | nothing is used after its region was freed |
| Garbage collector (`cljrs-gc`, `gc_roots.rs`) | heap list, root stacks, regions, pressure | alloc, safepoint, collect, region enter/leave, publish | stacks shared by suspended tasks, values escaping a region | reachable values survive |
| Loader, namespaces, dynamics (`cljrs-env`) | loaded set, binding frames, gas | `require`, `binding`, gas charge | tasks under the frames of another form | meters and bindings belong to the code that runs |
| Datalog store (`cljrs-datalog-store`) | three indexes, schema, counters, attribute tables | `transact`, `set_attr`, `search`, `count` | failure in the middle of a transaction against the tables | indexes agree; one aid per attribute; transactions are atomic |
| Transactions (`cljrs-tx`) | budget of memory, gas, depth | run | limits at their boundary, panics of the allocator | nothing leaks from a failed run |
| nREPL (`cljrs-nrepl`) | sessions, job queue, pending flags | clone, eval, interrupt, close | interrupt against completion | each request is answered `done` once |
| Pods (`cljrsh-pods`) | child process, reply queue | invoke, shutdown | a child that dies | an invoke gets its own answer |
| Versioned code, deps (`cljrs-vcs`, `cljrs-deps`) | file system, git | resolve, fetch | I/O | - |
| Reader, numbers, tries, stdlib | none between calls | pure functions | data | reference definitions |
| Hosts, CLI, LSP, wasm, Qt, I/O | - | wiring and I/O | - | - |

Every component, with its source files, is in `PROJECT.json` under `components`,
and the hazards, each at its line, under `hazards`.


## 2. Modules

| Module | What it is |
|---|---|
| `Notify` | the `tokio::sync::Notify` the channel uses (external): a FIFO of waiters and one stored permit |
| `AbstractChannel` | what a channel promises: a bounded FIFO that can be closed, where a put is told afterwards what became of its value |
| `CljChannel` | `channel.rs` with the builtins over one channel; refines `AbstractChannel` |
| `OneShot` | a cell assigned once, on whose value all readers agree |
| `CljxFuture` | one future with a claimable body; refines `OneShot` except under cancellation with an executor |
| `Agent` | one agent, its mailbox, its asynchronous and its synchronous drainer, both kinds of await |
| `Tiering` | dispatch, IR cache, registry, lowering and JIT workers, rebinds, unloading |
| `Values`, `TreeWalker` | the run-time values and their builtins; the tree-walking evaluator of one small language |
| `IrCode`, `Lowering` | the intermediate representation and what makes it well formed; the ANF lowering that produces it |
| `IrInterp`, `Native`, `TierAgreement` | the IR interpreter; type inference and machine code; what an interpreted call has in common with the tree-walker |
| `Collections` | the collection functions as the interpreter and as compiled code run them |
| `RegionScopes` | the region pass with its dominators, and the execution of its output |
| `GcHeap` | the collector, its root stacks, regions and the publish barrier under interleaved tasks |
| `DatomSet`, `DatalogStore` | a set of datoms changed atomically, and the store that refines it |
| `IsolateCalls`, `IsolateChannel`, `SharedAtom` | worker isolates, the channel between isolates, the shared atom |
| `Refs` | atoms, delays and lazy seqs with re-entrant user code |
| `MultRelay`, `MergeRelay` | the relay tasks of mult and merge, over channels as `AbstractChannel` promises them |
| `NRepl`, `Pods` | the nREPL server, the pod client |
| `Scopes`, `TxSandbox` | gas meters and dynamic bindings across tasks; the transaction sandbox |
| `Services` | the last ten side by side: a behaviour is about one of them |
| `MC*` | the instances for TLC (symmetry, sets of model values, programs, graphs) |
| `*Proofs` | theorems and proofs |

### CljChannel

`queue`, `closed` and `taken` are the fields of `ChannelState`; `notEmpty` and
`notFull` the two `Notify`; `token` what a rendezvous `put` remembers of `taken`.
`pc` says whether a task was not polled yet, will be polled, is parked or is done.
One action is one poll: what the code does from where it is resumed to its next
await, with all the notifications it sends.  `holder` is a `<!!` or `>!!` that
keeps the executor thread: while it is set no task is polled.  `sent`, `received`
and `withdrawn` are history.  Each producer sends its own name, so that values are
distinct.

Left out: `taken` is a `u64` in the code and unbounded here (a rendezvous would
need 2^64 takes between two polls to see it wrap); putting nil; the tracing of the
queue by the collector; the millisecond polls of the condition variables, which
only repeat a check that nobody can have changed.

### CljxFuture

`state`, `thunk` and `wakers` are fields of the struct; `task` and `inner` follow
the task `future-call` spawns.  Callers are split by the code path they take:
`Awaiters` (`await_value`), `Derefs` (the builtin), `AtDerefs` (the `@` form of the
synchronous evaluator, which settles differently), `TimedDerefs`, `SyncAwaits`,
`Cancellers`.  `HasExecutor = FALSE` is an embedding that installed no runtime,
where the body waits for the first deref.  User code is one step that may cancel
the future while it runs.  A body that dereferences its own future is left out.

### Agent

The state of the agent is the sequence of actions applied to it, which makes order
and lost updates visible.  Taking an action from the mailbox and finishing it are
two steps; between them come sends by the action and, if it is asynchronous, by
other tasks.  A watch is user code that may throw after the state was set.  Left
out: what watches are told, an asynchronous action reached by
the synchronous drain (it stores the future as the state), and an action that
awaits its own agent, which never ends in the code either.

### Tiering

The functions of `Arities` call one other defn, the *callee*, whose body a lowering
clones into them.  IR and machine code are abstracted to the version of the callee
they contain; that is what tells a current artefact from a dead one.  `lw` and `jw`
are the two worker threads, with one step per lock they take; `op[i]` is what
isolate `i` is in the middle of (a rebind, a collection, a lowering request).
`Home` is the isolate that calls the functions; the others only rebind and collect,
which is enough, since the tables are shared by the process.  `stack` holds Home's
IR and native frames, `fetched` a code pointer Home has read and not entered yet.

Abstractions: call counts and the age of IR entries are a choice (a call may or may
not cross a threshold, an entry may or may not have outlived its TTL); code
generation succeeds or declines; the two stores of `store_native_fn` are one step,
and so are the two calls a rebind makes per dependent in `stale_native_code`;
functions have one arity.  Eager lowering at definition and prebuilt bundles, which
fill the cache before any of this starts, are left out.

### Values, TreeWalker, Lowering, IrCode, IrInterp, Native

One language of forms (constants, locals, `let`, `if`, `loop`, `recur`, `fn`,
`letfn`, arities, destructuring, `try`, `binding`, `with-out-str`, `throw`, calls of
arithmetic, comparison and printing functions) is given four times: evaluated as
`eval.rs` and `special.rs` do, lowered as `anf.rs` does with its context of
blocks, scopes and loop headers, run as `ir_interp.rs` runs blocks, and run as
machine code with the register types that `typeinfer.rs` assigns, raw longs where it
says Long.  The behaviours are those of the IR interpreter, block by block; the
tree-walker and machine code are recursive operators of the same state.  `NativeGas`
bounds the latter, which after an error may loop until gas ends it.

What a builtin refuses (a wrong type, a wrong number of arguments) is an exception in the
tree-walker: `apply_value` turns every error of a native function into a throw of an error
value (`value_error_to_eval_error`, here `ErrorValue`), so a `catch` gets it.  In the IR
interpreter it is a runtime error of the activation; the wrapper of `alloc_closure` makes
it a throw when it leaves a closure (`Leave`, `AsThrown`), and since the body of a `try` is
always a closure, an IR `catch` gets it too.  The texts of errors are left out.  What
remains is the kind of an error that leaves the outermost activation uncaught, thrown in
one tier and runtime in the other: `SameOutcome` compares what a `catch` around the call
would bind, and the kind as well where no builtin has failed.  `failed` counts those
failures, `raised` the throws.

`IrInterp` knows lowering only as a constant, `Compiled`, and assumes that what it gives
is well formed (`CompiledAssumption`, `WellFormed` of `IrCode`): instructions and
terminators read registers of their own function, closures name functions that exist,
every edge has one entry in every phi of the block it leads to, block 0 has no phi, and
only a block with a throw ends in nothing.  TLC evaluates the assumption on the 5010
programs of the run, with `Lowering` as the constant.  `frames` is the Rust call stack: an
activation per `interpret_ir`, and a frame per `try`, `with-bindings` and `with-out-str`
that is undone when the thunk above it returns or fails; `ctl` is what the top frame
hands over.

### Collections

A value is a kind and a payload.  A behaviour applies the same call to the
interpreted and to the compiled value of one chain.  Compiled code uses other
representations (the seq of a vector is the vector, the transient of a small map the
map), so what is compared is the Clojure value.  The arms that the bridges of
`rt_abi.rs` lack are a table, `Gap`; outside it the two agree (section 5).

### RegionScopes

`Analyse` is the start of `optimize_regions` (`dom` and `pdom`), `EmitRegion` one
allocation of its map, in any order, `WrapFunction` the region around a function that
returns a scalar; then `Goto` and `Raise` execute one block each, the entry first and
then a successor of `here` (`Comes`).  `Cfgs` is the set of flow graphs, `Throws` the
blocks that end in a throw.  `Structured` says what lowering makes of every function:
nothing leads back to the entry (a function body gets a header of its own), and every
edge leads forward or, a `recur`, to a block on every path to it, and paths that join are
the branches of one block.  The run assumes it of its graphs, one theorem of every graph.

`Places` is what escape analysis hands over: an allocation outside the throwing blocks, the
phi entries its value flows through (`flow`, edges into a join or a loop header, along
which the allocation or an earlier such phi is in scope), and its uses, below the
allocation or below one of these phis, with the block of every phi (`escape.rs:223-227`)
and of every `recur` that feeds a header (`:729-740`).  So a region may have to start in a
dominator above the allocation's block, the shape `tests/region_phi_uaf.rs` of `cljrs-eval`
builds by hand.  `val` is the state of the allocation's own variable and `phi` that of the
phis, both freed when their region closes; a use is checked against every variable in
scope.  An allocation with phis has one further use and no use through a call, one without
has two further uses, one of which may be through a call that returns it; `MaxPhis` bounds
the phi entries of a function.
`watermark` is `POISON_WATERMARK`; `published`, `crossed`, `dead` and `lost` are
history.

### GcHeap

A box has at most one child and one unit of size.  `stack` are the words of the running
native stack, `bound` the locals of a task's Env, `boxed` the values in its suspended
future, which nothing scans; `envRoots` and `allocRoots` are the two shadow stacks,
shared by the tasks.  `exposed` and `mispopped` are history: a collection ran over a
future whose values no root reached; an `EnvRootGuard` popped another task's entry.
`Scopes` bounds a behaviour to a kind of program.

### DatalogStore

`db` is what LMDB has committed, `work` the copy of the open transaction, `attrs` and
`names` the two tables in memory, which `intern_attr` fills in the middle of a
transaction and which a failure leaves as they are.  `damaged` is history: a
transaction began while a table held a name the schema has not.  A value is a long, a
reference, a giant string or one that cannot be encoded; keys are the values, which
keeps their order out of the model (a read is a filter over the index, not a range).

### Services

Ten components that share no state.  Isolate calls: the two vars a worker interns the
arguments in are state, so is a panic between any two steps.  The isolate channel
remembers the waker of its last empty poll.  The shared atom compares Arcs, not
values.  nREPL: two threads and the table of pending evals.  Pods: replies carry ids
nobody compares; a pod that answers out of turn is `loose`.  `Refs` is a stack of
operations in progress, with the updates each was nested in as history.  `Scopes` and
`TxSandbox` keep thread-local stacks and what pushes and pops them.


## 3. What is checked

Deadlock is checked where the system does not stop by itself.  A "violation" run
states what a comment or a document says and shows a behaviour of the code that
contradicts it; `findings` quotes the lines.  A run answers one question about a part
of the system, safety and liveness together where the instance allows it.

| Run | Instance | Shows |
|---|---|---|
| `channel` | a rendezvous channel and one of capacity 2; three put!, two take!, an offer!, a <!!, a >!! (and a poll!), closed at any moment; fair | answers are truthful, FIFO without loss, a current token owns the slot, a woken offer is settled; both channels refine `AbstractChannel`; as long as only asynchronous callers have come, a wake-up of the buffered channel is in flight whenever somebody could go on, and takers end after close |
| `fut_executor` | executor with two await, two deref, a timed deref, a synchronous await, fair; and, without executor, two deref, two @, a timed deref, two cancels | body runs once, gas cannot be caught, refines `OneShot`, an await ends unless a synchronous reader keeps the thread for good; a cancellation stands |
| `agent_executor` | executor, three actions, two (await agent), one await-agent, one restart; fair | order, no lost update, a non-empty mailbox has a drainer, an await sees the actions sent before it, a failed agent stops until await-agent is called, awaits end |
| `tier_lowering` | two arities (one that cannot be lowered), two isolates, two rebinds, one redefinition, every version warm, no JIT, `MaxAttempts` 3 as in the code | IR with an inlined body is always found by the next rebind; when the workers have caught up, no cached IR contains a dead definition but one registered after the last rebind had dropped the registration (`late`) |
| `tier_unload` | JIT, one isolate, one rebind, one redefinition, two modules, `MaxAttempts` 1 | released code is never reached, published code is never handed to reclamation, a relower mark can be acted upon |
| `tier_osr` | JIT, one isolate, one loop header, one redefinition, two modules | the same for OSR entries, with eviction |
| `datalog` | two attributes, two entities, a giant and an oversized value, four operations, two faults | the three indexes agree, every aid has one name, reads answer what a scan would; refines `DatomSet`; all but the first as long as no transaction began with a table left by a failed one |
| `gc` | three boxes, two tasks, the kinds of program of `MCScopes` | nothing reachable is freed but for the two named root defects, a loop releases its own entries only, backoff hides no pressure |
| `compiled_code` | two allocations in six flow graphs, two phi entries, six blocks executed; chains of three collection calls | dominators are right, a function returns with its regions closed, a published region is retired, a value outlives its uses but for four named cases; interpreted and compiled collection functions agree outside `Gap` |
| `services` | two workers and three calls; three takes; two isolates on a shared atom; three nREPL requests; a pod with three invokes; two atom operations nested up to three; two taps and two inputs; two tasks; two transactions | a call gets its own arguments and an answer, interrupts and invokes are honest, thunks run once, updates are lost only to an enclosing swap!, relays deliver and close, meters and bindings stay with their owner |
| `lowering` | 5010 programs: every pair of sub-forms in every context with two holes | tree-walker and IR agree on the value, on what a catch around the call binds, and on the output; machine code agrees where nothing is raised, and an uncaught exception still reaches the caller; phis have the edge they are entered by; the IR stops |
| `recur_swap` | violation: `(recur b a ...)` | the IR interpreter copies the phis of a loop header one after another and answers `[2 2]` for `[2 1]` |

Bounds.  Two takers and three putters are the least that let one task overtake another
that was woken, with a third left to be forgotten.  `MaxAttempts` is 3 in the code; it
is 1 in `tier_unload` so that giving up happens within one rebind.  In `tier_lowering`
every version of the callee may become warm and be registered, late registrations included;
IR frames and compile flags are left to the other two runs (`MaxDepth` 0).  The
runs on unloading have one isolate, because with two `NoFreedCode` fails (section 5).
`MaxDepth` bounds the call stack, `MaxEpochs` the number of compiled modules: two
modules and one frame are enough for code to be replaced while the older one is
running, held or pinned.  In `gc` a behaviour is not continued (`Assumed`) once one of
the two root defects has happened, since `NoDangling` says nothing from there; three boxes
make a chain from a root through a published box to a region.  The six graphs of
`compiled_code` are what structured lowering makes of one or two forms; two allocations
are enough to cross, a loop that tests after its header is enough for a scope to end in
it and for a use to come after its end.  Two phi entries let both branches of an `if`
carry one value, two values meet in one join, or a value go round a loop.  Three calls are enough for one to build a representation, one to
transform it and one to look at it.  Four operations of the store are a declaration, two
transactions and what a failed one left.  The instances of the theorems below are all
sets, so the bounds matter only for what has no theorem.

### Fairness

A `LocalSet` polls a task that was woken, so each take!, put!, await and drainer is
weakly fair: once ready it stays ready until it is polled.  A synchronous deref
that can go on does so: it is the running thread.  `InnerEnds` says that user code,
once started, ends; without it nothing about futures could hold.  The worker of an
isolate, the interpreter thread of nREPL and the relay tasks are threads or tasks whose
loop goes on while there is something to do; consumers of a relay are assumed to
read, without which no bounded channel ever makes room.  The IR interpreter is one
thread (`Terminates`).  No fairness is assumed of callers that have not called yet, of
`close!`, of `future-cancel`, of `restart-agent`, of panics and faults.  The order in
which ready tasks are polled is left open, which is weaker than Tokio's queue.


## 4. What is proved

Eight modules of theorems are checked by TLAPS, for every value of the constants that
satisfies the assumptions named in the modules: sizes and bounds are naturals, sets of
callers are disjoint, `None` is none of the names, boxes and the blocks of a flow graph
are finitely many and edges lead to blocks, IR is well formed.  `PROJECT.json` lists the theorems; those
with a `property` state for all instances what a run checks on one.

**Channel** (`CljChannelProofs`).  None of the safety properties is inductive alone.
That a rendezvous put may withdraw the head of the queue after `close!` is safe only
because the head is its own value, and this needs the token to say so:
`TokenMarksOffer` ties `token = taken` to the value in the slot, which in turn needs
`Ledger` (`received`, then `queue`, then `withdrawn` is what was sent), `SentOnce`
(nobody sends twice) and `Answers` (what a finished call returned agrees with where its
value went).  `WaitersParked` keeps the lists of `Notify` and the program counters in
step.  `IndInv` is the conjunction; `ChannelInvariant` proves it inductive with one
step per action, and the named properties follow.  `WokenOffersAreSettled` needs one fact about steps
(`OfferStep`): takes are counted upwards, closing is for good, and a putter with an
offer is woken only by a step that counts a take or closes; no notification meant for
a putter waiting for room reaches it.  `ClosedForGood` is an action property, `ChannelRefinement` the step simulation of
`AbstractChannel`.

**Future** (`CljxFutureProofs`).  `OneOwner` (the body is unclaimed, or with the
executor task, or with the stealing call, or has ended) is what makes `BodyRunsOnce`
inductive; `NoMissedWake` needs that whoever parks is registered.  `FutureRefinement`
maps `state` and `result` to the cell and its reads, where there is no canceller or no
executor; the other case is the defect `CancelledForGood` shows (section 5).

**Agent** (`AgentProofs`).  `InOrder`, `NoLostUpdate`, `QueueIsServed` and `Stopped` are
inductive together: the state an action was given is still the state when it returns
because the drain flag admits one drainer and, since `restart-agent` needs a failed
agent and a failed agent has no drainer, nobody else writes the state meanwhile.  The
last point fails once `await-agent` drains a failed agent, so `NoLostUpdate`, `Stopped`
and the action property of `AgentFailStop` speak of the time before it is called
(`NoAwaitAgent`); `InOrder` and `QueueIsServed` hold throughout.

**Tiering** (`TieringProofs`).  `EdgeCovers` is not inductive, because a relower mark
covers nothing once the worker has looked at it: `EdgeInv` says that IR with an inlined
body has its edge, or a rebind's hook still has to drop it (`Doomed`), or the worker is
about to see the mark (`Caught`), and that IR about to be stored has its edge, its mark
or a hook on the way to mark it.  `StaleInv` is the same for IR that holds a dead
definition, with `Rebinding` for the time between the rebind and the draining of the
edges; the registration itself holds one only until the hook drops it.  `late` is history:
the versions that were registered dead after the last rebind of Home had dropped the
registration, forgotten at the next rebind, whose hook then drops them with the rest.  `MarkInv` ties a mark to a request, to the worker that will clear it, or to a
hook; `PublishInv` says a module is reachable from one table entry, of its own arity,
or from the JIT worker; `HomeInv` that what Home runs, holds or pins has not been
released, for which Home must stand still from the scan of its frames to the release.
`EdgesCover`, `CacheIsCurrent` and `PublishedCodeIsLive` hold for any number of isolates
and whichever versions become warm; `FreedCodeIsUnreachable` and `MarksAreActionable` assume
that there is one isolate: section 5 has the behaviours this hypothesis excludes, and those
`late` sets aside.

**Store** (`DatalogStoreProofs`).  `StoreTyped` holds whatever the tables say: keys are
well formed, giants are stored once, and `ave` and `vae` are transposes of `eav`, in the
committed databases and in the open transaction.  `SchemaInv` holds until a transaction
begins with tables that are not the schema: every aid has one schema record which the
tables know, and a name left by a failed transaction has an aid past every committed
one, so that no committed datom can be read under it.  From both follow `StoreIsSound`,
that every pattern search and count answers what a scan would (`SearchAgrees`, with the
choice of the index case by case), and, step by step, that a transaction is one step of
`DatomSet` and everything else a stutter (`TransactIsAtomic`).

**Collector** (`GcHeapProofs`).  `LoopInv`: the boxes a task allocated and has not
released are registered, and those of all others lie below the mark of an iteration that
will truncate; from it, `InFlightIsRooted`.  `PressureInv`: while suppressed, the
threshold is within the maximal headroom of the last collection.  `NothingDangles`
needs four parts.  `BoxInv`: a box is on the heap or in a region, and nothing leads to
a box that was never allocated.  `EnvInv`: as long as every pop took the popper's own
entry, the Env of every task that runs or waits is registered.  `FenceInv`: from outside
the running code no path leads into a region that will be freed; this is what the
publish barrier is for, and without it nothing is known when a region closes.
`DangleInv` is the property.  `Mark` and `Reach` repeat a step as often as there are
boxes; that they are closed by then is proved from cardinalities: a set that still grew
in step n has n elements.

**Regions** (`CompiledCodeProofs`, first part).  `DominatorsAreFound`: for every flow graph
`dom_iterate` gives exactly the dominators and post-dominators of the blocks the entry
reaches.  The proof runs `dom_iterate` beside a search that avoids one block d: after n
rounds of each, d has been dropped for exactly the blocks the search has come to
(`RoundsAgree`), in both directions; backwards from the exits the search may leave the
reachable blocks, but a reachable block has all its successors among them.
`PublishedAreRetired`: published regions lie below the watermark (`Below`), through
starts, ends and publications; of the frames dropped by an error it holds when there was
one region at most, which is why `crossed` covers the others.

`RegionsStaySafe`: on the graphs of `Structured` all of `RegionsAreSafe` holds.  First, a
function that returns has closed every region it opened (`BalanceInv`).  The stack names
regions, and `RegionEnd` pops whichever is innermost, so the argument counts.  For each
region r there is a set of blocks at whose end r may be open (`Sound`): r is opened into it, every edge out of it leads to a block
that closes r, r is not opened again inside it, and no block of it returns.  The
invariant is that no more regions are open after a block than may be there.  For the
scope of an allocation that set is the part of the path from start to end that does not
reach an exit without the end (`ScopeStays`).  It takes that whatever leaves the start comes
to the end (`StartLeads`): either the start is the block of the allocation or of a use, and
then the end post-dominates it, or it lies above them all, and then it is the block where
the branches part that one of the phis joins, and the end post-dominates the join
(`JoinsMeet`, from the third part of `Structured`).  With no back edge in the scope every
edge climbs in the order of `Structured`, so the start is not met twice.  The first theorem
gives what the tables of the pass mean.  Second, the start dominates the allocation and
every phi (`Covers`), so where a variable that carries the value is in scope the region is
open or the execution has been at the end since it was at the start (`Past`; `OpenInv` for
the stack, `FreedInv` for the allocation's variable and the phis), as long as regions close
innermost first.  From a use on the path the end is still to come (`UsesLead`), so a use
that follows the end makes the end follow itself without the start: `EndsInLoop`.  The proof showed that an earlier form of the exceptions, scopes
that end in a loop header, was too narrow: it held in the graphs of the run at that
time, and not in a loop that tests after its header.

**IR interpreter** (`CompiledCodeProofs`, second part).  `PhisAlwaysHaveEdges` and `GuardsUnwind` are about
any programs whose code is well formed; the run has 5010.  `PhisHaveEdges` is not
inductive: that the block on top was entered along an edge must hold again when a caller
is resumed, so it must hold of every frame (`Entered`), and a frame is made from a closure
found through a value that has been through registers, vectors, maps, argument lists,
cells and dynamic bindings.  The invariant `IrSound` therefore quantifies over the values:
there is a set V that holds every value in a register, a cell, a binding, a capture of a
closure or an outcome, the error value, and the parts of all its members, and a set C of the heap addresses
that are cells; a value that names a closure or a cell finds one there (`ValuesOK`,
`HeapOK`).  V only grows, by the values an instruction makes of those there are (`Grow`).
On it rest the frames (`StackOK`): the function and the block exist, every register of the
function holds a value, no throw stands before the place reached (`Reached`, which makes
the dead end behind a throw unreachable), a caller that is not on top stands at the call it
waits for, and a guard stands on an activation.  `GuardsHold` counts: one binding and one
capture per guard frame, whatever calls, throws and errors push and pop, and so none when
one frame is left.  There is one lemma per action over the lemmas on what a call
(`Invokes`), a resumed caller (`Resumes`) and an allocation do.  That lowering produces
well-formed code is not proved: `Lowering` is recursive, and TLC evaluates it.

**Services** (`ServicesProofs`).  Each component has an inductive invariant of its own,
kept by its steps and left alone by the others'; `ServicesInv` is their conjunction.
`SharedInv`: whoever read the Arc in the cell read its value.  `CallsInv`: a call is in
one queue once, a worker has one call in hand, whose arguments its vars hold.
`RecvInv`: a take that waits alone is scheduled, or will be woken and there is nothing
for it.  `NreplInv`: as long as no key was reused too early, the entry of an eval that is
queued or in hand is in the table under its own key.  `AnswerInv`: between the calls of
a pod no message is on its way, during a call only its own; `OrphanInv`: a host that
runs lists the pods it has loaded.  `ForcedInv`: a cell that is neither pending nor
answered is one whose thunk runs now, or threw.  `NestInv`: while the function of a
swap! runs, the atom has gained only updates made inside it.  `ScopeInv`: the meters are
those of the form and of the polled task, and there are as many bindings as binding
frames.  `TxInv`: counters agree with the frames, guards are down outside.

The library's induction theorems take a predicate as a parameter and cannot be used
with these provers; where an iteration is reasoned about, induction is drawn from the
least element of a set of numbers (`LeastNumber`, `AllNumbers`).

Only model-checked: everything about liveness (`BufferedProgress`, `AwaitersResolve`,
`AgentServes`, `EveryCallIsAnswered`, `RelaysDeliver`, `Terminates`), since temporal
reasoning under fairness is out of the prover's reach; the two refinements stated on a
second instance inside an MC module (`BufferedIsChannel`, `PlainIsOneShot`, whose
modules have the theorem for every capacity and every embedding); what recursive
operators compute (`NativeAgrees`, `BridgesAgree`, and of `TiersAgree` the outcome, value
and output; its last part, that nothing is left pushed, is `GuardsUnwind`), since modules
with RECURSIVE operators lose the SMT backend.


## 5. Documented behaviour the code does not have

While modelling, more disagreements between the code and its comments were met than
have a run.  The properties named here are stated in the modules; TLC refutes each on
the instance given.

### Concurrency

| Property | Instance | What the code does |
|---|---|---|
| `RendezvousMeets` (`CljChannel`) | fair; capacity 0, two take!, two put! | putters claiming the slot and putters waiting for their handoff share `async_not_full` (`channel.rs:315`, `:324`); the take wakes the one it served, and the other putter stays parked beside a free slot and a taker |
| `DequeueWakesPutter` (`CljChannel`) | fair; capacity 1, two put!, one <!! | `take_blocking` signals only the condition variable (`channel.rs:188-192`), although `async_not_full` is "fired when an item is dequeued" (`:78`) |
| `BlockingCallReturns` (`CljChannel`) | fair; capacity 1, one put!, one <!! | the wait loop (`channel.rs:199`) never yields to the executor, although the README of `cljrs-async` calls <!! "non-deadlocking when called from the LocalSet executor thread" |
| close of a full channel | capacity 1, three put! | `close!` (`channel.rs:111`) wakes one parked put!, which does not pass it on (`:326-333`) |
| deref of a started body | executor, one await, one deref | a `deref` on the executor thread of a body the executor has started never returns (`cljrs-builtins/src/builtins.rs:6837`), against README.md:391 of `cljrs-async` |
| `CancelledForGood` (`CljxFuture`) | executor, one await, one cancel | `settle_future` (`eval_async.rs:74`) writes the outcome over Cancelled; `is_cancelled` is documented "True if explicitly cancelled." (`types.rs:1270`) |
| `GasIsNeverCaught` (`CljxFuture`) | no executor, one deref, one @ | `@` maps every error of a stolen body to Failed (`eval.rs:149`), although `GasExhausted` is "Kept distinct from a thrown value" (`types.rs:1187`) |
| `SyncAwaitReturns` (`CljxFuture`) | fair; executor, one deref, one synchronous await | `eval_await` only waits, where `deref`, to which it is "equivalent" (`special.rs:2830`), runs an unstarted body |
| `PendingStayQueued` (`Agent`) | executor, two actions, one await-agent | `await-agent` looks at the drain flag and the queue only (`cljrs-builtins/src/builtins.rs:9259`) and drains a failed agent, whose "pending actions stay queued until `restart-agent`" (`types.rs:1344`) |
| `IdleWhileFailed` (`Agent`) | executor, two actions, one await | `is_idle` is "also true while failed" (`types.rs:1385`); a failed agent keeps its queue |
| `NoStaleDispatch` (`Tiering`) | one isolate, one rebind, no JIT | the worker publishes IR before it looks at the relower mark (`lower_worker.rs:153-158`), and dispatch runs marked IR (`apply.rs:90-99`): a call after the redefinition returned runs the old body |
| `NoStaleNative` (`Tiering`) | one isolate, one rebind, one module | guard (`jit_worker.rs:130-140`) and publication (`:150`) are separate steps; a rebind between them finds nothing to unpublish |
| `NoStaleOsr` (`Tiering`) | the same with a loop header | OSR results have no guard (`jit_worker.rs:179-193`) |
| `NoStaleIr` (`Tiering`) | one isolate, every version warm, without `late` | a registration requested before a rebind arrives after it (`lower_worker.rs:209`, `defn_registry.rs:151-154`) and dependents inline the dead body until the next rebind; the property of the run sets these versions aside, by name |
| `NoFreedCode` (`Tiering`) | two isolates, one redefinition | a collection in one isolate releases code another is running (`code_cache.rs:133-139`, `gc_roots.rs:25-26`) |
| `QueuedIsServed` (`Tiering`) | one isolate, one header, queue of one | "keep running at Tier 1 until the queue drains" (`cljrs-jit/src/lib.rs:67`): the flag of a dropped request is never reset |
| `MarkIsActionable` (`Tiering`) | two isolates, one rebind, no JIT | `lower_queued` is set after the request was accepted (`apply.rs:227-236`); a rebind elsewhere that completes in between leaves a marked arity that never asks |
| `SuspendedTasksAreRooted` (`GcHeap`) | two tasks | `EnvRootGuard` pops the last entry, whosever it is, and the end of a form truncates the values of suspended tasks; arguments of a task not polled yet are in no root |
| `NoUseAfterFree` (`RegionScopes`) | two allocations, the loop graphs, without the exceptions `EndsInLoop`, `UsedAround` and `crossed` | a scope that starts before a loop and ends in it is closed at every iteration, and one whose end post-dominates a use only around a loop is closed before it (`optimize.rs:3-4` against `:397-405`: the back edges looked at are those between blocks of the path and the uses); scopes emitted in map order can cross, against the assertion of `rt_abi.rs:913-919`; an error drops the regions of a frame oldest first |

A remark on scopes: a `RegionEnd` at a post-dominator that can be reached around the
start block pops another region.  Structured lowering gives an inner `if` its own join
block, which is why no graph of the run shows it other than as `crossed`.

In the services: the isolate channel keeps one waker, so of two waiting takes one can
be forgotten; an nREPL key used again before its eval ended hides the first from
interrupts, and evals without session or id cannot be interrupted; a pod's reply is
taken for the current invoke whatever id it has, and a pod whose code var failed is
unknown to `shutdown_all`; a delay whose body threw answers nil afterwards
(`types.rs:1046-1059`); compiled `swap!` skips validator and watches and turns an exception
to nil (`rt_abi.rs:3147`), interpreted `swap!` does not retry, `compare-and-set!` skips
validator and watches; merge of no inputs never closes its output, a tap added after the
relay ended is never closed; a future's body runs under the bindings and meters of
whoever steals it; a gas limit of a form is charged for tasks of older forms
(`cljrsh/src/exec.rs:226-228`); a panic in a transaction leaves eval contexts of a freed
environment (`apply.rs:176-178`); a failed store transaction leaves its attributes in
the tables.

### Tree-walker, IR and machine code

`recur_swap` is the run; `Lowering` and `IrInterp` reproduce these too, and the programs
of `lowering` leave them out: a `finally` in the IR swallows its own exception; an IR
catch ignores the class and later clauses; locals
that shadow core names are ignored by `lower_call`; `def` in a lowered function defines
nothing; the name of a named fn that is already a local refers to the outer one, and one
that is also a parameter wins over it; `recur` inside `try` targets the header of the try
closure; ratio and big literals lose precision; an empty rest argument is a list, not nil; a
thrown non-exception is raw in the IR and wrapped in the tree-walker; a sibling of `letfn`
as a value is a var cell; `identical?` at Tier 1 is always false; `/` on longs truncates and
overflow is an error where the builtin promotes; `:or` defaults are lazy; `mod` is `rem`.
Programs in which a builtin fails are in the run: the error, where nothing catches it, leaves
a lowered function as a runtime error and the tree-walker as an exception, with another text.
In machine code a throw only sets a thread-local and the code goes on after the call, so
that output follows an exception; type and arity errors (`rt_add`, `rt_abi.rs:345`)
and unresolved globals are nil, so `NativeAgrees` says nothing of a program in which a builtin
fails but that the code returns with nothing left pushed;
an exception of a catch or finally stays pending; `recur` moves phis in parallel, unlike Tier 1.

### Collections

`Gap` lists, per function, the arms compiled code lacks: `get` on a set, string or
transient; `count` of strings (bytes) and transients; `cons` onto a map, set or string;
`rest` of a cons with nil tail; `seq` of an empty lazy seq ("or nil if empty",
`rt_abi.rs:2913`); `assoc` on nil or a vector; `conj` on nil, map, cons, lazy; `nth` on cons
and lazy; fused `into`/`count` of a filter by a set that holds nil or false
("observationally identical", `optimize.rs`); `mapcat` of a map; transients of array
maps.  On the interpreter's side, `empty?` of `(cons nil ...)` is true
(`builtins.rs:3659`) and `concat` drops sets (`:4841-4925`).


## 6. Plan

Done: channels, futures, agents, tiering, reference cells, relays, shared atoms,
isolates, nREPL, pods, dynamics, transactions, the store, the collector, regions,
collection functions, lowering, IR interpreter and machine code.  Next:

1. The loader: `require` with failures in the middle, cyclic loads.
2. `alts`, `timeout` and `onto-chan!` over abstract channels.
3. More arms of `Collections` (sorted collections, `reduce`, `sort`).


## 7. What is not modelled

The reader, the numeric tower, the tries behind the collections, the wasm back end, the
AOT driver, the remaining pure builtins and the standard library are sequential functions
of data, better served by tests against a reference.  Networking, processes, logging,
encodings, versioned dependencies, the command line, the language server and the
embedding front ends are input and output or wiring.  The instruction-by-instruction
async evaluator is represented by one step that yields, returns or throws; promises are
the cell of `OneShot` without a body.
