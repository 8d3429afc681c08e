---------------------------- MODULE IsolateCalls ----------------------------
(***************************************************************************)
(* Worker isolates (cljrs-async: isolate.rs, isolate_call.rs).                *)
(*                                                                          *)
(* A worker is a thread with its own heap that serves commands one at a time: *)
(* a symbol and copied arguments, interned into two fixed vars of the worker  *)
(* and applied; the reply goes back over a channel of its own.  A worker may   *)
(* panic in the middle of a command.                                          *)
(***************************************************************************)
EXTENDS Integers, Sequences, SequencesExt

CONSTANTS
    Calls,      \* isolate-call forms, numbered in order; each has its own arguments
    Workers,    \* the pool, in the order it was spawned
    None

VARIABLES
    tx,         \* workers whose handle still has its sender
    worker,     \* "init", "up", "exited" or "panicked"
    queue,      \* commands in the worker's channel
    args,       \* isolate-call-f* and isolate-call-args*: the command interned last
    call,       \* [st, with]: "none", "refused", "queued", "resolved", "running",
                \*   "ok", "err" or "died", and whose arguments it was applied to
    target,     \* the worker of each call
    next        \* POOL_NEXT
vars == <<tx, worker, queue, args, call, target, next>>

Ids == Range(Workers)
Init ==
    /\ tx = Ids /\ worker = [w \in Ids |-> "init"]
    /\ queue = [w \in Ids |-> <<>>] /\ args = [w \in Ids |-> None]
    /\ call = [c \in Calls |-> [st |-> "none", with |-> None]]
    /\ target = [c \in Calls |-> None] /\ next = 0

-----------------------------------------------------------------------------
Set(c, s) == call' = [call EXCEPT ![c].st = s]
InFlight(w) == {c \in Calls : target[c] = w /\ call[c].st \in {"resolved", "running"}}

\* builtin_isolate_call on the next handle of default-isolate: an argument that
\* cannot cross, a closed handle and a dead worker refuse at the call site; else
\* the command is queued, and a task awaits the reply.
IsolateCall(c, shareable) ==
    LET w == Workers[(next % Len(Workers)) + 1]
        accepted == shareable /\ w \in tx /\ worker[w] \in {"init", "up"}
    IN  /\ {d \in Calls : call[d].st = "none"} = {d \in Calls : d >= c}
        /\ next' = next + 1
        /\ target' = [target EXCEPT ![c] = w]
        /\ queue' = IF accepted THEN [queue EXCEPT ![w] = Append(@, c)] ELSE queue
        /\ Set(c, IF accepted THEN "queued" ELSE "refused")
        /\ UNCHANGED <<tx, worker, args>>

\* isolate-close!
Close(w) ==
    /\ w \in tx /\ tx' = tx \ {w}
    /\ UNCHANGED <<worker, queue, args, call, target, next>>

\* Isolate::spawn: the thread builds its environment, then serves.
Start(w) ==
    /\ worker[w] = "init" /\ worker' = [worker EXCEPT ![w] = "up"]
    /\ UNCHANGED <<tx, queue, args, call, target, next>>

\* Mutant: each command is spawned as a task, and the next one is received.
RecvSpawning(w) == worker[w] = "up" /\ queue[w] # <<>>

\* The loop of spawn_isolate awaits a command's reply before the next command.
Recv(w) == worker[w] = "up" /\ queue[w] # <<>> /\ InFlight(w) = {}

\* run_cmd: require and resolve, which may fail; then the two vars.
Resolve(w, ok) ==
    LET c == Head(queue[w])
    IN  /\ Recv(w)
        /\ queue' = [queue EXCEPT ![w] = Tail(@)]
        /\ Set(c, IF ok THEN "resolved" ELSE "err")
        /\ args' = IF ok THEN [args EXCEPT ![w] = c] ELSE args
        /\ UNCHANGED <<tx, worker, target, next>>

\* (apply isolate-call-f* isolate-call-args*) reads them; the callee may yield.
Apply(w, c) ==
    /\ c \in InFlight(w) /\ call[c].st = "resolved" /\ worker[w] = "up"
    /\ call' = [call EXCEPT ![c] = [st |-> "running", with |-> args[w]]]
    /\ UNCHANGED <<tx, worker, queue, args, target, next>>

\* The reply: the value copied back, or an error (also a value that cannot cross).
Reply(w, c, ok) ==
    /\ c \in InFlight(w) /\ call[c].st = "running" /\ worker[w] = "up"
    /\ Set(c, IF ok THEN "ok" ELSE "err")
    /\ UNCHANGED <<tx, worker, queue, args, target, next>>

\* Mutant: only the command that panicked loses its reply channel.
LostWithThread(w) == InFlight(w)

\* A panic ends the thread: its receiver, the commands in it and their reply
\* channels are dropped.
LostWith(w) == InFlight(w) \cup Range(queue[w])
Panic(w, c) ==
    /\ worker[w] = "up" /\ c \in InFlight(w)
    /\ worker' = [worker EXCEPT ![w] = "panicked"]
    /\ queue' = [queue EXCEPT ![w] = <<>>]
    /\ call' = [d \in Calls |-> IF d \in LostWith(w) THEN [call[d] EXCEPT !.st = "died"] ELSE call[d]]
    /\ UNCHANGED <<tx, args, target, next>>

\* recv answers None once the sender is gone and the queue is drained.
Exit(w) ==
    /\ worker[w] = "up" /\ w \notin tx /\ queue[w] = <<>> /\ InFlight(w) = {}
    /\ worker' = [worker EXCEPT ![w] = "exited"]
    /\ UNCHANGED <<tx, queue, args, call, target, next>>

WorkerStep(w) ==
    \/ Start(w)
    \/ \E b \in BOOLEAN : Resolve(w, b)
    \/ \E c \in Calls : Apply(w, c)
    \/ \E c \in Calls, b \in BOOLEAN : Reply(w, c, b)
Next ==
    \/ \E c \in Calls, b \in BOOLEAN : IsolateCall(c, b)
    \/ \E w \in Ids : WorkerStep(w) \/ Close(w) \/ Exit(w) \/ \E c \in Calls : Panic(w, c)

\* Worker threads run; the functions called return.
Fairness == \A w \in Ids : WF_vars(WorkerStep(w))
Spec == Init /\ [][Next]_vars /\ Fairness

-----------------------------------------------------------------------------
(* Properties *)

Pending == {"queued", "resolved", "running"}

\* A function is applied to the arguments of its own call, although all calls of
\* a worker go through the same two vars and a callee may yield.
OwnArguments == \A c \in Calls : call[c].with \in {None, c}

\* A call that was accepted is lost only to a panic: a close lets it run.
LostOnlyToPanic == \A c \in Calls : call[c].st = "died" => worker[target[c]] = "panicked"

\* Every accepted call is answered, also when the worker panics or the handle
\* is closed under it.
CallsAreAnswered == \A c \in Calls : call[c].st = "queued" ~> call[c].st \notin Pending
=============================================================================
