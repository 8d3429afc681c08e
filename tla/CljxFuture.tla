----------------------------- MODULE CljxFuture -----------------------------
(***************************************************************************)
(* One Clojure future with a claimable body: CljxFuture (cljrs-value,       *)
(* types.rs), future-call (cljrs-async, builtins.rs), await_value and       *)
(* settle_future (cljrs-async, eval_async.rs), deref and future-cancel      *)
(* (cljrs-builtins), the @ reader form and the synchronous await            *)
(* (cljrs-interp).                                                          *)
(*                                                                          *)
(* Everything runs on one executor thread.  A step is what a task does      *)
(* between two suspension points; a synchronous deref keeps the thread      *)
(* until it returns, so nothing else runs meanwhile except the body it      *)
(* stole, which is user code and may itself cancel the future.              *)
(***************************************************************************)
EXTENDS Naturals, FiniteSets

CONSTANTS
    Awaiters,      \* tasks in await / @ / deref inside asynchronous code
    Derefs,        \* calls of the deref builtin, one argument
    AtDerefs,      \* evaluations of @f by the synchronous evaluator
    TimedDerefs,   \* calls of (deref f ms default)
    SyncAwaits,    \* (await f) reached by the synchronous evaluator
    Cancellers,    \* calls of future-cancel
    HasExecutor,   \* FALSE in an embedding without a Tokio runtime
    None           \* no outcome yet / nobody

Stealers == Derefs \cup AtDerefs \cup TimedDerefs
Readers  == Awaiters \cup Stealers \cup SyncAwaits
Callers  == Readers \cup Cancellers

ASSUME CallersAssumption ==
    /\ Cancellers \cap Readers = {}
    /\ Awaiters \cap (Stealers \cup SyncAwaits) = {}
    /\ SyncAwaits \cap Stealers = {}
    /\ Derefs \cap (AtDerefs \cup TimedDerefs) = {}
    /\ AtDerefs \cap TimedDerefs = {}
    /\ HasExecutor \in BOOLEAN
    /\ None \notin Callers
    /\ None \notin {"done", "failed", "gas", "cancelled", "timeout"}

\* What a body ends with: a value, a thrown error, or the gas limit.
BodyOutcomes == {"done", "failed", "gas"}
Settled      == BodyOutcomes \cup {"cancelled"}

VARIABLES
    state,     \* CljxFuture.state; None is FutureState::Running
    thunk,     \* CljxFuture.thunk is Some: nobody has claimed the body
    task,      \* future-call's executor task
    inner,     \* the settled state of the inner call the task awaits
    wakers,    \* CljxFuture.wakers
    pc,        \* every caller's progress
    holder,    \* the synchronous call that keeps the executor thread
    result,    \* what each reader got
    bodyRuns,  \* history: how often the body was started
    ended      \* history: what the body ended with

vars == <<state, thunk, task, inner, wakers, pc, holder, result, bodyRuns, ended>>

Init ==
    /\ state = None /\ thunk = TRUE
    /\ task = IF HasExecutor THEN "queued" ELSE "absent"
    /\ inner = None /\ wakers = {}
    /\ pc = [c \in Callers |-> "new"]
    /\ holder = None
    /\ result = [r \in Readers |-> None]
    /\ bodyRuns = 0 /\ ended = None

\* notify_settled: every registered waiter is scheduled again, and c moves on.
NotifySettled(c, label) ==
    /\ wakers' = {}
    /\ pc' = [u \in Callers |-> IF u = c THEN label
                                ELSE IF u \in wakers THEN "ready" ELSE pc[u]]

Moves(c, label) == pc' = [pc EXCEPT ![c] = label]

-----------------------------------------------------------------------------
(* The executor task of future-call *)

\* Faulty variant: the task runs the body without claiming it.
TaskRunsUnclaimed ==
    /\ holder = None /\ task = "queued"
    /\ thunk' = thunk
    /\ task' = "awaiting" /\ bodyRuns' = bodyRuns + 1
    /\ UNCHANGED <<state, inner, wakers, pc, holder, result, ended>>

\* First poll: claim the body, or end because a deref stole it.
TaskClaims ==
    /\ holder = None /\ task = "queued"
    /\ thunk' = FALSE
    /\ IF thunk THEN task' = "awaiting" /\ bodyRuns' = bodyRuns + 1
                ELSE task' = "ended" /\ UNCHANGED bodyRuns
    /\ UNCHANGED <<state, inner, wakers, pc, holder, result, ended>>

\* The inner asynchronous call, run by the executor, ends.
InnerEnds ==
    /\ holder = None /\ task = "awaiting" /\ inner = None
    /\ inner' \in BodyOutcomes
    /\ ended' = inner'
    /\ UNCHANGED <<state, thunk, task, wakers, pc, holder, result, bodyRuns>>

\* Faulty variant: the waiters are not woken.
TaskSettlesSilently ==
    /\ holder = None /\ task = "awaiting" /\ inner # None
    /\ state' = inner
    /\ task' = "ended"
    /\ UNCHANGED <<thunk, inner, wakers, pc, holder, result, bodyRuns, ended>>

\* The task resumes and settle_future writes the outcome, whatever the state.
TaskSettles ==
    /\ holder = None /\ task = "awaiting" /\ inner # None
    /\ state' = inner
    /\ task' = "ended"
    /\ NotifySettled(None, "done")
    /\ UNCHANGED <<thunk, inner, holder, result, bodyRuns, ended>>

-----------------------------------------------------------------------------
(* future-cancel, also called by a body that a deref is running *)

\* Faulty variant: cancel does not look at the state.
CancelAnyState(c) ==
    /\ pc[c] = "new"
    /\ holder # None => pc[holder] = "stealing"
    /\ state' = "cancelled"
    /\ NotifySettled(c, "done")
    /\ UNCHANGED <<thunk, task, inner, holder, result, bodyRuns, ended>>

Cancel(c) ==
    /\ pc[c] = "new"
    /\ holder # None => pc[holder] = "stealing"
    /\ IF state = None THEN state' = "cancelled" /\ NotifySettled(c, "done")
                       ELSE Moves(c, "done") /\ UNCHANGED <<state, wakers>>
    /\ UNCHANGED <<thunk, task, inner, holder, result, bodyRuns, ended>>

-----------------------------------------------------------------------------
(* await_value: a poll of an awaiting task *)

AwaitRead(r) ==
    /\ holder = None /\ pc[r] \in {"new", "ready"}
    /\ state # None
    /\ result' = [result EXCEPT ![r] = state]
    /\ Moves(r, "done")
    /\ UNCHANGED <<state, thunk, task, inner, wakers, holder, bodyRuns, ended>>

\* Faulty variant: the task parks without leaving its waker.
AwaitParkUnregistered(r) ==
    /\ holder = None /\ pc[r] \in {"new", "ready"}
    /\ state = None
    /\ Moves(r, "parked")
    /\ UNCHANGED <<state, thunk, task, inner, wakers, holder, result, bodyRuns, ended>>

AwaitPark(r) ==
    /\ holder = None /\ pc[r] \in {"new", "ready"}
    /\ state = None
    /\ wakers' = wakers \cup {r}
    /\ Moves(r, "parked")
    /\ UNCHANGED <<state, thunk, task, inner, holder, result, bodyRuns, ended>>

-----------------------------------------------------------------------------
(* Synchronous readers *)

\* Faulty variant: the body is read but not taken.
DerefStealsCopy(d) ==
    /\ holder = None /\ pc[d] = "new"
    /\ thunk
    /\ holder' = d
    /\ bodyRuns' = bodyRuns + 1
    /\ Moves(d, "stealing")
    /\ UNCHANGED <<state, thunk, task, inner, wakers, result, ended>>

\* deref claims an unstarted body and runs it inline, keeping the thread.
DerefSteals(d) ==
    /\ holder = None /\ pc[d] = "new"
    /\ thunk
    /\ thunk' = FALSE
    /\ holder' = d
    /\ bodyRuns' = bodyRuns + 1
    /\ Moves(d, "stealing")
    /\ UNCHANGED <<state, task, inner, wakers, result, ended>>

\* Faulty variant: every synchronous reader treats the gas limit as a failure.
StolenOutcomeCaught(d, outcome) == IF outcome = "gas" THEN "failed" ELSE outcome

\* What the stealing call makes of the body's outcome: the @ form turns every
\* error, the gas limit included, into Failed.
StolenOutcome(d, outcome) ==
    IF d \in AtDerefs /\ outcome = "gas" THEN "failed" ELSE outcome

\* Faulty variant: the outcome replaces a cancellation.
DerefSettlesAnyState(d) ==
    /\ holder = d /\ pc[d] = "stealing"
    /\ ended' \in BodyOutcomes
    /\ state' = StolenOutcome(d, ended')
    /\ NotifySettled(d, "done")
    /\ result' = [result EXCEPT ![d] = state']
    /\ holder' = None
    /\ UNCHANGED <<thunk, task, inner, bodyRuns>>

\* The stolen body ends: settle if still running, wake everybody, then read
\* the state and return.
DerefSettles(d) ==
    /\ holder = d /\ pc[d] = "stealing"
    /\ ended' \in BodyOutcomes
    /\ state' = IF state = None THEN StolenOutcome(d, ended') ELSE state
    /\ NotifySettled(d, "done")
    /\ result' = [result EXCEPT ![d] = state']
    /\ holder' = None
    /\ UNCHANGED <<thunk, task, inner, bodyRuns>>

\* Nothing to steal (sync await never steals) and the future is settled.
DerefRead(d) ==
    /\ holder = None /\ pc[d] = "new"
    /\ d \in Stealers => ~thunk
    /\ state # None
    /\ result' = [result EXCEPT ![d] = state]
    /\ Moves(d, "done")
    /\ UNCHANGED <<state, thunk, task, inner, wakers, holder, bodyRuns, ended>>

\* The body was claimed by the executor task and is not finished.  A timed
\* deref waits out its time; nothing can settle the future meanwhile.
DerefTimesOut(d) ==
    /\ d \in TimedDerefs
    /\ holder = None /\ pc[d] = "new"
    /\ ~thunk /\ state = None
    /\ result' = [result EXCEPT ![d] = "timeout"]
    /\ Moves(d, "done")
    /\ UNCHANGED <<state, thunk, task, inner, wakers, holder, bodyRuns, ended>>

\* The others wait on the condition variable and keep the thread.
DerefBlocks(d) ==
    /\ d \in Derefs \cup AtDerefs \cup SyncAwaits
    /\ holder = None /\ pc[d] = "new"
    /\ d \in SyncAwaits \/ ~thunk
    /\ state = None
    /\ holder' = d
    /\ Moves(d, "blocked")
    /\ UNCHANGED <<state, thunk, task, inner, wakers, result, bodyRuns, ended>>

\* A wake-up of the condition variable without cause: check and wait again.
BlockedRecheck ==
    /\ \E d \in Readers : holder = d /\ pc[d] = "blocked"
    /\ state = None
    /\ UNCHANGED vars

\* Everybody has what they asked for.
AllDone ==
    /\ \A c \in Callers : pc[c] = "done"
    /\ task \in {"ended", "absent"}
    /\ UNCHANGED vars

-----------------------------------------------------------------------------
Task     == TaskClaims \/ TaskSettles
Await(r) == AwaitRead(r) \/ AwaitPark(r)
Deref(d) == \/ d \in Stealers /\ (DerefSteals(d) \/ DerefSettles(d))
            \/ DerefRead(d) \/ DerefTimesOut(d) \/ DerefBlocks(d)

Next ==
    \/ Task \/ InnerEnds
    \/ \E c \in Cancellers : Cancel(c)
    \/ \E r \in Awaiters : Await(r)
    \/ \E d \in Stealers \cup SyncAwaits : Deref(d)
    \/ BlockedRecheck
    \/ AllDone

Spec == Init /\ [][Next]_vars

\* The executor polls its ready tasks, user code that was started ends, and a
\* synchronous call that holds the thread goes on when it can.
FairSpec ==
    /\ Spec
    /\ WF_vars(Task) /\ WF_vars(InnerEnds)
    /\ \A r \in Awaiters : WF_vars(Await(r))
    /\ \A d \in Stealers \cup SyncAwaits : WF_vars(Deref(d))

-----------------------------------------------------------------------------
(* Properties *)

\* Type correctness.
TypeOK ==
    /\ state \in Settled \cup {None}
    /\ thunk \in BOOLEAN
    /\ task \in {"absent", "queued", "awaiting", "ended"}
    /\ inner \in BodyOutcomes \cup {None}
    /\ wakers \subseteq Awaiters
    /\ pc \in [Callers -> {"new", "ready", "parked", "stealing", "blocked", "done"}]
    /\ holder \in Stealers \cup SyncAwaits \cup {None}
    /\ result \in [Readers -> Settled \cup {"timeout", None}]
    /\ bodyRuns \in Nat
    /\ ended \in BodyOutcomes \cup {None}

\* CljxFuture::thunk: executor task and stealing derefs "race on claim_thunk;
\* exactly one wins": the body's side effects happen at most once, and once
\* the future is settled other than by a cancellation they did happen.
BodyRunsOnce ==
    /\ bodyRuns = IF thunk THEN 0 ELSE 1
    /\ state \in BodyOutcomes => bodyRuns = 1

\* register_waker: "a registration made under it can never miss the wake".  The
\* parked awaits are the registered ones, and none is left once it is settled.
NoMissedWake ==
    /\ \A r \in Awaiters : pc[r] = "parked" <=> r \in wakers
    /\ state # None => wakers = {}

\* Every parked await of a future returns, unless a synchronous reader keeps the
\* executor thread for good (see DerefReturns): the executor task or a stealing
\* deref settles the future, and settling wakes the await.
AwaitersResolve ==
    \/ <>[](holder # None)
    \/ \A r \in Awaiters : pc[r] = "parked" ~> pc[r] = "done"

\* is_cancelled is "True if explicitly cancelled": a cancelled future stays
\* cancelled.
CancelledForGood == [][state = "cancelled" => state' = "cancelled"]_vars

\* README, future / pmap: "(mapv deref futs) can never deadlock the
\* single-threaded executor": a deref that was called returns.
DerefReturns == \A d \in Derefs \cup AtDerefs : pc[d] # "new" ~> pc[d] = "done"

\* FutureState::GasExhausted is "kept distinct from a thrown value so
\* user-level catch clauses cannot intercept it": a body that ran out of gas
\* never surfaces as an ordinary failure.
GasIsNeverCaught == ended = "gas" => state # "failed"

\* The body runs once, and how it ended is not hidden from its readers.
BodyIsHonoured == BodyRunsOnce /\ GasIsNeverCaught

-----------------------------------------------------------------------------
(* Documented behaviour that this model of the code does not have in general; *)
(* the README gives the executions.                                           *)

\* eval_await blocks until the future resolves, "equivalent to (deref val)": a
\* synchronous await of a future nobody has started returns, as deref does.
SyncAwaitReturns ==
    \A d \in SyncAwaits : (pc[d] # "new" /\ thunk) ~> pc[d] = "done"

-----------------------------------------------------------------------------
(* The inductive invariant *)

\* The body is with exactly one of: the thunk, the executor task, the deref
\* that holds the thread, or it has ended.
OneOwner ==
    /\ thunk => task \in {"queued", "absent"} /\ state \in {None, "cancelled"}
    /\ task = "awaiting" => ~thunk /\ state \in {None, "cancelled"}
    /\ task = "absent" <=> ~HasExecutor
    /\ task # "awaiting" => inner = None \/ task = "ended"
    /\ \A d \in Callers : pc[d] = "stealing" =>
          d \in Stealers /\ holder = d /\ ~thunk /\ task # "awaiting"
                        /\ state \in {None, "cancelled"}

\* Readers have an answer exactly when they are done.
Answered == \A r \in Readers : pc[r] = "done" <=> result[r] # None

\* Only future-cancel cancels.
CancelledByCall == state = "cancelled" => Cancellers # {}

IndInv ==
    /\ TypeOK
    /\ BodyRunsOnce
    /\ NoMissedWake
    /\ OneOwner
    /\ Answered
    /\ CancelledByCall

\* Beside IndInv: what the future holds is what the body ended with, unless an @
\* form stole the body and turned the gas limit into a failure.
OutcomeKept ==
    /\ (inner # None /\ task # "awaiting") => state \in BodyOutcomes
    /\ AtDerefs = {} => /\ state \in BodyOutcomes => ended = state
                        /\ inner # None => ended = inner

-----------------------------------------------------------------------------
\* Without a canceller, or without an executor task, the future is a
\* single-assignment cell that all readers agree on.
Cell == INSTANCE OneShot WITH
            Outcomes <- Settled, TimedOut <- "timeout",
            cell <- state, read <- result
ImplementsOneShot == Cell!Spec
=============================================================================
