------------------------------ MODULE Services ------------------------------
(***************************************************************************)
(* The components that share no state with each other, side by side: a         *)
(* behaviour picks one of them and leaves the others at rest.                  *)
(***************************************************************************)
EXTENDS Integers, Sequences, FiniteSets

CONSTANTS
    None, Done,
    IsolateCallIds, PoolWorkers,        \* IsolateCalls
    Takes, Puts,                        \* IsolateChannel
    Isolates, MaxWrites,                \* SharedAtom
    NReplRequests, Sessions, MessageIds, MaxEvalForms,      \* NRepl
    PodIds, MaxInvokes,                 \* Pods
    AtomOps, MaxNesting,                \* Refs
    Taps, Inputs, MaxValues,            \* MultRelay, MergeRelay
    Tasks, MaxForms, MaxBinds,          \* Scopes
    MaxTx, TxGas, TxDepth, MaxFrames    \* TxSandbox

\* Numbers count calls, requests and updates; None is no name and no number; the
\* pool has a worker; a value put is not one of the states of a take.
ASSUME ServicesAssumption ==
    /\ IsolateCallIds \subseteq Nat /\ NReplRequests \subseteq Nat
    /\ AtomOps \subseteq Nat \ {0} /\ None \notin Nat
    /\ PoolWorkers \in Seq({PoolWorkers[n] : n \in DOMAIN PoolWorkers}) /\ PoolWorkers # <<>>
    /\ None \notin Takes /\ Puts \cap {"none", "waiting"} = {}
    /\ None \notin Sessions \X MessageIds
    /\ None \notin Tasks
    /\ {MaxWrites, MaxNesting, MaxForms, MaxBinds, MaxTx, TxGas, TxDepth, MaxFrames} \subseteq Nat

VARIABLES
    which,      \* the component this behaviour is about
    ic_tx, ic_worker, ic_queue, ic_args, ic_call, ic_target, ic_next,
    ix_chan, ix_senders, ix_waker, ix_runnable, ix_take, ix_sent, ix_got, ix_shared,
    sa_cell, sa_arcs, sa_op, sa_read, sa_expect, sa_lied,
    nr_req, nr_pending, nr_flagged, nr_jobs, nr_up, nr_cur, nr_stage, nr_left,
    nr_sessions, nr_answers, nr_interrupted, nr_late, nr_missed, nr_reused,
    po_proc, po_inbox, po_outbox, po_load, po_stubs, po_handle, po_listed, po_calls,
    po_cur, po_last, po_result, po_loose, po_exited,
    re_atom, re_stack, re_under, re_cells, re_threw, re_runs, re_saw,
    mu_src, mu_fed, mu_closed, mu_q, mu_got, mu_taps, mu_v, mu_todo, mu_since,
    me_q, me_fed, me_closed, me_hand, me_out, me_outClosed, me_remaining, me_got,
    sc_form, sc_stack, sc_active, sc_bindings, sc_state, sc_captured, sc_within,
    tx_tx, tx_running, tx_frames, tx_arena, tx_policy, tx_gas, tx_depth, tx_ctx,
    tx_bound, tx_panicked

icVars == <<ic_tx, ic_worker, ic_queue, ic_args, ic_call, ic_target, ic_next>>
Calls == INSTANCE IsolateCalls WITH
    Calls <- IsolateCallIds, Workers <- PoolWorkers, None <- None, tx <- ic_tx,
    worker <- ic_worker, queue <- ic_queue, args <- ic_args, call <- ic_call,
    target <- ic_target, next <- ic_next

ixVars == <<ix_chan, ix_senders, ix_waker, ix_runnable, ix_take, ix_sent, ix_got, ix_shared>>
Recv == INSTANCE IsolateChannel WITH
    Takes <- Takes, Puts <- Puts, None <- None, chan <- ix_chan,
    senders <- ix_senders, waker <- ix_waker, runnable <- ix_runnable, take <- ix_take,
    sent <- ix_sent, got <- ix_got, shared <- ix_shared

saVars == <<sa_cell, sa_arcs, sa_op, sa_read, sa_expect, sa_lied>>
Shared == INSTANCE SharedAtom WITH
    Isolates <- Isolates, MaxWrites <- MaxWrites, cell <- sa_cell, arcs <- sa_arcs,
    op <- sa_op, read <- sa_read, expect <- sa_expect, lied <- sa_lied

nrVars == <<nr_req, nr_pending, nr_flagged, nr_jobs, nr_up, nr_cur, nr_stage, nr_left,
    nr_sessions, nr_answers, nr_interrupted, nr_late, nr_missed, nr_reused>>
Nrepl == INSTANCE NRepl WITH
    Requests <- NReplRequests, Sessions <- Sessions, Ids <- MessageIds,
    MaxForms <- MaxEvalForms, None <- None, req <- nr_req, pending <- nr_pending,
    flagged <- nr_flagged, jobs <- nr_jobs, up <- nr_up, cur <- nr_cur,
    stage <- nr_stage, left <- nr_left, sessions <- nr_sessions, answers <- nr_answers,
    interrupted <- nr_interrupted, late <- nr_late, missed <- nr_missed,
    reused <- nr_reused

poVars == <<po_proc, po_inbox, po_outbox, po_load, po_stubs, po_handle, po_listed, po_calls,
    po_cur, po_last, po_result, po_loose, po_exited>>
Pod == INSTANCE Pods WITH
    Pods <- PodIds, MaxCalls <- MaxInvokes, None <- None, proc <- po_proc, inbox <- po_inbox,
    outbox <- po_outbox, load <- po_load, stubs <- po_stubs, handle <- po_handle,
    listed <- po_listed, calls <- po_calls, cur <- po_cur, last <- po_last,
    result <- po_result, loose <- po_loose, exited <- po_exited

reVars == <<re_atom, re_stack, re_under, re_cells, re_threw, re_runs, re_saw>>
Ref == INSTANCE Refs WITH
    Ops <- AtomOps, MaxDepth <- MaxNesting, atom <- re_atom, stack <- re_stack, under <- re_under,
    cells <- re_cells, threw <- re_threw, runs <- re_runs, saw <- re_saw

muVars == <<mu_src, mu_fed, mu_closed, mu_q, mu_got, mu_taps, mu_v, mu_todo, mu_since>>
Mult == INSTANCE MultRelay WITH
    Taps <- Taps, MaxValues <- MaxValues, None <- None, Done <- Done, src <- mu_src,
    fed <- mu_fed, closed <- mu_closed, q <- mu_q, got <- mu_got, taps <- mu_taps,
    v <- mu_v, todo <- mu_todo, since <- mu_since

meVars == <<me_q, me_fed, me_closed, me_hand, me_out, me_outClosed, me_remaining, me_got>>
Merge == INSTANCE MergeRelay WITH
    Inputs <- Inputs, MaxValues <- MaxValues, None <- None, Done <- Done, q <- me_q,
    fed <- me_fed, closed <- me_closed, hand <- me_hand, out <- me_out,
    outClosed <- me_outClosed, remaining <- me_remaining, got <- me_got

scVars == <<sc_form, sc_stack, sc_active, sc_bindings, sc_state, sc_captured, sc_within>>
Scope == INSTANCE Scopes WITH
    Tasks <- Tasks, MaxForms <- MaxForms, MaxBinds <- MaxBinds, None <- None, form <- sc_form,
    stack <- sc_stack, active <- sc_active, bindings <- sc_bindings, state <- sc_state,
    captured <- sc_captured, within <- sc_within

txVars == <<tx_tx, tx_running, tx_frames, tx_arena, tx_policy, tx_gas, tx_depth, tx_ctx,
    tx_bound, tx_panicked>>
Tx == INSTANCE TxSandbox WITH
    MaxTx <- MaxTx, Gas <- TxGas, Limit <- TxDepth, MaxFrames <- MaxFrames, tx <- tx_tx,
    running <- tx_running, frames <- tx_frames, arena <- tx_arena, policy <- tx_policy,
    gas <- tx_gas, depth <- tx_depth, ctx <- tx_ctx, bound <- tx_bound,
    panicked <- tx_panicked

-----------------------------------------------------------------------------
\* A pool that was shut down: its worker threads are gone.
NoWorkers ==
    /\ ic_tx = {} /\ ic_worker = [w \in Calls!Ids |-> "exited"]
    /\ ic_queue = [w \in Calls!Ids |-> <<>>] /\ ic_args = [w \in Calls!Ids |-> None]
    /\ ic_call = [c \in IsolateCallIds |-> [st |-> "none", with |-> None]]
    /\ ic_target = [c \in IsolateCallIds |-> None] /\ ic_next = 0

Init ==
    /\ which \in {"calls", "recv", "shared", "nrepl", "pod", "ref", "mult", "merge", "scope", "tx"}
    /\ IF which = "calls" THEN Calls!Init ELSE NoWorkers
    /\ Recv!Init
    /\ Shared!Init
    /\ Nrepl!Init
    /\ Pod!Init
    /\ Ref!Init
    /\ Mult!Init
    /\ Merge!Init
    /\ Scope!Init
    /\ Tx!Init

Next ==
    /\ UNCHANGED which
    /\ \/ which = "calls" /\ Calls!Next
          /\ UNCHANGED <<ixVars, saVars, nrVars, poVars, reVars, muVars, meVars, scVars, txVars>>
       \/ which = "recv" /\ Recv!Next
          /\ UNCHANGED <<icVars, saVars, nrVars, poVars, reVars, muVars, meVars, scVars, txVars>>
       \/ which = "shared" /\ Shared!Next
          /\ UNCHANGED <<icVars, ixVars, nrVars, poVars, reVars, muVars, meVars, scVars, txVars>>
       \/ which = "nrepl" /\ Nrepl!Next
          /\ UNCHANGED <<icVars, ixVars, saVars, poVars, reVars, muVars, meVars, scVars, txVars>>
       \/ which = "pod" /\ Pod!Next
          /\ UNCHANGED <<icVars, ixVars, saVars, nrVars, reVars, muVars, meVars, scVars, txVars>>
       \/ which = "ref" /\ Ref!Next
          /\ UNCHANGED <<icVars, ixVars, saVars, nrVars, poVars, muVars, meVars, scVars, txVars>>
       \/ which = "mult" /\ Mult!Next
          /\ UNCHANGED <<icVars, ixVars, saVars, nrVars, poVars, reVars, meVars, scVars, txVars>>
       \/ which = "merge" /\ Merge!Next
          /\ UNCHANGED <<icVars, ixVars, saVars, nrVars, poVars, reVars, muVars, scVars, txVars>>
       \/ which = "scope" /\ Scope!Next
          /\ UNCHANGED <<icVars, ixVars, saVars, nrVars, poVars, reVars, muVars, meVars, txVars>>
       \/ which = "tx" /\ Tx!Next
          /\ UNCHANGED <<icVars, ixVars, saVars, nrVars, poVars, reVars, muVars, meVars, scVars>>

vars == <<which, icVars, ixVars, saVars, nrVars, poVars, reVars, muVars, meVars, scVars, txVars>>
Spec ==
    /\ Init /\ [][Next]_vars
    /\ Calls!Fairness /\ Nrepl!Fairness /\ Mult!Fairness /\ Merge!Fairness

-----------------------------------------------------------------------------
(* Properties *)

\* isolate.rs, isolate_channel.rs, shared.rs.  Isolates do not disturb each other:
\* a call is applied to its own arguments and lost only to a panic of its worker, a
\* take that is alone on its channel is woken for every value, and the value of a
\* shared atom is what the writes that reported success add up to.
IsolatesKeepApart ==
    /\ Calls!OwnArguments /\ Calls!LostOnlyToPanic
    /\ Recv!TakeIsServed
    /\ Shared!CommitsAddUp

\* isolate_call.rs, engine.rs.  Every isolate call that was accepted is answered, also
\* when its worker panics or is closed; every nREPL request gets one final answer.
EveryCallIsAnswered == Calls!CallsAreAnswered /\ Nrepl!EveryRequestIsAnswered

\* server.rs, engine.rs.  An interrupt stops the eval it names before its next form,
\* and "session-idle" is answered only when there is none.
InterruptsAreHonest == Nrepl!InterruptStops /\ Nrepl!IdleMeansIdle

\* cljrsh-pods.  An invoke returns the value of its own request, and no pod outlives
\* the host, for pods that follow the protocol.
PodsAnswerOwn == Pod!OwnAnswer /\ Pod!NoOrphan

\* apply.rs, rt_abi.rs.  An update of an atom is lost only to the swap! around it.
OnlyEnclosingSwapLoses == Ref!OnlyEnclosingSwapLoses

\* types.rs.  The thunk of a delay or lazy sequence runs once, and its value is what
\* everybody else sees.
ForcedOnce == Ref!ForcedOnce

\* builtins.rs, core_async.cljrs.  Relays lose, repeat and reorder nothing, and close
\* their outputs in the end.
RelaysDeliver == Mult!TapsSeeAll /\ Mult!TapsClose /\ Merge!MergeDelivers

\* gas.rs, dynamics.rs, cljrs-tx.  What is kept per thread belongs to the code that
\* runs: its own meters, the bindings of forms that are being evaluated, a call depth
\* that is exact after caught errors, and nothing of a transaction that has ended.
ThreadStateIsOwn ==
    /\ Scope!MetersAreOwn /\ Scope!BindingsAreScoped
    /\ Tx!DepthIsExact /\ Tx!NoTrace
=============================================================================
