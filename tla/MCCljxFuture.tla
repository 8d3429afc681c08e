---------------------------- MODULE MCCljxFuture ----------------------------
(* CljxFuture for TLC.  A behaviour is about one of two futures: one whose     *)
(* executor task competes with its readers, and one in a plain embedding       *)
(* without executor, whose readers steal the body and which may be cancelled.  *)
EXTENDS CljxFuture

CONSTANTS PlainDerefs, PlainAtDerefs, PlainTimedDerefs, PlainCancellers

VARIABLES which, p_state, p_thunk, p_task, p_inner, p_wakers, p_pc, p_holder,
          p_result, p_bodyRuns, p_ended

plainVars == <<p_state, p_thunk, p_task, p_inner, p_wakers, p_pc, p_holder,
               p_result, p_bodyRuns, p_ended>>

Plain == INSTANCE CljxFuture WITH
    Awaiters <- {}, Derefs <- PlainDerefs, AtDerefs <- PlainAtDerefs,
    TimedDerefs <- PlainTimedDerefs, SyncAwaits <- {}, Cancellers <- PlainCancellers,
    HasExecutor <- FALSE, state <- p_state, thunk <- p_thunk, task <- p_task,
    inner <- p_inner, wakers <- p_wakers, pc <- p_pc, holder <- p_holder,
    result <- p_result, bodyRuns <- p_bodyRuns, ended <- p_ended

MCInit == Init /\ Plain!Init /\ which \in {"executor", "plain"}
MCNext ==
    \/ which = "executor" /\ Next /\ UNCHANGED <<which, plainVars>>
    \/ which = "plain" /\ Plain!Next /\ UNCHANGED <<which, vars>>
MCSpec ==
    /\ MCInit /\ [][MCNext]_<<which, vars, plainVars>>
    /\ WF_vars(which = "executor" /\ Task) /\ WF_vars(which = "executor" /\ InnerEnds)
    /\ \A r \in Awaiters : WF_vars(which = "executor" /\ Await(r))
    /\ \A d \in Stealers \cup SyncAwaits : WF_vars(which = "executor" /\ Deref(d))

\* Without an executor a future is a single-assignment cell even when it is
\* cancelled, also by its own body, and the cancellation stands.
PlainIsOneShot == Plain!CancelledForGood /\ Plain!ImplementsOneShot
=============================================================================
