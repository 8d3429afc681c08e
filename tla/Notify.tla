------------------------------- MODULE Notify -------------------------------
(***************************************************************************)
(* tokio::sync::Notify, the wake-up primitive behind the asynchronous       *)
(* channel operations (external library; modelled from its documented       *)
(* contract and from how cljrs-async uses it).                              *)
(*                                                                          *)
(* A Notify keeps a FIFO list of parked tasks and at most one stored        *)
(* permit.  notify_one wakes the longest-parked task, or stores the permit  *)
(* when nobody is parked; a second notify_one with a stored permit is lost. *)
(***************************************************************************)
EXTENDS Sequences

\* A fresh Notify: nobody parked, no permit.
NewNotify == [waiters |-> <<>>, permit |-> FALSE]

\* The task the next notify_one would wake, as a set of at most one task.
WokenBy(n) == IF n.waiters = <<>> THEN {} ELSE {Head(n.waiters)}

\* notify_one(): hand the notification to the first waiter or store it.
NotifyOne(n) ==
    IF n.waiters = <<>>
    THEN [waiters |-> <<>>, permit |-> TRUE]
    ELSE [waiters |-> Tail(n.waiters), permit |-> n.permit]

\* The loop "check; notified().await" of a task whose check fails.  A stored
\* permit only buys one more check, which fails again within the same poll
\* (nothing else runs on the executor thread), so the permit is used up and
\* the task parks behind the other waiters.
ParkOn(n, task) == [waiters |-> Append(n.waiters, task), permit |-> FALSE]
=============================================================================
