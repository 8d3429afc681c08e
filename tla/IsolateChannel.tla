--------------------------- MODULE IsolateChannel ---------------------------
(***************************************************************************)
(* The copy boundary between isolates (cljrs-async: isolate_channel.rs,       *)
(* isolate_builtins.rs): a tokio unbounded mpsc queue with any number of       *)
(* senders and one receiver, which remembers the waker of its last empty poll. *)
(***************************************************************************)
EXTENDS Integers, Sequences, SequencesExt

CONSTANTS
    Takes,      \* isolate-take! calls on one receiver
    Puts,       \* isolate-put! calls, of distinct values
    None

VARIABLES
    chan,       \* the queue of the isolate channel
    senders,    \* it has a sender
    waker,      \* the task the receiver will wake
    runnable,   \* takes the executor will poll
    take,       \* "none", "waiting", "nil" or the value
    sent,       \* history: the values accepted, in order
    got,        \* history: the values received, in order
    shared      \* history: two takes waited at the same time
vars == <<chan, senders, waker, runnable, take, sent, got, shared>>

Init ==
    /\ chan = <<>> /\ senders = TRUE /\ waker = None /\ runnable = {}
    /\ take = [t \in Takes |-> "none"] /\ sent = <<>> /\ got = <<>> /\ shared = FALSE

-----------------------------------------------------------------------------
\* tokio: a send, or the last sender's drop, wakes the registered task once.
WakeRx == runnable' = runnable \cup ({waker} \ {None}) /\ waker' = None

\* isolate-put!: the copy is queued.
IsolatePut(v) ==
    /\ senders /\ v \notin Range(sent)
    /\ chan' = Append(chan, v) /\ sent' = Append(sent, v)
    /\ WakeRx
    /\ UNCHANGED <<senders, take, got, shared>>
DropSender ==
    /\ senders /\ senders' = FALSE
    /\ WakeRx
    /\ UNCHANGED <<chan, take, sent, got, shared>>

\* isolate-take!: a task that polls the receiver, under its lock for one poll.
IsolateTake(t) ==
    /\ take[t] = "none"
    /\ take' = [take EXCEPT ![t] = "waiting"]
    /\ runnable' = runnable \cup {t}
    /\ shared' = (shared \/ \E u \in Takes : take[u] = "waiting")
    /\ UNCHANGED <<chan, senders, waker, sent, got>>

\* Mutant: the waker is registered by the first poll only.
RegisterOnce(t) == IF waker = None /\ got = <<>> THEN t ELSE waker

\* poll_recv on an empty queue registers the waker, in place of any other.
Register(t) == t
PollRecv(t) ==
    /\ t \in runnable /\ runnable' = runnable \ {t}
    /\ IF chan # <<>>
       THEN /\ take' = [take EXCEPT ![t] = Head(chan)]
            /\ chan' = Tail(chan) /\ got' = Append(got, Head(chan))
            /\ UNCHANGED waker
       ELSE IF senders
       THEN waker' = Register(t) /\ UNCHANGED <<take, chan, got>>
       ELSE take' = [take EXCEPT ![t] = "nil"] /\ UNCHANGED <<chan, got, waker>>
    /\ UNCHANGED <<senders, sent, shared>>

\* isolate-poll!
IsolatePoll ==
    /\ chan # <<>>
    /\ chan' = Tail(chan) /\ got' = Append(got, Head(chan))
    /\ UNCHANGED <<senders, waker, runnable, take, sent, shared>>

Next ==
    \/ \E v \in Puts : IsolatePut(v)
    \/ \E t \in Takes : IsolateTake(t) \/ PollRecv(t)
    \/ DropSender \/ IsolatePoll
Spec == Init /\ [][Next]_vars

-----------------------------------------------------------------------------
(* Properties *)

\* Values cross in order, each once; and as long as one take waits at a time, it
\* is scheduled once there is a value, or no sender.
IsPrefixOfSent == \E n \in 0..Len(sent) : got = SubSeq(sent, 1, n)
TakeIsServed ==
    /\ IsPrefixOfSent
    /\ ~shared /\ (chan # <<>> \/ ~senders) =>
           \A t \in Takes : take[t] = "waiting" => t \in runnable
=============================================================================
