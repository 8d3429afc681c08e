------------------------------ MODULE MultRelay ------------------------------
(***************************************************************************)
(* The relay task of a mult (cljrs-async/src/builtins.rs): it takes from a      *)
(* source channel and puts each value into every tap in turn.  Channels are     *)
(* bounded queues here, as AbstractChannel promises: a put waits for room and    *)
(* answers false on a closed channel, a take of a closed empty one answers nil.  *)
(***************************************************************************)
EXTENDS Integers, Sequences, SequencesExt

CONSTANTS
    Taps,       \* channels that may be tapped
    MaxValues,  \* values put into the source
    None, Done

VARIABLES
    src,        \* the queue of the source, of capacity 1
    fed,        \* values 1..fed were put into it
    closed,     \* channels that are closed; None stands for the source
    q,          \* tap -> its queue, of capacity 1
    got,        \* history: tap -> the values consumed from it
    taps,       \* the tap list of the mult, in order
    v, todo,    \* the value in hand (None while it takes, Done when the task has
                \*   ended) and the taps it still goes to
    since       \* history: tap -> values the relay had taken when it was tapped
vars == <<src, fed, closed, q, got, taps, v, todo, since>>
userVars == <<src, fed, closed, q, got>>

Init ==
    /\ src = <<>> /\ fed = 0 /\ closed = {}
    /\ q = [t \in Taps |-> <<>>] /\ got = [t \in Taps |-> <<>>]
    /\ taps = <<>> /\ v = None /\ todo = <<>> /\ since = [t \in Taps |-> None]

Taken == fed - Len(src)
-----------------------------------------------------------------------------
(* The users of the channels *)

Feed ==
    /\ None \notin closed /\ src = <<>> /\ fed < MaxValues
    /\ fed' = fed + 1 /\ src' = <<fed + 1>>
    /\ UNCHANGED <<closed, q, got, taps, v, todo, since>>
Close(c) ==
    /\ c \notin closed /\ closed' = closed \cup {c}
    /\ UNCHANGED <<src, fed, q, got, taps, v, todo, since>>
Consume(t) ==
    /\ q[t] # <<>>
    /\ got' = [got EXCEPT ![t] = @ \o q[t]] /\ q' = [q EXCEPT ![t] = <<>>]
    /\ UNCHANGED <<src, fed, closed, taps, v, todo, since>>

\* tap! appends to the list (each channel once here); untap! removes it.
Tap(t) ==
    /\ since[t] = None
    /\ taps' = Append(taps, t) /\ since' = [since EXCEPT ![t] = Taken]
    /\ UNCHANGED <<userVars, v, todo>>
Untap(t) ==
    /\ t \in Range(taps) /\ taps' = SelectSeq(taps, LAMBDA u : u # t)
    /\ UNCHANGED <<userVars, v, todo, since>>

-----------------------------------------------------------------------------
(* The relay *)

\* It takes a value and a copy of the list, ...
RelayTake ==
    /\ v = None /\ src # <<>>
    /\ v' = Head(src) /\ src' = <<>> /\ todo' = taps
    /\ UNCHANGED <<fed, closed, q, got, taps, since>>

\* Mutant: a tap without room is passed over.
NoWait(t) == TRUE

\* ... puts it into one tap after the other, waiting for room (a closed tap
\* answers false and is passed over), ...
CanPut(t) == t \in closed \/ q[t] = <<>>
RelayPut ==
    LET t == Head(todo)
    IN  /\ todo # <<>> /\ CanPut(t)
        /\ q' = IF t \notin closed /\ q[t] = <<>> THEN [q EXCEPT ![t] = <<v>>] ELSE q
        /\ todo' = Tail(todo)
        /\ UNCHANGED <<src, fed, closed, got, taps, v, since>>
RelayNext ==
    /\ v \notin {None, Done} /\ todo = <<>> /\ v' = None
    /\ UNCHANGED <<userVars, taps, todo, since>>

\* Mutant: the task ends without closing anything.
NotClosed == closed

\* ... and, when the source is closed and drained, closes the taps there are (all
\* were tapped with close? true here).
ClosedAtEnd == closed \cup Range(taps)
RelayEnd ==
    /\ v = None /\ src = <<>> /\ None \in closed
    /\ closed' = ClosedAtEnd /\ v' = Done
    /\ UNCHANGED <<src, fed, q, got, taps, todo, since>>

RelayStep == RelayTake \/ RelayPut \/ RelayNext \/ RelayEnd
Next ==
    \/ Feed \/ RelayStep
    \/ \E c \in Taps \cup {None} : Close(c)
    \/ \E t \in Taps : Consume(t) \/ Tap(t) \/ Untap(t)

\* The task runs on the executor; the taps are read.
Fairness == WF_vars(RelayStep) /\ \A t \in Taps : WF_vars(Consume(t))
Spec == Init /\ [][Next]_vars /\ Fairness

-----------------------------------------------------------------------------
(* Properties *)

\* A tap that nobody closed or removed receives every value the relay took after
\* it was tapped, in order and once, whatever happens to the other taps; and once
\* the source is closed and drained the taps of that moment are closed.
InHand(t) == IF v \notin {None, Done} /\ t \in Range(todo) THEN 1 ELSE 0
TapsSeeAll ==
    [](\A t \in Range(taps) \ closed :
          got[t] \o q[t] = [n \in 1..(Taken - since[t] - InHand(t)) |-> since[t] + n])
TapsClose ==
    \A t \in Taps : (None \in closed /\ v # Done /\ t \in Range(taps)) ~> (t \in closed \/ t \notin Range(taps))
=============================================================================
