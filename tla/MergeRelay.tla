------------------------------ MODULE MergeRelay -----------------------------
(***************************************************************************)
(* merge (cljrs-async/src/core_async.cljrs): one go block per input channel      *)
(* relays its values to a common output of as many slots; a counter in an atom   *)
(* tells the last one to close it.                                              *)
(***************************************************************************)
EXTENDS Integers, Sequences, FiniteSets

CONSTANTS
    Inputs,
    MaxValues,  \* values put into each input
    None, Done

VARIABLES
    q,          \* input -> its queue, of capacity 1
    fed,        \* input -> values put into it
    closed,     \* inputs that are closed
    hand,       \* go block of an input: the value in hand, None while it takes
    out,        \* the queue of the output
    outClosed,
    remaining,
    got         \* history: how many values of each input came out
vars == <<q, fed, closed, hand, out, outClosed, remaining, got>>

Init ==
    /\ q = [i \in Inputs |-> <<>>] /\ fed = [i \in Inputs |-> 0] /\ closed = {}
    /\ hand = [i \in Inputs |-> None] /\ out = <<>> /\ outClosed = FALSE
    /\ remaining = Cardinality(Inputs) /\ got = [i \in Inputs |-> 0]

-----------------------------------------------------------------------------
Feed(i) ==
    /\ i \notin closed /\ q[i] = <<>> /\ fed[i] < MaxValues
    /\ fed' = [fed EXCEPT ![i] = @ + 1] /\ q' = [q EXCEPT ![i] = <<fed[i] + 1>>]
    /\ UNCHANGED <<closed, hand, out, outClosed, remaining, got>>
Close(i) ==
    /\ i \notin closed /\ closed' = closed \cup {i}
    /\ UNCHANGED <<q, fed, hand, out, outClosed, remaining, got>>
Consume ==
    /\ out # <<>>
    /\ out' = Tail(out) /\ got' = [got EXCEPT ![Head(out)] = @ + 1]
    /\ UNCHANGED <<q, fed, closed, hand, outClosed, remaining>>

Take(i) ==
    /\ hand[i] = None /\ q[i] # <<>>
    /\ hand' = [hand EXCEPT ![i] = Head(q[i])] /\ q' = [q EXCEPT ![i] = <<>>]
    /\ UNCHANGED <<fed, closed, out, outClosed, remaining, got>>

\* put! on the output: it waits for room, and answers false when it is closed.
Put(i) ==
    /\ hand[i] \notin {None, Done} /\ (outClosed \/ Len(out) < Cardinality(Inputs))
    /\ out' = IF outClosed THEN out ELSE Append(out, i)
    /\ hand' = [hand EXCEPT ![i] = None]
    /\ UNCHANGED <<q, fed, closed, outClosed, remaining, got>>

\* Mutant: the first input to end closes the output.
AtFirst(n) == TRUE

\* A drained input counts down, and the last one closes the output.
AtZero(n) == n = 0
End(i) ==
    /\ hand[i] = None /\ q[i] = <<>> /\ i \in closed
    /\ hand' = [hand EXCEPT ![i] = Done]
    /\ remaining' = remaining - 1
    /\ outClosed' = (outClosed \/ AtZero(remaining - 1))
    /\ UNCHANGED <<q, fed, closed, out, got>>

Step(i) == Take(i) \/ Put(i) \/ End(i)
Next == Consume \/ \E i \in Inputs : Feed(i) \/ Close(i) \/ Step(i)

\* Go blocks run on the executor; the output is read.
Fairness == WF_vars(Consume) /\ \A i \in Inputs : WF_vars(Step(i))
Spec == Init /\ [][Next]_vars /\ Fairness

-----------------------------------------------------------------------------
(* Properties *)

\* When the inputs are closed the output is closed and drained in the end, and by
\* then every value that was accepted by an input has come out.
MergeDelivers ==
    /\ (closed = Inputs) ~> (outClosed /\ out = <<>>)
    /\ [](outClosed /\ out = <<>> => got = fed)
=============================================================================
