-------------------------- MODULE AbstractChannel --------------------------
(***************************************************************************)
(* What a core.async channel promises its users, without wake-ups, offer    *)
(* tokens or executor threads (crates/cljrs-async/README.md, "Channel       *)
(* model").  A value is sent at most once and received at most once, in     *)
(* order; a buffered put succeeds when the value enters the buffer, a       *)
(* rendezvous put when a consumer has it; false means no consumer ever      *)
(* gets the value; nil means closed and drained.                            *)
(***************************************************************************)
EXTENDS Sequences, Integers

CONSTANTS Capacity, Consumers, Producers, Nil, None,
          Pollers,   \* consumers that do not wait: nil also means "empty"
          Offerers   \* producers that do not wait: false also means "full"

VARIABLES buffer, closed, sent, delivered, got, accepted

absVars == <<buffer, closed, sent, delivered, got, accepted>>

Elems(s) == {s[i] : i \in 1..Len(s)}
Room     == IF Capacity = 0 THEN buffer = <<>> ELSE Len(buffer) < Capacity

Init ==
    /\ buffer = <<>> /\ closed = FALSE /\ sent = {} /\ delivered = <<>>
    /\ got = [c \in Consumers |-> None]
    /\ accepted = [p \in Producers |-> "pending"]

Answer(p, r) ==
    /\ accepted[p] = "pending"
    /\ accepted' = [accepted EXCEPT ![p] = r]

\* The value enters the channel; a buffered put has succeeded by that.
Send(p) ==
    /\ ~closed /\ Room /\ p \notin sent
    /\ buffer' = Append(buffer, p)
    /\ sent' = sent \cup {p}
    /\ IF Capacity = 0 THEN UNCHANGED accepted ELSE Answer(p, "true")
    /\ UNCHANGED <<closed, delivered, got>>

\* A rendezvous put learns that its value has been received.
Confirm(p) ==
    /\ p \in Elems(delivered)
    /\ Answer(p, "true")
    /\ UNCHANGED <<buffer, closed, sent, delivered, got>>

\* A put fails without having sent anything.
Refuse(p) ==
    /\ p \notin sent
    /\ closed \/ p \in Offerers
    /\ Answer(p, "false")
    /\ UNCHANGED <<buffer, closed, sent, delivered, got>>

\* A rendezvous put on a channel closed under it takes its own value back.
Withdraw(p) ==
    /\ closed /\ buffer = <<p>>
    /\ buffer' = <<>>
    /\ Answer(p, "false")
    /\ UNCHANGED <<closed, sent, delivered, got>>

Receive(c) ==
    /\ got[c] = None
    /\ buffer # <<>>
    /\ got' = [got EXCEPT ![c] = Head(buffer)]
    /\ delivered' = Append(delivered, Head(buffer))
    /\ buffer' = Tail(buffer)
    /\ UNCHANGED <<closed, sent, accepted>>

\* nil: the end of the stream, or for poll! nothing there right now.
ReceiveNil(c) ==
    /\ got[c] = None
    /\ buffer = <<>>
    /\ closed \/ c \in Pollers
    /\ got' = [got EXCEPT ![c] = Nil]
    /\ UNCHANGED <<buffer, closed, sent, delivered, accepted>>

CloseChannel ==
    /\ closed' = TRUE
    /\ UNCHANGED <<buffer, sent, delivered, got, accepted>>

Next ==
    \/ \E p \in Producers : Send(p) \/ Confirm(p) \/ Refuse(p) \/ Withdraw(p)
    \/ \E c \in Consumers : Receive(c) \/ ReceiveNil(c)
    \/ CloseChannel

Spec == Init /\ [][Next]_absVars
=============================================================================
