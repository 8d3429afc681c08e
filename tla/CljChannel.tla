----------------------------- MODULE CljChannel -----------------------------
(***************************************************************************)
(* crates/cljrs-async/src/channel.rs: the CSP channel of clojure.core.async *)
(* with the builtins that use it (take!, put!, poll!, offer!, close!, <!!   *)
(* and >!!, crates/cljrs-async/src/builtins.rs).                            *)
(*                                                                          *)
(* A channel and its users live on one executor thread (a Value is !Send    *)
(* and the executor is a current_thread LocalSet), so one poll of a task,   *)
(* from the point where it is resumed to its next await, is one atomic      *)
(* step.  What interleaves is the polls.  The order in which ready tasks    *)
(* are polled is left open.                                                 *)
(*                                                                          *)
(* Every task performs one operation, and a producer sends its own name as  *)
(* the value, so each value is sent by exactly one put.                     *)
(***************************************************************************)
EXTENDS Notify, Integers, FiniteSets

CONSTANTS
    Capacity,     \* buffer size; 0 is a rendezvous channel
    Takers,       \* take! futures
    Putters,      \* put! futures
    Pollers,      \* poll! calls
    Offerers,     \* offer! calls
    SyncTakers,   \* <!! calls
    SyncPutters,  \* >!! calls
    Nil,          \* the Clojure value nil
    None          \* "no result yet" / "nobody"

Consumers == Takers \cup Pollers \cup SyncTakers
Producers == Putters \cup Offerers \cup SyncPutters
Tasks     == Consumers \cup Producers

ASSUME CapacityAssumption == Capacity \in Nat

ASSUME TasksAssumption ==
    /\ Takers \cap (Pollers \cup SyncTakers \cup Producers) = {}
    /\ Pollers \cap (SyncTakers \cup Producers) = {}
    /\ SyncTakers \cap Producers = {}
    /\ Putters \cap (Offerers \cup SyncPutters) = {}
    /\ Offerers \cap SyncPutters = {}
    /\ Nil \notin Tasks /\ None \notin Tasks /\ Nil # None

VARIABLES
    queue,        \* ChannelState.queue
    closed,       \* ChannelState.closed
    taken,        \* ChannelState.taken, the count of successful takes
    notEmpty,     \* async_not_empty
    notFull,      \* async_not_full
    pc,           \* "new", "ready" (will be polled), "parked", "done"
    token,        \* the offer token of a rendezvous put!, NoToken before it
    got,          \* what a consumer's call returned, None before that
    accepted,     \* what a producer's call returned
    holder,       \* the <!! / >!! call that blocks the executor thread
    sent,         \* history: the values pushed, in order
    received,     \* history: the values popped by consumers, in order
    withdrawn     \* history: the offer taken back by its putter, if any

chanVars == <<queue, closed, taken, sent, received, withdrawn>>
vars == <<chanVars, notEmpty, notFull, pc, token, got, accepted, holder>>

NoToken    == -1
Rendezvous == Capacity = 0

Init ==
    /\ queue = <<>> /\ closed = FALSE /\ taken = 0
    /\ notEmpty = NewNotify /\ notFull = NewNotify
    /\ pc = [t \in Tasks |-> "new"]
    /\ token = [p \in Putters |-> NoToken]
    /\ got = [t \in Consumers |-> None]
    /\ accepted = [p \in Producers |-> "pending"]
    /\ holder = None
    /\ sent = <<>> /\ received = <<>> /\ withdrawn = <<>>

-----------------------------------------------------------------------------
(* Scheduling *)

\* The executor thread is free to poll t: no blocking call holds it.
Runs(t, label) == holder = None /\ pc[t] = label

\* t moves to label and the tasks in woken become ready.
Moves(t, label, woken) ==
    pc' = [u \in Tasks |-> IF u = t THEN label
                           ELSE IF u \in woken THEN "ready" ELSE pc[u]]

Returns(t, value)  == got' = [got EXCEPT ![t] = value]
Resolves(p, value) == accepted' = [accepted EXCEPT ![p] = value]

-----------------------------------------------------------------------------
(* Changes of ChannelState *)

\* A value leaves the front of the queue for a consumer.
PopFront ==
    /\ queue' = Tail(queue)
    /\ taken' = taken + 1
    /\ received' = Append(received, Head(queue))
    /\ UNCHANGED <<closed, sent, withdrawn>>

\* Faulty variant: the value is pushed at the front.
PushBackAtFront(p) ==
    /\ queue' = <<p>> \o queue
    /\ sent' = Append(sent, p)
    /\ UNCHANGED <<closed, taken, received, withdrawn>>

\* A producer's value enters the back of the queue.
PushBack(p) ==
    /\ queue' = Append(queue, p)
    /\ sent' = Append(sent, p)
    /\ UNCHANGED <<closed, taken, received, withdrawn>>

\* Faulty variants: off by one at the capacity; an occupied rendezvous slot
\* taken for a free one.
HasRoomOffByOne == IF Rendezvous THEN queue = <<>> ELSE Len(queue) <= Capacity
HasRoomAlways   == Rendezvous \/ Len(queue) < Capacity

HasRoom == IF Rendezvous THEN queue = <<>> ELSE Len(queue) < Capacity

\* Faulty variant: the take forgets to notify the putters.
TryTakeSilently(t) ==
    /\ queue # <<>>
    /\ PopFront
    /\ Moves(t, "done", {})
    /\ Returns(t, Head(queue))
    /\ UNCHANGED <<notEmpty, notFull, token, accepted, holder>>

\* try_take, the Some(v) outcome: pop and fire both not_full signals.
TryTakeValue(t) ==
    /\ queue # <<>>
    /\ PopFront
    /\ notFull' = NotifyOne(notFull)
    /\ Moves(t, "done", WokenBy(notFull))
    /\ Returns(t, Head(queue))
    /\ UNCHANGED <<notEmpty, token, accepted, holder>>

\* Faulty variant: the closed flag is not looked at.
EnqueuesThoughClosed(p) ==
    /\ HasRoom
    /\ PushBack(p)
    /\ notEmpty' = NotifyOne(notEmpty)

\* try_put_buffered and rv_offer accept the value and fire both not_empty
\* signals.
Enqueues(p) ==
    /\ ~closed
    /\ HasRoom
    /\ PushBack(p)
    /\ notEmpty' = NotifyOne(notEmpty)

-----------------------------------------------------------------------------
(* take!, put!: a call spawns a future; the executor polls it later. *)

Spawn(t) ==
    /\ t \in Takers \cup Putters
    /\ Runs(t, "new")
    /\ Moves(t, "ready", {})
    /\ UNCHANGED <<chanVars, notEmpty, notFull, token, got, accepted, holder>>

\* take: a value is there.
TakeValue(t) == Runs(t, "ready") /\ TryTakeValue(t)

\* Faulty variants: nil before the buffer is drained; no cascade.
TakeNilUndrained(t) ==
    /\ Runs(t, "ready")
    /\ closed
    /\ notEmpty' = NotifyOne(notEmpty)
    /\ Moves(t, "done", WokenBy(notEmpty))
    /\ Returns(t, Nil)
    /\ UNCHANGED <<chanVars, notFull, token, accepted, holder>>

TakeNilNoCascade(t) ==
    /\ Runs(t, "ready")
    /\ queue = <<>> /\ closed
    /\ Moves(t, "done", {})
    /\ Returns(t, Nil)
    /\ UNCHANGED <<chanVars, notEmpty, notFull, token, accepted, holder>>

\* take: closed and drained; cascade so that other parked takers wake too.
TakeNil(t) ==
    /\ Runs(t, "ready")
    /\ queue = <<>> /\ closed
    /\ notEmpty' = NotifyOne(notEmpty)
    /\ Moves(t, "done", WokenBy(notEmpty))
    /\ Returns(t, Nil)
    /\ UNCHANGED <<chanVars, notFull, token, accepted, holder>>

\* take: open and empty; wait on async_not_empty.
TakePark(t) ==
    /\ Runs(t, "ready")
    /\ queue = <<>> /\ ~closed
    /\ notEmpty' = ParkOn(notEmpty, t)
    /\ Moves(t, "parked", {})
    /\ UNCHANGED <<chanVars, notFull, token, got, accepted, holder>>

Take(t) == TakeValue(t) \/ TakeNil(t) \/ TakePark(t)

\* Faulty variant: the value is buffered without notifying the takers.
PutBufferedSilently(p) ==
    /\ Runs(p, "ready") /\ ~Rendezvous
    /\ ~closed /\ HasRoom
    /\ PushBack(p)
    /\ Moves(p, "done", {})
    /\ Resolves(p, "true")
    /\ UNCHANGED <<notEmpty, notFull, token, got, holder>>

\* put on a buffered channel: try_put_buffered accepts.
PutBuffered(p) ==
    /\ Runs(p, "ready") /\ ~Rendezvous
    /\ Enqueues(p)
    /\ Moves(p, "done", WokenBy(notEmpty))
    /\ Resolves(p, "true")
    /\ UNCHANGED <<notFull, token, got, holder>>

\* Faulty variant: success reported for a value that was dropped.
PutClosedTrue(p) ==
    /\ Runs(p, "ready") /\ token[p] = NoToken
    /\ closed
    /\ Moves(p, "done", {})
    /\ Resolves(p, "true")
    /\ UNCHANGED <<chanVars, notEmpty, notFull, token, got, holder>>

\* put on a closed channel (no offer made yet): resolves false at once.  A
\* putter, unlike a taker, passes no notification on.
PutClosed(p) ==
    /\ Runs(p, "ready") /\ token[p] = NoToken
    /\ closed
    /\ Moves(p, "done", {})
    /\ Resolves(p, "false")
    /\ UNCHANGED <<chanVars, notEmpty, notFull, token, got, holder>>

\* Faulty variant: a putter that must wait passes its notification on.
PutParkPassesOn(p) ==
    /\ Runs(p, "ready") /\ token[p] = NoToken
    /\ ~closed /\ ~HasRoom
    /\ notFull' = ParkOn(NotifyOne(notFull), p)
    /\ Moves(p, "parked", WokenBy(notFull))
    /\ UNCHANGED <<chanVars, notEmpty, token, got, accepted, holder>>

\* put without room: wait on async_not_full.
PutPark(p) ==
    /\ Runs(p, "ready") /\ token[p] = NoToken
    /\ ~closed /\ ~HasRoom
    /\ notFull' = ParkOn(notFull, p)
    /\ Moves(p, "parked", {})
    /\ UNCHANGED <<chanVars, notEmpty, token, got, accepted, holder>>

\* Faulty variant: the token is one off.
RvOfferTokenOff(p) ==
    /\ Runs(p, "ready") /\ Rendezvous /\ token[p] = NoToken
    /\ Enqueues(p)
    /\ token' = [token EXCEPT ![p] = taken + 1]
    /\ notFull' = ParkOn(notFull, p)
    /\ Moves(p, "parked", WokenBy(notEmpty))
    /\ UNCHANGED <<got, accepted, holder>>

\* Rendezvous phase 1: rv_offer claims the slot, snapshots the take count and,
\* within the same poll, phase 2 finds the offer Waiting and parks.  (Waiting
\* is never the answer again: WokenOfferIsSettled.)
RvOffer(p) ==
    /\ Runs(p, "ready") /\ Rendezvous /\ token[p] = NoToken
    /\ Enqueues(p)
    /\ token' = [token EXCEPT ![p] = taken]
    /\ notFull' = ParkOn(notFull, p)
    /\ Moves(p, "parked", WokenBy(notEmpty))
    /\ UNCHANGED <<got, accepted, holder>>

\* Faulty variant: any wake-up counts as the handoff.
RvTakenUnchecked(p) ==
    /\ Runs(p, "ready") /\ token[p] # NoToken
    /\ Moves(p, "done", {})
    /\ Resolves(p, "true")
    /\ UNCHANGED <<chanVars, notEmpty, notFull, token, got, holder>>

\* Rendezvous phase 2, rv_status = Taken: the take count moved on.
RvTaken(p) ==
    /\ Runs(p, "ready") /\ token[p] # NoToken
    /\ taken # token[p]
    /\ Moves(p, "done", {})
    /\ Resolves(p, "true")
    /\ UNCHANGED <<chanVars, notEmpty, notFull, token, got, holder>>

\* Faulty variants: closed is tested before the take count; the offer stays in
\* the slot.
RvClosedFirst(p) ==
    /\ Runs(p, "ready") /\ token[p] # NoToken
    /\ closed
    /\ queue' = IF queue = <<>> THEN <<>> ELSE Tail(queue)
    /\ withdrawn' = IF queue = <<>> THEN withdrawn
                    ELSE Append(withdrawn, Head(queue))
    /\ Moves(p, "done", {})
    /\ Resolves(p, "false")
    /\ UNCHANGED <<closed, taken, sent, received>>
    /\ UNCHANGED <<notEmpty, notFull, token, got, holder>>

RvClosedNotCancelled(p) ==
    /\ Runs(p, "ready") /\ token[p] # NoToken
    /\ taken = token[p] /\ closed
    /\ Moves(p, "done", {})
    /\ Resolves(p, "false")
    /\ UNCHANGED <<chanVars, notEmpty, notFull, token, got, holder>>

\* Rendezvous phase 2, rv_status = ClosedUntaken: pop_front cancels the offer.
RvClosedUntaken(p) ==
    /\ Runs(p, "ready") /\ token[p] # NoToken
    /\ taken = token[p] /\ closed
    /\ queue' = IF queue = <<>> THEN <<>> ELSE Tail(queue)
    /\ withdrawn' = IF queue = <<>> THEN withdrawn
                    ELSE Append(withdrawn, Head(queue))
    /\ Moves(p, "done", {})
    /\ Resolves(p, "false")
    /\ UNCHANGED <<closed, taken, sent, received>>
    /\ UNCHANGED <<notEmpty, notFull, token, got, holder>>

Put(p) ==
    \/ PutBuffered(p) \/ PutClosed(p) \/ PutPark(p)
    \/ RvOffer(p) \/ RvTaken(p) \/ RvClosedUntaken(p)

-----------------------------------------------------------------------------
(* close!, poll!, offer!: synchronous builtins, never park *)

Close ==
    /\ holder = None
    /\ closed' = TRUE
    /\ notEmpty' = NotifyOne(notEmpty)
    /\ notFull' = NotifyOne(notFull)
    /\ pc' = [u \in Tasks |-> IF u \in WokenBy(notEmpty) \cup WokenBy(notFull)
                              THEN "ready" ELSE pc[u]]
    /\ UNCHANGED <<queue, taken, sent, received, withdrawn>>
    /\ UNCHANGED <<token, got, accepted, holder>>

PollValue(t) == Runs(t, "new") /\ TryTakeValue(t)

PollNil(t) ==
    /\ Runs(t, "new")
    /\ queue = <<>>
    /\ Moves(t, "done", {})
    /\ Returns(t, Nil)
    /\ UNCHANGED <<chanVars, notEmpty, notFull, token, accepted, holder>>

OfferAccepted(p) ==
    /\ Runs(p, "new") /\ ~Rendezvous
    /\ Enqueues(p)
    /\ Moves(p, "done", WokenBy(notEmpty))
    /\ Resolves(p, "true")
    /\ UNCHANGED <<notFull, token, got, holder>>

OfferRefused(p) ==
    /\ Runs(p, "new")
    /\ Rendezvous \/ closed \/ ~HasRoom
    /\ Moves(p, "done", {})
    /\ Resolves(p, "false")
    /\ UNCHANGED <<chanVars, notEmpty, notFull, token, got, holder>>

-----------------------------------------------------------------------------
(* <!!, >!!: they run on the executor thread and signal only the condition  *)
(* variables not_empty / not_full, never the two Notifys.  A call that has  *)
(* to wait keeps the thread: it re-checks every millisecond, and since no   *)
(* other task can run in between, every re-check finds the same state.      *)

\* Faulty variant: <!! returns the front value and leaves it in the queue.
TakeBlockingPeek(t) ==
    /\ Runs(t, "new")
    /\ queue # <<>>
    /\ Moves(t, "done", {})
    /\ Returns(t, Head(queue))
    /\ UNCHANGED <<chanVars, notEmpty, notFull, token, accepted, holder>>

TakeBlockingValue(t) ==
    /\ Runs(t, "new")
    /\ queue # <<>>
    /\ PopFront
    /\ Moves(t, "done", {})
    /\ Returns(t, Head(queue))
    /\ UNCHANGED <<notEmpty, notFull, token, accepted, holder>>

TakeBlockingNil(t) ==
    /\ Runs(t, "new")
    /\ queue = <<>> /\ closed
    /\ Moves(t, "done", {})
    /\ Returns(t, Nil)
    /\ UNCHANGED <<chanVars, notEmpty, notFull, token, accepted, holder>>

TakeBlockingWait(t) ==
    /\ Runs(t, "new")
    /\ queue = <<>> /\ ~closed
    /\ holder' = t
    /\ Moves(t, "parked", {})
    /\ UNCHANGED <<chanVars, notEmpty, notFull, token, got, accepted>>

\* put_blocking, buffered: room.
PutBlockingBuffered(p) ==
    /\ Runs(p, "new") /\ ~Rendezvous
    /\ ~closed /\ HasRoom
    /\ PushBack(p)
    /\ Moves(p, "done", {})
    /\ Resolves(p, "true")
    /\ UNCHANGED <<notEmpty, notFull, token, got, holder>>

\* put_blocking, rendezvous: the offer is made, then phase 2 waits for a taker
\* while holding the thread every taker would need.
PutBlockingOffer(p) ==
    /\ Runs(p, "new") /\ Rendezvous
    /\ ~closed /\ HasRoom
    /\ PushBack(p)
    /\ holder' = p
    /\ Moves(p, "parked", {})
    /\ UNCHANGED <<notEmpty, notFull, token, got, accepted>>

PutBlockingClosed(p) ==
    /\ Runs(p, "new")
    /\ closed
    /\ Moves(p, "done", {})
    /\ Resolves(p, "false")
    /\ UNCHANGED <<chanVars, notEmpty, notFull, token, got, holder>>

PutBlockingWait(p) ==
    /\ Runs(p, "new")
    /\ ~closed /\ ~HasRoom
    /\ holder' = p
    /\ Moves(p, "parked", {})
    /\ UNCHANGED <<chanVars, notEmpty, notFull, token, got, accepted>>

\* wait_timeout expires and the loop re-checks: nothing has changed.
BlockedRecheck == holder # None /\ UNCHANGED vars

-----------------------------------------------------------------------------
Next ==
    \/ \E t \in Takers \cup Putters : Spawn(t)
    \/ \E t \in Takers : Take(t)
    \/ \E p \in Putters : Put(p)
    \/ \E t \in Pollers : PollValue(t) \/ PollNil(t)
    \/ \E p \in Offerers : OfferAccepted(p) \/ OfferRefused(p)
    \/ \E t \in SyncTakers :
         TakeBlockingValue(t) \/ TakeBlockingNil(t) \/ TakeBlockingWait(t)
    \/ \E p \in SyncPutters :
         \/ PutBlockingBuffered(p) \/ PutBlockingOffer(p)
         \/ PutBlockingClosed(p) \/ PutBlockingWait(p)
    \/ Close
    \/ BlockedRecheck

Spec == Init /\ [][Next]_vars

\* The LocalSet polls every ready task again and again until it parks or ends.
FairSpec ==
    /\ Spec
    /\ \A t \in Takers : WF_vars(Take(t))
    /\ \A p \in Putters : WF_vars(Put(p))

-----------------------------------------------------------------------------
(* Properties *)

Elems(s) == {s[i] : i \in 1..Len(s)}

\* Type correctness of the channel and of every task's bookkeeping.
TypeOK ==
    /\ queue \in Seq(Producers)
    /\ closed \in BOOLEAN
    /\ taken \in Nat
    /\ notEmpty \in [waiters : Seq(Takers), permit : BOOLEAN]
    /\ notFull \in [waiters : Seq(Putters), permit : BOOLEAN]
    /\ pc \in [Tasks -> {"new", "ready", "parked", "done"}]
    /\ token \in [Putters -> Nat \cup {NoToken}]
    /\ got \in [Consumers -> Producers \cup {Nil, None}]
    /\ accepted \in [Producers -> {"pending", "true", "false"}]
    /\ holder \in SyncTakers \cup SyncPutters \cup {None}
    /\ sent \in Seq(Producers)
    /\ received \in Seq(Producers)
    /\ withdrawn \in Seq(Producers)

\* Values are received in the order they were sent, each exactly once, and
\* none is lost: what was sent is what was received, then what is still
\* queued, then an offer its own putter withdrew after the close.
FifoNoLoss == sent = received \o queue \o withdrawn

\* Comment of rv_status: "the slot stays full until our value is consumed".
\* A put! whose token still equals the take count owns the slot, so the
\* pop_front that cancels an offer after close! can only remove its own value.
OfferOwnsSlot ==
    \A p \in Putters :
        (pc[p] # "done" /\ token[p] # NoToken /\ token[p] = taken)
            => queue = <<p>>

\* A rendezvous put! is woken in phase 2 only for an answer, its handoff or the
\* close: on the Notify it shares with phase 1 no notification meant for
\* another putter reaches an offer that is still pending (loop of put()).
WokenOfferIsSettled ==
    \A p \in Putters :
        (pc[p] = "ready" /\ token[p] # NoToken) => (taken # token[p] \/ closed)

\* A rendezvous put! that saw the take count move was itself consumed, and a
\* buffered one is in the buffer or was consumed: true is never reported for
\* a value nobody can receive.
TrueMeansDelivered ==
    \A p \in Producers :
        accepted[p] = "true" =>
            \/ p \in Elems(received)
            \/ ~Rendezvous /\ p \in Elems(queue)

\* A put that resolved false is not in the channel and reached no consumer:
\* retrying it elsewhere cannot duplicate the value.
FalseMeansNeverReceived ==
    \A p \in Producers :
        accepted[p] = "false" => p \notin Elems(received) \cup Elems(queue)

\* nil from take! or <!! is the end of the stream: the channel is closed and
\* stays empty, so no value is ever stranded behind a nil.
NilMeansDrained ==
    \A t \in Takers \cup SyncTakers :
        got[t] = Nil => closed /\ queue = <<>>

\* The queue never outgrows the buffer; a rendezvous has one value in flight.
WithinCapacity == Len(queue) <= IF Rendezvous THEN 1 ELSE Capacity

\* What callers are told is what happened: values arrive in order, once, and
\* true, false and nil are truthful answers.
ChannelHonest ==
    FifoNoLoss /\ TrueMeansDelivered /\ FalseMeansNeverReceived /\ NilMeansDrained

\* No <!! or >!! was made: those signal the condition variables only, so that a
\* parked task may miss what they do, and while they wait no task is polled.
OnlyAsync == \A c \in SyncTakers \cup SyncPutters : pc[c] = "new"

\* No lost wake-up for takers: while a value waits in the queue and a take! is
\* parked, some take! has been woken and will be polled.
TakerWakeInFlight ==
    (OnlyAsync /\ queue # <<>> /\ notEmpty.waiters # <<>>)
        => \E t \in Takers : pc[t] = "ready"

\* No lost wake-up for putters of an open buffered channel: while there is room
\* and a put! is parked, some put! has been woken and will be polled.
PutterWakeInFlight ==
    (OnlyAsync /\ ~Rendezvous /\ ~closed /\ HasRoom /\ notFull.waiters # <<>>)
        => \E p \in Putters : pc[p] = "ready"

\* take() and put() pass a notification on: on neither side of the channel is one
\* lost while somebody could use it.
WakesInFlight == TakerWakeInFlight /\ PutterWakeInFlight

\* A channel that was closed never accepts another value (action property).
NothingSentAfterClose == [][closed => sent' = sent /\ closed']_vars

\* close! cascades through the takers: once the channel is closed every take!
\* already called resolves, unless a blocking call interferes.
ClosedTakersResolve ==
    \A t \in Takers : (closed /\ pc[t] # "new") ~> (pc[t] = "done" \/ ~OnlyAsync)

\* README, Channel model: on a closed channel "put! resolves false".  close()
\* says of async takers and putters "they cascade the notification on exit".
ClosedPuttersResolve ==
    \A p \in Putters : (closed /\ pc[p] # "new") ~> pc[p] = "done"

\* A put! on an open buffered channel does not stay parked beside a free slot:
\* it resolves, or others keep filling the buffer, or the channel is closed, or a
\* blocking call interferes.
RoomIsUsed ==
    \A p \in Putters :
        (pc[p] # "new" /\ ~Rendezvous)
            ~> (pc[p] = "done" \/ ~HasRoom \/ closed \/ ~OnlyAsync)

\* Asynchronous callers make progress: takers at the close, putters beside room.
WaitersProgress == ClosedTakersResolve /\ RoomIsUsed

-----------------------------------------------------------------------------
(* Documented behaviour that this model of the code does not have in general; *)
(* the README gives the executions.                                           *)

\* builtin_put: put! parks "while ... a rendezvous awaits a taker".  A putter
\* without an offer and a taker do not both stay parked.
RendezvousMeets ==
    \A p \in Putters, t \in Takers :
        (pc[p] \in {"ready", "parked"} /\ pc[t] \in {"ready", "parked"})
            ~> (pc[p] = "done" \/ pc[t] = "done")

\* async_not_full is "fired when an item is dequeued or the channel closes".
DequeueWakesPutter ==
    (notFull.waiters # <<>> /\ HasRoom)
        ~> (~HasRoom \/ notFull.waiters = <<>> \/ closed)

\* README, Phase H: <!! and >!! "remain non-deadlocking when called from the
\* LocalSet executor thread": a <!! that waits while a put! on the channel is
\* ready to run gets to return.
BlockingCallReturns ==
    (holder \in SyncTakers /\ \E p \in Putters : pc[p] = "ready")
        ~> (holder = None)

-----------------------------------------------------------------------------
(* The inductive invariant behind the safety properties *)

\* Every task in a Notify's list is parked there once, so a wake-up never hits
\* a task that is running or finished.
WaitersParked ==
    \A n \in {notEmpty, notFull} :
        /\ \A i, j \in 1..Len(n.waiters) : n.waiters[i] = n.waiters[j] => i = j
        /\ \A i \in 1..Len(n.waiters) : pc[n.waiters[i]] = "parked"

\* taken counts the receives, and sent is received, queue, withdrawn in a row.
Ledger ==
    /\ Len(received) = taken
    /\ Len(sent) = taken + Len(queue) + Len(withdrawn)
    /\ \A i \in 1..taken : sent[i] = received[i]
    /\ \A i \in 1..Len(queue) : sent[taken + i] = queue[i]
    /\ withdrawn # <<>> =>
         /\ Rendezvous /\ closed /\ queue = <<>>
         /\ Len(withdrawn) = 1 /\ sent[taken + 1] = withdrawn[1]

\* A producer that has not enqueued its value is not in sent, and no value is
\* sent twice.
NotSentYet(p) ==
    \/ pc[p] = "new"
    \/ p \in Putters /\ pc[p] # "done" /\ token[p] = NoToken

SentOnce ==
    /\ \A i, j \in 1..Len(sent) : sent[i] = sent[j] => i = j
    /\ \A p \in Producers :
         NotSentYet(p) => \A i \in 1..Len(sent) : sent[i] # p

\* Where the value of a put! with a token sits, and that an offer whose token
\* is current has not been withdrawn.
TokenMarksOffer ==
    \A p \in Putters :
        token[p] # NoToken =>
            /\ Rendezvous
            /\ pc[p] # "new"
            /\ token[p] <= taken
            /\ token[p] < Len(sent)
            /\ sent[token[p] + 1] = p
            /\ (pc[p] # "done" /\ token[p] = taken) => withdrawn = <<>>

\* Calls have answered exactly when their task is done, and each answer fits
\* the place of the producer's value in sent.
Answers ==
    /\ \A t \in Consumers : pc[t] = "done" <=> got[t] # None
    /\ \A p \in Producers :
         /\ pc[p] = "done" <=> accepted[p] # "pending"
         /\ accepted[p] = "true" =>
              \E i \in 1..Len(sent) :
                  sent[i] = p /\ i <= IF Rendezvous THEN taken
                                      ELSE taken + Len(queue)
         /\ accepted[p] = "false" =>
              \A i \in 1..Len(sent) : sent[i] = p => withdrawn = <<p>>

IndInv ==
    /\ TypeOK
    /\ WaitersParked
    /\ Ledger
    /\ SentOnce
    /\ TokenMarksOffer
    /\ Answers
    /\ WithinCapacity
    /\ NilMeansDrained

-----------------------------------------------------------------------------
\* The detailed channel implements the abstract one.
Abs == INSTANCE AbstractChannel WITH
           buffer <- queue, sent <- Elems(sent), delivered <- received
ImplementsChannel == Abs!Spec
=============================================================================
