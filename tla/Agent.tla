------------------------------- MODULE Agent -------------------------------
(***************************************************************************)
(* Clojure agents: Agent (cljrs-value, types.rs), send, await-agent and     *)
(* restart-agent with the synchronous drain (cljrs-builtins, builtins.rs),  *)
(* the asynchronous drainer (cljrs-async, runtime.rs) and (await agent)     *)
(* (cljrs-async, eval_async.rs).                                            *)
(*                                                                          *)
(* An agent is used on one thread only.  An action is user code: it returns *)
(* a value, hands back a future the drainer awaits, or throws; while it     *)
(* runs it may send to its own agent.  Taking an action from the mailbox    *)
(* and finishing it are two steps, so that sends by the action itself, and  *)
(* by other tasks while an asynchronous action is suspended, come between.  *)
(* The value of the agent is the sequence of the actions applied to it.     *)
(***************************************************************************)
EXTENDS Naturals, Sequences

CONSTANTS
    Actions,       \* actions, each sent by at most one send / send-off
    Awaiters,      \* tasks in (await agent)
    AwaitAgents,   \* calls of await-agent
    HasExecutor,   \* an asynchronous runtime is installed
    MaxRestarts,   \* bound on the number of restart-agent calls
    None

ASSUME AgentAssumption ==
    /\ HasExecutor \in BOOLEAN
    /\ MaxRestarts \in Nat
    /\ Awaiters \cap AwaitAgents = {}
    /\ None \notin Actions

VARIABLES
    state,      \* Agent.state: the actions applied since the last restart
    error,      \* Agent.error is Some
    queue,      \* Agent.queue
    draining,   \* Agent.draining
    wakers,     \* Agent.wakers: the tasks parked in (await agent)
    drainer,    \* who drains: "none", a "task" of the executor, or a "sync" call
    running,    \* the action being applied
    old,        \* the state it was given
    pc,         \* progress of the awaits
    restarts,   \* bounded by MaxRestarts
    unsent,     \* actions not sent yet
    accepted,   \* history: actions sent and not dropped by :clear-actions
    popped,     \* history: actions taken from the mailbox
    before      \* history: what had been accepted when an await was called

histVars == <<unsent, accepted, popped, before>>
vars == <<state, error, queue, draining, wakers, drainer, running, old, pc,
          restarts, histVars>>

Elems(s) == {s[i] : i \in 1..Len(s)}

Init ==
    /\ state = <<>> /\ error = FALSE /\ queue = <<>>
    /\ draining = FALSE /\ drainer = "none"
    /\ wakers = {}
    /\ running = None /\ old = <<>>
    /\ pc = [w \in Awaiters \cup AwaitAgents |-> "new"]
    /\ restarts = 0
    /\ unsent = Actions /\ accepted = <<>> /\ popped = <<>>
    /\ before = [w \in Awaiters |-> {}]

\* notify_idle: every task in (await agent) is scheduled again.
NotifyIdle ==
    /\ wakers' = {}
    /\ pc' = [w \in Awaiters \cup AwaitAgents |->
                IF w \in wakers THEN "ready" ELSE pc[w]]

\* agent_schedule_drain: nothing to do while a drainer is scheduled or running;
\* otherwise spawn the drainer, or drain here when there is no executor.
ScheduleDrain ==
    /\ draining' = TRUE
    /\ drainer' = IF draining THEN drainer
                  ELSE IF HasExecutor THEN "task" ELSE "sync"

\* The drainer stops: the mailbox is empty or the agent has failed.
StopDraining ==
    /\ draining' = FALSE /\ drainer' = "none" /\ running' = None
    /\ NotifyIdle

\* Nobody holds the executor thread: tasks can be polled.
ThreadFree == drainer # "sync"

\* User code that can call send, restart-agent or await-agent is running: during
\* a synchronous drain that is only the action being applied.
CanCall == ThreadFree \/ running # None

-----------------------------------------------------------------------------
(* send, send-off *)

\* Faulty variants: the newest action goes first; a failed agent accepts.
SendAtFront(x) ==
    /\ CanCall /\ x \in unsent /\ ~error
    /\ queue' = <<x>> \o queue
    /\ ScheduleDrain
    /\ unsent' = unsent \ {x} /\ accepted' = Append(accepted, x)
    /\ UNCHANGED <<state, error, wakers, running, old, pc, restarts, popped, before>>

SendThoughFailed(x) ==
    /\ CanCall /\ x \in unsent
    /\ queue' = Append(queue, x)
    /\ ScheduleDrain
    /\ unsent' = unsent \ {x} /\ accepted' = Append(accepted, x)
    /\ UNCHANGED <<state, error, wakers, running, old, pc, restarts, popped, before>>

\* A failed agent refuses the action.
Send(x) ==
    /\ CanCall /\ x \in unsent /\ ~error
    /\ queue' = Append(queue, x)
    /\ ScheduleDrain
    /\ unsent' = unsent \ {x} /\ accepted' = Append(accepted, x)
    /\ UNCHANGED <<state, error, wakers, running, old, pc, restarts, popped, before>>

-----------------------------------------------------------------------------
(* The drain loop, the same for the executor task and the synchronous drain *)

DrainNext ==
    /\ drainer # "none" /\ running = None /\ queue # <<>>
    /\ running' = Head(queue)
    /\ queue' = Tail(queue)
    /\ popped' = Append(popped, Head(queue))
    /\ old' = state
    /\ UNCHANGED <<state, error, draining, wakers, drainer, pc, restarts>>
    /\ UNCHANGED <<unsent, accepted, before>>

\* Faulty variant: the awaits are not woken.
DrainEndsSilently ==
    /\ drainer # "none" /\ running = None /\ queue = <<>>
    /\ draining' = FALSE /\ drainer' = "none" /\ running' = None
    /\ UNCHANGED <<state, error, queue, wakers, old, pc, restarts, histVars>>

DrainEnds ==
    /\ drainer # "none" /\ running = None /\ queue = <<>>
    /\ StopDraining
    /\ UNCHANGED <<state, error, queue, old, restarts, histVars>>

\* The action returned and the watches ran without error.
ActionReturns ==
    /\ running # None
    /\ state' = Append(old, running)
    /\ running' = None
    /\ UNCHANGED <<error, queue, draining, wakers, drainer, old, pc, restarts,
                   histVars>>

\* The action threw: record the error, stop, keep the queue.
ActionThrows ==
    /\ running # None
    /\ error' = TRUE
    /\ StopDraining
    /\ UNCHANGED <<state, queue, old, restarts, histVars>>

\* The action returned and a watch threw: the new state stays.
WatchThrows ==
    /\ running # None
    /\ state' = Append(old, running)
    /\ error' = TRUE
    /\ StopDraining
    /\ UNCHANGED <<queue, old, restarts, histVars>>

-----------------------------------------------------------------------------
(* restart-agent, with and without :clear-actions *)

\* Faulty variants: restart does not need a failed agent; the queue is kept
\* and not drained.
RestartAnytime(clear) ==
    /\ CanCall /\ restarts < MaxRestarts
    /\ error' = FALSE
    /\ state' = <<>>
    /\ queue' = IF clear THEN <<>> ELSE queue
    /\ accepted' = IF clear THEN popped ELSE accepted
    /\ IF queue' # <<>> THEN ScheduleDrain ELSE UNCHANGED <<draining, drainer>>
    /\ restarts' = restarts + 1
    /\ UNCHANGED <<wakers, running, old, pc, unsent, popped, before>>

RestartNoDrain(clear) ==
    /\ CanCall /\ error /\ restarts < MaxRestarts
    /\ error' = FALSE
    /\ state' = <<>>
    /\ queue' = IF clear THEN <<>> ELSE queue
    /\ accepted' = IF clear THEN popped ELSE accepted
    /\ restarts' = restarts + 1
    /\ UNCHANGED <<draining, drainer, wakers, running, old, pc, unsent, popped, before>>

Restart(clear) ==
    /\ CanCall /\ error /\ restarts < MaxRestarts
    /\ error' = FALSE
    /\ state' = <<>>
    /\ queue' = IF clear THEN <<>> ELSE queue
    /\ accepted' = IF clear THEN popped ELSE accepted
    /\ IF queue' # <<>> THEN ScheduleDrain ELSE UNCHANGED <<draining, drainer>>
    /\ restarts' = restarts + 1
    /\ UNCHANGED <<wakers, running, old, pc, unsent, popped, before>>

-----------------------------------------------------------------------------
(* Waiting for an agent *)

\* Faulty variant: an empty mailbox counts as idle.
IsIdleEmptyQueue == queue = <<>>

IsIdle == ~draining /\ queue = <<>>

\* (await agent) is called: what was sent so far is what it waits for.
AwaitCalled(w) ==
    /\ ThreadFree /\ pc[w] = "new"
    /\ before' = [before EXCEPT ![w] = Elems(accepted)]
    /\ pc' = [pc EXCEPT ![w] = "ready"]
    /\ UNCHANGED <<state, error, queue, draining, wakers, drainer, running, old,
                   restarts, unsent, accepted, popped>>

AwaitReturns(w) ==
    /\ ThreadFree /\ pc[w] = "ready"
    /\ IsIdle \/ error
    /\ pc' = [pc EXCEPT ![w] = IF error THEN "failed" ELSE "idle"]
    /\ UNCHANGED <<state, error, queue, draining, wakers, drainer, running, old,
                   restarts, histVars>>

AwaitParks(w) ==
    /\ ThreadFree /\ pc[w] = "ready"
    /\ ~IsIdle /\ ~error
    /\ wakers' = wakers \cup {w}
    /\ pc' = [pc EXCEPT ![w] = "parked"]
    /\ UNCHANGED <<state, error, queue, draining, drainer, running, old, restarts,
                   histVars>>

\* await-agent: drain here if actions are pending and nobody drains.
AwaitAgent(w) ==
    /\ CanCall /\ pc[w] = "new"
    /\ pc' = [pc EXCEPT ![w] = "idle"]
    /\ IF ~draining /\ queue # <<>>
       THEN draining' = TRUE /\ drainer' = "sync"
       ELSE UNCHANGED <<draining, drainer>>
    /\ UNCHANGED <<state, error, queue, wakers, running, old, restarts, histVars>>

-----------------------------------------------------------------------------
Drain    == DrainNext \/ DrainEnds \/ ActionReturns \/ ActionThrows \/ WatchThrows
Await(w) == AwaitReturns(w) \/ AwaitParks(w)

\* No more calls will come: the program has nothing left to do.
AllDone ==
    /\ unsent = {} \/ error
    /\ ~draining
    /\ \A w \in Awaiters \cup AwaitAgents : pc[w] \in {"idle", "failed"}
    /\ UNCHANGED vars

Next ==
    \/ \E x \in Actions : Send(x)
    \/ Drain
    \/ \E clear \in BOOLEAN : Restart(clear)
    \/ \E w \in Awaiters : AwaitCalled(w) \/ Await(w)
    \/ \E w \in AwaitAgents : AwaitAgent(w)
    \/ AllDone

Spec == Init /\ [][Next]_vars

\* The executor polls the drainer and the awaits; actions end.
FairSpec ==
    /\ Spec
    /\ WF_vars(Drain)
    /\ \A w \in Awaiters : WF_vars(Await(w))

-----------------------------------------------------------------------------
(* Properties *)

\* Type correctness.
TypeOK ==
    /\ state \in Seq(Actions)
    /\ error \in BOOLEAN
    /\ queue \in Seq(Actions)
    /\ draining \in BOOLEAN
    /\ wakers \subseteq Awaiters
    /\ drainer \in {"none", "task", "sync"}
    /\ running \in Actions \cup {None}
    /\ old \in Seq(Actions)
    /\ pc \in [Awaiters \cup AwaitAgents ->
                 {"new", "ready", "parked", "idle", "failed"}]
    /\ restarts \in Nat
    /\ unsent \subseteq Actions
    /\ accepted \in Seq(Actions)
    /\ popped \in Seq(Actions)
    /\ before \in [Awaiters -> SUBSET Actions]

\* The mailbox is FIFO and loses nothing: the actions taken, then the ones
\* waiting, are the accepted ones in the order they were sent, through
\* failures and restarts.
InOrder == accepted = popped \o queue

\* Nobody called await-agent so far.  Its drain ignores the failure of the agent,
\* and then an action can run, and be overtaken by a restart, while failed.
NoAwaitAgent == \A w \in AwaitAgents : pc[w] = "new"

\* One drainer at a time, one action at a time: the state an action was given
\* is still the agent's state when its result replaces it, so no update is
\* lost (not even to a restart-agent), as long as await-agent is not called.
NoLostUpdate ==
    /\ draining <=> drainer # "none"
    /\ running # None => draining /\ (NoAwaitAgent => old = state)

\* A healthy agent with pending actions has a drainer: no send and no restart
\* is forgotten between the check of the draining flag and the end of a drain.
QueueIsServed == queue # <<>> /\ ~error => draining

\* runtime.rs of cljrs-async: through failures, restarts and sends from running actions the
\* mailbox stays in order, its updates are kept and it has somebody to serve it.
MailboxIntact == InOrder /\ NoLostUpdate /\ QueueIsServed

\* The drainers of send and restart-agent leave the mailbox of a failed agent
\* alone until it is restarted.  Only await-agent does not look at the error.
FailedAgentStopped == [][NoAwaitAgent /\ error => popped' = popped]_vars

\* (await agent) answers nil without failure only when every action sent before
\* the call has been applied or dropped by :clear-actions.
AwaitSeesActions ==
    \A w \in Awaiters :
        pc[w] = "idle" =>
            \A x \in before[w] :
                /\ x \notin Elems(queue)
                /\ x # running

\* Every (await agent) returns once the mailbox has drained or failed.
AwaitResolves == \A w \in Awaiters : pc[w] = "parked" ~> pc[w] \in {"idle", "failed"}

\* Every accepted action is taken up, or the agent fails first.
SendIsServed ==
    \A x \in Actions : x \in Elems(queue) ~> (x \notin Elems(queue) \/ error)

\* Neither an await nor an accepted action waits for ever, and an await that
\* returns has waited for the actions sent before it.
AgentServes == AwaitResolves /\ SendIsServed /\ []AwaitSeesActions

-----------------------------------------------------------------------------
(* Documented behaviour that this model of the code does not have in general; *)
(* the README gives the executions.                                           *)

\* Agent: "An action error puts the agent in a failed state; pending actions
\* stay queued until restart-agent".
PendingStayQueued == [][error => popped' = popped]_vars

\* is_idle is documented "No queued actions and no drainer running (also true
\* while failed)".
IdleWhileFailed == error => IsIdle

-----------------------------------------------------------------------------
(* The inductive invariant *)

\* A failed agent has no drainer unless await-agent brought one, and the awaits
\* that are parked are the registered ones.
Stopped ==
    /\ NoAwaitAgent /\ error => ~draining
    /\ \A w \in Awaiters : pc[w] = "parked" <=> w \in wakers
    /\ wakers # {} => draining

IndInv ==
    /\ TypeOK
    /\ InOrder
    /\ NoLostUpdate
    /\ QueueIsServed
    /\ Stopped
=============================================================================
