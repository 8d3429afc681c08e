---------------------------- MODULE AgentProofs ----------------------------
(***************************************************************************)
(* Proofs about Agent, for any actions and awaits of both kinds and with or *)
(* without an executor.                                                     *)
(***************************************************************************)
EXTENDS Agent, SequenceTheorems, TLAPS

\* Taking the first pending action moves it from one sequence to the other.
LEMMA TakeFirst ==
    ASSUME NEW S, NEW p \in Seq(S), NEW q \in Seq(S), q # <<>>
    PROVE  Append(p, Head(q)) \o Tail(q) = p \o q
<1>1. Head(q) \in S /\ Tail(q) \in Seq(S)  BY HeadTailProperties
<1>2. Append(p, Head(q)) = p \o <<Head(q)>>  BY <1>1, AppendIsConcat
<1>3. <<Head(q)>> \o Tail(q) = q
  BY <1>1
<1>4. (p \o <<Head(q)>>) \o Tail(q) = p \o (<<Head(q)>> \o Tail(q))
  BY <1>1, ConcatAssociative
<1> QED BY <1>2, <1>3, <1>4

\* Sending appends to both sides.
LEMMA SendLast ==
    ASSUME NEW S, NEW p \in Seq(S), NEW q \in Seq(S), NEW x \in S,
           NEW a \in Seq(S), a = p \o q
    PROVE  Append(a, x) = p \o Append(q, x)
<1>1. Append(a, x) = a \o <<x>>  BY AppendIsConcat
<1>2. Append(q, x) = q \o <<x>>  BY AppendIsConcat
<1>3. (p \o q) \o <<x>> = p \o (q \o <<x>>)  BY ConcatAssociative
<1> QED BY <1>1, <1>2, <1>3

\* A new agent satisfies the invariant.
LEMMA AgentInit == Init => IndInv
<1> SUFFICES ASSUME Init PROVE IndInv  OBVIOUS
<1> USE AgentAssumption DEF Init
<1>1. TypeOK
  <2>1. /\ state \in Seq(Actions) /\ queue \in Seq(Actions) /\ old \in Seq(Actions)
        /\ accepted \in Seq(Actions) /\ popped \in Seq(Actions)
    OBVIOUS
  <2>2. /\ error \in BOOLEAN /\ draining \in BOOLEAN
        /\ drainer \in {"none", "task", "sync"} /\ running \in Actions \cup {None}
        /\ wakers \subseteq Awaiters /\ restarts \in Nat /\ unsent \subseteq Actions
    OBVIOUS
  <2>3. pc \in [Awaiters \cup AwaitAgents ->
                  {"new", "ready", "parked", "idle", "failed"}]
    OBVIOUS
  <2>4. before \in [Awaiters -> SUBSET Actions]  OBVIOUS
  <2> QED BY <2>1, <2>2, <2>3, <2>4 DEF TypeOK
<1>2. InOrder  BY DEF InOrder
<1>3. NoLostUpdate /\ QueueIsServed /\ Stopped
  BY DEF NoLostUpdate, QueueIsServed, Stopped
<1> QED BY <1>1, <1>2, <1>3 DEF IndInv

\* What the scheduling of a drain establishes, with either runtime.
LEMMA ScheduleEffect ==
    ASSUME TypeOK, NoLostUpdate, ScheduleDrain
    PROVE  draining' = TRUE /\ drainer' \in {"task", "sync"}
BY DEF TypeOK, NoLostUpdate, ScheduleDrain

\* When a drain stops, every await it held is released.
LEMMA StopEffect ==
    ASSUME TypeOK, Stopped, StopDraining
    PROVE  /\ draining' = FALSE /\ drainer' = "none" /\ running' = None
           /\ wakers' = {}
           /\ pc' \in [Awaiters \cup AwaitAgents ->
                         {"new", "ready", "parked", "idle", "failed"}]
           /\ \A w \in Awaiters : pc'[w] # "parked"
           /\ NoAwaitAgent' => NoAwaitAgent
<1> USE AgentAssumption DEF TypeOK, Stopped, StopDraining, NotifyIdle
<1>1. \A w \in Awaiters \cup AwaitAgents :
        pc'[w] = IF w \in wakers THEN "ready" ELSE pc[w]  OBVIOUS
<1>2. NoAwaitAgent' => NoAwaitAgent  BY <1>1 DEF NoAwaitAgent
<1> QED BY <1>1, <1>2

\* send and send-off.
LEMMA SendStep == ASSUME IndInv, NEW x \in Actions, Send(x) PROVE IndInv'
<1> USE AgentAssumption DEF IndInv
<1>1. /\ queue' = Append(queue, x) /\ accepted' = Append(accepted, x)
      /\ unsent' = unsent \ {x} /\ ~error
      /\ UNCHANGED <<state, error, wakers, running, old, pc, restarts, popped, before>>
  BY DEF Send
<1>2. draining' = TRUE /\ drainer' \in {"task", "sync"}
  BY ScheduleEffect DEF Send
<1>3. TypeOK'  BY <1>1, <1>2 DEF TypeOK
<1>4. InOrder'
  <2>1. /\ popped \in Seq(Actions) /\ queue \in Seq(Actions)
        /\ accepted \in Seq(Actions) /\ accepted = popped \o queue
    BY DEF TypeOK, InOrder
  <2>2. Append(accepted, x) = popped \o Append(queue, x)  BY <2>1, SendLast
  <2> QED BY <1>1, <2>2 DEF InOrder
<1>5. NoLostUpdate' /\ QueueIsServed'
  BY <1>1, <1>2 DEF NoLostUpdate, QueueIsServed, NoAwaitAgent
<1>6. Stopped'  BY <1>1, <1>2 DEF Stopped
<1> QED BY <1>3, <1>4, <1>5, <1>6

\* The drain loop.
LEMMA DrainStep == ASSUME IndInv, Drain PROVE IndInv'
<1> USE AgentAssumption DEF IndInv
<1>1. CASE DrainNext
  <2>1. /\ Head(queue) \in Actions /\ Tail(queue) \in Seq(Actions)
        /\ draining /\ queue # <<>>
    BY <1>1, HeadTailProperties DEF DrainNext, TypeOK, NoLostUpdate
  <2>2. TypeOK'  BY <1>1, <2>1 DEF DrainNext, TypeOK
  <2>3. InOrder'  BY <1>1, TakeFirst DEF DrainNext, InOrder, TypeOK
  <2>4. NoLostUpdate' /\ QueueIsServed'
    BY <1>1, <2>1 DEF DrainNext, NoLostUpdate, QueueIsServed
  <2>5. Stopped'  BY <1>1 DEF DrainNext, Stopped, NoAwaitAgent
  <2> QED BY <2>2, <2>3, <2>4, <2>5
<1>2. CASE DrainEnds
  <2>1. queue = <<>>
        /\ UNCHANGED <<state, error, queue, old, restarts, histVars>>
    BY <1>2 DEF DrainEnds
  <2>2. StopDraining  BY <1>2 DEF DrainEnds
  <2>3. TypeOK'  BY <2>1, <2>2, StopEffect DEF TypeOK, histVars
  <2>4. InOrder'  BY <2>1 DEF InOrder, histVars
  <2>5. NoLostUpdate' /\ QueueIsServed'
    BY <2>1, <2>2, StopEffect DEF NoLostUpdate, QueueIsServed
  <2>6. Stopped'  BY <2>2, StopEffect DEF Stopped
  <2> QED BY <2>3, <2>4, <2>5, <2>6
<1>3. CASE ActionReturns
  <2>1. TypeOK'  BY <1>3 DEF ActionReturns, TypeOK, histVars
  <2>2. InOrder'  BY <1>3 DEF ActionReturns, InOrder, histVars
  <2>3. NoLostUpdate' /\ QueueIsServed'
    BY <1>3 DEF ActionReturns, NoLostUpdate, QueueIsServed
  <2>4. Stopped'  BY <1>3 DEF ActionReturns, Stopped, NoAwaitAgent
  <2> QED BY <2>1, <2>2, <2>3, <2>4
<1>4. CASE ActionThrows \/ WatchThrows
  <2>1. /\ state' \in Seq(Actions) /\ error' = TRUE
        /\ UNCHANGED <<queue, old, restarts, histVars>>
    <3>1. running # None => Append(old, running) \in Seq(Actions)
      BY DEF TypeOK
    <3>2. state \in Seq(Actions)  BY DEF TypeOK
    <3> QED BY <1>4, <3>1, <3>2 DEF ActionThrows, WatchThrows
  <2>2. StopDraining  BY <1>4 DEF ActionThrows, WatchThrows
  <2>3. TypeOK'  BY <2>1, <2>2, StopEffect DEF TypeOK, histVars
  <2>4. InOrder'  BY <2>1 DEF InOrder, histVars
  <2>5. NoLostUpdate' /\ QueueIsServed'
    BY <2>1, <2>2, StopEffect DEF NoLostUpdate, QueueIsServed
  <2>6. Stopped'  BY <2>2, StopEffect DEF Stopped
  <2> QED BY <2>3, <2>4, <2>5, <2>6
<1> QED BY <1>1, <1>2, <1>3, <1>4 DEF Drain

\* restart-agent.  The agent has failed, so nothing is running unless await-agent
\* was called.
LEMMA RestartStep ==
    ASSUME IndInv, NEW clear \in BOOLEAN, Restart(clear)
    PROVE  IndInv'
<1> USE AgentAssumption DEF IndInv
<1>1. /\ state' = <<>> /\ restarts' = restarts + 1 /\ error
      /\ queue' = IF clear THEN <<>> ELSE queue
      /\ accepted' = IF clear THEN popped ELSE accepted
      /\ error' = FALSE
      /\ UNCHANGED <<wakers, running, old, pc, unsent, popped, before>>
  BY DEF Restart
<1>2. NoAwaitAgent => running = None
  BY <1>1 DEF Stopped, NoLostUpdate
<1>3. \/ queue' # <<>> /\ draining' = TRUE /\ drainer' \in {"task", "sync"}
      \/ queue' = <<>> /\ draining' = draining /\ drainer' = drainer
  BY ScheduleEffect DEF Restart
<1>4. TypeOK'
  <2>1. /\ state' \in Seq(Actions) /\ queue' \in Seq(Actions)
        /\ accepted' \in Seq(Actions) /\ restarts' \in Nat
    BY <1>1 DEF TypeOK
  <2>2. draining' \in BOOLEAN /\ drainer' \in {"none", "task", "sync"}
    BY <1>3 DEF TypeOK
  <2> QED BY <1>1, <2>1, <2>2 DEF TypeOK
<1>5. InOrder'  BY <1>1, ConcatEmptySeq DEF InOrder, TypeOK
<1>6. NoLostUpdate' /\ QueueIsServed'
  BY <1>1, <1>2, <1>3 DEF NoLostUpdate, QueueIsServed, NoAwaitAgent
<1>7. Stopped'  BY <1>1, <1>3 DEF Stopped
<1> QED BY <1>4, <1>5, <1>6, <1>7

\* (await agent).
LEMMA AwaitStep ==
    ASSUME IndInv, NEW w \in Awaiters, AwaitCalled(w) \/ Await(w)
    PROVE  IndInv'
<1> USE AgentAssumption DEF IndInv
<1>1. NoAwaitAgent' <=> NoAwaitAgent
  <2>1. \A v \in AwaitAgents : pc'[v] = pc[v]
    BY DEF AwaitCalled, Await, AwaitReturns, AwaitParks, TypeOK
  <2> QED BY <2>1 DEF NoAwaitAgent
<1>2. InOrder' /\ NoLostUpdate' /\ QueueIsServed'
  <2>1. UNCHANGED <<state, error, queue, draining, drainer, running, old,
                    accepted, popped>>
    BY DEF AwaitCalled, Await, AwaitReturns, AwaitParks, histVars
  <2> QED BY <1>1, <2>1 DEF InOrder, NoLostUpdate, QueueIsServed
<1>3. CASE AwaitCalled(w)
  <2>1. Elems(accepted) \subseteq Actions  BY DEF Elems, TypeOK
  <2>2. TypeOK'  BY <1>3, <2>1 DEF AwaitCalled, TypeOK
  <2>3. Stopped'  BY <1>3, <1>1 DEF AwaitCalled, Stopped, TypeOK
  <2> QED BY <1>2, <2>2, <2>3
<1>4. CASE AwaitReturns(w)
  <2>1. TypeOK'  BY <1>4 DEF AwaitReturns, TypeOK, histVars
  <2>2. Stopped'  BY <1>4, <1>1 DEF AwaitReturns, Stopped, TypeOK
  <2> QED BY <1>2, <2>1, <2>2
<1>5. CASE AwaitParks(w)
  <2>1. TypeOK'  BY <1>5 DEF AwaitParks, TypeOK, histVars
  <2>2. draining  BY <1>5 DEF AwaitParks, IsIdle, QueueIsServed, TypeOK
  <2>3. Stopped'  BY <1>5, <1>1, <2>2 DEF AwaitParks, Stopped, TypeOK
  <2> QED BY <1>2, <2>1, <2>3
<1> QED BY <1>3, <1>4, <1>5 DEF Await

\* await-agent, which may start a drain of a failed agent.
LEMMA AwaitAgentStep ==
    ASSUME IndInv, NEW w \in AwaitAgents, AwaitAgent(w)
    PROVE  IndInv'
<1> USE AgentAssumption DEF IndInv
<1>1. ~NoAwaitAgent'  BY DEF AwaitAgent, NoAwaitAgent, TypeOK
<1>2. TypeOK'  BY DEF AwaitAgent, TypeOK, histVars
<1>3. InOrder'  BY DEF AwaitAgent, InOrder, histVars
<1>4. NoLostUpdate'  BY <1>1 DEF AwaitAgent, NoLostUpdate
<1>5. QueueIsServed'  BY DEF AwaitAgent, QueueIsServed
<1>6. Stopped'  BY <1>1 DEF AwaitAgent, Stopped, TypeOK
<1> QED BY <1>2, <1>3, <1>4, <1>5, <1>6

\* The invariant is inductive.
LEMMA AgentStep ==
    ASSUME IndInv, [Next]_vars
    PROVE  IndInv'
<1>1. CASE \E x \in Actions : Send(x)  BY <1>1, SendStep
<1>2. CASE Drain  BY <1>2, DrainStep
<1>3. CASE \E clear \in BOOLEAN : Restart(clear)  BY <1>3, RestartStep
<1>4. CASE \E w \in Awaiters : AwaitCalled(w) \/ Await(w)  BY <1>4, AwaitStep
<1>5. CASE \E w \in AwaitAgents : AwaitAgent(w)  BY <1>5, AwaitAgentStep
<1>6. CASE UNCHANGED vars
  <2>1. TypeOK' /\ InOrder'
    BY <1>6 DEF IndInv, vars, histVars, TypeOK, InOrder
  <2>2. NoLostUpdate' /\ QueueIsServed' /\ Stopped'
    BY <1>6 DEF IndInv, vars, histVars, NoLostUpdate, QueueIsServed, Stopped,
           NoAwaitAgent
  <2> QED BY <2>1, <2>2 DEF IndInv
<1> QED BY <1>1, <1>2, <1>3, <1>4, <1>6, <1>5 DEF Next, AllDone

\* The mailbox loses and reorders nothing, at most one action is applied at a
\* time on the state it replaces, and pending actions of a healthy agent have a
\* drainer, whatever is sent, fails, is awaited and is restarted.
THEOREM AgentInvariant == Spec => []IndInv
<1>1. Init => IndInv  BY AgentInit
<1>2. IndInv /\ [Next]_vars => IndInv'  BY AgentStep
<1> QED BY <1>1, <1>2, PTL DEF Spec

\* Actions are taken in the order in which they were accepted.
THEOREM AgentFIFO == Spec => []InOrder
<1>1. IndInv => InOrder  BY DEF IndInv
<1> QED BY <1>1, AgentInvariant, PTL

\* No result overwrites a state other than the one its action was given, as long
\* as await-agent is not called.
THEOREM AgentNoLostUpdate == Spec => []NoLostUpdate
<1>1. IndInv => NoLostUpdate  BY DEF IndInv
<1> QED BY <1>1, AgentInvariant, PTL

\* Order, updates and service of the mailbox together.
THEOREM AgentMailbox == Spec => []MailboxIntact
<1>1. IndInv => MailboxIntact  BY DEF IndInv, MailboxIntact
<1> QED BY <1>1, AgentInvariant, PTL

\* A failed agent takes no action from its mailbox until it is restarted, as long
\* as await-agent is not called.
THEOREM AgentFailStop == Spec => FailedAgentStopped
<1>1. IndInv /\ [Next]_vars => [NoAwaitAgent /\ error => popped' = popped]_vars
  <2> SUFFICES ASSUME IndInv, Next, NoAwaitAgent, error PROVE popped' = popped
    BY DEF vars
  <2>1. drainer = "none"  BY DEF IndInv, Stopped, NoLostUpdate
  <2> QED
    BY <2>1 DEF Next, Send, Drain, DrainNext, DrainEnds, ActionReturns,
       ActionThrows, WatchThrows, Restart, AwaitCalled, Await, AwaitReturns,
       AwaitParks, AwaitAgent, AllDone, histVars, vars
<1> QED BY <1>1, AgentInvariant, PTL DEF Spec, FailedAgentStopped
=============================================================================
