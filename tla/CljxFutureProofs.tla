-------------------------- MODULE CljxFutureProofs --------------------------
(***************************************************************************)
(* Proofs about CljxFuture for any sets of callers: the body runs at most   *)
(* once, no await misses its wake-up, and without the race of future-cancel *)
(* against the executor task a future is a single-assignment cell.          *)
(***************************************************************************)
EXTENDS CljxFuture, TLAPS

USE DEF Callers, Readers, Stealers, Settled, BodyOutcomes

\* The initial state of future-call satisfies the invariant.
LEMMA FutureInit == Init => IndInv
<1> SUFFICES ASSUME Init PROVE IndInv  OBVIOUS
<1> USE CallersAssumption DEF Init
<1>1. TypeOK  BY DEF TypeOK
<1>2. BodyRunsOnce /\ NoMissedWake  BY DEF BodyRunsOnce, NoMissedWake
<1>3. OneOwner  BY DEF OneOwner
<1>4. Answered /\ CancelledByCall  BY DEF Answered, CancelledByCall
<1> QED BY <1>1, <1>2, <1>3, <1>4 DEF IndInv

\* notify_settled keeps the callers' program counters well typed, leaves no
\* await parked and finishes only the caller that settled the future.
LEMMA NotifyEffect ==
    ASSUME IndInv, NEW c, NEW label \in {"done"}, NotifySettled(c, label)
    PROVE  /\ wakers' = {}
           /\ pc' \in [Callers -> {"new", "ready", "parked", "stealing",
                                   "blocked", "done"}]
           /\ \A r \in Awaiters : pc'[r] # "parked"
           /\ \A u \in Callers :
                 /\ u # c => (pc'[u] = "done" <=> pc[u] = "done")
                 /\ u # c /\ pc'[u] = "stealing" => pc[u] = "stealing"
                 /\ u = c => pc'[u] = "done"
<1> USE CallersAssumption DEF IndInv, TypeOK, NotifySettled, NoMissedWake
<1>1. \A u \in wakers : u \in Awaiters /\ pc[u] = "parked"  OBVIOUS
<1>2. \A u \in Callers : pc'[u] = IF u = c THEN label
                                  ELSE IF u \in wakers THEN "ready" ELSE pc[u]
  OBVIOUS
<1> QED BY <1>1, <1>2

\* The executor task: claiming, running and settling.
LEMMA TaskStep == IndInv /\ (Task \/ InnerEnds) => IndInv'
<1> SUFFICES ASSUME IndInv, Task \/ InnerEnds PROVE IndInv'  OBVIOUS
<1> USE CallersAssumption DEF IndInv, TypeOK
<1>1. CASE TaskClaims
  <2>0. /\ thunk' = FALSE
        /\ task' = IF thunk THEN "awaiting" ELSE "ended"
        /\ bodyRuns' = IF thunk THEN bodyRuns + 1 ELSE bodyRuns
    BY <1>1 DEF TaskClaims
  <2>0a. UNCHANGED <<state, inner, wakers, pc, holder, result, ended>>
    BY <1>1 DEF TaskClaims
  <2>0b. /\ task' \in {"absent", "queued", "awaiting", "ended"}
         /\ bodyRuns' \in Nat
    BY <2>0
  <2>1a. TypeOK'  BY <2>0, <2>0a, <2>0b
  <2>1b. BodyRunsOnce'  BY <1>1, <2>0 DEF TaskClaims, BodyRunsOnce
  <2>1c. NoMissedWake'  BY <1>1 DEF TaskClaims, NoMissedWake
  <2>1. TypeOK' /\ BodyRunsOnce' /\ NoMissedWake'  BY <2>1a, <2>1b, <2>1c
  <2>2. OneOwner'  BY <1>1, <2>0 DEF TaskClaims, OneOwner
  <2>3. Answered' /\ CancelledByCall'
    BY <1>1 DEF TaskClaims, Answered, CancelledByCall
  <2> QED BY <2>1, <2>2, <2>3
<1>2. CASE InnerEnds
  <2>1. TypeOK' /\ BodyRunsOnce' /\ NoMissedWake'
    BY <1>2 DEF InnerEnds, BodyRunsOnce, NoMissedWake
  <2>2. OneOwner'  BY <1>2 DEF InnerEnds, OneOwner
  <2>3. Answered' /\ CancelledByCall'
    BY <1>2 DEF InnerEnds, Answered, CancelledByCall
  <2> QED BY <2>1, <2>2, <2>3
<1>3. CASE TaskSettles
  <2>1. /\ state' = inner /\ state' \in BodyOutcomes /\ task' = "ended"
        /\ ~thunk /\ holder = None
        /\ UNCHANGED <<thunk, inner, holder, result, bodyRuns, ended>>
    BY <1>3 DEF TaskSettles, OneOwner
  <2>2. /\ wakers' = {}
        /\ pc' \in [Callers -> {"new", "ready", "parked", "stealing",
                                "blocked", "done"}]
        /\ \A r \in Awaiters : pc'[r] # "parked"
        /\ \A u \in Callers : /\ pc'[u] = "done" <=> pc[u] = "done"
                              /\ pc'[u] = "stealing" => pc[u] = "stealing"
    BY <1>3, NotifyEffect DEF TaskSettles
  <2>3. TypeOK'  BY <2>1, <2>2
  <2>4. BodyRunsOnce' /\ NoMissedWake'
    BY <2>1, <2>2 DEF BodyRunsOnce, NoMissedWake
  <2>5. \A u \in Callers : pc[u] # "stealing"  BY <2>1 DEF OneOwner
  <2>6. OneOwner'  BY <2>1, <2>2, <2>5 DEF OneOwner
  <2>7. Answered' /\ CancelledByCall'
    BY <2>1, <2>2 DEF Answered, CancelledByCall
  <2> QED BY <2>3, <2>4, <2>6, <2>7
<1> QED BY <1>1, <1>2, <1>3 DEF Task

\* future-cancel.
LEMMA CancelStep ==
    ASSUME IndInv, NEW c \in Cancellers, Cancel(c)
    PROVE  IndInv'
<1> USE CallersAssumption DEF IndInv, TypeOK
<1>1. c \in Callers /\ c \notin Readers /\ Cancellers # {}  OBVIOUS
<1>2. UNCHANGED <<thunk, task, inner, holder, result, bodyRuns, ended>>
  BY DEF Cancel
<1>3. CASE state = None
  <2>1. state' = "cancelled"  BY <1>3 DEF Cancel
  <2>2. /\ wakers' = {}
        /\ pc' \in [Callers -> {"new", "ready", "parked", "stealing",
                                "blocked", "done"}]
        /\ \A r \in Awaiters : pc'[r] # "parked"
        /\ \A u \in Callers :
              /\ u # c => (pc'[u] = "done" <=> pc[u] = "done")
              /\ u # c /\ pc'[u] = "stealing" => pc[u] = "stealing"
              /\ u = c => pc'[u] = "done"
    BY <1>3, NotifyEffect DEF Cancel
  <2>3. TypeOK'  BY <1>2, <2>1, <2>2
  <2>4. BodyRunsOnce' /\ NoMissedWake'
    BY <1>2, <2>1, <2>2 DEF BodyRunsOnce, NoMissedWake
  <2>5. OneOwner'  BY <1>2, <2>1, <2>2 DEF OneOwner
  <2>6. Answered' /\ CancelledByCall'
    BY <1>1, <1>2, <2>1, <2>2 DEF Answered, CancelledByCall
  <2> QED BY <2>3, <2>4, <2>5, <2>6
<1>4. CASE state # None
  <2>1. UNCHANGED <<state, wakers>> /\ pc' = [pc EXCEPT ![c] = "done"]
    BY <1>4 DEF Cancel, Moves
  <2>2. TypeOK' /\ BodyRunsOnce' /\ NoMissedWake'
    BY <1>1, <1>2, <2>1 DEF BodyRunsOnce, NoMissedWake
  <2>3. OneOwner'  BY <1>2, <2>1 DEF OneOwner
  <2>4. Answered' /\ CancelledByCall'
    BY <1>1, <1>2, <2>1 DEF Answered, CancelledByCall
  <2> QED BY <2>2, <2>3, <2>4
<1> QED BY <1>3, <1>4


\* await_value, read or park.
LEMMA AwaitStep ==
    ASSUME IndInv, NEW r \in Awaiters, Await(r)
    PROVE  IndInv'
<1> USE CallersAssumption DEF IndInv, TypeOK, Moves
<1>1. CASE AwaitRead(r)
  <2>1. TypeOK' /\ NoMissedWake'  BY <1>1 DEF AwaitRead, NoMissedWake
  <2>2. BodyRunsOnce'  BY <1>1 DEF AwaitRead, BodyRunsOnce
  <2>3. OneOwner'  BY <1>1 DEF AwaitRead, OneOwner
  <2>4. Answered' /\ CancelledByCall'
    BY <1>1 DEF AwaitRead, Answered, CancelledByCall
  <2> QED BY <2>1, <2>2, <2>3, <2>4
<1>2. CASE AwaitPark(r)
  <2>1. TypeOK' /\ NoMissedWake'  BY <1>2 DEF AwaitPark, NoMissedWake
  <2>2. BodyRunsOnce'  BY <1>2 DEF AwaitPark, BodyRunsOnce
  <2>3. OneOwner'  BY <1>2 DEF AwaitPark, OneOwner
  <2>4. Answered' /\ CancelledByCall'
    BY <1>2 DEF AwaitPark, Answered, CancelledByCall
  <2> QED BY <2>1, <2>2, <2>3, <2>4
<1> QED BY <1>1, <1>2 DEF Await

\* A deref that stole the body comes to its end.
LEMMA DerefSettlesStep ==
    ASSUME IndInv, NEW d \in Stealers, DerefSettles(d)
    PROVE  IndInv'
<1> USE CallersAssumption DEF IndInv, TypeOK
<1>1. /\ ended' \in BodyOutcomes /\ holder' = None
      /\ result' = [result EXCEPT ![d] = state']
      /\ UNCHANGED <<thunk, task, inner, bodyRuns>>
      /\ holder = d /\ pc[d] = "stealing"
  BY DEF DerefSettles
<1>2. ~thunk /\ task # "awaiting"  BY <1>1 DEF OneOwner
<1>3. /\ state' \in Settled
      /\ state' # None
      /\ state' = "cancelled" => state = "cancelled"
  BY DEF DerefSettles, StolenOutcome
<1>4. /\ wakers' = {}
      /\ pc' \in [Callers -> {"new", "ready", "parked", "stealing",
                              "blocked", "done"}]
      /\ \A r \in Awaiters : pc'[r] # "parked"
      /\ \A u \in Callers :
            /\ u # d => (pc'[u] = "done" <=> pc[u] = "done")
            /\ u # d /\ pc'[u] = "stealing" => pc[u] = "stealing"
            /\ u = d => pc'[u] = "done"
  BY NotifyEffect DEF DerefSettles
<1>5. \A u \in Callers : pc'[u] # "stealing"
  BY <1>1, <1>4 DEF OneOwner
<1>6. TypeOK'  BY <1>1, <1>3, <1>4
<1>7. BodyRunsOnce' /\ NoMissedWake'
  BY <1>1, <1>2, <1>3, <1>4 DEF BodyRunsOnce, NoMissedWake
<1>8. OneOwner'  BY <1>1, <1>2, <1>5 DEF OneOwner
<1>9. Answered' /\ CancelledByCall'
  BY <1>1, <1>3, <1>4 DEF Answered, CancelledByCall
<1> QED BY <1>6, <1>7, <1>8, <1>9

\* The other steps of a synchronous reader.
LEMMA DerefStep ==
    ASSUME IndInv, NEW d \in Stealers \cup SyncAwaits, Deref(d)
    PROVE  IndInv'
<1> USE CallersAssumption DEF IndInv, TypeOK, Moves
<1>1. CASE d \in Stealers /\ DerefSteals(d)
  <2>0. /\ holder' = d /\ bodyRuns' = bodyRuns + 1 /\ thunk' = FALSE
        /\ pc' = [pc EXCEPT ![d] = "stealing"] /\ d \in Callers
        /\ UNCHANGED <<state, task, inner, wakers, result, ended>>
    BY <1>1 DEF DerefSteals
  <2>0a. /\ pc' \in [Callers -> {"new", "ready", "parked", "stealing",
                                  "blocked", "done"}]
         /\ bodyRuns' \in Nat
    BY <2>0
  <2>0b. TypeOK'  BY <1>1, <2>0, <2>0a
  <2>1. TypeOK' /\ NoMissedWake'  BY <1>1, <2>0, <2>0b DEF NoMissedWake
  <2>2. BodyRunsOnce'  BY <1>1 DEF DerefSteals, BodyRunsOnce, OneOwner
  <2>3. OneOwner'  BY <1>1 DEF DerefSteals, OneOwner
  <2>4. Answered' /\ CancelledByCall'
    BY <1>1 DEF DerefSteals, Answered, CancelledByCall
  <2> QED BY <2>1, <2>2, <2>3, <2>4
<1>2. CASE d \in Stealers /\ DerefSettles(d)
  BY <1>2, DerefSettlesStep
<1>3. CASE DerefRead(d)
  <2>1. TypeOK' /\ NoMissedWake'  BY <1>3 DEF DerefRead, NoMissedWake
  <2>2. BodyRunsOnce'  BY <1>3 DEF DerefRead, BodyRunsOnce
  <2>3. OneOwner'  BY <1>3 DEF DerefRead, OneOwner
  <2>4. Answered' /\ CancelledByCall'
    BY <1>3 DEF DerefRead, Answered, CancelledByCall
  <2> QED BY <2>1, <2>2, <2>3, <2>4
<1>4. CASE DerefTimesOut(d)
  <2>1. TypeOK' /\ NoMissedWake'  BY <1>4 DEF DerefTimesOut, NoMissedWake
  <2>2. BodyRunsOnce'  BY <1>4 DEF DerefTimesOut, BodyRunsOnce
  <2>3. OneOwner'  BY <1>4 DEF DerefTimesOut, OneOwner
  <2>4. Answered' /\ CancelledByCall'
    BY <1>4 DEF DerefTimesOut, Answered, CancelledByCall
  <2> QED BY <2>1, <2>2, <2>3, <2>4
<1>5. CASE DerefBlocks(d)
  <2>1. TypeOK' /\ NoMissedWake'  BY <1>5 DEF DerefBlocks, NoMissedWake
  <2>2. BodyRunsOnce'  BY <1>5 DEF DerefBlocks, BodyRunsOnce
  <2>3. OneOwner'  BY <1>5 DEF DerefBlocks, OneOwner
  <2>4. Answered' /\ CancelledByCall'
    BY <1>5 DEF DerefBlocks, Answered, CancelledByCall
  <2> QED BY <2>1, <2>2, <2>3, <2>4
<1> QED BY <1>1, <1>2, <1>3, <1>4, <1>5 DEF Deref

\* IndInv is inductive: it holds initially and every step keeps it, for any
\* number of awaits, derefs and cancellations.
THEOREM FutureInvariant == Spec => []IndInv
<1>1. IndInv /\ [Next]_vars => IndInv'
  <2> SUFFICES ASSUME IndInv, [Next]_vars PROVE IndInv'  OBVIOUS
  <2>1. CASE Task \/ InnerEnds  BY <2>1, TaskStep
  <2>2. CASE \E c \in Cancellers : Cancel(c)  BY <2>2, CancelStep
  <2>3. CASE \E r \in Awaiters : Await(r)  BY <2>3, AwaitStep
  <2>4. CASE \E d \in Stealers \cup SyncAwaits : Deref(d)  BY <2>4, DerefStep
  <2>5. CASE UNCHANGED vars
    BY <2>5 DEF vars, IndInv, TypeOK, BodyRunsOnce, NoMissedWake, OneOwner,
                Answered, CancelledByCall
  <2>6. CASE BlockedRecheck \/ AllDone  BY <2>5, <2>6 DEF BlockedRecheck, AllDone
  <2> QED BY <2>1, <2>2, <2>3, <2>4, <2>5, <2>6 DEF Next
<1> QED BY <1>1, FutureInit, PTL DEF Spec

\* claim_thunk: the executor task and the stealing derefs start the body at
\* most once between them.
THEOREM BodyOnce == Spec => []BodyRunsOnce
<1>1. IndInv => BodyRunsOnce  BY DEF IndInv
<1> QED BY <1>1, FutureInvariant, PTL

\* The outcome of the body reaches the future unchanged.
LEMMA OutcomeStep ==
    ASSUME IndInv, OutcomeKept, [Next]_vars  PROVE OutcomeKept'
<1> USE CallersAssumption DEF IndInv, TypeOK, BodyOutcomes
<1>1. CASE TaskClaims  BY <1>1 DEF TaskClaims, OutcomeKept, OneOwner
<1>2. CASE InnerEnds  BY <1>2 DEF InnerEnds, OutcomeKept, OneOwner
<1>3. CASE TaskSettles  BY <1>3 DEF TaskSettles, OutcomeKept
<1>4. ASSUME NEW c \in Cancellers, Cancel(c) PROVE OutcomeKept'
  BY <1>4 DEF Cancel, OutcomeKept
<1>5. ASSUME NEW r \in Awaiters, Await(r) PROVE OutcomeKept'
  BY <1>5 DEF Await, AwaitRead, AwaitPark, OutcomeKept
<1>6. ASSUME NEW d \in Stealers, DerefSettles(d) PROVE OutcomeKept'
  <2>1. state \in {None, "cancelled"} /\ task # "awaiting"
    BY <1>6 DEF DerefSettles, OneOwner, Callers, Readers
  <2>2. inner = None  BY <2>1 DEF OutcomeKept
  <2>3. AtDerefs = {} => StolenOutcome(d, ended') = ended'  BY DEF StolenOutcome
  <2> QED BY <1>6, <2>1, <2>2, <2>3 DEF DerefSettles, OutcomeKept
<1>7. ASSUME NEW d \in Stealers \cup SyncAwaits,
             DerefSteals(d) \/ DerefRead(d) \/ DerefTimesOut(d) \/ DerefBlocks(d)
      PROVE  OutcomeKept'
  BY <1>7 DEF DerefSteals, DerefRead, DerefTimesOut, DerefBlocks, OutcomeKept
<1>8. CASE UNCHANGED vars  BY <1>8 DEF vars, OutcomeKept
<1> QED BY <1>1, <1>2, <1>3, <1>4, <1>5, <1>6, <1>7, <1>8
        DEF Next, Task, Deref, BlockedRecheck, AllDone

\* Where no @ form can steal the body, it runs once and the gas limit it hits is
\* reported as such.
THEOREM BodyHonoured ==
    ASSUME AtDerefs = {}  PROVE Spec => []BodyIsHonoured
<1>1. Init => OutcomeKept  BY CallersAssumption DEF Init, OutcomeKept, BodyOutcomes
<1>2. IndInv /\ OutcomeKept /\ [Next]_vars => OutcomeKept'  BY OutcomeStep
<1>3. IndInv /\ OutcomeKept => BodyIsHonoured
  BY CallersAssumption DEF IndInv, OutcomeKept, BodyIsHonoured, GasIsNeverCaught, BodyOutcomes
<1> QED BY <1>1, <1>2, <1>3, FutureInvariant, PTL DEF Spec

\* register_waker and notify_settled: a settled future leaves no await parked.
THEOREM WakesAll == Spec => []NoMissedWake
<1>1. IndInv => NoMissedWake  BY DEF IndInv
<1> QED BY <1>1, FutureInvariant, PTL

\* One step of the future is a step of the single-assignment cell, unless
\* settle_future overwrites a cancellation.
LEMMA StepRefines ==
    ASSUME IndInv, [Next]_vars, Cancellers = {} \/ ~HasExecutor,
           task = "awaiting" => HasExecutor
    PROVE  [Cell!Next]_<<state, result>>
<1> USE CallersAssumption DEF IndInv, TypeOK, Moves
<1> DEFINE same == UNCHANGED <<state, result>>
<1>1. CASE Task \/ InnerEnds
  <2>1. CASE TaskClaims \/ InnerEnds  BY <2>1 DEF TaskClaims, InnerEnds
  <2>2. CASE TaskSettles
    <3>1. state = None
      BY <2>2 DEF TaskSettles, OneOwner, CancelledByCall
    <3> QED BY <2>2, <3>1 DEF TaskSettles, Cell!Next, Cell!Settle
  <2> QED BY <1>1, <2>1, <2>2 DEF Task
<1>2. ASSUME NEW c \in Cancellers, Cancel(c) PROVE Cell!Next \/ same
  BY <1>2 DEF Cancel, Cell!Next, Cell!Settle
<1>3. ASSUME NEW r \in Awaiters, Await(r) PROVE Cell!Next \/ same
  <2>1. CASE AwaitRead(r)
    <3>1. result[r] = None  BY <2>1 DEF AwaitRead, Answered
    <3>2. Cell!Read(r)  BY <2>1, <3>1 DEF AwaitRead, Cell!Read
    <3> QED BY <3>2 DEF Cell!Next
  <2>2. CASE AwaitPark(r)  BY <2>2 DEF AwaitPark
  <2> QED BY <1>3, <2>1, <2>2 DEF Await
<1>4. ASSUME NEW d \in Stealers \cup SyncAwaits, Deref(d)
      PROVE  Cell!Next \/ same
  <2>0. d \in Readers  OBVIOUS
  <2>1. CASE DerefSteals(d)  BY <2>1 DEF DerefSteals
  <2>2. CASE DerefSettles(d)
    <3>1. result[d] = None  BY <2>2 DEF DerefSettles, Answered
    <3>2. CASE state = None
      <4>1. state' \in Settled
        BY <2>2, <3>2 DEF DerefSettles, StolenOutcome
      <4>2. Cell!SettleAndRead(d)
        BY <2>2, <3>1, <3>2, <4>1 DEF DerefSettles, Cell!SettleAndRead
      <4> QED BY <2>0, <4>2 DEF Cell!Next
    <3>3. CASE state # None
      <4>1. Cell!Read(d)  BY <2>2, <3>1, <3>3 DEF DerefSettles, Cell!Read
      <4> QED BY <2>0, <4>1 DEF Cell!Next
    <3> QED BY <3>2, <3>3
  <2>3. CASE DerefRead(d)
    <3>1. result[d] = None  BY <2>3 DEF DerefRead, Answered
    <3>2. Cell!Read(d)  BY <2>3, <3>1 DEF DerefRead, Cell!Read
    <3> QED BY <2>0, <3>2 DEF Cell!Next
  <2>4. CASE DerefTimesOut(d)
    <3>1. result[d] = None  BY <2>4 DEF DerefTimesOut, Answered
    <3>2. Cell!GiveUp(d)  BY <2>4, <3>1 DEF DerefTimesOut, Cell!GiveUp
    <3> QED BY <2>0, <3>2 DEF Cell!Next
  <2>5. CASE DerefBlocks(d)  BY <2>5 DEF DerefBlocks
  <2> QED BY <1>4, <2>1, <2>2, <2>3, <2>4, <2>5 DEF Deref
<1>5. CASE BlockedRecheck \/ AllDone \/ UNCHANGED vars
  BY <1>5 DEF BlockedRecheck, AllDone, vars
<1> QED BY <1>1, <1>2, <1>3, <1>4, <1>5 DEF Next

\* Where nobody cancels, or where no executor task exists, the future is a
\* single-assignment cell: it settles once and every reader sees that value.
THEOREM FutureRefinement ==
    ASSUME Cancellers = {} \/ ~HasExecutor
    PROVE  Spec => ImplementsOneShot
<1>1. Init => Cell!Init  BY DEF Init, Cell!Init
<1>2. IndInv /\ [Next]_vars => [Cell!Next]_<<state, result>>
  BY StepRefines, CallersAssumption DEF IndInv, OneOwner
<1> QED BY <1>1, <1>2, FutureInvariant, PTL DEF Spec, ImplementsOneShot, Cell!Spec
=============================================================================
