------------------------------- MODULE Scopes -------------------------------
(***************************************************************************)
(* The thread-local stacks of an interpreter thread: gas meters               *)
(* (cljrs-env/src/gas.rs) and dynamic bindings (dynamics.rs), while tasks      *)
(* interleave on that thread (cljrs-async/src/eval_async.rs) and a blocking     *)
(* deref runs the body of a future inline (builtins.rs).                       *)
(*                                                                          *)
(* A top-level form is evaluated under a meter of its own; when it awaits, the  *)
(* executor polls tasks below that meter.  A task remembers the meters that     *)
(* were active when it was spawned, and no bindings.                           *)
(***************************************************************************)
EXTENDS Integers, Sequences, SequencesExt, FiniteSets

CONSTANTS
    Tasks,
    MaxForms,   \* top-level forms
    MaxBinds,   \* binding frames at a time
    None

VARIABLES
    form,       \* the number of the current form, which is its meter
    stack,      \* running code, innermost last: [kind, task], of kind "form",
                \*   "waiting" (a form that awaits), "poll", "steal" or "bind"
    active,     \* ACTIVE: the installed meters
    bindings,   \* BINDING_STACK: one value per frame
    state,      \* task -> "none", "queued", "claimed" (by the executor or a thief)
                \*   or "done"
    captured,   \* task -> the meters active at the spawn
    within      \* history: task -> the bindings in effect at the spawn
vars == <<form, stack, active, bindings, state, captured, within>>

Init ==
    /\ form = 0 /\ stack = <<>> /\ active = <<>> /\ bindings = <<>>
    /\ state = [t \in Tasks |-> "none"]
    /\ captured = [t \in Tasks |-> <<>>] /\ within = [t \in Tasks |-> <<>>]

-----------------------------------------------------------------------------
Frame(k, t) == [kind |-> k, task |-> t]
Kind == IF stack = <<>> THEN "none" ELSE Last(stack).kind
Code == Kind \in {"form", "poll", "steal", "bind"}
Drop(s, n) == SubSeq(s, 1, Len(s) - n)
Polled == {i \in DOMAIN stack : stack[i].kind = "poll"}

\* eval_form: a meter for the form, under which the executor is driven.
BeginForm ==
    /\ stack = <<>> /\ form < MaxForms
    /\ form' = form + 1
    /\ active' = Append(active, form + 1)
    /\ stack' = <<Frame("form", None)>>
    /\ UNCHANGED <<bindings, state, captured, within>>
EndForm ==
    /\ Kind = "form"
    /\ stack' = <<>> /\ active' = Drop(active, 1)
    /\ UNCHANGED <<form, bindings, state, captured, within>>

\* The form awaits something, and goes on.
Await ==
    /\ Kind = "form" /\ stack' = <<Frame("waiting", None)>>
    /\ UNCHANGED <<form, active, bindings, state, captured, within>>
Resume ==
    /\ Kind = "waiting" /\ stack' = <<Frame("form", None)>>
    /\ UNCHANGED <<form, active, bindings, state, captured, within>>

\* eval_binding: a frame for the extent of its body.
Bind ==
    /\ Code /\ Len(bindings) < MaxBinds
    /\ stack' = Append(stack, Frame("bind", Last(stack).task))
    /\ bindings' = Append(bindings, Last(stack).task)
    /\ UNCHANGED <<form, active, state, captured, within>>
Unbind ==
    /\ Kind = "bind"
    /\ stack' = Front(stack) /\ bindings' = Front(bindings)
    /\ UNCHANGED <<form, active, state, captured, within>>

\* spawn_future captures the meters.
Spawn(t) ==
    /\ Code /\ state[t] = "none"
    /\ state' = [state EXCEPT ![t] = "queued"]
    /\ captured' = [captured EXCEPT ![t] = active]
    /\ within' = [within EXCEPT ![t] = bindings]
    /\ UNCHANGED <<form, stack, active, bindings>>

\* Each poll installs them, and the guards go with the poll.
Poll(t) ==
    /\ Kind = "waiting" /\ state[t] \in {"queued", "claimed"}
    /\ state' = [state EXCEPT ![t] = "claimed"]
    /\ stack' = Append(stack, Frame("poll", t))
    /\ active' = active \o captured[t]
    /\ UNCHANGED <<form, bindings, captured, within>>

\* Mutant: the innermost meter only.
UninstalledOne(t) == IF captured[t] = <<>> THEN active ELSE Drop(active, 1)

Uninstalled(t) == Drop(active, Len(captured[t]))

\* Mutant: binding yields like let and loop do.
YieldsInBinding ==
    /\ Kind \in {"poll", "bind"} /\ Last(stack).task # None
    /\ \A i \in DOMAIN stack : stack[i].kind # "steal"

\* A task yields at an await; binding forms, and what they call, run to their end.
Yields == Kind = "poll"
Yield ==
    LET t == Last(stack).task
    IN  /\ Yields
        /\ stack' = SubSeq(stack, 1, (CHOOSE i \in Polled : TRUE) - 1)
        /\ active' = Uninstalled(t)
        /\ UNCHANGED <<form, bindings, state, captured, within>>
Finish ==
    LET t == Last(stack).task
    IN  /\ Kind = "poll"
        /\ state' = [state EXCEPT ![t] = "done"]
        /\ stack' = Front(stack)
        /\ active' = Uninstalled(t)
        /\ UNCHANGED <<form, bindings, captured, within>>

\* A blocking deref of a future that has not been polled: its body runs here and
\* now, under the meters and bindings of the caller.
Steal(t) ==
    /\ Code /\ state[t] = "queued"
    /\ state' = [state EXCEPT ![t] = "claimed"]
    /\ stack' = Append(stack, Frame("steal", t))
    /\ UNCHANGED <<form, active, bindings, captured, within>>
Stolen ==
    /\ Kind = "steal"
    /\ state' = [state EXCEPT ![Last(stack).task] = "done"]
    /\ stack' = Front(stack)
    /\ UNCHANGED <<form, active, bindings, captured, within>>

Next ==
    \/ BeginForm \/ EndForm \/ Await \/ Resume \/ Bind \/ Unbind
    \/ Yield \/ Finish \/ Stolen
    \/ \E t \in Tasks : Spawn(t) \/ Poll(t) \/ Steal(t)
Spec == Init /\ [][Next]_vars

-----------------------------------------------------------------------------
(* Properties *)

\* A form runs under its own meter only, whatever tasks were polled while it
\* waited; a polled task, under the meters of its spawn and that of the form in
\* whose wait it is polled.
MetersAreOwn ==
    stack # <<>> =>
        active = <<form>> \o (IF Polled = {} THEN <<>> ELSE captured[stack[CHOOSE i \in Polled : TRUE].task])

\* The binding frames are those of binding forms being evaluated now: code never
\* runs under a frame of a task that is parked.
BindingsAreScoped == Len(bindings) = Cardinality({i \in DOMAIN stack : stack[i].kind = "bind"})

\* README.md: "Dynamic variables - binding, thread-local bindings, future
\* conveyance": the body of a future sees the bindings of the code that made it.
Conveyed == Kind \in {"poll", "steal"} => bindings = within[Last(stack).task]

\* cljrsh/src/exec.rs: "CLJRSH_GAS=<credits> caps evaluation steps per top-level
\* form": a step is charged to a meter once.
ChargedOnce == \A i, j \in DOMAIN active : active[i] = active[j] => i = j
=============================================================================
