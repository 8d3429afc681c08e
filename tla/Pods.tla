-------------------------------- MODULE Pods --------------------------------
(***************************************************************************)
(* Pods (cljrsh-pods/src/lib.rs): programs that run as child processes and    *)
(* answer invoke messages over their standard streams.  A reader thread       *)
(* forwards the pod's messages to a channel; an invoke writes its request and  *)
(* reads that channel until a reply says done.  Replies carry the id of their  *)
(* request, which the host does not look at.                                  *)
(***************************************************************************)
EXTENDS Integers, Sequences

CONSTANTS
    Pods,
    MaxCalls,   \* invokes of one pod
    None

VARIABLES
    proc,       \* "none", "running" or "dead": the child process
    inbox,      \* requests the child has not read: an id, 0 for describe
    outbox,     \* messages for the host: [id, kind], in the order written
    load,       \* load-pod: "no", "describing", "loaded" or "failed"
    stubs,      \* pods some var of a namespace still calls
    handle,     \* pods the script holds a handle of
    listed,     \* live_pods
    calls,      \* counter: invokes begun
    cur,        \* the invoke that waits for its reply, and
    last,       \*   the id of the request whose value it saw last
    result,     \* [id, from] of the last invoke that returned a value
    loose,      \* history: pods that sent an error before, not with, their done
    exited      \* the host process is gone
vars == <<proc, inbox, outbox, load, stubs, handle, listed, calls, cur, last, result, loose, exited>>

Init ==
    /\ proc = [p \in Pods |-> "none"] /\ load = [p \in Pods |-> "no"]
    /\ inbox = [p \in Pods |-> <<>>] /\ outbox = [p \in Pods |-> <<>>]
    /\ stubs = {} /\ handle = {} /\ listed = {}
    /\ calls = [p \in Pods |-> 0] /\ cur = [p \in Pods |-> None] /\ last = [p \in Pods |-> None]
    /\ result = [p \in Pods |-> [id |-> None, from |-> None]]
    /\ loose = {} /\ exited = FALSE

callVars == <<calls, cur, last, result>>
ownVars == <<stubs, handle, listed>>

-----------------------------------------------------------------------------
(* The child (external) *)

\* It answers a request: partial replies, then one that ends it.  One that reports
\* its error apart from its done is loose.
PodReply(p, kinds) ==
    LET id == Head(inbox[p])
    IN  /\ proc[p] = "running" /\ inbox[p] # <<>> /\ id # 0
        /\ inbox' = [inbox EXCEPT ![p] = Tail(@)]
        /\ outbox' = [outbox EXCEPT ![p] = @ \o [i \in DOMAIN kinds |-> [id |-> id, kind |-> kinds[i]]]]
        /\ loose' = IF \E i \in DOMAIN kinds : kinds[i] = "error" THEN loose \cup {p} ELSE loose
        /\ UNCHANGED <<proc, load, ownVars, callVars, exited>>
Replies == { <<"value", "done">>, <<"value_done">>, <<"done">>, <<"value", "error_done">>, <<"error", "done">> }

PodDescribes(p) ==
    /\ proc[p] = "running" /\ inbox[p] # <<>> /\ Head(inbox[p]) = 0
    /\ inbox' = [inbox EXCEPT ![p] = Tail(@)]
    /\ outbox' = [outbox EXCEPT ![p] = Append(@, [id |-> None, kind |-> "describe"])]
    /\ UNCHANGED <<proc, load, ownVars, callVars, loose, exited>>

PodDies(p) ==
    /\ proc[p] = "running" /\ proc' = [proc EXCEPT ![p] = "dead"]
    /\ UNCHANGED <<inbox, outbox, load, ownVars, callVars, loose, exited>>

-----------------------------------------------------------------------------
(* load-pod *)

\* spawn_pod and the describe request.
LoadPod(p) ==
    /\ ~exited /\ load[p] = "no"
    /\ load' = [load EXCEPT ![p] = "describing"]
    /\ proc' = [proc EXCEPT ![p] = "running"]
    /\ inbox' = [inbox EXCEPT ![p] = <<0>>]
    /\ UNCHANGED <<outbox, ownVars, callVars, loose, exited>>

\* Drop for Pod, when neither a var nor the script nor load-pod refers to it;
\* shutdown sends the op, polls, and kills.
Killed(p) == [proc EXCEPT ![p] = "dead"]

\* recv_timeout expires, or the pod closed its output.
DescribeFails(p) ==
    /\ ~exited /\ load[p] = "describing"
    /\ load' = [load EXCEPT ![p] = "failed"]
    /\ proc' = Killed(p)
    /\ UNCHANGED <<inbox, outbox, ownVars, callVars, loose, exited>>

\* Mutant: loaded pods are not recorded.
NotListed(p) == listed

\* The answer: an unsupported format drops the pod; else stubs are interned, code
\* vars evaluated, and only then is the pod listed and a handle returned.  A code
\* var that fails leaves the stubs.
Registered(p) == listed \cup {p}
Describe(p, outcome) ==
    /\ ~exited /\ load[p] = "describing" /\ outbox[p] # <<>>
    /\ outbox' = [outbox EXCEPT ![p] = Tail(@)]
    /\ load' = [load EXCEPT ![p] = IF outcome = "ok" THEN "loaded" ELSE "failed"]
    /\ proc' = IF outcome = "bad_format" THEN Killed(p) ELSE proc
    /\ stubs' = IF outcome = "bad_format" THEN stubs ELSE stubs \cup {p}
    /\ handle' = IF outcome = "ok" THEN handle \cup {p} ELSE handle
    /\ listed' = IF outcome = "ok" THEN Registered(p) ELSE listed
    /\ UNCHANGED <<inbox, callVars, loose, exited>>

-----------------------------------------------------------------------------
(* invoke *)

Fail(p) == cur' = [cur EXCEPT ![p] = None] /\ UNCHANGED result

\* Calls are synchronous, on the one thread that has the values.
Invoke(p) ==
    /\ ~exited /\ p \in stubs /\ cur[p] = None /\ calls[p] < MaxCalls
    /\ \A q \in Pods : cur[q] = None
    /\ calls' = [calls EXCEPT ![p] = @ + 1]
    /\ IF proc[p] = "running"
       THEN /\ inbox' = [inbox EXCEPT ![p] = Append(@, calls[p] + 1)]
            /\ cur' = [cur EXCEPT ![p] = calls[p] + 1]
            /\ last' = [last EXCEPT ![p] = None]
       ELSE UNCHANGED <<inbox, cur, last>>
    /\ UNCHANGED <<proc, outbox, load, ownVars, result, loose, exited>>

\* Mutant: the first value ends the call.
ReturnsOnValue(kind) == kind # "error_done"

\* The replies that end an invoke with a value, and with an exception.
Returns(kind) == kind \in {"done", "value_done"}
Throws(kind) == kind \in {"error", "error_done"}
Pump(p) ==
    LET m == Head(outbox[p])
        seen == IF m.kind \in {"value", "value_done"} THEN m.id ELSE last[p]
    IN  /\ ~exited /\ cur[p] # None /\ outbox[p] # <<>>
        /\ outbox' = [outbox EXCEPT ![p] = Tail(@)]
        /\ last' = [last EXCEPT ![p] = seen]
        /\ IF Throws(m.kind) THEN Fail(p)
           ELSE IF Returns(m.kind)
           THEN /\ cur' = [cur EXCEPT ![p] = None]
                /\ result' = [result EXCEPT ![p] = [id |-> cur[p], from |-> IF seen = None THEN m.id ELSE seen]]
           ELSE UNCHANGED <<cur, result>>
        /\ UNCHANGED <<proc, inbox, load, ownVars, calls, loose, exited>>

\* The reader thread ends with the stream: "closed its output".
Closed(p) ==
    /\ ~exited /\ cur[p] # None /\ outbox[p] = <<>> /\ proc[p] = "dead"
    /\ Fail(p)
    /\ UNCHANGED <<proc, inbox, outbox, load, ownVars, calls, last, loose, exited>>

-----------------------------------------------------------------------------
(* The end of a pod *)

\* unload-pod: shutdown; the stubs stay.
Unload(p) ==
    /\ ~exited /\ p \in handle /\ \A q \in Pods : cur[q] = None
    /\ proc' = Killed(p)
    /\ UNCHANGED <<inbox, outbox, load, ownVars, callVars, loose, exited>>

\* The script drops the handle; the vars still hold the pod.
DropHandle(p) ==
    /\ ~exited /\ p \in handle /\ handle' = handle \ {p}
    /\ UNCHANGED <<proc, inbox, outbox, load, stubs, listed, callVars, loose, exited>>

\* shutdown_all, then exit: Drop does not run.
Exit ==
    /\ ~exited /\ \A p \in Pods : load[p] # "describing" /\ cur[p] = None
    /\ proc' = [p \in Pods |-> IF p \in listed /\ proc[p] = "running" THEN "dead" ELSE proc[p]]
    /\ listed' = {} /\ exited' = TRUE
    /\ UNCHANGED <<inbox, outbox, load, stubs, handle, callVars, loose>>

Next ==
    \/ \E p \in Pods, ks \in Replies : PodReply(p, ks)
    \/ \E p \in Pods : PodDescribes(p) \/ PodDies(p)
    \/ \E p \in Pods : LoadPod(p) \/ DescribeFails(p)
    \/ \E p \in Pods, o \in {"ok", "bad_format", "bad_code"} : Describe(p, o)
    \/ \E p \in Pods : Invoke(p) \/ Pump(p) \/ Closed(p) \/ Unload(p) \/ DropHandle(p)
    \/ Exit
Spec == Init /\ [][Next]_vars

-----------------------------------------------------------------------------
(* Properties *)

\* A value returned by a call comes from the replies to that call, although ids are
\* not compared, as long as the pod reports an error in its last reply.
OwnAnswer == \A p \in Pods \ loose : result[p].from = result[p].id

\* No child survives the host, except one whose load failed in a code var: its
\* stubs keep it running and live_pods does not know it.
NoOrphan == exited => \A p \in Pods : proc[p] = "running" => load[p] = "failed"
=============================================================================
