------------------------------- MODULE NRepl -------------------------------
(***************************************************************************)
(* The nREPL server (cljrs-nrepl: server.rs, engine.rs, lib.rs).              *)
(*                                                                          *)
(* The network thread reads requests, answers interrupt and describe itself   *)
(* and queues everything else for the interpreter thread.  An eval that names *)
(* its session and id is entered in the table of pending requests with its    *)
(* cancellation flag; the interpreter looks at the flag when it takes the job *)
(* and before each top-level form, answers, and removes the entry.            *)
(***************************************************************************)
EXTENDS Integers, Sequences, FiniteSets

CONSTANTS
    Requests,   \* requests the clients send, numbered as they are read
    Sessions, Ids,
    MaxForms,   \* top-level forms of an eval
    None

VARIABLES
    req,        \* [op, key] of each request that was read
    pending,    \* key -> the request whose flag the table holds
    flagged,    \* requests whose cancellation flag is set
    jobs,       \* the channel to the interpreter thread
    up,         \* the network thread runs
    cur,        \* the job in hand
    stage,      \* of it: "idle", "taken", "check", "form" or "answered"
    left,       \* forms it has not begun
    sessions,   \* the engine's sessions
    answers,    \* how often each request was answered done
    interrupted,\* requests answered done interrupted
    late,       \* history: requests that began a form after their flag was set
    missed,     \* history: an interrupt answered session-idle though an eval it
                \*   names was queued or running
    reused      \* history: a key was used again before its entry was removed

netVars == <<req, jobs, up>>
tableVars == <<pending, flagged>>
engineVars == <<cur, stage, left, sessions>>
vars == <<netVars, tableVars, engineVars, answers, interrupted, late, missed, reused>>

Keys == Sessions \X Ids
\* Sessions named by requests without one.
Default == "default"

Init ==
    /\ req = [r \in {} |-> None] /\ jobs = <<>> /\ up = TRUE
    /\ pending = [k \in {} |-> None] /\ flagged = {}
    /\ cur = None /\ stage = "idle" /\ left = 0 /\ sessions = {}
    /\ answers = [r \in Requests |-> 0] /\ interrupted = {}
    /\ late = {} /\ missed = FALSE /\ reused = FALSE

Received == DOMAIN req
IsNext(r) == Received = {q \in Requests : q < r}
Record(r, op, key) == req' = [q \in Received \cup {r} |-> IF q = r THEN [op |-> op, key |-> key] ELSE req[q]]
Answer(r) == answers' = [answers EXCEPT ![r] = @ + 1]
Queued == {jobs[i] : i \in DOMAIN jobs}
InHand == IF cur # None /\ stage # "answered" THEN {cur} ELSE {}

-----------------------------------------------------------------------------
(* The network thread *)

\* dispatch of eval and load-file: entered in the table when addressable.
DispatchEval(r, key) ==
    /\ up /\ IsNext(r)
    /\ Record(r, "eval", key)
    /\ jobs' = Append(jobs, r)
    /\ pending' = IF key = None THEN pending
                  ELSE [k \in DOMAIN pending \cup {key} |-> IF k = key THEN r ELSE pending[k]]
    /\ reused' = (reused \/ key \in DOMAIN pending)
    /\ UNCHANGED <<up, flagged, engineVars, answers, interrupted, late, missed>>

\* Any other operation for the interpreter thread.
DispatchOther(r, op, s) ==
    /\ up /\ IsNext(r)
    /\ Record(r, op, <<s, None>>)
    /\ jobs' = Append(jobs, r)
    /\ UNCHANGED <<up, tableVars, engineVars, answers, interrupted, late, missed, reused>>

\* Pending::interrupt: the flags of a session, of one id or of all.
Named(s, i) == {k \in Keys : k[1] = s /\ i \in {None, k[2]}}
DispatchInterrupt(r, s, i) ==
    LET hit == {pending[k] : k \in Named(s, i) \cap DOMAIN pending}
        running == {q \in Received : req[q].op = "eval" /\ req[q].key \in Named(s, i)}
    IN  /\ up /\ IsNext(r)
        /\ Record(r, "interrupt", <<s, i>>)
        /\ flagged' = flagged \cup hit
        /\ missed' = (missed \/ (hit = {} /\ running \cap (Queued \cup InHand) # {}))
        /\ Answer(r)
        /\ UNCHANGED <<jobs, up, pending, engineVars, interrupted, late, reused>>

\* ShutdownHandle: reader tasks are aborted; what is queued is still served.
Shutdown ==
    /\ up /\ up' = FALSE
    /\ UNCHANGED <<req, jobs, tableVars, engineVars, answers, interrupted, late, missed, reused>>

-----------------------------------------------------------------------------
(* The interpreter thread *)

\* serve_with: the next job.
TakeJob ==
    /\ cur = None /\ jobs # <<>>
    /\ cur' = Head(jobs) /\ jobs' = Tail(jobs) /\ stage' = "taken"
    /\ UNCHANGED <<req, up, tableVars, left, sessions, answers, interrupted, late, missed, reused>>

\* Mutant: a job interrupted while queued is dropped without a word.
DropSilently == answers' = answers

\* handle: interrupted while queued.
AnswerDropped == Answer(cur)
DropJob ==
    /\ stage = "taken" /\ cur \in flagged
    /\ AnswerDropped /\ interrupted' = interrupted \cup {cur}
    /\ stage' = "answered"
    /\ UNCHANGED <<netVars, tableVars, cur, left, sessions, late, missed, reused>>

SessionOf(r) == IF req[r].key = None THEN Default ELSE req[r].key[1]

\* eval_code: ensure_session, then the forms; a parse error answers at once.
BeginEval(n) ==
    /\ stage = "taken" /\ cur \notin flagged /\ req[cur].op = "eval"
    /\ sessions' = sessions \cup {SessionOf(cur)}
    /\ left' = n /\ stage' = "check"
    /\ UNCHANGED <<netVars, tableVars, cur, answers, interrupted, late, missed, reused>>

\* Mutant: the flag is only looked at when the job is taken.
FlagSeenAtStart(r) == FALSE

\* The loop over the forms looks at the flag before each one.
FlagSeen(r) == r \in flagged
BeginForm ==
    /\ stage = "check" /\ left > 0 /\ ~FlagSeen(cur)
    /\ left' = left - 1 /\ stage' = "form"
    /\ late' = IF cur \in flagged THEN late \cup {cur} ELSE late
    /\ UNCHANGED <<netVars, tableVars, cur, sessions, answers, interrupted, missed, reused>>
EndForm(ok) ==
    /\ stage = "form"
    /\ stage' = "check" /\ left' = IF ok THEN left ELSE 0
    /\ UNCHANGED <<netVars, tableVars, cur, sessions, answers, interrupted, late, missed, reused>>

\* The final message; an interrupt counts only when a form was left.
EndEval ==
    /\ stage = "check" /\ (left = 0 \/ FlagSeen(cur))
    /\ Answer(cur)
    /\ interrupted' = IF left > 0 THEN interrupted \cup {cur} ELSE interrupted
    /\ stage' = "answered"
    /\ UNCHANGED <<netVars, tableVars, cur, left, sessions, late, missed, reused>>

\* op_clone (a new id, which no request here names), op_close, completions, lookup and
\* unknown ops.
OtherOp ==
    /\ stage = "taken" /\ cur \notin flagged /\ req[cur].op # "eval"
    /\ sessions' = CASE req[cur].op = "clone" -> sessions \cup {"cloned"}
                     [] req[cur].op = "close" -> sessions \ {SessionOf(cur)}
                     [] OTHER -> sessions \cup {SessionOf(cur)}
    /\ Answer(cur) /\ stage' = "answered"
    /\ UNCHANGED <<netVars, tableVars, cur, left, interrupted, late, missed, reused>>

\* Mutant: the entries of the whole session go with a finished job.
RemoveSession(k) == {j \in DOMAIN pending : k # None => j[1] # k[1]}

\* handle: the entry is removed after the answer, by key.
RemoveKey(k) == DOMAIN pending \ {k}
EndJob ==
    /\ stage = "answered"
    /\ pending' = IF req[cur].op # "eval" THEN pending
                  ELSE [k \in RemoveKey(req[cur].key) |-> pending[k]]
    /\ cur' = None /\ stage' = "idle"
    /\ UNCHANGED <<netVars, flagged, left, sessions, answers, interrupted, late, missed, reused>>

EngineStep ==
    \/ TakeJob \/ DropJob \/ BeginForm \/ EndEval \/ OtherOp \/ EndJob
    \/ \E n \in 0..MaxForms : BeginEval(n)
    \/ \E ok \in BOOLEAN : EndForm(ok)
Next ==
    \/ \E r \in Requests : \E k \in Keys \cup {None} : DispatchEval(r, k)
    \/ \E r \in Requests, op \in {"clone", "close", "other"}, s \in Sessions : DispatchOther(r, op, s)
    \/ \E r \in Requests, s \in Sessions, i \in Ids \cup {None} : DispatchInterrupt(r, s, i)
    \/ Shutdown \/ EngineStep

\* The interpreter thread runs, and every form returns.
Fairness == WF_vars(EngineStep)
Spec == Init /\ [][Next]_vars /\ Fairness

-----------------------------------------------------------------------------
(* Properties *)

\* Once an interrupt has set the flag of an eval, queued or running, the eval
\* begins no further form.
InterruptStops == late = {}

\* "session-idle" is the truth, unless a client used a session and id again
\* before the first answer was cleaned up: the table has one entry for a key.
IdleMeansIdle == ~reused => ~missed

\* Every request read by the server is answered done, and only once.
EveryRequestIsAnswered ==
    \A r \in Requests :
        /\ [](answers[r] <= 1)
        /\ r \in Received ~> answers[r] = 1
=============================================================================
