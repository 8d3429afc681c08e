---------------------------- MODULE TierAgreement ---------------------------
(* What the IR interpreter answers, against what the tree-walker answers for
   the same program.                                                          *)
EXTENDS IrInterp, TreeWalker

CONSTANT Expected(_)  \* what a program answers in Tier 0 (TreeWalker's TreeWalk)

(* The value of a call, or what a catch around it binds. *)
Caught(st, v) == IF st = "err" THEN ErrorValue ELSE v

(* The outcome, value and output of a call, as its caller sees them.  Where the
   tree-walker met an error that no throw raised, the kind of error that leaves
   the call may differ: a builtin's error is EvalError::Thrown in Tier 0 and
   EvalError::Runtime when it leaves the outermost activation of Tier 1.       *)
SameOutcome(e, st, v, printed) ==
    /\ (st = "ok") = (e.st = "ok")
    /\ e.failed = 0 => st = e.st
    /\ Caught(st, Seen(v)) = Caught(e.st, e.v)
    /\ e.out = [i \in 1..Len(printed) |-> Seen(printed[i])]

(* A function that has been lowered answers what the tree-walker answers: it
   returns the same value, throws the same exception, or raises an error from
   which a catch gets the same value, after the same output in the same order,
   with no dynamic binding and no output capture left behind.                 *)
TiersAgree ==
    /\ Finished => SameOutcome(Expected(prog), ctl[1], ctl[2], out[1])
    /\ NothingLeftBehind
=============================================================================
