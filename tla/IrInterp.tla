------------------------------ MODULE IrInterp ------------------------------
(* The Tier-1 IR interpreter (cljrs-eval: ir_interp.rs) executing what
   Lowering produces, one phi, instruction or terminator at a time.           *)
EXTENDS IrCode

CONSTANTS
    Programs,     \* the functions that are called: records [body, arg]
    Compiled(_)   \* the IR of a program (Lowering's LowerProgram)

(* The heap is empty before the call, so its argument is no closure, and what
   lowering produces is well formed.                                          *)
ASSUME CompiledAssumption ==
    \A p \in Programs : Scalar(p.arg) /\ (Compiled(p).declined \/ WellFormed(Compiled(p).fns))

VARIABLES
    prog,     \* the program being run
    code,     \* its IR functions
    frames,   \* the Rust call stack: activations, and the try, binding and capture guards between them
    ctl,      \* what the top frame does: run, or hand over <<"ok" | "throw" | "err", value>>
    heap,     \* closures and cells
    dyn,      \* the stack of dynamic bindings over the root value
    out       \* the stack of output captures over the real output
irVars == <<prog, code, frames, ctl, heap, dyn, out>>

Run == <<"run">>
Top == frames[Len(frames)]
Callers == Front(frames)
Reg(v) == Top.regs[v]
Regs(vs) == [i \in 1..Len(vs) |-> Reg(vs[i])]

(* interpret_ir: block 0, every register nil, the parameters bound. *)
Activation(i, vs) ==
    [kind |-> "ir", fn |-> i, blk |-> 0, prev |-> -1, at |-> 0, dst |-> 0,
     regs |-> [r \in Used(code[i]) |-> IF r < Len(vs) THEN vs[r + 1] ELSE Nil]]

Block == code[Top.fn].blocks[Top.blk]
(* `at` counts through the block's phis, then its instructions, then its end. *)
Running == ctl = Run /\ Top.kind = "ir"
AtPhi == Running /\ Top.at < Len(Block.phis)
AtInst == Running /\ Top.at >= Len(Block.phis) /\ Top.at < Len(Block.phis) + Len(Block.insts)
AtEnd == Running /\ Top.at = Len(Block.phis) + Len(Block.insts)
Inst == Block.insts[Top.at - Len(Block.phis) + 1]

IrInit ==
    /\ prog \in Programs
    /\ ~Compiled(prog).declined
    /\ code = Compiled(prog).fns
    /\ frames = <<Activation(Len(code), <<prog.arg>>)>>
    /\ ctl = Run
    /\ heap = <<>>
    /\ dyn = <<Num(0)>>
    /\ out = <<<<>>>>

SetTop(f) == frames' = [frames EXCEPT ![Len(frames)] = f]
(* The instruction is done and r holds v. *)
Write(r, v) == SetTop([Top EXCEPT !.regs[r] = v, !.at = @ + 1])
HandOver(st, v) == ctl' = <<st, v>> /\ UNCHANGED frames

(* Phis are copied one after another: a later one reads what an earlier one
   of the same block has just written.                                        *)
Phi ==
    /\ AtPhi
    /\ LET p == Block.phis[Top.at + 1]
           k == SelectInSeq(p.from, LAMBDA e : e[1] = Top.prev)
       IN  SetTop([Top EXCEPT !.at = @ + 1,
                              !.regs[p.dst] = IF k = 0 THEN @ ELSE Reg(p.from[k][2])])
    /\ UNCHANGED <<prog, code, ctl, heap, dyn, out>>

Const ==
    /\ AtInst /\ Inst[1] = "const"
    /\ Write(Inst[2], Inst[3])
    /\ UNCHANGED <<prog, code, ctl, heap, dyn, out>>

(* load_global_value *)
LoadGlobal ==
    /\ AtInst /\ Inst[1] = "global"
    /\ IF Inst[3] = "*dyn*" THEN Write(Inst[2], Last(dyn)) /\ UNCHANGED ctl
       ELSE IF Inst[3] = "ex-info" THEN Write(Inst[2], <<"native", Inst[3]>>) /\ UNCHANGED ctl
       ELSE HandOver("err", Nil)
    /\ UNCHANGED <<prog, code, heap, dyn, out>>

LoadVar ==
    /\ AtInst /\ Inst[1] = "loadvar"
    /\ Write(Inst[2], <<"dynvar">>)
    /\ UNCHANGED <<prog, code, ctl, heap, dyn, out>>

AllocCollection ==
    /\ AtInst /\ Inst[1] \in {"vec", "map"}
    /\ Write(Inst[2], IF Inst[1] = "vec" THEN <<"vec", Regs(Inst[3])>>
                      ELSE <<"map", [k \in ToSet(Inst[3]) |->
                               Reg(Inst[4][SelectInSeq(Inst[3], LAMBDA y : y = k)])]>>)
    /\ UNCHANGED <<prog, code, ctl, heap, dyn, out>>

AllocClosure ==
    /\ AtInst /\ Inst[1] = "closure"
    /\ heap' = Append(heap, [ars |-> Inst[3], caps |-> Regs(Inst[4])])
    /\ Write(Inst[2], <<"clo", Len(heap) + 1>>)
    /\ UNCHANGED <<prog, code, ctl, dyn, out>>

(* A fresh, call-local cell; nothing is interned in the namespace. *)
DefVar ==
    /\ AtInst /\ Inst[1] = "defvar"
    /\ heap' = Append(heap, Reg(Inst[3]))
    /\ Write(Inst[2], <<"cell", Len(heap) + 1>>)
    /\ UNCHANGED <<prog, code, ctl, dyn, out>>

Deref ==
    /\ AtInst /\ Inst[1] = "deref"
    /\ IF Reg(Inst[3])[1] = "cell" THEN Write(Inst[2], heap[Reg(Inst[3])[2]]) /\ UNCHANGED ctl
       ELSE HandOver("err", Nil)
    /\ UNCHANGED <<prog, code, heap, dyn, out>>

(* set!: the innermost dynamic binding, or the root of the var; an error when
   it is given no var.                                                        *)
SetBang ==
    /\ AtInst /\ Inst[1] = "setbang"
    /\ LET x == Reg(Inst[2])
       IN  IF x[1] = "dynvar"
           THEN /\ dyn' = [dyn EXCEPT ![Len(dyn)] = Reg(Inst[3])]
                /\ SetTop([Top EXCEPT !.at = @ + 1]) /\ UNCHANGED <<ctl, heap>>
           ELSE IF x[1] = "cell"
           THEN /\ heap' = [heap EXCEPT ![x[2]] = Reg(Inst[3])]
                /\ SetTop([Top EXCEPT !.at = @ + 1]) /\ UNCHANGED <<ctl, dyn>>
           ELSE HandOver("err", Nil) /\ UNCHANGED <<heap, dyn>>
    /\ UNCHANGED <<prog, code, out>>

Throw ==
    /\ AtInst /\ Inst[1] = "throw"
    /\ HandOver("throw", Reg(Inst[2]))
    /\ UNCHANGED <<prog, code, heap, dyn, out>>

(* dispatch_known_fn for the operations that call nothing; <<>> is an error. *)
KnownFn(op, vs) ==
    CASE op = "+" -> IF IsInts(vs) THEN Num(vs[1][2] + vs[2][2]) ELSE <<>>
      [] op = "-" -> IF IsInts(vs) THEN Num(vs[1][2] - vs[2][2]) ELSE <<>>
      [] op = "<" -> IF IsInts(vs) THEN Bool(vs[1][2] < vs[2][2]) ELSE <<>>
      [] op = ">" -> IF IsInts(vs) THEN Bool(vs[1][2] > vs[2][2]) ELSE <<>>
      [] op = "=" -> Bool(vs[1] = vs[2])
      [] op = "nil?" -> Bool(vs[1] = Nil)
      [] op = "nth" -> LET s == Items(vs[1]) IN IF vs[2][2] \in 0..(Len(s) - 1) THEN s[vs[2][2] + 1] ELSE Nil
      [] op = "rest" -> LET s == Items(vs[1]) IN <<"list", IF s = <<>> THEN s ELSE Tail(s)>>
      [] op = "seq" -> RestList(Items(vs[1]))
      [] op = "get" -> Get(vs[1], vs[2][2])
      [] op = "prn" -> Nil

CallKnown ==
    /\ AtInst /\ Inst[1] = "known" /\ Inst[3] \notin {"try", "with-bindings", "with-out-str"}
    /\ LET vs == Regs(Inst[4])
           r  == KnownFn(Inst[3], vs)
       IN  /\ IF r = <<>> THEN HandOver("err", Nil) ELSE Write(Inst[2], r) /\ UNCHANGED ctl
           /\ out' = IF Inst[3] = "prn" THEN [out EXCEPT ![Len(out)] = Append(@, vs[1])] ELSE out
    /\ UNCHANGED <<prog, code, heap, dyn>>

(* The arity an IR closure runs: an exact fixed one, else the variadic one
   with the most fixed parameters.                                            *)
ArityFor(ars, n) ==
    LET fixed == {i \in 1..Len(ars) : ~ars[i].va /\ ars[i].n = n}
        more  == {i \in 1..Len(ars) : ars[i].va /\ ars[i].n <= n}
    IN  IF fixed # {} THEN CHOOSE i \in fixed : \A j \in fixed : i <= j
        ELSE IF more = {} THEN 0
        ELSE CHOOSE i \in more : \A j \in more : ars[j].n < ars[i].n \/ (ars[j].n = ars[i].n /\ i <= j)

(* What a call that no arity fits raises: check_arity refuses too few arguments,
   or another number than the only fixed arity takes; past it the closure itself
   reports the error, which becomes a throw.                                  *)
ArityError(ars, n) ==
    IF (Len(ars) = 1 /\ ~ars[1].va) \/ \A i \in 1..Len(ars) : n < ars[i].n
    THEN <<"err", Nil>> ELSE <<"throw", ErrorValue>>

(* The value called: a cell stands for its contents. *)
Callee(f) == IF f[1] = "cell" THEN heap[f[2]] ELSE f

(* Calling f with vs on top of the stack `under`; register dst of the frame
   below, if it is an activation, receives the result.                        *)
Invoke(f0, vs, under) ==
    LET f == Callee(f0)
        c == heap[f[2]]
        i == ArityFor(c.ars, Len(vs))
        n == c.ars[i].n
        args == c.caps \o (IF c.ars[i].va
                           THEN SubSeq(vs, 1, n) \o <<<<"list", SubSeq(vs, n + 1, Len(vs))>>>> ELSE vs)
    IN  IF f[1] # "clo" THEN frames' = under /\ ctl' = <<"err", Nil>>
        ELSE IF i = 0 THEN frames' = under /\ ctl' = ArityError(c.ars, Len(vs))
        ELSE frames' = Append(under, Activation(c.ars[i].fn, args)) /\ ctl' = Run

(* The caller waits at its instruction, whose register takes the result. *)
Waiting == [frames EXCEPT ![Len(frames)].dst = Inst[2]]

Call ==
    /\ AtInst /\ Inst[1] = "call"
    /\ LET f == Callee(Reg(Inst[3]))
           vs == Regs(Inst[4])
       IN  IF f[1] = "native" THEN Write(Inst[2], Builtin(f[2], vs)) /\ UNCHANGED ctl
           ELSE Invoke(f, vs, Waiting)
    /\ UNCHANGED <<prog, code, heap, dyn, out>>

(* Terminators. *)
(* Mutant: the block that is left is not remembered. *)
GoToForgotten(b) == SetTop([Top EXCEPT !.blk = b, !.at = 0])
GoTo(b) == SetTop([Top EXCEPT !.prev = Top.blk, !.blk = b, !.at = 0])
Jump ==
    /\ AtEnd /\ Block.term[1] \in {"jump", "recur"}
    /\ GoTo(Block.term[2])
    /\ UNCHANGED <<prog, code, ctl, heap, dyn, out>>
Branch ==
    /\ AtEnd /\ Block.term[1] = "branch"
    /\ GoTo(IF Truthy(Reg(Block.term[2])) THEN Block.term[3] ELSE Block.term[4])
    /\ UNCHANGED <<prog, code, ctl, heap, dyn, out>>
Return ==
    /\ AtEnd /\ Block.term[1] = "return"
    /\ HandOver("ok", Reg(Block.term[2]))
    /\ UNCHANGED <<prog, code, heap, dyn, out>>

(* The activation f takes the result it waits for. *)
Delivered(f, v) == [f EXCEPT !.regs[f.dst] = v, !.at = @ + 1]

(* Mutant: the error of a closure's body keeps its kind. *)
AsRaised(c) == c
(* alloc_closure: every error of a closure's body is thrown to its caller. *)
AsThrown(c) == IF c[1] = "err" THEN <<"throw", ErrorValue>> ELSE c

(* The activation on top is finished, or its error leaves it. *)
Leave ==
    /\ ctl # Run /\ Len(frames) > 1 /\ Top.kind = "ir"
    /\ LET below == Callers[Len(Callers)]
       IN  IF below.kind = "ir" /\ ctl[1] = "ok"
           THEN /\ frames' = [Callers EXCEPT ![Len(Callers)] = Delivered(below, ctl[2])]
                /\ ctl' = Run
           ELSE frames' = Callers /\ ctl' = AsThrown(ctl)
    /\ UNCHANGED <<prog, code, heap, dyn, out>>

(* A guard frame is done: its result goes to the activation below it. *)
Resume(under, r) ==
    IF r[1] = "ok"
    THEN frames' = [under EXCEPT ![Len(under)] = Delivered(under[Len(under)], r[2])] /\ ctl' = Run
    ELSE frames' = under /\ ctl' = r

(* eval_ir_try_catch_finally: the body thunk first. *)
EnterTry ==
    /\ AtInst /\ Inst[1] = "known" /\ Inst[3] = "try"
    /\ LET vs == Regs(Inst[4])
       IN  Invoke(vs[1], <<>>, Append(Waiting, [kind |-> "try", stage |-> "body",
                                                catch |-> vs[2], fin |-> vs[3], ret |-> <<>>]))
    /\ UNCHANGED <<prog, code, heap, dyn, out>>

(* What the body thunk throws reaches the catch thunk: an exception, or the
   error that leaving the thunk has made one.                                 *)
CatchThrown ==
    /\ ctl[1] = "throw" /\ Top.kind = "try" /\ Top.stage = "body" /\ Top.catch # Nil
    /\ Invoke(Top.catch, <<ctl[2]>>, Append(Callers, [Top EXCEPT !.stage = "catch"]))
    /\ UNCHANGED <<prog, code, heap, dyn, out>>

(* The finally thunk runs with the result kept aside. *)
RunFinally ==
    /\ ctl # Run /\ Top.kind = "try" /\ Top.stage \in {"body", "catch"}
    /\ ~(ctl[1] = "throw" /\ Top.stage = "body" /\ Top.catch # Nil)
    /\ IF Top.fin = Nil THEN Resume(Callers, ctl)
       ELSE Invoke(Top.fin, <<>>, Append(Callers, [Top EXCEPT !.stage = "finally", !.ret = ctl]))
    /\ UNCHANGED <<prog, code, heap, dyn, out>>

(* Whatever the finally thunk did, the result kept aside is the result. *)
EndFinally ==
    /\ ctl # Run /\ Top.kind = "try" /\ Top.stage = "finally"
    /\ Resume(Callers, Top.ret)
    /\ UNCHANGED <<prog, code, heap, dyn, out>>

(* eval_ir_with_bindings and its guard. *)
EnterBinding ==
    /\ AtInst /\ Inst[1] = "known" /\ Inst[3] = "with-bindings"
    /\ LET vs == Regs(Inst[4])
       IN  /\ dyn' = Append(dyn, vs[2])
           /\ Invoke(vs[3], <<>>, Append(Waiting, [kind |-> "bind"]))
    /\ UNCHANGED <<prog, code, heap, out>>
(* Mutant: an error leaves the bindings pushed. *)
EndBindingOnSuccess ==
    /\ ctl # Run /\ Top.kind = "bind"
    /\ dyn' = IF ctl[1] = "ok" THEN Front(dyn) ELSE dyn
    /\ Resume(Callers, ctl)
    /\ UNCHANGED <<prog, code, heap, out>>
EndBinding ==
    /\ ctl # Run /\ Top.kind = "bind"
    /\ dyn' = Front(dyn)
    /\ Resume(Callers, ctl)
    /\ UNCHANGED <<prog, code, heap, out>>

(* with-out-str: the capture is popped on every path. *)
EnterCapture ==
    /\ AtInst /\ Inst[1] = "known" /\ Inst[3] = "with-out-str"
    /\ out' = Append(out, <<>>)
    /\ Invoke(Reg(Inst[4][1]), <<>>, Append(Waiting, [kind |-> "capture"]))
    /\ UNCHANGED <<prog, code, heap, dyn>>
EndCapture ==
    /\ ctl # Run /\ Top.kind = "capture"
    /\ out' = Front(out)
    /\ Resume(Callers, IF ctl[1] = "ok" THEN <<"ok", <<"str", Last(out)>>>> ELSE ctl)
    /\ UNCHANGED <<prog, code, heap, dyn>>

Finished == Len(frames) = 1 /\ ctl # Run
Done == Finished /\ UNCHANGED irVars

IrNext == \/ Phi \/ Const \/ LoadGlobal \/ LoadVar \/ AllocCollection \/ AllocClosure
          \/ DefVar \/ Deref \/ SetBang \/ Throw \/ CallKnown \/ Call
          \/ Jump \/ Branch \/ Return \/ Leave
          \/ EnterTry \/ CatchThrown \/ RunFinally \/ EndFinally
          \/ EnterBinding \/ EndBinding \/ EnterCapture \/ EndCapture
          \/ Done

IrSpec == IrInit /\ [][IrNext]_irVars /\ WF_irVars(IrNext)

-----------------------------------------------------------------------------
(* A call that has ended, on whatever path, has popped every dynamic binding
   and every output capture it pushed.                                        *)
NothingLeftBehind == Finished => Len(dyn) = 1 /\ Len(out) = 1

(* Whenever a block is entered, every phi has exactly one entry for the block
   just left, so no register keeps a value of an earlier iteration; and the
   dead code after a recur or a throw is never entered.                       *)
PhisHaveEdges ==
    Running => /\ \A k \in 1..Len(Block.phis) :
                    Cardinality({j \in 1..Len(Block.phis[k].from) :
                                   Block.phis[k].from[j][1] = Top.prev}) = 1
               /\ Block.term # <<"unreachable">> \/ ~AtEnd

(* The interpreter finishes whatever the tree-walker finishes: no recur or
   call of the lowered code loops where the source does not.                  *)
Terminates == <>Finished
=============================================================================
