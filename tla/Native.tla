------------------------------- MODULE Native -------------------------------
(* The native tier (cljrs-compiler: typeinfer.rs, codegen.rs, rt_abi.rs) running
   the IR that IrInterp interprets, as a function from a call to its outcome.

   A register is unboxed (Long, Bool) or a pointer to a value, as typeinfer
   decides once per function; here it always holds the value, and `bad` records
   that machine code read a pointer where it expected a raw number.  A throw
   only fills the thread's pending-exception slot: compiled code goes on, and
   the dispatch seam looks at the slot when the outermost call has returned.   *)
EXTENDS TierAgreement

CONSTANT NativeGas  \* what the gas meter holds when a call enters native code

-----------------------------------------------------------------------------
(* typeinfer::infer.  "none" is the lattice's bottom. *)
MeetAll(S) == LET R == S \ {"none"}
              IN  IF R = {} THEN "none"
                  ELSE IF Cardinality(R) = 1 THEN CHOOSE r \in R : TRUE ELSE "boxed"

(* arith_result, cmp_result and the rule for =: all need two Longs. *)
OfLongs(a, b, result) ==
    IF "none" \in {a, b} THEN "none" ELSE IF {a, b} = {"long"} THEN result ELSE "boxed"

InstRepr(inst, lat) ==
    CASE inst[1] = "const" ->
           IF inst[3][1] = "int" THEN "long" ELSE IF inst[3][1] = "bool" THEN "bool" ELSE "boxed"
      [] inst[1] = "known" ->
           IF inst[3] \in {"+", "-"} THEN OfLongs(lat[inst[4][1]], lat[inst[4][2]], "long")
           ELSE IF inst[3] \in {"<", ">", "="} THEN OfLongs(lat[inst[4][1]], lat[inst[4][2]], "bool")
           ELSE "boxed"
      [] OTHER -> "boxed"

(* What one pass over the function says of each register: phis, instructions,
   and the arguments of a recur at its header's phis.                         *)
Contributions(f, lat) ==
    UNION {LET k == f.blocks[b]
           IN  {<<p.dst, MeetAll({lat[p.from[j][2]] : j \in 1..Len(p.from)})>> : p \in ToSet(k.phis)}
               \cup {<<i[2], InstRepr(i, lat)>> : i \in {x \in ToSet(k.insts) : x[1] \notin {"setbang", "throw"}}}
               \cup IF k.term[1] # "recur" THEN {}
                    ELSE LET ps == f.blocks[k.term[2]].phis
                         IN  {<<ps[j].dst, lat[k.term[3][j]]>> : j \in 1..Len(ps)}
           : b \in DOMAIN f.blocks}
InferStep(f, lat) ==
    LET c == Contributions(f, lat)
    IN  [r \in DOMAIN lat |-> MeetAll({lat[r]} \cup {d[2] : d \in {e \in c : e[1] = r}})]

RECURSIVE InferFix(_, _)
InferFix(f, lat) ==
    LET next == InferStep(f, lat) IN IF next = lat THEN lat ELSE InferFix(f, next)

InferStart(f, specs) ==
    [r \in Used(f) |->
       IF r >= f.params THEN "none" ELSE IF r < Len(specs) THEN specs[r + 1] ELSE "boxed"]
(* Mutant: one pass over the blocks instead of a fixpoint. *)
InferOnce(f, specs) == InferStep(f, InferStart(f, specs))
Infer(f, specs) == InferFix(f, InferStart(f, specs))

Repr(lat, r) == IF lat[r] \in {"long", "bool"} THEN lat[r] ELSE "boxed"

(* collect_phi_args and coerce_to: the registers an edge passes to the phis of
   its target, all read before any phi is written.                            *)
PhiArgs(f, from, to) ==
    LET t == f.blocks[from].term
        ps == f.blocks[to].phis
    IN  [k \in 1..Len(ps) |->
           IF t[1] = "recur" THEN t[3][k]
           ELSE ps[k].from[SelectInSeq(ps[k].from, LAMBDA e : e[1] = from)][2]]

(* Codegen reports an error, and the function stays with Tier 1: an edge that
   lacks an argument, or an unboxed phi that is given another representation.  *)
CodegenFails(f, lat) ==
    \E b \in DOMAIN f.blocks : \E to \in Successors(f.blocks[b].term) :
       LET t == f.blocks[b].term
           ps == f.blocks[to].phis
       IN  \/ IF t[1] = "recur" THEN Len(t[3]) < Len(ps)
              ELSE \E k \in 1..Len(ps) : \A e \in ToSet(ps[k].from) : e[1] # b
           \/ \E k \in 1..Len(ps) :
                LET want == Repr(lat, ps[k].dst)
                IN  want \notin {"boxed", Repr(lat, PhiArgs(f, b, to)[k])}

-----------------------------------------------------------------------------
(* rt_abi: the thread's state.  pend is the pending-exception slot, vars the
   namespace's vars by name, tried that rt_try ran.                           *)
NativeStart == [v |-> Nil, pend |-> <<>>, h |-> <<>>, vars |-> NoNames, dyn |-> <<Num(0)>>,
                out |-> <<<<>>>>, gas |-> NativeGas, bad |-> FALSE, tried |-> FALSE]
Gives(s, v) == [s EXCEPT !.v = v]
Exhausted(s) == s.gas < 0
(* rt_gas_charge: an exhausted meter stays exhausted. *)
GasCharge(s, cost) == [s EXCEPT !.gas = IF @ < cost THEN -1 ELSE @ - cost]

(* The bridges behind emit_known_call: a wrong type gives nil or false. *)
RtArith(op, vs) == IF ~IsInts(vs) THEN Nil
                   ELSE Num(IF op = "+" THEN vs[1][2] + vs[2][2] ELSE vs[1][2] - vs[2][2])
RtCompare(op, vs) ==
    Bool(IF op = "=" THEN vs[1] = vs[2]
         ELSE IsInts(vs) /\ IF op = "<" THEN vs[1][2] < vs[2][2] ELSE vs[1][2] > vs[2][2])
RtNth(s, i) == IF i < Len(s) THEN s[i + 1] ELSE Nil
RtRest(s) == <<"list", IF s = <<>> THEN s ELSE Tail(s)>>
RtSeq(v) == IF Items(v) = <<>> THEN Nil ELSE v
RtKnown(op, vs) ==
    CASE op \in {"+", "-"} -> RtArith(op, vs)
      [] op \in {"<", ">", "="} -> RtCompare(op, vs)
      [] op = "nil?" -> Bool(vs[1] = Nil)
      [] op = "nth" -> RtNth(Items(vs[1]), vs[2][2])
      [] op = "rest" -> RtRest(Items(vs[1]))
      [] op = "seq" -> RtSeq(vs[1])
      [] op = "get" -> Get(vs[1], vs[2][2])

(* emit_unboxed_known: machine arithmetic on the raw operands. *)
UnboxedKnown(inst, lat, vs, s) ==
    IF \E k \in 1..2 : Repr(lat, inst[4][k]) # "long" THEN [Gives(s, Nil) EXCEPT !.bad = TRUE]
    ELSE Gives(s, RtKnown(inst[3], vs))

(* rt_load_global: an unresolved name is nil. *)
RtLoadGlobal(x, s) ==
    Gives(s, IF x = "*dyn*" THEN Last(s.dyn)
             ELSE IF x \in DOMAIN s.vars THEN s.vars[x]
             ELSE IF x = "ex-info" THEN <<"native", x>> ELSE Nil)
(* rt_def_var interns a var of the namespace. *)
RtDefVar(x, v, s) == [Gives(s, <<"gvar", x>>) EXCEPT !.vars = Bound(x, v, @)]
RtDeref(v, s) == Gives(s, IF v[1] = "gvar" THEN s.vars[v[2]] ELSE Nil)
RtSetBang(x, v, s) ==
    IF x = <<"dynvar">> THEN [Gives(s, v) EXCEPT !.dyn[Len(s.dyn)] = v]
    ELSE IF x[1] = "gvar" THEN [Gives(s, v) EXCEPT !.vars = Bound(x[2], v, @)] ELSE Gives(s, v)
RtThrow(v, s) == [Gives(s, Nil) EXCEPT !.pend = <<v>>]
RtMakeFn(ars, caps, s) ==
    [Gives(s, <<"clo", Len(s.h) + 1>>) EXCEPT !.h = Append(@, [ars |-> ars, caps |-> caps])]

RECURSIVE RunBlock(_, _, _, _, _)

(* The dispatch rt_make_fn_multi builds: a fixed arity of this count first, else
   a variadic one; 0 is an arity error.                                       *)
NativeArity(ars, n) ==
    LET fixed == SelectInSeq(ars, LAMBDA a : ~a.va /\ a.n = n)
    IN  IF fixed # 0 THEN fixed ELSE SelectInSeq(ars, LAMBDA a : a.va /\ a.n <= n)

(* The arguments of the compiled function: the captures come first, a rest
   parameter gets the list of the others.                                     *)
NativeArgs(c, a, vs) ==
    c.caps \o (IF a.va THEN SubSeq(vs, 1, a.n) \o <<RestList(SubSeq(vs, a.n + 1, Len(vs)))>> ELSE vs)
Registers(lat, args) == [r \in DOMAIN lat |-> IF r < Len(args) THEN args[r + 1] ELSE Nil]
(* rt_call_compiled, or an arity error that the bridge turns into nil. *)
RtCallCompiled(T, c, k, vs, s) ==
    IF k = 0 THEN Gives(s, Nil)
    ELSE RunBlock(T, c.ars[k].fn, 0, Registers(T[c.ars[k].fn], NativeArgs(c, c.ars[k], vs)), s)
(* rt_call and callback::invoke: what cannot be called gives nil. *)
RtInvokeValue(T, f, vs, s) ==
    CASE f[1] = "native" -> Gives(s, IF Builtin(f[2], vs) = <<>> THEN Nil ELSE Builtin(f[2], vs))
      [] f[1] = "map" /\ Len(vs) >= 1 -> Gives(s, Get(f, vs[1][2]))
      [] f[1] = "clo" -> RtCallCompiled(T, s.h[f[2]], NativeArity(s.h[f[2]].ars, Len(vs)), vs, s)
      [] OTHER -> Gives(s, Nil)
RtInvoke(T, f, vs, s) == RtInvokeValue(T, IF f[1] = "gvar" THEN s.vars[f[2]] ELSE f, vs, s)

(* rt_try: the pending exception, whoever left it, goes to the catch function;
   without one it is dropped.  The finally function's result is ignored.      *)
RtCatch(T, catch, b) ==
    IF b.pend = <<>> THEN b
    ELSE IF catch = Nil THEN [Gives(b, Nil) EXCEPT !.pend = <<>>]
    ELSE RtInvoke(T, catch, b.pend, [b EXCEPT !.pend = <<>>])
RtFinally(T, fin, r) == IF fin = Nil THEN r ELSE Gives(RtInvoke(T, fin, <<>>, r), r.v)
RtTry(T, body, catch, fin, s) ==
    RtFinally(T, fin, RtCatch(T, catch, RtInvoke(T, body, <<>>, [s EXCEPT !.tried = TRUE])))
(* Mutant: the frame is popped only when no exception is pending. *)
PopBindingsNoGuard(b) == IF b.pend = <<>> THEN [b EXCEPT !.dyn = Front(@)] ELSE b
PopBindings(b) == [b EXCEPT !.dyn = Front(@)]
RtWithBindings(T, v, body, s) ==
    PopBindings(RtInvoke(T, body, <<>>, [s EXCEPT !.dyn = Append(@, v)]))
TakeCapture(b) == [Gives(b, <<"str", Last(b.out)>>) EXCEPT !.out = Front(@)]
RtWithOutStr(T, body, s) ==
    TakeCapture(RtInvoke(T, body, <<>>, [s EXCEPT !.out = Append(@, <<>>)]))

(* translate_inst: the value of an instruction is left in v. *)
NativeInst(T, i, inst, regs, s) ==
    LET At1(k) == regs[inst[k]]
        All(k) == [j \in 1..Len(inst[k]) |-> regs[inst[k][j]]]
    IN  CASE inst[1] = "const" -> Gives(s, inst[3])
          [] inst[1] = "global" -> RtLoadGlobal(inst[3], s)
          [] inst[1] = "loadvar" -> Gives(s, <<"dynvar">>)
          [] inst[1] = "vec" -> Gives(s, <<"vec", All(3)>>)
          [] inst[1] = "map" -> Gives(s, <<"map", [k \in ToSet(inst[3]) |->
                                   All(4)[SelectInSeq(inst[3], LAMBDA y : y = k)]]>>)
          [] inst[1] = "closure" -> RtMakeFn(inst[3], All(4), s)
          [] inst[1] = "defvar" -> RtDefVar(inst[4], At1(3), s)
          [] inst[1] = "deref" -> RtDeref(At1(3), s)
          [] inst[1] = "setbang" -> RtSetBang(At1(2), At1(3), s)
          [] inst[1] = "throw" -> RtThrow(At1(2), s)
          [] inst[1] = "call" -> RtInvoke(T, At1(3), All(4), s)
          [] inst[1] = "known" ->
               CASE inst[3] = "try" -> RtTry(T, All(4)[1], All(4)[2], All(4)[3], s)
                 [] inst[3] = "with-bindings" -> RtWithBindings(T, All(4)[2], All(4)[3], s)
                 [] inst[3] = "with-out-str" -> RtWithOutStr(T, All(4)[1], s)
                 [] inst[3] = "prn" -> Gives(Printed(s, All(4)[1]), Nil)
                 [] OTHER -> IF Repr(T[i], inst[2]) # "boxed" THEN UnboxedKnown(inst, T[i], All(4), s)
                             ELSE Gives(s, RtKnown(inst[3], All(4)))

(* A gas checkpoint follows every call: an exhausted meter leaves with nil. *)
AfterInst(a, inst, s) ==
    IF inst[1] \in {"call", "known"} /\ Exhausted(s)
    THEN [a EXCEPT !.s = Gives(s, Nil), !.left = TRUE]
    ELSE [a EXCEPT !.s = s, !.regs = IF inst[1] \in {"setbang", "throw"} THEN @
                                     ELSE [@ EXCEPT ![inst[2]] = s.v]]
StepInst(T, i, a, inst) ==
    IF a.left THEN a ELSE AfterInst(a, inst, NativeInst(T, i, inst, a.regs, a.s))

(* A number is truthy: a branch on an unboxed Long does not look at it. *)
TakesThen(lat, r, v) == Repr(lat, r) = "long" \/ Truthy(v)

(* translate_terminator: the edge's arguments move into the phis of its target. *)
MovePhis(ps, from, regs) ==
    [r \in DOMAIN regs |-> LET j == SelectInSeq(ps, LAMBDA p : p.dst = r)
                           IN  IF j = 0 THEN regs[r] ELSE regs[from[j]]]
Target(lat, t, regs) ==
    IF t[1] # "branch" THEN t[2] ELSE IF TakesThen(lat, t[2], regs[t[2]]) THEN t[3] ELSE t[4]
EnterBlock(T, i, b, to, a) ==
    RunBlock(T, i, to, MovePhis(code[i].blocks[to].phis, PhiArgs(code[i], b, to), a.regs), a.s)
EndBlock(T, i, b, t, a) ==
    IF a.left THEN a.s
    ELSE CASE t[1] = "return" -> Gives(a.s, a.regs[t[2]])
           [] t[1] = "unreachable" -> Gives(a.s, Nil)
           [] OTHER -> EnterBlock(T, i, b, Target(T[i], t, a.regs), a)
(* translate: one block, after its gas checkpoint, and what follows it. *)
RunInsts(T, i, b, k, regs, s) ==
    IF Exhausted(s) THEN Gives(s, Nil)
    ELSE EndBlock(T, i, b, k.term, FoldLeft(LAMBDA a, inst : StepInst(T, i, a, inst),
                                            [regs |-> regs, s |-> s, left |-> FALSE], k.insts))
BlockCost(k) == Len(k.phis) + Len(k.insts) + 1
RunBlock(T, i, b, regs, s) ==
    RunInsts(T, i, b, code[i].blocks[b], regs, GasCharge(s, BlockCost(code[i].blocks[b])))

(* call_jit_native: the entry guard of a specialised parameter, the call, and
   then gas, the pending exception, or the result.                            *)
GuardHolds(spec) == spec = "boxed" \/ prog.arg[1] = "int"
(* Mutant: the pending exception is not taken at the seam. *)
SeamOutcomeDeaf(s) == IF Exhausted(s) THEN <<"gas", Nil>> ELSE <<"ok", s.v>>
SeamOutcome(s) == IF Exhausted(s) THEN <<"gas", Nil>>
                  ELSE IF s.pend # <<>> THEN <<"throw", s.pend[1]>> ELSE <<"ok", s.v>>
Reprs(spec) == FoldLeft(LAMBDA t, f : Append(t, Infer(f, IF Len(t) + 1 = Len(code) THEN <<spec>> ELSE <<>>)),
                        <<>>, code)
CallNative(T) ==
    RtInvoke(T, <<"clo", 1>>, <<prog.arg>>,
             [NativeStart EXCEPT !.h = <<[ars |-> <<[fn |-> Len(code), n |-> 1, va |-> FALSE]>>,
                                          caps |-> <<>>]>>])

-----------------------------------------------------------------------------
(* A hot function that is replaced by machine code keeps its meaning, whether
   its parameter is boxed or specialised to Long: no raw read of a pointer, no
   dynamic binding or capture left behind; where the tree-walker meets no
   exception and no error, the same value and the same output; and the one
   exception that a throw raises and nothing catches still reaches the caller,
   after at least the output that precedes it.  Nothing is said of a program in
   which a builtin fails: machine code goes on with nil there.                *)
NativeAgrees ==
    Finished => \A spec \in {x \in {"boxed", "long"} : GuardHolds(x)} :
      LET e == Expected(prog)
          T == Reprs(spec)
          r == CallNative(T)
          o == SeamOutcome(r)
          printed == [i \in 1..Len(r.out[1]) |-> Seen(r.out[1][i])]
      IN  /\ \A i \in 1..Len(code) : ~CodegenFails(code[i], T[i])
          /\ ~r.bad /\ Len(r.dyn) = 1 /\ Len(r.out) = 1
          /\ e.raised = 0 /\ e.failed = 0 => SameOutcome(e, o[1], o[2], r.out[1])
          /\ e.st = "throw" /\ e.raised = 1 /\ e.failed = 0 /\ ~r.tried =>
               o[1] \in {"throw", "gas"} /\ IsPrefix(e.out, printed)
=============================================================================
