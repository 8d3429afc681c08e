------------------------------ MODULE Lowering ------------------------------
(* ANF lowering (cljrs-ir: lower/anf.rs, lower/context.rs): a form becomes
   basic blocks of instructions over single-assignment registers, joined by
   phi nodes.

   A block is [phis, insts, term]; a phi [dst, from] has one <<block, register>>
   pair per predecessor; an instruction is a tuple <<kind, dst, ...>>; a
   function is [params, blocks], its parameters being the captures, the fixed
   parameters and the rest list in this order.                                *)
EXTENDS TreeWalker

(* LowerCtx: done are the finished blocks, loops the stack of loop headers,
   fns the functions built so far, declined that lowering gave up (the arity
   then stays with the tree-walker).                                          *)
NewCtx(fns) == [done |-> [b \in {} |-> <<>>], cur |-> 0, phis |-> <<>>, insts |-> <<>>,
                loops |-> <<>>, nv |-> 0, nb |-> 1, fns |-> fns, declined |-> FALSE]

(* A lowered form: its register and the context after it. *)
At(v, c) == [v |-> v, c |-> c]

Emit(c, inst) == [c EXCEPT !.insts = Append(@, inst)]
(* An instruction writing a fresh register. *)
EmitDst(c, kind, rest) == At(c.nv, Emit([c EXCEPT !.nv = @ + 1], <<kind, c.nv>> \o rest))
EmitConst(c, v) == EmitDst(c, "const", <<v>>)
EmitKnown(c, op, vs) == EmitDst(c, "known", <<op, vs>>)
EmitPhi(c, from) ==
    At(c.nv, [c EXCEPT !.nv = @ + 1, !.phis = Append(@, [dst |-> c.nv, from |-> from])])

FinishBlock(c, term) ==
    [c EXCEPT !.done = @ @@ (c.cur :> [phis |-> c.phis, insts |-> c.insts, term |-> term]),
              !.phis = <<>>, !.insts = <<>>]
StartBlock(c, b) == [c EXCEPT !.cur = b]
(* The current block ends with term and block b, already numbered, begins. *)
Switch(c, term, b) == StartBlock(FinishBlock(c, term), b)
FreshBlocks(c, n) == [c EXCEPT !.nb = @ + n]

(* Mutant: the header's own registers are recorded, not the recur's arguments. *)
PatchHeaderStale(c, header, from, vs) ==
    IF header \notin DOMAIN c.done THEN c
    ELSE [c EXCEPT !.done[header].phis =
            [i \in 1..Len(@) |-> [@[i] EXCEPT !.from = Append(@, <<from, c.done[header].phis[i].dst>>)]]]

(* update_phi_in_header: the recur block becomes a predecessor of the header,
   if that block is already finished.                                         *)
PatchHeader(c, header, from, vs) ==
    IF header \notin DOMAIN c.done THEN c
    ELSE [c EXCEPT !.done[header].phis =
            [i \in 1..Len(@) |->
               IF i > Len(vs) THEN @[i]
               ELSE [@[i] EXCEPT !.from = Append(@, <<from, vs[i]>>)]]]

(* Two arms that meet in a join block: the registers phi chooses between. *)
Join(c, joinBlock, v1, e1, v2, e2) ==
    EmitPhi(Switch(c, <<"jump", joinBlock>>, joinBlock), <<<<e1, v1>>, <<e2, v2>>>>)

(* collect_symbol_names: every symbol of the forms, binders included. *)
RECURSIVE SymbolsOf(_), Lower(_, _, _), LowerAnd(_, _, _, _), LowerBind(_, _, _, _)
SymbolsOfAll(fs) == UNION {SymbolsOf(fs[i]) : i \in 1..Len(fs)}
SymbolsOfArity(a) == SymbolsOfAll(a.ps) \cup SymbolsOfAll(a.rest) \cup SymbolsOfAll(a.body)
SymbolsOf(f) ==
    CASE f[1] = "sym" -> {f[2]}
      [] f[1] \in {"lit", "dyn"} -> {}
      [] f[1] \in {"vec", "do", "and", "or", "recur", "outstr"} -> SymbolsOfAll(f[2])
      [] f[1] = "map" -> SymbolsOfAll(f[3])
      [] f[1] = "if" -> SymbolsOfAll(<<f[2], f[3], f[4]>>)
      [] f[1] \in {"let", "loop"} -> SymbolsOfAll(f[2]) \cup SymbolsOfAll(f[3]) \cup SymbolsOfAll(f[4])
      [] f[1] = "fn" -> {f[2]} \cup UNION {SymbolsOfArity(f[3][i]) : i \in 1..Len(f[3])}
      [] f[1] = "letfn" -> ToSet(f[2]) \cup SymbolsOfAll(f[4])
                           \cup UNION {SymbolsOfArity(f[3][i]) : i \in 1..Len(f[3])}
      [] f[1] = "call" -> SymbolsOf(f[2]) \cup SymbolsOfAll(f[3])
      [] f[1] = "known" -> {f[2]} \cup SymbolsOfAll(f[3])
      [] f[1] \in {"throw", "set"} -> SymbolsOf(f[2])
      [] f[1] = "try" -> SymbolsOfAll(f[2]) \cup (IF f[3] = <<>> THEN {} ELSE SymbolsOfAll(f[3][1].body))
                         \cup (IF f[4] = <<>> THEN {} ELSE SymbolsOfAll(f[4][1]))
      [] f[1] = "binding" -> SymbolsOf(f[2]) \cup SymbolsOfAll(f[3])
      [] f[1] = "seqp" -> SymbolsOfAll(f[2]) \cup SymbolsOfAll(f[3]) \cup SymbolsOfAll(f[4])
      [] f[1] = "mapp" -> ToSet(f[2]) \cup SymbolsOfAll(f[4]) \cup SymbolsOfAll(f[5])

LowerAll(fs, env, c) ==
    FoldLeft(LAMBDA a, f : LET r == Lower(f, env, a.c) IN At(Append(a.v, r.v), r.c),
             At(<<>>, c), fs)
LowerBody(fs, env, c) ==
    IF fs = <<>> THEN EmitConst(c, Nil)
    ELSE FoldLeft(LAMBDA a, f : Lower(f, env, a.c), At(0, c), fs)

(* lower_destructure_binding: v holds the names bound so far. *)
LowerBindAll(ps, vs, env, c) ==
    FoldLeft(LAMBDA a, i : LowerBind(ps[i], vs[i], a.v, a.c),
             At(env, c), [i \in 1..Len(ps) |-> i])

(* lower_emit_nth: a missing position is nil. *)
LowerNth(v, i, c) == LET k == EmitConst(c, Num(i)) IN EmitKnown(k.c, "nth", <<v, k.v>>)
(* lower_emit_rest_from: n times rest, then seq. *)
LowerRest(v, n, c) ==
    LET r == FoldLeft(LAMBDA a, i : EmitKnown(a.c, "rest", <<a.v>>),
                      At(v, c), [i \in 1..n |-> i])
    IN  EmitKnown(r.c, "seq", <<r.v>>)
(* lower_with_default: the default is evaluated only when the key is nil. *)
LowerDefault(got, f, env, c) ==
    LET t  == EmitKnown(c, "nil?", <<got>>)
        b  == t.c.nb
        c1 == Switch(FreshBlocks(t.c, 3), <<"branch", t.v, b, b + 1>>, b)
        d  == Lower(f, env, c1)
        c2 == Switch(d.c, <<"jump", b + 2>>, b + 1)
    IN  Join(c2, b + 2, d.v, d.c.cur, got, b + 1)

LowerKey(p, v, x, a) ==
    LET k == EmitConst(a.c, <<"kw", x>>)
        g == EmitKnown(k.c, "get", <<v, k.v>>)
        i == SelectInSeq(p[3], LAMBDA y : y = x)
        r == IF i = 0 THEN g ELSE LowerDefault(g.v, p[4][i], a.v, g.c)
    IN  At(Bound(x, r.v, a.v), r.c)

LowerBind(p, v, env, c) ==
    CASE p[1] = "sym" -> At(Bound(p[2], v, env), c)
      [] p[1] = "seqp" ->
           LET n == Len(p[2])
               b == FoldLeft(LAMBDA a, i : LET x == LowerNth(v, i - 1, a.c)
                                           IN  LowerBind(p[2][i], x.v, a.v, x.c),
                             At(env, c), [i \in 1..n |-> i])
               r == IF p[3] = <<>> THEN b
                    ELSE LET x == LowerRest(v, n, b.c) IN LowerBind(p[3][1], x.v, b.v, x.c)
           IN  LowerBindAll(p[4], <<v>>, r.v, r.c)
      [] p[1] = "mapp" ->
           LET b == FoldLeft(LAMBDA a, x : LowerKey(p, v, x, a), At(env, c), p[2])
           IN  LowerBindAll(p[5], <<v>>, b.v, b.c)

LowerIf(f, env, c) ==
    LET t  == Lower(f[2], env, c)
        b  == t.c.nb
        c1 == Switch(FreshBlocks(t.c, 3), <<"branch", t.v, b, b + 1>>, b)
        y  == Lower(f[3], env, c1)
        c2 == Switch(y.c, <<"jump", b + 2>>, b + 1)
        n  == Lower(f[4], env, c2)
    IN  Join(n.c, b + 2, y.v, y.c.cur, n.v, n.c.cur)

(* lower_and / lower_or: stop is the truth of the value that ends it. *)
LowerAnd(stop, fs, env, c) ==
    IF fs = <<>> THEN EmitConst(c, IF stop THEN Nil ELSE Bool(TRUE))
    ELSE IF Len(fs) = 1 THEN Lower(fs[1], env, c)
    ELSE LET a  == Lower(fs[1], env, c)
             b  == a.c.nb
             br == IF stop THEN <<"branch", a.v, b + 1, b>> ELSE <<"branch", a.v, b, b + 1>>
             r  == LowerAnd(stop, Tail(fs), env, Switch(FreshBlocks(a.c, 2), br, b))
         IN  Join(r.c, b + 1, a.v, a.c.cur, r.v, r.c.cur)

LowerLet(f, env, c) ==
    LET b == FoldLeft(LAMBDA a, i : LET r == Lower(f[3][i], a.v, a.c)
                                    IN  LowerBind(f[2][i], r.v, a.v, r.c),
                      At(env, c), [i \in 1..Len(f[2]) |-> i])
    IN  LowerBody(f[4], b.v, b.c)

(* One phi per binding, entered from block `from` with the registers vs. *)
HeaderPhis(vs, from, c) ==
    FoldLeft(LAMBDA a, v : LET p == EmitPhi(a.c, <<<<from, v>>>>) IN At(Append(a.v, p.v), p.c),
             At(<<>>, c), vs)

(* lower_loop; the body of a fn arity is lowered the same way. *)
LowerLoopBody(header, body, env, c) ==
    LET b == LowerBody(body, env, [c EXCEPT !.loops = Append(@, header)])
        x == b.c.nb
        c1 == [Switch(FreshBlocks(b.c, 1), <<"jump", x>>, x) EXCEPT !.loops = c.loops]
    IN  EmitPhi(c1, <<<<b.c.cur, b.v>>>>)

LowerLoop(f, env, c) ==
    LET i  == LowerAll(f[3], env, c)
        h  == i.c.nb
        ph == HeaderPhis(i.v, i.c.cur, Switch(FreshBlocks(i.c, 1), <<"jump", h>>, h))
        b  == LowerBindAll(f[2], ph.v, env, ph.c)
    IN  LowerLoopBody(h, f[4], b.v, b.c)

LowerRecur(f, env, c) ==
    LET a == LowerAll(f[2], env, c)
        h == Last(a.c.loops)
        c1 == FreshBlocks(PatchHeader(a.c, h, a.c.cur, a.v), 1)
    IN  IF a.c.loops = <<>> THEN At(0, [a.c EXCEPT !.declined = TRUE])
        ELSE EmitConst(Switch(c1, <<"recur", h, a.v>>, a.c.nb), Nil)

LowerThrow(f, env, c) ==
    LET r == Lower(f[2], env, c)
        c1 == FreshBlocks(Emit(r.c, <<"throw", r.v>>), 1)
    IN  EmitConst(Switch(c1, <<"unreachable">>, r.c.nb), Nil)

(* A parameter's name; a pattern gets a generated one. *)
ParamName(p, i) == IF p[1] = "sym" THEN p[2] ELSE <<"%1", "%2", "%3", "%4">>[i]

(* lower_fn_arity: a function of its own, whose header block is the target of
   a recur; self is the fn's own name, captured as a cell.                     *)
LowerArity(caps, ar, self, fns) ==
    LET ps    == ar.ps \o ar.rest
        user  == [i \in 1..Len(ps) |-> ParamName(ps[i], i)]
        names == caps \o user
        ids   == [i \in 1..Len(names) |-> i]
        env0  == FoldLeft(LAMBDA e, i : Bound(names[i], i - 1, e), NoNames, ids)
        c0    == [NewCtx(fns) EXCEPT !.nv = Len(names)]
        k     == SelectInSeq(caps, LAMBDA y : y = self)
        d     == IF k = 0 THEN At(0, c0) ELSE EmitDst(c0, "deref", <<k - 1>>)
        env1  == IF k = 0 THEN env0 ELSE Bound(self, d.v, env0)
        h     == d.c.nb
        ph    == HeaderPhis([i \in 1..Len(user) |-> env1[user[i]]], 0,
                            Switch(FreshBlocks(d.c, 1), <<"jump", h>>, h))
        env2  == FoldLeft(LAMBDA e, i : Bound(user[i], ph.v[i], e), env1, [i \in 1..Len(user) |-> i])
        pats  == SelectSeq([i \in 1..Len(ps) |-> i], LAMBDA i : ps[i][1] # "sym")
        b     == FoldLeft(LAMBDA a, i : LowerBind(ps[i], ph.v[i], a.v, a.c), At(env2, ph.c), pats)
        r     == LowerLoopBody(h, ar.body, b.v, b.c)
        c     == FinishBlock(r.c, <<"return", r.v>>)
    IN  [fns |-> Append(c.fns, [params |-> Len(names), blocks |-> c.done]), declined |-> c.declined]

(* The arities of one closure, added to the context's functions. *)
AddArities(caps, ars, self, c) ==
    FoldLeft(LAMBDA a, ar :
               LET r == LowerArity(caps, ar, self, a.c.fns)
               IN  At(Append(a.v, [fn |-> Len(r.fns), n |-> Len(ar.ps), va |-> ar.rest # <<>>]),
                      [a.c EXCEPT !.fns = r.fns, !.declined = @ \/ r.declined]),
             At(<<>>, c), ars)

Closure(caps, ars, self, env, c) ==
    LET a == AddArities(caps, ars, self, c)
    IN  EmitDst(a.c, "closure", <<a.v, [i \in 1..Len(caps) |-> env[caps[i]]]>>)

(* lower_fn: a name that is not yet a local gets a cell, so that the closure
   can capture itself; only locals the body mentions are captured.            *)
LowerFn(f, env, c) ==
    LET fresh == f[2] # "" /\ f[2] \notin DOMAIN env
        nil   == EmitConst(c, Nil)
        cell  == EmitDst(nil.c, "defvar", <<nil.v, f[2]>>)
        env1  == IF fresh THEN Bound(f[2], cell.v, env) ELSE env
        refs  == UNION {SymbolsOfArity(f[3][i]) : i \in 1..Len(f[3])}
        caps  == SetToSeq(DOMAIN env1 \cap refs)
        r     == Closure(caps, f[3], f[2], env1, IF fresh THEN cell.c ELSE c)
    IN  IF fresh THEN At(r.v, Emit(r.c, <<"setbang", cell.v, r.v>>)) ELSE r

(* lower_letfn: cells for all names, the closures over them, then the values. *)
LowerLetfn(f, env, c) ==
    LET idx   == [i \in 1..Len(f[2]) |-> i]
        cells == FoldLeft(LAMBDA a, i : LET k == EmitConst(a.c, Nil)
                                            d == EmitDst(k.c, "defvar", <<k.v, f[2][i]>>)
                                        IN  At(Append(a.v, d.v), d.c), At(<<>>, c), idx)
        env1  == FoldLeft(LAMBDA e, i : Bound(f[2][i], cells.v[i], e), env, idx)
        clos  == FoldLeft(LAMBDA a, i : LET r == LowerFn(<<"fn", f[2][i], <<f[3][i]>>>>, env1, a.c)
                                        IN  At(Append(a.v, r.v), r.c), At(<<>>, cells.c), idx)
        c1    == FoldLeft(LAMBDA a, i : Emit(a, <<"setbang", cells.v[i], clos.v[i]>>), clos.c, idx)
        b     == FoldLeft(LAMBDA a, i : LET d == EmitDst(a.c, "deref", <<cells.v[i]>>)
                                        IN  At(Bound(f[2][i], d.v, a.v), d.c), At(env, c1), idx)
    IN  LowerBody(f[4], b.v, b.c)

(* The closures of try, binding and with-out-str capture every local. *)
Thunk(ps, body, env, c) ==
    Closure(SetToSeq(DOMAIN env), <<[ps |-> ps, rest |-> <<>>, body |-> body]>>, "", env, c)

LowerTry(f, env, c) ==
    LET b == Thunk(<<>>, f[2], env, c)
        k == IF f[3] = <<>> THEN EmitConst(b.c, Nil)
             ELSE Thunk(<<<<"sym", f[3][1].sym>>>>, f[3][1].body, env, b.c)
        n == IF f[4] = <<>> THEN EmitConst(k.c, Nil) ELSE Thunk(<<>>, f[4][1], env, k.c)
    IN  EmitKnown(n.c, "try", <<b.v, k.v, n.v>>)

LowerBinding(f, env, c) ==
    LET x == EmitDst(c, "loadvar", <<>>)
        v == Lower(f[2], env, x.c)
        b == Thunk(<<>>, f[3], env, v.c)
    IN  EmitKnown(b.c, "with-bindings", <<x.v, v.v, b.v>>)

LowerWithOutStr(f, env, c) ==
    LET b == Thunk(<<>>, f[2], env, c) IN EmitKnown(b.c, "with-out-str", <<b.v>>)

LowerSetBang(f, env, c) ==
    LET x == EmitDst(c, "loadvar", <<>>)
        v == Lower(f[2], env, x.c)
    IN  At(v.v, Emit(v.c, <<"setbang", x.v, v.v>>))

LowerSymbol(x, env, c) ==
    IF x \in DOMAIN env THEN At(env[x], c) ELSE EmitDst(c, "global", <<x>>)

(* emit_comparison_chain: pair by pair, leaving for the merge block with false. *)
LowerChain(op, vs, c) ==
    LET m == c.nb
        n == Len(vs) - 1
        step == FoldLeft(LAMBDA a, i :
                   LET k == EmitKnown(a.c, op, <<vs[i], vs[i + 1]>>)
                       z == EmitConst(k.c, Bool(FALSE))
                       nx == z.c.nb
                   IN  IF i = n THEN At(Append(a.v, <<k.c.cur, k.v>>), k.c)
                       ELSE At(Append(a.v, <<z.c.cur, z.v>>),
                               Switch(FreshBlocks(z.c, 1), <<"branch", k.v, nx, m>>, nx)),
                 At(<<>>, FreshBlocks(c, 1)), [i \in 1..n |-> i])
    IN  EmitPhi(Switch(step.c, <<"jump", m>>, m), step.v)

(* emit_binary_fold: the variadic operations, two registers at a time. *)
LowerFold(op, vs, c) ==
    IF vs = <<>> THEN IF op = "+" THEN EmitConst(c, Num(0)) ELSE At(0, [c EXCEPT !.declined = TRUE])
    ELSE IF Len(vs) = 1
    THEN CASE op = "+" -> At(vs[1], c)
           [] op = "-" -> LET z == EmitConst(c, Num(0)) IN EmitKnown(z.c, op, <<z.v, vs[1]>>)
           [] OTHER -> EmitConst(c, Bool(TRUE))
    ELSE IF Len(vs) > 2 /\ op \in {"=", "<"} THEN LowerChain(op, vs, c)
    ELSE FoldLeft(LAMBDA a, v : EmitKnown(a.c, op, <<a.v, v>>), At(vs[1], c), Tail(vs))

(* emit_not / emit_max: a diamond between two given registers. *)
LowerNot(v, c) ==
    LET b  == c.nb
        y  == EmitConst(Switch(FreshBlocks(c, 3), <<"branch", v, b, b + 1>>, b), Bool(FALSE))
        n  == EmitConst(Switch(y.c, <<"jump", b + 2>>, b + 1), Bool(TRUE))
    IN  Join(n.c, b + 2, y.v, b, n.v, b + 1)
LowerMax(v, w, c) ==
    LET k  == EmitKnown(c, ">", <<v, w>>)
        b  == k.c.nb
        c1 == Switch(FreshBlocks(k.c, 3), <<"branch", k.v, b, b + 1>>, b)
    IN  Join(Switch(c1, <<"jump", b + 2>>, b + 1), b + 2, v, b, w, b + 1)

(* try_inline_expansion, then lower_known_call, then the dynamic call: the
   choice goes by the callee's name.                                          *)
LowerKnown(op, args, env, c) ==
    LET a == LowerAll(args, env, c)
        one == EmitConst(a.c, Num(1))
        zero == EmitConst(a.c, Num(0))
    IN  CASE op = "inc" -> EmitKnown(one.c, "+", <<a.v[1], one.v>>)
          [] op = "dec" -> EmitKnown(one.c, "-", <<a.v[1], one.v>>)
          [] op = "zero?" -> EmitKnown(zero.c, "=", <<a.v[1], zero.v>>)
          [] op = "not" -> LowerNot(a.v[1], a.c)
          [] op = "max" -> LowerMax(a.v[1], a.v[2], a.c)
          [] op \in {"+", "-", "=", "<"} -> LowerFold(op, a.v, a.c)
          [] op = "prn" -> EmitKnown(a.c, op, a.v)

LowerCall(callee, args, env, c) ==
    LET f == Lower(callee, env, c)
        a == LowerAll(args, env, f.c)
    IN  EmitDst(a.c, "call", <<f.v, a.v>>)

LowerMap(f, env, c) ==
    LET a == LowerAll(f[3], env, c) IN EmitDst(a.c, "map", <<f[2], a.v>>)
LowerVec(f, env, c) ==
    LET a == LowerAll(f[2], env, c) IN EmitDst(a.c, "vec", <<a.v>>)

(* lower_form and lower_list. *)
Lower(f, env, c) ==
    CASE f[1] = "lit" -> EmitConst(c, f[2])
      [] f[1] = "sym" -> LowerSymbol(f[2], env, c)
      [] f[1] = "dyn" -> EmitDst(c, "global", <<"*dyn*">>)
      [] f[1] = "vec" -> LowerVec(f, env, c)
      [] f[1] = "map" -> LowerMap(f, env, c)
      [] f[1] = "do" -> LowerBody(f[2], env, c)
      [] f[1] = "if" -> LowerIf(f, env, c)
      [] f[1] = "and" -> LowerAnd(FALSE, f[2], env, c)
      [] f[1] = "or" -> LowerAnd(TRUE, f[2], env, c)
      [] f[1] = "let" -> LowerLet(f, env, c)
      [] f[1] = "loop" -> LowerLoop(f, env, c)
      [] f[1] = "recur" -> LowerRecur(f, env, c)
      [] f[1] = "fn" -> LowerFn(f, env, c)
      [] f[1] = "letfn" -> LowerLetfn(f, env, c)
      [] f[1] = "call" -> LowerCall(f[2], f[3], env, c)
      [] f[1] = "known" -> IF f[2] = "ex-info" THEN LowerCall(<<"sym", f[2]>>, f[3], env, c)
                           ELSE LowerKnown(f[2], f[3], env, c)
      [] f[1] = "throw" -> LowerThrow(f, env, c)
      [] f[1] = "try" -> LowerTry(f, env, c)
      [] f[1] = "binding" -> LowerBinding(f, env, c)
      [] f[1] = "set" -> LowerSetBang(f, env, c)
      [] f[1] = "outstr" -> LowerWithOutStr(f, env, c)

(* lower_fn_body_destructured: the functions of an arity [x], its own last. *)
LowerProgram(p) ==
    LET r == LowerBody(p.body, Bound("x", 0, NoNames), [NewCtx(<<>>) EXCEPT !.nv = 1])
        c == FinishBlock(r.c, <<"return", r.v>>)
    IN  [fns |-> Append(c.fns, [params |-> 1, blocks |-> c.done]), declined |-> c.declined]
=============================================================================
