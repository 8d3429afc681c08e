----------------------------- MODULE TreeWalker -----------------------------
(* The tree-walking evaluator (cljrs-interp: eval.rs, special.rs, apply.rs,
   destructure.rs), as a function from a form to its outcome.

   A form is a tuple whose first component names its kind, with reading and
   macro expansion already done:
     <<"lit", v>> <<"sym", x>> <<"dyn">> <<"vec", fs>> <<"map", ks, fs>>
     <<"do", fs>> <<"if", c, t, e>> <<"and", fs>> <<"or", fs>>
     <<"let", pats, inits, body>> <<"loop", pats, inits, body>> <<"recur", fs>>
     <<"fn", name, arities>> <<"letfn", names, arities, body>>
     <<"call", f, args>> <<"known", op, args>> (the head is the symbol op)
     <<"throw", f>> <<"try", body, catch, finally>> <<"binding", f, body>>
     <<"set", f>> <<"outstr", body>>
   An arity is [ps, rest, body]; rest, catch and finally are sequences of at
   most one element.  "dyn" is the one dynamic var of the model.  Numbers stay
   far below 2^63, so the promotion to bignums does not arise.                *)
EXTENDS Values

(* An outcome: st is "ok", "throw" (EvalError::Thrown), "err" (any other
   error) or "recur" (the trampoline signal, v its arguments); h the closures
   and cells allocated, dyn the stack of dynamic bindings over the root, out
   the stack of output captures over the real output, raised the number of
   throws so far and failed the number of errors of any other origin.         *)
Fresh == [st |-> "ok", v |-> Nil, h |-> <<>>, dyn |-> <<Num(0)>>, out |-> <<<<>>>>,
          raised |-> 0, failed |-> 0]
Ok(s, v) == [s EXCEPT !.st = "ok", !.v = v]
(* An unbound symbol, a wrong arity, a value that cannot be called. *)
Fail(s) == [s EXCEPT !.st = "err", !.v = Nil, !.failed = @ + 1]
Printed(s, v) == [s EXCEPT !.out[Len(s.out)] = Append(@, v)]

(* apply_value on a builtin: its error is thrown, as a value a catch can bind. *)
CallBuiltin(op, vs, s) ==
    LET r == Builtin(op, vs)
    IN  IF r = <<>> THEN [s EXCEPT !.st = "throw", !.v = ErrorValue, !.failed = @ + 1]
        ELSE Ok(IF op = "prn" THEN Printed(s, vs[1]) ELSE s, r)

(* select_arity: a fixed arity of n arguments, else a variadic one. *)
SelectArity(ars, n) ==
    LET fixed == {i \in 1..Len(ars) : ars[i].rest = <<>> /\ Len(ars[i].ps) = n}
        more  == {i \in 1..Len(ars) : ars[i].rest # <<>> /\ Len(ars[i].ps) <= n}
        pick  == IF fixed # {} THEN fixed ELSE more
    IN  IF pick = {} THEN 0 ELSE CHOOSE i \in pick : \A j \in pick : i <= j

RECURSIVE Eval(_, _, _), EvalAll(_, _, _), EvalBody(_, _, _), EvalUntil(_, _, _, _),
          Bind(_, _, _, _), BindAll(_, _, _, _), EvalLet(_, _, _, _, _),
          EvalLoop(_, _, _, _, _), Apply(_, _, _), CallFn(_, _, _, _)

(* Forms in order; v is the sequence of their values. *)
EvalAll(fs, env, s) ==
    IF fs = <<>> THEN Ok(s, <<>>)
    ELSE LET r == Eval(fs[1], env, s)
             t == EvalAll(Tail(fs), env, r)
         IN  IF r.st # "ok" THEN r
             ELSE IF t.st # "ok" THEN t ELSE Ok(t, <<r.v>> \o t.v)

EvalBody(fs, env, s) ==
    IF fs = <<>> THEN Ok(s, Nil)
    ELSE LET r == Eval(fs[1], env, s)
         IN  IF r.st # "ok" \/ Len(fs) = 1 THEN r ELSE EvalBody(Tail(fs), env, r)

(* eval_and / eval_or: up to the first value whose truth is `stop`. *)
EvalUntil(stop, fs, env, s) ==
    IF fs = <<>> THEN Ok(s, IF stop THEN Nil ELSE Bool(TRUE))
    ELSE LET r == Eval(fs[1], env, s)
         IN  IF r.st # "ok" \/ Truthy(r.v) = stop \/ Len(fs) = 1 THEN r
             ELSE EvalUntil(stop, Tail(fs), env, r)

(* bind_pattern: the bindings are left in v.  <<"seqp", pats, rest, as>> is
   [p .. & rest :as n], <<"mapp", keys, dnames, defaults, as>> is
   {:keys [..] :or {..} :as n}; defaults are evaluated before any binding.     *)
Bind(p, v, env, s) ==
    CASE p[1] = "sym" -> Ok(s, Bound(p[2], v, env))
      [] p[1] = "seqp" ->
           LET vs   == Items(v)
               n    == Len(p[2])
               at   == [i \in 1..n |-> IF i <= Len(vs) THEN vs[i] ELSE Nil]
               b    == BindAll(p[2], at, env, s)
               more == BindAll(p[3], <<RestList(SubSeq(vs, n + 1, Len(vs)))>>, b.v, b)
           IN  IF b.st # "ok" THEN b
               ELSE IF more.st # "ok" THEN more ELSE BindAll(p[4], <<v>>, more.v, more)
      [] p[1] = "mapp" ->
           LET d == EvalAll(p[4], env, s)
               Default(x) == LET i == SelectInSeq(p[3], LAMBDA y : y = x) IN IF i = 0 THEN Nil ELSE d.v[i]
               Val(x) == IF Get(v, x) = Nil THEN Default(x) ELSE Get(v, x)
               e == FoldLeft(LAMBDA acc, x : Bound(x, Val(x), acc), env, p[2])
           IN  IF d.st # "ok" THEN d ELSE BindAll(p[5], <<v>>, e, d)

BindAll(ps, vs, env, s) ==
    IF ps = <<>> THEN Ok(s, env)
    ELSE LET b == Bind(ps[1], vs[1], env, s)
         IN  IF b.st # "ok" THEN b ELSE BindAll(Tail(ps), Tail(vs), b.v, b)

(* Each initial value is evaluated with the earlier names in scope. *)
EvalLet(ps, fs, body, env, s) ==
    IF ps = <<>> THEN EvalBody(body, env, s)
    ELSE LET r == Eval(fs[1], env, s)
             b == Bind(ps[1], r.v, env, r)
         IN  IF r.st # "ok" THEN r
             ELSE IF b.st # "ok" THEN b ELSE EvalLet(Tail(ps), Tail(fs), body, b.v, b)

(* The trampoline: all new values are evaluated before any name is rebound. *)
EvalLoop(ps, vs, body, env, s) ==
    LET b == BindAll(ps, vs, env, s)
        r == EvalBody(body, b.v, b)
    IN  IF b.st # "ok" THEN b
        ELSE IF r.st # "recur" THEN r
        ELSE IF Len(r.v) # Len(ps) THEN Fail(r) ELSE EvalLoop(ps, r.v, body, env, Ok(r, Nil))

(* call_cljrs_fn: the own name is bound first, so a parameter shadows it. *)
CallFn(clo, ar, vs, s) ==
    LET f    == s.h[clo[2]]
        env0 == IF f.name = "" THEN f.env ELSE Bound(f.name, clo, f.env)
        n    == Len(ar.ps)
        b0   == BindAll(ar.rest, <<RestList(SubSeq(vs, n + 1, Len(vs)))>>, env0, s)
        b    == BindAll(ar.ps, SubSeq(vs, 1, n), b0.v, b0)
        r    == EvalBody(ar.body, b.v, b)
        again == IF ar.rest # <<>> /\ Len(r.v) = n + 1
                 THEN SubSeq(r.v, 1, n) \o Items(r.v[n + 1]) ELSE r.v
    IN  IF b0.st # "ok" THEN b0
        ELSE IF b.st # "ok" THEN b
        ELSE IF r.st = "recur" THEN CallFn(clo, ar, again, Ok(r, Nil)) ELSE r

Apply(f, vs, s) ==
    CASE f[1] = "native" -> CallBuiltin(f[2], vs, s)
      [] f[1] = "clo" -> LET i == SelectArity(s.h[f[2]].ars, Len(vs))
                         IN  IF i = 0 THEN Fail(s) ELSE CallFn(f, s.h[f[2]].ars[i], vs, s)
      [] OTHER -> Fail(s)

(* eval_fn: a closure over every local in scope. *)
MakeFn(name, ars, env, s) ==
    Ok([s EXCEPT !.h = Append(@, [name |-> name, ars |-> ars, env |-> env])],
       <<"clo", Len(s.h) + 1>>)

(* eval_letfn: closures over placeholders, patched once all of them exist. *)
EvalLetfn(f, env, s) ==
    LET n    == Len(f[2])
        base == Len(s.h)
        slots == FoldLeft(LAMBDA e, i : Bound(f[2][i], <<"clo", base + i>>, e),
                          env, [i \in 1..n |-> i])
        h    == s.h \o [i \in 1..n |-> [name |-> f[2][i], ars |-> <<f[3][i]>>, env |-> slots]]
    IN  EvalBody(f[4], slots, [s EXCEPT !.h = h])

(* eval_try: recur passes through; any other error is a catchable value; the
   finally body runs on every path and an error of its own replaces the result. *)
EvalTry(f, env, s) ==
    LET b == EvalBody(f[2], env, s)
        caught == IF b.st = "throw" THEN b.v ELSE ErrorValue
        r == IF b.st \in {"ok", "recur"} THEN b
             ELSE IF f[3] = <<>> THEN [b EXCEPT !.st = "throw", !.v = caught]
             ELSE EvalBody(f[3][1].body, Bound(f[3][1].sym, caught, env), Ok(b, Nil))
        fin == EvalBody(f[4][1], env, Ok(r, Nil))
    IN  IF f[4] = <<>> THEN r
        ELSE IF fin.st # "ok" THEN fin ELSE [fin EXCEPT !.st = r.st, !.v = r.v]

(* eval_binding and its guard. *)
EvalBinding(f, env, s) ==
    LET r == Eval(f[2], env, s)
        b == EvalBody(f[3], env, [r EXCEPT !.dyn = Append(@, r.v)])
    IN  IF r.st # "ok" THEN r ELSE [b EXCEPT !.dyn = Front(@)]

EvalWithOutStr(f, env, s) ==
    LET b == EvalBody(f[2], env, [s EXCEPT !.out = Append(@, <<>>)])
        c == [b EXCEPT !.out = Front(@)]
    IN  IF b.st # "ok" THEN c ELSE Ok(c, <<"str", Last(b.out)>>)

EvalIf(f, env, s) ==
    LET r == Eval(f[2], env, s)
    IN  IF r.st # "ok" THEN r ELSE Eval(IF Truthy(r.v) THEN f[3] ELSE f[4], env, r)

EvalThrow(f, env, s) ==
    LET r == Eval(f[2], env, s)
    IN  IF r.st # "ok" THEN r
        ELSE [r EXCEPT !.st = "throw", !.raised = @ + 1,
                          !.v = IF r.v[1] = "exc" THEN r.v ELSE <<"exc", r.v>>]

EvalSet(f, env, s) ==
    LET r == Eval(f[2], env, s)
    IN  IF r.st # "ok" THEN r ELSE [r EXCEPT !.dyn[Len(r.dyn)] = r.v]

(* eval_symbol: local frames first, then the var. *)
EvalSymbol(x, env, s) ==
    IF x \in DOMAIN env THEN Ok(s, env[x])
    ELSE IF x \in {"+", "-", "inc", "dec", "zero?", "max", "=", "<", "not", "prn", "ex-info"}
    THEN Ok(s, <<"native", x>>) ELSE Fail(s)

(* eval_call: the callee, then the arguments from left to right. *)
EvalCall(callee, args, env, s) ==
    LET c == Eval(callee, env, s)
        a == EvalAll(args, env, c)
    IN  IF c.st # "ok" THEN c ELSE IF a.st # "ok" THEN a ELSE Apply(c.v, a.v, a)

Eval(f, env, s) ==
    CASE f[1] = "lit" -> Ok(s, f[2])
      [] f[1] = "sym" -> EvalSymbol(f[2], env, s)
      [] f[1] = "dyn" -> Ok(s, Last(s.dyn))
      [] f[1] = "vec" -> LET a == EvalAll(f[2], env, s)
                         IN  IF a.st # "ok" THEN a ELSE Ok(a, <<"vec", a.v>>)
      [] f[1] = "map" ->
           LET a == EvalAll(f[3], env, s)
           IN  IF a.st # "ok" THEN a
               ELSE Ok(a, <<"map", [k \in ToSet(f[2]) |-> a.v[SelectInSeq(f[2], LAMBDA y : y = k)]]>>)
      [] f[1] = "do" -> EvalBody(f[2], env, s)
      [] f[1] = "if" -> EvalIf(f, env, s)
      [] f[1] = "and" -> EvalUntil(FALSE, f[2], env, s)
      [] f[1] = "or" -> EvalUntil(TRUE, f[2], env, s)
      [] f[1] = "let" -> EvalLet(f[2], f[3], f[4], env, s)
      [] f[1] = "loop" -> LET a == EvalAll(f[3], env, s)
                          IN  IF a.st # "ok" THEN a ELSE EvalLoop(f[2], a.v, f[4], env, a)
      [] f[1] = "recur" -> LET a == EvalAll(f[2], env, s)
                           IN  IF a.st # "ok" THEN a ELSE [a EXCEPT !.st = "recur"]
      [] f[1] = "fn" -> MakeFn(f[2], f[3], env, s)
      [] f[1] = "letfn" -> EvalLetfn(f, env, s)
      [] f[1] = "call" -> EvalCall(f[2], f[3], env, s)
      [] f[1] = "known" -> EvalCall(<<"sym", f[2]>>, f[3], env, s)
      [] f[1] = "throw" -> EvalThrow(f, env, s)
      [] f[1] = "try" -> EvalTry(f, env, s)
      [] f[1] = "binding" -> EvalBinding(f, env, s)
      [] f[1] = "set" -> EvalSet(f, env, s)
      [] f[1] = "outstr" -> EvalWithOutStr(f, env, s)

(* What a caller can see of a value: not which closure object it is. *)
RECURSIVE Seen(_)
Seen(v) ==
    CASE v[1] \in {"clo", "native", "cell"} -> <<"fn">>
      [] v[1] \in {"vec", "list"} -> <<"seq", [i \in 1..Len(v[2]) |-> Seen(v[2][i])]>>
      [] v[1] = "map" -> <<"map", [k \in DOMAIN v[2] |-> Seen(v[2][k])]>>
      [] v[1] = "exc" -> <<"exc", Seen(v[2])>>
      [] v[1] = "str" -> <<"str", [i \in 1..Len(v[2]) |-> Seen(v[2][i])]>>
      [] OTHER -> v

(* A program is a one-parameter function (fn [x] body) and its argument. *)
TreeWalk(p) ==
    LET r == EvalBody(p.body, Bound("x", p.arg, NoNames), Fresh)
    IN  [st |-> r.st, v |-> Seen(r.v), raised |-> r.raised, failed |-> r.failed,
         out |-> [i \in 1..Len(r.out[1]) |-> Seen(r.out[1][i])]]
=============================================================================
