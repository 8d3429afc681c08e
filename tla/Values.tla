------------------------------- MODULE Values -------------------------------
(* Run-time values and the builtins on them, shared by every tier.  A value is
   a tuple whose first component names its kind: nil, int, bool, kw, vec, list,
   map, exc, str, native, clo, cell, dynvar.                                  *)
EXTENDS Integers, Sequences, SequencesExt, FiniteSets

Nil == <<"nil">>
Num(n) == <<"int", n>>
Bool(b) == <<"bool", IF b THEN 1 ELSE 0>>
Truthy(v) == v \notin {Nil, Bool(FALSE)}

(* Name x bound to v on top of the bindings e. *)
Bound(x, v, e) == [n \in DOMAIN e \cup {x} |-> IF n = x THEN v ELSE e[n]]
NoNames == [n \in {} |-> Nil]

(* The items of a sequential value (value_to_seq_vec). *)
Items(v) == IF v[1] \in {"vec", "list"} THEN v[2] ELSE <<>>
Get(m, k) == IF m[1] = "map" /\ k \in DOMAIN m[2] THEN m[2][k] ELSE Nil
RestList(vs) == IF vs = <<>> THEN Nil ELSE <<"list", vs>>

IsInts(vs) == \A i \in 1..Len(vs) : vs[i][1] = "int"
Total(vs) == FoldLeft(LAMBDA a, v : a + v[2], 0, vs)

(* builtin_lt: pair by pair, stopping at the first pair that is not less. *)
Ascending(vs) ==
    LET bad == {i \in 1..(Len(vs) - 1) :
                  ~IsInts(<<vs[i], vs[i + 1]>>) \/ vs[i][2] >= vs[i + 1][2]}
        first == CHOOSE i \in bad : \A j \in bad : i <= j
    IN  IF bad = {} THEN Bool(TRUE)
        ELSE IF IsInts(<<vs[first], vs[first + 1]>>) THEN Bool(FALSE) ELSE <<>>

(* value_error_to_eval_error: the exception value that a builtin's error
   becomes, whatever its message.                                             *)
ErrorValue == <<"exc", <<"msg">>>>

Difference(vs) == IF Len(vs) = 1 THEN -vs[1][2] ELSE vs[1][2] - Total(Tail(vs))

(* What a builtin returns; <<>> stands for an error. *)
Builtin(op, vs) ==
    CASE op = "+" -> IF IsInts(vs) THEN Num(Total(vs)) ELSE <<>>
      [] op = "-" -> IF IsInts(vs) THEN Num(Difference(vs)) ELSE <<>>
      [] op = "inc" -> IF IsInts(vs) THEN Num(vs[1][2] + 1) ELSE <<>>
      [] op = "dec" -> IF IsInts(vs) THEN Num(vs[1][2] - 1) ELSE <<>>
      [] op = "zero?" -> IF IsInts(vs) THEN Bool(vs[1][2] = 0) ELSE <<>>
      [] op = "max" -> IF IsInts(vs) THEN Num(IF vs[1][2] > vs[2][2] THEN vs[1][2] ELSE vs[2][2])
                       ELSE <<>>
      [] op = "=" -> Bool(\A i \in 1..(Len(vs) - 1) : vs[i] = vs[i + 1])
      [] op = "<" -> Ascending(vs)
      [] op = "not" -> Bool(~Truthy(vs[1]))
      [] op = "prn" -> Nil
      [] op = "ex-info" -> <<"exc", vs[1]>>
=============================================================================
