----------------------------- MODULE Collections -----------------------------
(***************************************************************************)
(* The collection functions of clojure.core, twice: as the interpreter runs  *)
(* them (cljrs-builtins, builtins.rs, transients.rs and bootstrap.cljrs) and *)
(* as compiled code does (cljrs-compiler, the rt_* bridges of rt_abi.rs, and *)
(* the fused operations of cljrs-ir, lower/optimize.rs).                     *)
(*                                                                          *)
(* The two keep different representations of one Clojure value: the compiled *)
(* seq of a vector is the vector, its cons keeps any tail, its transient of  *)
(* a small map is the map.  A behaviour applies one chain of calls to one    *)
(* collection on both sides, so that a difference of representation shows    *)
(* where a later call looks at it.  A value is <<kind, payload>>; the kinds  *)
(* of a map are array (in order of insertion) and hash.                      *)
(***************************************************************************)
EXTENDS Integers, Sequences, SequencesExt, FiniteSets

CONSTANTS
    Starts,      \* the collections a chain begins with
    Calls,       \* its calls: a name and the arguments besides the collection
    MaxCalls     \* bound on the calls of a chain

VARIABLES
    interpreted,   \* what the interpreter has
    compiled,      \* what compiled code has
    hot,           \* whether bootstrap.cljrs is itself compiled
    apart,         \* a call met an arm the bridges lack (Gap), or raised
    calls          \* calls so far

vars == <<interpreted, compiled, hot, apart, calls>>

-----------------------------------------------------------------------------
(* Values *)

Nil == <<"nil">>
Raised == <<"raised">>
Num(n) == <<"int", n>>
Truth(b) == <<"bool", b>>
Vec(s) == <<"vec", s>>
List(s) == <<"list", s>>
Cell(h, t) == <<"cons", h, t>>
Lazy(v) == <<"lazy", v>>

Kind(v) == v[1]
Truthy(v) == v \notin {Nil, Truth(FALSE)}
IsMap(v) == Kind(v) \in {"amap", "hmap"}
IsSet(v) == Kind(v) = "set"

\* The elements of a walk to the end (ValueIter); a hash gives some order.
RECURSIVE Elems(_)
Elems(v) ==
    CASE Kind(v) \in {"vec", "list", "str"} -> v[2]
      [] Kind(v) = "set" -> SetToSeq(v[2])
      [] Kind(v) = "amap" -> [i \in DOMAIN v[2] |-> Vec(v[2][i])]
      [] Kind(v) = "hmap" -> LET s == SetToSeq(v[2]) IN [i \in DOMAIN s |-> Vec(s[i])]
      [] Kind(v) = "cons" -> LET t == v[3] IN <<v[2]>> \o Elems(t)
      [] Kind(v) = "lazy" -> LET t == v[2] IN Elems(t)
      [] OTHER -> <<>>

\* What a program sees: vectors, lists and seqs by their elements, maps and
\* sets without order.
RECURSIVE Meaning(_)
Meaning(v) ==
    CASE Kind(v) \in {"vec", "list", "cons", "lazy"} ->
            LET s == Elems(v) IN <<"seq", [i \in DOMAIN s |-> Meaning(s[i])]>>
      [] Kind(v) \in {"amap", "hmap"} ->
            LET s == Elems(v) IN <<"map", {Meaning(s[i]) : i \in DOMAIN s}>>
      [] Kind(v) \in {"set", "tset"} -> <<Kind(v), {Meaning(x) : x \in v[2]}>>
      [] Kind(v) = "tmap" -> <<"tmap", {<<Meaning(p[1]), Meaning(p[2])>> : p \in v[2]}>>
      [] Kind(v) = "tvec" -> <<"tvec", [i \in DOMAIN v[2] |-> Meaning(v[2][i])]>>
      [] OTHER -> v
Same(a, b) == Meaning(a) = Meaning(b)

At(s, i) == IF i + 1 \in DOMAIN s THEN s[i + 1] ELSE Nil

\* MapValue; a hash map and a transient one are sets of pairs.  The elements
\* of sets and the keys of maps are compared as they are represented: no
\* chain puts a vector and an equal list into one of them.
PairDissoc(S, k) == {p \in S : p[1] # k}
PairAssoc(S, k, v) == PairDissoc(S, k) \cup {<<k, v>>}
Assoc(m, k, v) ==
    IF Kind(m) = "hmap" THEN <<"hmap", PairAssoc(m[2], k, v)>>
    ELSE IF \E i \in DOMAIN m[2] : m[2][i][1] = k
    THEN <<"amap", [i \in DOMAIN m[2] |-> IF m[2][i][1] = k THEN <<k, v>> ELSE m[2][i]]>>
    ELSE <<"amap", Append(m[2], <<k, v>>)>>
Dissoc(m, k) ==
    IF Kind(m) = "hmap" THEN <<"hmap", PairDissoc(m[2], k)>>
    ELSE <<"amap", SelectSeq(m[2], LAMBDA p : p[1] # k)>>
Pairs(m) == IF Kind(m) = "amap" THEN ToSet(m[2]) ELSE m[2]
Keyed(m, k) == {p \in Pairs(m) : p[1] = k}
Lookup(m, k) == LET at == Keyed(m, k) IN IF at = {} THEN Nil ELSE (CHOOSE p \in at : TRUE)[2]
FromPairs(s) == FoldLeft(LAMBDA m, p : Assoc(m, p[1], p[2]), <<"amap", <<>>>>, s)

-----------------------------------------------------------------------------
(* The interpreter *)

RECURSIVE ConsFromIter(_)
ConsFromIter(s) == IF s = <<>> THEN Nil ELSE Cell(Head(s), ConsFromIter(Tail(s)))

\* Through the wrappers of a lazy seq.
RECURSIVE Realize(_)
Realize(v) == IF Kind(v) = "lazy" THEN Realize(v[2]) ELSE v

Seqable(v) == Kind(v) \in {"nil", "list", "vec", "str", "set", "amap", "hmap", "cons", "lazy"}

BuiltinSeq(c) ==
    LET v == Realize(c)
    IN  CASE ~Seqable(v) -> Raised
          [] Kind(v) = "cons" -> v
          [] Elems(v) = <<>> -> Nil
          [] Kind(v) = "list" -> v
          [] OTHER -> ConsFromIter(Elems(v))

BuiltinFirst(v) == IF Seqable(v) THEN At(Elems(v), 0) ELSE Raised

BuiltinRest(c) ==
    LET v == Realize(c)
    IN  CASE ~Seqable(v) -> Raised
          [] Kind(v) = "cons" -> IF v[3] = Nil THEN List(<<>>) ELSE v[3]
          [] OTHER -> List(IF Elems(v) = <<>> THEN <<>> ELSE Tail(Elems(v)))

BuiltinNext(v) == LET r == BuiltinRest(v) IN BuiltinSeq(r)

BuiltinCons(x, v) ==
    CASE ~Seqable(v) -> Raised
      [] Kind(v) \in {"lazy", "cons"} -> Cell(x, v)
      [] OTHER -> List(<<x>> \o Elems(v))

\* A map takes another map or a vector of two.
MapConj(m, x) ==
    CASE IsMap(x) -> FoldLeft(LAMBDA a, e : Assoc(a, e[2][1], e[2][2]), m, Elems(x))
      [] Kind(x) = "vec" /\ Len(x[2]) = 2 -> Assoc(m, x[2][1], x[2][2])
      [] OTHER -> Raised

BuiltinConj(c, x) ==
    CASE Kind(c) = "nil" -> List(<<x>>)
      [] Kind(c) = "list" -> List(<<x>> \o c[2])
      [] Kind(c) = "vec" -> Vec(Append(c[2], x))
      [] Kind(c) = "set" -> <<"set", c[2] \cup {x}>>
      [] IsMap(c) -> MapConj(c, x)
      [] Kind(c) \in {"lazy", "cons"} -> Cell(x, c)
      [] OTHER -> Raised

BuiltinAssoc(c, k, v) ==
    CASE c = Nil -> Assoc(<<"amap", <<>>>>, k, v)
      [] IsMap(c) -> Assoc(c, k, v)
      [] Kind(c) = "vec" /\ Kind(k) = "int" ->
            IF k[2] = Len(c[2]) THEN Vec(Append(c[2], v))
            ELSE IF k[2] + 1 \in DOMAIN c[2] THEN Vec([c[2] EXCEPT ![k[2] + 1] = v]) ELSE Raised
      [] OTHER -> Raised

BuiltinDissoc(c, k) == IF c = Nil THEN Nil ELSE IF IsMap(c) THEN Dissoc(c, k) ELSE Raised
BuiltinDisj(c, x) == IF c = Nil THEN Nil ELSE IF IsSet(c) THEN <<"set", c[2] \ {x}>> ELSE Raised

BuiltinGet(c, k) ==
    CASE IsMap(c) -> Lookup(c, k)
      [] Kind(c) = "tmap" -> Lookup(<<"hmap", c[2]>>, k)
      [] Kind(c) \in {"vec", "str"} -> IF Kind(k) = "int" THEN At(c[2], k[2]) ELSE Nil
      [] Kind(c) = "set" -> IF k \in c[2] THEN k ELSE Nil
      [] OTHER -> Nil

BuiltinCount(v) ==
    CASE Seqable(v) -> Num(Len(Elems(v)))
      [] Kind(v) = "tvec" -> Num(Len(v[2]))
      [] Kind(v) \in {"tmap", "tset"} -> Num(Cardinality(v[2]))
      [] OTHER -> Raised

\* A cons cell counts as empty when its head is nil.
BuiltinEmptyQ(c) ==
    LET v == Realize(c)
    IN  CASE ~Seqable(v) -> Raised
          [] Kind(v) = "cons" -> Truth(v[2] = Nil)
          [] OTHER -> Truth(Elems(v) = <<>>)

BuiltinNth(c, i) ==
    CASE ~(Seqable(c) \/ c = Nil) \/ IsMap(c) \/ IsSet(c) -> Raised
      [] Kind(c) = "vec" /\ i >= Len(c[2]) -> Raised
      [] OTHER -> At(Elems(c), i)

Bytes(s) == FoldLeft(LAMBDA n, x : n + x[2], 0, s)

\* The bound for a string is its length in bytes.
BuiltinContains(c, k) ==
    CASE IsMap(c) -> Truth(Keyed(c, k) # {})
      [] Kind(c) = "set" -> Truth(k \in c[2])
      [] Kind(c) = "vec" -> Truth(Kind(k) = "int" /\ k[2] < Len(c[2]))
      [] Kind(c) = "str" -> IF Kind(k) = "int" THEN Truth(k[2] < Bytes(c[2])) ELSE Raised
      [] OTHER -> Truth(FALSE)

\* into: conj of each element, but a map takes any seqable of two.
IntoOne(c, x) ==
    CASE c = Raised -> Raised
      [] IsMap(c) -> IF Seqable(x) /\ Len(Elems(x)) = 2
                     THEN Assoc(c, Elems(x)[1], Elems(x)[2]) ELSE Raised
      [] OTHER -> BuiltinConj(c, x)
BuiltinInto(to, from) == FoldLeft(IntoOne, to, Elems(from))

BuiltinVec(v) == IF Seqable(v) THEN Vec(Elems(v)) ELSE Raised

BuiltinPeek(c) ==
    CASE Kind(c) = "list" -> At(c[2], 0)
      [] Kind(c) = "vec" -> At(c[2], Len(c[2]) - 1)
      [] c = Nil -> Nil
      [] OTHER -> Raised
BuiltinPop(c) ==
    CASE c = Nil -> Nil
      [] Kind(c) \in {"list", "vec"} /\ c[2] = <<>> -> Raised
      [] Kind(c) = "list" -> List(Tail(c[2]))
      [] Kind(c) = "vec" -> Vec(Front(c[2]))
      [] OTHER -> Raised

\* keys and vals of what is not a map are nil.
BuiltinKeys(c) ==
    IF IsMap(c) /\ Elems(c) # <<>> THEN List([i \in DOMAIN Elems(c) |-> Elems(c)[i][2][1]])
    ELSE IF Seqable(c) THEN Nil ELSE Raised
BuiltinVals(c) ==
    IF IsMap(c) /\ Elems(c) # <<>> THEN List([i \in DOMAIN Elems(c) |-> Elems(c)[i][2][2]])
    ELSE IF Kind(c) \in {"nil", "amap", "hmap", "list", "set", "vec"} THEN Nil ELSE Raised

BuiltinReverse(c) == IF Seqable(c) THEN List(Reverse(Elems(c))) ELSE Raised

\* concat of one collection; ConcatThunk finds no first element in a set.
RECURSIVE ConcatFrom(_)
ConcatFrom(s) == Lazy(IF s = <<>> THEN Nil ELSE Cell(Head(s), ConcatFrom(Tail(s))))
BuiltinConcat(c) ==
    IF c \in {Nil, List(<<>>)} THEN List(<<>>)
    ELSE ConcatFrom(IF IsSet(Realize(c)) THEN <<>> ELSE Elems(c))

\* value_to_seq_vec, which = compares by, leaves out the tail of a cons cell
\* that is neither a seq nor a list.
RECURSIVE SeqVec(_)
SeqVec(c) ==
    LET v == Realize(c)
    IN  CASE Kind(v) \in {"list", "vec"} -> v[2]
          [] Kind(v) = "cons" -> LET t == Realize(v[3])
                                 IN  <<v[2]>> \o (IF Kind(t) = "vec" THEN <<>> ELSE SeqVec(t))
          [] OTHER -> <<>>
Sequential(v) == Kind(v) \in {"list", "vec", "lazy", "cons"}

\* A lazy seq that turns out nil equals nil and every empty sequence.
BuiltinEq(a, b) ==
    LET x == Realize(a)
        y == Realize(b)
    IN  IF Sequential(a) /\ Sequential(b) THEN Truth(Same(Vec(SeqVec(x)), Vec(SeqVec(y))))
        ELSE Truth(Same(x, y))

BuiltinIsSeq(v) == Truth(Kind(v) \in {"list", "cons", "lazy"})
BuiltinIsVector(v) == Truth(Kind(v) = "vec")
BuiltinIsMap(v) == Truth(IsMap(v))

BuiltinTransient(v) ==
    CASE IsMap(v) -> <<"tmap", Pairs(v)>>
      [] Kind(v) = "set" -> <<"tset", v[2]>>
      [] Kind(v) = "vec" -> <<"tvec", v[2]>>
      [] Kind(v) \in {"tmap", "tset", "tvec"} -> v
      [] OTHER -> Raised
BuiltinPersistent(v) ==
    CASE Kind(v) = "tmap" -> <<"hmap", v[2]>>
      [] Kind(v) = "tset" -> <<"set", v[2]>>
      [] Kind(v) = "tvec" -> Vec(v[2])
      [] OTHER -> Raised
BuiltinConjBang(t, x) ==
    CASE Kind(t) = "tvec" -> <<"tvec", Append(t[2], x)>>
      [] Kind(t) = "tset" -> <<"tset", t[2] \cup {x}>>
      [] Kind(t) = "tmap" /\ x = Nil -> t
      [] Kind(t) = "tmap" -> LET m == MapConj(<<"hmap", t[2]>>, x)
                             IN  IF m = Raised THEN Raised ELSE <<"tmap", m[2]>>
      [] OTHER -> Raised
BuiltinAssocBang(t, k, v) ==
    CASE Kind(t) = "tmap" -> <<"tmap", PairAssoc(t[2], k, v)>>
      [] Kind(t) = "tvec" /\ Kind(k) = "int" ->
            LET a == BuiltinAssoc(Vec(t[2]), k, v) IN IF a = Raised THEN Raised ELSE <<"tvec", a[2]>>
      [] OTHER -> Raised

-----------------------------------------------------------------------------
(* The bridges of compiled code *)

\* A vector is its own seq, and so is any lazy seq.
RtSeq(v) ==
    CASE Kind(v) \in {"cons", "lazy"} -> v
      [] ~Seqable(v) \/ Elems(v) = <<>> -> Nil
      [] Kind(v) \in {"list", "vec"} -> v
      [] OTHER -> List(Elems(v))

RECURSIVE RtFirst(_)
RtFirst(v) ==
    CASE Kind(v) \in {"nil", "vec", "list"} -> At(Elems(v), 0)
      [] Kind(v) = "cons" -> v[2]
      [] Kind(v) = "lazy" -> RtFirst(v[2])
      [] OTHER -> LET s == RtSeq(v) IN At(Elems(s), 0)

RestOf(s) == List(IF s = <<>> THEN <<>> ELSE Tail(s))
RECURSIVE RtRest(_)
RtRest(v) ==
    CASE Kind(v) \in {"nil", "vec", "list"} -> RestOf(Elems(v))
      [] Kind(v) = "cons" -> v[3]
      [] Kind(v) = "lazy" -> RtRest(v[2])
      [] OTHER -> LET s == RtSeq(v) IN RestOf(Elems(s))

RtNext(v) == LET r == RtRest(v) IN RtSeq(r)

RtAllocCons(x, v) == Cell(x, v)

\* Without the arm for sets.
RtConjNoSet(c, x) == IF Kind(c) \in {"vec", "list"} THEN BuiltinConj(c, x) ELSE Nil

RtConj(c, x) == IF Kind(c) \in {"vec", "list", "set"} THEN BuiltinConj(c, x) ELSE Nil
RtAssoc(c, k, v) == IF IsMap(c) THEN Assoc(c, k, v) ELSE Nil
RtDissoc(c, k) == IF IsMap(c) THEN Dissoc(c, k) ELSE c
RtDisj(c, x) == IF IsSet(c) THEN <<"set", c[2] \ {x}>> ELSE c

RtGet(c, k) ==
    CASE IsMap(c) -> Lookup(c, k)
      [] Kind(c) = "vec" /\ Kind(k) = "int" -> At(c[2], k[2])
      [] OTHER -> Nil

\* A seq is walked to a list, a vector or nil; another tail counts nothing.
RECURSIVE RtWalk(_)
RtWalk(v) ==
    CASE Kind(v) = "cons" -> 1 + RtWalk(v[3])
      [] Kind(v) = "lazy" -> RtWalk(v[2])
      [] Kind(v) \in {"list", "vec"} -> Len(v[2])
      [] OTHER -> 0
RtCount(v) ==
    CASE Kind(v) \in {"cons", "lazy"} -> Num(RtWalk(v))
      [] Kind(v) = "str" -> Num(Bytes(v[2]))
      [] OTHER -> Num(Len(Elems(v)))

RtNth(c, i) == IF Kind(c) \in {"vec", "list", "str"} THEN At(c[2], i) ELSE Nil

RtContains(c, k) ==
    IF IsMap(c) \/ Kind(c) \in {"set", "vec"} THEN BuiltinContains(c, k) ELSE Truth(FALSE)

\* empty? is lowered to nil? of seq.
LowerEmptyQ(v) == Truth(RtSeq(v) = Nil)

RtVec(v) == IF Kind(v) = "vec" THEN v ELSE BuiltinVec(v)

\* The fast paths of into; a map wants pairs throughout.
EagerSeqElems(v) == Kind(v) \in {"nil", "vec", "set", "list"}
AsPair(v) == Kind(v) \in {"vec", "list"} /\ Len(v[2]) = 2
IntoPairs(to, pairs) == LET s == Elems(to) \o pairs IN FromPairs([i \in DOMAIN s |-> s[i][2]])
RtInto(to, from) ==
    CASE Kind(to) = "vec" /\ Kind(from) \in {"set", "vec", "nil"} -> Vec(to[2] \o Elems(from))
      [] Kind(to) = "set" /\ EagerSeqElems(from) ->
            <<"set", to[2] \cup ToSet(Elems(from))>>
      [] IsMap(to) /\ (IsMap(from) \/ EagerSeqElems(from))
                   /\ \A i \in DOMAIN Elems(from) : AsPair(Elems(from)[i]) ->
            IntoPairs(to, Elems(from))
      [] OTHER -> BuiltinInto(to, from)

RtTransient(v) ==
    CASE Kind(v) = "vec" -> <<"tvec", v[2]>>
      [] Kind(v) = "hmap" -> <<"tmap", v[2]>>
      [] Kind(v) = "set" -> <<"tset", v[2]>>
      [] OTHER -> v
RtConjBang(t, x) ==
    IF Kind(t) \in {"tvec", "tset"} \/ (Kind(t) = "tmap" /\ Kind(x) = "vec" /\ Len(x[2]) = 2)
    THEN BuiltinConjBang(t, x) ELSE t
RtAssocBang(t, k, v) ==
    IF Kind(t) = "tmap" \/ (Kind(t) = "tvec" /\ Kind(k) = "int" /\ k[2] < Len(t[2]))
    THEN BuiltinAssocBang(t, k, v) ELSE t
RtPersistent(t) == IF Kind(t) \in {"tvec", "tmap", "tset"} THEN BuiltinPersistent(t) ELSE t

-----------------------------------------------------------------------------
(* bootstrap.cljrs, interpreted or (r) compiled *)

SeqIn(r, v) == IF r THEN RtSeq(v) ELSE BuiltinSeq(v)
FirstIn(r, v) == IF r THEN RtFirst(v) ELSE BuiltinFirst(v)
RestIn(r, v) == IF r THEN RtRest(v) ELSE BuiltinRest(v)
NextIn(r, v) == IF r THEN RtNext(v) ELSE BuiltinNext(v)

\* A function is its name, a set or a map: twin makes a vector of two, once a
\* list of one.
Invoke(f, x) ==
    CASE f = <<"fn", "identity">> -> x
      [] f = <<"fn", "twin">> -> Vec(<<x, x>>)
      [] f = <<"fn", "once">> -> List(<<x>>)
      [] OTHER -> BuiltinGet(f, x)

RECURSIVE MapCore(_, _, _)
MapCore(r, f, c) ==
    LET s == SeqIn(r, c)
    IN  Lazy(IF s = Nil THEN Nil
             ELSE LET x == FirstIn(r, s)
                      t == RestIn(r, s)
                  IN  Cell(Invoke(f, x), MapCore(r, f, t)))

RECURSIVE FilterLoop(_, _, _)
FilterLoop(r, p, s) ==
    IF s = Nil THEN Nil
    ELSE LET x == FirstIn(r, s)
         IN  IF Truthy(Invoke(p, x))
             THEN LET t == RestIn(r, s)
                      u == SeqIn(r, t)
                  IN  Cell(x, Lazy(FilterLoop(r, p, u)))
             ELSE LET n == NextIn(r, s) IN FilterLoop(r, p, n)
FilterCore(r, p, c) == LET s == SeqIn(r, c) IN Lazy(FilterLoop(r, p, s))

RECURSIVE MapcatCat(_, _, _, _)
MapcatCat(r, f, xs, colls) ==
    LET s == SeqIn(r, xs)
        cs == SeqIn(r, colls)
    IN  Lazy(IF s # Nil
             THEN LET t == RestIn(r, s) IN Cell(FirstIn(r, s), MapcatCat(r, f, t, colls))
             ELSE IF cs = Nil THEN Nil
             ELSE LET x == FirstIn(r, cs)
                      y == Invoke(f, x)
                      t == RestIn(r, cs)
                  IN  MapcatCat(r, f, y, t))
MapcatCore(r, f, c) == LET s == SeqIn(r, c) IN MapcatCat(r, f, Nil, s)

RECURSIVE TakeCore(_, _, _)
TakeCore(r, n, c) ==
    IF n = 0 THEN Vec(<<>>)
    ELSE LET s == SeqIn(r, c)
         IN  Lazy(IF s = Nil THEN Nil
                  ELSE LET t == RestIn(r, s) IN Cell(FirstIn(r, s), TakeCore(r, n - 1, t)))

RECURSIVE DropLoop(_, _, _)
DropLoop(r, n, s) ==
    IF s # Nil /\ n > 0 THEN LET t == NextIn(r, s) IN DropLoop(r, n - 1, t)
    ELSE IF s = Nil THEN List(<<>>) ELSE s
DropCore(r, n, c) == LET s == SeqIn(r, c) IN DropLoop(r, n, s)

RECURSIVE SomeLoop(_, _, _)
SomeLoop(r, p, s) ==
    IF s = Nil THEN Nil
    ELSE LET x == FirstIn(r, s)
             v == Invoke(p, x)
             n == NextIn(r, s)
         IN  IF Truthy(v) THEN v ELSE SomeLoop(r, p, n)
SomeCore(r, p, c) == LET s == SeqIn(r, c) IN SomeLoop(r, p, s)

RECURSIVE EveryLoop(_, _, _)
EveryLoop(r, p, s) ==
    IF s = Nil THEN Truth(TRUE)
    ELSE LET x == FirstIn(r, s)
             n == NextIn(r, s)
         IN  IF Truthy(Invoke(p, x)) THEN EveryLoop(r, p, n) ELSE Truth(FALSE)
EveryCore(r, p, c) == LET s == SeqIn(r, c) IN EveryLoop(r, p, s)

\* The function of bootstrap.cljrs that a call comes down to; what is not a
\* collection raises when the seq is looked at.
CoreFn(r, o, c) ==
    CASE ~Seqable(c) -> IF r THEN Nil ELSE Raised
      [] o.fn \in {"map", "mapv", "into map"} -> MapCore(r, o.x, c)
      [] o.fn \in {"filter", "filterv", "count filter", "into filter"} -> FilterCore(r, o.x, c)
      [] o.fn \in {"mapcat", "into mapcat"} -> MapcatCore(r, o.x, c)
      [] o.fn = "take" -> TakeCore(r, o.n, c)
      [] o.fn = "drop" -> DropCore(r, o.n, c)
      [] o.fn = "some" -> SomeCore(r, o.x, c)
      [] o.fn = "every?" -> EveryCore(r, o.x, c)
      [] OTHER -> Nil

-----------------------------------------------------------------------------
(* mapcat, and count and into of a filter, a mapcat or a map, which the      *)
(* optimizer fuses.  Where the collection is not one they walk themselves    *)
(* they call the interpreted function; s is its result.                      *)

\* A map over a vector looks only at the sets and vectors it finds.
RtMapcat(f, c, s) ==
    IF IsMap(f) /\ Kind(c) = "vec"
    THEN Vec(FlattenSeq([i \in DOMAIN c[2] |->
                LET y == Lookup(f, c[2][i]) IN IF Kind(y) \in {"set", "vec"} THEN Elems(y) ELSE <<>>]))
    ELSE s

\* A set is asked whether it contains the element, not for the element.
PredTruthy(p, x) == IF Kind(p) = "set" THEN x \in p[2] ELSE Truthy(Invoke(p, x))
Kept(p, c) == LET e == Elems(c) IN SelectSeq(e, LAMBDA x : PredTruthy(p, x))

RtCountFilter(p, c, s) == IF EagerSeqElems(c) THEN Num(Len(Kept(p, c))) ELSE RtCount(s)

RtIntoFilter(to, p, c, s) ==
    LET from == IF EagerSeqElems(c) THEN Vec(Kept(p, c)) ELSE s IN BuiltinInto(to, from)

\* One result that is not eager sends the whole call back to mapcat.
RtIntoMapcat(to, f, c, s) ==
    LET e == Elems(c)
        mapped == [i \in DOMAIN e |-> Invoke(f, e[i])]
        from == IF EagerSeqElems(c) /\ \A i \in DOMAIN e : EagerSeqElems(mapped[i])
                THEN Vec(FlattenSeq([i \in DOMAIN e |-> Elems(mapped[i])])) ELSE s
    IN  BuiltinInto(to, from)

\* realize_seq_elems; pairs win over the entries of to.
RtIntoMap(to, f, c, s) ==
    LET e == Elems(c)
        mapped == [i \in DOMAIN e |-> Invoke(f, e[i])]
        from == IF EagerSeqElems(c) \/ Kind(c) \in {"cons", "lazy"} THEN Vec(mapped) ELSE s
    IN  IF IsMap(to) /\ from # s /\ \A i \in DOMAIN mapped : AsPair(mapped[i])
        THEN IntoPairs(to, mapped) ELSE BuiltinInto(to, from)

-----------------------------------------------------------------------------
(* One call on either side *)

\* The builtin, and the bridge of a function resolve_known_fn knows (the
\* others have none).  s is the seq of a function of bootstrap.cljrs.
Interpret(o, c, s) ==
    CASE o.fn = "seq" -> BuiltinSeq(c)
      [] o.fn = "first" -> BuiltinFirst(c)
      [] o.fn = "rest" -> BuiltinRest(c)
      [] o.fn = "next" -> BuiltinNext(c)
      [] o.fn = "cons" -> BuiltinCons(o.x, c)
      [] o.fn = "conj" -> BuiltinConj(c, o.x)
      [] o.fn = "assoc" -> BuiltinAssoc(c, o.x, o.y)
      [] o.fn = "dissoc" -> BuiltinDissoc(c, o.x)
      [] o.fn = "disj" -> BuiltinDisj(c, o.x)
      [] o.fn = "get" -> BuiltinGet(c, o.x)
      [] o.fn = "count" -> BuiltinCount(c)
      [] o.fn = "empty?" -> BuiltinEmptyQ(c)
      [] o.fn = "nth" -> BuiltinNth(c, o.n)
      [] o.fn = "contains?" -> BuiltinContains(c, o.x)
      [] o.fn = "into" -> BuiltinInto(c, o.x)
      [] o.fn = "into from" -> BuiltinInto(o.x, c)
      [] o.fn = "vec" -> BuiltinVec(c)
      [] o.fn = "peek" -> BuiltinPeek(c)
      [] o.fn = "pop" -> BuiltinPop(c)
      [] o.fn = "keys" -> BuiltinKeys(c)
      [] o.fn = "vals" -> BuiltinVals(c)
      [] o.fn = "reverse" -> BuiltinReverse(c)
      [] o.fn = "concat" -> BuiltinConcat(c)
      [] o.fn = "=" -> BuiltinEq(c, o.x)
      [] o.fn = "seq?" -> BuiltinIsSeq(c)
      [] o.fn = "vector?" -> BuiltinIsVector(c)
      [] o.fn = "map?" -> BuiltinIsMap(c)
      [] o.fn = "transient" -> BuiltinTransient(c)
      [] o.fn = "persistent!" -> BuiltinPersistent(c)
      [] o.fn = "conj!" -> BuiltinConjBang(c, o.x)
      [] o.fn = "assoc!" -> BuiltinAssocBang(c, o.x, o.y)
      [] o.fn \in {"mapv", "filterv"} -> BuiltinVec(s)
      [] o.fn = "count filter" -> BuiltinCount(s)
      [] o.fn \in {"into filter", "into mapcat", "into map"} -> BuiltinInto(o.y, s)
      [] OTHER -> s

RunCompiled(o, c, s) ==
    CASE o.fn = "seq" -> RtSeq(c)
      [] o.fn = "first" -> RtFirst(c)
      [] o.fn = "rest" -> RtRest(c)
      [] o.fn = "next" -> RtNext(c)
      [] o.fn = "cons" -> RtAllocCons(o.x, c)
      [] o.fn = "conj" -> RtConj(c, o.x)
      [] o.fn = "assoc" -> RtAssoc(c, o.x, o.y)
      [] o.fn = "dissoc" -> RtDissoc(c, o.x)
      [] o.fn = "disj" -> RtDisj(c, o.x)
      [] o.fn = "get" -> RtGet(c, o.x)
      [] o.fn = "count" -> RtCount(c)
      [] o.fn = "empty?" -> LowerEmptyQ(c)
      [] o.fn = "nth" -> RtNth(c, o.n)
      [] o.fn = "contains?" -> RtContains(c, o.x)
      [] o.fn = "into" -> RtInto(c, o.x)
      [] o.fn = "into from" -> RtInto(o.x, c)
      [] o.fn = "vec" -> RtVec(c)
      [] o.fn = "transient" -> RtTransient(c)
      [] o.fn = "persistent!" -> RtPersistent(c)
      [] o.fn = "conj!" -> RtConjBang(c, o.x)
      [] o.fn = "assoc!" -> RtAssocBang(c, o.x, o.y)
      [] o.fn = "mapcat" -> RtMapcat(o.x, c, s)
      [] o.fn = "count filter" -> RtCountFilter(o.x, c, s)
      [] o.fn = "into filter" -> RtIntoFilter(o.y, o.x, c, s)
      [] o.fn = "into mapcat" -> RtIntoMapcat(o.y, o.x, c, s)
      [] o.fn = "into map" -> RtIntoMap(o.y, o.x, c, s)
      [] OTHER -> Interpret(o, c, s)

-----------------------------------------------------------------------------
(* Where the bridges are known to differ *)

\* A walk of compiled core functions comes upon a lazy seq that turns out empty.
RECURSIVE EndsLazily(_)
EndsLazily(v) ==
    CASE Kind(v) = "cons" -> EndsLazily(v[3])
      [] Kind(v) = "lazy" -> Elems(v) = <<>> \/ EndsLazily(v[2])
      [] OTHER -> FALSE

CoreFns == {"map", "filter", "mapcat", "take", "drop", "some", "every?", "mapv", "filterv",
            "count filter", "into filter", "into mapcat", "into map"}
Falsy(p, c) == Kind(p) = "set" /\ \E i \in DOMAIN Elems(c) : Elems(c)[i] \in {Nil, Truth(FALSE)} \cap p[2]

\* The calls on which compiled code has no arm for a collection, or a
\* representation of its own shows.
Gap(o, a, b) ==
    \/ Kind(a) # Kind(b) /\ o.fn \in {"conj", "get", "contains?", "seq?", "vector?", "into", "peek", "pop"}
    \/ o.fn = "conj" /\ Kind(b) \in {"nil", "amap", "hmap", "cons", "lazy"}
    \/ o.fn = "assoc" /\ ~IsMap(b)
    \/ o.fn = "get" /\ Kind(b) \in {"set", "str", "tmap"}
    \/ o.fn = "contains?" /\ Kind(b) = "str"
    \/ o.fn = "count" /\ (Kind(b) \in {"tvec", "tmap", "tset"} \/ (Kind(b) = "str" /\ Bytes(b[2]) # Len(b[2])))
    \/ o.fn = "nth" /\ Kind(b) \in {"cons", "lazy"}
    \/ o.fn = "cons" /\ Kind(b) \in {"amap", "hmap", "set", "str"}
    \/ o.fn = "rest" /\ Kind(Realize(b)) = "cons" /\ Realize(b)[3] = Nil
    \/ o.fn = "seq" /\ Kind(b) = "lazy" /\ Elems(b) = <<>>
    \/ o.fn = "next" /\ Kind(RtRest(b)) = "lazy" /\ Elems(RtRest(b)) = <<>>
    \/ o.fn = "empty?" /\ Kind(b) = "lazy" /\ Elems(b) = <<>>
    \/ o.fn = "empty?" /\ Kind(Realize(a)) = "cons" /\ Realize(a)[2] = Nil
    \/ o.fn = "=" /\ Sequential(b) /\ SeqVec(b) # Elems(b)
    \/ o.fn = "=" /\ o.x = Nil /\ Kind(a) = "lazy" /\ Kind(b) # "lazy"
    \/ o.fn = "transient" /\ Kind(b) = "amap"
    \/ o.fn = "conj!" /\ Kind(b) = "tmap" /\ IsMap(o.x)
    \/ o.fn = "assoc!" /\ Kind(b) = "tvec" /\ o.x = Num(Len(b[2]))
    \/ o.fn = "mapcat" /\ IsMap(o.x) /\ Kind(b) = "vec"
          /\ \E i \in DOMAIN b[2] : Kind(Lookup(o.x, b[2][i])) \notin {"nil", "set", "vec"}
    \/ o.fn \in {"count filter", "into filter"} /\ EagerSeqElems(b) /\ Falsy(o.x, b)
    \/ hot /\ o.fn \in CoreFns /\ EndsLazily(b)

-----------------------------------------------------------------------------
Init ==
    /\ interpreted \in Starts /\ compiled = interpreted
    /\ hot \in BOOLEAN /\ apart = FALSE /\ calls = 0

\* One call of the chain; an error of a callee is nil to compiled code.
Call(o) ==
    /\ ~apart /\ calls < MaxCalls /\ calls' = calls + 1
    /\ LET Value(r) == IF r THEN compiled ELSE interpreted
           Core == [r \in BOOLEAN |-> CoreFn(r /\ hot, o, Value(r))]
           i == Interpret(o, interpreted, Core[FALSE])
           c == RunCompiled(o, compiled, Core[TRUE])
       IN  /\ interpreted' = i
           /\ compiled' = IF c = Raised THEN Nil ELSE c
           /\ apart' = (i = Raised \/ Gap(o, interpreted, compiled))
    /\ UNCHANGED hot

Next == \E o \in Calls : Call(o)

Spec == Init /\ [][Next]_vars

-----------------------------------------------------------------------------
(* Properties *)

\* A chain of calls gives one Clojure value interpreted and compiled, however
\* each side represents the values between, as long as it stays clear of Gap.
BridgesAgree == apart \/ Same(interpreted, compiled)
=============================================================================
