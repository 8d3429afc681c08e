----------------------------- MODULE MCCompiled -----------------------------
(***************************************************************************)
(* Compiled code: its regions, and its collection functions.  A behaviour is  *)
(* about one of the two and leaves the other at rest.                         *)
(*                                                                          *)
(* Regions: the graphs of straight code, an if, an if with a throw, two ifs   *)
(* with one empty branch each in sequence, a loop with recur, and a loop that   *)
(* tests in a block after its header.                                         *)
(* Collections: chains of calls on a collection of every kind.                *)
(***************************************************************************)
EXTENDS RegionScopes, TLC

CONSTANT MaxCalls    \* bound on the calls of a chain

VARIABLES which, co_interpreted, co_compiled, co_hot, co_apart, co_calls

Line == (0 :> {})
If == (0 :> {1, 2} @@ 1 :> {3} @@ 2 :> {3} @@ 3 :> {})
IfThrow == (0 :> {1, 2} @@ 1 :> {} @@ 2 :> {3} @@ 3 :> {})
TwoIfs == (0 :> {1, 2} @@ 1 :> {2} @@ 2 :> {3, 4} @@ 3 :> {4} @@ 4 :> {})
Loop == (0 :> {1} @@ 1 :> {2, 3} @@ 2 :> {1} @@ 3 :> {})
LateTest == (0 :> {1} @@ 1 :> {2} @@ 2 :> {3, 4} @@ 3 :> {1} @@ 4 :> {})
MCCfgs == {Line, If, IfThrow, TwoIfs, Loop, LateTest}
MCThrows == [c \in MCCfgs |-> IF c = IfThrow THEN {1} ELSE {}]
MCSymmetry == Permutations(Allocs)

ASSUME StructuredGraphs == \A c \in Cfgs : Structured(c)

Nil == <<"nil">>
Zero == <<"int", 0>>
One == <<"int", 1>>
Two == <<"int", 2>>
Vec(s) == <<"vec", s>>
List(s) == <<"list", s>>
Cell(h, t) == <<"cons", h, t>>
Lazy(v) == <<"lazy", v>>
ArrayMap(s) == <<"amap", s>>
SetOf(S) == <<"set", S>>
Twin == <<"fn", "twin">>
Once == <<"fn", "once">>

\* A string of a character of one byte and one of two; a lazy seq of two.
Starts ==
    {Nil, Vec(<<>>), Vec(<<One, Nil>>), List(<<One>>), SetOf({One, Nil}),
     ArrayMap(<<<<One, Vec(<<Two>>)>>>>), <<"hmap", {<<Two, List(<<One>>)>>}>>,
     <<"str", <<<<"chr", 1>>, <<"chr", 2>>>>>>,
     Lazy(Nil), Lazy(Cell(Nil, Lazy(Cell(One, Lazy(Nil))))), Cell(One, Cell(Two, Nil))}

Calling(fns, X, Y, N) == [fn : fns, x : X, y : Y, n : N]
Preds == {Twin, SetOf({One, Nil})}
Calls ==
    Calling({"seq", "first", "rest", "next", "count", "empty?", "vec", "peek", "pop", "keys",
             "vals", "reverse", "concat", "seq?", "vector?", "map?", "transient", "persistent!"},
            {Nil}, {Nil}, {0})
    \cup Calling({"cons", "conj", "conj!", "dissoc", "disj", "get", "contains?"}, {Nil, One}, {Nil}, {0})
    \cup Calling({"cons", "conj", "conj!", "into"}, {Vec(<<One, Two>>)}, {Nil}, {0})
    \cup Calling({"="}, {Nil, List(<<One, One, Nil>>)}, {Nil}, {0})
    \cup Calling({"conj!"}, {ArrayMap(<<<<One, Two>>>>)}, {Nil}, {0})
    \cup Calling({"assoc", "assoc!"}, {Zero, One}, {Two}, {0})
    \cup Calling({"into from"},
                 {Vec(<<>>), List(<<>>), SetOf({One}), ArrayMap(<<<<One, Two>>>>)}, {Nil}, {0})
    \cup Calling({"nth", "take"}, {Nil}, {Nil}, {0, 1}) \cup Calling({"drop"}, {Nil}, {Nil}, {1})
    \cup Calling({"map", "filter", "some", "every?", "mapv", "filterv", "count filter"}, Preds, {Nil}, {0})
    \cup Calling({"mapcat"},
                 {Twin, Once, ArrayMap(<<<<One, Vec(<<Two>>)>>, <<Nil, List(<<One>>)>>>>)}, {Nil}, {0})
    \cup Calling({"into filter"}, Preds, {Vec(<<>>), SetOf({Two})}, {0})
    \cup Calling({"into mapcat"}, {Once}, {Vec(<<>>), SetOf({Two})}, {0})
    \cup Calling({"into map"}, {Twin}, {Vec(<<>>), ArrayMap(<<<<One, Two>>>>)}, {0})

coVars == <<co_interpreted, co_compiled, co_hot, co_apart, co_calls>>
Coll == INSTANCE Collections WITH
    interpreted <- co_interpreted, compiled <- co_compiled, hot <- co_hot,
    apart <- co_apart, calls <- co_calls

coRest == co_interpreted = Nil /\ co_compiled = Nil /\ co_hot = FALSE /\ co_apart = TRUE /\ co_calls = 0
regionRest ==
    /\ succ = Line /\ throws = {} /\ dom = <<>> /\ pdom = <<>>
    /\ at = <<>> /\ uses = <<>> /\ aliases = <<>> /\ flow = <<>> /\ todo = {} /\ scoped = {}
    /\ starts = <<>> /\ ends = <<>> /\ pc = "rest" /\ here = 0 /\ steps = 0 /\ stack = <<>>
    /\ watermark = 0 /\ val = <<>> /\ phi = <<>> /\ published = {} /\ crossed = FALSE
    /\ dead = {} /\ lost = {}

MCInit ==
    \/ which = "regions" /\ Init /\ coRest
    \/ which = "collections" /\ Coll!Init /\ regionRest
MCNext ==
    /\ UNCHANGED which
    /\ \/ which = "regions" /\ Next /\ UNCHANGED coVars
       \/ which = "collections" /\ Coll!Next /\ UNCHANGED vars
MCSpec == MCInit /\ [][MCNext]_<<which, coVars, vars>>

\* A chain of collection calls gives one Clojure value interpreted and
\* compiled (Collections).
BridgesAgree == Coll!BridgesAgree
=============================================================================
