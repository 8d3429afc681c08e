----------------------------- MODULE MCIrInterp -----------------------------
(* The programs the IR interpreter is run on: contexts with two holes, filled
   with every pair of the fillers below.  Both tiers are compared on all of
   them, so what matters is that every form meets every other in tail, operand,
   loop, closure, handler and binding position, with effects that show the order.

   Left out are the forms on which the two tiers are known to disagree, which
   the README lists: a recur that swaps, an error in a finally body, a throw of
   a value that is no exception, a name of a core function used as a local.    *)
EXTENDS Native, Lowering

L(n) == <<"lit", Num(n)>>
N == <<"lit", Nil>>
S(x) == <<"sym", x>>
K(op, args) == <<"known", op, args>>
Say(n, f) == <<"do", <<K("prn", <<L(n)>>), f>>>>
Vec(fs) == <<"vec", fs>>
If(c, t, e) == <<"if", c, t, e>>
Let(x, f, body) == <<"let", <<S(x)>>, <<f>>, <<body>>>>
Fn(ps, body) == <<"fn", "", <<[ps |-> ps, rest |-> <<>>, body |-> <<body>>]>>>>
Named(f, ps, body) == <<"fn", f, <<[ps |-> ps, rest |-> <<>>, body |-> <<body>>]>>>>
Call1(f, args) == <<"call", f, args>>
Raised(n) == <<"throw", K("ex-info", <<L(n)>>)>>
Catch(x, body) == <<[sym |-> x, body |-> <<body>>]>>

(* Fillers that neither throw nor fail. *)
Quiet == {
    Say(1, S("x")), N, <<"dyn">>,
    If(S("x"), Say(2, L(1)), N),
    <<"or", <<S("x"), Say(3, L(2))>>>>,
    Call1(Fn(<<S("y")>>, Vec(<<S("y"), S("x")>>)), <<Say(4, L(5))>>),
    <<"loop", <<S("i"), S("r")>>, <<L(2), N>>,
       <<If(K("zero?", <<S("i")>>), S("r"),
            <<"do", <<K("prn", <<S("i")>>), <<"recur", <<K("dec", <<S("i")>>), Vec(<<S("i")>>)>>>>>>>>)>>>> }

(* Fillers that may throw, and one that fails when x is nil. *)
Throwing == {Raised(7), <<"and", <<S("x"), Raised(8)>>>>,
             <<"try", <<Say(5, Raised(9))>>, Catch("e", Vec(<<S("e")>>)), <<<<K("prn", <<L(6)>>)>>>>>>}
Failing == {K("+", <<S("x"), L(1)>>)}

Plain(a, b) == {
    <<"do", <<a, b>>>>,
    <<"let", <<S("y"), S("z")>>, <<a, <<"do", <<K("prn", <<S("y")>>), b>>>>>>, <<Vec(<<S("z"), S("y")>>)>>>>,
    If(a, b, Say(9, S("x"))),
    <<"and", <<a, b, S("x")>>>>,
    <<"or", <<a, b, S("x")>>>>,
    K("=", <<a, b, S("x")>>),
    K("not", <<<<"and", <<a, b>>>>>>),
    <<"binding", a, <<K("prn", <<<<"dyn">>>>), b>>>>,
    <<"binding", a, <<<<"set", b>>, <<"dyn">>>>>>,
    <<"outstr", <<a, b>>>>,
    (* a loop whose variable takes a, then b, and a closure made in it *)
    <<"loop", <<S("v"), S("n")>>, <<a, L(2)>>,
       <<If(K("zero?", <<S("n")>>), Vec(<<S("v"), S("n")>>),
            <<"recur", <<Let("k", S("n"), Call1(Fn(<<>>, <<"do", <<K("prn", <<S("k")>>), b>>>>), <<>>)),
                         K("dec", <<S("n")>>)>>>>)>>>>,
    (* recur to the head of a function, self recursion and mutual recursion *)
    Call1(Fn(<<S("n"), S("acc")>>,
             If(K("zero?", <<S("n")>>), S("acc"), <<"recur", <<K("dec", <<S("n")>>), b>>>>)),
          <<L(2), a>>),
    Call1(Named("self", <<S("n"), S("acc")>>,
                If(K("zero?", <<S("n")>>), S("acc"),
                   Call1(S("self"), <<K("dec", <<S("n")>>), Vec(<<S("acc"), b>>)>>))),
          <<L(2), a>>),
    <<"letfn", <<"f", "g">>,
       <<[ps |-> <<S("n")>>, rest |-> <<>>,
          body |-> <<If(K("zero?", <<S("n")>>), a, Call1(S("g"), <<K("dec", <<S("n")>>)>>))>>],
         [ps |-> <<S("n")>>, rest |-> <<>>, body |-> <<Vec(<<b, Call1(S("f"), <<S("n")>>)>>)>>]>>,
       <<Call1(S("f"), <<L(1)>>)>>>>,
    (* arities *)
    Call1(<<"fn", "", <<[ps |-> <<S("p")>>, rest |-> <<>>, body |-> <<a>>],
                        [ps |-> <<S("p")>>, rest |-> <<S("r")>>, body |-> <<Vec(<<S("r"), a, S("p")>>)>>]>>>>,
          <<L(1), b, L(3)>>),
    (* destructuring in let, in a parameter and in a loop *)
    <<"let", <<<<"seqp", <<S("p"), <<"seqp", <<S("q")>>, <<>>, <<>>>>>>, <<S("r")>>, <<S("w")>>>>>>,
       <<Vec(<<a, Vec(<<b>>), L(3)>>)>>, <<Vec(<<S("q"), S("r"), S("p"), S("w")>>)>>>>,
    <<"let", <<<<"mapp", <<"p", "q">>, <<"q">>, <<S("x")>>, <<S("w")>>>>>>,
       <<<<"map", <<"p", "q">>, <<a, b>>>>>>, <<Vec(<<S("p"), S("q"), S("w")>>)>>>>,
    Call1(Fn(<<<<"seqp", <<S("p"), S("q")>>, <<>>, <<>>>>, S("n")>>,
             If(S("n"), <<"recur", <<Vec(<<S("q")>>), N>>>>, Vec(<<S("p"), S("q")>>))),
          <<Vec(<<a, b>>), L(1)>>) }

Arith(a, b) == {
    K("+", <<a, b, L(2)>>), K("-", <<a>>), K("<", <<a, b, L(9)>>), K("max", <<a, b>>),
    K("-", <<K("inc", <<a>>), b>>), <<"do", <<S("nowhere"), a>>>>, Call1(a, <<b>>), K("=", <<a>>) }

(* Errors that no builtin raises: an unbound name, a value that cannot be
   called, and numbers of arguments that no arity takes.                      *)
Faulty(a) == {
    <<"do", <<a, S("nowhere")>>>>, Call1(a, <<L(1)>>),
    Call1(Fn(<<S("p")>>, S("p")), <<a, L(2)>>),
    Call1(<<"fn", "", <<[ps |-> <<S("p")>>, rest |-> <<>>, body |-> <<S("p")>>],
                        [ps |-> <<S("p"), S("q"), S("r")>>, rest |-> <<>>, body |-> <<S("r")>>]>>>>,
          <<a, L(2)>>) }

Raising == Throwing \cup Failing \cup Faulty(S("x"))

(* a may throw or fail, b is quiet: the forms around try. *)
Guarded(a, b) == {
    <<"try", <<a, b>>, Catch("e", Vec(<<S("e"), b>>)), <<<<K("prn", <<S("x")>>), b>>>>>>,
    <<"try", <<<<"try", <<a>>, <<>>, <<<<K("prn", <<L(5)>>)>>>>>>>>, Catch("e", Say(6, b)), <<>>>>,
    <<"try", <<b>>, Catch("e", S("e")), <<<<a>>>>>>,
    <<"try", <<<<"binding", b, <<a>>>>>>, Catch("e", <<"dyn">>), <<>>>>,
    <<"try", <<<<"outstr", <<b, a>>>>>>, Catch("e", Say(7, b)), <<>>>>,
    <<"try", <<a>>, Catch("e", a), <<<<Say(8, b)>>>>>>,
    <<"loop", <<S("n"), S("v")>>, <<L(2), N>>,
       <<If(K("zero?", <<S("n")>>), S("v"),
            <<"recur", <<K("dec", <<S("n")>>), <<"try", <<a>>, Catch("e", Vec(<<S("n"), S("e")>>)), <<>>>>>>>>)>>>> }

(* An error of a finally body: see above. *)
RaisesInFinally(f) == f[1] = "try" /\ f[4] # <<>> /\ f[4][1][1] \in Raising

Bodies ==
    UNION {Plain(a, b) : a \in Quiet \cup Throwing, b \in Quiet}
    \cup UNION {Plain(a, b) : a \in Quiet \cup Failing, b \in Throwing \cup Failing}
    \cup UNION {Arith(a, b) : a \in {L(1), Say(1, L(3)), S("x"), N}, b \in Failing \cup {L(2), S("x")}}
    \cup {f \in UNION {Guarded(a, b) : a \in Quiet \cup Raising, b \in Quiet} : ~RaisesInFinally(f)}
    \cup Faulty(L(1)) \cup Faulty(S("x"))

CorePrograms == [body : {<<f>> : f \in Bodies}, arg : {Nil, Num(1)}]

(* (loop [a 1 b 2 n 0] (if (= n 1) [a b] (recur b a (inc n)))) *)
SwapPrograms ==
    {[arg |-> Nil, body |->
       <<<<"loop", <<S("a"), S("b"), S("n")>>, <<L(1), L(2), L(0)>>,
           <<If(K("=", <<S("n"), L(1)>>), Vec(<<S("a"), S("b")>>),
                <<"recur", <<S("b"), S("a"), K("inc", <<S("n")>>)>>>>)>>>>>>]}
=============================================================================
