------------------------------- MODULE IrCode -------------------------------
(* The intermediate representation (cljrs-ir): what Lowering produces and what
   the interpreter and the native tier run.  A function is [params, blocks], a
   block [phis, insts, term], a phi [dst, from] with <<block, register>> pairs,
   an instruction <<kind, register, ...>>.                                    *)
EXTENDS Values

(* The registers of a function: its parameters and what it writes. *)
Used(f) ==
    UNION {{f.blocks[b].phis[k].dst : k \in 1..Len(f.blocks[b].phis)}
           \cup {f.blocks[b].insts[k][2] : k \in 1..Len(f.blocks[b].insts)}
           : b \in DOMAIN f.blocks}
    \cup 0..(f.params - 1)

Successors(t) == IF t[1] \in {"jump", "recur"} THEN {t[2]}
                 ELSE IF t[1] = "branch" THEN {t[3], t[4]} ELSE {}

-----------------------------------------------------------------------------
(* What the tiers rely on in the code they are given. *)

(* A literal is never a collection, a closure or a cell. *)
Scalar(v) == v[1] \in {"nil", "int", "bool", "kw"}

Arities(fns) == [fn : 1..Len(fns), n : Nat, va : BOOLEAN]
KnownOps == {"+", "-", "<", ">", "=", "nil?", "nth", "rest", "seq", "get", "prn"}

(* An instruction reads registers of its function only, and closes over
   functions that exist.                                                      *)
GoodInst(fns, regs, i) ==
    \/ i[1] = "const" /\ Scalar(i[3])
    \/ i[1] \in {"global", "loadvar"}
    \/ i[1] = "vec" /\ i[3] \in Seq(regs)
    \/ i[1] = "map" /\ i[3] \in Seq(ToSet(i[3])) /\ i[4] \in Seq(regs) /\ Len(i[3]) = Len(i[4])
    \/ i[1] = "closure" /\ i[3] \in Seq(Arities(fns)) /\ i[4] \in Seq(regs)
    \/ i[1] \in {"defvar", "deref"} /\ i[3] \in regs
    \/ i[1] = "setbang" /\ i[2] \in regs /\ i[3] \in regs
    \/ i[1] = "throw" /\ i[2] \in regs
    \/ i[1] = "call" /\ i[3] \in regs /\ i[4] \in Seq(regs)
    \/ i[1] = "known" /\ i[3] \in KnownOps \cup {"with-out-str"}
       /\ i[4] \in Seq(regs) /\ Len(i[4]) >= 1
    \/ i[1] = "known" /\ i[3] \in {"try", "with-bindings"}
       /\ i[4] \in Seq(regs) /\ Len(i[4]) = 3

GoodTerm(regs, t) ==
    \/ t[1] \in {"jump", "recur"}
    \/ t[1] \in {"branch", "return"} /\ t[2] \in regs
    \/ t = <<"unreachable">>

(* Every edge has one entry in every phi of its target, and only code after a
   throw ends in nothing.                                                     *)
GoodBlock(fns, f, b) ==
    LET k == f.blocks[b]
    IN  /\ k.phis \in Seq([dst : Used(f), from : Seq((DOMAIN f.blocks) \X Used(f))])
        /\ k.insts \in Seq(ToSet(k.insts))
        /\ \A j \in 1..Len(k.insts) : GoodInst(fns, Used(f), k.insts[j])
        /\ GoodTerm(Used(f), k.term)
        /\ k.term = <<"unreachable">> => \E j \in 1..Len(k.insts) : k.insts[j][1] = "throw"
        /\ \A to \in Successors(k.term) :
             /\ to \in DOMAIN f.blocks
             /\ \A p \in 1..Len(f.blocks[to].phis) :
                  Cardinality({j \in 1..Len(f.blocks[to].phis[p].from) :
                                 f.blocks[to].phis[p].from[j][1] = b}) = 1

GoodFn(fns, f) ==
    /\ f.params \in Nat /\ Used(f) \subseteq Nat
    /\ 0 \in DOMAIN f.blocks /\ f.blocks[0].phis = <<>>
    /\ \A b \in DOMAIN f.blocks : GoodBlock(fns, f, b)

(* The last function is the one that is called. *)
WellFormed(fns) ==
    /\ fns \in Seq(ToSet(fns)) /\ fns # <<>>
    /\ \A i \in 1..Len(fns) : GoodFn(fns, fns[i])
=============================================================================
