------------------------- MODULE CompiledCodeProofs -------------------------
(***************************************************************************)
(* What is proved about compiled code: first the region pass (RegionScopes), *)
(* then the execution of lowered code by the IR interpreter (IrInterp).      *)
(* The two specifications share no variable.                                 *)
(*                                                                          *)
(* The region pass, for every flow graph: its analyses find the dominators   *)
(* and the post-dominators; a region is retired, not freed, once a value of   *)
(* unknown type was published; and, for the graphs lowering emits, a region   *)
(* is there for the uses of its values and closed when the function returns.  *)
(*                                                                          *)
(* Both analyses repeat a step as often as there are blocks.  The proof runs *)
(* dom_iterate beside a search of the graph that avoids one block, and shows *)
(* that after as many rounds of each the one has dropped the block exactly   *)
(* where the other has come to.  The last of its theorems builds on it: a    *)
(* scope is left only through its end.  Its end post-dominates its start, or  *)
(* the start is where the branches part that a phi of the value joins, and    *)
(* all of them come to the phi; and no loop of the scope leads back into it.  *)
(*                                                                          *)
(* The interpreter, for any programs whose compiled code is well formed      *)
(* (IrCode).  A closure is called through a value that may have travelled    *)
(* through registers, vectors, maps, cells and dynamic bindings, so the      *)
(* invariant speaks of every value there is: some set V holds all of them    *)
(* and the parts of all of them, and some set C of heap addresses holds the  *)
(* cells, such that a value that names a closure or a cell finds one there.  *)
(* On that rest the frames: each runs a function that exists, is in a block  *)
(* that it reached along an edge, and has passed no throw; a frame that is   *)
(* not on top waits at a call; and a guard stands on an activation.          *)
(***************************************************************************)
EXTENDS RegionScopes, IrInterp, SequenceTheorems, FiniteSetTheorems, WellFoundedInduction, TLAPS


-----------------------------------------------------------------------------
(* Iteration *)

\* A set of numbers has a least one.
LEMMA LeastNumber ==
    ASSUME NEW T \in SUBSET Nat, T # {}
    PROVE  \E x \in T : \A y \in T : x <= y
<1> DEFINE less == OpToRel(<, Nat)
<1>1. IsWellFoundedOn(less, Nat)  BY NatLessThanWellFounded
<1>2. \A x, y \in Nat : <<x, y>> \in less <=> x < y  BY DEF OpToRel
<1> HIDE DEF less
<1>3. PICK x \in T : \A y \in T : ~ (<<y, x>> \in less)  BY <1>1, WFMin
<1>4. \A y \in T : x \in Nat /\ y \in Nat /\ ~ (y < x)  BY <1>2, <1>3
<1>5. \A y \in T : x <= y  BY <1>4
<1> QED  BY <1>5

\* Induction, for a set of numbers instead of a predicate.
LEMMA AllNumbers ==
    ASSUME NEW T \in SUBSET Nat, 0 \in T, \A n \in T : n + 1 \in T
    PROVE  T = Nat
<1>1. SUFFICES ASSUME Nat \ T # {} PROVE FALSE  OBVIOUS
<1>2. PICK x \in Nat \ T : \A y \in Nat \ T : x <= y  BY <1>1, LeastNumber
<1>3. x # 0 /\ x - 1 \in Nat /\ (x - 1) + 1 = x /\ ~ (x <= x - 1)  OBVIOUS
<1>4. x - 1 \notin T  BY <1>3
<1> QED  BY <1>2, <1>3, <1>4

\* F maps X to itself, and f is what S becomes under it, up to m times.
Maps(F, X) == F \in [X -> X]
Applied(f, F, S, m) == f[0] = S /\ \A n \in 1..m : f[n] = F[f[n - 1]]

\* A function can be applied any number of times.
LEMMA Repeats ==
    ASSUME NEW X, NEW F, Maps(F, X), NEW S \in X, NEW m \in Nat
    PROVE  \E f : f \in [0..m -> X] /\ Applied(f, F, S, m)
<1>0. F \in [X -> X]  BY DEF Maps
<1> DEFINE T == {k \in Nat : \E f \in [0..k -> X] : f[0] = S /\ \A n \in 1..k : f[n] = F[f[n - 1]]}
<1>1. 0 \in T
  <2> DEFINE f == [n \in 0..0 |-> S]
  <2>1. f \in [0..0 -> X] /\ f[0] = S /\ \A n \in 1..0 : f[n] = F[f[n - 1]]  OBVIOUS
  <2> HIDE DEF f
  <2> QED  BY <2>1
<1>2. ASSUME NEW k \in T PROVE k + 1 \in T
  <2>1. PICK f \in [0..k -> X] : f[0] = S /\ \A n \in 1..k : f[n] = F[f[n - 1]]  OBVIOUS
  <2> DEFINE g == [n \in 0..(k + 1) |-> IF n = k + 1 THEN F[f[k]] ELSE f[n]]
  <2>0. k \in Nat /\ k \in 0..k /\ 0 \in 0..k /\ 0 # k + 1 /\ k + 1 \in Nat  OBVIOUS
  <2>2. F[f[k]] \in X  BY <1>0, <2>0, <2>1
  <2>3. \A n \in 0..(k + 1) : n # k + 1 => n \in 0..k  BY <2>0
  <2>4. g \in [0..(k + 1) -> X]  BY <2>1, <2>2, <2>3
  <2>5. g[0] = S  BY <2>0, <2>1
  <2>6. ASSUME NEW n \in 1..(k + 1) PROVE g[n] = F[g[n - 1]]
    <3>1. n - 1 \in 0..k /\ n - 1 # k + 1 /\ n \in 0..(k + 1) /\ n - 1 \in 0..(k + 1)  BY <2>0
    <3>2. g[n - 1] = f[n - 1]  BY <3>1
    <3>3. CASE n = k + 1
      <4>1. n - 1 = k  BY <2>0, <3>3
      <4> QED  BY <3>1, <3>2, <3>3, <4>1
    <3>4. CASE n # k + 1
      <4>1. n \in 1..k  BY <2>0, <3>4
      <4> QED  BY <2>1, <3>1, <3>2, <3>4, <4>1
    <3> QED  BY <3>3, <3>4
  <2> HIDE DEF g
  <2> QED  BY <2>0, <2>4, <2>5, <2>6
<1>3. T \in SUBSET Nat  OBVIOUS
<1> HIDE DEF T
<1>4. T = Nat  BY <1>1, <1>2, <1>3, AllNumbers
<1>5. PICK f \in [0..m -> X] : f[0] = S /\ \A n \in 1..m : f[n] = F[f[n - 1]]  BY <1>4 DEF T
<1> QED  BY <1>5 DEF Applied

-----------------------------------------------------------------------------
(* The rounds of the analyses *)

\* A flow graph, and the number of rounds.
Edges == [Blocks -> SUBSET Blocks]
Rounds == Cardinality(Blocks)
Graph == IsFiniteSet(Blocks) /\ 0 \in Blocks /\ succ \in Edges

\* f is how S spreads along next, round by round.
Spreads(f, S, next) ==
    /\ f \in [0..Rounds -> SUBSET Blocks] /\ f[0] = S
    /\ \A n \in 1..Rounds : f[n] = f[n - 1] \cup UNION {next[b] : b \in f[n - 1]}

\* Closure is the last round.
LEMMA ClosureIs ==
    ASSUME Graph, NEW S \in SUBSET Blocks, NEW next \in Edges
    PROVE  \E f : Spreads(f, S, next) /\ Closure(S, next) = f[Rounds]
<1> DEFINE N == Cardinality(Blocks)
           F == [X \in SUBSET Blocks |-> X \cup UNION {next[b] : b \in X}]
           R == CHOOSE r : r = [n \in 0..N |-> IF n = 0 THEN S ELSE r[n - 1] \cup UNION {next[b] : b \in r[n - 1]}]
<1>0. N \in Nat  BY FS_CardinalityType DEF Graph
<1>1. F \in [SUBSET Blocks -> SUBSET Blocks] /\ \A X \in SUBSET Blocks : F[X] = X \cup UNION {next[b] : b \in X}
  BY DEF Edges
<1>f. Maps(F, SUBSET Blocks)  BY <1>1 DEF Maps
<1> HIDE DEF F, N
<1>2. PICK f : f \in [0..N -> SUBSET Blocks] /\ Applied(f, F, S, N)
  BY <1>0, <1>f, Repeats
<1>3. f \in [0..N -> SUBSET Blocks] /\ f[0] = S /\ \A n \in 1..N : f[n] = F[f[n - 1]]
  BY <1>2 DEF Applied
<1>4. ASSUME NEW n \in 0..N, n # 0 PROVE f[n] = f[n - 1] \cup UNION {next[b] : b \in f[n - 1]}
  <2>1. n \in 1..N /\ n - 1 \in 0..N  BY <1>0, <1>4
  <2> QED  BY <1>1, <1>3, <2>1
<1>5. f = [n \in 0..N |-> f[n]]  BY <1>3
<1>6. [n \in 0..N |-> f[n]] = [n \in 0..N |-> IF n = 0 THEN S ELSE f[n - 1] \cup UNION {next[b] : b \in f[n - 1]}]
  BY <1>3, <1>4
<1>7. \E r : r = [n \in 0..N |-> IF n = 0 THEN S ELSE r[n - 1] \cup UNION {next[b] : b \in r[n - 1]}]  BY <1>5, <1>6, Zenon
<1>8. R = [n \in 0..N |-> IF n = 0 THEN S ELSE R[n - 1] \cup UNION {next[b] : b \in R[n - 1]}]  BY <1>7, Zenon
<1>9. Closure(S, next) = R[N]  BY DEF Closure, N
<1> HIDE DEF R
<1> DEFINE T == {n \in Nat : n <= N => R[n] = f[n]}
<1>10. T = Nat
  <2>1. 0 \in T  BY <1>0, <1>3, <1>8
  <2>2. ASSUME NEW n \in T PROVE n + 1 \in T
    <3>1. SUFFICES ASSUME n + 1 <= N PROVE R[n + 1] = f[n + 1]  OBVIOUS
    <3>2. n \in Nat /\ n <= N /\ n + 1 \in 0..N /\ n + 1 # 0 /\ (n + 1) - 1 = n  BY <1>0, <3>1
    <3>3. f[n + 1] = f[n] \cup UNION {next[b] : b \in f[n]}  BY <1>4, <3>2
    <3>4. R[n + 1] = R[n] \cup UNION {next[b] : b \in R[n]}  BY <1>8, <3>2
    <3>5. R[n] = f[n]  BY <3>2
    <3> QED  BY <3>3, <3>4, <3>5
  <2>3. T \in SUBSET Nat  OBVIOUS
  <2> HIDE DEF T
  <2> QED  BY <2>1, <2>2, <2>3, AllNumbers
<1>11. R[N] = f[N]  BY <1>0, <1>10
<1>12. Spreads(f, S, next)
  <2>1. \A n \in 1..N : n \in 0..N /\ n # 0  BY <1>0
  <2> QED  BY <1>3, <1>4, <2>1 DEF Spreads, Rounds, N
<1> QED  BY <1>9, <1>11, <1>12 DEF Rounds, N

\* A growing set of blocks has stopped growing when there are no blocks left.
LEMMA SpreadStops ==
    ASSUME Graph, NEW S \in SUBSET Blocks, NEW next \in Edges, NEW f, Spreads(f, S, next)
    PROVE  /\ f[Rounds] \in SUBSET Blocks /\ S \subseteq f[Rounds]
           /\ \A b \in f[Rounds] : next[b] \subseteq f[Rounds]
<1> DEFINE N == Rounds
           F(X) == X \cup UNION {next[b] : b \in X}
<1>g. f \in [0..N -> SUBSET Blocks] /\ f[0] = S /\ \A n \in 1..N : f[n] = F(f[n - 1])  BY DEF Spreads
<1>0. IsFiniteSet(Blocks) /\ N \in Nat  BY FS_CardinalityType DEF Graph, Rounds
<1>1. \A X \in SUBSET Blocks : IsFiniteSet(X) /\ Cardinality(X) \in Nat /\ Cardinality(X) <= N
  BY <1>0, FS_Subset, FS_CardinalityType DEF Rounds
<1>f. \A X \in SUBSET Blocks : F(X) \in SUBSET Blocks /\ X \subseteq F(X)  BY DEF Edges
<1>e. \A X : F(X) = X => \A b \in X : next[b] \subseteq X  OBVIOUS
<1>c. N = Cardinality(Blocks)  BY DEF Rounds
<1> HIDE DEF N, F
<1> DEFINE T == {n \in Nat : n <= N => /\ f[n] \in SUBSET Blocks /\ S \subseteq f[n]
                                       /\ F(f[n]) = f[n] \/ Cardinality(f[n]) >= n}
<1>2. 0 \in T  BY <1>0, <1>1, <1>g
<1>3. ASSUME NEW n \in T PROVE n + 1 \in T
  <2>1. SUFFICES ASSUME n + 1 <= N
                 PROVE  /\ f[n + 1] \in SUBSET Blocks /\ S \subseteq f[n + 1]
                        /\ F(f[n + 1]) = f[n + 1] \/ Cardinality(f[n + 1]) >= n + 1
    OBVIOUS
  <2>2. n \in Nat /\ f[n] \in SUBSET Blocks /\ S \subseteq f[n] /\ (F(f[n]) = f[n] \/ Cardinality(f[n]) >= n)
    BY <1>0, <2>1
  <2>3. n + 1 \in 1..N /\ (n + 1) - 1 = n  BY <1>0, <2>1, <2>2
  <2>4. f[n + 1] = F(f[n])  BY <1>g, <2>3
  <2>5. f[n + 1] \in SUBSET Blocks /\ f[n] \subseteq f[n + 1]  BY <1>f, <2>2, <2>4
  <2>6. CASE F(f[n]) = f[n]  BY <2>2, <2>4, <2>6
  <2>7. CASE F(f[n]) # f[n]
    <3>1. Cardinality(f[n]) \in Nat /\ Cardinality(f[n + 1]) \in Nat /\ IsFiniteSet(f[n + 1])  BY <1>1, <2>2, <2>5
    <3>2. Cardinality(f[n]) <= Cardinality(f[n + 1]) /\ Cardinality(f[n]) # Cardinality(f[n + 1])
      BY <2>4, <2>5, <2>7, <3>1, FS_Subset
    <3>3. Cardinality(f[n]) >= n  BY <2>2, <2>7
    <3>4. Cardinality(f[n + 1]) >= n + 1  BY <2>2, <3>1, <3>2, <3>3
    <3> QED  BY <2>2, <2>5, <3>4
  <2> QED  BY <2>6, <2>7
<1>4. T = Nat
  <2>1. T \in SUBSET Nat  OBVIOUS
  <2> HIDE DEF T
  <2> QED  BY <1>2, <1>3, <2>1, AllNumbers
<1>5. f[N] \in SUBSET Blocks /\ S \subseteq f[N] /\ (F(f[N]) = f[N] \/ Cardinality(f[N]) >= N)  BY <1>0, <1>4
<1>6. F(f[N]) = f[N]
  <2>1. CASE Cardinality(f[N]) >= N
    <3>1. Cardinality(f[N]) = N  BY <1>0, <1>1, <1>5, <2>1
    <3>2. f[N] = Blocks  BY <1>0, <1>5, <1>c, <3>1, FS_Subset
    <3>3. F(f[N]) \in SUBSET Blocks /\ f[N] \subseteq F(f[N])  BY <1>5, <1>f
    <3> QED  BY <3>2, <3>3
  <2> QED  BY <1>5, <2>1
<1> QED  BY <1>5, <1>6, <1>e DEF N

\* The blocks reverse_postorder visits: the entry and, with a block, its successors.
LEMMA ReachableIs ==
    ASSUME Graph
    PROVE  Reachable \subseteq Blocks /\ 0 \in Reachable /\ \A b \in Reachable : succ[b] \subseteq Reachable
<1>1. {0} \in SUBSET Blocks /\ succ \in Edges  BY DEF Graph
<1>2. PICK f : Spreads(f, {0}, succ) /\ Closure({0}, succ) = f[Rounds]  BY <1>1, ClosureIs
<1>3. /\ f[Rounds] \in SUBSET Blocks /\ {0} \subseteq f[Rounds]
      /\ \A b \in f[Rounds] : succ[b] \subseteq f[Rounds]
  BY <1>1, <1>2, SpreadStops
<1>4. Reachable = f[Rounds]  BY <1>2 DEF Reachable
<1> QED  BY <1>3, <1>4

\* A round of dom_iterate for one block, and all rounds.
MeetIn(roots, pred, d, b) ==
    IF b \in roots \/ pred[b] \cap Reachable = {} THEN d[b]
    ELSE {b} \cup {x \in Reachable : \A p \in pred[b] \cap Reachable : x \in d[p]}
Narrows(g, roots, pred) ==
    /\ g[0] = [b \in Reachable |-> IF b \in roots THEN {b} ELSE Reachable]
    /\ \A n \in 1..Rounds : g[n] = [b \in Reachable |-> MeetIn(roots, pred, g[n - 1], b)]

\* DomIterate is the last round.
LEMMA DomIterateIs ==
    ASSUME Graph, NEW roots, NEW pred
    PROVE  \E g : Narrows(g, roots, pred) /\ DomIterate(roots, pred) = g[Rounds]
<1> DEFINE N == Cardinality(Blocks)
           X == [Reachable -> SUBSET Reachable]
           S == [b \in Reachable |-> IF b \in roots THEN {b} ELSE Reachable]
           F == [d \in X |-> [b \in Reachable |-> MeetIn(roots, pred, d, b)]]
           R == CHOOSE r : r = [n \in 0..N |-> IF n = 0 THEN S ELSE [b \in Reachable |-> MeetIn(roots, pred, r[n - 1], b)]]
<1>0. N \in Nat  BY FS_CardinalityType DEF Graph
<1>1. S \in X  OBVIOUS
<1>2. ASSUME NEW d \in X, NEW b \in Reachable PROVE MeetIn(roots, pred, d, b) \in SUBSET Reachable
  BY DEF MeetIn
<1>3. F \in [X -> X] /\ \A d \in X : F[d] = [b \in Reachable |-> MeetIn(roots, pred, d, b)]
  BY <1>2
<1>9. DomIterate(roots, pred) = R[N]  BY DEF DomIterate, MeetIn, N
<1>f. Maps(F, X)  BY <1>3 DEF Maps
<1> HIDE DEF F, N, X, S
<1>4. PICK g : g \in [0..N -> X] /\ Applied(g, F, S, N)  BY <1>0, <1>1, <1>f, Repeats
<1>5. g \in [0..N -> X] /\ g[0] = S /\ \A n \in 1..N : g[n] = F[g[n - 1]]  BY <1>4 DEF Applied
<1>6. ASSUME NEW n \in 0..N, n # 0 PROVE g[n] = [b \in Reachable |-> MeetIn(roots, pred, g[n - 1], b)]
  <2>1. n \in 1..N /\ n - 1 \in 0..N  BY <1>0, <1>6
  <2> QED  BY <1>3, <1>5, <2>1
<1>7. g = [n \in 0..N |-> IF n = 0 THEN S ELSE [b \in Reachable |-> MeetIn(roots, pred, g[n - 1], b)]]
  <2>1. g = [n \in 0..N |-> g[n]]  BY <1>5
  <2>2. [n \in 0..N |-> g[n]] = [n \in 0..N |-> IF n = 0 THEN S ELSE [b \in Reachable |-> MeetIn(roots, pred, g[n - 1], b)]]
    BY <1>5, <1>6
  <2> QED  BY <2>1, <2>2, Zenon
<1>8. R = [n \in 0..N |-> IF n = 0 THEN S ELSE [b \in Reachable |-> MeetIn(roots, pred, R[n - 1], b)]]
  <2>1. \E r : r = [n \in 0..N |-> IF n = 0 THEN S ELSE [b \in Reachable |-> MeetIn(roots, pred, r[n - 1], b)]]  BY <1>7, Zenon
  <2> QED  BY <2>1, Zenon
<1> HIDE DEF R
<1>10. R[0] = S  BY <1>0, <1>8
<1>11. \A n \in 1..N : R[n] = [b \in Reachable |-> MeetIn(roots, pred, R[n - 1], b)]
  <2>1. \A n \in 1..N : n \in 0..N /\ n # 0  BY <1>0
  <2> QED  BY <1>8, <2>1
<1>12. Narrows(R, roots, pred)  BY <1>10, <1>11 DEF Narrows, Rounds, N, S
<1> QED  BY <1>9, <1>12 DEF Rounds, N

\* What the two analyses have in common: pred, among the reachable blocks, is
\* next backwards; and the search along next stays in D.
Converse(D, roots, pred, next) ==
    /\ D \in SUBSET Blocks /\ roots \in SUBSET D
    /\ \A c \in D : next[c] \subseteq D
    /\ \A b \in Reachable : \A p \in pred[b] \cap Reachable : b \in next[p]
    /\ \A b \in Reachable : \A c \in D : b \in next[c] => c \in pred[b] \cap Reachable
Without(next, d) == [b \in Blocks |-> next[b] \ {d}]

\* After as many rounds of both, dom_iterate keeps d for b exactly when the
\* search that avoids d has not come to b.
LEMMA RoundsAgree ==
    ASSUME Graph, NEW D, NEW roots, NEW pred, NEW next, Converse(D, roots, pred, next), NEW d \in Reachable,
           NEW g, Narrows(g, roots, pred), NEW f, Spreads(f, roots \ {d}, Without(next, d)), NEW b \in Reachable
    PROVE  d \in g[Rounds][b] <=> b = d \/ b \notin f[Rounds]
<1> DEFINE N == Rounds
           A == Reachable
<1>0. N \in Nat /\ A \subseteq Blocks  BY ReachableIs, FS_CardinalityType DEF Graph, Rounds
<1>g0. g[0] = [c \in A |-> IF c \in roots THEN {c} ELSE A]  BY DEF Narrows
<1>g. \A n \in 1..N : g[n] = [c \in A |-> MeetIn(roots, pred, g[n - 1], c)]  BY DEF Narrows
<1>f0. f[0] = roots \ {d}  BY DEF Spreads
<1>f. \A n \in 1..N : f[n] = f[n - 1] \cup UNION {Without(next, d)[c] : c \in f[n - 1]}  BY DEF Spreads
<1>c. D \in SUBSET Blocks /\ roots \in SUBSET D /\ \A c \in D : next[c] \subseteq D  BY DEF Converse
<1>c1. \A c \in A : \A p \in pred[c] \cap A : c \in next[p]  BY DEF Converse
<1>c2. \A c \in A : \A p \in D : c \in next[p] => p \in pred[c] \cap A  BY DEF Converse
<1> HIDE DEF N, A
<1> DEFINE Shape(n) == /\ f[n] \in SUBSET D /\ roots \ {d} \subseteq f[n] /\ d \notin f[n]
                       /\ \A c \in A \cap f[n] : c \in roots \/ \E p \in pred[c] \cap A : p \in f[n]
           Same(n) == \A c \in A : d \in g[n][c] <=> c = d \/ c \notin f[n]
           T == {n \in Nat : n <= N => Shape(n) /\ Same(n)}
<1>1. 0 \in T
  <2>1. Shape(0)  BY <1>c, <1>f0
  <2>2. Same(0)  BY <1>g0, <1>f0 DEF A
  <2> QED  BY <2>1, <2>2
<1>2. ASSUME NEW n \in T PROVE n + 1 \in T
  <2>1. SUFFICES ASSUME n + 1 <= N PROVE Shape(n + 1) /\ Same(n + 1)  OBVIOUS
  <2>2. n \in Nat /\ Shape(n) /\ Same(n)  BY <1>0, <2>1
  <2>3. n + 1 \in 1..N /\ (n + 1) - 1 = n  BY <1>0, <2>1, <2>2
  <2>4. f[n + 1] = f[n] \cup UNION {Without(next, d)[c] : c \in f[n]}  BY <1>f, <2>3
  <2>5. g[n + 1] = [c \in A |-> MeetIn(roots, pred, g[n], c)]  BY <1>g, <2>3
  <2>6. \A c : c \in f[n + 1] <=> c \in f[n] \/ \E p \in f[n] : c \in next[p] /\ c # d
    BY <1>c, <2>2, <2>4 DEF Without
  <2>7. f[n] \subseteq f[n + 1]  BY <2>4
  <2> HIDE DEF Shape, Same, T
  <2>s. /\ f[n] \in SUBSET D /\ roots \ {d} \subseteq f[n] /\ d \notin f[n]
        /\ \A c \in A \cap f[n] : c \in roots \/ \E p \in pred[c] \cap A : p \in f[n]
    BY <2>2 DEF Shape
  <2>8. Shape(n + 1)
    <3>1. f[n + 1] \in SUBSET D  BY <1>c, <2>6, <2>s
    <3>2. roots \ {d} \subseteq f[n + 1] /\ d \notin f[n + 1]  BY <2>6, <2>7, <2>s
    <3>3. ASSUME NEW c \in A \cap f[n + 1] PROVE c \in roots \/ \E p \in pred[c] \cap A : p \in f[n + 1]
      <4>1. CASE c \in f[n]  BY <2>7, <2>s, <4>1
      <4>2. CASE c \notin f[n]
        <5>1. PICK p \in f[n] : c \in next[p]  BY <2>6, <4>2
        <5>2. p \in pred[c] \cap A  BY <1>c2, <2>s, <5>1
        <5> QED  BY <2>7, <5>1, <5>2
      <4> QED  BY <4>1, <4>2
    <3> QED  BY <3>1, <3>2, <3>3 DEF Shape
  <2>9. ASSUME NEW c \in A PROVE d \in g[n + 1][c] <=> c = d \/ c \notin f[n + 1]
    <3>0. d \in g[n][c] <=> c = d \/ c \notin f[n]  BY <2>2 DEF Same
    <3>1. g[n + 1][c] = MeetIn(roots, pred, g[n], c)  BY <2>5
    <3>2. CASE c \in roots
      <4>1. g[n + 1][c] = g[n][c]  BY <3>1, <3>2 DEF MeetIn
      <4>2. c # d => c \in f[n] /\ c \in f[n + 1]  BY <2>7, <2>s, <3>2
      <4> QED  BY <3>0, <4>1, <4>2
    <3>3. CASE c \notin roots /\ pred[c] \cap A = {}
      <4>1. g[n + 1][c] = g[n][c]  BY <3>1, <3>3 DEF MeetIn, A
      <4>2. c \in f[n + 1] => c \in f[n]  BY <1>c2, <2>6, <2>s, <3>3
      <4> QED  BY <2>7, <3>0, <4>1, <4>2
    <3>4. CASE c \notin roots /\ pred[c] \cap A # {}
      <4>1. g[n + 1][c] = {c} \cup {x \in A : \A p \in pred[c] \cap A : x \in g[n][p]}
        BY <3>1, <3>4 DEF MeetIn, A
      <4>2. \A p \in pred[c] \cap A : d \in g[n][p] <=> p \notin f[n]
        BY <2>2, <2>s DEF Same
      <4>3. d \in g[n + 1][c] <=> c = d \/ \A p \in pred[c] \cap A : p \notin f[n]
        BY <4>1, <4>2 DEF A
      <4>4. ASSUME c # d, NEW p \in pred[c] \cap A, p \in f[n] PROVE c \in f[n + 1]
        BY <1>c1, <2>6, <4>4
      <4>5. ASSUME c \in f[n + 1] PROVE \E p \in pred[c] \cap A : p \in f[n]
        BY <1>c2, <2>6, <2>s, <3>4, <4>5
      <4>6. c = d => c \notin f[n + 1]  BY <2>6, <2>s
      <4> QED  BY <4>3, <4>4, <4>5, <4>6
    <3> QED  BY <3>2, <3>3, <3>4
  <2> QED  BY <2>8, <2>9 DEF Same
<1>3. T \in SUBSET Nat  OBVIOUS
<1>4. T = Nat
  <2> HIDE DEF T
  <2> QED  BY <1>1, <1>2, <1>3, AllNumbers
<1>5. Same(N)  BY <1>0, <1>4
<1> QED  BY <1>5 DEF N, A

\* A search along next that avoids d finds the blocks d is not kept for.
LEMMA AvoidingIs ==
    ASSUME Graph, NEW D, NEW roots \in SUBSET Blocks, NEW pred, NEW next \in Edges,
           Converse(D, roots, pred, next), NEW d \in Reachable, NEW b \in Reachable
    PROVE  d \in DomIterate(roots, pred)[b] <=> b = d \/ b \notin Closure(roots \ {d}, Without(next, d))
<1>1. roots \ {d} \in SUBSET Blocks /\ Without(next, d) \in Edges  BY DEF Edges, Without
<1>2. PICK f : Spreads(f, roots \ {d}, Without(next, d)) /\ Closure(roots \ {d}, Without(next, d)) = f[Rounds]
  BY <1>1, ClosureIs
<1>3. PICK g : Narrows(g, roots, pred) /\ DomIterate(roots, pred) = g[Rounds]  BY DomIterateIs
<1>4. d \in g[Rounds][b] <=> b = d \/ b \notin f[Rounds]  BY <1>2, <1>3, RoundsAgree
<1> QED  BY <1>2, <1>3, <1>4

\* Forwards from the entry the search stays among the reachable blocks; backwards
\* from the exits it may leave them, but comes to none of them from outside.
LEMMA BothDirections ==
    ASSUME Graph
    PROVE  /\ Converse(Reachable, {0}, preds, succ)
           /\ Converse(Blocks, Exits, succ, preds)
           /\ {0} \in SUBSET Blocks /\ Exits \in SUBSET Blocks /\ succ \in Edges /\ preds \in Edges
<1>1. Reachable \subseteq Blocks /\ 0 \in Reachable /\ \A b \in Reachable : succ[b] \subseteq Reachable
  BY ReachableIs
<1>2. succ \in Edges /\ preds \in Edges /\ {0} \in SUBSET Blocks /\ Exits \in SUBSET Blocks
  BY DEF Graph, Edges, preds, Exits
<1>3. \A b, p \in Blocks : p \in preds[b] <=> b \in succ[p]  BY DEF preds
<1>4. \A b \in Blocks : succ[b] \in SUBSET Blocks /\ preds[b] \in SUBSET Blocks  BY <1>2 DEF Edges
<1>5. Converse(Reachable, {0}, preds, succ)  BY <1>1, <1>3, <1>4 DEF Converse
<1>6. Converse(Blocks, Exits, succ, preds)  BY <1>1, <1>2, <1>3, <1>4 DEF Converse
<1> QED  BY <1>2, <1>5, <1>6

\* The dominators and the post-dominators of every flow graph.
LEMMA DominatorsFound ==
    ASSUME Graph
    PROVE  DominatorsCorrect
<1>1. ASSUME NEW b \in Reachable, NEW d \in Reachable
      PROVE  /\ d \in Dominators[b] <=> b = d \/ b \notin Closure({0} \ {d}, Without(succ, d))
             /\ d \in PostDominators[b] <=> b = d \/ b \notin Closure(Exits \ {d}, Without(preds, d))
  BY BothDirections, AvoidingIs DEF Dominators, PostDominators
<1>2. \A d : /\ Without(succ, d) = [b \in Blocks |-> succ[b] \ {d}]
             /\ Without(preds, d) = [b \in Blocks |-> preds[b] \ {d}]
  BY DEF Without
<1> QED  BY <1>1, <1>2 DEF DominatorsCorrect

-----------------------------------------------------------------------------
(* The flow graph along the pass and the execution *)

\* The function is one of the graphs, with its throws, and is never rewritten.
SuccInv == succ \in Cfgs /\ throws = Throws[succ]

\* A graph of the constants has its entry among its blocks, and no loose edge.
LEMMA SuccGraph ==
    ASSUME SuccInv
    PROVE  Graph
BY RegionAssumption DEF SuccInv, Graph, Edges, Blocks

\* Every step leaves the graph alone.
LEMMA SuccStep ==
    ASSUME SuccInv, [Next]_vars
    PROVE  SuccInv'
<1>1. CASE Analyse  BY <1>1 DEF Analyse, SuccInv
<1>2. ASSUME NEW a \in Allocs, EmitRegion(a) PROVE SuccInv'  BY <1>2 DEF EmitRegion, funVars, SuccInv
<1>3. ASSUME NEW s \in BOOLEAN, WrapFunction(s) PROVE SuccInv'  BY <1>3 DEF WrapFunction, funVars, SuccInv
<1>5. ASSUME NEW b \in Blocks, NEW p \in BOOLEAN, Goto(b, p) PROVE SuccInv'  BY <1>5 DEF Goto, ExecBlock, funVars, SuccInv
<1>6. ASSUME NEW b \in Blocks, NEW p \in BOOLEAN, Raise(b, p) PROVE SuccInv'  BY <1>6 DEF Raise, funVars, SuccInv
<1>7. CASE UNCHANGED vars  BY <1>7 DEF vars, funVars, SuccInv
<1> QED  BY <1>1, <1>2, <1>3, <1>5, <1>6, <1>7 DEF Next

\* compute_dominators and compute_post_dominators give, for every flow graph and
\* every pair of blocks the entry reaches, exactly the relation they are named
\* for: no path from the entry to b, or from b to a returning block, avoids d.
THEOREM DominatorsAreFound == Spec => []DominatorsCorrect
<1>1. Init => SuccInv  BY DEF Init, SuccInv
<1>2. SuccInv /\ [Next]_vars => SuccInv'  BY SuccStep
<1>3. SuccInv => DominatorsCorrect  BY SuccGraph, DominatorsFound
<1> QED  BY <1>1, <1>2, <1>3, PTL DEF Spec

-----------------------------------------------------------------------------
(* What was published is retired *)

\* The code and the stack of regions are sequences of names.
Names == Allocs \cup {Fn}
CodeTyped == starts \in [Blocks -> Seq(Names)] /\ ends \in [Blocks -> Seq(Names)]
StackTyped == stack \in Seq(Names) /\ watermark \in Nat

\* An open region that was published is below the watermark.
Below(s, pub, w) == \A j \in 1..Len(s) : s[j] \in pub => j <= w
PublishInv ==
    /\ CodeTyped /\ StackTyped
    /\ Below(stack, published, watermark)
    /\ PublishedIsRetired

\* After the starts of a block, and the publication if there is one, the
\* published regions are still below the watermark.
LEMMA StartsKeepBelow ==
    ASSUME NEW X, NEW s \in Seq(X), NEW t \in Seq(X), NEW w \in Nat, NEW pub, Below(s, pub, w), NEW poison \in BOOLEAN
    PROVE  Below(s \o t, (pub \ Range(t)) \cup IF poison THEN Range(s \o t) ELSE {},
                 IF poison THEN Len(s \o t) ELSE w)
<1>1. s \o t \in Seq(X) /\ Len(s) \in Nat /\ Len(t) \in Nat /\ Len(s \o t) = Len(s) + Len(t)  OBVIOUS
<1>2. CASE poison  BY <1>1, <1>2 DEF Below
<1>3. CASE ~poison
  <2>1. SUFFICES ASSUME NEW j \in 1..Len(s \o t), (s \o t)[j] \in pub \ Range(t) PROVE j <= w
    BY <1>3 DEF Below
  <2>2. j <= Len(s)
    <3>1. SUFFICES ASSUME j > Len(s) PROVE FALSE  BY <1>1
    <3>2. j - Len(s) \in 1..Len(t) /\ (s \o t)[j] = t[j - Len(s)]  BY <1>1, <3>1
    <3>3. DOMAIN t = 1..Len(t)  OBVIOUS
    <3>4. (s \o t)[j] \in Range(t)  BY <3>2, <3>3 DEF Range
    <3> QED  BY <2>1, <3>4
  <2>3. j \in 1..Len(s) /\ (s \o t)[j] = s[j]  BY <1>1, <2>2
  <2> QED  BY <2>1, <2>3 DEF Below
<1> QED  BY <1>2, <1>3

\* What RegionEnds close is not published, and what they leave stays below.
LEMMA EndsKeepBelow ==
    ASSUME NEW X, NEW o \in Seq(X), NEW pub, NEW w \in Nat, Below(o, pub, w), NEW keep \in 0..Len(o)
    PROVE  /\ pub \cap Doomed(o, keep, w) = {}
           /\ SubSeq(o, 1, keep) \in Seq(X)
           /\ Least(w, keep) \in Nat
           /\ Below(SubSeq(o, 1, keep), pub, Least(w, keep))
<1>1. pub \cap Doomed(o, keep, w) = {}
  <2>1. \A j \in (keep + 1)..Len(o) : j \in 1..Len(o)  OBVIOUS
  <2>2. \A j \in 1..Len(o) : j > w => ~ (j <= w)  OBVIOUS
  <2> QED  BY <2>1, <2>2 DEF Below, Doomed
<1>2. /\ SubSeq(o, 1, keep) \in Seq(X) /\ Len(SubSeq(o, 1, keep)) = keep
      /\ \A j \in 1..keep : SubSeq(o, 1, keep)[j] = o[j]
  OBVIOUS
<1>3. Least(w, keep) \in Nat /\ \A j \in 1..keep : j <= w => j <= Least(w, keep)  BY DEF Least
<1>4. \A j \in 1..keep : j \in 1..Len(o)  OBVIOUS
<1> QED  BY <1>1, <1>2, <1>3, <1>4 DEF Below

\* Of one region at most, the unwinding frees none that was published.
LEMMA UnwindKeeps ==
    ASSUME NEW X, NEW o \in Seq(X), NEW pub, NEW w \in Nat, Below(o, pub, w), ~ (Len(o) > 1)
    PROVE  pub \cap UnwindFreed(o, w) = {}
<1>1. \A j \in 1..Len(o) : (Len(o) - j) + 1 > w => ~ (j <= w)  OBVIOUS
<1> QED  BY <1>1 DEF Below, UnwindFreed

\* Inserting a region leaves the code typed.
LEMMA InsertTyped ==
    ASSUME CodeTyped, NEW r \in Names, NEW s, NEW E, Insert(r, s, E), succ' = succ
    PROVE  CodeTyped'
<1>1. starts' \in [Blocks -> Seq(Names)]
  <2>1. \A b \in Blocks : <<r>> \o starts[b] \in Seq(Names)  BY DEF CodeTyped
  <2> QED  BY <2>1 DEF CodeTyped, Insert
<1>2. ends' \in [Blocks -> Seq(Names)]
  <2>1. \A b \in Blocks : Append(ends[b], r) \in Seq(Names) /\ ends[b] \in Seq(Names)  BY DEF CodeTyped
  <2> QED  BY <2>1 DEF Insert
<1> QED  BY <1>1, <1>2 DEF CodeTyped, Blocks, Names

\* Executing a block to its end.
LEMMA ExecKeeps ==
    ASSUME PublishInv, NEW b \in Blocks, NEW poison \in BOOLEAN, ExecBlock(b, poison)
    PROVE  PublishInv'
<1> DEFINE o == Opened(b)
           n == Least(Len(ends[b]), Len(o))
           keep == Len(o) - n
           w == IF poison THEN Len(o) ELSE watermark
           pub == (published \ Range(starts[b])) \cup IF poison THEN Range(o) ELSE {}
<1>1. stack \in Seq(Names) /\ starts[b] \in Seq(Names) /\ ends[b] \in Seq(Names) /\ watermark \in Nat
  BY DEF PublishInv, CodeTyped, StackTyped
<1>2. o = stack \o starts[b] /\ o \in Seq(Names)  BY <1>1 DEF Opened
<1>3. Below(o, pub, w)
  <2>1. Below(stack, published, watermark)  BY DEF PublishInv
  <2> QED  BY <1>1, <1>2, <2>1, StartsKeepBelow
<1>4. Len(o) \in Nat /\ Len(ends[b]) \in Nat /\ w \in Nat  BY <1>1, <1>2
<1> HIDE DEF o
<1>5. keep \in 0..Len(o)  BY <1>4 DEF Least
<1>6. /\ lost' = lost \cup (pub \cap Doomed(o, keep, w)) /\ crossed' = (crossed \/ Popped(o, n) # ends[b])
      /\ stack' = SubSeq(o, 1, keep) /\ watermark' = Least(w, keep) /\ published' = pub
      /\ succ' = succ /\ starts' = starts /\ ends' = ends
  BY DEF ExecBlock, o, funVars, codeVars
<1> HIDE DEF keep, w, pub
<1>7. /\ pub \cap Doomed(o, keep, w) = {} /\ SubSeq(o, 1, keep) \in Seq(Names) /\ Least(w, keep) \in Nat
      /\ Below(SubSeq(o, 1, keep), pub, Least(w, keep))
  BY <1>2, <1>3, <1>4, <1>5, EndsKeepBelow
<1>8. CodeTyped' /\ StackTyped'  BY <1>6, <1>7 DEF PublishInv, CodeTyped, StackTyped, Blocks, Names
<1>9. Below(stack, published, watermark)'
  <2>1. Below(stack', published', watermark')  BY <1>6, <1>7
  <2> QED  BY <2>1 DEF Below
<1>10. PublishedIsRetired'
  <2>1. lost' = lost /\ (crossed => crossed')  BY <1>6, <1>7
  <2> QED  BY <2>1 DEF PublishInv, PublishedIsRetired
<1> QED  BY <1>8, <1>9, <1>10 DEF PublishInv

\* Leaving a block by an error.
LEMMA RaiseKeeps ==
    ASSUME PublishInv, NEW b \in Blocks, NEW poison \in BOOLEAN, Raise(b, poison)
    PROVE  PublishInv'
<1> DEFINE o == Opened(b)
           w == IF poison THEN Len(o) ELSE watermark
           pub == (published \ Range(starts[b])) \cup IF poison THEN Range(o) ELSE {}
<1>1. stack \in Seq(Names) /\ starts[b] \in Seq(Names) /\ watermark \in Nat
  BY DEF PublishInv, CodeTyped, StackTyped
<1>2. o = stack \o starts[b] /\ o \in Seq(Names)  BY <1>1 DEF Opened
<1>3. Below(o, pub, w)
  <2>1. Below(stack, published, watermark)  BY DEF PublishInv
  <2> QED  BY <1>1, <1>2, <2>1, StartsKeepBelow
<1>4. Len(o) \in Nat /\ w \in Nat  BY <1>1, <1>2
<1>6. /\ lost' = lost \cup (pub \cap UnwindFreed(o, w)) /\ crossed' = (crossed \/ Len(o) > 1)
      /\ stack' = <<>> /\ watermark' = 0
      /\ succ' = succ /\ starts' = starts /\ ends' = ends
  BY DEF Raise, funVars, codeVars
<1> HIDE DEF o, w, pub
<1>8. CodeTyped' /\ StackTyped'  BY <1>6 DEF PublishInv, CodeTyped, StackTyped, Blocks, Names
<1>9. Below(stack, published, watermark)'  BY <1>6 DEF Below
<1>10. PublishedIsRetired'
  <2>1. ASSUME ~crossed' PROVE lost' = {}
    <3>1. ~crossed /\ ~ (Len(o) > 1)  BY <1>6, <2>1
    <3>2. pub \cap UnwindFreed(o, w) = {}  BY <1>2, <1>3, <1>4, <3>1, UnwindKeeps
    <3>3. lost = {}  BY <3>1 DEF PublishInv, PublishedIsRetired
    <3> QED  BY <1>6, <3>2, <3>3
  <2> QED  BY <2>1 DEF PublishedIsRetired
<1> QED  BY <1>8, <1>9, <1>10 DEF PublishInv

\* A step that leaves the execution alone.
LEMMA PassKeeps ==
    ASSUME PublishInv, CodeTyped', UNCHANGED <<stack, watermark, published, crossed, lost>>
    PROVE  PublishInv'
BY DEF PublishInv, StackTyped, Below, PublishedIsRetired, Names

\* The invariant holds at the start, and every step keeps it.
LEMMA PublishInit ==
    ASSUME Init
    PROVE  SuccInv /\ PublishInv
<1>2. SuccInv /\ CodeTyped  BY DEF Init, SuccInv, CodeTyped
<1>3. StackTyped /\ Below(stack, published, watermark) /\ PublishedIsRetired
  BY DEF Init, StackTyped, Below, PublishedIsRetired
<1> QED  BY <1>2, <1>3 DEF PublishInv

LEMMA PublishStep ==
    ASSUME SuccInv, PublishInv, [Next]_vars
    PROVE  SuccInv' /\ PublishInv'
<1>0. SuccInv' /\ CodeTyped   BY SuccStep DEF PublishInv
<1>1. CASE Analyse
  <2>1. CodeTyped' /\ UNCHANGED <<stack, watermark, published, crossed, lost>>
    BY <1>0, <1>1 DEF Analyse, codeVars, CodeTyped, Blocks, Names
  <2> QED  BY <1>0, <2>1, PassKeeps
<1>2. ASSUME NEW a \in Allocs, EmitRegion(a) PROVE PublishInv'
  <2>1. UNCHANGED <<stack, watermark, published, crossed, lost>> /\ succ' = succ  BY <1>2 DEF EmitRegion, funVars
  <2>2. CodeTyped'
    <3>1. CASE UNCHANGED <<scoped, starts, ends>>  BY <1>0, <2>1, <3>1 DEF CodeTyped, Blocks, Names
    <3>2. ASSUME NEW x, NEW y, Insert(a, x, {y}) PROVE CodeTyped'
      BY <1>0, <2>1, <3>2, InsertTyped DEF Names
    <3> QED  BY <1>2, <3>1, <3>2 DEF EmitRegion
  <2> QED  BY <2>1, <2>2, PassKeeps
<1>3. ASSUME NEW s \in BOOLEAN, WrapFunction(s) PROVE PublishInv'
  <2>1. UNCHANGED <<stack, watermark, published, crossed, lost>> /\ succ' = succ  BY <1>3 DEF WrapFunction, funVars
  <2>2. CodeTyped'
    <3>1. CASE UNCHANGED <<starts, ends>>  BY <1>0, <2>1, <3>1 DEF CodeTyped, Blocks, Names
    <3>2. CASE Insert(Fn, 0, Exits \ throws)  BY <1>0, <2>1, <3>2, InsertTyped DEF Names
    <3> QED  BY <1>3, <3>1, <3>2 DEF WrapFunction
  <2> QED  BY <2>1, <2>2, PassKeeps
<1>5. ASSUME NEW b \in Blocks, NEW p \in BOOLEAN, Goto(b, p) PROVE PublishInv'  BY <1>5, ExecKeeps DEF Goto
<1>6. ASSUME NEW b \in Blocks, NEW p \in BOOLEAN, Raise(b, p) PROVE PublishInv'  BY <1>6, RaiseKeeps
<1>7. CASE UNCHANGED vars
  <2>1. CodeTyped' /\ UNCHANGED <<stack, watermark, published, crossed, lost>>
    BY <1>0, <1>7 DEF vars, funVars, codeVars, CodeTyped, Blocks, Names
  <2> QED  BY <1>0, <2>1, PassKeeps
<1> QED  BY <1>0, <1>1, <1>2, <1>3, <1>5, <1>6, <1>7 DEF Next

\* A region that was open when a value of unknown type was published (the
\* publish barrier) is retired and not freed, whatever graph, scopes and path,
\* unless regions were not closed innermost first.
THEOREM PublishedAreRetired == Spec => []PublishedIsRetired
<1>1. Init => SuccInv /\ PublishInv  BY PublishInit
<1>2. SuccInv /\ PublishInv /\ [Next]_vars => SuccInv' /\ PublishInv'  BY PublishStep
<1>3. PublishInv => PublishedIsRetired  BY DEF PublishInv
<1> QED  BY <1>1, <1>2, <1>3, PTL DEF Spec

-----------------------------------------------------------------------------
(* Dominance is an order *)

\* A closed set has, with a block, all that next leads to.
Closed(Z, next) == \A b \in Z : next[b] \subseteq Z

\* Closure is closed, and the least set that is.
LEMMA ClosureClosed ==
    ASSUME Graph, NEW S \in SUBSET Blocks, NEW next \in Edges
    PROVE  Closure(S, next) \in SUBSET Blocks /\ S \subseteq Closure(S, next) /\ Closed(Closure(S, next), next)
<1>1. PICK f : Spreads(f, S, next) /\ Closure(S, next) = f[Rounds]  BY ClosureIs
<1>2. /\ f[Rounds] \in SUBSET Blocks /\ S \subseteq f[Rounds]
      /\ \A b \in f[Rounds] : next[b] \subseteq f[Rounds]
  BY <1>1, SpreadStops
<1> QED  BY <1>1, <1>2 DEF Closed
LEMMA ClosureLeast ==
    ASSUME Graph, NEW S \in SUBSET Blocks, NEW next \in Edges, NEW Z, S \subseteq Z, Closed(Z, next)
    PROVE  Closure(S, next) \subseteq Z
<1>1. PICK f : Spreads(f, S, next) /\ Closure(S, next) = f[Rounds]  BY ClosureIs
<1>0. Rounds \in Nat  BY FS_CardinalityType DEF Graph, Rounds
<1>2. f[0] = S /\ \A n \in 1..Rounds : f[n] = f[n - 1] \cup UNION {next[b] : b \in f[n - 1]}  BY <1>1 DEF Spreads
<1> DEFINE T == {n \in Nat : n <= Rounds => f[n] \subseteq Z}
<1>3. 0 \in T  BY <1>2
<1>4. ASSUME NEW n \in T PROVE n + 1 \in T
  <2>1. SUFFICES ASSUME n + 1 <= Rounds PROVE f[n + 1] \subseteq Z  OBVIOUS
  <2>2. n + 1 \in 1..Rounds /\ (n + 1) - 1 = n /\ f[n] \subseteq Z  BY <1>0, <2>1
  <2>3. f[n + 1] = f[n] \cup UNION {next[b] : b \in f[n]}  BY <1>2, <2>2
  <2> QED  BY <2>2, <2>3 DEF Closed
<1>5. T \in SUBSET Nat  OBVIOUS
<1>6. T = Nat
  <2> HIDE DEF T
  <2> QED  BY <1>3, <1>4, <1>5, AllNumbers
<1>7. f[Rounds] \subseteq Z  BY <1>0, <1>6
<1> QED  BY <1>1, <1>7

\* What is reached from the entry without d, and what reaches an exit without d.
Avoid(d) == Closure({0} \ {d}, Without(succ, d))
Escape(d) == Closure(Exits \ {d}, Without(preds, d))
LEMMA AvoidIs ==
    ASSUME Graph, NEW d
    PROVE  /\ Avoid(d) \in SUBSET Blocks /\ d \notin Avoid(d) /\ (d # 0 => 0 \in Avoid(d))
           /\ \A c \in Avoid(d) : \A t \in succ[c] : t # d => t \in Avoid(d)
           /\ \A Z : (0 # d => 0 \in Z) /\ (\A c \in Z \cap Blocks : \A t \in succ[c] : t # d => t \in Z) => Avoid(d) \subseteq Z
<1>1. {0} \ {d} \in SUBSET Blocks /\ Without(succ, d) \in Edges
  BY DEF Graph, Edges, Without
<1>2. \A c \in Blocks : Without(succ, d)[c] = succ[c] \ {d}  BY DEF Without
<1>3. Avoid(d) \in SUBSET Blocks /\ {0} \ {d} \subseteq Avoid(d) /\ Closed(Avoid(d), Without(succ, d))
  BY <1>1, ClosureClosed DEF Avoid
<1>4. ASSUME NEW Z, 0 # d => 0 \in Z, \A c \in Z \cap Blocks : \A t \in succ[c] : t # d => t \in Z
      PROVE  Avoid(d) \subseteq Z
  <2>1. {0} \ {d} \subseteq Z \cap Blocks  BY <1>1, <1>4
  <2>2. Closed(Z \cap Blocks, Without(succ, d))  BY <1>2, <1>4 DEF Closed, Graph, Edges
  <2>3. Avoid(d) \subseteq Z \cap Blocks  BY <1>1, <2>1, <2>2, ClosureLeast DEF Avoid
  <2> QED  BY <2>3
<1>5. Avoid(d) \subseteq Blocks \ {d}
  <2>1. {0} \ {d} \subseteq Blocks \ {d}  BY <1>1
  <2>2. Closed(Blocks \ {d}, Without(succ, d))  BY <1>2 DEF Closed, Graph, Edges
  <2> QED  BY <1>1, <2>1, <2>2, ClosureLeast DEF Avoid
<1>6. \A c \in Avoid(d) : \A t \in succ[c] : t # d => t \in Avoid(d)  BY <1>2, <1>3 DEF Closed
<1>7. d \notin Avoid(d)  BY <1>5
<1> QED  BY <1>3, <1>4, <1>6, <1>7
LEMMA EscapeIs ==
    ASSUME Graph, NEW d
    PROVE  /\ Escape(d) \in SUBSET Blocks /\ Exits \ {d} \subseteq Escape(d)
           /\ \A k \in Blocks : \A t \in succ[k] : t \in Escape(d) /\ k # d => k \in Escape(d)
<1>1. Exits \ {d} \in SUBSET Blocks /\ Without(preds, d) \in Edges
  BY DEF Graph, Edges, Without, preds, Exits
<1>2. \A c \in Blocks : Without(preds, d)[c] = {p \in Blocks : c \in succ[p]} \ {d}  BY DEF Without, preds
<1>3. Escape(d) \in SUBSET Blocks /\ Exits \ {d} \subseteq Escape(d) /\ Closed(Escape(d), Without(preds, d))
  BY <1>1, ClosureClosed DEF Escape
<1>4. \A k \in Blocks : \A t \in succ[k] : t \in Escape(d) /\ k # d => k \in Escape(d)
  BY <1>2, <1>3 DEF Closed
<1> QED  BY <1>3, <1>4

\* The iterations map reachable blocks to sets of them.
LEMMA NarrowsTyped ==
    ASSUME Graph, NEW roots, NEW pred
    PROVE  DomIterate(roots, pred) \in [Reachable -> SUBSET Reachable]
<1>1. PICK g : Narrows(g, roots, pred) /\ DomIterate(roots, pred) = g[Rounds]  BY DomIterateIs
<1>0. Rounds \in Nat  BY FS_CardinalityType DEF Graph, Rounds
<1>2. /\ g[0] = [b \in Reachable |-> IF b \in roots THEN {b} ELSE Reachable]
      /\ \A n \in 1..Rounds : g[n] = [b \in Reachable |-> MeetIn(roots, pred, g[n - 1], b)]
  BY <1>1 DEF Narrows
<1> DEFINE X == [Reachable -> SUBSET Reachable]
           T == {n \in Nat : n <= Rounds => g[n] \in X}
<1>3. 0 \in T  BY <1>2
<1>4. ASSUME NEW n \in T PROVE n + 1 \in T
  <2>1. SUFFICES ASSUME n + 1 <= Rounds PROVE g[n + 1] \in X  OBVIOUS
  <2>2. n + 1 \in 1..Rounds /\ (n + 1) - 1 = n /\ g[n] \in X  BY <1>0, <2>1
  <2>3. g[n + 1] = [b \in Reachable |-> MeetIn(roots, pred, g[n], b)]  BY <1>2, <2>2
  <2>4. \A b \in Reachable : MeetIn(roots, pred, g[n], b) \in SUBSET Reachable  BY <2>2 DEF MeetIn
  <2> QED  BY <2>3, <2>4
<1>5. T \in SUBSET Nat  OBVIOUS
<1>6. T = Nat
  <2> HIDE DEF T
  <2> QED  BY <1>3, <1>4, <1>5, AllNumbers
<1>7. g[Rounds] \in X  BY <1>0, <1>6
<1> QED  BY <1>1, <1>7

\* What it means to be a dominator and a post-dominator.
LEMMA DominatorsMean ==
    ASSUME Graph
    PROVE  /\ Dominators \in [Reachable -> SUBSET Reachable]
           /\ PostDominators \in [Reachable -> SUBSET Reachable]
           /\ \A b, d \in Reachable : /\ d \in Dominators[b] <=> b = d \/ b \notin Avoid(d)
                                      /\ d \in PostDominators[b] <=> b = d \/ b \notin Escape(d)
<1>1. ASSUME NEW b \in Reachable, NEW d \in Reachable
      PROVE  /\ d \in Dominators[b] <=> b = d \/ b \notin Avoid(d)
             /\ d \in PostDominators[b] <=> b = d \/ b \notin Escape(d)
  BY BothDirections, AvoidingIs DEF Dominators, PostDominators, Avoid, Escape
<1>2. Dominators \in [Reachable -> SUBSET Reachable] /\ PostDominators \in [Reachable -> SUBSET Reachable]
  BY NarrowsTyped DEF Dominators, PostDominators
<1> QED  BY <1>1, <1>2

\* The entry reaches every block of Reachable.
LEMMA ReachableLeast ==
    ASSUME Graph, NEW Z, 0 \in Z, \A c \in Z \cap Blocks : succ[c] \subseteq Z
    PROVE  Reachable \subseteq Z
<1>1. {0} \in SUBSET Blocks /\ succ \in Edges /\ {0} \subseteq Z \cap Blocks  BY DEF Graph
<1>2. Closed(Z \cap Blocks, succ)  BY DEF Closed, Graph, Edges
<1>3. Reachable \subseteq Z \cap Blocks  BY <1>1, <1>2, ClosureLeast DEF Reachable
<1> QED  BY <1>3

\* Dominance is transitive and antisymmetric.
LEMMA DominanceOrder ==
    ASSUME Graph, NEW x \in Reachable, NEW s \in Reachable, NEW b \in Reachable
    PROVE  /\ x \in Dominators[s] /\ s \in Dominators[b] => x \in Dominators[b]
           /\ s \in Dominators[b] /\ b \in Dominators[s] => s = b
<1>1. ASSUME x \in Dominators[s], s \in Dominators[b] PROVE x \in Dominators[b]
  <2>1. (s = x \/ s \notin Avoid(x)) /\ (b = s \/ b \notin Avoid(s))  BY <1>1, DominatorsMean
  <2>2. CASE s = x \/ b = s  BY <1>1, <2>2
  <2>3. CASE s # x /\ s \notin Avoid(x) /\ b \notin Avoid(s)
    <3>1. /\ x # 0 => 0 \in Avoid(x) /\ 0 # s
          /\ s # 0 => 0 \in Avoid(s)
      BY <2>3, AvoidIs
    <3>2. /\ 0 # x => 0 \in Avoid(x) \cap Avoid(s)
          /\ \A c \in (Avoid(x) \cap Avoid(s)) \cap Blocks : \A t \in succ[c] : t # x => t \in Avoid(x) \cap Avoid(s)
      BY <2>3, <3>1, AvoidIs
    <3>3. Avoid(x) \subseteq Avoid(x) \cap Avoid(s)
      <4> DEFINE Z == Avoid(x) \cap Avoid(s)
      <4>1. (0 # x => 0 \in Z) /\ \A c \in Z \cap Blocks : \A t \in succ[c] : t # x => t \in Z  BY <3>2
      <4> HIDE DEF Z
      <4>2. Avoid(x) \subseteq Z  BY <4>1, AvoidIs
      <4> QED  BY <4>2 DEF Z
    <3>4. b \notin Avoid(x)  BY <2>3, <3>3
    <3> QED  BY <3>4, DominatorsMean
  <2> QED  BY <2>1, <2>2, <2>3
<1>2. ASSUME s \in Dominators[b], b \in Dominators[s], s # b PROVE FALSE
  <2>1. b \notin Avoid(s) /\ s \notin Avoid(b)  BY <1>2, DominatorsMean
  <2>2. 0 # s /\ 0 # b  BY <1>2, <2>1, AvoidIs
  <2>3. 0 \in Avoid(s) \cap Avoid(b)  BY <2>2, AvoidIs
  <2>4. \A c \in (Avoid(s) \cap Avoid(b)) \cap Blocks : succ[c] \subseteq Avoid(s) \cap Avoid(b)
    BY <1>2, <2>1, AvoidIs
  <2>5. Reachable \subseteq Avoid(s) \cap Avoid(b)  BY <2>3, <2>4, ReachableLeast
  <2> QED  BY <2>5, AvoidIs
<1> QED  BY <1>1, <1>2

\* Of two dominators of a block one dominates the other; a dominator of a block
\* dominates the block before or is the block; and a block that another does not
\* dominate is reached from one that it does not dominate.
LEMMA DominatorsAreAChain ==
    ASSUME Graph, NEW x \in Reachable, NEW y \in Reachable, NEW b \in Reachable,
           x \in Dominators[b], y \in Dominators[b]
    PROVE  x \in Dominators[y] \/ y \in Dominators[x]
<1>1. SUFFICES ASSUME x \notin Dominators[y], y \notin Dominators[x] PROVE FALSE  OBVIOUS
<1>2. x # y /\ y \in Avoid(x) /\ x \in Avoid(y)  BY <1>1, DominatorsMean
<1> DEFINE Z == Avoid(x) \cup Avoid(y)
<1>3. 0 \in Z  BY <1>2, AvoidIs
<1>4. \A c \in Z \cap Blocks : succ[c] \subseteq Z
  <2>1. \A c \in Avoid(x) : \A t \in succ[c] : t # x => t \in Avoid(x)  BY AvoidIs
  <2>2. \A c \in Avoid(y) : \A t \in succ[c] : t # y => t \in Avoid(y)  BY AvoidIs
  <2> QED  BY <1>2, <2>1, <2>2
<1>5. b \in Z  BY <1>3, <1>4, ReachableLeast
<1>6. b \notin Avoid(x) /\ b \notin Avoid(y)  BY DominatorsMean, AvoidIs
<1> QED  BY <1>5, <1>6

LEMMA DominatorsStep ==
    ASSUME Graph, NEW b \in Reachable, NEW t \in succ[b], NEW x \in Reachable, x \in Dominators[t], x # t
    PROVE  x \in Dominators[b]
<1>1. t \in Reachable  BY ReachableIs
<1>2. t \notin Avoid(x)  BY <1>1, DominatorsMean
<1>3. b \notin Avoid(x)  BY <1>2, AvoidIs
<1> QED  BY <1>3, DominatorsMean

LEMMA ReachedFrom ==
    ASSUME Graph, NEW j \in Reachable, j # 0, NEW x \in Reachable, x \notin Dominators[j]
    PROVE  \E q \in Reachable : j \in succ[q] /\ x \notin Dominators[q]
<1>1. j # x /\ j \in Avoid(x)  BY DominatorsMean
<1>2. PICK q \in Avoid(x) : j \in succ[q]
  <2>1. SUFFICES ASSUME \A q \in Avoid(x) : j \notin succ[q] PROVE FALSE  OBVIOUS
  <2> DEFINE Z == Avoid(x) \ {j}
  <2>2. 0 # x => 0 \in Z  BY AvoidIs
  <2>3. \A c \in Z \cap Blocks : \A t \in succ[c] : t # x => t \in Z
    <3>1. \A c \in Avoid(x) : \A t \in succ[c] : t # x => t \in Avoid(x)  BY AvoidIs
    <3> QED  BY <2>1, <3>1
  <2> HIDE DEF Z
  <2>4. Avoid(x) \subseteq Z  BY <2>2, <2>3, AvoidIs
  <2> QED  BY <1>1, <2>4 DEF Z
<1>3. Avoid(x) \subseteq Reachable
  <2> DEFINE Z == Avoid(x) \cap Reachable
  <2>2. 0 # x => 0 \in Z  BY AvoidIs, ReachableIs
  <2>3. \A c \in Z \cap Blocks : \A t \in succ[c] : t # x => t \in Z
    <3>1. \A c \in Avoid(x) : \A t \in succ[c] : t # x => t \in Avoid(x)  BY AvoidIs
    <3> QED  BY <3>1, ReachableIs
  <2> HIDE DEF Z
  <2>4. Avoid(x) \subseteq Z  BY <2>2, <2>3, AvoidIs
  <2> QED  BY <2>4 DEF Z
<1>4. q \in Reachable /\ q # x  BY <1>2, <1>3, AvoidIs
<1> QED  BY <1>2, <1>4, DominatorsMean

\* To dominate a block is to be on every path to it.
LEMMA OnPathDominates ==
    ASSUME Graph, NEW b \in Reachable, NEW t \in Reachable, OnEveryPath(succ, t, b)
    PROVE  t \in Dominators[b]
<1>1. PICK Z \in SUBSET Blocks : /\ 0 \in Z \cup {t} /\ t \notin Z /\ b \notin Z
                                 /\ \A x \in Z : succ[x] \subseteq Z \cup {t}
  BY DEF OnEveryPath, Blocks
<1>2. Avoid(t) \subseteq Z
  <2>1. (0 # t => 0 \in Z) /\ \A c \in Z \cap Blocks : \A x \in succ[c] : x # t => x \in Z  BY <1>1
  <2> QED  BY <2>1, AvoidIs
<1> QED  BY <1>1, <1>2, DominatorsMean
LEMMA DominatesOnPath ==
    ASSUME Graph, NEW b \in Reachable, NEW t \in Reachable, t \in Dominators[b]
    PROVE  OnEveryPath(succ, t, b)
<1>1. b = t \/ b \notin Avoid(t)  BY DominatorsMean
<1> DEFINE Z == Avoid(t)
<1>2. /\ Z \in SUBSET Blocks /\ t \notin Z /\ (t # 0 => 0 \in Z)
      /\ \A c \in Z : \A x \in succ[c] : x # t => x \in Z
  BY AvoidIs
<1> HIDE DEF Z
<1>3. 0 \in Z \cup {t} /\ b \notin Z /\ \A x \in Z : succ[x] \subseteq Z \cup {t}  BY <1>1, <1>2 DEF Z
<1> QED  BY <1>2, <1>3 DEF OnEveryPath, Blocks
LEMMA OnPathReached ==
    ASSUME Graph, NEW b \in Reachable, NEW t, OnEveryPath(succ, t, b)
    PROVE  t \in Reachable
<1>1. SUFFICES ASSUME t \notin Reachable PROVE FALSE  OBVIOUS
<1>2. PICK Z \in SUBSET Blocks : /\ 0 \in Z \cup {t} /\ t \notin Z /\ b \notin Z
                                 /\ \A x \in Z : succ[x] \subseteq Z \cup {t}
  BY DEF OnEveryPath, Blocks
<1> DEFINE Y == Z \cap Reachable
<1>3. 0 \in Y /\ \A c \in Y \cap Blocks : succ[c] \subseteq Y  BY <1>1, <1>2, ReachableIs
<1> HIDE DEF Y
<1>4. Reachable \subseteq Y  BY <1>3, ReachableLeast
<1> QED  BY <1>2, <1>4 DEF Y

-----------------------------------------------------------------------------
(* A scope is left only through its end *)

\* What the pass knows of the function once it is analysed, in terms of the
\* tables: dom is an order of the reachable blocks, a chain above each; from a
\* block that d post-dominates no exit is reached without d; edges lead forward or
\* to a dominator; what leaves the last dominator of a join comes to the join; and
\* an allocation, or a phi it flows through, dominates each use.
TablesInv ==
    /\ DOMAIN dom \subseteq Blocks /\ DOMAIN pdom = DOMAIN dom
    /\ 0 \in DOMAIN dom /\ dom[0] = {0}
    /\ \A b \in DOMAIN dom : /\ succ[b] \subseteq DOMAIN dom
                             /\ dom[b] \subseteq DOMAIN dom /\ IsFiniteSet(dom[b]) /\ b \in dom[b]
                             /\ pdom[b] \subseteq DOMAIN dom
OrderInv ==
    /\ \A x, s, b \in DOMAIN dom : /\ x \in dom[s] /\ s \in dom[b] => x \in dom[b]
                                   /\ s \in dom[b] /\ b \in dom[s] => s = b
    /\ \A x, y, b \in DOMAIN dom : x \in dom[b] /\ y \in dom[b] => x \in dom[y] \/ y \in dom[x]
EdgesInv ==
    /\ \A b, x \in DOMAIN dom : \A t \in succ[b] : x \in dom[t] => x = t \/ x \in dom[b]
    /\ \A j, x \in DOMAIN dom :
           j # 0 /\ x \notin dom[j] => \E q \in DOMAIN dom : j \in succ[q] /\ x \notin dom[q]
    /\ \A b \in DOMAIN dom : 0 \notin succ[b]
LeavesBy(T, d) ==
    /\ Exits \ {d} \subseteq T
    /\ \A k \in Blocks : \A t \in succ[k] : t \in T /\ k # d => k \in T
    /\ \A b \in DOMAIN dom : d \in pdom[b] => b = d \/ b \notin T
LeaveInv == \A d \in DOMAIN dom : \E T : LeavesBy(T, d)
ForwardInv ==
    \E rank \in [Blocks -> 0..Rounds] : \A b \in DOMAIN dom : \A t \in succ[b] : rank[b] < rank[t] \/ t \in dom[b]
LeadTo(Z, J) ==
    \A x \in Z \cap DOMAIN dom : /\ succ[x] = {} => x \in throws
                                 /\ \A t \in succ[x] : t \in Z \/ t \in J \/ t \in dom[x]
JoinInv ==
    \A s, j, p, q \in DOMAIN dom :
        /\ p # q /\ j \in succ[p] /\ j \in succ[q]
        /\ s \in dom[j] /\ s # j /\ \A d \in dom[j] : d = j \/ d \in dom[s]
        => \E Z : s \in Z /\ LeadTo(Z, {j})
PlacedAt(a) ==
    /\ at[a] \in DOMAIN dom /\ uses[a] \subseteq DOMAIN dom
    /\ \A f \in flow[a] :
           /\ f[1] \in DOMAIN dom /\ f[2] \in succ[f[1]] /\ f[2] \in uses[a]
           /\ f[2] \in dom[f[1]] => f[1] \in uses[a]
           /\ at[a] \in dom[f[1]] \/ \E g \in flow[a] : at[a] \in dom[g[1]] /\ g[2] \in dom[f[1]]
    /\ \A u \in uses[a] : at[a] \in dom[u] \/ \E f \in flow[a] : f[2] \in dom[u]
PlacesInv == \A a \in Allocs : PlacedAt(a)
Analysed == TablesInv /\ OrderInv /\ EdgesInv /\ LeaveInv /\ ForwardInv /\ JoinInv /\ PlacesInv

\* The blocks a scope must cover.
Relevant(a) == uses[a] \cup {at[a]}

\* The blocks at whose end the region opened in s and closed in E may be open.
Stays(K, s, E) ==
    /\ K \in SUBSET Blocks /\ s \in K \cup E
    /\ \A b \in K : \A t \in succ[b] : t \in K \cup E /\ t # s
    /\ K \cap Exits \subseteq throws

\* From wherever in K, its end is still to come.
Moves(K) == \A X \in SUBSET K : X # {} => \E b \in X : \E t \in succ[b] : t \notin X

\* Of sets of bounded size one has the most elements.
LEMMA MostExists ==
    ASSUME NEW S, S # {}, NEW c \in [S -> Nat], NEW m \in Nat, \A y \in S : c[y] <= m
    PROVE  \E x \in S : \A y \in S : c[y] <= c[x]
<1> DEFINE T == {n \in Nat : \A y \in S : c[y] <= n}
<1>1. m \in T /\ T \in SUBSET Nat  OBVIOUS
<1> HIDE DEF T
<1>2. PICK n \in T : \A k \in T : n <= k  BY <1>1, LeastNumber
<1>3. n \in Nat /\ \A y \in S : c[y] <= n  BY DEF T
<1>4. \E x \in S : c[x] = n
  <2>1. SUFFICES ASSUME \A x \in S : c[x] # n PROVE FALSE  OBVIOUS
  <2>2. \A x \in S : c[x] \in Nat /\ c[x] <= n - 1  BY <1>3, <2>1
  <2>3. n - 1 \in Nat  BY <1>3, <2>2
  <2>4. n - 1 \in T  BY <2>2, <2>3 DEF T
  <2> QED  BY <1>2, <1>3, <2>3, <2>4
<1> QED  BY <1>3, <1>4

\* Of some blocks one has the most dominators, and Deepest finds one.
LEMMA DeepestIn ==
    ASSUME Graph, NEW ds, NEW S, S # {}, \A y \in S : ds[y] \in SUBSET Blocks
    PROVE  /\ Deepest(ds, S) \in S
           /\ \A y \in S : Cardinality(ds[y]) <= Cardinality(ds[Deepest(ds, S)])
<1> DEFINE D(x) == \A y \in S : Cardinality(ds[y]) <= Cardinality(ds[x])
           c == [y \in S |-> Cardinality(ds[y])]
<1>1. \A y \in S : IsFiniteSet(ds[y]) /\ Cardinality(ds[y]) <= Cardinality(Blocks)  BY FS_Subset DEF Graph
<1>2. Cardinality(Blocks) \in Nat /\ \A y \in S : Cardinality(ds[y]) \in Nat  BY <1>1, FS_CardinalityType DEF Graph
<1>3. c \in [S -> Nat] /\ \A y \in S : c[y] = Cardinality(ds[y]) /\ c[y] <= Cardinality(Blocks)  BY <1>1, <1>2
<1> HIDE DEF c
<1>4. PICK x \in S : \A y \in S : c[y] <= c[x]  BY <1>2, <1>3, MostExists
<1>5. \E x1 \in S : D(x1)  BY <1>3, <1>4
<1>6. Deepest(ds, S) = CHOOSE x1 \in S : D(x1)  BY DEF Deepest
<1> HIDE DEF D
<1>7. Deepest(ds, S) \in S /\ D(Deepest(ds, S))  BY <1>5, <1>6
<1> QED  BY <1>7 DEF D

\* The start of a scope is the last common dominator of what the scope must cover,
\* its end post-dominates them, and nothing on the way goes back or throws.
ScopeOf(a, s, e) ==
    /\ s \in DOMAIN dom /\ e \in DOMAIN dom
    /\ \A c \in Relevant(a) : s \in dom[c] /\ e \in pdom[c]
    /\ \A x \in DOMAIN dom : (\A c \in Relevant(a) : x \in dom[c]) => x \in dom[s]
    /\ \A b \in BlocksOnPath(s, e) \cup Relevant(a) :
           \A t \in succ[b] \cap (BlocksOnPath(s, e) \cup Relevant(a)) : t \notin dom[b]
    /\ BlocksOnPath(s, e) \cap throws = {}
LEMMA ScopeIs ==
    ASSUME Graph, Analysed, NEW a \in Allocs, NEW w \in Scope(a)
    PROVE  ScopeOf(a, w[1], w[2])
<1> DEFINE rel == Relevant(a)
           below == Common(dom, rel)
           above == Common(pdom, rel)
           s == Deepest(dom, below)
           e == Deepest(pdom, above)
<1>1. rel \in SUBSET DOMAIN dom /\ at[a] \in rel
  BY DEF Analysed, PlacesInv, PlacedAt, Relevant
<1>3. /\ below # {} /\ above # {} /\ w = <<s, e>>
      /\ ~HasBackEdge(BlocksOnPath(s, e) \cup rel, dom) /\ BlocksOnPath(s, e) \cap throws = {}
  <2> HIDE DEF s, e, rel
  <2>1. Scope(a) # {}  OBVIOUS
  <2>2. Scope(a) = IF below = {} \/ above = {} THEN {}
                   ELSE IF \/ s \notin dom[at[a]]
                           \/ HasBackEdge(BlocksOnPath(s, e) \cup rel, dom)
                           \/ BlocksOnPath(s, e) \cap throws # {}
                        THEN {} ELSE {<<s, e>>}
    BY DEF Scope, CollectUseBlocks, s, e, rel, Relevant
  <2> HIDE DEF below, above
  <2> QED  BY <2>1, <2>2
<1>4. s \in below /\ \A y \in below : Cardinality(dom[y]) <= Cardinality(dom[s])
  <2>1. \A y \in below : dom[y] \in SUBSET Blocks  BY DEF Analysed, TablesInv, Common
  <2> HIDE DEF below
  <2> QED  BY <1>3, <2>1, DeepestIn
<1>5. e \in above
  <2>1. \A y \in above : pdom[y] \in SUBSET Blocks  BY DEF Analysed, TablesInv, Common
  <2> HIDE DEF above
  <2> QED  BY <1>3, <2>1, DeepestIn
<1>6. s \in DOMAIN dom /\ e \in DOMAIN dom /\ \A c \in rel : s \in dom[c] /\ e \in pdom[c]
  BY <1>4, <1>5 DEF Common, Analysed, TablesInv
<1>7. ASSUME NEW x \in DOMAIN dom, \A c \in rel : x \in dom[c] PROVE x \in dom[s]
  <2>1. x \in below  BY <1>7 DEF Common
  <2>2. Cardinality(dom[x]) <= Cardinality(dom[s])  BY <1>4, <2>1
  <2>3. x \in dom[at[a]] /\ s \in dom[at[a]] /\ at[a] \in DOMAIN dom  BY <1>1, <1>6, <1>7
  <2>4. CASE s \in dom[x]
    <3>1. dom[s] \subseteq dom[x]  BY <1>6, <1>7, <2>4 DEF Analysed, OrderInv, TablesInv
    <3>2. IsFiniteSet(dom[x]) /\ IsFiniteSet(dom[s])  BY <1>6, <1>7 DEF Analysed, TablesInv
    <3>3. Cardinality(dom[s]) <= Cardinality(dom[x])  BY <3>1, <3>2, FS_Subset
    <3>4. Cardinality(dom[s]) \in Nat /\ Cardinality(dom[x]) \in Nat  BY <3>2, FS_CardinalityType
    <3>5. Cardinality(dom[s]) = Cardinality(dom[x])  BY <2>2, <3>3, <3>4
    <3>6. dom[s] = dom[x]  BY <3>1, <3>2, <3>5, FS_Subset
    <3> QED  BY <1>7, <3>6 DEF Analysed, TablesInv
  <2> HIDE DEF s
  <2>5. x \in dom[s] \/ s \in dom[x]  BY <1>6, <1>7, <2>3 DEF Analysed, OrderInv
  <2> QED  BY <2>4, <2>5
<1>8. \A b \in BlocksOnPath(s, e) \cup rel : \A t \in succ[b] \cap (BlocksOnPath(s, e) \cup rel) : t \notin dom[b]
  BY <1>3 DEF HasBackEdge
<1>9. w[1] = s /\ w[2] = e  BY <1>3
<1> HIDE DEF s, e
<1> QED  BY <1>3, <1>6, <1>7, <1>8, <1>9 DEF ScopeOf

\* What flows out of one branch comes to a join; where the scope starts above the
\* allocation it starts where the branches split, and every path meets the join.
LEMMA StartLeads ==
    ASSUME Graph, Analysed, NEW a \in Allocs, NEW s, NEW e, ScopeOf(a, s, e)
    PROVE  \E Z : (s \in Z \/ e \in pdom[s]) /\ LeadTo(Z, {t \in DOMAIN dom : e \in pdom[t]})
<1> DEFINE J == {t \in DOMAIN dom : e \in pdom[t]}
<1>0. /\ s \in DOMAIN dom /\ at[a] \in DOMAIN dom /\ at[a] \in Relevant(a) /\ Relevant(a) \subseteq DOMAIN dom
      /\ \A c \in Relevant(a) : s \in dom[c] /\ e \in pdom[c]
  BY DEF ScopeOf, Analysed, PlacesInv, PlacedAt, Relevant
<1>1. CASE s \in Relevant(a)
  <2>1. e \in pdom[s] /\ LeadTo({}, J)  BY <1>0, <1>1 DEF LeadTo
  <2> QED  BY <2>1
<1>2. CASE s \notin Relevant(a)
  \* The first dominator of the allocation below s.
  <2> DEFINE D == dom[at[a]] \ dom[s]
             N == {Cardinality(dom[y]) : y \in D}
  <2>1. \A y \in DOMAIN dom : IsFiniteSet(dom[y]) /\ Cardinality(dom[y]) \in Nat
    BY FS_CardinalityType DEF Analysed, TablesInv
  <2>2. D \subseteq DOMAIN dom /\ at[a] \in D
    BY <1>0, <1>2 DEF Analysed, TablesInv, OrderInv
  <2>3. N \in SUBSET Nat /\ Cardinality(dom[at[a]]) \in N  BY <2>1, <2>2
  <2>4. PICK n \in N : \A k \in N : n <= k
    <3> HIDE DEF N
    <3> QED  BY <2>3, LeastNumber
  <2>5. PICK x \in D : n = Cardinality(dom[x])  BY <2>4
  <2>6. \A y \in D : Cardinality(dom[x]) <= Cardinality(dom[y])  BY <2>4, <2>5
  <2>7. x \in DOMAIN dom /\ x \in dom[at[a]] /\ x \notin dom[s]  BY <2>2, <2>5
  <2>8. ASSUME NEW b \in DOMAIN dom, x \in dom[b], NEW y \in DOMAIN dom, y \in dom[b], y \notin dom[s]
        PROVE  x \in dom[y]
    <3>1. CASE y \in dom[x]
      <4>1. y \in D  BY <1>0, <2>7, <2>8, <3>1 DEF Analysed, OrderInv
      <4>2. dom[y] \subseteq dom[x]  BY <2>7, <2>8, <3>1 DEF Analysed, OrderInv, TablesInv
      <4>3. Cardinality(dom[x]) <= Cardinality(dom[y]) /\ Cardinality(dom[y]) <= Cardinality(dom[x])
        BY <2>1, <2>6, <2>7, <2>8, <4>1, <4>2, FS_Subset
      <4>4. Cardinality(dom[x]) = Cardinality(dom[y])  BY <2>1, <2>7, <2>8, <4>3
      <4>5. dom[y] = dom[x]  BY <2>1, <2>7, <4>2, <4>4, FS_Subset
      <4> QED  BY <2>7, <4>5 DEF Analysed, TablesInv
    <3> HIDE DEF D
    <3> QED  BY <2>7, <2>8, <3>1 DEF Analysed, OrderInv
  <2> HIDE DEF D, N
  \* A join that x does not dominate, of a block that it does, splits at s.
  <2>9. ASSUME NEW f \in flow[a], x \in dom[f[1]], x \notin dom[f[2]]
        PROVE  \E Z : s \in Z /\ LeadTo(Z, {f[2]})
    <3>1. f[1] \in DOMAIN dom /\ f[2] \in succ[f[1]] /\ f[2] \in Relevant(a) /\ f[2] \in DOMAIN dom
      BY <1>0 DEF Analysed, PlacesInv, PlacedAt, Relevant
    <3>2. s \in dom[f[2]] /\ s # f[2] /\ f[2] # 0  BY <1>0, <1>2, <3>1 DEF Analysed, EdgesInv
    <3>3. PICK q \in DOMAIN dom : f[2] \in succ[q] /\ x \notin dom[q]
      BY <2>7, <2>9, <3>1, <3>2 DEF Analysed, EdgesInv
    <3>4. q # f[1]  BY <2>9, <3>3
    <3>5. ASSUME NEW d \in dom[f[2]], d # f[2], d \notin dom[s] PROVE FALSE
      <4>1. d \in DOMAIN dom /\ d \in dom[f[1]]  BY <3>1, <3>5 DEF Analysed, TablesInv, EdgesInv
      <4>2. x \in dom[d]  BY <2>8, <2>9, <3>1, <3>5, <4>1
      <4>3. x \in dom[f[2]]  BY <2>7, <3>1, <3>5, <4>1, <4>2 DEF Analysed, OrderInv
      <4> QED  BY <2>9, <4>3
    <3>6. \A d \in dom[f[2]] : d = f[2] \/ d \in dom[s]  BY <3>5
    <3> QED  BY <1>0, <3>1, <3>2, <3>3, <3>4, <3>6 DEF Analysed, JoinInv
  <2>10. PICK f \in flow[a] : x \in dom[f[1]] /\ x \notin dom[f[2]]
    <3>1. SUFFICES ASSUME \A f \in flow[a] : x \in dom[f[1]] => x \in dom[f[2]] PROVE FALSE  OBVIOUS
    <3>2. \A f \in flow[a] : /\ f[1] \in DOMAIN dom /\ f[2] \in DOMAIN dom
                             /\ at[a] \in dom[f[1]] \/ \E g \in flow[a] : at[a] \in dom[g[1]] /\ g[2] \in dom[f[1]]
      BY DEF Analysed, PlacesInv, PlacedAt
    <3>3. \A b \in DOMAIN dom : at[a] \in dom[b] => x \in dom[b]
      BY <1>0, <2>7 DEF Analysed, OrderInv
    <3>4. \A f \in flow[a] : at[a] \in dom[f[1]] => x \in dom[f[2]]  BY <3>1, <3>2, <3>3
    <3>5. \A f \in flow[a] : x \in dom[f[1]]
      <4>1. ASSUME NEW f \in flow[a], NEW g \in flow[a], at[a] \in dom[g[1]], g[2] \in dom[f[1]]
            PROVE  x \in dom[f[1]]
        <5>1. x \in dom[g[2]]  BY <3>4, <4>1
        <5> QED  BY <2>7, <3>2, <4>1, <5>1 DEF Analysed, OrderInv
      <4> QED  BY <3>2, <3>3, <4>1
    <3>6. \A f \in flow[a] : x \in dom[f[2]]  BY <3>1, <3>5
    <3>7. ASSUME NEW c \in Relevant(a) PROVE x \in dom[c]
      <4>1. c \in DOMAIN dom  BY <1>0
      <4>2. CASE at[a] \in dom[c]  BY <3>3, <4>1, <4>2
      <4>3. ASSUME NEW f \in flow[a], f[2] \in dom[c] PROVE x \in dom[c]
        BY <2>7, <3>2, <3>6, <4>1, <4>3 DEF Analysed, OrderInv
      <4>4. c = at[a] => at[a] \in dom[c]  BY <1>0 DEF Analysed, TablesInv
      <4> QED  BY <4>2, <4>3, <4>4 DEF Analysed, PlacesInv, PlacedAt, Relevant
    <3> QED  BY <2>7, <3>7 DEF ScopeOf
  <2>11. PICK Z : s \in Z /\ LeadTo(Z, {f[2]})  BY <2>9, <2>10
  <2>12. f[2] \in J  BY <1>0 DEF Analysed, PlacesInv, PlacedAt, Relevant
  <2>13. LeadTo(Z, J)
    <3> HIDE DEF J
    <3> QED  BY <2>11, <2>12 DEF LeadTo
  <2> QED  BY <2>11, <2>13
<1> QED  BY <1>1, <1>2

\* Such a scope is left only through its end, which comes, and not entered
\* again before; what it must cover is in it but for what is on no path to the end.
LEMMA ScopeStays ==
    ASSUME Graph, Analysed, NEW a \in Allocs, NEW s, NEW e, ScopeOf(a, s, e)
    PROVE  \E K : /\ Stays(K, s, {e}) /\ Moves(K)
                  /\ \A u \in Relevant(a) : OffPath(s, e, u) \/ u \in K \cup {e}
<1> DEFINE P == BlocksOnPath(s, e)
<1>1. /\ e \in DOMAIN dom /\ \A u \in Relevant(a) : e \in pdom[u]
      /\ P \cap throws = {} /\ \A b \in P : \A t \in succ[b] \cap P : t \notin dom[b]
  BY DEF ScopeOf
<1>2. s \in DOMAIN dom /\ DOMAIN dom \subseteq Blocks /\ \A b \in DOMAIN dom : succ[b] \subseteq DOMAIN dom
  BY DEF ScopeOf, Analysed, TablesInv
<1>3. PICK T : LeavesBy(T, e)  BY <1>1 DEF Analysed, LeaveInv
<1>z. PICK Z : (s \in Z \/ e \in pdom[s]) /\ LeadTo(Z, {t \in DOMAIN dom : e \in pdom[t]})  BY StartLeads
<1>0. Rounds \in Nat  BY FS_CardinalityType DEF Graph, Rounds
<1>r. PICK rank \in [Blocks -> 0..Rounds] : \A b \in DOMAIN dom : \A t \in succ[b] : rank[b] < rank[t] \/ t \in dom[b]
  BY DEF Analysed, ForwardInv
<1>4. /\ rank \in [Blocks -> Nat] /\ \A b \in Blocks : rank[b] <= Rounds
      /\ \A b \in DOMAIN dom : \A t \in succ[b] : rank[b] < rank[t] \/ t \in dom[b]
  BY <1>0, <1>r
<1>5. P \in SUBSET Blocks /\ s \in P /\ \A b \in P : b # e => succ[b] \subseteq P
  <2> DEFINE next == [succ EXCEPT ![e] = {}]
  <2>1. next \in Edges /\ {s} \in SUBSET Blocks /\ \A b \in Blocks : b # e => next[b] = succ[b]
    BY <1>2 DEF Graph, Edges
  <2>2. P = Closure({s}, next)  BY DEF BlocksOnPath
  <2> HIDE DEF next, P
  <2>3. P \in SUBSET Blocks /\ {s} \subseteq P /\ Closed(P, next)  BY <2>1, <2>2, ClosureClosed
  <2> QED  BY <2>1, <2>3 DEF Closed
<1> HIDE DEF P
<1> DEFINE K == {k \in P \cap DOMAIN dom : k # e /\ (k \in Z \/ k \notin T) /\ rank[s] <= rank[k]}
<1>6. K \in SUBSET Blocks  BY <1>5
<1>t. \A t \in DOMAIN dom : e \in pdom[t] => t = e \/ t \notin T  BY <1>3 DEF LeavesBy
<1>7. s \in K \cup {e}
  <2>1. s \in Z \/ s = e \/ s \notin T  BY <1>2, <1>z, <1>t
  <2>2. rank[s] <= rank[s]  BY <1>2, <1>4
  <2> QED  BY <1>2, <1>5, <2>1, <2>2
<1>8. ASSUME NEW b \in K, NEW t \in succ[b] PROVE t \in K \cup {e} /\ t # s /\ rank[b] < rank[t]
  <2>1. b \in P /\ b \in DOMAIN dom /\ b # e /\ (b \in Z \/ b \notin T) /\ rank[s] <= rank[b] /\ b \in Blocks  BY <1>5
  <2>2. t \in P /\ t \in DOMAIN dom /\ t \in Blocks  BY <1>2, <1>5, <2>1
  <2>3. t \notin dom[b]  BY <1>1, <2>1, <2>2
  <2>4. rank[b] < rank[t]  BY <1>4, <2>1, <2>3
  <2>5. rank[s] \in Nat /\ rank[b] \in Nat /\ rank[t] \in Nat  BY <1>2, <1>4, <2>1, <2>2
  <2>6. rank[s] <= rank[t] /\ t # s  BY <2>1, <2>4, <2>5
  <2>7. b \in Z => t \in Z \/ t = e \/ t \notin T  BY <1>z, <1>t, <2>1, <2>2, <2>3 DEF LeadTo
  <2>8. b \notin T => t = e \/ t \notin T  BY <1>3, <2>1 DEF LeavesBy
  <2> QED  BY <2>1, <2>2, <2>4, <2>6, <2>7, <2>8
<1>9. K \cap Exits = {}
  <2>1. ASSUME NEW b \in K, b \in Exits PROVE FALSE
    <3>1. b \in P /\ b \in DOMAIN dom /\ b # e /\ (b \in Z \/ b \notin T) /\ succ[b] = {}  BY <2>1 DEF Exits
    <3>2. b \in T  BY <1>3, <2>1, <3>1 DEF LeavesBy
    <3>3. b \in throws  BY <1>z, <3>1, <3>2 DEF LeadTo
    <3> QED  BY <1>1, <3>1, <3>3
  <2> QED  BY <2>1
<1>10. Stays(K, s, {e})
  <2> HIDE DEF K
  <2> QED  BY <1>6, <1>7, <1>8, <1>9 DEF Stays
<1>11. Moves(K)
  <2>1. SUFFICES ASSUME NEW X \in SUBSET K, X # {} PROVE \E b \in X : \E t \in succ[b] : t \notin X  BY DEF Moves
  <2> DEFINE c == [b \in X |-> rank[b]]
  <2>2. X \subseteq Blocks /\ X \subseteq K  BY <1>6
  <2>3. c \in [X -> Nat] /\ \A b \in X : c[b] = rank[b] /\ c[b] <= Rounds  BY <1>4, <2>2
  <2> HIDE DEF c
  <2>4. PICK b \in X : \A y \in X : c[y] <= c[b]  BY <1>0, <2>1, <2>3, MostExists
  <2>5. b \in K /\ b \notin Exits  BY <1>9, <2>2
  <2>6. PICK t \in succ[b] : TRUE  BY <1>6, <2>5 DEF Exits
  <2>7. rank[b] < rank[t] /\ c[b] = rank[b] /\ c[b] \in Nat  BY <1>8, <2>3, <2>5
  <2>8. ASSUME t \in X PROVE FALSE
    <3>1. c[t] <= c[b] /\ c[t] = rank[t] /\ c[t] \in Nat  BY <2>3, <2>4, <2>8
    <3> QED  BY <2>7, <3>1
  <2> QED  BY <2>8
<1>12. ASSUME NEW u \in Relevant(a), ~OffPath(s, e, u) PROVE u \in K \cup {e}
  <2>1. u \in DOMAIN dom /\ u \in Blocks  BY <1>2 DEF Analysed, PlacesInv, PlacedAt, Relevant
  <2> DEFINE Y == {k \in P \cap DOMAIN dom : rank[s] <= rank[k]}
  <2>2. Y \in SUBSET Blocks /\ s \in Y  BY <1>2, <1>4, <1>5
  <2>3. ASSUME NEW b \in Y \ {e}, NEW t \in succ[b] PROVE t \in Y
    <3>1. b \in P /\ b \in DOMAIN dom /\ b # e /\ rank[s] <= rank[b] /\ b \in Blocks  BY <1>5
    <3>2. t \in P /\ t \in DOMAIN dom /\ t \in Blocks  BY <1>2, <1>5, <3>1
    <3>3. t \notin dom[b]  BY <1>1, <3>1, <3>2
    <3>4. rank[b] < rank[t]  BY <1>4, <3>1, <3>3
    <3>5. rank[s] \in Nat /\ rank[b] \in Nat /\ rank[t] \in Nat  BY <1>2, <1>4, <3>1, <3>2
    <3>6. rank[s] <= rank[t]  BY <3>1, <3>4, <3>5
    <3> QED  BY <3>2, <3>6
  <2>4. u \in Y
    <3> HIDE DEF Y
    <3>1. \A b \in Y \ {e} : succ[b] \subseteq Y  BY <2>3
    <3> QED  BY <1>12, <2>2, <3>1 DEF OffPath
  <2>5. u = e \/ u \notin T  BY <1>1, <1>t, <2>1
  <2> QED  BY <2>4, <2>5
<1>13. \A u \in Relevant(a) : OffPath(s, e, u) \/ u \in K \cup {e}  BY <1>12
<1> HIDE DEF K
<1> QED  BY <1>10, <1>11, <1>13

-----------------------------------------------------------------------------
(* The analyses establish what the pass needs to know *)

\* What a search over the graph that structures gives of its order.
LEMMA Ranked ==
    ASSUME Graph, Structured(succ)
    PROVE  /\ \A b \in Blocks : 0 \notin succ[b]
           /\ \E rank \in [Blocks -> 0..Rounds] :
                \A b \in Reachable : \A t \in succ[b] : rank[b] < rank[t] \/ t \in Dominators[b]
<1>1. \A b \in Blocks : 0 \notin succ[b]  BY DEF Structured, Blocks
<1>2. PICK rank \in [Blocks -> 0..Cardinality(Blocks)] :
           \A b \in Blocks : \A t \in succ[b] : rank[b] < rank[t] \/ OnEveryPath(succ, t, b)
  BY DEF Structured, Blocks
<1>3. rank \in [Blocks -> 0..Rounds]  BY <1>2 DEF Rounds
<1>4. ASSUME NEW b \in Reachable, NEW t \in succ[b] PROVE rank[b] < rank[t] \/ t \in Dominators[b]
  <2>1. b \in Blocks /\ t \in Reachable  BY ReachableIs
  <2>2. rank[b] < rank[t] \/ OnEveryPath(succ, t, b)  BY <1>2, <2>1
  <2> QED  BY <2>1, <2>2, OnPathDominates
<1> QED  BY <1>1, <1>3, <1>4

\* Where paths join they come from the branches of one block, also as the tables
\* have it.
LEMMA JoinsMeet ==
    ASSUME Graph, Structured(succ), throws = Throws[succ]
    PROVE  \A s, j, p, q \in Reachable :
             /\ p # q /\ j \in succ[p] /\ j \in succ[q]
             /\ s \in Dominators[j] /\ s # j /\ \A d \in Dominators[j] : d = j \/ d \in Dominators[s]
             => \E Z : s \in Z /\ \A x \in Z \cap Reachable :
                    /\ succ[x] = {} => x \in throws
                    /\ \A t \in succ[x] : t \in Z \/ t \in {j} \/ t \in Dominators[x]
<1>t. TAKE s, j, p, q \in Reachable
<1>0. HAVE /\ p # q /\ j \in succ[p] /\ j \in succ[q]
           /\ s \in Dominators[j] /\ s # j /\ \A d \in Dominators[j] : d = j \/ d \in Dominators[s]
<1>1. Reachable \subseteq Blocks  BY ReachableIs
<1>2. Splits(succ, s, j)
  <2>1. OnEveryPath(succ, s, j)  BY <1>0, DominatesOnPath
  <2>2. ASSUME NEW d \in Blocks \ {j}, OnEveryPath(succ, d, j) PROVE OnEveryPath(succ, d, s)
    <3>1. d \in Reachable  BY <2>2, OnPathReached
    <3>2. d \in Dominators[j]  BY <2>2, <3>1, OnPathDominates
    <3>3. d \in Dominators[s]  BY <1>0, <2>2, <3>2
    <3> QED  BY <3>1, <3>3, DominatesOnPath
  <2> QED  BY <1>0, <2>1, <2>2 DEF Splits, Blocks
<1>3. Meets(succ, s, j)  BY <1>0, <1>1, <1>2 DEF Structured, Blocks
<1>4. PICK Z \in SUBSET Blocks :
          s \in Z /\ \A x \in Z : /\ succ[x] = {} => x \in throws
                                  /\ \A t \in succ[x] : t \in Z \cup {j} \/ OnEveryPath(succ, t, x)
  BY <1>3 DEF Meets, Blocks
<1>5. \A x \in Z \cap Reachable : \A t \in succ[x] : OnEveryPath(succ, t, x) => t \in Dominators[x]
  BY ReachableIs, OnPathDominates
<1> QED  BY <1>4, <1>5

\* What escape analysis hands over, whichever form it has.
LEMMA PlaceIs ==
    ASSUME NEW ds, NEW x \in Places(ds)
    PROVE  \E b \in DOMAIN ds, F \in SUBSET Jumps : \E U :
               /\ x.block = b /\ x.flow = F /\ x.uses = U \cup PhiUses(ds, F) /\ Carries(ds, b, F)
               /\ U \subseteq Under(ds, b) \cup UNION {Under(ds, f[2]) : f \in F}
<1>1. PICK b \in DOMAIN ds : x \in Direct(ds, b) \/ \E F \in Flows(ds, b) : x \in ByPhi(ds, b, F)
  BY DEF Places
<1>2. CASE x \in Direct(ds, b)
  <2>1. PICK w \in Under(ds, b) \X Under(ds, b) :
             x = Place(ds, b, {}, {w[1], w[2]}, {}) \/ x = Place(ds, b, {}, {w[1]}, {w[2]})
    BY <1>2 DEF Direct
  <2>2. PICK U \in SUBSET {w[1], w[2]} : \E T : x = Place(ds, b, {}, U, T)  BY <2>1
  <2>3. x.block = b /\ x.flow = {} /\ x.uses = U \cup PhiUses(ds, {})  BY <2>2 DEF Place
  <2>4. Carries(ds, b, {}) /\ {} \in SUBSET Jumps  BY DEF Carries
  <2>5. U \subseteq Under(ds, b)  BY <2>1, <2>2
  <2> QED  BY <2>3, <2>4, <2>5
<1>3. ASSUME NEW F \in Flows(ds, b), x \in ByPhi(ds, b, F)
      PROVE  \E F1 \in SUBSET Jumps : \E U :
               /\ x.block = b /\ x.flow = F1 /\ x.uses = U \cup PhiUses(ds, F1) /\ Carries(ds, b, F1)
               /\ U \subseteq Under(ds, b) \cup UNION {Under(ds, f[2]) : f \in F1}
  <2>1. F \in SUBSET Jumps /\ Carries(ds, b, F)  BY <1>3 DEF Flows
  <2>2. PICK c \in Under(ds, b) \cup UNION {Under(ds, f[2]) : f \in F} : x = Place(ds, b, F, {c}, {})
    BY <1>3 DEF ByPhi
  <2>3. x.block = b /\ x.flow = F /\ x.uses = {c} \cup PhiUses(ds, F)  BY <2>2 DEF Place
  <2> QED  BY <2>1, <2>2, <2>3
<1> QED  BY <1>1, <1>2, <1>3

\* optimize_regions starts from tables that say what Analysed asks of them.
LEMMA AnalyseGives ==
    ASSUME SuccInv, Structured(succ), Analyse
    PROVE  Analysed'
<1>1. Graph /\ throws = Throws[succ]  BY SuccGraph DEF SuccInv
<1> DEFINE R == Reachable
           D == Dominators
           P == PostDominators
<1>2. R \subseteq Blocks /\ 0 \in R /\ \A b \in R : succ[b] \subseteq R  BY <1>1, ReachableIs
<1>3. D \in [R -> SUBSET R] /\ P \in [R -> SUBSET R]  BY <1>1, DominatorsMean
<1>4. \A b \in R : b \in D[b]  BY <1>1, DominatorsMean
<1>0. D[0] = {0}
  <2>1. \A d \in R : d # 0 => 0 \in Avoid(d)  BY <1>1, AvoidIs
  <2>2. \A d \in R : d \in D[0] => d = 0  BY <1>1, <1>2, <2>1, DominatorsMean
  <2> QED  BY <1>2, <1>3, <1>4, <2>2
<1>5. /\ \A x, s, b \in R : /\ x \in D[s] /\ s \in D[b] => x \in D[b]
                            /\ s \in D[b] /\ b \in D[s] => s = b
      /\ \A x, y, b \in R : x \in D[b] /\ y \in D[b] => x \in D[y] \/ y \in D[x]
  BY <1>1, DominanceOrder, DominatorsAreAChain
<1>s. /\ \A b, x \in R : \A t \in succ[b] : x \in D[t] => x = t \/ x \in D[b]
      /\ \A j, x \in R : j # 0 /\ x \notin D[j] => \E q \in R : j \in succ[q] /\ x \notin D[q]
      /\ \A b \in R : 0 \notin succ[b]
  BY <1>1, <1>2, DominatorsStep, ReachedFrom, Ranked
<1>6. ASSUME NEW d \in R
      PROVE  \E T : /\ Exits \ {d} \subseteq T
                    /\ \A k \in Blocks : \A t \in succ[k] : t \in T /\ k # d => k \in T
                    /\ \A b \in R : d \in P[b] => b = d \/ b \notin T
  <2>1. \A b \in R : d \in P[b] => b = d \/ b \notin Escape(d)  BY <1>1, DominatorsMean
  <2> QED  BY <1>1, <2>1, EscapeIs
<1>7. \E rank \in [Blocks -> 0..Rounds] : \A b \in R : \A t \in succ[b] : rank[b] < rank[t] \/ t \in D[b]
  BY <1>1, Ranked
<1>j. \A s, j, p, q \in R :
        /\ p # q /\ j \in succ[p] /\ j \in succ[q]
        /\ s \in D[j] /\ s # j /\ \A d \in D[j] : d = j \/ d \in D[s]
        => \E Z : s \in Z /\ \A x \in Z \cap R : /\ succ[x] = {} => x \in throws
                                                 /\ \A t \in succ[x] : t \in Z \/ t \in {j} \/ t \in D[x]
  BY <1>1, JoinsMeet
<1>8. \A b \in R : IsFiniteSet(D[b])
  <2>1. \A b \in R : D[b] \in SUBSET Blocks  BY <1>2, <1>3
  <2> QED  BY <1>1, <2>1, FS_Subset DEF Graph
<1>9. dom' = D /\ pdom' = P /\ succ' = succ /\ throws' = throws  BY DEF Analyse
<1>10. DOMAIN D = R /\ DOMAIN P = R  BY <1>3
<1>11. PICK p \in [Allocs -> Places(dom')] :
           /\ at' = [a \in Allocs |-> p[a].block] /\ uses' = [a \in Allocs |-> p[a].uses]
           /\ flow' = [a \in Allocs |-> p[a].flow]
  BY DEF Analyse
<1> HIDE DEF R, D, P
<1>12. TablesInv'  BY <1>0, <1>2, <1>3, <1>4, <1>8, <1>9, <1>10 DEF TablesInv, Blocks
<1>13. OrderInv'  BY <1>5, <1>9, <1>10 DEF OrderInv
<1>14. LeaveInv'  BY <1>6, <1>9, <1>10 DEF LeaveInv, LeavesBy, Blocks, Exits
<1>15. ForwardInv'  BY <1>7, <1>9, <1>10 DEF ForwardInv, Rounds, Blocks
<1>17. EdgesInv'  BY <1>s, <1>9, <1>10 DEF EdgesInv
<1>18. JoinInv'  BY <1>j, <1>9, <1>10 DEF JoinInv, LeadTo
<1>16. PlacesInv'
  <2>1. ASSUME NEW a \in Allocs PROVE PlacedAt(a)'
    <3>1. p[a] \in Places(D)  BY <1>9, <1>11
    <3>0. PICK b \in R, F \in SUBSET Jumps : \E U :
               /\ p[a].block = b /\ p[a].flow = F /\ p[a].uses = U \cup PhiUses(D, F) /\ Carries(D, b, F)
               /\ U \subseteq Under(D, b) \cup UNION {Under(D, f[2]) : f \in F}
      BY <1>10, <3>1, PlaceIs
    <3>2. PICK U :
               /\ p[a].block = b /\ p[a].flow = F /\ p[a].uses = U \cup PhiUses(D, F) /\ Carries(D, b, F)
               /\ U \subseteq Under(D, b) \cup UNION {Under(D, f[2]) : f \in F}
      BY <3>0
    <3>3. at'[a] = b /\ flow'[a] = F /\ uses'[a] = U \cup PhiUses(D, F)  BY <1>11, <3>2
    <3>4. \A x : Under(D, x) = {c \in R : x \in D[c]}  BY <1>10 DEF Under
    <3>5. ASSUME NEW f \in F
          PROVE  f[1] \in R /\ (b \in D[f[1]] \/ \E g \in F : b \in D[g[1]] /\ g[2] \in D[f[1]])
      <4>1. \/ f[1] \in Under(D, b)
            \/ \E g \in F : g[1] \in Under(D, b) /\ f[1] \in Under(D, g[2])
        BY <3>2 DEF Carries
      <4> QED  BY <3>4, <4>1
    <3>6. ASSUME NEW f \in F PROVE f[2] \in succ[f[1]] /\ f[2] \in R
      <4>1. PICK k \in Blocks : \E c \in succ[k] : f = <<k, c>>  BY <3>2 DEF Jumps
      <4> QED  BY <1>2, <3>5, <4>1
    <3>7. PhiUses(D, F) = {f[2] : f \in F} \cup {f[1] : f \in {g \in F : g[2] \in D[g[1]]}}  BY DEF PhiUses
    <3>8. ASSUME NEW f \in F PROVE f[2] \in PhiUses(D, F) /\ (f[2] \in D[f[1]] => f[1] \in PhiUses(D, F))
      BY <3>7
    <3>9. ASSUME NEW u \in U \cup PhiUses(D, F) PROVE u \in R /\ (b \in D[u] \/ \E f \in F : f[2] \in D[u])
      <4>1. CASE u \in U  BY <3>2, <3>4, <4>1
      <4>2. ASSUME NEW f \in F, u = f[2] PROVE u \in R /\ u \in D[u]  BY <1>4, <3>6, <4>2
      <4>3. ASSUME NEW f \in F, u = f[1] PROVE u \in R /\ (b \in D[u] \/ \E g \in F : g[2] \in D[u])  BY <3>5, <4>3
      <4> QED  BY <3>7, <3>9, <4>1, <4>2, <4>3
    <3> QED  BY <1>9, <1>10, <3>3, <3>5, <3>6, <3>8, <3>9 DEF PlacedAt
  <2> QED  BY <2>1 DEF PlacesInv
<1> QED  BY <1>12, <1>13, <1>14, <1>15, <1>16, <1>17, <1>18 DEF Analysed

\* K has the blocks at whose end region r may be open: it is opened into K or
\* closed at once, an edge stays in K or leads to a block that closes it, it is
\* not opened while it is open, and no block of K returns.
Sound(r, K) ==
    /\ \A b \in Blocks : r \in Range(starts[b]) => b \in K \/ r \in Range(ends[b])
    /\ \A b \in K : \A t \in succ[b] : (t \in K \/ r \in Range(ends[t])) /\ r \notin Range(starts[t])
    /\ K \cap Exits \subseteq throws
Kept(kept) == kept \in [Names -> SUBSET Blocks] /\ \A r \in Names : Sound(r, kept[r])

\* No block opens a region twice, and what the pass has yet to insert is new.
StartsOnce == \A b \in Blocks : \A i, j \in 1..Len(starts[b]) : starts[b][i] = starts[b][j] => i = j
Unplaced(r) == \A b \in Blocks : r \notin Range(starts[b])
NotYetInv ==
    /\ todo \subseteq Allocs /\ \A a \in todo : Unplaced(a)
    /\ pc \in {"analyse", "optimize"} => Unplaced(Fn)

\* There are never more regions open than may be.
OpenAt(kept, b) == {r \in Names : b \in kept[r]}
StackInv(kept) ==
    /\ pc \in {"analyse", "optimize", "run"} => stack = <<>>
    /\ pc = "at" => here \in Blocks /\ Len(stack) <= Cardinality(OpenAt(kept, here))

BalanceInv ==
    /\ pc # "analyse" => Analysed
    /\ StartsOnce /\ NotYetInv
    /\ \E kept : Kept(kept) /\ StackInv(kept)
    /\ ReturnsBalanced

\* What Insert does to the names of a block.
LEMMA InsertIs ==
    ASSUME CodeTyped, NEW r \in Names, NEW s \in Blocks, NEW E, Insert(r, s, E), NEW b \in Blocks
    PROVE  /\ Range(starts'[b]) = IF b = s THEN {r} \cup Range(starts[b]) ELSE Range(starts[b])
           /\ Range(ends'[b]) = IF b \in E THEN {r} \cup Range(ends[b]) ELSE Range(ends[b])
<1>1. starts[b] \in Seq(Names) /\ ends[b] \in Seq(Names) /\ DOMAIN starts = Blocks  BY DEF CodeTyped
<1>2. /\ starts'[b] = IF b = s THEN <<r>> \o starts[b] ELSE starts[b]
      /\ ends'[b] = IF b \in E THEN Append(ends[b], r) ELSE ends[b]
  BY <1>1 DEF Insert
<1>3. Range(<<r>> \o starts[b]) = {r} \cup Range(starts[b])
  <2> DEFINE q == <<r>> \o starts[b]
             m == Len(starts[b])
  <2>1. m \in Nat /\ DOMAIN starts[b] = 1..m /\ DOMAIN q = 1..(m + 1)  BY <1>1
  <2>2. q[1] = r /\ \A i \in 1..m : q[i + 1] = starts[b][i]  BY <1>1
  <2>3. \A i \in 1..(m + 1) : i = 1 \/ (i - 1 \in 1..m /\ (i - 1) + 1 = i)  BY <2>1
  <2>4. 1 \in 1..(m + 1) /\ \A i \in 1..m : i + 1 \in 1..(m + 1)  BY <2>1
  <2> HIDE DEF q, m
  <2>5. ASSUME NEW x \in Range(q) PROVE x \in {r} \cup Range(starts[b])
    <3>1. PICK i \in 1..(m + 1) : x = q[i]  BY <2>1, <2>5 DEF Range
    <3>2. CASE i = 1  BY <2>2, <3>1, <3>2
    <3>3. CASE i # 1
      <4>1. i - 1 \in 1..m /\ (i - 1) + 1 = i  BY <2>3, <3>3
      <4>2. x = starts[b][i - 1]  BY <2>2, <3>1, <4>1
      <4> QED  BY <2>1, <4>1, <4>2 DEF Range
    <3> QED  BY <3>2, <3>3
  <2>6. ASSUME NEW x \in {r} \cup Range(starts[b]) PROVE x \in Range(q)
    <3>1. CASE x = r  BY <2>1, <2>2, <2>4, <3>1 DEF Range
    <3>2. CASE x \in Range(starts[b])
      <4>1. PICK i \in 1..m : x = starts[b][i]  BY <2>1, <3>2 DEF Range
      <4> QED  BY <2>1, <2>2, <2>4, <4>1 DEF Range
    <3> QED  BY <2>6, <3>1, <3>2
  <2> QED  BY <2>5, <2>6 DEF q
<1>4. Range(Append(ends[b], r)) = {r} \cup Range(ends[b])
  <2> DEFINE q == Append(ends[b], r)
             m == Len(ends[b])
  <2>1. m \in Nat /\ DOMAIN ends[b] = 1..m /\ DOMAIN q = 1..(m + 1)  BY <1>1
  <2>2. q[m + 1] = r /\ \A i \in 1..m : q[i] = ends[b][i]  BY <1>1
  <2>3. 1..(m + 1) = 1..m \cup {m + 1}  BY <2>1
  <2> HIDE DEF q, m
  <2>4. Range(q) = {r} \cup Range(ends[b])  BY <2>1, <2>2, <2>3 DEF Range
  <2> QED  BY <2>4 DEF q
<1> QED  BY <1>2, <1>3, <1>4

\* A region that was nowhere is still nowhere, unless it is the one inserted.
LEMMA InsertNothingElse ==
    ASSUME CodeTyped, NEW r \in Names, NEW s \in Blocks, NEW E, Insert(r, s, E), succ' = succ,
           NEW q, q # r, Unplaced(q)
    PROVE  Unplaced(q)'
<1>1. ASSUME NEW b \in Blocks PROVE q \notin Range(starts'[b])
  <2>1. /\ Range(starts'[b]) = IF b = s THEN {r} \cup Range(starts[b]) ELSE Range(starts[b])
        /\ Range(ends'[b]) = IF b \in E THEN {r} \cup Range(ends[b]) ELSE Range(ends[b])
    BY InsertIs
  <2>2. q \notin Range(starts[b])  BY DEF Unplaced
  <2> QED  BY <2>1, <2>2
<1> QED  BY <1>1 DEF Unplaced, Blocks

\* Inserting a new region in a scope that is left only through its ends keeps
\* the other regions closed, and closes the new one.
LEMMA InsertSound ==
    ASSUME CodeTyped, NEW r \in Names, NEW s \in Blocks, NEW E, Insert(r, s, E), Unplaced(r),
           NEW K, Stays(K, s, E), NEW kept, Kept(kept), Graph, UNCHANGED <<succ, throws>>
    PROVE  Kept([kept EXCEPT ![r] = K])'
<1> DEFINE k == [kept EXCEPT ![r] = K]
<1>1. kept \in [Names -> SUBSET Blocks] /\ \A q \in Names : Sound(q, kept[q])  BY DEF Kept
<1>2. K \in SUBSET Blocks  BY DEF Stays
<1>3. k \in [Names -> SUBSET Blocks] /\ k[r] = K /\ \A q \in Names \ {r} : k[q] = kept[q]  BY <1>1, <1>2
<1>4. Blocks' = Blocks /\ Exits' = Exits /\ Names' = Names  BY DEF Blocks, Exits, Names
<1>5. \A b \in Blocks : /\ Range(starts'[b]) = IF b = s THEN {r} \cup Range(starts[b]) ELSE Range(starts[b])
                        /\ Range(ends'[b]) = IF b \in E THEN {r} \cup Range(ends[b]) ELSE Range(ends[b])
  BY InsertIs
<1> DEFINE SoundNow(q, Z) ==
        /\ \A b \in Blocks : q \in Range(starts'[b]) => b \in Z \/ q \in Range(ends'[b])
        /\ \A b \in Z : \A t \in succ[b] : (t \in Z \/ q \in Range(ends'[t])) /\ q \notin Range(starts'[t])
        /\ Z \cap Exits \subseteq throws
<1>0. \A b \in Blocks : succ[b] \subseteq Blocks  BY DEF Graph, Edges
<1>6. SoundNow(r, K)  BY <1>0, <1>2, <1>5 DEF Stays, Unplaced
<1>7. ASSUME NEW q \in Names \ {r} PROVE SoundNow(q, kept[q])
  <2>1. Sound(q, kept[q]) /\ kept[q] \in SUBSET Blocks  BY <1>1
  <2> QED  BY <1>0, <1>5, <2>1 DEF Sound
<1> HIDE DEF k
<1>8. \A q \in Names : SoundNow(q, k[q])  BY <1>3, <1>6, <1>7
<1>9. \A q \in Names : Sound(q, k[q])'
  BY <1>4, <1>8 DEF Sound
<1>10. Kept(k)'  BY <1>3, <1>4, <1>9 DEF Kept
<1> QED  BY <1>10 DEF k

\* A new name at the head of a block that has each name once.
LEMMA InsertOnce ==
    ASSUME CodeTyped, StartsOnce, NEW r \in Names, NEW s \in Blocks, NEW E, Insert(r, s, E), Unplaced(r), succ' = succ
    PROVE  StartsOnce'
<1>1. ASSUME NEW b \in Blocks, NEW i \in 1..Len(starts'[b]), NEW j \in 1..Len(starts'[b]), starts'[b][i] = starts'[b][j]
      PROVE  i = j
  <2>1. starts[b] \in Seq(Names) /\ DOMAIN starts = Blocks  BY DEF CodeTyped
  <2>2. starts'[b] = IF b = s THEN <<r>> \o starts[b] ELSE starts[b]  BY <2>1 DEF Insert
  <2>3. CASE b # s  BY <1>1, <2>2, <2>3 DEF StartsOnce
  <2>4. CASE b = s
    <3> DEFINE q == <<r>> \o starts[b]
               m == Len(starts[b])
    <3>1. m \in Nat /\ Len(q) = m + 1  BY <2>1
    <3>2. q[1] = r /\ \A x \in 2..(m + 1) : x - 1 \in 1..m /\ q[x] = starts[b][x - 1]  BY <2>1
    <3>3. \A x \in 1..m : starts[b][x] # r  BY <2>1 DEF Unplaced, Range
    <3>4. \A x, y \in 1..m : starts[b][x] = starts[b][y] => x = y  BY DEF StartsOnce
    <3>5. i \in 1..(m + 1) /\ j \in 1..(m + 1) /\ q[i] = q[j]  BY <1>1, <2>2, <2>4, <3>1
    <3> HIDE DEF q, m
    <3>6. CASE i = 1 /\ j = 1  BY <3>6
    <3>7. CASE i = 1 /\ j # 1
      <4>1. j \in 2..(m + 1)  BY <3>1, <3>5, <3>7
      <4> QED  BY <3>2, <3>3, <3>5, <3>7, <4>1
    <3>8. CASE i # 1 /\ j = 1
      <4>1. i \in 2..(m + 1)  BY <3>1, <3>5, <3>8
      <4> QED  BY <3>2, <3>3, <3>5, <3>8, <4>1
    <3>9. CASE i # 1 /\ j # 1
      <4>1. i \in 2..(m + 1) /\ j \in 2..(m + 1)  BY <3>1, <3>5, <3>9
      <4>2. i - 1 \in 1..m /\ j - 1 \in 1..m /\ starts[b][i - 1] = starts[b][j - 1]  BY <3>2, <3>5, <4>1
      <4>3. i - 1 = j - 1  BY <3>4, <4>2
      <4> QED  BY <3>1, <4>1, <4>3
    <3> QED  BY <3>6, <3>7, <3>8, <3>9
  <2> QED  BY <2>3, <2>4
<1> QED  BY <1>1 DEF StartsOnce, Blocks

\* The names of a sequence: as many as it is long if none comes twice, else fewer.
LEMMA NamesOf ==
    ASSUME NEW X, NEW q \in Seq(X)
    PROVE  /\ IsFiniteSet(Range(q)) /\ Cardinality(Range(q)) <= Len(q)
           /\ (\A i, j \in 1..Len(q) : q[i] = q[j] => i = j) => Cardinality(Range(q)) = Len(q)
<1>1. Len(q) \in Nat /\ DOMAIN q = 1..Len(q) /\ q \in [1..Len(q) -> X]  OBVIOUS
<1>2. IsFiniteSet(1..Len(q)) /\ Cardinality(1..Len(q)) = Len(q)  BY <1>1, FS_Interval
<1>3. q \in Surjection(1..Len(q), Range(q))  BY <1>1 DEF Surjection, Range
<1>4. IsFiniteSet(Range(q)) /\ Cardinality(Range(q)) <= Len(q)  BY <1>2, <1>3, FS_Surjection
<1>5. ASSUME \A i, j \in 1..Len(q) : q[i] = q[j] => i = j PROVE Cardinality(Range(q)) = Len(q)
  <2>1. q \in Bijection(1..Len(q), Range(q))
    BY <1>1, <1>3, <1>5 DEF Bijection, Injection, IsInjective, Surjection
  <2> QED  BY <1>2, <2>1, FS_Bijection DEF ExistsBijection
<1> QED  BY <1>4, <1>5

\* Opening the regions in one set, and closing those of another.
LEMMA CountStep ==
    ASSUME NEW N, IsFiniteSet(N), NEW Q \in SUBSET N, NEW Q2 \in SUBSET N,
           NEW o \in Seq(N), NEW e \in Seq(N),
           \A i, j \in 1..Len(o) : o[i] = o[j] => i = j,
           Q \cap Range(o) = {}, \A r \in Q \cup Range(o) : r \in Q2 \/ r \in Range(e)
    PROVE  Cardinality(Q) + Len(o) <= Cardinality(Q2) + Len(e)
<1>1. Range(o) \in SUBSET N  BY DEF Range
<1>2. /\ IsFiniteSet(Q) /\ IsFiniteSet(Q2) /\ IsFiniteSet(Range(o)) /\ IsFiniteSet(Range(e))
  BY FS_Subset, NamesOf
<1>3. Cardinality(Range(o)) = Len(o) /\ Cardinality(Range(e)) <= Len(e)  BY NamesOf
<1>4. /\ Cardinality(Q) \in Nat /\ Cardinality(Q2) \in Nat /\ Len(o) \in Nat /\ Len(e) \in Nat
      /\ Cardinality(Range(e)) \in Nat
  BY <1>2, FS_CardinalityType
<1> DEFINE V == Q \cup Range(o)
           W == Q2 \cup Range(e)
<1>5. IsFiniteSet(V) /\ Cardinality(V) = Cardinality(Q) + Len(o)
  <2>1. Cardinality(Q \cap Range(o)) = 0  BY FS_EmptySet
  <2>2. /\ IsFiniteSet(V)
        /\ Cardinality(V) = Cardinality(Q) + Cardinality(Range(o)) - Cardinality(Q \cap Range(o))
    BY <1>2, FS_Union
  <2> QED  BY <1>3, <1>4, <2>1, <2>2
<1>6. IsFiniteSet(W) /\ Cardinality(W) <= Cardinality(Q2) + Len(e)
  <2>1. /\ IsFiniteSet(W) /\ IsFiniteSet(Q2 \cap Range(e))
        /\ Cardinality(W) = Cardinality(Q2) + Cardinality(Range(e)) - Cardinality(Q2 \cap Range(e))
    <3>1. IsFiniteSet(Q2 \cap Range(e))  BY <1>2, FS_Subset
    <3> QED  BY <1>2, <3>1, FS_Union
  <2>2. Cardinality(Q2 \cap Range(e)) \in Nat  BY <2>1, FS_CardinalityType
  <2> QED  BY <1>3, <1>4, <2>1, <2>2
<1>7. Cardinality(V) <= Cardinality(W) /\ Cardinality(V) \in Nat /\ Cardinality(W) \in Nat
  <2>1. V \subseteq W  OBVIOUS
  <2> HIDE DEF V, W
  <2> QED  BY <1>5, <1>6, <2>1, FS_Subset, FS_CardinalityType
<1> QED  BY <1>4, <1>5, <1>6, <1>7

\* What the analysis found stays true while the code is rewritten and run.
LEMMA AnalysedStays ==
    ASSUME Analysed, UNCHANGED funVars
    PROVE  Analysed'
<1>0. /\ succ' = succ /\ throws' = throws /\ dom' = dom /\ pdom' = pdom
      /\ at' = at /\ uses' = uses /\ flow' = flow /\ Blocks' = Blocks /\ Exits' = Exits
  BY DEF funVars, Blocks, Exits
<1>1. TablesInv'  BY <1>0 DEF Analysed, TablesInv
<1>2. OrderInv'  BY <1>0 DEF Analysed, OrderInv
<1>3. LeaveInv'  BY <1>0 DEF Analysed, LeaveInv, LeavesBy
<1>4. ForwardInv'  BY <1>0 DEF Analysed, ForwardInv, Rounds
<1>5. PlacesInv'
  <2>1. \A a \in Allocs : PlacedAt(a)'  BY <1>0 DEF Analysed, PlacesInv, PlacedAt
  <2> QED  BY <2>1 DEF PlacesInv
<1>6. EdgesInv'  BY <1>0 DEF Analysed, EdgesInv
<1>7. JoinInv'
  <2>1. \A Z, J : LeadTo(Z, J)' = LeadTo(Z, J)  BY <1>0 DEF LeadTo
  <2> HIDE DEF LeadTo
  <2> QED  BY <1>0, <2>1 DEF Analysed, JoinInv
<1> QED  BY <1>1, <1>2, <1>3, <1>4, <1>5, <1>6, <1>7 DEF Analysed

\* Executing a block: what is open afterwards may be.
LEMMA ExecBalances ==
    ASSUME Graph, CodeTyped, StackTyped, BalanceInv, NEW b \in Blocks, NEW poison \in BOOLEAN, Goto(b, poison)
    PROVE  BalanceInv'
<1>1. PICK kept : Kept(kept) /\ StackInv(kept)  BY DEF BalanceInv
<1>2. /\ starts[b] \in Seq(Names) /\ ends[b] \in Seq(Names) /\ stack \in Seq(Names)
      /\ IsFiniteSet(Names)
  <2>1. IsFiniteSet(Names)  BY RegionAssumption, FS_AddElement DEF Names
  <2> QED  BY <2>1 DEF CodeTyped, StackTyped
<1>3. kept \in [Names -> SUBSET Blocks] /\ \A r \in Names : Sound(r, kept[r])  BY <1>1 DEF Kept
<1> DEFINE Q2 == OpenAt(kept, b)
<1>4. PICK Q \in SUBSET Names :
           /\ Len(stack) <= Cardinality(Q)
           /\ Q \cap Range(starts[b]) = {} /\ \A r \in Q : b \in kept[r] \/ r \in Range(ends[b])
  <2>1. CASE pc = "run"
    <3>1. stack = <<>>  BY <1>1, <2>1 DEF StackInv
    <3>2. Len(stack) <= Cardinality({})  BY <3>1, FS_EmptySet
    <3>3. {} \in SUBSET Names /\ {} \cap Range(starts[b]) = {} /\ \A r \in {} : b \in kept[r] \/ r \in Range(ends[b])
      OBVIOUS
    <3> QED  BY <3>2, <3>3
  <2>2. CASE pc = "at" /\ b \in succ[here]
    <3>1. Len(stack) <= Cardinality(OpenAt(kept, here))  BY <1>1, <2>2 DEF StackInv
    <3>2. ASSUME NEW r \in OpenAt(kept, here)
          PROVE  r \in Names /\ (b \in kept[r] \/ r \in Range(ends[b])) /\ r \notin Range(starts[b])
      BY <1>3, <2>2, <3>2 DEF OpenAt, Sound
    <3>3. OpenAt(kept, here) \in SUBSET Names /\ OpenAt(kept, here) \cap Range(starts[b]) = {}  BY <3>2
    <3> QED  BY <3>1, <3>2, <3>3
  <2> QED  BY <2>1, <2>2 DEF Goto, Comes
<1>5. Cardinality(Q) + Len(starts[b]) <= Cardinality(Q2) + Len(ends[b])
  <2>1. \A r \in Q \cup Range(starts[b]) : r \in Q2 \/ r \in Range(ends[b])
    <3>1. ASSUME NEW r \in Range(starts[b]) PROVE r \in Names /\ (b \in kept[r] \/ r \in Range(ends[b]))
      <4>1. r \in Names  BY <1>2 DEF Range
      <4> QED  BY <1>3, <4>1 DEF Sound
    <3> QED  BY <1>4, <3>1 DEF OpenAt
  <2>2. \A i, j \in 1..Len(starts[b]) : starts[b][i] = starts[b][j] => i = j  BY DEF BalanceInv, StartsOnce
  <2>3. Q2 \in SUBSET Names  BY DEF OpenAt
  <2> HIDE DEF Q2
  <2> QED  BY <1>2, <1>4, <2>1, <2>2, <2>3, CountStep
<1>6. Cardinality(Q) \in Nat /\ Cardinality(Q2) \in Nat
  <2>1. Q2 \in SUBSET Names  BY DEF OpenAt
  <2> QED  BY <1>2, <2>1, FS_Subset, FS_CardinalityType
<1> DEFINE o == Opened(b)
           keep == Len(o) - Least(Len(ends[b]), Len(o))
<1>7. o \in Seq(Names) /\ Len(o) = Len(stack) + Len(starts[b])  BY <1>2 DEF Opened
<1>8. /\ stack' = SubSeq(o, 1, keep) /\ pc' = (IF succ[b] = {} THEN "done" ELSE "at") /\ here' = b
      /\ succ' = succ /\ throws' = throws /\ starts' = starts /\ ends' = ends /\ todo' = todo
  BY DEF Goto, ExecBlock, funVars, codeVars
<1> HIDE DEF o, Q2
<1>9. keep \in 0..Len(o) /\ keep <= Cardinality(Q2)
  <2>1. Len(stack) \in Nat /\ Len(starts[b]) \in Nat /\ Len(ends[b]) \in Nat  BY <1>2
  <2>2. Len(o) \in Nat /\ Len(o) <= Cardinality(Q2) + Len(ends[b])  BY <1>4, <1>5, <1>6, <1>7, <2>1
  <2>3. CASE Len(ends[b]) < Len(o)  BY <1>6, <2>1, <2>2, <2>3 DEF Least
  <2>4. CASE ~(Len(ends[b]) < Len(o))  BY <1>6, <2>1, <2>2, <2>4 DEF Least
  <2> QED  BY <2>3, <2>4
<1> HIDE DEF keep
<1>10. stack' \in Seq(Names) /\ Len(stack') = keep  BY <1>7, <1>8, <1>9
<1>11. ASSUME succ[b] = {} PROVE stack' = <<>>
  <2>1. b \in Exits /\ b \notin throws  BY <1>11 DEF Exits, Goto
  <2>2. Q2 = {}  BY <1>3, <2>1 DEF Q2, OpenAt, Sound
  <2>3. Len(stack') = 0  BY <1>9, <1>10, <2>2, FS_EmptySet
  <2> QED  BY <1>10, <2>3
<1>12. Kept(kept)'  BY <1>1, <1>8 DEF Kept, Sound, Blocks, Exits, Names
<1>13. StackInv(kept)'
  <2>1. pc' = "at" => Len(stack') <= Cardinality(Q2) /\ here' \in Blocks'  BY <1>8, <1>9, <1>10 DEF Blocks
  <2>2. OpenAt(kept, here)' = Q2  BY <1>8 DEF Q2, OpenAt, Names
  <2> QED  BY <1>8, <2>1, <2>2 DEF StackInv
<1>14. ReturnsBalanced'  BY <1>8, <1>11 DEF ReturnsBalanced
<1>15. StartsOnce'  BY <1>8 DEF BalanceInv, StartsOnce, Blocks
<1>16. NotYetInv'  BY <1>8 DEF BalanceInv, NotYetInv, Unplaced, Blocks
<1>17. Analysed'
  <2>1. pc # "analyse" /\ UNCHANGED funVars  BY DEF Goto, Comes, ExecBlock
  <2> QED  BY <2>1, AnalysedStays DEF BalanceInv
<1> QED  BY <1>12, <1>13, <1>14, <1>15, <1>16, <1>17 DEF BalanceInv

\* A step of the pass that inserts a region.
LEMMA InsertBalances ==
    ASSUME Graph, CodeTyped, BalanceInv, pc = "optimize", NEW r \in Names, NEW s \in Blocks, NEW E, Insert(r, s, E),
           NEW K, Stays(K, s, E), UNCHANGED <<succ, throws, stack>>,
           r \in todo \/ r = Fn, r \notin todo', todo' \subseteq todo,
           Analysed', pc' = "optimize" => r # Fn, pc' \in {"optimize", "run"}
    PROVE  BalanceInv'
<1>1. PICK kept : Kept(kept) /\ StackInv(kept)  BY DEF BalanceInv
<1>2. StartsOnce /\ NotYetInv /\ Unplaced(r) /\ stack = <<>>  BY <1>1 DEF BalanceInv, NotYetInv, StackInv
<1>3. Kept([kept EXCEPT ![r] = K])'  BY <1>1, <1>2, InsertSound
<1>4. StackInv([kept EXCEPT ![r] = K])'  BY <1>2 DEF StackInv
<1>5. StartsOnce'  BY <1>2, InsertOnce
<1>6. NotYetInv'
  <2>2. ASSUME NEW q, q # r, Unplaced(q) PROVE Unplaced(q)'  BY <2>2, InsertNothingElse
  <2>3. todo' \subseteq Allocs /\ \A a \in todo' : Unplaced(a)'  BY <1>2, <2>2 DEF NotYetInv
  <2>4. pc' \in {"analyse", "optimize"} => Unplaced(Fn)'  BY <1>2, <2>2 DEF NotYetInv
  <2> QED  BY <2>3, <2>4 DEF NotYetInv
<1>7. ReturnsBalanced'  BY DEF ReturnsBalanced
<1> QED  BY <1>3, <1>4, <1>5, <1>6, <1>7 DEF BalanceInv

\* A step of the pass that inserts nothing.
LEMMA QuietBalances ==
    ASSUME BalanceInv, UNCHANGED <<succ, throws, stack, here, starts, ends>>, todo' \subseteq todo,
           pc' # "analyse" => Analysed',
           \/ pc' = pc
           \/ pc = "analyse" /\ pc' = "optimize"
           \/ pc = "optimize" /\ pc' = "run"
    PROVE  BalanceInv'
<1>1. PICK kept : Kept(kept) /\ StackInv(kept)  BY DEF BalanceInv
<1>2. Kept(kept)'  BY <1>1 DEF Kept, Sound, Blocks, Exits, Names
<1>3. StackInv(kept)'  BY <1>1 DEF StackInv, OpenAt, Names, Blocks
<1>4. StartsOnce'  BY DEF BalanceInv, StartsOnce, Blocks
<1>5. NotYetInv'  BY DEF BalanceInv, NotYetInv, Unplaced, Blocks
<1>6. ReturnsBalanced'  BY DEF BalanceInv, ReturnsBalanced
<1> QED  BY <1>2, <1>3, <1>4, <1>5, <1>6 DEF BalanceInv

\* Of the regions open after a block each is one that may be open there, and none
\* may be where a function returns: for the graphs lowering emits, where every loop
\* has one header.
LEMMA BalanceInit ==
    ASSUME Init
    PROVE  BalanceInv
<1> DEFINE kept == [r \in Names |-> {}]
<1>2. \A b \in Blocks : starts[b] = <<>> /\ Range(starts[b]) = {}  BY DEF Init, Range
<1>3. Kept(kept)  BY <1>2 DEF Kept, Sound
<1>4. StackInv(kept) /\ ReturnsBalanced /\ pc = "analyse"  BY DEF Init, StackInv, ReturnsBalanced
<1>5. StartsOnce  BY <1>2 DEF StartsOnce
<1>6. NotYetInv  BY <1>2 DEF Init, NotYetInv, Unplaced
<1> QED  BY <1>3, <1>4, <1>5, <1>6 DEF BalanceInv

LEMMA BalanceStep ==
    ASSUME \A c \in Cfgs : Structured(c), SuccInv, PublishInv, BalanceInv, [Next]_vars
    PROVE  BalanceInv'
<1>0. Graph /\ CodeTyped /\ StackTyped /\ Structured(succ)  BY SuccGraph DEF PublishInv, SuccInv
<1>1. CASE Analyse
  <2>1. Analysed'  BY <1>0, <1>1, AnalyseGives
  <2>2. /\ UNCHANGED <<succ, throws, stack, here, starts, ends>> /\ todo' \subseteq todo
        /\ pc = "analyse" /\ pc' = "optimize"
    BY <1>1 DEF Analyse, codeVars
  <2> QED  BY <2>1, <2>2, QuietBalances
<1>2. ASSUME NEW a \in Allocs, EmitRegion(a) PROVE BalanceInv'
  <2>1. /\ UNCHANGED funVars /\ UNCHANGED <<succ, throws, stack, here>> /\ pc = "optimize" /\ pc' = pc
        /\ a \in todo /\ todo' = todo \ {a}
    BY <1>2 DEF EmitRegion, funVars
  <2>2. Analysed /\ Analysed'  BY <2>1, AnalysedStays DEF BalanceInv
  <2>3. CASE UNCHANGED <<starts, ends>>  BY <2>1, <2>2, <2>3, QuietBalances
  <2>4. ASSUME NEW w \in Scope(a), Insert(a, w[1], {w[2]}) PROVE BalanceInv'
    <3> DEFINE s == w[1]
               e == w[2]
    <3>0. ScopeOf(a, s, e)  BY <1>0, <2>2, <2>4, ScopeIs
    <3>i. Insert(a, s, {e})  BY <2>4
    <3> HIDE DEF s, e
    <3>1. PICK K : Stays(K, s, {e})  BY <1>0, <2>2, <3>0, ScopeStays
    <3>2. s \in Blocks  BY <2>2, <3>0 DEF ScopeOf, Analysed, TablesInv
    <3>3. a \in Names /\ a # Fn  BY RegionAssumption DEF Names
    <3> QED  BY <1>0, <2>1, <2>2, <3>i, <3>1, <3>2, <3>3, InsertBalances
  <2> QED  BY <1>2, <2>3, <2>4 DEF EmitRegion
<1>3. ASSUME NEW x \in BOOLEAN, WrapFunction(x) PROVE BalanceInv'
  <2>1. /\ UNCHANGED <<succ, throws, stack, here>> /\ pc = "optimize" /\ pc' = "run" /\ todo = {} /\ todo' = todo
    BY <1>3 DEF WrapFunction, funVars
  <2>a. Analysed'
    <3>1. UNCHANGED funVars  BY <1>3 DEF WrapFunction
    <3> QED  BY <2>1, <3>1, AnalysedStays DEF BalanceInv
  <2>2. CASE UNCHANGED <<starts, ends>>  BY <2>1, <2>a, <2>2, QuietBalances
  <2>3. CASE Insert(Fn, 0, Exits \ throws)
    <3>1. Stays(Blocks \ (Exits \ throws), 0, Exits \ throws)
      <4>1. \A b \in Blocks : succ[b] \subseteq Blocks /\ 0 \notin succ[b]  BY <1>0, Ranked DEF Graph, Edges
      <4> QED  BY <1>0, <4>1 DEF Stays, Graph
    <3>2. 0 \in Blocks /\ Fn \in Names /\ Fn \notin todo'  BY <1>0, <2>1 DEF Graph, Names
    <3> QED  BY <1>0, <2>1, <2>a, <2>3, <3>1, <3>2, InsertBalances
  <2> QED  BY <1>3, <2>2, <2>3 DEF WrapFunction
<1>4. ASSUME NEW b \in Blocks, NEW p \in BOOLEAN, Goto(b, p) PROVE BalanceInv'  BY <1>0, <1>4, ExecBalances
<1>5. ASSUME NEW b \in Blocks, NEW p \in BOOLEAN, Raise(b, p) PROVE BalanceInv'
  <2>1. /\ UNCHANGED <<succ, throws, starts, ends, todo>> /\ pc' = "raised"
    BY <1>5 DEF Raise, funVars, codeVars
  <2>2. PICK kept : Kept(kept)  BY DEF BalanceInv
  <2>3. Kept(kept)'  BY <2>1, <2>2 DEF Kept, Sound, Blocks, Exits, Names
  <2>4. StackInv(kept)' /\ ReturnsBalanced'  BY <2>1 DEF StackInv, ReturnsBalanced
  <2>7. Analysed'
    <3>1. pc # "analyse" /\ UNCHANGED funVars  BY <1>5 DEF Raise, Comes
    <3> QED  BY <3>1, AnalysedStays DEF BalanceInv
  <2>5. StartsOnce'  BY <2>1 DEF BalanceInv, StartsOnce, Blocks
  <2>6. NotYetInv'  BY <2>1 DEF BalanceInv, NotYetInv, Unplaced, Blocks
  <2> QED  BY <2>3, <2>4, <2>5, <2>6, <2>7 DEF BalanceInv
<1>6. CASE UNCHANGED vars
  <2>1. /\ UNCHANGED funVars /\ UNCHANGED <<succ, throws, stack, here, starts, ends>>
        /\ todo' \subseteq todo /\ pc' = pc
    BY <1>6 DEF vars, funVars, codeVars
  <2>2. pc' # "analyse" => Analysed'  BY <2>1, AnalysedStays DEF BalanceInv
  <2> QED  BY <2>1, <2>2, QuietBalances
<1> QED  BY <1>1, <1>2, <1>3, <1>4, <1>5, <1>6 DEF Next

-----------------------------------------------------------------------------
(* No use comes after the region is freed *)

\* Z has, with a block, what follows it other than s.
Onward(Z, s) == Z \in SUBSET Blocks /\ \A b \in Z : succ[b] \ {s} \subseteq Z
Follows(s, b, c) == \A Z : Onward(Z, s) /\ b \in Z => c \in Z

\* The code of the regions: a region opens where all that needs it is dominated,
\* the phis strictly; and from every use on the path the end is still to come.
UsesLead(a, s, e) ==
    \A u \in Relevant(a) : (e \in pdom[u] /\ OffPath(s, e, u)) \/ Follows(s, u, e)
Covers(a, s) == s \in dom[at[a]] /\ \A f \in flow[a] : s \in dom[f[2]] /\ s # f[2]
PlacedOK(a, s) == Covers(a, s) /\ \A e \in Blocks : a \in Range(ends[e]) => UsesLead(a, s, e)
PlacedInv ==
    \A a \in scoped : /\ a \in Allocs /\ \E s \in Blocks : a \in Range(starts[s])
                      /\ \A s \in Blocks : a \in Range(starts[s]) => PlacedOK(a, s)

\* Since it was at the start s the execution has been at an end of the scope.
Past(a, s, b) == \E e \in Blocks : a \in Range(ends[e]) /\ Follows(s, e, b)

\* Only a scope gives a value a region.  Where the start of a scope dominates, its
\* region is open or its end has passed; and so it has where a freed value, of the
\* allocation or of a phi, can be named.
Regional == {"region", "freed"}
ValInv ==
    /\ \A a \in Allocs : /\ DOMAIN phi[a] = Blocks
                         /\ val[a] \in Regional => a \in scoped
                         /\ \A j \in Blocks : phi[a][j] \in Regional => a \in scoped
    /\ pc \in {"analyse", "optimize", "run"} =>
           dead = {} /\ \A a \in Allocs : val[a] = "none" /\ \A j \in Blocks : phi[a][j] = "none"
    /\ pc = "analyse" => scoped = {}
UnendedInv == \A a \in todo : \A b \in Blocks : a \notin Range(ends[b])
OpenInv ==
    /\ pc = "at" => here \in DOMAIN dom
    /\ ~crossed /\ pc = "at" =>
           \A a \in scoped : \A s \in Blocks : a \in Range(starts[s]) =>
               a \in Range(stack) \/ s \notin dom[here] \/ Past(a, s, here)
FreedInv ==
    ~crossed /\ pc = "at" =>
        \A a \in Allocs : \A s \in Blocks : a \in Range(starts[s]) =>
            /\ val[a] = "freed" => at[a] \notin dom[here] \/ Past(a, s, here)
            /\ \A j \in Joins(a) : phi[a][j] = "freed" => j \notin dom[here] \/ Past(a, s, here)
Exempt(a) == aliases[a] # {} \/ EndsInLoop(a) \/ UsedAround(a)
DeadInv == \A a \in dead : crossed \/ Exempt(a)
LiveInv == UnendedInv /\ PlacedInv /\ ValInv /\ OpenInv /\ FreedInv /\ DeadInv

\* A step back to a use is a step back to the end.
LEMMA EndComesAgain ==
    ASSUME NEW s, NEW e \in Blocks, NEW h, NEW b \in succ[h], b # s,
           Follows(s, e, h), Follows(s, b, e)
    PROVE  ComesAgain(s, e)
<1>1. SUFFICES ASSUME NEW Z \in SUBSET Blocks, \A c \in Z \cup {e} : succ[c] \ {s} \subseteq Z
               PROVE  e \in Z
  BY DEF ComesAgain
<1>2. Onward(Z \cup {e}, s) /\ Onward(Z, s)  BY <1>1 DEF Onward
<1>3. h \in Z \cup {e}  BY <1>2 DEF Follows
<1>4. b \in Z  BY <1>1, <1>3
<1> QED  BY <1>2, <1>4 DEF Follows

\* The end follows every use in the scope.
LEMMA ScopeLeads ==
    ASSUME Graph, Analysed, NEW a \in Allocs, NEW s, NEW e, ScopeOf(a, s, e)
    PROVE  UsesLead(a, s, e)
<1>1. \A u \in Relevant(a) : e \in pdom[u]  BY DEF ScopeOf
<1>2. PICK K : /\ Stays(K, s, {e}) /\ Moves(K)
               /\ \A u \in Relevant(a) : OffPath(s, e, u) \/ u \in K \cup {e}
  BY ScopeStays
<1>3. ASSUME NEW u \in K \cup {e} PROVE Follows(s, u, e)
  <2>1. SUFFICES ASSUME NEW Z, Onward(Z, s), u \in Z PROVE e \in Z  BY DEF Follows
  <2>2. CASE u = e  BY <2>1, <2>2
  <2>3. CASE u \in K
    <3> DEFINE X == K \cap Z
    <3>1. X \in SUBSET K /\ X # {}  BY <2>1, <2>3
    <3>2. PICK b \in X : \E t \in succ[b] : t \notin X  BY <1>2, <3>1 DEF Moves
    <3>3. PICK t \in succ[b] : t \notin X  BY <3>2
    <3>4. t \in K \cup {e} /\ t # s  BY <1>2, <3>3 DEF Stays
    <3>5. t \in Z  BY <2>1, <3>3, <3>4 DEF Onward
    <3> QED  BY <3>3, <3>4, <3>5
  <2> QED  BY <1>3, <2>2, <2>3
<1> QED  BY <1>1, <1>2, <1>3 DEF UsesLead

\* The start dominates the allocation and, strictly, the phis: a phi at the start
\* would be a loop's, and a scope holds no loop.
LEMMA ScopeCovers ==
    ASSUME Graph, Analysed, NEW a \in Allocs, NEW s, NEW e, ScopeOf(a, s, e)
    PROVE  Covers(a, s)
<1>1. s \in DOMAIN dom /\ PlacedAt(a) /\ \A c \in Relevant(a) : s \in dom[c]  BY DEF ScopeOf, Analysed, PlacesInv
<1>2. s \in dom[at[a]] /\ at[a] \in DOMAIN dom  BY <1>1 DEF Relevant, PlacedAt
<1>3. ASSUME NEW f \in flow[a] PROVE s \in dom[f[2]] /\ s # f[2]
  <2>1. /\ f[1] \in DOMAIN dom /\ f[2] \in succ[f[1]] /\ f[2] \in uses[a] /\ uses[a] \subseteq DOMAIN dom
        /\ f[2] \in dom[f[1]] => f[1] \in uses[a]
        /\ at[a] \in dom[f[1]] \/ \E g \in flow[a] : g[2] \in uses[a] /\ g[2] \in dom[f[1]]
    BY <1>1 DEF PlacedAt
  <2>2. s \in dom[f[2]]  BY <1>1, <2>1 DEF Relevant
  <2>3. s \in dom[f[1]]
    <3>1. CASE at[a] \in dom[f[1]]  BY <1>1, <1>2, <2>1, <3>1 DEF Analysed, OrderInv
    <3>2. ASSUME NEW g \in flow[a], g[2] \in uses[a], g[2] \in dom[f[1]] PROVE s \in dom[f[1]]
      <4>1. s \in dom[g[2]] /\ g[2] \in DOMAIN dom  BY <1>1, <2>1, <3>2 DEF Relevant
      <4> QED  BY <1>1, <2>1, <3>2, <4>1 DEF Analysed, OrderInv
    <3> QED  BY <2>1, <3>1, <3>2
  <2>4. ASSUME s = f[2] PROVE FALSE
    <3>1. f[1] \in Relevant(a) /\ f[2] \in Relevant(a)  BY <2>1, <2>3, <2>4 DEF Relevant
    <3>2. f[2] \notin dom[f[1]]  BY <2>1, <3>1 DEF ScopeOf
    <3> QED  BY <2>3, <2>4, <3>2
  <2> QED  BY <2>2, <2>4
<1> QED  BY <1>2, <1>3 DEF Covers

\* The regions a block closes, if innermost first, are those it names; what it does
\* not name stays open.
LEMMA DoomedAreNamed ==
    ASSUME NEW X, NEW o \in Seq(X), NEW q \in Seq(X), NEW w \in Nat,
           Popped(o, Least(Len(q), Len(o))) = q
    PROVE  /\ Doomed(o, Len(o) - Least(Len(q), Len(o)), w) \subseteq Range(q)
           /\ Range(o) \subseteq Range(SubSeq(o, 1, Len(o) - Least(Len(q), Len(o)))) \cup Range(q)
<1> DEFINE n == Least(Len(q), Len(o))
<1>1. Len(o) \in Nat /\ Len(q) \in Nat /\ DOMAIN q = 1..Len(q)  OBVIOUS
<1>2. n \in Nat /\ n <= Len(o)  BY <1>1 DEF Least
<1>3. q = [i \in 1..n |-> o[Len(o) - i + 1]]  BY DEF Popped
<1> HIDE DEF n
<1>0. ASSUME NEW i \in (Len(o) - n + 1)..Len(o) PROVE o[i] \in Range(q)
  <2>2. Len(o) - i + 1 \in 1..n /\ Len(o) - (Len(o) - i + 1) + 1 = i  BY <1>1, <1>2, <1>0
  <2>3. q[Len(o) - i + 1] = o[i] /\ Len(o) - i + 1 \in DOMAIN q  BY <1>3, <2>2
  <2> QED  BY <2>3 DEF Range
<1>4. ASSUME NEW x \in Doomed(o, Len(o) - n, w) PROVE x \in Range(q)
  <2>1. PICK i \in (Len(o) - n + 1)..Len(o) : x = o[i]  BY <1>4 DEF Doomed
  <2> QED  BY <1>0, <2>1
<1>5. ASSUME NEW x \in Range(o) PROVE x \in Range(SubSeq(o, 1, Len(o) - n)) \cup Range(q)
  <2> DEFINE k == Len(o) - n
             r == SubSeq(o, 1, k)
  <2>1. PICK i \in 1..Len(o) : x = o[i]  BY <1>5 DEF Range
  <2>2. k \in 0..Len(o)  BY <1>1, <1>2
  <2>3. DOMAIN r = 1..k /\ \A m \in 1..k : r[m] = o[m]
    <3> HIDE DEF k
    <3> QED  BY <1>1, <2>2
  <2>4. i \in 1..k \/ i \in (Len(o) - n + 1)..Len(o)  BY <1>1, <1>2, <2>1
  <2>5. CASE i \in 1..k
    <3> HIDE DEF k, r
    <3>1. x \in Range(r)  BY <2>1, <2>3, <2>5 DEF Range
    <3> QED  BY <3>1 DEF k, r
  <2>6. CASE i \in (Len(o) - n + 1)..Len(o)  BY <1>0, <2>1, <2>6
  <2> QED  BY <2>4, <2>5, <2>6
<1> QED  BY <1>4, <1>5 DEF n

\* What was open or is opened is open in the block.
LEMMA OpenedHas ==
    ASSUME CodeTyped, StackTyped, NEW b \in Blocks
    PROVE  Opened(b) \in Seq(Names) /\ Range(stack) \cup Range(starts[b]) \subseteq Range(Opened(b))
<1>1. stack \in Seq(Names) /\ starts[b] \in Seq(Names)  BY DEF CodeTyped, StackTyped
<1> DEFINE o == stack \o starts[b]
<1>2. Opened(b) = o /\ o \in Seq(Names)  BY <1>1 DEF Opened
<1>3. ASSUME NEW x \in Range(starts[b]) PROVE x \in Range(o)
  <2>1. PICK i \in 1..Len(starts[b]) : x = starts[b][i]  BY <1>1, <1>3 DEF Range
  <2>2. Len(stack) + i \in DOMAIN o /\ o[Len(stack) + i] = starts[b][i]  BY <1>1
  <2> HIDE DEF o
  <2> QED  BY <2>1, <2>2 DEF Range
<1>4. ASSUME NEW x \in Range(stack) PROVE x \in Range(o)
  <2>1. PICK i \in 1..Len(stack) : x = stack[i]  BY <1>1, <1>4 DEF Range
  <2>2. i \in DOMAIN o /\ o[i] = stack[i]  BY <1>1
  <2> HIDE DEF o
  <2> QED  BY <2>1, <2>2 DEF Range
<1> HIDE DEF o
<1> QED  BY <1>2, <1>3, <1>4

\* A dominator of the next block is the block, or dominates the block before; and
\* the entry has none but itself.
LEMMA ComesBelow ==
    ASSUME Analysed, LiveInv, NEW b \in Blocks, Comes(b)
    PROVE  /\ b \in DOMAIN dom
           /\ \A x \in dom[b] : x = b \/ (pc = "at" /\ b \in succ[here] /\ here \in DOMAIN dom /\ x \in dom[here])
<1>1. CASE pc = "run" /\ b = 0  BY <1>1 DEF Analysed, TablesInv
<1>2. CASE pc = "at" /\ b \in succ[here]
  <2>1. here \in DOMAIN dom  BY <1>2 DEF LiveInv, OpenInv
  <2>2. b \in DOMAIN dom /\ dom[b] \subseteq DOMAIN dom  BY <1>2, <2>1 DEF Analysed, TablesInv
  <2> QED  BY <1>2, <2>1, <2>2 DEF Analysed, EdgesInv
<1> QED  BY <1>1, <1>2 DEF Comes

\* A region that is not open in a block its start dominates has ended.
LEMMA OpenOrPast ==
    ASSUME Analysed, CodeTyped, StackTyped, LiveInv, ~crossed, NEW b \in Blocks, Comes(b),
           NEW a \in scoped, NEW s \in Blocks, a \in Range(starts[s]), s \in dom[b], a \notin Range(Opened(b))
    PROVE  pc = "at" /\ b \in succ[here] /\ b # s /\ Past(a, s, here)
<1>1. b # s /\ a \notin Range(stack)  BY OpenedHas
<1>2. pc = "at" /\ b \in succ[here] /\ s \in dom[here]  BY <1>1, ComesBelow
<1> QED  BY <1>1, <1>2 DEF LiveInv, OpenInv

\* A block names a freed value only on a way from the end of its scope that has not
\* come to its start.
LEMMA HeldFreed ==
    ASSUME Analysed, CodeTyped, StackTyped, LiveInv, ~crossed, NEW b \in Blocks, Comes(b),
           NEW a \in scoped, NEW s \in Blocks, a \in Range(starts[s]),
           Held(b, Opened(b), val)[a] = "freed", at[a] \in dom[b]
    PROVE  pc = "at" /\ b \in succ[here] /\ b # s /\ Past(a, s, here)
<1>0. a \in Allocs /\ Covers(a, s)  BY DEF LiveInv, PlacedInv, PlacedOK
<1>1. Held(b, Opened(b), val)[a] = IF at[a] # b THEN val[a]
                                   ELSE IF a \in Range(Opened(b)) THEN "region" ELSE "freed"
  BY <1>0 DEF Held
<1>2. CASE at[a] = b
  <2>1. s \in dom[b] /\ a \notin Range(Opened(b))  BY <1>0, <1>1, <1>2 DEF Covers
  <2> QED  BY <2>1, OpenOrPast
<1>3. CASE at[a] # b
  <2>1. val[a] = "freed"  BY <1>1, <1>3
  <2>2. pc = "at" /\ b \in succ[here] /\ at[a] \in dom[here]  BY <1>3, ComesBelow
  <2>3. Past(a, s, here)  BY <1>0, <2>1, <2>2 DEF LiveInv, FreedInv
  <2>4. b # s
    <3>1. b \in DOMAIN dom /\ at[a] \in DOMAIN dom  BY <1>0, ComesBelow DEF Analysed, PlacesInv, PlacedAt
    <3> QED  BY <1>0, <1>3, <3>1 DEF Covers, Analysed, OrderInv
  <2> QED  BY <2>2, <2>3, <2>4
<1> QED  BY <1>2, <1>3

\* The phi entry for an edge names the allocation or a phi that dominates its source.
LEMMA NamedIs ==
    ASSUME Graph, Analysed, NEW a \in Allocs, NEW p, NEW b, <<p, b>> \in flow[a]
    PROVE  \/ at[a] \in dom[p] /\ Named(a, p) = val[a]
           \/ \E j \in Joins(a) : j \in dom[p] /\ j \in Blocks /\ Named(a, p) = phi[a][j]
<1> DEFINE f == <<p, b>>
           S == Joins(a) \cap dom[p]
<1>1. f[1] = p /\ f \in flow[a] /\ PlacedAt(a)  BY DEF Analysed, PlacesInv
<1> HIDE DEF f
<1>2. CASE at[a] \in dom[p]  BY <1>2 DEF Named
<1>3. CASE at[a] \notin dom[p]
  <2>1. p \in DOMAIN dom /\ \E g \in flow[a] : g[2] \in dom[p]  BY <1>1, <1>3 DEF PlacedAt
  <2>2. S # {}  BY <2>1 DEF Joins
  <2>3. \A y \in S : y \in Blocks /\ dom[y] \in SUBSET Blocks  BY <2>1 DEF Analysed, TablesInv
  <2>4. Named(a, p) = phi[a][Deepest(dom, S)]  BY <1>3 DEF Named
  <2> HIDE DEF S
  <2>5. Deepest(dom, S) \in S  BY <2>2, <2>3, DeepestIn
  <2>6. Deepest(dom, S) \in Joins(a) /\ Deepest(dom, S) \in dom[p]  BY <2>5 DEF S
  <2> QED  BY <2>3, <2>4, <2>5, <2>6
<1> QED  BY <1>2, <1>3

\* A phi that a block starts with is none of the entry's, and its value is what the
\* entry for the edge names.
LEMMA JoinedIs ==
    ASSUME Graph, Analysed, LiveInv, NEW b \in Blocks, Comes(b), NEW a \in Allocs, NEW j \in Blocks
    PROVE  \/ Joined(b)[a][j] = phi[a][j] /\ (j \in Joins(a) => j # b)
           \/ j = b /\ Joined(b)[a][j] = "none"
           \/ j = b /\ pc = "at" /\ <<here, b>> \in flow[a] /\ Joined(b)[a][j] = Named(a, here)
<1>0. DOMAIN phi[a] = Blocks  BY DEF LiveInv, ValInv
<1>1. Joined(b)[a] = IF b \notin Joins(a) THEN phi[a]
                     ELSE [phi[a] EXCEPT ![b] = IF <<here, b>> \in flow[a] THEN Named(a, here) ELSE "none"]
  BY DEF Joined
<1>2. CASE b \notin Joins(a)  BY <1>1, <1>2
<1>3. CASE b \in Joins(a) /\ j # b  BY <1>0, <1>1, <1>3
<1>4. CASE b \in Joins(a) /\ j = b
  <2>1. Joined(b)[a][j] = IF <<here, b>> \in flow[a] THEN Named(a, here) ELSE "none"  BY <1>0, <1>1, <1>4
  <2>2. ASSUME pc = "run", b = 0 PROVE FALSE
    <3>1. PICK f \in flow[a] : b = f[2]  BY <1>4 DEF Joins
    <3>2. f[1] \in DOMAIN dom /\ f[2] \in succ[f[1]]  BY DEF Analysed, PlacesInv, PlacedAt
    <3> QED  BY <2>2, <3>1, <3>2 DEF Analysed, EdgesInv
  <2>3. pc = "at"  BY <2>2 DEF Comes
  <2> QED  BY <1>4, <2>1, <2>3
<1> QED  BY <1>2, <1>3, <1>4

LEMMA JoinedFreed ==
    ASSUME Graph, Analysed, CodeTyped, StackTyped, LiveInv, ~crossed, NEW b \in Blocks, Comes(b),
           NEW a \in scoped, NEW s \in Blocks, a \in Range(starts[s]),
           NEW j \in Joins(a), j \in dom[b], Joined(b)[a][j] = "freed"
    PROVE  pc = "at" /\ b \in succ[here] /\ b # s /\ Past(a, s, here)
<1>0. a \in Allocs /\ Covers(a, s)  BY DEF LiveInv, PlacedInv, PlacedOK
<1>1. s \in dom[j] /\ s # j  BY <1>0 DEF Covers, Joins
<1>2. b \in DOMAIN dom /\ j \in DOMAIN dom /\ j \in Blocks  BY ComesBelow DEF Analysed, TablesInv
<1>3. CASE Joined(b)[a][j] = phi[a][j] /\ j # b
  <2>1. pc = "at" /\ b \in succ[here] /\ j \in dom[here]  BY <1>3, ComesBelow
  <2>2. Past(a, s, here)  BY <1>0, <1>3, <2>1 DEF LiveInv, FreedInv
  <2>3. b # s  BY <1>1, <1>2 DEF Analysed, OrderInv
  <2> QED  BY <2>1, <2>2, <2>3
<1>4. CASE j = b /\ pc = "at" /\ <<here, b>> \in flow[a] /\ Joined(b)[a][j] = Named(a, here)
  <2>1. b \in succ[here]  BY <1>4 DEF Comes
  <2>2. \/ at[a] \in dom[here] /\ val[a] = "freed"
        \/ \E k \in Joins(a) : k \in dom[here] /\ phi[a][k] = "freed"
    <3>1. Named(a, here) = "freed"  BY <1>4
    <3> DEFINE p == here
    <3>2. <<p, b>> \in flow[a]  BY <1>4
    <3> HIDE DEF p
    <3>3. \/ at[a] \in dom[p] /\ Named(a, p) = val[a]
          \/ \E k \in Joins(a) : k \in dom[p] /\ k \in Blocks /\ Named(a, p) = phi[a][k]
      BY <1>0, <3>2, NamedIs
    <3> QED  BY <3>1, <3>3 DEF p
  <2>3. Past(a, s, here)  BY <1>0, <1>4, <2>2 DEF LiveInv, FreedInv
  <2> QED  BY <1>1, <1>4, <2>1, <2>3
<1>5. Joined(b)[a][j] # "none"  OBVIOUS
<1> QED  BY <1>0, <1>2, <1>3, <1>4, <1>5, JoinedIs

\* A use where the end of the scope has passed is one of the exceptions.
LEMMA PastUse ==
    ASSUME LiveInv, NEW a \in scoped, NEW s \in Blocks, a \in Range(starts[s]),
           pc = "at", NEW b \in succ[here], b # s, Past(a, s, here)
    PROVE  Past(a, s, b) /\ (b \in Relevant(a) => EndsInLoop(a) \/ UsedAround(a))
<1>1. PICK e \in Blocks : a \in Range(ends[e]) /\ Follows(s, e, here)  BY DEF Past
<1>2. Follows(s, e, b)  BY <1>1 DEF Follows, Onward
<1>3. ASSUME b \in Relevant(a) PROVE EndsInLoop(a) \/ UsedAround(a)
  <2>1. UsesLead(a, s, e)  BY <1>1 DEF LiveInv, PlacedInv, PlacedOK
  <2> DEFINE w == <<s, e>>
  <2>2. w \in Scopes(a) /\ w[1] = s /\ w[2] = e  BY <1>1 DEF Scopes
  <2> HIDE DEF w
  <2>3. CASE e \in pdom[b] /\ OffPath(s, e, b)  BY <1>3, <2>2, <2>3 DEF UsedAround, Relevant
  <2>4. CASE Follows(s, b, e)
    <3>1. ComesAgain(s, e)  BY <1>1, <2>4, EndComesAgain
    <3> QED  BY <2>2, <3>1 DEF EndsInLoop
  <2> QED  BY <1>3, <2>1, <2>3, <2>4 DEF UsesLead
<1> QED  BY <1>1, <1>2, <1>3 DEF Past

\* What is fixed once the code runs.
LEMMA CodeFixed ==
    ASSUME UNCHANGED funVars, UNCHANGED codeVars
    PROVE  /\ UnendedInv => UnendedInv'
           /\ PlacedInv => PlacedInv'
           /\ \A a : Exempt(a) => Exempt(a)'
           /\ \A a, s, b : Past(a, s, b)' = Past(a, s, b)
<1>1. /\ succ' = succ /\ dom' = dom /\ pdom' = pdom /\ at' = at /\ uses' = uses /\ aliases' = aliases /\ flow' = flow
      /\ todo' = todo /\ scoped' = scoped /\ starts' = starts /\ ends' = ends /\ Blocks' = Blocks
  BY DEF funVars, codeVars, Blocks
<1>2. UnendedInv => UnendedInv'  BY <1>1 DEF UnendedInv
<1>3. ASSUME NEW a, Exempt(a) PROVE Exempt(a)'
  <2>0. Scopes(a)' = Scopes(a)  BY <1>1 DEF Scopes
  <2>1. CASE aliases[a] # {}  BY <1>1, <2>1 DEF Exempt
  <2>2. CASE EndsInLoop(a)
    <3>1. \A s, e : ComesAgain(s, e)' = ComesAgain(s, e)  BY <1>1 DEF ComesAgain
    <3>2. EndsInLoop(a)'  BY <2>0, <2>2, <3>1 DEF EndsInLoop
    <3> QED  BY <3>2 DEF Exempt
  <2>3. CASE UsedAround(a)
    <3>1. \A s, e, u : OffPath(s, e, u)' = OffPath(s, e, u)  BY <1>1 DEF OffPath
    <3>2. UsedAround(a)'  BY <1>1, <2>0, <2>3, <3>1 DEF UsedAround
    <3> QED  BY <3>2 DEF Exempt
  <2> QED  BY <1>3, <2>1, <2>2, <2>3 DEF Exempt
<1>4. \A a, s : PlacedOK(a, s) => PlacedOK(a, s)'
  BY <1>1 DEF PlacedOK, Covers, UsesLead, Relevant, Follows, Onward, OffPath
<1>5. PlacedInv => PlacedInv'
  <2> HIDE DEF PlacedOK
  <2> QED  BY <1>1, <1>4 DEF PlacedInv
<1>6. \A a, s, b : Past(a, s, b)' = Past(a, s, b)  BY <1>1 DEF Past, Follows, Onward
<1> QED  BY <1>2, <1>3, <1>5, <1>6

\* Of the uses of a block, those of freed values are among the exceptions.
LEMMA DeadAreExempt ==
    ASSUME Graph, Analysed, CodeTyped, StackTyped, LiveInv, ~crossed, NEW b \in Blocks, Comes(b),
           NEW a \in DeadIn(b, Held(b, Opened(b), val), Joined(b)), a \in scoped
    PROVE  Exempt(a)
<1>1. SUFFICES ASSUME aliases[a] = {} PROVE EndsInLoop(a) \/ UsedAround(a)  BY DEF Exempt
<1>2. PICK s \in Blocks : a \in Range(starts[s])  BY DEF LiveInv, PlacedInv
<1>3. CASE b \in uses[a] \cup aliases[a] \cup {at[a]} /\ at[a] \in dom[b] /\ Held(b, Opened(b), val)[a] = "freed"
  <2>1. b \in Relevant(a)  BY <1>1, <1>3 DEF Relevant
  <2>2. pc = "at" /\ b \in succ[here] /\ b # s /\ Past(a, s, here)  BY <1>2, <1>3, HeldFreed
  <2> QED  BY <1>2, <2>1, <2>2, PastUse
<1>4. CASE b \in uses[a] /\ \E j \in Joins(a) \cap dom[b] : Joined(b)[a][j] = "freed"
  <2>0. PICK j \in Joins(a) : j \in dom[b] /\ Joined(b)[a][j] = "freed"  BY <1>4
  <2>1. b \in Relevant(a)  BY <1>4 DEF Relevant
  <2>2. pc = "at" /\ b \in succ[here] /\ b # s /\ Past(a, s, here)  BY <1>2, <2>0, JoinedFreed
  <2> QED  BY <1>2, <2>1, <2>2, PastUse
<1> QED  BY <1>3, <1>4 DEF DeadIn

\* What a block holds is of a region only if the allocation has one.
LEMMA HeldRegional ==
    ASSUME Graph, Analysed, LiveInv, NEW b \in Blocks, Comes(b), NEW a \in Allocs
    PROVE  /\ Held(b, Opened(b), val)[a] \in Regional => a \in scoped
           /\ DOMAIN Joined(b)[a] = Blocks /\ \A j \in Blocks : Joined(b)[a][j] \in Regional => a \in scoped
<1>1. Held(b, Opened(b), val)[a] \in Regional => a \in scoped  BY DEF Held, LiveInv, ValInv, Regional
<1>2. DOMAIN Joined(b)[a] = Blocks
  <2>1. Joined(b)[a] = IF b \notin Joins(a) THEN phi[a]
                       ELSE [phi[a] EXCEPT ![b] = IF <<here, b>> \in flow[a] THEN Named(a, here) ELSE "none"]
    BY DEF Joined
  <2>2. DOMAIN phi[a] = Blocks  BY DEF LiveInv, ValInv
  <2> QED  BY <2>1, <2>2
<1>3. ASSUME NEW j \in Blocks, Joined(b)[a][j] \in Regional PROVE a \in scoped
  <2>1. CASE Joined(b)[a][j] = phi[a][j]  BY <1>3, <2>1 DEF LiveInv, ValInv
  <2>2. CASE <<here, b>> \in flow[a] /\ Joined(b)[a][j] = Named(a, here)
    <3> DEFINE p == here
    <3>1. <<p, b>> \in flow[a] /\ Named(a, p) \in Regional  BY <1>3, <2>2
    <3> HIDE DEF p
    <3>2. \/ at[a] \in dom[p] /\ Named(a, p) = val[a]
          \/ \E k \in Joins(a) : k \in dom[p] /\ k \in Blocks /\ Named(a, p) = phi[a][k]
      BY <3>1, NamedIs
    <3> QED  BY <3>1, <3>2 DEF LiveInv, ValInv
  <2>3. Joined(b)[a][j] # "none"  BY <1>3 DEF Regional
  <2> QED  BY <2>1, <2>2, <2>3, JoinedIs
<1> QED  BY <1>1, <1>2, <1>3

\* Executing a block: only what it closes is freed.
LEMMA ExecLive ==
    ASSUME Graph, Analysed, CodeTyped, StackTyped, LiveInv, NEW b \in Blocks, NEW poison \in BOOLEAN, Goto(b, poison)
    PROVE  LiveInv'
<1> DEFINE o == Opened(b)
           n == Least(Len(ends[b]), Len(o))
           keep == Len(o) - n
           w == IF poison THEN Len(o) ELSE watermark
           held == Held(b, o, val)
           joined == Joined(b)
           doomed == Doomed(o, keep, w)
<1>1. /\ crossed' = (crossed \/ Popped(o, n) # ends[b])
      /\ val' = Freed(held, doomed) /\ phi' = FreedPhis(joined, doomed) /\ stack' = SubSeq(o, 1, keep)
      /\ dead' = dead \cup DeadIn(b, held, joined)
      /\ pc' \in {"done", "at"} /\ here' = b /\ UNCHANGED funVars /\ UNCHANGED codeVars
  BY DEF Goto, ExecBlock
<1>2. Comes(b)  BY DEF Goto
<1>3. stack \in Seq(Names) /\ ends[b] \in Seq(Names) /\ o \in Seq(Names) /\ w \in Nat
  BY DEF CodeTyped, StackTyped, Opened
<1>4. ~crossed' => /\ ~crossed /\ doomed \subseteq Range(ends[b])
                   /\ Range(o) \subseteq Range(stack') \cup Range(ends[b])
  BY <1>1, <1>3, DoomedAreNamed
<1>5. \A a \in Allocs : /\ held[a] \in Regional => a \in scoped
                        /\ DOMAIN joined[a] = Blocks /\ \A j \in Blocks : joined[a][j] \in Regional => a \in scoped
  BY <1>2, HeldRegional
<1>6. DeadIn(b, held, joined) \subseteq Allocs /\ DeadIn(b, held, joined) \subseteq scoped
  <2>1. \A a \in Allocs : Joins(a) \cap dom[b] \subseteq Blocks
    BY <1>2, ComesBelow DEF Analysed, TablesInv
  <2> HIDE DEF held, joined
  <2> QED  BY <1>5, <2>1 DEF DeadIn, Regional
<1>7. ~crossed => \A a \in DeadIn(b, held, joined) : Exempt(a)  BY <1>2, <1>6, DeadAreExempt
<1>8. ASSUME ~crossed, NEW a \in scoped, NEW s \in Blocks, a \in Range(starts[s])
      PROVE  /\ held[a] = "freed" /\ at[a] \in dom[b] => Past(a, s, b)
             /\ \A j \in Joins(a) : joined[a][j] = "freed" /\ j \in dom[b] => Past(a, s, b)
             /\ s \in dom[b] => a \in Range(o) \/ Past(a, s, b)
  <2>0. pc = "at" /\ b \in succ[here] /\ b # s /\ Past(a, s, here) => Past(a, s, b)  BY <1>8, PastUse
  <2>1. held[a] = "freed" /\ at[a] \in dom[b] => Past(a, s, b)  BY <1>2, <1>8, <2>0, HeldFreed
  <2>2. ASSUME NEW j \in Joins(a), joined[a][j] = "freed", j \in dom[b] PROVE Past(a, s, b)
    BY <1>2, <1>8, <2>0, <2>2, JoinedFreed
  <2>3. s \in dom[b] => a \in Range(o) \/ Past(a, s, b)  BY <1>2, <1>8, <2>0, OpenOrPast
  <2> QED  BY <2>1, <2>2, <2>3
<1>9. b \in DOMAIN dom  BY <1>2, ComesBelow
<1> HIDE DEF o, n, keep, w, held, joined, doomed
<1>10. \A a \in Allocs :
          /\ val'[a] = IF a \in doomed /\ held[a] = "region" THEN "freed" ELSE held[a]
          /\ DOMAIN phi'[a] = Blocks
          /\ \A j \in Blocks : phi'[a][j] = IF a \in doomed /\ joined[a][j] = "region" THEN "freed" ELSE joined[a][j]
  <2>1. val' = Freed(held, doomed) /\ phi' = FreedPhis(joined, doomed)  BY <1>1
  <2>2. \A a \in Allocs : DOMAIN joined[a] = Blocks  BY <1>5
  <2> QED  BY ONLY <2>1, <2>2 DEF Freed, FreedPhis, Close
<1>11. /\ scoped' = scoped /\ starts' = starts /\ ends' = ends /\ at' = at /\ dom' = dom /\ flow' = flow /\ Blocks' = Blocks
       /\ \A a : Joins(a)' = Joins(a)
  BY <1>1 DEF funVars, codeVars, Blocks, Joins
<1>12. UnendedInv' /\ PlacedInv'  BY <1>1, CodeFixed DEF LiveInv
<1>13. ValInv'
  <2>1. \A a \in Allocs : /\ DOMAIN phi'[a] = Blocks' /\ (val'[a] \in Regional => a \in scoped')
                          /\ \A j \in Blocks' : phi'[a][j] \in Regional => a \in scoped'
    BY <1>5, <1>10, <1>11 DEF Regional
  <2> QED  BY <1>1, <2>1 DEF ValInv
<1>14. \A a, s : Past(a, s, here)' = Past(a, s, b)
  BY <1>1, <1>11 DEF Past, Follows, Onward, funVars
<1>15. ASSUME NEW a, NEW s, a \in Range(ends[b]) PROVE Past(a, s, b)
  <2>1. Follows(s, b, b)  BY DEF Follows
  <2> QED  BY <1>15, <2>1 DEF Past
<1>16. OpenInv'
  <2>1. ASSUME ~crossed', NEW a \in scoped, NEW s \in Blocks, a \in Range(starts[s]), s \in dom[b]
        PROVE  a \in Range(stack') \/ Past(a, s, b)
    <3>1. CASE a \in Range(o)  BY <1>4, <1>15, <2>1, <3>1
    <3>2. CASE Past(a, s, b)  BY <3>2
    <3> QED  BY <1>4, <1>8, <2>1, <3>1, <3>2
  <2> QED  BY <1>1, <1>9, <1>11, <1>14, <2>1 DEF OpenInv
<1>17. FreedInv'
  <2>1. ASSUME ~crossed', NEW a \in Allocs, NEW s \in Blocks, a \in Range(starts[s])
        PROVE  /\ val'[a] = "freed" => at[a] \notin dom[b] \/ Past(a, s, b)
               /\ \A j \in Joins(a) : phi'[a][j] = "freed" => j \notin dom[b] \/ Past(a, s, b)
    <3>0. a \in doomed => Past(a, s, b)  BY <1>4, <1>15, <2>1
    <3>1. ASSUME val'[a] = "freed", at[a] \in dom[b] PROVE Past(a, s, b)
      <4>1. CASE held[a] = "freed"
        <5>1. a \in scoped  BY <1>5, <4>1 DEF Regional
        <5> QED  BY <1>4, <1>8, <2>1, <3>1, <4>1, <5>1
      <4> QED  BY <1>10, <3>0, <3>1, <4>1
    <3>2. ASSUME NEW j \in Joins(a), phi'[a][j] = "freed", j \in dom[b] PROVE Past(a, s, b)
      <4>0. j \in Blocks  BY <1>9, <3>2 DEF Analysed, TablesInv
      <4>1. CASE joined[a][j] = "freed"
        <5>1. a \in scoped  BY <1>5, <4>0, <4>1 DEF Regional
        <5> QED  BY <1>4, <1>8, <2>1, <3>2, <4>1, <5>1
      <4> QED  BY <1>10, <3>0, <3>2, <4>0, <4>1
    <3> QED  BY <3>1, <3>2
  <2> QED  BY <1>1, <1>11, <1>14, <2>1 DEF FreedInv
<1>18. DeadInv'
  <2>1. ASSUME NEW a \in dead', ~crossed' PROVE Exempt(a)
    <3>1. CASE a \in dead  BY <1>4, <2>1, <3>1 DEF LiveInv, DeadInv
    <3>2. CASE a \in DeadIn(b, held, joined)  BY <1>4, <1>7, <2>1, <3>2
    <3> QED  BY <1>1, <2>1, <3>1, <3>2
  <2>2. ASSUME NEW a \in dead', ~crossed' PROVE Exempt(a)'  BY <1>1, <2>1, <2>2, CodeFixed
  <2> QED  BY <2>2 DEF DeadInv
<1> QED  BY <1>12, <1>13, <1>16, <1>17, <1>18 DEF LiveInv

\* Leaving a block by an error.
LEMMA RaiseLive ==
    ASSUME Graph, Analysed, CodeTyped, StackTyped, LiveInv, NEW b \in Blocks, NEW poison \in BOOLEAN, Raise(b, poison)
    PROVE  LiveInv'
<1> DEFINE o == Opened(b)
           w == IF poison THEN Len(o) ELSE watermark
           held == Held(b, o, val)
           joined == Joined(b)
           freed == UnwindFreed(o, w)
<1>1. /\ crossed' = (crossed \/ Len(o) > 1) /\ val' = Freed(held, freed) /\ phi' = FreedPhis(joined, freed)
      /\ dead' = dead \cup DeadIn(b, held, joined)
      /\ pc' = "raised" /\ UNCHANGED funVars /\ UNCHANGED codeVars /\ Comes(b)
  BY DEF Raise
<1>2. \A a \in Allocs : /\ held[a] \in Regional => a \in scoped
                        /\ DOMAIN joined[a] = Blocks /\ \A j \in Blocks : joined[a][j] \in Regional => a \in scoped
  BY <1>1, HeldRegional
<1>3. DeadIn(b, held, joined) \subseteq scoped
  <2>1. \A a \in Allocs : Joins(a) \cap dom[b] \subseteq Blocks
    BY <1>1, ComesBelow DEF Analysed, TablesInv
  <2> HIDE DEF held, joined
  <2> QED  BY <1>2, <2>1 DEF DeadIn, Regional
<1>4. ~crossed => \A a \in DeadIn(b, held, joined) : Exempt(a)  BY <1>1, <1>3, DeadAreExempt
<1> HIDE DEF o, w, held, joined, freed
<1>5. \A a \in Allocs :
          /\ val'[a] = IF a \in freed /\ held[a] = "region" THEN "freed" ELSE held[a]
          /\ DOMAIN phi'[a] = Blocks
          /\ \A j \in Blocks : phi'[a][j] = IF a \in freed /\ joined[a][j] = "region" THEN "freed" ELSE joined[a][j]
  <2>1. val' = Freed(held, freed) /\ phi' = FreedPhis(joined, freed)  BY <1>1
  <2>2. \A a \in Allocs : DOMAIN joined[a] = Blocks  BY <1>2
  <2> QED  BY ONLY <2>1, <2>2 DEF Freed, FreedPhis, Close
<1>6. scoped' = scoped /\ Blocks' = Blocks  BY <1>1 DEF codeVars, funVars, Blocks
<1>7. UnendedInv' /\ PlacedInv'  BY <1>1, CodeFixed DEF LiveInv
<1>8. ValInv'
  <2>1. \A a \in Allocs : /\ DOMAIN phi'[a] = Blocks' /\ (val'[a] \in Regional => a \in scoped')
                          /\ \A j \in Blocks' : phi'[a][j] \in Regional => a \in scoped'
    BY <1>2, <1>5, <1>6 DEF Regional
  <2> QED  BY <1>1, <2>1 DEF ValInv
<1>9. OpenInv' /\ FreedInv'  BY <1>1 DEF OpenInv, FreedInv
<1>10. DeadInv'
  <2>1. ASSUME NEW a \in dead', ~crossed' PROVE Exempt(a)
    <3>1. ~crossed  BY <1>1, <2>1
    <3>2. CASE a \in dead  BY <3>1, <3>2 DEF LiveInv, DeadInv
    <3>3. CASE a \in DeadIn(b, held, joined)  BY <1>4, <3>1, <3>3
    <3> QED  BY <1>1, <2>1, <3>2, <3>3
  <2>2. ASSUME NEW a \in dead', ~crossed' PROVE Exempt(a)'  BY <1>1, <2>1, <2>2, CodeFixed
  <2> QED  BY <2>2 DEF DeadInv
<1> QED  BY <1>7, <1>8, <1>9, <1>10 DEF LiveInv

\* Before the code runs nothing is held and nothing is dead.
LEMMA PassLive ==
    ASSUME LiveInv, pc \in {"analyse", "optimize"}, pc' \in {"optimize", "run"}, UNCHANGED <<val, phi, dead, succ>>,
           UnendedInv', PlacedInv'
    PROVE  LiveInv'
<1>1. /\ dead' = {} /\ Blocks' = Blocks
      /\ \A a \in Allocs : val'[a] = "none" /\ DOMAIN phi'[a] = Blocks /\ \A j \in Blocks : phi'[a][j] = "none"
  BY DEF LiveInv, ValInv, Blocks
<1>2. ValInv'  BY <1>1 DEF ValInv, Regional
<1>3. OpenInv' /\ FreedInv' /\ DeadInv'  BY <1>1 DEF OpenInv, FreedInv, DeadInv
<1> QED  BY <1>2, <1>3 DEF LiveInv

\* Inserting a region leaves the other scopes as they were.
Placed(a, st, en) ==
    /\ a \in Allocs /\ \E s \in Blocks : a \in Range(st[s])
    /\ \A s, e \in Blocks : a \in Range(st[s]) => Covers(a, s) /\ (a \in Range(en[e]) => UsesLead(a, s, e))
LEMMA PlacedNow ==
    ASSUME PlacedInv, Graph
    PROVE  \A a \in scoped : Placed(a, starts, ends)
BY DEF PlacedInv, PlacedOK, Placed
LEMMA PlacedNext ==
    ASSUME Graph, UNCHANGED funVars, \A a \in scoped' : Placed(a, starts', ends')
    PROVE  PlacedInv'
<1>1. /\ succ' = succ /\ dom' = dom /\ pdom' = pdom /\ at' = at /\ uses' = uses /\ flow' = flow /\ Blocks' = Blocks
  BY DEF funVars, Blocks
<1>2. \A a, s, e : UsesLead(a, s, e)' = UsesLead(a, s, e)
  BY <1>1 DEF UsesLead, Relevant, Follows, Onward, OffPath
<1>3. \A a, s : Covers(a, s)' = Covers(a, s)  BY <1>1 DEF Covers
<1> HIDE DEF UsesLead, Covers
<1> QED  BY <1>1, <1>2, <1>3 DEF PlacedInv, PlacedOK, Placed
LEMMA InsertLive ==
    ASSUME CodeTyped, Graph, NEW r \in Names, NEW s \in Blocks, NEW E, Insert(r, s, E), UNCHANGED funVars,
           LiveInv, todo' \subseteq todo \ {r}
    PROVE  UnendedInv' /\ \A a \in scoped \ {r} : Placed(a, starts', ends')
<1>1. \A b \in Blocks : /\ Range(starts'[b]) = IF b = s THEN {r} \cup Range(starts[b]) ELSE Range(starts[b])
                        /\ Range(ends'[b]) = IF b \in E THEN {r} \cup Range(ends[b]) ELSE Range(ends[b])
  BY InsertIs
<1>2. UnendedInv'  BY <1>1 DEF UnendedInv, LiveInv, Blocks, funVars
<1>3. ASSUME NEW a \in scoped \ {r} PROVE Placed(a, starts', ends')
  <2>1. Placed(a, starts, ends)  BY PlacedNow DEF LiveInv
  <2>2. \A b \in Blocks : /\ a \in Range(starts'[b]) <=> a \in Range(starts[b])
                          /\ a \in Range(ends'[b]) <=> a \in Range(ends[b])
    BY <1>1
  <2> QED  BY <2>1, <2>2 DEF Placed
<1> QED  BY <1>2, <1>3

LEMMA LiveInit ==
    ASSUME Init
    PROVE  LiveInv
<1>1. /\ todo = Allocs /\ scoped = {} /\ dead = {} /\ pc = "analyse"
      /\ \A a \in Allocs : val[a] = "none" /\ DOMAIN phi[a] = Blocks /\ \A j \in Blocks : phi[a][j] = "none"
  BY DEF Init
<1>2. \A b \in Blocks : Range(ends[b]) = {}  BY DEF Init, Range
<1> QED  BY <1>1, <1>2 DEF LiveInv, UnendedInv, PlacedInv, ValInv, Regional, OpenInv, FreedInv, DeadInv
LEMMA LiveStep ==
    ASSUME SuccInv, PublishInv, BalanceInv, LiveInv, [Next]_vars
    PROVE  LiveInv'
<1>0. Graph /\ CodeTyped /\ StackTyped  BY SuccGraph DEF PublishInv
<1>1. CASE Analyse
  <2>1. /\ pc = "analyse" /\ pc' = "optimize" /\ UNCHANGED <<val, phi, dead, succ>>
        /\ todo' = todo /\ scoped' = scoped /\ ends' = ends
    BY <1>1 DEF Analyse, codeVars
  <2>2. UnendedInv'  BY <2>1 DEF LiveInv, UnendedInv, Blocks
  <2>3. PlacedInv'  BY <2>1 DEF LiveInv, ValInv, PlacedInv
  <2> QED  BY <2>1, <2>2, <2>3, PassLive
<1>2. ASSUME NEW a \in Allocs, EmitRegion(a) PROVE LiveInv'
  <2>1. /\ UNCHANGED funVars /\ UNCHANGED <<val, phi, dead, succ>> /\ pc = "optimize" /\ pc' = pc
        /\ a \in todo /\ todo' = todo \ {a}
    BY <1>2 DEF EmitRegion, funVars
  <2>2. Analysed  BY <2>1 DEF BalanceInv
  <2>3. CASE UNCHANGED <<scoped, starts, ends>>
    <3>1. UnendedInv'  BY <2>1, <2>3 DEF LiveInv, UnendedInv, Blocks
    <3>2. \A q \in scoped' : Placed(q, starts', ends')  BY <1>0, <2>3, PlacedNow DEF LiveInv
    <3>3. PlacedInv'  BY <1>0, <2>1, <3>2, PlacedNext
    <3> QED  BY <2>1, <3>1, <3>3, PassLive
  <2>4. ASSUME NEW w \in Scope(a), Insert(a, w[1], {w[2]}), scoped' = scoped \cup {a} PROVE LiveInv'
    <3> DEFINE s == w[1]
               e == w[2]
               E == {e}
    <3>1. ScopeOf(a, s, e)  BY <1>0, <2>2, <2>4, ScopeIs
    <3>2. Insert(a, s, E)  BY <2>4
    <3> HIDE DEF s, e
    <3>3. s \in Blocks /\ e \in Blocks  BY <2>2, <3>1 DEF ScopeOf, Analysed, TablesInv
    <3>4. a \in Names /\ todo' \subseteq todo \ {a}  BY <2>1 DEF Names
    <3>5. Covers(a, s) /\ UsesLead(a, s, e)  BY <1>0, <2>2, <3>1, ScopeCovers, ScopeLeads
    <3>6. \A b \in Blocks : a \notin Range(starts[b]) /\ a \notin Range(ends[b])
      BY <2>1 DEF LiveInv, UnendedInv, BalanceInv, NotYetInv, Unplaced
    <3> HIDE DEF E
    <3>7. UnendedInv' /\ \A q \in scoped \ {a} : Placed(q, starts', ends')
      BY <1>0, <2>1, <3>2, <3>3, <3>4, InsertLive
    <3>8. \A b \in Blocks : /\ Range(starts'[b]) = IF b = s THEN {a} \cup Range(starts[b]) ELSE Range(starts[b])
                            /\ Range(ends'[b]) = IF b \in E THEN {a} \cup Range(ends[b]) ELSE Range(ends[b])
      BY <1>0, <3>2, <3>3, <3>4, InsertIs
    <3>9. \A b \in Blocks : (a \in Range(starts'[b]) <=> b = s) /\ (a \in Range(ends'[b]) <=> b = e)
      BY <3>6, <3>8 DEF E
    <3>10. Placed(a, starts', ends')  BY <3>3, <3>5, <3>9 DEF Placed
    <3>11. PlacedInv'
      <4>1. \A q \in scoped' : Placed(q, starts', ends')  BY <2>4, <3>7, <3>10
      <4> QED  BY <1>0, <2>1, <4>1, PlacedNext
    <3> QED  BY <2>1, <3>7, <3>11, PassLive
  <2> QED  BY <1>2, <2>3, <2>4 DEF EmitRegion
<1>3. ASSUME NEW x \in BOOLEAN, WrapFunction(x) PROVE LiveInv'
  <2>1. /\ UNCHANGED funVars /\ UNCHANGED <<val, phi, dead, succ, scoped, todo>> /\ pc = "optimize" /\ pc' = "run"
        /\ todo = {}
    BY <1>3 DEF WrapFunction, funVars
  <2>2. CASE UNCHANGED <<starts, ends>>
    <3>1. UnendedInv'  BY <2>1, <2>2 DEF LiveInv, UnendedInv, Blocks
    <3>2. \A q \in scoped' : Placed(q, starts', ends')  BY <1>0, <2>1, <2>2, PlacedNow DEF LiveInv
    <3>3. PlacedInv'  BY <1>0, <2>1, <3>2, PlacedNext
    <3> QED  BY <2>1, <3>1, <3>3, PassLive
  <2>3. CASE Insert(Fn, 0, Exits \ throws)
    <3>1. 0 \in Blocks /\ Fn \in Names /\ todo' \subseteq todo \ {Fn}  BY <1>0, <2>1 DEF Graph, Names
    <3>2. UnendedInv' /\ \A q \in scoped \ {Fn} : Placed(q, starts', ends')
      BY <1>0, <2>1, <2>3, <3>1, InsertLive
    <3>3. \A q \in scoped' : q \in scoped \ {Fn}  BY <2>1, RegionAssumption DEF LiveInv, PlacedInv
    <3>4. PlacedInv'
      <4>1. \A q \in scoped' : Placed(q, starts', ends')  BY <3>2, <3>3
      <4> QED  BY <1>0, <2>1, <4>1, PlacedNext
    <3> QED  BY <2>1, <3>2, <3>4, PassLive
  <2> QED  BY <1>3, <2>2, <2>3 DEF WrapFunction
<1>4. ASSUME NEW b \in Blocks, NEW p \in BOOLEAN, Goto(b, p) PROVE LiveInv'
  <2>1. Analysed  BY <1>4 DEF Goto, Comes, BalanceInv
  <2> QED  BY <1>0, <1>4, <2>1, ExecLive
<1>5. ASSUME NEW b \in Blocks, NEW p \in BOOLEAN, Raise(b, p) PROVE LiveInv'
  <2>1. Analysed  BY <1>5 DEF Raise, Comes, BalanceInv
  <2> QED  BY <1>0, <1>5, <2>1, RaiseLive
<1>6. CASE UNCHANGED vars
  <2>1. /\ UNCHANGED funVars /\ UNCHANGED codeVars /\ UNCHANGED <<pc, here, stack, val, phi, crossed, dead>>
        /\ scoped' = scoped /\ starts' = starts /\ dom' = dom /\ at' = at /\ flow' = flow /\ Blocks' = Blocks
    BY <1>6 DEF vars, funVars, codeVars, Blocks
  <2>2. UnendedInv' /\ PlacedInv' /\ \A a, s, b : Past(a, s, b)' = Past(a, s, b)  BY <2>1, CodeFixed DEF LiveInv
  <2>3. ValInv'  BY <2>1 DEF LiveInv, ValInv
  <2>4. \A a, s : Past(a, s, here)' = Past(a, s, here)
    BY <2>1 DEF Past, Follows, Onward, funVars, codeVars
  <2>5. OpenInv'  BY <2>1, <2>4 DEF LiveInv, OpenInv
  <2>6. FreedInv'
    <3>1. \A a : Joins(a)' = Joins(a)  BY <2>1 DEF Joins
    <3> QED  BY <2>1, <2>4, <3>1 DEF LiveInv, FreedInv
  <2>7. DeadInv'  BY <2>1, CodeFixed DEF LiveInv, DeadInv
  <2> QED  BY <2>2, <2>3, <2>5, <2>6, <2>7 DEF LiveInv
<1> QED  BY <1>1, <1>2, <1>3, <1>4, <1>5, <1>6 DEF Next

\* Whatever scopes the pass chose, in whatever order, and whatever path was taken:
\* a region is open where its values are allocated and used, directly or through the
\* phis they flow into, but for the named exceptions; every region is closed when the
\* function returns; and one that was published is retired.  For the graphs lowering
\* emits: every loop has one header, and paths join where one block's branches do.
THEOREM RegionsStaySafe ==
    ASSUME \A c \in Cfgs : Structured(c)
    PROVE  Spec => []RegionsAreSafe
<1>1. Init => SuccInv /\ PublishInv /\ BalanceInv /\ LiveInv  BY PublishInit, BalanceInit, LiveInit
<1>2. SuccInv /\ PublishInv /\ BalanceInv /\ LiveInv /\ [Next]_vars
          => SuccInv' /\ PublishInv' /\ BalanceInv' /\ LiveInv'
  BY PublishStep, BalanceStep, LiveStep
<1>3. PublishInv /\ BalanceInv /\ LiveInv => RegionsAreSafe
  BY DEF PublishInv, BalanceInv, LiveInv, DeadInv, Exempt, NoUseAfterFree, RegionsAreSafe
<1> QED  BY <1>1, <1>2, <1>3, PTL DEF Spec

-----------------------------------------------------------------------------
(* The IR interpreter *)

IsSeq(s) == \E S : s \in Seq(S)

(* A value, in a heap of n objects of which C are cells. *)
ValueOK(v, V, C, n) ==
    /\ v[1] \in {"vec", "list"} => v[2] \in Seq(V)
    /\ v[1] = "map" => \A k \in DOMAIN v[2] : v[2][k] \in V
    /\ v[1] = "native" => v[2] = "ex-info"
    /\ v[1] = "cell" => v[2] \in C
    /\ v[1] = "clo" => v[2] \in (1..n) \ C
ValuesOK(V, C, n) == Nil \in V /\ ErrorValue \in V /\ \A v \in V : ValueOK(v, V, C, n)

ClosureOK(x, V, c) == x.ars \in Seq(Arities(c)) /\ x.caps \in Seq(V)
HeapOK(h, V, C, c) ==
    /\ IsSeq(h) /\ C \subseteq 1..Len(h)
    /\ \A n \in C : h[n] \in V
    /\ \A n \in (1..Len(h)) \ C : ClosureOK(h[n], V, c)

OutcomeOK(r, V) == r[1] \in {"ok", "throw", "err"} /\ r[2] \in V

(* Block b of function f was entered from block prev, or first. *)
Entered(f, prev, b) ==
    /\ b \in DOMAIN f.blocks
    /\ \/ b = 0 /\ prev = -1
       \/ prev \in DOMAIN f.blocks /\ b \in Successors(f.blocks[prev].term)
(* Place n of block k can be reached: no throw stands before it. *)
Reached(k, n) ==
    /\ n \in 0..(Len(k.phis) + Len(k.insts))
    /\ \A j \in 1..Len(k.insts) : k.insts[j][1] = "throw" => n < Len(k.phis) + j

BlockOf(f, c) == c[f.fn].blocks[f.blk]
IrFrame(f, V, c) ==
    /\ {"kind", "fn", "blk", "prev", "at", "dst", "regs"} \subseteq DOMAIN f
    /\ f.kind = "ir" /\ f.fn \in 1..Len(c)
    /\ f.regs \in [Used(c[f.fn]) -> V]
    /\ Entered(c[f.fn], f.prev, f.blk)
    /\ Reached(BlockOf(f, c), f.at)
TryFrame(f, V) ==
    /\ {"kind", "stage", "catch", "fin", "ret"} \subseteq DOMAIN f
    /\ f.kind = "try" /\ f.catch \in V /\ f.fin \in V
    /\ f.stage = "finally" => OutcomeOK(f.ret, V)
FrameOK(f, V, c) == IrFrame(f, V, c) \/ TryFrame(f, V) \/ f.kind \in {"bind", "capture"}

(* The frame is at a phi, or at an instruction that is no throw. *)
CanPass(f, c) ==
    LET k == BlockOf(f, c)
    IN  /\ f.at < Len(k.phis) + Len(k.insts)
        /\ f.at >= Len(k.phis) => k.insts[f.at - Len(k.phis) + 1][1] # "throw"
(* It waits for a call to return. *)
Waits(f, c) ==
    LET k == BlockOf(f, c)
    IN  /\ f.at >= Len(k.phis) /\ f.at < Len(k.phis) + Len(k.insts)
        /\ k.insts[f.at - Len(k.phis) + 1][1] \in {"call", "known"}

StackOK(fs, V, c) ==
    /\ IsSeq(fs) /\ Len(fs) >= 1 /\ fs[1].kind = "ir"
    /\ \A i \in 1..Len(fs) : FrameOK(fs[i], V, c)
    /\ \A i \in 2..Len(fs) : fs[i].kind # "ir" => fs[i - 1].kind = "ir"
    /\ \A i \in 1..(Len(fs) - 1) : fs[i].kind = "ir" => Waits(fs[i], c)
TopOf(fs) == fs[Len(fs)]

(* A running top frame is an activation; else there is an outcome to hand over. *)
Control(r, fs, V) == IF r = Run THEN TopOf(fs).kind = "ir" ELSE OutcomeOK(r, V)

Consistent(V, C, c, fs, r, h, d) ==
    /\ ValuesOK(V, C, Len(h)) /\ HeapOK(h, V, C, c)
    /\ StackOK(fs, V, c) /\ Control(r, fs, V)
    /\ d \in Seq(V) /\ d # <<>>

(* One dynamic binding per binding guard, one capture per capture guard. *)
Count(fs, k) == Cardinality({i \in 1..Len(fs) : fs[i].kind = k})
GuardsHold(fs, d, o) ==
    /\ IsSeq(o)
    /\ Len(d) = 1 + Count(fs, "bind")
    /\ Len(o) = 1 + Count(fs, "capture")

IrSound(c, fs, r, h, d, o) ==
    /\ \E V, C : Consistent(V, C, c, fs, r, h, d)
    /\ GuardsHold(fs, d, o)

IndInv == WellFormed(code) /\ IrSound(code, frames, ctl, heap, dyn, out)

-----------------------------------------------------------------------------
(* Sequences as stacks. *)

ReplacesTop(t, fs, g) == t = [fs EXCEPT ![Len(fs)] = g]
Pushes(t, fs, g) == t = Append(fs, g)

\* Replacing the top of a stack.
LEMMA Replaced ==
    ASSUME NEW fs, IsSeq(fs), Len(fs) >= 1, NEW g,
           NEW t, ReplacesTop(t, fs, g)
    PROVE  /\ IsSeq(t) /\ Len(t) = Len(fs) /\ t[Len(fs)] = g
           /\ \A i \in 1..(Len(fs) - 1) : t[i] = fs[i]
<1>1. PICK S : fs \in Seq(S)  BY DEF IsSeq
<1>2. fs \in Seq(S \cup {g})
  BY <1>1
<1>3. t \in Seq(S \cup {g}) /\ Len(t) = Len(fs)
  BY <1>2, ExceptSeq DEF ReplacesTop
<1>4. t[Len(fs)] = g /\ \A i \in 1..(Len(fs) - 1) : t[i] = fs[i]
  BY <1>1 DEF ReplacesTop
<1> QED BY <1>3, <1>4 DEF IsSeq

\* Pushing onto a stack.
LEMMA Pushed ==
    ASSUME NEW fs, IsSeq(fs), NEW g, NEW t, Pushes(t, fs, g)
    PROVE  /\ IsSeq(t) /\ Len(t) = Len(fs) + 1 /\ t[Len(fs) + 1] = g
           /\ Len(fs) \in Nat
           /\ \A i \in 1..Len(fs) : t[i] = fs[i]
<1>1. PICK S : fs \in Seq(S)  BY DEF IsSeq
<1>2. fs \in Seq(S \cup {g})
  BY <1>1
<1> HIDE DEF IsSeq
<1>3. t \in Seq(S \cup {g})  BY <1>2 DEF Pushes
<1>4. IsSeq(t)  BY <1>3 DEF IsSeq
<1> QED BY <1>2, <1>4 DEF Pushes

\* Popping a stack.
LEMMA FrontKept ==
    ASSUME NEW fs, IsSeq(fs), Len(fs) >= 1, NEW t, t = Front(fs)
    PROVE  /\ IsSeq(t) /\ Len(t) = Len(fs) - 1 /\ Len(fs) \in Nat
           /\ \A i \in 1..(Len(fs) - 1) : t[i] = fs[i]
<1>1. PICK S : fs \in Seq(S)  BY DEF IsSeq
<1>2. Len(fs) \in Int /\ \A i \in 1..(Len(fs) - 1) : fs[i] \in S  BY <1>1
<1>3. /\ t \in Seq(S) /\ Len(t) = IF 1 <= Len(fs) - 1 THEN Len(fs) - 1 - 1 + 1 ELSE 0
      /\ \A i \in 1..(Len(fs) - 1 - 1 + 1) : t[i] = fs[1 + i - 1]
  BY <1>2, SubSeqProperties DEF Front
<1>4. IsSeq(t)  BY <1>3 DEF IsSeq
<1>5. Len(t) = Len(fs) - 1
  <2>1. Len(fs) = 1 \/ 1 <= Len(fs) - 1
    <3>1. \A n \in Int : n >= 1 => n = 1 \/ 1 <= n - 1  OBVIOUS
    <3> QED BY <1>2, <3>1
  <2>2. CASE Len(fs) = 1  BY <1>3, <2>2
  <2>3. CASE 1 <= Len(fs) - 1  BY <1>2, <1>3, <2>3
  <2> QED BY <2>1, <2>2, <2>3
<1>6. ASSUME NEW i \in 1..(Len(fs) - 1) PROVE t[i] = fs[i]
  <2>1. i \in 1..(Len(fs) - 1 - 1 + 1) /\ 1 + i - 1 = i  BY <1>2
  <2> QED BY <1>3, <2>1
<1> QED BY <1>2, <1>4, <1>5, <1>6

\* The length of a sequence.
LEMMA SeqLen == ASSUME NEW s, IsSeq(s) PROVE Len(s) \in Nat /\ DOMAIN s = 1..Len(s)
<1>1. PICK S : s \in Seq(S)  BY DEF IsSeq
<1> QED BY <1>1

\* A sequence over a set is one over any larger set.
LEMMA SeqMono ==
    ASSUME NEW V, NEW W, V \subseteq W, NEW s \in Seq(V)
    PROVE  s \in Seq(W)
OBVIOUS

-----------------------------------------------------------------------------
(* How many frames of a kind there are. *)

\* The index sets that Count measures are finite.
LEMMA CountFinite ==
    ASSUME NEW fs, IsSeq(fs), NEW k, NEW n \in Nat
    PROVE  /\ IsFiniteSet({i \in 1..n : fs[i].kind = k})
           /\ Cardinality({i \in 1..n : fs[i].kind = k}) \in Nat
<1>1. IsFiniteSet(1..n)  BY FS_Interval
<1>2. {i \in 1..n : fs[i].kind = k} \subseteq 1..n  OBVIOUS
<1>3. IsFiniteSet({i \in 1..n : fs[i].kind = k})  BY <1>1, <1>2, FS_Subset
<1> QED BY <1>3, FS_CardinalityType

\* A frame replaced by one of its own kind.
LEMMA CountReplaced ==
    ASSUME NEW fs, IsSeq(fs), Len(fs) >= 1, NEW g, g.kind = TopOf(fs).kind,
           NEW t, ReplacesTop(t, fs, g), NEW k
    PROVE  Count(t, k) = Count(fs, k)
<1>1. /\ Len(t) = Len(fs) /\ t[Len(fs)] = g /\ Len(fs) \in Nat
      /\ \A i \in 1..(Len(fs) - 1) : t[i] = fs[i]
  BY Replaced, SeqLen
<1>2. \A i \in 1..Len(fs) : t[i].kind = fs[i].kind  BY <1>1 DEF TopOf
<1>3. {i \in 1..Len(t) : t[i].kind = k} = {i \in 1..Len(fs) : fs[i].kind = k}
  BY <1>1, <1>2
<1> QED BY <1>3 DEF Count

\* A frame pushed.
LEMMA CountPushed ==
    ASSUME NEW fs, IsSeq(fs), NEW g, NEW t, Pushes(t, fs, g), NEW k
    PROVE  Count(t, k) = Count(fs, k) + (IF g.kind = k THEN 1 ELSE 0)
<1>1. /\ Len(t) = Len(fs) + 1 /\ t[Len(fs) + 1] = g /\ Len(fs) \in Nat
      /\ \A i \in 1..Len(fs) : t[i] = fs[i]
  BY Pushed
<1> DEFINE A == {i \in 1..Len(fs) : fs[i].kind = k}
           B == {i \in 1..Len(t) : t[i].kind = k}
<1>2. IsFiniteSet(A) /\ Cardinality(A) \in Nat  BY <1>1, CountFinite
<1>3. Len(fs) + 1 \notin A  BY <1>1
<1>4. CASE g.kind = k
  <2>1. B = A \cup {Len(fs) + 1}  BY <1>1, <1>4
  <2>2. Cardinality(B) = Cardinality(A) + 1  BY <2>1, <1>2, <1>3, FS_AddElement
  <2> QED BY <2>2, <1>4 DEF Count
<1>5. CASE g.kind # k
  <2>1. B = A  BY <1>1, <1>5
  <2> HIDE DEF A, B
  <2>2. Cardinality(B) = Cardinality(A) + 0  BY <2>1, <1>2
  <2> QED BY <2>2, <1>5 DEF Count, A, B
<1> QED BY <1>4, <1>5

\* A frame popped.
LEMMA CountPopped ==
    ASSUME NEW fs, IsSeq(fs), Len(fs) >= 1, NEW t, t = Front(fs), NEW k
    PROVE  Count(fs, k) = Count(t, k) + (IF TopOf(fs).kind = k THEN 1 ELSE 0)
<1>1. /\ IsSeq(t) /\ Len(t) = Len(fs) - 1 /\ Len(fs) \in Nat
      /\ \A i \in 1..(Len(fs) - 1) : t[i] = fs[i]
  BY FrontKept
<1> DEFINE A == {i \in 1..Len(t) : t[i].kind = k}
           B == {i \in 1..Len(fs) : fs[i].kind = k}
<1>2. Len(t) \in Nat /\ IsSeq(t)  BY <1>1
<1>3. IsFiniteSet(A) /\ Cardinality(A) \in Nat  BY ONLY <1>2, CountFinite
<1>4. Len(fs) \notin A  BY <1>1
<1>5. CASE TopOf(fs).kind = k
  <2>1. B = A \cup {Len(fs)}  BY <1>1, <1>5 DEF TopOf
  <2>2. Cardinality(B) = Cardinality(A) + 1  BY <2>1, <1>3, <1>4, FS_AddElement
  <2> QED BY <2>2, <1>5 DEF Count
<1>6. CASE TopOf(fs).kind # k
  <2>1. B = A  BY <1>1, <1>6 DEF TopOf
  <2> HIDE DEF A, B
  <2>2. Cardinality(B) = Cardinality(A) + 0  BY <2>1, <1>3
  <2> QED BY <2>2, <1>6 DEF Count, A, B
<1> QED BY <1>5, <1>6

\* Counts are numbers.
LEMMA CountNat == ASSUME NEW fs, IsSeq(fs), NEW k PROVE Count(fs, k) \in Nat
BY SeqLen, CountFinite DEF Count

-----------------------------------------------------------------------------
(* More values: what was consistent stays so. *)

\* The values of a frame.
LEMMA FrameMono ==
    ASSUME NEW V, NEW W, V \subseteq W, NEW c, NEW f, FrameOK(f, V, c)
    PROVE  FrameOK(f, W, c)
<1>1. CASE IrFrame(f, V, c)
  <2>1. f.regs \in [Used(c[f.fn]) -> W]  BY <1>1 DEF IrFrame
  <2>2. IrFrame(f, W, c)  BY <1>1, <2>1 DEF IrFrame
  <2> QED BY <2>2 DEF FrameOK
<1>2. CASE TryFrame(f, V)
  <2>1. TryFrame(f, W)  BY <1>2 DEF TryFrame, OutcomeOK
  <2> QED BY <2>1 DEF FrameOK
<1> QED BY <1>1, <1>2 DEF FrameOK

\* The values of a stack.
LEMMA StackMono ==
    ASSUME NEW V, NEW W, V \subseteq W, NEW c, NEW fs, StackOK(fs, V, c)
    PROVE  StackOK(fs, W, c)
<1>1. \A i \in 1..Len(fs) : FrameOK(fs[i], W, c)  BY FrameMono DEF StackOK
<1> QED BY <1>1 DEF StackOK

\* The values of the heap.
LEMMA HeapMono ==
    ASSUME NEW V, NEW W, V \subseteq W, NEW C, NEW c, NEW h, HeapOK(h, V, C, c)
    PROVE  HeapOK(h, W, C, c)
<1>1. \A n \in (1..Len(h)) \ C : ClosureOK(h[n], W, c)
  BY SeqMono DEF HeapOK, ClosureOK
<1> QED BY <1>1 DEF HeapOK

\* One more value, made of values there are.
LEMMA ValuesGrow ==
    ASSUME NEW V, NEW C, NEW n, ValuesOK(V, C, n), NEW x, ValueOK(x, V, C, n)
    PROVE  ValuesOK(V \cup {x}, C, n)
<1> DEFINE W == V \cup {x}
<1>1. V \subseteq W  OBVIOUS
<1> HIDE DEF W
<1>2. ASSUME NEW v, ValueOK(v, V, C, n) PROVE ValueOK(v, W, C, n)
  BY <1>1, <1>2, SeqMono DEF ValueOK
<1>3. \A v \in V : ValueOK(v, V, C, n)  BY DEF ValuesOK
<1>4. \A v \in W : ValueOK(v, W, C, n)  BY <1>2, <1>3 DEF W
<1>5. Nil \in W /\ ErrorValue \in W  BY <1>1 DEF ValuesOK
<1> QED BY <1>4, <1>5 DEF ValuesOK, W

\* A new value changes nothing else.
LEMMA Grow ==
    ASSUME NEW V, NEW C, NEW c, NEW fs, NEW r, NEW h, NEW d,
           Consistent(V, C, c, fs, r, h, d), NEW x, ValueOK(x, V, C, Len(h))
    PROVE  Consistent(V \cup {x}, C, c, fs, r, h, d)
<1> DEFINE W == V \cup {x}
<1>1. V \subseteq W  OBVIOUS
<1>2. ValuesOK(W, C, Len(h))  BY ValuesGrow DEF Consistent
<1> HIDE DEF W
<1>3. HeapOK(h, W, C, c) /\ StackOK(fs, W, c)
  BY <1>1, HeapMono, StackMono DEF Consistent
<1>4. d \in Seq(W) /\ d # <<>>  BY <1>1, SeqMono DEF Consistent
<1>5. Control(r, fs, W)
  BY <1>1 DEF Consistent, Control, OutcomeOK
<1>6. Consistent(W, C, c, fs, r, h, d)  BY <1>2, <1>3, <1>4, <1>5 DEF Consistent
<1> QED BY <1>6 DEF W

-----------------------------------------------------------------------------
(* Activations. *)

\* The length of a sequence over a set.
LEMMA LenInt ==
    ASSUME NEW S, NEW s \in Seq(S) PROVE Len(s) \in Int /\ Len(s) >= 0
OBVIOUS

\* A place of a block.
LEMMA PlaceInt ==
    ASSUME NEW m \in Int, NEW n \in Int, m >= 0, n >= 0
    PROVE  /\ 0 \in 0..(m + n) /\ \A j \in 1..n : 0 < m + j
           /\ \A i \in 0..(m + n) : i < m + n => i + 1 \in 0..(m + n)
OBVIOUS

\* The lengths of a block.
LEMMA BlockLens ==
    ASSUME NEW c, NEW f, NEW b, GoodBlock(c, f, b)
    PROVE  /\ Len(f.blocks[b].phis) \in Int /\ Len(f.blocks[b].phis) >= 0
           /\ Len(f.blocks[b].insts) \in Int /\ Len(f.blocks[b].insts) >= 0
<1>1. /\ f.blocks[b].phis \in Seq([dst : Used(f), from : Seq((DOMAIN f.blocks) \X Used(f))])
      /\ f.blocks[b].insts \in Seq(ToSet(f.blocks[b].insts))
  BY DEF GoodBlock
<1> QED BY <1>1, LenInt

\* The block an activation is in is well formed.
LEMMA InGoodBlock ==
    ASSUME NEW c, WellFormed(c), NEW V, NEW f, IrFrame(f, V, c)
    PROVE  /\ GoodFn(c, c[f.fn]) /\ GoodBlock(c, c[f.fn], f.blk)
           /\ Len(BlockOf(f, c).phis) \in Int /\ Len(BlockOf(f, c).phis) >= 0
           /\ Len(BlockOf(f, c).insts) \in Int /\ Len(BlockOf(f, c).insts) >= 0
<1>1. GoodFn(c, c[f.fn])  BY DEF WellFormed, IrFrame
<1>2. GoodBlock(c, c[f.fn], f.blk)  BY <1>1 DEF GoodFn, IrFrame, Entered
<1> QED BY <1>1, <1>2, BlockLens DEF BlockOf

\* An activation moves past a phi or an instruction that is no throw.
LEMMA Advanced ==
    ASSUME NEW c, WellFormed(c), NEW V, NEW f, IrFrame(f, V, c), CanPass(f, c),
           NEW g, DOMAIN g = DOMAIN f,
           g.kind = "ir", g.fn = f.fn, g.blk = f.blk, g.prev = f.prev,
           g.at = f.at + 1, g.regs \in [Used(c[f.fn]) -> V]
    PROVE  IrFrame(g, V, c)
<1> DEFINE k == BlockOf(f, c)
<1>1. BlockOf(g, c) = k  BY DEF BlockOf
<1>2. /\ Len(k.phis) \in Int /\ Len(k.phis) >= 0
      /\ Len(k.insts) \in Int /\ Len(k.insts) >= 0
  BY InGoodBlock
<1>3. Reached(k, f.at)  BY DEF IrFrame
<1>4. /\ f.at < Len(k.phis) + Len(k.insts)
      /\ f.at >= Len(k.phis) => k.insts[f.at - Len(k.phis) + 1][1] # "throw"
  BY DEF CanPass
<1> HIDE DEF k
<1>5. Reached(k, f.at + 1)
  <2>1. f.at + 1 \in 0..(Len(k.phis) + Len(k.insts))
    BY <1>2, <1>3, <1>4, PlaceInt DEF Reached
  <2>2. ASSUME NEW j \in 1..Len(k.insts), k.insts[j][1] = "throw"
        PROVE  f.at + 1 < Len(k.phis) + j
    <3>1. f.at < Len(k.phis) + j /\ f.at \in Int /\ j \in Int  BY <1>2, <1>3, <2>2 DEF Reached
    <3>2. f.at - Len(k.phis) + 1 # j \/ ~(f.at >= Len(k.phis))  BY <1>4, <2>2
    <3> DEFINE n == Len(k.phis)
    <3>3. n \in Int  BY <1>2
    <3>4. f.at < n + j /\ (f.at - n + 1 # j \/ ~(f.at >= n)) /\ j >= 1  BY <3>1, <3>2
    <3> HIDE DEF n
    <3>5. f.at + 1 < n + j  BY <3>1, <3>3, <3>4
    <3> QED BY <3>5 DEF n
  <2> QED BY <2>1, <2>2 DEF Reached
<1>6. Entered(c[g.fn], g.prev, g.blk)  BY DEF IrFrame
<1>7. f.fn \in 1..Len(c) /\ {"kind", "fn", "blk", "prev", "at", "dst", "regs"} \subseteq DOMAIN f
  BY DEF IrFrame
<1> QED BY <1>1, <1>5, <1>6, <1>7 DEF IrFrame

\* A register written, and the next place.
LEMMA Written ==
    ASSUME NEW c, WellFormed(c), NEW V, NEW f, IrFrame(f, V, c), CanPass(f, c),
           NEW r, NEW v \in V
    PROVE  /\ IrFrame([f EXCEPT !.regs[r] = v, !.at = @ + 1], V, c)
           /\ IrFrame([f EXCEPT !.at = @ + 1], V, c)
<1>1. {"kind", "fn", "blk", "prev", "at", "dst", "regs"} \subseteq DOMAIN f
      /\ f.kind = "ir" /\ f.regs \in [Used(c[f.fn]) -> V]
  BY DEF IrFrame
<1>2. [f.regs EXCEPT ![r] = v] \in [Used(c[f.fn]) -> V]  BY <1>1
<1>3. ASSUME NEW g, g = [f EXCEPT !.regs[r] = v, !.at = @ + 1] PROVE IrFrame(g, V, c)
  <2>1. /\ DOMAIN g = DOMAIN f /\ g.kind = "ir" /\ g.fn = f.fn /\ g.blk = f.blk
        /\ g.prev = f.prev /\ g.at = f.at + 1 /\ g.regs = [f.regs EXCEPT ![r] = v]
    BY <1>1, <1>3
  <2> QED BY <1>2, <2>1, Advanced
<1>4. ASSUME NEW g, g = [f EXCEPT !.at = @ + 1] PROVE IrFrame(g, V, c)
  <2>1. /\ DOMAIN g = DOMAIN f /\ g.kind = "ir" /\ g.fn = f.fn /\ g.blk = f.blk
        /\ g.prev = f.prev /\ g.at = f.at + 1 /\ g.regs = f.regs
    BY <1>1, <1>4
  <2> QED BY <1>1, <2>1, Advanced
<1> QED BY <1>3, <1>4

\* A frame that waits can be passed, and the register it waits for does not matter.
LEMMA WaitsPass ==
    ASSUME NEW c, NEW f, Waits(f, c) PROVE CanPass(f, c)
BY DEF Waits, CanPass

\* The block at the end of an edge is entered at its first place.
LEMMA Jumped ==
    ASSUME NEW c, WellFormed(c), NEW V, NEW f, IrFrame(f, V, c),
           NEW b, b \in Successors(BlockOf(f, c).term)
    PROVE  IrFrame([f EXCEPT !.prev = f.blk, !.blk = b, !.at = 0], V, c)
<1>1. {"kind", "fn", "blk", "prev", "at", "dst", "regs"} \subseteq DOMAIN f
      /\ f.kind = "ir" /\ f.fn \in 1..Len(c) /\ f.regs \in [Used(c[f.fn]) -> V]
      /\ f.blk \in DOMAIN c[f.fn].blocks
  BY DEF IrFrame, Entered
<1>2. GoodFn(c, c[f.fn]) /\ GoodBlock(c, c[f.fn], f.blk)  BY InGoodBlock
<1>3. b \in DOMAIN c[f.fn].blocks  BY <1>2 DEF GoodBlock, BlockOf
<1>4. GoodBlock(c, c[f.fn], b)  BY <1>2, <1>3 DEF GoodFn
<1> DEFINE k == c[f.fn].blocks[b]
<1>5. /\ Len(k.phis) \in Int /\ Len(k.phis) >= 0
      /\ Len(k.insts) \in Int /\ Len(k.insts) >= 0
  BY <1>4, BlockLens
<1> HIDE DEF k
<1>6. Reached(k, 0)  BY <1>5, PlaceInt DEF Reached
<1>7. Entered(c[f.fn], f.blk, b)  BY <1>1, <1>3 DEF Entered, BlockOf
<1>8. ASSUME NEW g, g = [f EXCEPT !.prev = f.blk, !.blk = b, !.at = 0]
      PROVE  IrFrame(g, V, c)
  <2>1. /\ DOMAIN g = DOMAIN f /\ g.kind = "ir" /\ g.fn = f.fn /\ g.blk = b
        /\ g.prev = f.blk /\ g.at = 0 /\ g.regs = f.regs
    BY <1>1, <1>8
  <2>2. BlockOf(g, c) = k  BY <2>1 DEF BlockOf, k
  <2> QED BY <1>1, <1>6, <1>7, <2>1, <2>2 DEF IrFrame
<1> QED BY <1>8

\* A call starts in block 0 with its arguments in the first registers.
LEMMA Activated ==
    ASSUME WellFormed(code), NEW V, Nil \in V, NEW i \in 1..Len(code), NEW vs \in Seq(V)
    PROVE  IrFrame(Activation(i, vs), V, code)
<1> DEFINE f == Activation(i, vs)
           k == code[i].blocks[0]
<1>1. GoodFn(code, code[i])  BY DEF WellFormed
<1>2. GoodBlock(code, code[i], 0) /\ k.phis = <<>> /\ 0 \in DOMAIN code[i].blocks
      /\ Used(code[i]) \subseteq Nat
  BY <1>1 DEF GoodFn
<1>3. /\ Len(k.phis) \in Int /\ Len(k.phis) >= 0
      /\ Len(k.insts) \in Int /\ Len(k.insts) >= 0
  BY <1>2, BlockLens
<1>4. [r \in Used(code[i]) |-> IF r < Len(vs) THEN vs[r + 1] ELSE Nil] \in [Used(code[i]) -> V]
  <2> SUFFICES ASSUME NEW r \in Used(code[i]), r < Len(vs) PROVE vs[r + 1] \in V
    OBVIOUS
  <2>1. r \in Nat  BY <1>2
  <2>2. r + 1 \in 1..Len(vs)  BY <2>1
  <2> QED BY <2>2
<1>5. /\ {"kind", "fn", "blk", "prev", "at", "dst", "regs"} \subseteq DOMAIN f
      /\ f.kind = "ir" /\ f.fn = i /\ f.blk = 0 /\ f.prev = -1 /\ f.at = 0
      /\ f.regs = [r \in Used(code[i]) |-> IF r < Len(vs) THEN vs[r + 1] ELSE Nil]
  BY DEF Activation
<1> HIDE DEF f
<1>6. BlockOf(f, code) = k  BY <1>5 DEF BlockOf
<1>7. Reached(k, 0)  BY <1>3, PlaceInt DEF Reached
<1>8. Entered(code[i], -1, 0)  BY <1>2 DEF Entered
<1>9. IrFrame(f, V, code)  BY <1>4, <1>5, <1>6, <1>7, <1>8 DEF IrFrame
<1> QED BY <1>9 DEF f

-----------------------------------------------------------------------------
(* The call stack. *)

\* The frame on top, by its kind.
LEMMA TopFrame ==
    ASSUME NEW V, NEW c, NEW fs, StackOK(fs, V, c)
    PROVE  /\ Len(fs) \in Int /\ Len(fs) >= 1
           /\ FrameOK(TopOf(fs), V, c)
           /\ TopOf(fs).kind = "ir" => IrFrame(TopOf(fs), V, c)
           /\ TopOf(fs).kind = "try" => TryFrame(TopOf(fs), V)
           /\ TopOf(fs).kind # "ir" => Len(fs) > 1
<1>1. IsSeq(fs) /\ Len(fs) >= 1 /\ fs[1].kind = "ir" /\ \A i \in 1..Len(fs) : FrameOK(fs[i], V, c)
  BY DEF StackOK
<1>2. Len(fs) \in Int  BY <1>1, SeqLen
<1>3. FrameOK(TopOf(fs), V, c)  BY <1>1, <1>2 DEF TopOf
<1>4. TopOf(fs).kind # "ir" => Len(fs) > 1
  <2>1. \A n \in Int : n >= 1 /\ n # 1 => n > 1  OBVIOUS
  <2>2. TopOf(fs).kind # "ir" => Len(fs) # 1  BY <1>1 DEF TopOf
  <2> QED BY <1>1, <1>2, <2>1, <2>2
<1> QED BY <1>1, <1>2, <1>3, <1>4 DEF FrameOK, IrFrame, TryFrame

\* The top frame is replaced by one of its kind.
LEMMA StackReplaced ==
    ASSUME NEW V, NEW c, NEW fs, StackOK(fs, V, c),
           NEW g, FrameOK(g, V, c), g.kind = TopOf(fs).kind,
           NEW t, ReplacesTop(t, fs, g)
    PROVE  /\ StackOK(t, V, c) /\ TopOf(t) = g /\ Len(t) = Len(fs)
           /\ \A k : Count(t, k) = Count(fs, k)
<1>1. /\ IsSeq(fs) /\ Len(fs) >= 1 /\ fs[1].kind = "ir"
      /\ \A i \in 1..Len(fs) : FrameOK(fs[i], V, c)
      /\ \A i \in 2..Len(fs) : fs[i].kind # "ir" => fs[i - 1].kind = "ir"
      /\ \A i \in 1..(Len(fs) - 1) : fs[i].kind = "ir" => Waits(fs[i], c)
  BY DEF StackOK
<1>2. Len(fs) \in Int  BY <1>1, SeqLen
<1>3. /\ IsSeq(t) /\ Len(t) = Len(fs) /\ t[Len(fs)] = g
      /\ \A i \in 1..(Len(fs) - 1) : t[i] = fs[i]
  BY <1>1, Replaced
<1>4. \A k : Count(t, k) = Count(fs, k)  BY <1>1, CountReplaced
<1> DEFINE n == Len(fs)
<1>5. /\ n \in Int /\ n >= 1 /\ t[n] = g /\ fs[n].kind = g.kind
      /\ \A i \in 1..(n - 1) : t[i] = fs[i]
  BY <1>1, <1>2, <1>3 DEF TopOf
<1>6. /\ \A i \in 1..n : FrameOK(fs[i], V, c)
      /\ \A i \in 2..n : fs[i].kind # "ir" => fs[i - 1].kind = "ir"
      /\ \A i \in 1..(n - 1) : fs[i].kind = "ir" => Waits(fs[i], c)
  BY <1>1
<1>7. Len(t) = n /\ TopOf(t) = g  BY <1>3 DEF TopOf
<1> HIDE DEF n
<1>8. \A i \in 1..n : FrameOK(t[i], V, c) /\ t[i].kind = fs[i].kind
  <2> SUFFICES ASSUME NEW i \in 1..n PROVE FrameOK(t[i], V, c) /\ t[i].kind = fs[i].kind
    OBVIOUS
  <2>1. i = n \/ i \in 1..(n - 1)  BY <1>5
  <2> QED BY <2>1, <1>5, <1>6
<1>9. t[1].kind = "ir"  BY <1>8, <1>5, <1>1
<1>10. \A i \in 2..n : t[i].kind # "ir" => t[i - 1].kind = "ir"
  <2> SUFFICES ASSUME NEW i \in 2..n PROVE t[i].kind # "ir" => t[i - 1].kind = "ir"
    OBVIOUS
  <2>1. i \in 1..n /\ i - 1 \in 1..n  BY <1>5
  <2> QED BY <2>1, <1>8, <1>6
<1>11. \A i \in 1..(n - 1) : t[i].kind = "ir" => Waits(t[i], c)  BY <1>5, <1>6
<1>12. StackOK(t, V, c)  BY <1>3, <1>5, <1>7, <1>8, <1>9, <1>10, <1>11 DEF StackOK
<1> QED BY <1>3, <1>4, <1>7, <1>12

\* A frame is pushed on one that waits.
LEMMA StackPushed ==
    ASSUME NEW V, NEW c, NEW fs, StackOK(fs, V, c),
           NEW g, FrameOK(g, V, c),
           TopOf(fs).kind = "ir" => Waits(TopOf(fs), c),
           g.kind # "ir" => TopOf(fs).kind = "ir",
           NEW t, Pushes(t, fs, g)
    PROVE  /\ StackOK(t, V, c) /\ TopOf(t) = g /\ Len(t) = Len(fs) + 1
           /\ \A k : Count(t, k) = Count(fs, k) + (IF g.kind = k THEN 1 ELSE 0)
<1>1. /\ IsSeq(fs) /\ Len(fs) >= 1 /\ fs[1].kind = "ir"
      /\ \A i \in 1..Len(fs) : FrameOK(fs[i], V, c)
      /\ \A i \in 2..Len(fs) : fs[i].kind # "ir" => fs[i - 1].kind = "ir"
      /\ \A i \in 1..(Len(fs) - 1) : fs[i].kind = "ir" => Waits(fs[i], c)
  BY DEF StackOK
<1>2. Len(fs) \in Int  BY <1>1, SeqLen
<1>3. /\ IsSeq(t) /\ Len(t) = Len(fs) + 1 /\ t[Len(fs) + 1] = g
      /\ \A i \in 1..Len(fs) : t[i] = fs[i]
  BY <1>1, Pushed
<1>4. \A k : Count(t, k) = Count(fs, k) + (IF g.kind = k THEN 1 ELSE 0)
  BY <1>1, CountPushed
<1> DEFINE n == Len(fs)
<1>5. /\ n \in Int /\ n >= 1 /\ t[n + 1] = g /\ Len(t) = n + 1 /\ TopOf(fs) = fs[n]
      /\ \A i \in 1..n : t[i] = fs[i]
  BY <1>1, <1>2, <1>3 DEF TopOf
<1>6. /\ \A i \in 1..n : FrameOK(fs[i], V, c)
      /\ \A i \in 2..n : fs[i].kind # "ir" => fs[i - 1].kind = "ir"
      /\ \A i \in 1..(n - 1) : fs[i].kind = "ir" => Waits(fs[i], c)
  BY <1>1
<1>7. TopOf(t) = g  BY <1>3 DEF TopOf
<1> HIDE DEF n
<1>8. \A i \in 1..(n + 1) : FrameOK(t[i], V, c)
  <2> SUFFICES ASSUME NEW i \in 1..(n + 1) PROVE FrameOK(t[i], V, c)
    OBVIOUS
  <2>1. i = n + 1 \/ i \in 1..n  BY <1>5
  <2> QED BY <2>1, <1>5, <1>6
<1>9. t[1].kind = "ir"  BY <1>5, <1>1
<1>10. \A i \in 2..(n + 1) : t[i].kind # "ir" => t[i - 1].kind = "ir"
  <2> SUFFICES ASSUME NEW i \in 2..(n + 1), t[i].kind # "ir" PROVE t[i - 1].kind = "ir"
    OBVIOUS
  <2>1. i = n + 1 \/ i \in 2..n  BY <1>5
  <2>2. CASE i = n + 1
    <3>1. i - 1 = n /\ n \in 1..n  BY <1>5, <2>2
    <3> QED BY <3>1, <2>2, <1>5
  <2>3. CASE i \in 2..n
    <3>1. i \in 1..n /\ i - 1 \in 1..n  BY <1>5, <2>3
    <3> QED BY <3>1, <2>3, <1>5, <1>6
  <2> QED BY <2>1, <2>2, <2>3
<1>11. \A i \in 1..n : t[i].kind = "ir" => Waits(t[i], c)
  <2> SUFFICES ASSUME NEW i \in 1..n, t[i].kind = "ir" PROVE Waits(t[i], c)
    OBVIOUS
  <2>1. i = n \/ i \in 1..(n - 1)  BY <1>5
  <2> QED BY <2>1, <1>5, <1>6
<1>12. Len(t) >= 1 /\ Len(t) - 1 = n  BY <1>5
<1>13. StackOK(t, V, c)  BY <1>3, <1>5, <1>12, <1>8, <1>9, <1>10, <1>11 DEF StackOK
<1> QED BY <1>3, <1>4, <1>7, <1>13

\* The top frame is popped.
LEMMA StackPopped ==
    ASSUME NEW V, NEW c, NEW fs, StackOK(fs, V, c), Len(fs) > 1,
           NEW t, t = Front(fs)
    PROVE  /\ StackOK(t, V, c)
           /\ TopOf(t).kind = "ir" => Waits(TopOf(t), c)
           /\ TopOf(fs).kind # "ir" => TopOf(t).kind = "ir"
           /\ \A k : Count(fs, k) = Count(t, k) + (IF TopOf(fs).kind = k THEN 1 ELSE 0)
<1>1. /\ IsSeq(fs) /\ Len(fs) >= 1 /\ fs[1].kind = "ir"
      /\ \A i \in 1..Len(fs) : FrameOK(fs[i], V, c)
      /\ \A i \in 2..Len(fs) : fs[i].kind # "ir" => fs[i - 1].kind = "ir"
      /\ \A i \in 1..(Len(fs) - 1) : fs[i].kind = "ir" => Waits(fs[i], c)
  BY DEF StackOK
<1>2. Len(fs) \in Int  BY <1>1, SeqLen
<1>3. /\ IsSeq(t) /\ Len(t) = Len(fs) - 1
      /\ \A i \in 1..(Len(fs) - 1) : t[i] = fs[i]
  BY <1>1, FrontKept
<1>4. \A k : Count(fs, k) = Count(t, k) + (IF TopOf(fs).kind = k THEN 1 ELSE 0)
  BY <1>1, CountPopped
<1> DEFINE n == Len(fs)
<1>5. /\ n \in Int /\ n > 1 /\ Len(t) = n - 1 /\ TopOf(fs) = fs[n] /\ TopOf(t) = t[n - 1]
      /\ \A i \in 1..(n - 1) : t[i] = fs[i]
  BY <1>1, <1>2, <1>3 DEF TopOf
<1>6. /\ \A i \in 1..n : FrameOK(fs[i], V, c)
      /\ \A i \in 2..n : fs[i].kind # "ir" => fs[i - 1].kind = "ir"
      /\ \A i \in 1..(n - 1) : fs[i].kind = "ir" => Waits(fs[i], c)
  BY <1>1
<1> HIDE DEF n
<1>7. \A i \in 1..(n - 1) : FrameOK(t[i], V, c)
  <2> SUFFICES ASSUME NEW i \in 1..(n - 1) PROVE FrameOK(t[i], V, c)
    OBVIOUS
  <2>1. i \in 1..n  BY <1>5
  <2> QED BY <2>1, <1>5, <1>6
<1>8. t[1].kind = "ir"
  <2>1. 1 \in 1..(n - 1)  BY <1>5
  <2> QED BY <2>1, <1>5, <1>1
<1>9. \A i \in 2..(n - 1) : t[i].kind # "ir" => t[i - 1].kind = "ir"
  <2> SUFFICES ASSUME NEW i \in 2..(n - 1), t[i].kind # "ir" PROVE t[i - 1].kind = "ir"
    OBVIOUS
  <2>1. i \in 1..(n - 1) /\ i - 1 \in 1..(n - 1) /\ i \in 2..n  BY <1>5
  <2> QED BY <2>1, <1>5, <1>6
<1>10. \A i \in 1..(n - 1) : t[i].kind = "ir" => Waits(t[i], c)  BY <1>5, <1>6
<1>11. /\ Len(t) >= 1
       /\ \A i \in 1..(Len(t) - 1) : i \in 1..(n - 1)
       /\ n - 1 \in 1..(n - 1) /\ n \in 2..n
  BY <1>5
<1>12. StackOK(t, V, c)
  <2>1. \A i \in 1..(Len(t) - 1) : t[i].kind = "ir" => Waits(t[i], c)  BY <1>10, <1>11
  <2> QED BY <1>3, <1>5, <1>11, <1>7, <1>8, <1>9, <2>1 DEF StackOK
<1>13. TopOf(t).kind = "ir" => Waits(TopOf(t), c)  BY <1>5, <1>10, <1>11
<1>14. TopOf(fs).kind # "ir" => TopOf(t).kind = "ir"  BY <1>5, <1>6, <1>11
<1> QED BY <1>4, <1>12, <1>13, <1>14

-----------------------------------------------------------------------------
(* What the steps are made of. *)

\* An outcome is handed over, not run.
LEMMA Outcome ==
    ASSUME NEW V, NEW r, OutcomeOK(r, V), NEW fs
    PROVE  r # Run /\ Control(r, fs, V)
<1>1. r # Run  BY DEF OutcomeOK, Run
<1> QED BY <1>1 DEF Control

\* The top activation moves, on the same values.
LEMMA TopMoves ==
    ASSUME NEW V, NEW C, NEW c, NEW fs, NEW h, NEW d, NEW o,
           Consistent(V, C, c, fs, Run, h, d), GuardsHold(fs, d, o),
           NEW g, IrFrame(g, V, c), NEW t, ReplacesTop(t, fs, g)
    PROVE  Consistent(V, C, c, t, Run, h, d) /\ GuardsHold(t, d, o)
<1>1. StackOK(fs, V, c) /\ TopOf(fs).kind = "ir"  BY DEF Consistent, Control
<1>2. g.kind = TopOf(fs).kind /\ FrameOK(g, V, c)  BY <1>1 DEF IrFrame, FrameOK
<1>3. StackOK(t, V, c) /\ TopOf(t) = g /\ \A k : Count(t, k) = Count(fs, k)
  BY <1>1, <1>2, StackReplaced
<1>4. Control(Run, t, V)  BY <1>1, <1>2, <1>3 DEF Control
<1> QED BY <1>3, <1>4 DEF Consistent, GuardsHold

\* The top activation writes a register and goes on.
LEMMA Writes ==
    ASSUME NEW V, NEW C, NEW c, NEW fs, NEW h, NEW d, NEW o, WellFormed(c),
           Consistent(V, C, c, fs, Run, h, d), GuardsHold(fs, d, o),
           CanPass(TopOf(fs), c), NEW v, ValueOK(v, V, C, Len(h)), NEW q,
           NEW t, ReplacesTop(t, fs, [TopOf(fs) EXCEPT !.regs[q] = v, !.at = @ + 1])
    PROVE  IrSound(c, t, Run, h, d, o)
<1> DEFINE W == V \cup {v}
<1>1. Consistent(W, C, c, fs, Run, h, d) /\ v \in W  BY Grow
<1> HIDE DEF W
<1>2. IrFrame(TopOf(fs), W, c)  BY <1>1, TopFrame DEF Consistent, Control
<1>3. IrFrame([TopOf(fs) EXCEPT !.regs[q] = v, !.at = @ + 1], W, c)  BY <1>1, <1>2, Written
<1>4. Consistent(W, C, c, t, Run, h, d) /\ GuardsHold(t, d, o)  BY <1>1, <1>3, TopMoves
<1> QED BY <1>4 DEF IrSound

\* A value of V is a good one.
LEMMA OfV ==
    ASSUME NEW V, NEW C, NEW n, ValuesOK(V, C, n), NEW v \in V
    PROVE  ValueOK(v, V, C, n)
BY DEF ValuesOK

\* The stack stays, and an outcome is handed over.
LEMMA Raises ==
    ASSUME NEW V, NEW C, NEW c, NEW fs, NEW r, NEW h, NEW d, NEW o,
           Consistent(V, C, c, fs, r, h, d), GuardsHold(fs, d, o),
           NEW s, OutcomeOK(s, V)
    PROVE  IrSound(c, fs, s, h, d, o)
<1>1. Control(s, fs, V)  BY Outcome
<1>2. Consistent(V, C, c, fs, s, h, d)  BY <1>1 DEF Consistent
<1> QED BY <1>2 DEF IrSound

\* The error outcome needs no value but nil.
LEMMA ErrOutcome == ASSUME NEW V, Nil \in V PROVE OutcomeOK(<<"err", Nil>>, V)
BY DEF OutcomeOK

\* An error that becomes a throw, and one of the arity, carry the error value.
LEMMA ThrownOutcome ==
    ASSUME NEW V, Nil \in V, ErrorValue \in V
    PROVE  /\ \A r : OutcomeOK(r, V) => OutcomeOK(AsThrown(r), V)
           /\ \A ars, n : OutcomeOK(ArityError(ars, n), V)
BY DEF OutcomeOK, AsThrown, ArityError

\* The result of a guard goes to the activation below it.
LEMMA Resumes ==
    ASSUME NEW V, WellFormed(code), NEW st, StackOK(st, V, code),
           TopOf(st).kind = "ir", Waits(TopOf(st), code),
           NEW r, OutcomeOK(r, V), Resume(st, r)
    PROVE  /\ StackOK(frames', V, code) /\ Control(ctl', frames', V)
           /\ \A k : Count(frames', k) = Count(st, k)
<1>1. CASE r[1] = "ok"
  <2> DEFINE g == [TopOf(st) EXCEPT !.regs[TopOf(st).dst] = r[2], !.at = @ + 1]
  <2>1. ReplacesTop(frames', st, g) /\ ctl' = Run
    BY <1>1 DEF Resume, ReplacesTop, TopOf, Delivered
  <2>2. IrFrame(TopOf(st), V, code) /\ CanPass(TopOf(st), code) /\ r[2] \in V
    BY TopFrame, WaitsPass DEF OutcomeOK
  <2>3. IrFrame(g, V, code)  BY <2>2, Written
  <2> HIDE DEF g
  <2>4. FrameOK(g, V, code) /\ g.kind = TopOf(st).kind  BY <2>3 DEF IrFrame, FrameOK
  <2>5. /\ StackOK(frames', V, code) /\ TopOf(frames') = g
        /\ \A k : Count(frames', k) = Count(st, k)
    BY <2>1, <2>4, StackReplaced
  <2>6. Control(ctl', frames', V)  BY <2>1, <2>4, <2>5 DEF Control
  <2> QED BY <2>5, <2>6
<1>2. CASE r[1] # "ok"
  <2>1. frames' = st /\ ctl' = r  BY <1>2 DEF Resume
  <2>2. Control(ctl', frames', V)  BY <2>1, Outcome
  <2> QED BY <2>1, <2>2
<1> QED BY <1>1, <1>2

\* New frames and a new outcome over more values.
LEMMA Assembled ==
    ASSUME NEW V, NEW C, NEW c, NEW fs, NEW r, NEW h, NEW d,
           Consistent(V, C, c, fs, r, h, d),
           NEW W, V \subseteq W, ValuesOK(W, C, Len(h)),
           NEW t, StackOK(t, W, c), NEW s, Control(s, t, W),
           NEW e, e \in Seq(W), e # <<>>
    PROVE  Consistent(W, C, c, t, s, h, e)
<1>1. HeapOK(h, W, C, c)  BY HeapMono DEF Consistent
<1> QED BY <1>1 DEF Consistent
-----------------------------------------------------------------------------
(* Calls. *)

\* The arity chosen for n arguments exists and takes them.
LEMMA ArityChosen ==
    ASSUME NEW c, NEW ars \in Seq(Arities(c)), NEW n \in Nat, ArityFor(ars, n) # 0
    PROVE  /\ ArityFor(ars, n) \in 1..Len(ars)
           /\ ars[ArityFor(ars, n)] \in Arities(c)
           /\ ars[ArityFor(ars, n)].va => ars[ArityFor(ars, n)].n <= n
<1> DEFINE fixed == {i \in 1..Len(ars) : ~ars[i].va /\ ars[i].n = n}
           more == {i \in 1..Len(ars) : ars[i].va /\ ars[i].n <= n}
           i == ArityFor(ars, n)
<1>0. \A a \in Arities(c) : a.n \in Nat  BY DEF Arities
<1>1. \A j \in 1..Len(ars) : ars[j] \in Arities(c) /\ ars[j].n \in Nat  BY <1>0
<1>2. CASE fixed # {}
  <2>0. fixed \subseteq Nat  OBVIOUS
  <2>1. \E x \in fixed : \A y \in fixed : x <= y
    <3> HIDE DEF fixed
    <3> QED BY <1>2, <2>0, LeastNumber
  <2>2. i = CHOOSE x \in fixed : \A y \in fixed : x <= y  BY <1>2 DEF ArityFor
  <2>3. i \in fixed  BY <2>1, <2>2
  <2> QED BY <2>3, <1>1
<1>3. CASE fixed = {} /\ more # {}
  <2> DEFINE slack == {n - ars[x].n : x \in more}
             P(x) == \A y \in more : ars[y].n < ars[x].n \/ (ars[y].n = ars[x].n /\ x <= y)
  <2>1. slack \subseteq Nat /\ slack # {}
    <3>1. \A x \in more : n - ars[x].n \in Nat  BY <1>1
    <3>2. PICK x \in more : TRUE  BY <1>3
    <3>3. n - ars[x].n \in slack  OBVIOUS
    <3> QED BY <3>1, <3>3
  <2>2. PICK m \in slack : \A y \in slack : m <= y
    <3> HIDE DEF slack
    <3> QED BY <2>1, LeastNumber
  <2> DEFINE best == {x \in more : n - ars[x].n = m}
  <2>3. best \subseteq Nat /\ best # {}  OBVIOUS
  <2>4. PICK x \in best : \A y \in best : x <= y  BY <2>3, LeastNumber
  <2>5. P(x)
    <3> SUFFICES ASSUME NEW y \in more
                 PROVE  ars[y].n < ars[x].n \/ (ars[y].n = ars[x].n /\ x <= y)
      OBVIOUS
    <3>1. ars[y].n \in Nat /\ ars[x].n \in Nat /\ n - ars[x].n = m /\ m <= n - ars[y].n
      BY <1>1, <2>2
    <3>2. ars[y].n = ars[x].n => y \in best  BY <3>1
    <3>3. ars[y].n <= ars[x].n  BY <3>1
    <3> QED BY <3>1, <3>2, <3>3, <2>4
  <2>6. i = CHOOSE x1 \in more : P(x1)  BY <1>3 DEF ArityFor
  <2>7. x \in more  OBVIOUS
  <2> HIDE DEF P
  <2>8. i \in more  BY <2>5, <2>6, <2>7
  <2> QED BY <2>8, <1>1
<1>4. CASE fixed = {} /\ more = {}
  BY <1>4 DEF ArityFor
<1> QED BY <1>2, <1>3, <1>4

\* What is called is a value there is.
LEMMA CalleeOK ==
    ASSUME NEW V, NEW C, ValuesOK(V, C, Len(heap)), HeapOK(heap, V, C, code), NEW f \in V
    PROVE  Callee(f) \in V
BY OfV DEF Callee, ValueOK, HeapOK

\* The arguments of a call that collects the rest in a list.
LEMMA RestArgs ==
    ASSUME NEW V, NEW vs \in Seq(V), NEW n \in Nat, n <= Len(vs)
    PROVE  SubSeq(vs, 1, n) \in Seq(V) /\ SubSeq(vs, n + 1, Len(vs)) \in Seq(V)
<1>1. \A i \in 1..n : vs[i] \in V  OBVIOUS
<1>2. \A i \in (n + 1)..Len(vs) : vs[i] \in V  OBVIOUS
<1> QED BY <1>1, <1>2, SubSeqProperties

\* A list of values, as an argument.
LEMMA ListValue ==
    ASSUME NEW V, NEW C, NEW n, NEW s \in Seq(V)
    PROVE  ValueOK(<<"list", s>>, V, C, n)
BY DEF ValueOK

\* A call over good values leaves a good stack, with an activation on top or an error.
LEMMA Invokes ==
    ASSUME NEW V, NEW C, WellFormed(code), ValuesOK(V, C, Len(heap)),
           HeapOK(heap, V, C, code), NEW st, StackOK(st, V, code),
           TopOf(st).kind = "ir" => Waits(TopOf(st), code),
           NEW f0 \in V, NEW vs \in Seq(V), Invoke(f0, vs, st)
    PROVE  \E W : /\ V \subseteq W /\ ValuesOK(W, C, Len(heap))
                  /\ StackOK(frames', W, code) /\ Control(ctl', frames', W)
                  /\ \A k : k # "ir" => Count(frames', k) = Count(st, k)
<1> DEFINE f == Callee(f0)
           c == heap[f[2]]
           i == ArityFor(c.ars, Len(vs))
           n == c.ars[i].n
           rest == <<"list", SubSeq(vs, n + 1, Len(vs))>>
           args == c.caps \o (IF c.ars[i].va
                              THEN SubSeq(vs, 1, n) \o <<<<"list", SubSeq(vs, n + 1, Len(vs))>>>> ELSE vs)
<1>1. f \in V  BY CalleeOK
<1>2. Nil \in V /\ ErrorValue \in V  BY DEF ValuesOK
<1>3. \/ frames' = st /\ ctl' \in {<<"err", Nil>>, ArityError(c.ars, Len(vs))}
      \/ f[1] = "clo" /\ i # 0 /\ Pushes(frames', st, Activation(c.ars[i].fn, args)) /\ ctl' = Run
  BY DEF Invoke, Pushes
<1>4. CASE frames' = st /\ ctl' \in {<<"err", Nil>>, ArityError(c.ars, Len(vs))}
  <2>1. OutcomeOK(ctl', V)  BY <1>2, <1>4, ErrOutcome, ThrownOutcome
  <2>2. Control(ctl', frames', V)  BY <2>1, Outcome
  <2> QED BY <1>4, <2>2
<1>5. CASE f[1] = "clo" /\ i # 0 /\ Pushes(frames', st, Activation(c.ars[i].fn, args)) /\ ctl' = Run
  <2> HIDE DEF f
  <2>1. ClosureOK(c, V, code)  BY <1>1, <1>5, OfV DEF ValueOK, HeapOK
  <2>2. c.ars \in Seq(Arities(code)) /\ c.caps \in Seq(V)  BY <2>1 DEF ClosureOK
  <2> HIDE DEF c
  <2>3. Len(vs) \in Nat  OBVIOUS
  <2>4. c.ars[i] \in Arities(code) /\ (c.ars[i].va => c.ars[i].n <= Len(vs))
    <3>1. ArityFor(c.ars, Len(vs)) # 0  BY <1>5
    <3> QED BY <2>2, <2>3, <3>1, ArityChosen
  <2> HIDE DEF i
  <2>5. c.ars[i].fn \in 1..Len(code) /\ n \in Nat  BY <2>4 DEF Arities
  <2>6. PICK W : V \subseteq W /\ ValuesOK(W, C, Len(heap)) /\ args \in Seq(W)
    <3>1. CASE c.ars[i].va
      <4>1. n <= Len(vs)  BY <2>4, <3>1
      <4> HIDE DEF n
      <4>2. SubSeq(vs, 1, n) \in Seq(V) /\ SubSeq(vs, n + 1, Len(vs)) \in Seq(V)
        BY <2>5, <4>1, RestArgs
      <4> DEFINE X == V \cup {rest}
      <4>3. ValueOK(rest, V, C, Len(heap))  BY <4>2, ListValue
      <4>4. ValuesOK(X, C, Len(heap))  BY <4>3, ValuesGrow
      <4>5. V \subseteq X /\ rest \in X  OBVIOUS
      <4>6. args = c.caps \o (SubSeq(vs, 1, n) \o <<rest>>)  BY <3>1
      <4> HIDE DEF X, rest, args
      <4>7. c.caps \in Seq(X) /\ SubSeq(vs, 1, n) \in Seq(X)  BY <2>2, <4>2, <4>5, SeqMono
      <4>8. args \in Seq(X)
        <5>1. <<rest>> \in Seq(X)  BY <4>5
        <5>2. SubSeq(vs, 1, n) \o <<rest>> \in Seq(X)  BY <4>7, <5>1, ConcatProperties
        <5> QED BY <4>6, <4>7, <5>2, ConcatProperties
      <4> QED BY <4>4, <4>5, <4>8
    <3>2. CASE ~c.ars[i].va
      <4>1. args = c.caps \o vs  BY <3>2
      <4> HIDE DEF args
      <4>2. args \in Seq(V)  BY <2>2, <4>1, ConcatProperties
      <4> QED BY <4>2
    <3> QED BY <3>1, <3>2
  <2> HIDE DEF args
  <2> DEFINE g == Activation(c.ars[i].fn, args)
  <2>7. IrFrame(g, W, code)  BY <1>2, <2>5, <2>6, Activated
  <2>8. Pushes(frames', st, g) /\ ctl' = Run  BY <1>5
  <2> HIDE DEF g
  <2>9. FrameOK(g, W, code) /\ g.kind = "ir"  BY <2>7 DEF IrFrame, FrameOK
  <2>10. StackOK(st, W, code)  BY <2>6, StackMono
  <2>11. /\ StackOK(frames', W, code) /\ TopOf(frames') = g
         /\ \A k : Count(frames', k) = Count(st, k) + (IF g.kind = k THEN 1 ELSE 0)
    BY <2>8, <2>9, <2>10, StackPushed
  <2>12. ASSUME NEW k, k # "ir" PROVE Count(frames', k) = Count(st, k)
    <3>1. Count(st, k) \in Nat  BY <2>10, CountNat DEF StackOK
    <3>2. Count(frames', k) = Count(st, k) + 0  BY <2>9, <2>11, <2>12
    <3> QED BY <3>1, <3>2
  <2>13. Control(ctl', frames', W)  BY <2>8, <2>9, <2>11 DEF Control
  <2> QED BY <2>6, <2>11, <2>12, <2>13
<1> QED BY <1>3, <1>4, <1>5
-----------------------------------------------------------------------------
(* The instruction at hand. *)

\* Reading registers.
LEMMA Reads ==
    ASSUME NEW V, IrFrame(Top, V, code)
    PROVE  /\ \A r \in Used(code[Top.fn]) : Reg(r) \in V
           /\ \A rs \in Seq(Used(code[Top.fn])) :
                Regs(rs) \in Seq(V) /\ Len(Regs(rs)) = Len(rs)
                /\ \A j \in 1..Len(rs) : Regs(rs)[j] \in V /\ Regs(rs)[j] = Reg(rs[j])
<1>1. Top.regs \in [Used(code[Top.fn]) -> V]  BY DEF IrFrame
<1>2. \A r \in Used(code[Top.fn]) : Reg(r) \in V  BY <1>1 DEF Reg
<1>3. ASSUME NEW rs \in Seq(Used(code[Top.fn]))
      PROVE  /\ Regs(rs) \in Seq(V) /\ Len(Regs(rs)) = Len(rs)
             /\ \A j \in 1..Len(rs) : Regs(rs)[j] \in V /\ Regs(rs)[j] = Reg(rs[j])
  <2>1. \A j \in 1..Len(rs) : rs[j] \in Used(code[Top.fn])  OBVIOUS
  <2>2. \A j \in 1..Len(rs) : Reg(rs[j]) \in V  BY <2>1, <1>2
  <2>3. Len(rs) \in Nat  OBVIOUS
  <2>4. Regs(rs) = [j \in 1..Len(rs) |-> Reg(rs[j])]  BY DEF Regs
  <2> HIDE DEF Regs
  <2> QED BY <2>2, <2>3, <2>4
<1> QED BY <1>2, <1>3

\* A place among the instructions.
LEMMA InstPlace ==
    ASSUME NEW a \in Int, NEW m \in Int, NEW n \in Int, a >= m, a < m + n
    PROVE  a - m + 1 \in 1..n
OBVIOUS

\* The activation on top, at an instruction of its block.
LEMMA AtInstruction ==
    ASSUME WellFormed(code), NEW V, NEW C,
           Consistent(V, C, code, frames, ctl, heap, dyn), AtInst
    PROVE  /\ ctl = Run /\ Top = TopOf(frames) /\ IrFrame(Top, V, code)
           /\ Len(frames) \in Int /\ Len(frames) >= 1
           /\ GoodInst(code, Used(code[Top.fn]), Inst)
           /\ Inst[1] # "throw" => CanPass(Top, code)
           /\ Inst[1] \in {"call", "known"} => Waits(Top, code)
<1>1. ctl = Run /\ Top = TopOf(frames) /\ Top.kind = "ir" /\ Block = BlockOf(Top, code)
  BY DEF AtInst, Running, Top, TopOf, Block, BlockOf
<1>2. /\ IrFrame(Top, V, code) /\ Len(frames) \in Int /\ Len(frames) >= 1
  BY <1>1, TopFrame DEF Consistent
<1>3. /\ GoodBlock(code, code[Top.fn], Top.blk)
      /\ Len(Block.phis) \in Int /\ Len(Block.insts) \in Int
  BY <1>1, <1>2, InGoodBlock
<1>4. Top.at >= Len(Block.phis) /\ Top.at < Len(Block.phis) + Len(Block.insts)  BY DEF AtInst
<1>5. Top.at \in Int  BY <1>1, <1>2, <1>3 DEF IrFrame, Reached
<1>6. Top.at - Len(Block.phis) + 1 \in 1..Len(Block.insts)
  BY <1>3, <1>4, <1>5, InstPlace
<1>7. GoodInst(code, Used(code[Top.fn]), Inst)
  BY <1>3, <1>6 DEF GoodBlock, Inst, Block
<1>8. Inst[1] # "throw" => CanPass(Top, code)
  BY <1>1, <1>4 DEF CanPass, Inst
<1>9. Inst[1] \in {"call", "known"} => Waits(Top, code)
  BY <1>1, <1>4 DEF Waits, Inst
<1> QED BY <1>1, <1>2, <1>7, <1>8, <1>9

\* A caller waits.
LEMMA CallerWaits ==
    ASSUME WellFormed(code), NEW V, NEW C,
           Consistent(V, C, code, frames, ctl, heap, dyn), AtInst, Inst[1] \in {"call", "known"}
    PROVE  /\ StackOK(Waiting, V, code)
           /\ TopOf(Waiting).kind = "ir" /\ Waits(TopOf(Waiting), code)
           /\ \A k : Count(Waiting, k) = Count(frames, k)
<1>1. /\ Top = TopOf(frames) /\ IrFrame(Top, V, code) /\ Waits(Top, code)
  BY AtInstruction
<1> DEFINE g == [Top EXCEPT !.dst = Inst[2]]
<1>2. {"kind", "fn", "blk", "prev", "at", "dst", "regs"} \subseteq DOMAIN Top  BY <1>1 DEF IrFrame
<1>3. /\ DOMAIN g = DOMAIN Top /\ g.kind = Top.kind /\ g.fn = Top.fn /\ g.blk = Top.blk
      /\ g.prev = Top.prev /\ g.at = Top.at /\ g.regs = Top.regs
  BY <1>2
<1>4. ReplacesTop(Waiting, frames, g)  BY DEF Waiting, Top, ReplacesTop
<1> HIDE DEF g
<1>5. IrFrame(g, V, code)  BY <1>1, <1>3 DEF IrFrame, BlockOf
<1>6. FrameOK(g, V, code) /\ g.kind = TopOf(frames).kind /\ g.kind = "ir"
  BY <1>1, <1>3, <1>5 DEF FrameOK, IrFrame
<1>7. Waits(g, code)  BY <1>1, <1>3 DEF Waits, BlockOf
<1>8. StackOK(frames, V, code)  BY DEF Consistent
<1>9. FrameOK(g, V, code) /\ g.kind = TopOf(frames).kind  BY <1>6
<1>10. StackOK(Waiting, V, code) /\ TopOf(Waiting) = g /\ \A k : Count(Waiting, k) = Count(frames, k)
  BY ONLY <1>4, <1>8, <1>9, StackReplaced
<1> QED BY <1>6, <1>7, <1>10

\* Writing the destination of an instruction that is no throw.
LEMMA WritesInst ==
    ASSUME WellFormed(code), NEW V, NEW C, GuardsHold(frames, dyn, out),
           Consistent(V, C, code, frames, ctl, heap, dyn), AtInst, Inst[1] # "throw",
           NEW v, ValueOK(v, V, C, Len(heap)), Write(Inst[2], v)
    PROVE  IrSound(code, frames', ctl, heap, dyn, out)
<1>1. ctl = Run /\ Top = TopOf(frames) /\ CanPass(Top, code)  BY AtInstruction
<1>2. ReplacesTop(frames', frames, [TopOf(frames) EXCEPT !.regs[Inst[2]] = v, !.at = @ + 1])
  BY <1>1 DEF Write, SetTop, ReplacesTop
<1> QED BY <1>1, <1>2, Writes
-----------------------------------------------------------------------------
(* Values made by the instructions. *)

\* A value without parts.
LEMMA PlainValue ==
    ASSUME NEW V, NEW C, NEW n, NEW v,
           v[1] \notin {"vec", "list", "map", "native", "cell", "clo"}
    PROVE  ValueOK(v, V, C, n)
BY DEF ValueOK

\* The items of a value are values.
LEMMA ItemsOK ==
    ASSUME NEW V, NEW C, NEW n, ValuesOK(V, C, n), NEW v \in V
    PROVE  Items(v) \in Seq(V)
<1>1. ValueOK(v, V, C, n)  BY OfV
<1>2. <<>> \in Seq(V)  OBVIOUS
<1> QED BY <1>1, <1>2 DEF Items, ValueOK

\* A known function returns a value or fails.
LEMMA KnownValue ==
    ASSUME NEW V, NEW C, NEW n, ValuesOK(V, C, n),
           NEW op \in KnownOps, NEW vs \in Seq(V), Len(vs) >= 1
    PROVE  KnownFn(op, vs) = <<>> \/ ValueOK(KnownFn(op, vs), V, C, n)
<1> DEFINE r == KnownFn(op, vs)
           s == Items(vs[1])
<1>1. vs[1] \in V /\ Nil \in V  BY DEF ValuesOK
<1>2. s \in Seq(V)  BY <1>1, ItemsOK
<1>3. ValueOK(Nil, V, C, n)  BY <1>1, OfV
<1>4. CASE op \in {"+", "-", "<", ">", "=", "nil?", "prn"}
  <2>1. r = <<>> \/ r[1] \in {"int", "bool", "nil"}
    <3>1. CASE op = "+"  BY <3>1 DEF KnownFn, Num
    <3>2. CASE op = "-"  BY <3>2 DEF KnownFn, Num
    <3>3. CASE op = "<"  BY <3>3 DEF KnownFn, Bool
    <3>4. CASE op = ">"  BY <3>4 DEF KnownFn, Bool
    <3>5. CASE op = "="  BY <3>5 DEF KnownFn, Bool
    <3>6. CASE op = "nil?"  BY <3>6 DEF KnownFn, Bool
    <3>7. CASE op = "prn"  BY <3>7 DEF KnownFn, Nil
    <3> QED BY <1>4, <3>1, <3>2, <3>3, <3>4, <3>5, <3>6, <3>7
  <2> QED BY <2>1, PlainValue
<1>5. CASE op = "nth"
  <2>1. r = IF vs[2][2] \in 0..(Len(s) - 1) THEN s[vs[2][2] + 1] ELSE Nil
    BY <1>5 DEF KnownFn
  <2>2. ASSUME vs[2][2] \in 0..(Len(s) - 1) PROVE s[vs[2][2] + 1] \in V
    <3>1. Len(s) \in Int  BY <1>2, LenInt
    <3>2. vs[2][2] + 1 \in 1..Len(s)  BY <2>2, <3>1
    <3> QED BY <1>2, <3>2
  <2>3. r \in V  BY <1>1, <2>1, <2>2
  <2> QED BY <2>3, OfV
<1>6. CASE op = "rest"
  <2>1. r = <<"list", IF s = <<>> THEN s ELSE Tail(s)>>  BY <1>6 DEF KnownFn
  <2>2. (IF s = <<>> THEN s ELSE Tail(s)) \in Seq(V)  BY <1>2
  <2> QED BY <2>1, <2>2, ListValue
<1>7. CASE op = "seq"
  <2>1. r = IF s = <<>> THEN Nil ELSE <<"list", s>>  BY <1>7 DEF KnownFn, RestList
  <2> QED BY <1>2, <1>3, <2>1, ListValue
<1>8. CASE op = "get"
  <2>1. r = IF vs[1][1] = "map" /\ vs[2][2] \in DOMAIN vs[1][2] THEN vs[1][2][vs[2][2]] ELSE Nil
    BY <1>8 DEF KnownFn, Get
  <2>2. ValueOK(vs[1], V, C, n)  BY <1>1, OfV
  <2>3. r \in V  BY <1>1, <2>1, <2>2 DEF ValueOK
  <2> QED BY <2>3, OfV
<1> QED BY <1>4, <1>5, <1>6, <1>7, <1>8 DEF KnownOps

-----------------------------------------------------------------------------
(* One lemma per action. *)

Holds(V, C) ==
    /\ WellFormed(code) /\ GuardsHold(frames, dyn, out)
    /\ Consistent(V, C, code, frames, ctl, heap, dyn)

\* Phi reads the register of an edge, or keeps its own.
LEMMA PhiStep ==
    ASSUME NEW V, NEW C, Holds(V, C), Phi
    PROVE  IrSound(code, frames', ctl', heap', dyn', out')
<1>1. /\ WellFormed(code) /\ GuardsHold(frames, dyn, out) /\ ctl = Run
      /\ Consistent(V, C, code, frames, Run, heap, dyn)
      /\ Top = TopOf(frames) /\ Top.kind = "ir" /\ Block = BlockOf(Top, code)
      /\ Top.at < Len(Block.phis) /\ UNCHANGED <<ctl, heap, dyn, out>>
  BY DEF Holds, Phi, AtPhi, Running, Top, TopOf, Block, BlockOf
<1>2. IrFrame(Top, V, code)  BY <1>1, TopFrame DEF Consistent
<1>3. /\ GoodBlock(code, code[Top.fn], Top.blk)
      /\ Len(Block.phis) \in Int /\ Len(Block.insts) \in Int
      /\ Len(Block.phis) >= 0 /\ Len(Block.insts) >= 0
  BY <1>1, <1>2, InGoodBlock
<1> DEFINE U == Used(code[Top.fn])
           p == Block.phis[Top.at + 1]
           k == SelectInSeq(p.from, LAMBDA e : e[1] = Top.prev)
           v == IF k = 0 THEN Top.regs[p.dst] ELSE Reg(p.from[k][2])
<1>4. Block.phis \in Seq([dst : U, from : Seq((DOMAIN code[Top.fn].blocks) \X U)])
  BY <1>3 DEF GoodBlock, Block
<1>5. Top.at \in Int /\ Top.at >= 0  BY <1>1, <1>2, <1>3 DEF IrFrame, Reached
<1>6. p.dst \in U /\ p.from \in Seq((DOMAIN code[Top.fn].blocks) \X U)
  <2>1. Top.at + 1 \in 1..Len(Block.phis)  BY <1>1, <1>3, <1>5
  <2> DEFINE P == [dst : U, from : Seq((DOMAIN code[Top.fn].blocks) \X U)]
  <2>2. p \in P
    <3>1. Block.phis \in Seq(P)  BY <1>4
    <3> HIDE DEF P
    <3> QED BY <3>1, <2>1
  <2> HIDE DEF U, p
  <2> QED BY <2>2
<1>7. Top.regs \in [U -> V]  BY <1>2 DEF IrFrame
<1>8. SetTop([Top EXCEPT !.at = @ + 1, !.regs[p.dst] = v])  BY DEF Phi
<1> HIDE DEF p
<1>9. k = 0 \/ k \in 1..Len(p.from)
  <2> DEFINE I == {i \in 1..Len(p.from) : p.from[i][1] = Top.prev}
  <2>1. k = IF I # {} THEN Min(I) ELSE 0  BY DEF SelectInSeq
  <2>2. I \subseteq Nat  OBVIOUS
  <2>3. I \subseteq 1..Len(p.from)  OBVIOUS
  <2> HIDE DEF I
  <2>4. CASE I # {}
    <3>1. \E x \in I : \A y \in I : x <= y  BY <2>2, <2>4, LeastNumber
    <3>2. Min(I) \in I  BY <3>1 DEF Min
    <3> QED BY <2>1, <2>3, <2>4, <3>2
  <2> QED BY <2>1, <2>4
<1> HIDE DEF k
<1>10. v \in V
  <2>1. CASE k = 0  BY <2>1, <1>6, <1>7
  <2>2. CASE k # 0
    <3>1. p.from[k] \in (DOMAIN code[Top.fn].blocks) \X U  BY <1>6, <1>9, <2>2
    <3>2. p.from[k][2] \in U  BY <3>1
    <3> QED BY <2>2, <3>2, <1>7 DEF Reg
  <2> QED BY <2>1, <2>2
<1> HIDE DEF v
<1>11. CanPass(Top, code)
  <2>1. \A a, m, n \in Int : n >= 0 /\ a < m => a < m + n /\ ~(a >= m)  OBVIOUS
  <2>2. Top.at < Len(Block.phis) + Len(Block.insts) /\ ~(Top.at >= Len(Block.phis))
    BY <1>1, <1>3, <1>5, <2>1
  <2> QED BY <1>1, <2>2 DEF CanPass
<1>12. {"kind", "fn", "blk", "prev", "at", "dst", "regs"} \subseteq DOMAIN Top  BY <1>2 DEF IrFrame
<1>13. ReplacesTop(frames', frames, [TopOf(frames) EXCEPT !.regs[p.dst] = v, !.at = @ + 1])
  BY <1>1, <1>8, <1>12 DEF SetTop, ReplacesTop
<1>14. ValueOK(v, V, C, Len(heap))  BY <1>1, <1>10, OfV DEF Consistent
<1>15. IrSound(code, frames', Run, heap, dyn, out)  BY <1>1, <1>11, <1>13, <1>14, Writes
<1> QED BY <1>1, <1>15

\* Constants are scalars.
LEMMA ConstStep ==
    ASSUME NEW V, NEW C, Holds(V, C), Const
    PROVE  IrSound(code, frames', ctl', heap', dyn', out')
<1>1. /\ WellFormed(code) /\ GuardsHold(frames, dyn, out)
      /\ Consistent(V, C, code, frames, ctl, heap, dyn)
      /\ AtInst /\ Inst[1] = "const" /\ Write(Inst[2], Inst[3])
      /\ UNCHANGED <<ctl, heap, dyn, out>>
  BY DEF Holds, Const
<1>2. Scalar(Inst[3])  BY <1>1, AtInstruction DEF GoodInst
<1>3. ValueOK(Inst[3], V, C, Len(heap))  BY <1>2, PlainValue DEF Scalar
<1>4. IrSound(code, frames', ctl, heap, dyn, out)  BY <1>1, <1>3, WritesInst
<1> QED BY <1>1, <1>4

\* The top of a sequence that is not empty.
LEMMA LastOf ==
    ASSUME NEW V, NEW s \in Seq(V), s # <<>>
    PROVE  Last(s) \in V /\ Len(s) \in Int /\ Len(s) >= 1
BY DEF Last

\* A global is the innermost dynamic binding, a builtin, or an error.
LEMMA LoadGlobalStep ==
    ASSUME NEW V, NEW C, Holds(V, C), LoadGlobal
    PROVE  IrSound(code, frames', ctl', heap', dyn', out')
<1>1. /\ WellFormed(code) /\ GuardsHold(frames, dyn, out)
      /\ Consistent(V, C, code, frames, ctl, heap, dyn)
      /\ AtInst /\ Inst[1] = "global" /\ UNCHANGED <<heap, dyn, out>>
  BY DEF Holds, LoadGlobal
<1>2. ValuesOK(V, C, Len(heap)) /\ Nil \in V /\ Last(dyn) \in V
  BY <1>1, LastOf DEF Consistent, ValuesOK
<1>3. \/ Write(Inst[2], Last(dyn)) /\ UNCHANGED ctl
      \/ Inst[3] = "ex-info" /\ Write(Inst[2], <<"native", Inst[3]>>) /\ UNCHANGED ctl
      \/ ctl' = <<"err", Nil>> /\ UNCHANGED frames
  BY DEF LoadGlobal, HandOver
<1>4. CASE Write(Inst[2], Last(dyn)) /\ UNCHANGED ctl
  <2>1. ValueOK(Last(dyn), V, C, Len(heap))  BY <1>2, OfV
  <2>2. IrSound(code, frames', ctl, heap, dyn, out)  BY <1>1, <1>4, <2>1, WritesInst
  <2> QED BY <1>1, <1>4, <2>2
<1>5. CASE Inst[3] = "ex-info" /\ Write(Inst[2], <<"native", Inst[3]>>) /\ UNCHANGED ctl
  <2>1. ValueOK(<<"native", Inst[3]>>, V, C, Len(heap))  BY <1>5 DEF ValueOK
  <2>2. IrSound(code, frames', ctl, heap, dyn, out)  BY <1>1, <1>5, <2>1, WritesInst
  <2> QED BY <1>1, <1>5, <2>2
<1>6. CASE ctl' = <<"err", Nil>> /\ UNCHANGED frames
  <2>1. OutcomeOK(ctl', V)  BY <1>2, <1>6, ErrOutcome
  <2>2. IrSound(code, frames, ctl', heap, dyn, out)  BY <1>1, <2>1, Raises
  <2> QED BY <1>1, <1>6, <2>2
<1> QED BY <1>3, <1>4, <1>5, <1>6

\* The var itself is a value without parts.
LEMMA LoadVarStep ==
    ASSUME NEW V, NEW C, Holds(V, C), LoadVar
    PROVE  IrSound(code, frames', ctl', heap', dyn', out')
<1>1. /\ WellFormed(code) /\ GuardsHold(frames, dyn, out)
      /\ Consistent(V, C, code, frames, ctl, heap, dyn)
      /\ AtInst /\ Inst[1] = "loadvar" /\ Write(Inst[2], <<"dynvar">>)
      /\ UNCHANGED <<ctl, heap, dyn, out>>
  BY DEF Holds, LoadVar
<1>2. ValueOK(<<"dynvar">>, V, C, Len(heap))  BY PlainValue
<1>3. IrSound(code, frames', ctl, heap, dyn, out)  BY <1>1, <1>2, WritesInst
<1> QED BY <1>1, <1>3

\* A vector or a map of values is a value.
LEMMA AllocCollectionStep ==
    ASSUME NEW V, NEW C, Holds(V, C), AllocCollection
    PROVE  IrSound(code, frames', ctl', heap', dyn', out')
<1> DEFINE place(k) == SelectInSeq(Inst[3], LAMBDA y : y = k)
           m == [k \in ToSet(Inst[3]) |-> Reg(Inst[4][place(k)])]
           v == IF Inst[1] = "vec" THEN <<"vec", Regs(Inst[3])>> ELSE <<"map", m>>
<1>1. /\ WellFormed(code) /\ GuardsHold(frames, dyn, out)
      /\ Consistent(V, C, code, frames, ctl, heap, dyn)
      /\ AtInst /\ Inst[1] \in {"vec", "map"} /\ Write(Inst[2], v)
      /\ UNCHANGED <<ctl, heap, dyn, out>>
  BY DEF Holds, AllocCollection
<1>2. IrFrame(Top, V, code) /\ GoodInst(code, Used(code[Top.fn]), Inst)
  BY <1>1, AtInstruction
<1>3. ValueOK(v, V, C, Len(heap))
  <2>1. CASE Inst[1] = "vec"
    <3>1. Inst[3] \in Seq(Used(code[Top.fn]))  BY <1>2, <2>1 DEF GoodInst
    <3>2. Regs(Inst[3]) \in Seq(V)  BY <1>2, <3>1, Reads
    <3>3. v = <<"vec", Regs(Inst[3])>>  BY <2>1
    <3> HIDE DEF v
    <3> QED BY <3>2, <3>3 DEF ValueOK
  <2>2. CASE Inst[1] = "map"
    <3>1. /\ Inst[3] \in Seq(ToSet(Inst[3])) /\ Inst[4] \in Seq(Used(code[Top.fn]))
          /\ Len(Inst[3]) = Len(Inst[4])
      BY <1>2, <2>2 DEF GoodInst
    <3>2. ASSUME NEW k \in ToSet(Inst[3]) PROVE Reg(Inst[4][place(k)]) \in V
      <4> DEFINE I == {i \in 1..Len(Inst[3]) : Inst[3][i] = k}
      <4>1. place(k) = IF I # {} THEN Min(I) ELSE 0  BY DEF SelectInSeq
      <4>2. DOMAIN Inst[3] = 1..Len(Inst[3])  BY <3>1
      <4>3. I # {} /\ I \subseteq Nat /\ I \subseteq 1..Len(Inst[4])
        BY <3>1, <4>2 DEF ToSet
      <4> HIDE DEF I
      <4>4. \E x \in I : \A y \in I : x <= y  BY <4>3, LeastNumber
      <4>5. Min(I) \in I  BY <4>4 DEF Min
      <4>6. place(k) \in 1..Len(Inst[4])  BY <4>1, <4>3, <4>5
      <4> HIDE DEF place
      <4>7. Inst[4][place(k)] \in Used(code[Top.fn])  BY <3>1, <4>6
      <4> QED BY <1>2, <4>7, Reads
    <3>3. v = <<"map", m>>  BY <2>2
    <3>4. DOMAIN m = ToSet(Inst[3]) /\ \A k \in ToSet(Inst[3]) : m[k] = Reg(Inst[4][place(k)])
      OBVIOUS
    <3> HIDE DEF v, m, place
    <3>5. \A k \in DOMAIN m : m[k] \in V  BY <3>2, <3>4
    <3> QED BY <3>3, <3>5 DEF ValueOK
  <2> QED BY <1>1, <2>1, <2>2
<1> HIDE DEF v
<1>4. IrSound(code, frames', ctl, heap, dyn, out)  BY <1>1, <1>3, WritesInst
<1> QED BY <1>1, <1>4

\* A closure is appended to the heap.
LEMMA ClosureAllocated ==
    ASSUME NEW V, NEW C, NEW c, NEW fs, NEW r, NEW h, NEW d,
           Consistent(V, C, c, fs, r, h, d),
           NEW x, ClosureOK(x, V, c), NEW g, Pushes(g, h, x)
    PROVE  /\ Consistent(V, C, c, fs, r, g, d)
           /\ ValueOK(<<"clo", Len(h) + 1>>, V, C, Len(g))
<1>1. /\ IsSeq(h) /\ C \subseteq 1..Len(h) /\ \A n \in C : h[n] \in V
      /\ \A n \in (1..Len(h)) \ C : ClosureOK(h[n], V, c)
  BY DEF Consistent, HeapOK
<1>2. /\ IsSeq(g) /\ Len(g) = Len(h) + 1 /\ g[Len(h) + 1] = x
      /\ \A i \in 1..Len(h) : g[i] = h[i]
  BY <1>1, Pushed
<1> DEFINE n == Len(h)
<1>3. n \in Int /\ n >= 0  BY <1>1, SeqLen
<1>4. /\ C \subseteq 1..n /\ Len(g) = n + 1 /\ g[n + 1] = x
      /\ \A i \in 1..n : g[i] = h[i]
      /\ \A i \in (1..n) \ C : ClosureOK(h[i], V, c)
  BY <1>1, <1>2
<1>5. ValuesOK(V, C, n)  BY DEF Consistent
<1> HIDE DEF n
<1>6. \A i \in (1..(n + 1)) \ C : ClosureOK(g[i], V, c)
  <2> SUFFICES ASSUME NEW i \in (1..(n + 1)) \ C PROVE ClosureOK(g[i], V, c)  OBVIOUS
  <2>1. i = n + 1 \/ i \in (1..n) \ C  BY <1>3
  <2> QED BY <2>1, <1>4
<1>7. C \subseteq 1..(n + 1) /\ \A i \in C : g[i] \in V  BY <1>1, <1>3, <1>4
<1>8. HeapOK(g, V, C, c)  BY <1>2, <1>4, <1>6, <1>7 DEF HeapOK
<1>9. ValuesOK(V, C, n + 1)
  <2>1. \A i \in (1..n) \ C : i \in (1..(n + 1)) \ C  BY <1>3
  <2>2. ASSUME NEW v \in V PROVE ValueOK(v, V, C, n + 1)
    BY <1>5, <2>1 DEF ValuesOK, ValueOK
  <2> QED BY <1>5, <2>2 DEF ValuesOK
<1>10. ValueOK(<<"clo", n + 1>>, V, C, n + 1)
  <2>1. n + 1 \in (1..(n + 1)) \ C  BY <1>3, <1>4
  <2> QED BY <2>1 DEF ValueOK
<1>11. Consistent(V, C, c, fs, r, g, d)  BY <1>4, <1>8, <1>9 DEF Consistent
<1> QED BY <1>4, <1>10, <1>11 DEF n

\* A cell is appended to the heap.
LEMMA CellAllocated ==
    ASSUME NEW V, NEW C, NEW c, NEW fs, NEW r, NEW h, NEW d,
           Consistent(V, C, c, fs, r, h, d),
           NEW x \in V, NEW g, Pushes(g, h, x)
    PROVE  /\ Consistent(V, C \cup {Len(h) + 1}, c, fs, r, g, d)
           /\ ValueOK(<<"cell", Len(h) + 1>>, V, C \cup {Len(h) + 1}, Len(g))
<1>1. /\ IsSeq(h) /\ C \subseteq 1..Len(h) /\ \A n \in C : h[n] \in V
      /\ \A n \in (1..Len(h)) \ C : ClosureOK(h[n], V, c)
  BY DEF Consistent, HeapOK
<1>2. /\ IsSeq(g) /\ Len(g) = Len(h) + 1 /\ g[Len(h) + 1] = x
      /\ \A i \in 1..Len(h) : g[i] = h[i]
  BY <1>1, Pushed
<1> DEFINE n == Len(h)
           D == C \cup {n + 1}
<1>3. n \in Int /\ n >= 0  BY <1>1, SeqLen
<1>4. /\ C \subseteq 1..n /\ Len(g) = n + 1 /\ g[n + 1] = x
      /\ \A i \in 1..n : g[i] = h[i]
      /\ \A i \in (1..n) \ C : ClosureOK(h[i], V, c)
  BY <1>1, <1>2
<1>5. ValuesOK(V, C, n)  BY DEF Consistent
<1> HIDE DEF n
<1>6. \A i \in (1..(n + 1)) \ D : i \in (1..n) \ C  BY <1>3
<1>7. \A i \in (1..(n + 1)) \ D : ClosureOK(g[i], V, c)  BY <1>4, <1>6
<1>8. D \subseteq 1..(n + 1) /\ \A i \in D : g[i] \in V  BY <1>1, <1>3, <1>4
<1>9. \A i \in (1..n) \ C : i \in (1..(n + 1)) \ D  BY <1>3
<1>10. n + 1 \in D /\ C \subseteq D  OBVIOUS
<1> HIDE DEF D
<1>11. HeapOK(g, V, D, c)  BY <1>2, <1>4, <1>7, <1>8 DEF HeapOK
<1>12. ValuesOK(V, D, n + 1)
  <2>1. ASSUME NEW v \in V PROVE ValueOK(v, V, D, n + 1)
    BY <1>5, <1>9, <1>10 DEF ValuesOK, ValueOK
  <2> QED BY <1>5, <2>1 DEF ValuesOK
<1>13. ValueOK(<<"cell", n + 1>>, V, D, n + 1)  BY <1>10 DEF ValueOK
<1>14. Consistent(V, D, c, fs, r, g, d)  BY <1>4, <1>11, <1>12 DEF Consistent
<1> QED BY <1>4, <1>13, <1>14 DEF n, D

\* A cell takes a new value.
LEMMA CellUpdated ==
    ASSUME NEW V, NEW C, NEW c, NEW fs, NEW r, NEW h, NEW d,
           Consistent(V, C, c, fs, r, h, d), NEW n \in C, NEW x \in V
    PROVE  Consistent(V, C, c, fs, r, [h EXCEPT ![n] = x], d)
<1> DEFINE g == [h EXCEPT ![n] = x]
<1>1. /\ IsSeq(h) /\ C \subseteq 1..Len(h) /\ \A i \in C : h[i] \in V
      /\ \A i \in (1..Len(h)) \ C : ClosureOK(h[i], V, c)
  BY DEF Consistent, HeapOK
<1>2. PICK S : h \in Seq(S)  BY <1>1 DEF IsSeq
<1>3. h \in Seq(S \cup {x}) /\ n \in 1..Len(h)  BY <1>1, <1>2
<1>4. g \in Seq(S \cup {x}) /\ Len(g) = Len(h)  BY <1>3, ExceptSeq
<1>5. \A i \in 1..Len(h) : g[i] = IF i = n THEN x ELSE h[i]  BY <1>2
<1> HIDE DEF g
<1>6. IsSeq(g)  BY <1>4 DEF IsSeq
<1>7. /\ \A i \in C : g[i] \in V
      /\ \A i \in (1..Len(h)) \ C : ClosureOK(g[i], V, c)
  BY <1>1, <1>5
<1>8. HeapOK(g, V, C, c)  BY <1>1, <1>4, <1>6, <1>7 DEF HeapOK
<1>9. Consistent(V, C, c, fs, r, g, d)  BY <1>4, <1>8 DEF Consistent
<1> QED BY <1>9 DEF g

\* The closure that is made captures values, and its arities name functions that exist.
LEMMA AllocClosureStep ==
    ASSUME NEW V, NEW C, Holds(V, C), AllocClosure
    PROVE  IrSound(code, frames', ctl', heap', dyn', out')
<1> DEFINE x == [ars |-> Inst[3], caps |-> Regs(Inst[4])]
           v == <<"clo", Len(heap) + 1>>
<1>1. /\ WellFormed(code) /\ GuardsHold(frames, dyn, out)
      /\ Consistent(V, C, code, frames, ctl, heap, dyn)
      /\ AtInst /\ Inst[1] = "closure" /\ Pushes(heap', heap, x) /\ Write(Inst[2], v)
      /\ UNCHANGED <<ctl, dyn, out>>
  BY DEF Holds, AllocClosure, Pushes
<1>2. /\ ctl = Run /\ Top = TopOf(frames) /\ IrFrame(Top, V, code)
      /\ GoodInst(code, Used(code[Top.fn]), Inst) /\ CanPass(Top, code)
  BY <1>1, AtInstruction
<1>3. Inst[3] \in Seq(Arities(code)) /\ Inst[4] \in Seq(Used(code[Top.fn]))
  BY <1>1, <1>2 DEF GoodInst
<1>4. Regs(Inst[4]) \in Seq(V)  BY <1>2, <1>3, Reads
<1>5. x.ars = Inst[3] /\ x.caps = Regs(Inst[4])  OBVIOUS
<1> HIDE DEF x
<1>6. ClosureOK(x, V, code)  BY <1>3, <1>4, <1>5 DEF ClosureOK
<1>7. Consistent(V, C, code, frames, Run, heap', dyn) /\ ValueOK(v, V, C, Len(heap'))
  BY <1>1, <1>2, <1>6, ClosureAllocated
<1> HIDE DEF v
<1>8. ReplacesTop(frames', frames, [TopOf(frames) EXCEPT !.regs[Inst[2]] = v, !.at = @ + 1])
  BY <1>1, <1>2 DEF Write, SetTop, ReplacesTop
<1>9. IrSound(code, frames', Run, heap', dyn, out)  BY <1>1, <1>2, <1>7, <1>8, Writes
<1> QED BY <1>1, <1>2, <1>9

\* The cell that is made holds a value.
LEMMA DefVarStep ==
    ASSUME NEW V, NEW C, Holds(V, C), DefVar
    PROVE  IrSound(code, frames', ctl', heap', dyn', out')
<1> DEFINE x == Reg(Inst[3])
           v == <<"cell", Len(heap) + 1>>
           D == C \cup {Len(heap) + 1}
<1>1. /\ WellFormed(code) /\ GuardsHold(frames, dyn, out)
      /\ Consistent(V, C, code, frames, ctl, heap, dyn)
      /\ AtInst /\ Inst[1] = "defvar" /\ Pushes(heap', heap, x) /\ Write(Inst[2], v)
      /\ UNCHANGED <<ctl, dyn, out>>
  BY DEF Holds, DefVar, Pushes
<1>2. /\ ctl = Run /\ Top = TopOf(frames) /\ IrFrame(Top, V, code)
      /\ GoodInst(code, Used(code[Top.fn]), Inst) /\ CanPass(Top, code)
  BY <1>1, AtInstruction
<1>3. Inst[3] \in Used(code[Top.fn])  BY <1>1, <1>2 DEF GoodInst
<1>4. x \in V  BY <1>2, <1>3, Reads
<1> HIDE DEF x
<1>5. Consistent(V, D, code, frames, Run, heap', dyn) /\ ValueOK(v, V, D, Len(heap'))
  BY <1>1, <1>2, <1>4, CellAllocated
<1> HIDE DEF v, D
<1>6. ReplacesTop(frames', frames, [TopOf(frames) EXCEPT !.regs[Inst[2]] = v, !.at = @ + 1])
  BY <1>1, <1>2 DEF Write, SetTop, ReplacesTop
<1>7. IrSound(code, frames', Run, heap', dyn, out)  BY <1>1, <1>2, <1>5, <1>6, Writes
<1> QED BY <1>1, <1>2, <1>7

\* Deref reads a cell, or fails.
LEMMA DerefStep ==
    ASSUME NEW V, NEW C, Holds(V, C), Deref
    PROVE  IrSound(code, frames', ctl', heap', dyn', out')
<1> DEFINE x == Reg(Inst[3])
<1>1. /\ WellFormed(code) /\ GuardsHold(frames, dyn, out)
      /\ Consistent(V, C, code, frames, ctl, heap, dyn)
      /\ AtInst /\ Inst[1] = "deref" /\ UNCHANGED <<heap, dyn, out>>
  BY DEF Holds, Deref
<1>2. /\ IrFrame(Top, V, code) /\ GoodInst(code, Used(code[Top.fn]), Inst)
  BY <1>1, AtInstruction
<1>3. Inst[3] \in Used(code[Top.fn])  BY <1>1, <1>2 DEF GoodInst
<1>4. x \in V  BY <1>2, <1>3, Reads
<1>5. ValuesOK(V, C, Len(heap)) /\ HeapOK(heap, V, C, code) /\ Nil \in V
  BY <1>1 DEF Consistent, ValuesOK
<1>6. \/ x[1] = "cell" /\ Write(Inst[2], heap[x[2]]) /\ UNCHANGED ctl
      \/ ctl' = <<"err", Nil>> /\ UNCHANGED frames
  BY DEF Deref, HandOver
<1> HIDE DEF x
<1>7. CASE x[1] = "cell" /\ Write(Inst[2], heap[x[2]]) /\ UNCHANGED ctl
  <2>1. heap[x[2]] \in V  BY <1>4, <1>5, <1>7, OfV DEF ValueOK, HeapOK
  <2>2. ValueOK(heap[x[2]], V, C, Len(heap))  BY <1>5, <2>1, OfV
  <2>3. IrSound(code, frames', ctl, heap, dyn, out)  BY <1>1, <1>7, <2>2, WritesInst
  <2> QED BY <1>1, <1>7, <2>3
<1>8. CASE ctl' = <<"err", Nil>> /\ UNCHANGED frames
  <2>1. OutcomeOK(ctl', V)  BY <1>5, <1>8, ErrOutcome
  <2>2. IrSound(code, frames, ctl', heap, dyn, out)  BY <1>1, <2>1, Raises
  <2> QED BY <1>1, <1>8, <2>2
<1> QED BY <1>6, <1>7, <1>8

\* set! writes the innermost binding or a cell, or fails.
LEMMA SetBangStep ==
    ASSUME NEW V, NEW C, Holds(V, C), SetBang
    PROVE  IrSound(code, frames', ctl', heap', dyn', out')
<1> DEFINE x == Reg(Inst[2])
           v == Reg(Inst[3])
<1>1. /\ WellFormed(code) /\ GuardsHold(frames, dyn, out)
      /\ Consistent(V, C, code, frames, ctl, heap, dyn)
      /\ AtInst /\ Inst[1] = "setbang" /\ UNCHANGED <<out>>
  BY DEF Holds, SetBang
<1>2. /\ ctl = Run /\ Top = TopOf(frames) /\ IrFrame(Top, V, code)
      /\ GoodInst(code, Used(code[Top.fn]), Inst) /\ CanPass(Top, code)
  BY <1>1, AtInstruction
<1>3. Inst[2] \in Used(code[Top.fn]) /\ Inst[3] \in Used(code[Top.fn])
  BY <1>1, <1>2 DEF GoodInst
<1>4. x \in V /\ v \in V  BY <1>2, <1>3, Reads
<1>5. ValuesOK(V, C, Len(heap)) /\ Nil \in V /\ dyn \in Seq(V) /\ dyn # <<>>
  BY <1>1 DEF Consistent, ValuesOK
<1>6. \/ /\ dyn' = [dyn EXCEPT ![Len(dyn)] = v]
         /\ SetTop([Top EXCEPT !.at = @ + 1]) /\ UNCHANGED <<ctl, heap>>
      \/ /\ x[1] = "cell" /\ heap' = [heap EXCEPT ![x[2]] = v]
         /\ SetTop([Top EXCEPT !.at = @ + 1]) /\ UNCHANGED <<ctl, dyn>>
      \/ ctl' = <<"err", Nil>> /\ UNCHANGED frames /\ UNCHANGED <<heap, dyn>>
  BY DEF SetBang, HandOver
<1> HIDE DEF x, v
<1> DEFINE g == [Top EXCEPT !.at = @ + 1]
<1>7. IrFrame(g, V, code)  BY <1>1, <1>2, <1>4, Written
<1> HIDE DEF g
<1>8. SetTop(g) => ReplacesTop(frames', frames, g)  BY DEF SetTop, ReplacesTop
<1>9. CASE dyn' = [dyn EXCEPT ![Len(dyn)] = v] /\ SetTop(g) /\ UNCHANGED <<ctl, heap>>
  <2>1. Consistent(V, C, code, frames', Run, heap, dyn) /\ GuardsHold(frames', dyn, out)
    BY <1>1, <1>2, <1>7, <1>8, <1>9, TopMoves
  <2>2. dyn' \in Seq(V) /\ Len(dyn') = Len(dyn) /\ dyn' # <<>>
    BY <1>4, <1>5, <1>9, ExceptSeq
  <2>3. Consistent(V, C, code, frames', Run, heap, dyn')  BY <2>1, <2>2 DEF Consistent
  <2>4. GuardsHold(frames', dyn', out)  BY <2>1, <2>2 DEF GuardsHold
  <2> QED BY <1>1, <1>2, <1>9, <2>3, <2>4 DEF IrSound
<1>10. CASE /\ x[1] = "cell" /\ heap' = [heap EXCEPT ![x[2]] = v]
            /\ SetTop(g) /\ UNCHANGED <<ctl, dyn>>
  <2>1. Consistent(V, C, code, frames', Run, heap, dyn) /\ GuardsHold(frames', dyn, out)
    BY <1>1, <1>2, <1>7, <1>8, <1>10, TopMoves
  <2>2. x[2] \in C  BY <1>4, <1>5, <1>10, OfV DEF ValueOK
  <2>3. Consistent(V, C, code, frames', Run, heap', dyn)
    BY <1>4, <1>10, <2>1, <2>2, CellUpdated
  <2> QED BY <1>1, <1>2, <1>10, <2>1, <2>3 DEF IrSound
<1>11. CASE ctl' = <<"err", Nil>> /\ UNCHANGED frames /\ UNCHANGED <<heap, dyn>>
  <2>1. OutcomeOK(ctl', V)  BY <1>5, <1>11, ErrOutcome
  <2>2. IrSound(code, frames, ctl', heap, dyn, out)  BY <1>1, <2>1, Raises
  <2> QED BY <1>1, <1>11, <2>2
<1> QED BY <1>6, <1>9, <1>10, <1>11 DEF g

\* A throw hands over the value of a register.
LEMMA ThrowStep ==
    ASSUME NEW V, NEW C, Holds(V, C), Throw
    PROVE  IrSound(code, frames', ctl', heap', dyn', out')
<1>1. /\ WellFormed(code) /\ GuardsHold(frames, dyn, out)
      /\ Consistent(V, C, code, frames, ctl, heap, dyn)
      /\ AtInst /\ Inst[1] = "throw" /\ ctl' = <<"throw", Reg(Inst[2])>>
      /\ UNCHANGED <<frames, heap, dyn, out>>
  BY DEF Holds, Throw, HandOver
<1>2. /\ IrFrame(Top, V, code) /\ GoodInst(code, Used(code[Top.fn]), Inst)
  BY <1>1, AtInstruction
<1>3. Inst[2] \in Used(code[Top.fn])  BY <1>1, <1>2 DEF GoodInst
<1>4. Reg(Inst[2]) \in V  BY <1>2, <1>3, Reads
<1>5. OutcomeOK(ctl', V)  BY <1>1, <1>4 DEF OutcomeOK
<1>6. IrSound(code, frames, ctl', heap, dyn, out)  BY <1>1, <1>5, Raises
<1> QED BY <1>1, <1>6

\* Output goes to the innermost capture.
LEMMA OutputWritten ==
    ASSUME NEW c, NEW fs, NEW r, NEW h, NEW d, NEW o, IrSound(c, fs, r, h, d, o), IsSeq(fs),
           NEW x, NEW p, ReplacesTop(p, o, x)
    PROVE  IrSound(c, fs, r, h, d, p)
<1>1. IsSeq(o) /\ Len(o) = 1 + Count(fs, "capture")  BY DEF IrSound, GuardsHold
<1>2. Count(fs, "capture") \in Nat  BY CountNat
<1>3. Len(o) >= 1  BY <1>1, <1>2
<1>4. IsSeq(p) /\ Len(p) = Len(o)  BY <1>1, <1>3, Replaced
<1>5. GuardsHold(fs, d, p)  BY <1>4 DEF IrSound, GuardsHold
<1> QED BY <1>5 DEF IrSound

\* The frames of a sound state are a sequence.
LEMMA SoundSeq ==
    ASSUME NEW c, NEW fs, NEW r, NEW h, NEW d, NEW o, IrSound(c, fs, r, h, d, o)
    PROVE  IsSeq(fs)
BY DEF IrSound, Consistent, StackOK

\* A known function returns a value, or fails.
LEMMA CallKnownStep ==
    ASSUME NEW V, NEW C, Holds(V, C), CallKnown
    PROVE  IrSound(code, frames', ctl', heap', dyn', out')
<1> DEFINE vs == Regs(Inst[4])
           r == KnownFn(Inst[3], vs)
<1>1. /\ WellFormed(code) /\ GuardsHold(frames, dyn, out)
      /\ Consistent(V, C, code, frames, ctl, heap, dyn)
      /\ AtInst /\ Inst[1] = "known" /\ Inst[3] \notin {"try", "with-bindings", "with-out-str"}
      /\ UNCHANGED <<heap, dyn>>
  BY DEF Holds, CallKnown
<1>2. /\ IrFrame(Top, V, code) /\ GoodInst(code, Used(code[Top.fn]), Inst)
  BY <1>1, AtInstruction
<1>3. Inst[3] \in KnownOps /\ Inst[4] \in Seq(Used(code[Top.fn])) /\ Len(Inst[4]) >= 1
  BY <1>1, <1>2 DEF GoodInst
<1>4. vs \in Seq(V) /\ Len(vs) >= 1  BY <1>2, <1>3, Reads
<1>5. ValuesOK(V, C, Len(heap)) /\ Nil \in V  BY <1>1 DEF Consistent, ValuesOK
<1>6. \/ ctl' = <<"err", Nil>> /\ UNCHANGED frames
      \/ r # <<>> /\ Write(Inst[2], r) /\ UNCHANGED ctl
  BY DEF CallKnown, HandOver
<1>7. out' = out \/ ReplacesTop(out', out, Append(out[Len(out)], vs[1]))
  BY DEF CallKnown, ReplacesTop
<1> HIDE DEF vs
<1>8. r = <<>> \/ ValueOK(r, V, C, Len(heap))  BY <1>3, <1>4, <1>5, KnownValue
<1> HIDE DEF r
<1>9. IrSound(code, frames', ctl', heap, dyn, out)
  <2>1. CASE ctl' = <<"err", Nil>> /\ UNCHANGED frames
    <3>1. OutcomeOK(ctl', V)  BY <1>5, <2>1, ErrOutcome
    <3>2. IrSound(code, frames, ctl', heap, dyn, out)  BY <1>1, <3>1, Raises
    <3> QED BY <2>1, <3>2
  <2>2. CASE r # <<>> /\ Write(Inst[2], r) /\ UNCHANGED ctl
    <3>1. ValueOK(r, V, C, Len(heap))  BY <1>8, <2>2
    <3>2. IrSound(code, frames', ctl, heap, dyn, out)  BY <1>1, <2>2, <3>1, WritesInst
    <3> QED BY <2>2, <3>2
  <2> QED BY <1>6, <2>1, <2>2
<1>10. IrSound(code, frames', ctl', heap, dyn, out')
  BY <1>7, <1>9, OutputWritten, SoundSeq
<1> QED BY <1>1, <1>10

\* The guards hold as long as no guard frame comes or goes.
LEMMA GuardsKept ==
    ASSUME NEW fs, NEW d, NEW o, GuardsHold(fs, d, o), NEW t,
           Count(t, "bind") = Count(fs, "bind"), Count(t, "capture") = Count(fs, "capture")
    PROVE  GuardsHold(t, d, o)
BY DEF GuardsHold

\* A call runs a builtin or pushes the activation of a closure.
LEMMA CallStep ==
    ASSUME NEW V, NEW C, Holds(V, C), Call
    PROVE  IrSound(code, frames', ctl', heap', dyn', out')
<1> DEFINE f == Callee(Reg(Inst[3]))
           vs == Regs(Inst[4])
<1>1. /\ WellFormed(code) /\ GuardsHold(frames, dyn, out)
      /\ Consistent(V, C, code, frames, ctl, heap, dyn)
      /\ AtInst /\ Inst[1] = "call" /\ UNCHANGED <<heap, dyn, out>>
  BY DEF Holds, Call
<1>2. /\ IrFrame(Top, V, code) /\ GoodInst(code, Used(code[Top.fn]), Inst)
  BY <1>1, AtInstruction
<1>3. Inst[3] \in Used(code[Top.fn]) /\ Inst[4] \in Seq(Used(code[Top.fn]))
  BY <1>1, <1>2 DEF GoodInst
<1>4. Reg(Inst[3]) \in V /\ vs \in Seq(V)  BY <1>2, <1>3, Reads
<1>5. /\ ValuesOK(V, C, Len(heap)) /\ HeapOK(heap, V, C, code)
      /\ dyn \in Seq(V) /\ dyn # <<>>
  BY <1>1 DEF Consistent
<1>6. f \in V  BY <1>4, <1>5, CalleeOK
<1>7. \/ f[1] = "native" /\ Write(Inst[2], Builtin(f[2], vs)) /\ UNCHANGED ctl
      \/ Invoke(f, vs, Waiting)
  BY DEF Call
<1> HIDE DEF f, vs
<1>8. CASE f[1] = "native" /\ Write(Inst[2], Builtin(f[2], vs)) /\ UNCHANGED ctl
  <2>1. f[2] = "ex-info"  BY <1>5, <1>6, <1>8, OfV DEF ValueOK
  <2>2. Builtin(f[2], vs) = <<"exc", vs[1]>>  BY <2>1 DEF Builtin
  <2>3. ValueOK(Builtin(f[2], vs), V, C, Len(heap))  BY <2>2, PlainValue
  <2>4. IrSound(code, frames', ctl, heap, dyn, out)  BY <1>1, <1>8, <2>3, WritesInst
  <2> QED BY <1>1, <1>8, <2>4
<1>9. CASE Invoke(f, vs, Waiting)
  <2>1. /\ StackOK(Waiting, V, code) /\ TopOf(Waiting).kind = "ir"
        /\ Waits(TopOf(Waiting), code) /\ \A k : Count(Waiting, k) = Count(frames, k)
    BY <1>1, CallerWaits
  <2>2. PICK W : /\ V \subseteq W /\ ValuesOK(W, C, Len(heap))
                 /\ StackOK(frames', W, code) /\ Control(ctl', frames', W)
                 /\ \A k : k # "ir" => Count(frames', k) = Count(Waiting, k)
    BY <1>1, <1>4, <1>5, <1>6, <1>9, <2>1, Invokes
  <2>3. dyn \in Seq(W)  BY <1>5, <2>2, SeqMono
  <2>4. Consistent(W, C, code, frames', ctl', heap, dyn)  BY <1>1, <1>5, <2>2, <2>3, Assembled
  <2>5. GuardsHold(frames', dyn, out)  BY <1>1, <2>1, <2>2, GuardsKept
  <2> QED BY <1>1, <2>4, <2>5 DEF IrSound
<1> QED BY <1>7, <1>8, <1>9

-----------------------------------------------------------------------------
(* Terminators. *)

\* The activation on top, at the end of its block.
LEMMA AtTerminator ==
    ASSUME NEW V, NEW C, Holds(V, C), AtEnd
    PROVE  /\ WellFormed(code) /\ GuardsHold(frames, dyn, out)
           /\ Consistent(V, C, code, frames, Run, heap, dyn)
           /\ ctl = Run /\ Top = TopOf(frames) /\ IrFrame(Top, V, code)
           /\ Block = BlockOf(Top, code) /\ GoodBlock(code, code[Top.fn], Top.blk)
           /\ GoodTerm(Used(code[Top.fn]), Block.term)
<1>1. /\ WellFormed(code) /\ GuardsHold(frames, dyn, out) /\ ctl = Run
      /\ Consistent(V, C, code, frames, Run, heap, dyn)
      /\ Top = TopOf(frames) /\ Top.kind = "ir" /\ Block = BlockOf(Top, code)
  BY DEF Holds, AtEnd, Running, Top, TopOf, Block, BlockOf
<1>2. IrFrame(Top, V, code)  BY <1>1, TopFrame DEF Consistent
<1>3. GoodBlock(code, code[Top.fn], Top.blk)  BY <1>1, <1>2, InGoodBlock
<1>4. GoodTerm(Used(code[Top.fn]), Block.term)  BY <1>3 DEF GoodBlock, Block
<1> QED BY <1>1, <1>2, <1>3, <1>4

\* Going to a successor.
LEMMA GoesTo ==
    ASSUME NEW V, NEW C, Holds(V, C), AtEnd, NEW b \in Successors(Block.term), GoTo(b)
    PROVE  IrSound(code, frames', Run, heap, dyn, out)
<1>1. /\ WellFormed(code) /\ GuardsHold(frames, dyn, out)
      /\ Consistent(V, C, code, frames, Run, heap, dyn)
      /\ Top = TopOf(frames) /\ IrFrame(Top, V, code) /\ Block = BlockOf(Top, code)
  BY AtTerminator
<1> DEFINE g == [Top EXCEPT !.prev = Top.blk, !.blk = b, !.at = 0]
<1>2. IrFrame(g, V, code)  BY <1>1, Jumped
<1>3. ReplacesTop(frames', frames, g)  BY DEF GoTo, SetTop, ReplacesTop
<1> HIDE DEF g
<1>4. Consistent(V, C, code, frames', Run, heap, dyn) /\ GuardsHold(frames', dyn, out)
  BY <1>1, <1>2, <1>3, TopMoves
<1> QED BY <1>4 DEF IrSound

\* A jump or a recur.
LEMMA JumpStep ==
    ASSUME NEW V, NEW C, Holds(V, C), Jump
    PROVE  IrSound(code, frames', ctl', heap', dyn', out')
<1>1. /\ AtEnd /\ GoTo(Block.term[2]) /\ UNCHANGED <<ctl, heap, dyn, out>>
      /\ Block.term[2] \in Successors(Block.term)
  BY DEF Jump, Successors
<1>2. ctl = Run  BY <1>1, AtTerminator
<1>3. IrSound(code, frames', Run, heap, dyn, out)  BY <1>1, GoesTo
<1> QED BY <1>1, <1>2, <1>3

\* A branch, either way.
LEMMA BranchStep ==
    ASSUME NEW V, NEW C, Holds(V, C), Branch
    PROVE  IrSound(code, frames', ctl', heap', dyn', out')
<1> DEFINE b == IF Truthy(Reg(Block.term[2])) THEN Block.term[3] ELSE Block.term[4]
<1>1. /\ AtEnd /\ GoTo(b) /\ UNCHANGED <<ctl, heap, dyn, out>> /\ Block.term[1] = "branch"
  BY DEF Branch
<1>2. b \in Successors(Block.term)  BY <1>1 DEF Successors
<1> HIDE DEF b
<1>3. ctl = Run  BY <1>1, AtTerminator
<1>4. IrSound(code, frames', Run, heap, dyn, out)  BY <1>1, <1>2, GoesTo
<1> QED BY <1>1, <1>3, <1>4

\* A return hands over the value of a register.
LEMMA ReturnStep ==
    ASSUME NEW V, NEW C, Holds(V, C), Return
    PROVE  IrSound(code, frames', ctl', heap', dyn', out')
<1>1. /\ AtEnd /\ Block.term[1] = "return" /\ ctl' = <<"ok", Reg(Block.term[2])>>
      /\ UNCHANGED <<frames, heap, dyn, out>>
  BY DEF Return, HandOver
<1>2. /\ WellFormed(code) /\ GuardsHold(frames, dyn, out)
      /\ Consistent(V, C, code, frames, Run, heap, dyn)
      /\ IrFrame(Top, V, code) /\ GoodTerm(Used(code[Top.fn]), Block.term)
  BY <1>1, AtTerminator
<1>3. Block.term[2] \in Used(code[Top.fn])  BY <1>1, <1>2 DEF GoodTerm
<1>4. Reg(Block.term[2]) \in V  BY <1>2, <1>3, Reads
<1>5. OutcomeOK(ctl', V)  BY <1>1, <1>4 DEF OutcomeOK
<1>6. IrSound(code, frames, ctl', heap, dyn, out)  BY <1>2, <1>5, Raises
<1> QED BY <1>1, <1>6

-----------------------------------------------------------------------------
(* Unwinding, and the guards. *)

\* A call made on a good stack.
LEMMA InvokeSound ==
    ASSUME NEW V, NEW C, Holds(V, C), NEW st, StackOK(st, V, code),
           TopOf(st).kind = "ir" => Waits(TopOf(st), code),
           NEW f \in V, NEW vs \in Seq(V), Invoke(f, vs, st),
           NEW e \in Seq(V), e # <<>>, NEW o, GuardsHold(st, e, o)
    PROVE  IrSound(code, frames', ctl', heap, e, o)
<1>1. /\ WellFormed(code) /\ ValuesOK(V, C, Len(heap)) /\ HeapOK(heap, V, C, code)
      /\ Consistent(V, C, code, frames, ctl, heap, dyn)
  BY DEF Holds, Consistent
<1>2. PICK W : /\ V \subseteq W /\ ValuesOK(W, C, Len(heap))
               /\ StackOK(frames', W, code) /\ Control(ctl', frames', W)
               /\ \A k : k # "ir" => Count(frames', k) = Count(st, k)
  BY <1>1, Invokes
<1>3. e \in Seq(W)  BY <1>2, SeqMono
<1>4. Consistent(W, C, code, frames', ctl', heap, e)  BY <1>1, <1>2, <1>3, Assembled
<1>5. GuardsHold(frames', e, o)  BY <1>2, GuardsKept
<1> QED BY <1>4, <1>5 DEF IrSound

\* A guard that is done, on a good stack.
LEMMA ResumeSound ==
    ASSUME NEW V, NEW C, Holds(V, C), NEW st, StackOK(st, V, code),
           TopOf(st).kind = "ir", Waits(TopOf(st), code),
           NEW r, OutcomeOK(r, V), Resume(st, r),
           NEW e \in Seq(V), e # <<>>, NEW o, GuardsHold(st, e, o)
    PROVE  IrSound(code, frames', ctl', heap, e, o)
<1>1. /\ WellFormed(code) /\ ValuesOK(V, C, Len(heap))
      /\ Consistent(V, C, code, frames, ctl, heap, dyn)
  BY DEF Holds, Consistent
<1>2. /\ StackOK(frames', V, code) /\ Control(ctl', frames', V)
      /\ \A k : Count(frames', k) = Count(st, k)
  BY <1>1, Resumes
<1>3. Consistent(V, C, code, frames', ctl', heap, e)  BY <1>1, <1>2, Assembled
<1>4. GuardsHold(frames', e, o)  BY <1>2, GuardsKept
<1> QED BY <1>3, <1>4 DEF IrSound

\* What stands below the top frame of a stack that is unwound.
LEMMA Unwinds ==
    ASSUME NEW V, NEW C, Holds(V, C), ctl # Run, Len(frames) > 1
    PROVE  /\ OutcomeOK(ctl, V) /\ Top = TopOf(frames)
           /\ StackOK(Callers, V, code)
           /\ TopOf(Callers).kind = "ir" => Waits(TopOf(Callers), code)
           /\ Top.kind # "ir" => TopOf(Callers).kind = "ir"
           /\ \A k : Count(frames, k) = Count(Callers, k) + (IF Top.kind = k THEN 1 ELSE 0)
           /\ \A k : Count(Callers, k) \in Nat
           /\ dyn \in Seq(V) /\ dyn # <<>> /\ IsSeq(out)
           /\ Len(dyn) = 1 + Count(frames, "bind") /\ Len(out) = 1 + Count(frames, "capture")
<1>1. /\ OutcomeOK(ctl, V) /\ StackOK(frames, V, code) /\ dyn \in Seq(V) /\ dyn # <<>>
      /\ IsSeq(out)
      /\ Len(dyn) = 1 + Count(frames, "bind") /\ Len(out) = 1 + Count(frames, "capture")
  BY DEF Holds, Consistent, Control, GuardsHold
<1>2. Top = TopOf(frames)  BY DEF Top, TopOf
<1>3. Callers = Front(frames)  BY DEF Callers
<1>4. /\ StackOK(Callers, V, code)
      /\ TopOf(Callers).kind = "ir" => Waits(TopOf(Callers), code)
      /\ TopOf(frames).kind # "ir" => TopOf(Callers).kind = "ir"
      /\ \A k : Count(frames, k) = Count(Callers, k) + (IF TopOf(frames).kind = k THEN 1 ELSE 0)
  BY <1>1, <1>3, StackPopped
<1>5. \A k : Count(Callers, k) \in Nat  BY <1>4, CountNat DEF StackOK
<1> QED BY <1>1, <1>2, <1>4, <1>5

\* An activation that is popped is no guard.
LEMMA PoppedNoGuard ==
    ASSUME NEW V, NEW C, Holds(V, C), ctl # Run, Len(frames) > 1,
           Top.kind \in {"ir", "try"}
    PROVE  GuardsHold(Callers, dyn, out)
<1>1. /\ \A k : Count(frames, k) = Count(Callers, k) + (IF Top.kind = k THEN 1 ELSE 0)
      /\ \A k : Count(Callers, k) \in Nat
  BY Unwinds
<1>2. Count(frames, "bind") = Count(Callers, "bind")
  <2>1. Count(frames, "bind") = Count(Callers, "bind") + 0  BY <1>1
  <2> QED BY <1>1, <2>1
<1>3. Count(frames, "capture") = Count(Callers, "capture")
  <2>1. Count(frames, "capture") = Count(Callers, "capture") + 0  BY <1>1
  <2> QED BY <1>1, <2>1
<1> QED BY <1>2, <1>3, GuardsKept DEF Holds

\* A result goes to the caller; an error, or the result of a guard's thunk, goes on.
LEMMA LeaveStep ==
    ASSUME NEW V, NEW C, Holds(V, C), Leave
    PROVE  IrSound(code, frames', ctl', heap', dyn', out')
<1>1. /\ ctl # Run /\ Len(frames) > 1 /\ Top.kind = "ir" /\ UNCHANGED <<heap, dyn, out>>
  BY DEF Leave
<1>2. /\ OutcomeOK(ctl, V) /\ StackOK(Callers, V, code) /\ dyn \in Seq(V) /\ dyn # <<>>
      /\ TopOf(Callers).kind = "ir" => Waits(TopOf(Callers), code)
  BY <1>1, Unwinds
<1>3. GuardsHold(Callers, dyn, out)  BY <1>1, PoppedNoGuard
<1> DEFINE r == AsThrown(ctl)
<1>4. \/ TopOf(Callers).kind = "ir" /\ Resume(Callers, r)
      \/ frames' = Callers /\ ctl' = r
  BY DEF Leave, Resume, TopOf, AsThrown
<1>7. OutcomeOK(r, V)
  <2>1. Nil \in V /\ ErrorValue \in V  BY DEF Holds, Consistent, ValuesOK
  <2> QED BY <1>2, <2>1, ThrownOutcome
<1> HIDE DEF r
<1>5. CASE TopOf(Callers).kind = "ir" /\ Resume(Callers, r)
  <2>1. IrSound(code, frames', ctl', heap, dyn, out)  BY <1>2, <1>3, <1>5, <1>7, ResumeSound
  <2> QED BY <1>1, <2>1
<1>6. CASE frames' = Callers /\ ctl' = r
  <2>1. Control(r, Callers, V)  BY <1>7, Outcome
  <2>2. Consistent(V, C, code, frames, ctl, heap, dyn)  BY DEF Holds
  <2>3. Consistent(V, C, code, Callers, r, heap, dyn)
    BY <1>2, <2>1, <2>2 DEF Consistent
  <2> QED BY <1>1, <1>3, <1>6, <2>3 DEF IrSound
<1> QED BY <1>4, <1>5, <1>6

\* The try guard that is pushed or replaced stands on the activation that waits.
LEMMA TryPushed ==
    ASSUME NEW V, NEW C, Holds(V, C), NEW st, StackOK(st, V, code),
           TopOf(st).kind = "ir", Waits(TopOf(st), code), GuardsHold(st, dyn, out),
           NEW g, TryFrame(g, V), NEW t, Pushes(t, st, g)
    PROVE  /\ StackOK(t, V, code) /\ TopOf(t).kind = "try" /\ GuardsHold(t, dyn, out)
<1>1. FrameOK(g, V, code) /\ g.kind = "try"  BY DEF FrameOK, TryFrame
<1>2. /\ StackOK(t, V, code) /\ TopOf(t) = g
      /\ \A k : Count(t, k) = Count(st, k) + (IF g.kind = k THEN 1 ELSE 0)
  BY <1>1, StackPushed
<1>3. \A k : Count(st, k) \in Nat  BY CountNat DEF StackOK
<1>4. Count(t, "bind") = Count(st, "bind")
  <2>1. Count(t, "bind") = Count(st, "bind") + 0  BY <1>1, <1>2
  <2> QED BY <1>3, <2>1
<1>5. Count(t, "capture") = Count(st, "capture")
  <2>1. Count(t, "capture") = Count(st, "capture") + 0  BY <1>1, <1>2
  <2> QED BY <1>3, <2>1
<1> QED BY <1>1, <1>2, <1>4, <1>5, GuardsKept

\* An instruction that calls thunks.
LEMMA AtKnown ==
    ASSUME NEW V, NEW C, Holds(V, C), AtInst, Inst[1] = "known"
    PROVE  /\ StackOK(Waiting, V, code) /\ TopOf(Waiting).kind = "ir"
           /\ Waits(TopOf(Waiting), code) /\ GuardsHold(Waiting, dyn, out)
           /\ dyn \in Seq(V) /\ dyn # <<>>
           /\ \A k : Count(Waiting, k) = Count(frames, k) /\ Count(frames, k) \in Nat
           /\ Regs(Inst[4]) \in Seq(V)
           /\ Regs(Inst[4])[1] \in V /\ Regs(Inst[4])[1] = Reg(Inst[4][1])
           /\ Inst[3] \in {"try", "with-bindings"} =>
                Regs(Inst[4])[2] \in V /\ Regs(Inst[4])[3] \in V
<1>1. /\ WellFormed(code) /\ GuardsHold(frames, dyn, out) /\ dyn \in Seq(V) /\ dyn # <<>>
      /\ Consistent(V, C, code, frames, ctl, heap, dyn) /\ IsSeq(frames)
  BY DEF Holds, Consistent, StackOK
<1>2. /\ IrFrame(Top, V, code) /\ GoodInst(code, Used(code[Top.fn]), Inst)
  BY <1>1, AtInstruction
<1>3. /\ StackOK(Waiting, V, code) /\ TopOf(Waiting).kind = "ir"
      /\ Waits(TopOf(Waiting), code) /\ \A k : Count(Waiting, k) = Count(frames, k)
  BY <1>1, CallerWaits
<1>4. GuardsHold(Waiting, dyn, out)  BY <1>1, <1>3, GuardsKept
<1>5. /\ Inst[4] \in Seq(Used(code[Top.fn])) /\ Len(Inst[4]) >= 1
      /\ Inst[3] \in {"try", "with-bindings"} => Len(Inst[4]) = 3
  <2>1. \/ /\ Inst[3] \in KnownOps \cup {"with-out-str"}
           /\ Inst[4] \in Seq(Used(code[Top.fn])) /\ Len(Inst[4]) >= 1
        \/ Inst[4] \in Seq(Used(code[Top.fn])) /\ Len(Inst[4]) = 3
    BY <1>2 DEF GoodInst
  <2>2. Inst[3] \in {"try", "with-bindings"} => Inst[3] \notin KnownOps \cup {"with-out-str"}
    BY DEF KnownOps
  <2>3. Len(Inst[4]) = 3 => Len(Inst[4]) >= 1  OBVIOUS
  <2> QED BY <2>1, <2>2, <2>3
<1>6. /\ Regs(Inst[4]) \in Seq(V)
      /\ \A j \in 1..Len(Inst[4]) : Regs(Inst[4])[j] \in V /\ Regs(Inst[4])[j] = Reg(Inst[4][j])
  BY <1>2, <1>5, Reads
<1>7. 1 \in 1..Len(Inst[4])  BY <1>5
<1>8. Inst[3] \in {"try", "with-bindings"} => 2 \in 1..Len(Inst[4]) /\ 3 \in 1..Len(Inst[4])
  <2>1. 2 \in 1..3 /\ 3 \in 1..3  OBVIOUS
  <2> QED BY <1>5, <2>1
<1>9. \A k : Count(frames, k) \in Nat  BY <1>1, CountNat
<1> QED BY <1>1, <1>3, <1>4, <1>6, <1>7, <1>8, <1>9

\* The body thunk of a try is called over its guard.
LEMMA EnterTryStep ==
    ASSUME NEW V, NEW C, Holds(V, C), EnterTry
    PROVE  IrSound(code, frames', ctl', heap', dyn', out')
<1> DEFINE vs == Regs(Inst[4])
           g == [kind |-> "try", stage |-> "body", catch |-> vs[2], fin |-> vs[3], ret |-> <<>>]
           st == Append(Waiting, g)
<1>1. /\ AtInst /\ Inst[1] = "known" /\ Inst[3] = "try" /\ Invoke(vs[1], <<>>, st)
      /\ UNCHANGED <<heap, dyn, out>>
  BY DEF EnterTry
<1>2. /\ StackOK(Waiting, V, code) /\ TopOf(Waiting).kind = "ir"
      /\ Waits(TopOf(Waiting), code) /\ GuardsHold(Waiting, dyn, out)
      /\ dyn \in Seq(V) /\ dyn # <<>>
      /\ vs[1] \in V /\ vs[2] \in V /\ vs[3] \in V
  BY <1>1, AtKnown
<1> HIDE DEF vs
<1>3. TryFrame(g, V)  BY <1>2 DEF TryFrame
<1> HIDE DEF g
<1>4. Pushes(st, Waiting, g)  BY DEF Pushes
<1> HIDE DEF st
<1>5. StackOK(st, V, code) /\ TopOf(st).kind = "try" /\ GuardsHold(st, dyn, out)
  BY <1>2, <1>3, <1>4, TryPushed
<1>6. <<>> \in Seq(V)  OBVIOUS
<1>7. IrSound(code, frames', ctl', heap, dyn, out)  BY <1>1, <1>2, <1>5, <1>6, InvokeSound
<1> QED BY <1>1, <1>7

\* The try guard on top, while an outcome is handed over.
LEMMA AtTry ==
    ASSUME NEW V, NEW C, Holds(V, C), ctl # Run, Top.kind = "try"
    PROVE  /\ OutcomeOK(ctl, V) /\ TryFrame(Top, V)
           /\ StackOK(Callers, V, code) /\ TopOf(Callers).kind = "ir" /\ Waits(TopOf(Callers), code)
           /\ GuardsHold(Callers, dyn, out) /\ dyn \in Seq(V) /\ dyn # <<>>
<1>1. Top = TopOf(frames)  BY DEF Top, TopOf
<1>2. StackOK(frames, V, code)  BY DEF Holds, Consistent
<1>3. Len(frames) > 1 /\ TryFrame(Top, V)  BY <1>1, <1>2, TopFrame
<1> QED BY <1>3, Unwinds, PoppedNoGuard

\* The catch thunk is called over the guard it stands in.
LEMMA CatchThrownStep ==
    ASSUME NEW V, NEW C, Holds(V, C), CatchThrown
    PROVE  IrSound(code, frames', ctl', heap', dyn', out')
<1> DEFINE g == [Top EXCEPT !.stage = "catch"]
           st == Append(Callers, g)
<1>1. /\ ctl[1] = "throw" /\ Top.kind = "try" /\ Invoke(Top.catch, <<ctl[2]>>, st)
      /\ UNCHANGED <<heap, dyn, out>>
  BY DEF CatchThrown
<1>2. ctl # Run  BY <1>1 DEF Run
<1>3. /\ OutcomeOK(ctl, V) /\ TryFrame(Top, V)
      /\ StackOK(Callers, V, code) /\ TopOf(Callers).kind = "ir" /\ Waits(TopOf(Callers), code)
      /\ GuardsHold(Callers, dyn, out) /\ dyn \in Seq(V) /\ dyn # <<>>
  BY <1>1, <1>2, AtTry
<1>4. TryFrame(g, V) /\ Top.catch \in V /\ ctl[2] \in V  BY <1>3 DEF TryFrame, OutcomeOK
<1> HIDE DEF g
<1>5. Pushes(st, Callers, g)  BY DEF Pushes
<1> HIDE DEF st
<1>6. StackOK(st, V, code) /\ TopOf(st).kind = "try" /\ GuardsHold(st, dyn, out)
  BY <1>3, <1>4, <1>5, TryPushed
<1>7. <<ctl[2]>> \in Seq(V)  BY <1>4
<1>8. IrSound(code, frames', ctl', heap, dyn, out)  BY <1>1, <1>3, <1>4, <1>6, <1>7, InvokeSound
<1> QED BY <1>1, <1>8

\* The finally thunk is called with the outcome kept aside; without one the try is done.
LEMMA RunFinallyStep ==
    ASSUME NEW V, NEW C, Holds(V, C), RunFinally
    PROVE  IrSound(code, frames', ctl', heap', dyn', out')
<1> DEFINE g == [Top EXCEPT !.stage = "finally", !.ret = ctl]
           st == Append(Callers, g)
<1>1. /\ ctl # Run /\ Top.kind = "try" /\ UNCHANGED <<heap, dyn, out>>
      /\ Resume(Callers, ctl) \/ Invoke(Top.fin, <<>>, st)
  BY DEF RunFinally
<1>2. /\ OutcomeOK(ctl, V) /\ TryFrame(Top, V)
      /\ StackOK(Callers, V, code) /\ TopOf(Callers).kind = "ir" /\ Waits(TopOf(Callers), code)
      /\ GuardsHold(Callers, dyn, out) /\ dyn \in Seq(V) /\ dyn # <<>>
  BY <1>1, AtTry
<1>3. CASE Resume(Callers, ctl)
  <2>1. IrSound(code, frames', ctl', heap, dyn, out)  BY <1>2, <1>3, ResumeSound
  <2> QED BY <1>1, <2>1
<1>4. CASE Invoke(Top.fin, <<>>, st)
  <2>1. TryFrame(g, V) /\ Top.fin \in V  BY <1>2 DEF TryFrame
  <2> HIDE DEF g
  <2>2. Pushes(st, Callers, g)  BY DEF Pushes
  <2> HIDE DEF st
  <2>3. StackOK(st, V, code) /\ TopOf(st).kind = "try" /\ GuardsHold(st, dyn, out)
    BY <1>2, <2>1, <2>2, TryPushed
  <2>4. <<>> \in Seq(V)  OBVIOUS
  <2>5. IrSound(code, frames', ctl', heap, dyn, out)  BY <1>2, <1>4, <2>1, <2>3, <2>4, InvokeSound
  <2> QED BY <1>1, <2>5
<1> QED BY <1>1, <1>3, <1>4

\* The outcome kept aside is an outcome.
LEMMA EndFinallyStep ==
    ASSUME NEW V, NEW C, Holds(V, C), EndFinally
    PROVE  IrSound(code, frames', ctl', heap', dyn', out')
<1>1. /\ ctl # Run /\ Top.kind = "try" /\ Top.stage = "finally" /\ Resume(Callers, Top.ret)
      /\ UNCHANGED <<heap, dyn, out>>
  BY DEF EndFinally
<1>2. /\ TryFrame(Top, V)
      /\ StackOK(Callers, V, code) /\ TopOf(Callers).kind = "ir" /\ Waits(TopOf(Callers), code)
      /\ GuardsHold(Callers, dyn, out) /\ dyn \in Seq(V) /\ dyn # <<>>
  BY <1>1, AtTry
<1>3. OutcomeOK(Top.ret, V)  BY <1>1, <1>2 DEF TryFrame
<1>4. IrSound(code, frames', ctl', heap, dyn, out)  BY <1>1, <1>2, <1>3, ResumeSound
<1> QED BY <1>1, <1>4

\* A binding or capture guard pushed on an activation that waits.
LEMMA GuardPushed ==
    ASSUME NEW V, NEW st, StackOK(st, V, code), TopOf(st).kind = "ir", Waits(TopOf(st), code),
           NEW g, g.kind \in {"bind", "capture"}, NEW t, Pushes(t, st, g)
    PROVE  /\ StackOK(t, V, code) /\ TopOf(t).kind # "ir"
           /\ g.kind = "bind" => /\ Count(t, "bind") = Count(st, "bind") + 1
                                 /\ Count(t, "capture") = Count(st, "capture")
           /\ g.kind = "capture" => /\ Count(t, "bind") = Count(st, "bind")
                                    /\ Count(t, "capture") = Count(st, "capture") + 1
<1>1. FrameOK(g, V, code) /\ g.kind # "ir"  BY DEF FrameOK
<1>2. /\ StackOK(t, V, code) /\ TopOf(t) = g
      /\ \A k : Count(t, k) = Count(st, k) + (IF g.kind = k THEN 1 ELSE 0)
  BY <1>1, StackPushed
<1>3. \A k : Count(st, k) \in Nat  BY CountNat DEF StackOK
<1>4. \A k : Count(st, k) + 0 = Count(st, k)  BY <1>3
<1>5. ASSUME g.kind = "bind"
      PROVE  Count(t, "bind") = Count(st, "bind") + 1 /\ Count(t, "capture") = Count(st, "capture")
  <2>1. Count(t, "capture") = Count(st, "capture") + 0  BY <1>2, <1>5
  <2> QED BY <1>2, <1>4, <1>5, <2>1
<1>6. ASSUME g.kind = "capture"
      PROVE  Count(t, "bind") = Count(st, "bind") /\ Count(t, "capture") = Count(st, "capture") + 1
  <2>1. Count(t, "bind") = Count(st, "bind") + 0  BY <1>2, <1>6
  <2> QED BY <1>2, <1>4, <1>6, <2>1
<1> QED BY <1>1, <1>2, <1>5, <1>6

\* The body thunk is called with one more binding and its guard.
LEMMA EnterBindingStep ==
    ASSUME NEW V, NEW C, Holds(V, C), EnterBinding
    PROVE  IrSound(code, frames', ctl', heap', dyn', out')
<1> DEFINE vs == Regs(Inst[4])
           g == [kind |-> "bind"]
           st == Append(Waiting, g)
<1>1. /\ AtInst /\ Inst[1] = "known" /\ Inst[3] = "with-bindings"
      /\ dyn' = Append(dyn, vs[2]) /\ Invoke(vs[3], <<>>, st) /\ UNCHANGED <<heap, out>>
  BY DEF EnterBinding
<1>2. /\ StackOK(Waiting, V, code) /\ TopOf(Waiting).kind = "ir"
      /\ Waits(TopOf(Waiting), code) /\ GuardsHold(Waiting, dyn, out)
      /\ dyn \in Seq(V) /\ vs[2] \in V /\ vs[3] \in V
      /\ \A k : Count(Waiting, k) = Count(frames, k) /\ Count(frames, k) \in Nat
  BY <1>1, AtKnown
<1> HIDE DEF vs
<1>3. g.kind = "bind" /\ Pushes(st, Waiting, g)  BY DEF Pushes
<1> HIDE DEF g, st
<1>4. /\ StackOK(st, V, code) /\ TopOf(st).kind # "ir"
      /\ Count(st, "bind") = Count(Waiting, "bind") + 1
      /\ Count(st, "capture") = Count(Waiting, "capture")
  BY <1>2, <1>3, GuardPushed
<1>5. dyn' \in Seq(V) /\ Len(dyn') = Len(dyn) + 1 /\ dyn' # <<>>  BY <1>1, <1>2
<1>6. GuardsHold(st, dyn', out)
  <2>1. \A n \in Nat : (1 + n) + 1 = 1 + (n + 1)  OBVIOUS
  <2>2. Len(dyn) = 1 + Count(Waiting, "bind") /\ Count(Waiting, "bind") \in Nat
    BY <1>2 DEF GuardsHold
  <2>3. Len(dyn') = 1 + Count(st, "bind")  BY <1>4, <1>5, <2>1, <2>2
  <2> QED BY <1>2, <1>4, <2>3 DEF GuardsHold
<1>7. <<>> \in Seq(V)  OBVIOUS
<1>8. IrSound(code, frames', ctl', heap, dyn', out)
  BY <1>1, <1>2, <1>4, <1>5, <1>6, <1>7, InvokeSound
<1> QED BY <1>1, <1>8

\* A binding or capture guard on top, while an outcome is handed over.
LEMMA AtGuard ==
    ASSUME NEW V, NEW C, Holds(V, C), ctl # Run, Top.kind \in {"bind", "capture"}
    PROVE  /\ OutcomeOK(ctl, V) /\ dyn \in Seq(V) /\ dyn # <<>> /\ IsSeq(out)
           /\ StackOK(Callers, V, code) /\ TopOf(Callers).kind = "ir" /\ Waits(TopOf(Callers), code)
           /\ Count(Callers, "bind") \in Nat /\ Count(Callers, "capture") \in Nat
           /\ Len(dyn) = 1 + Count(Callers, "bind") + (IF Top.kind = "bind" THEN 1 ELSE 0)
           /\ Len(out) = 1 + Count(Callers, "capture") + (IF Top.kind = "capture" THEN 1 ELSE 0)
<1>1. Top = TopOf(frames)  BY DEF Top, TopOf
<1>2. StackOK(frames, V, code)  BY DEF Holds, Consistent
<1>3. Len(frames) > 1  BY <1>1, <1>2, TopFrame
<1>4. /\ OutcomeOK(ctl, V) /\ dyn \in Seq(V) /\ dyn # <<>> /\ IsSeq(out)
      /\ StackOK(Callers, V, code) /\ TopOf(Callers).kind = "ir" /\ Waits(TopOf(Callers), code)
      /\ \A k : Count(frames, k) = Count(Callers, k) + (IF Top.kind = k THEN 1 ELSE 0)
      /\ \A k : Count(Callers, k) \in Nat
      /\ Len(dyn) = 1 + Count(frames, "bind") /\ Len(out) = 1 + Count(frames, "capture")
  BY <1>3, Unwinds
<1>5. \A n \in Nat : 1 + (n + 0) = 1 + n + 0 /\ 1 + (n + 1) = 1 + n + 1  OBVIOUS
<1>6. Len(dyn) = 1 + Count(Callers, "bind") + (IF Top.kind = "bind" THEN 1 ELSE 0)
  BY <1>4, <1>5
<1>7. Len(out) = 1 + Count(Callers, "capture") + (IF Top.kind = "capture" THEN 1 ELSE 0)
  BY <1>4, <1>5
<1> QED BY <1>4, <1>6, <1>7

\* The guard pops its binding, whatever the outcome.
LEMMA EndBindingStep ==
    ASSUME NEW V, NEW C, Holds(V, C), EndBinding
    PROVE  IrSound(code, frames', ctl', heap', dyn', out')
<1>1. /\ ctl # Run /\ Top.kind = "bind" /\ dyn' = Front(dyn) /\ Resume(Callers, ctl)
      /\ UNCHANGED <<heap, out>>
  BY DEF EndBinding
<1>2. /\ OutcomeOK(ctl, V) /\ dyn \in Seq(V) /\ IsSeq(out)
      /\ StackOK(Callers, V, code) /\ TopOf(Callers).kind = "ir" /\ Waits(TopOf(Callers), code)
      /\ Count(Callers, "bind") \in Nat /\ Count(Callers, "capture") \in Nat
      /\ Len(dyn) = 1 + Count(Callers, "bind") + 1
      /\ Len(out) = 1 + Count(Callers, "capture") + 0
  BY <1>1, AtGuard
<1>3. dyn' \in Seq(V) /\ Len(dyn') = 1 + Count(Callers, "bind") /\ dyn' # <<>>
  <2>1. IsSeq(dyn)  BY <1>2 DEF IsSeq
  <2>2. Len(dyn) >= 1  BY <1>2
  <2>3. Len(dyn') = Len(dyn) - 1  BY <1>1, <2>1, <2>2, FrontKept
  <2>4. \A n \in Nat : (1 + n + 1) - 1 = 1 + n /\ 1 + n # 0  OBVIOUS
  <2>5. Len(dyn') = 1 + Count(Callers, "bind") /\ Len(dyn') # 0  BY <1>2, <2>3, <2>4
  <2>6. dyn' \in Seq(V)  BY <1>1, <1>2, <2>2 DEF Front
  <2> QED BY <2>5, <2>6
<1>4. Len(out) = 1 + Count(Callers, "capture")  BY <1>2
<1>5. GuardsHold(Callers, dyn', out)  BY <1>2, <1>3, <1>4 DEF GuardsHold
<1>6. IrSound(code, frames', ctl', heap, dyn', out)  BY <1>1, <1>2, <1>3, <1>5, ResumeSound
<1> QED BY <1>1, <1>6

\* The body thunk is called with one more capture and its guard.
LEMMA EnterCaptureStep ==
    ASSUME NEW V, NEW C, Holds(V, C), EnterCapture
    PROVE  IrSound(code, frames', ctl', heap', dyn', out')
<1> DEFINE f == Reg(Inst[4][1])
           g == [kind |-> "capture"]
           st == Append(Waiting, g)
<1>1. /\ AtInst /\ Inst[1] = "known" /\ Inst[3] = "with-out-str"
      /\ Pushes(out', out, <<>>) /\ Invoke(f, <<>>, st) /\ UNCHANGED <<heap, dyn>>
  BY DEF EnterCapture, Pushes
<1>2. /\ StackOK(Waiting, V, code) /\ TopOf(Waiting).kind = "ir"
      /\ Waits(TopOf(Waiting), code) /\ GuardsHold(Waiting, dyn, out)
      /\ dyn \in Seq(V) /\ dyn # <<>> /\ f \in V
      /\ \A k : Count(Waiting, k) = Count(frames, k) /\ Count(frames, k) \in Nat
  BY <1>1, AtKnown
<1> HIDE DEF f
<1>3. g.kind = "capture" /\ Pushes(st, Waiting, g)  BY DEF Pushes
<1> HIDE DEF g, st
<1>4. /\ StackOK(st, V, code) /\ TopOf(st).kind # "ir"
      /\ Count(st, "bind") = Count(Waiting, "bind")
      /\ Count(st, "capture") = Count(Waiting, "capture") + 1
  BY <1>2, <1>3, GuardPushed
<1>5. IsSeq(out') /\ Len(out') = Len(out) + 1  BY <1>1, <1>2, Pushed DEF GuardsHold
<1>6. GuardsHold(st, dyn, out')
  <2>1. \A n \in Nat : (1 + n) + 1 = 1 + (n + 1)  OBVIOUS
  <2>2. Len(out) = 1 + Count(Waiting, "capture") /\ Count(Waiting, "capture") \in Nat
    BY <1>2 DEF GuardsHold
  <2>3. Len(out') = 1 + Count(st, "capture")  BY <1>4, <1>5, <2>1, <2>2
  <2> QED BY <1>2, <1>4, <1>5, <2>3 DEF GuardsHold
<1>7. <<>> \in Seq(V)  OBVIOUS
<1>8. IrSound(code, frames', ctl', heap, dyn, out')
  BY <1>1, <1>2, <1>4, <1>6, <1>7, InvokeSound
<1> QED BY <1>1, <1>8

\* The guard pops its capture, whatever the outcome; the captured output is a string.
LEMMA EndCaptureStep ==
    ASSUME NEW V, NEW C, Holds(V, C), EndCapture
    PROVE  IrSound(code, frames', ctl', heap', dyn', out')
<1> DEFINE x == <<"str", Last(out)>>
           r == IF ctl[1] = "ok" THEN <<"ok", x>> ELSE ctl
           W == V \cup {x}
<1>1. /\ ctl # Run /\ Top.kind = "capture" /\ out' = Front(out) /\ Resume(Callers, r)
      /\ UNCHANGED <<heap, dyn>>
  BY DEF EndCapture
<1>2. ValueOK(x, V, C, Len(heap))  BY PlainValue
<1> HIDE DEF x
<1>3. Holds(W, C)  BY <1>2, Grow DEF Holds
<1>4. x \in W  OBVIOUS
<1> HIDE DEF W
<1>5. /\ OutcomeOK(ctl, W) /\ dyn \in Seq(W) /\ dyn # <<>> /\ IsSeq(out)
      /\ StackOK(Callers, W, code) /\ TopOf(Callers).kind = "ir" /\ Waits(TopOf(Callers), code)
      /\ Count(Callers, "bind") \in Nat /\ Count(Callers, "capture") \in Nat
      /\ Len(dyn) = 1 + Count(Callers, "bind") + 0
      /\ Len(out) = 1 + Count(Callers, "capture") + 1
  BY <1>1, <1>3, AtGuard
<1>6. OutcomeOK(r, W)
  <2>1. OutcomeOK(<<"ok", x>>, W)  BY <1>4 DEF OutcomeOK
  <2> QED BY <1>5, <2>1
<1> HIDE DEF r
<1>7. IsSeq(out') /\ Len(out') = 1 + Count(Callers, "capture")
  <2>1. Len(out) >= 1  BY <1>5
  <2>2. IsSeq(out') /\ Len(out') = Len(out) - 1  BY <1>1, <1>5, <2>1, FrontKept
  <2>3. \A n \in Nat : (1 + n + 1) - 1 = 1 + n  OBVIOUS
  <2> QED BY <1>5, <2>2, <2>3
<1>8. Len(dyn) = 1 + Count(Callers, "bind")  BY <1>5
<1>9. GuardsHold(Callers, dyn, out')  BY <1>7, <1>8 DEF GuardsHold
<1>10. IrSound(code, frames', ctl', heap, dyn, out')  BY <1>1, <1>3, <1>5, <1>6, <1>9, ResumeSound
<1> QED BY <1>1, <1>10

-----------------------------------------------------------------------------
(* The invariant. *)

\* A stack of one activation.
LEMMA OneFrame ==
    ASSUME NEW V, NEW c, NEW f, IrFrame(f, V, c)
    PROVE  /\ StackOK(<<f>>, V, c) /\ TopOf(<<f>>) = f
           /\ Count(<<f>>, "bind") = 0 /\ Count(<<f>>, "capture") = 0
<1> DEFINE s == <<f>>
<1>1. s \in Seq({f}) /\ Len(s) = 1 /\ s[1] = f  OBVIOUS
<1> HIDE DEF s
<1>2. IsSeq(s)  BY <1>1 DEF IsSeq
<1>3. s[1].kind = "ir" /\ FrameOK(s[1], V, c)  BY <1>1 DEF IrFrame, FrameOK
<1>4. \A i \in 1..Len(s) : i = 1  BY <1>1
<1>5. (\A i \in 2..Len(s) : FALSE) /\ (\A i \in 1..(Len(s) - 1) : FALSE)  BY <1>1
<1>6. Len(s) >= 1  BY <1>1
<1>7. StackOK(s, V, c)  BY <1>2, <1>3, <1>4, <1>5, <1>6 DEF StackOK
<1>8. ASSUME NEW k, k # "ir" PROVE Count(s, k) = 0
  <2>1. {i \in 1..Len(s) : s[i].kind = k} = {}  BY <1>3, <1>4, <1>8
  <2> QED BY <2>1, FS_EmptySet DEF Count
<1>9. Count(s, "bind") = 0 /\ Count(s, "capture") = 0  BY <1>8
<1>10. TopOf(s) = f  BY <1>1 DEF TopOf
<1> QED BY <1>7, <1>9, <1>10 DEF s

\* The call that is about to run.
LEMMA InitInv == IrInit => IndInv
<1> SUFFICES ASSUME IrInit PROVE IndInv  OBVIOUS
<1>1. prog \in Programs /\ ~Compiled(prog).declined /\ code = Compiled(prog).fns  BY DEF IrInit
<1>2. WellFormed(code) /\ Scalar(prog.arg)  BY <1>1, CompiledAssumption
<1> DEFINE V == {Nil, Num(0), ErrorValue, prog.arg}
           f == Activation(Len(code), <<prog.arg>>)
<1>3. Nil \in V /\ ErrorValue \in V /\ <<prog.arg>> \in Seq(V) /\ <<Num(0)>> \in Seq(V)  OBVIOUS
<1>4. ValuesOK(V, {}, 0)
  <2>1. \A v \in V : v[1] \notin {"vec", "list", "map", "native", "cell", "clo"}
    BY <1>2 DEF Nil, Num, ErrorValue, Scalar
  <2>2. \A v \in V : ValueOK(v, V, {}, 0)  BY <2>1, PlainValue
  <2> QED BY <1>3, <2>2 DEF ValuesOK
<1> HIDE DEF V
<1>5. Len(code) \in 1..Len(code)
  <2>1. code \in Seq(ToSet(code)) /\ code # <<>>  BY <1>2 DEF WellFormed
  <2> QED BY <2>1
<1>6. IrFrame(f, V, code)  BY <1>2, <1>3, <1>5, Activated
<1>7. frames = <<f>> /\ ctl = Run /\ heap = <<>> /\ dyn = <<Num(0)>> /\ out = <<<<>>>>  BY DEF IrInit
<1> HIDE DEF f
<1>8. /\ StackOK(frames, V, code) /\ TopOf(frames) = f
      /\ Count(frames, "bind") = 0 /\ Count(frames, "capture") = 0
  BY <1>6, <1>7, OneFrame
<1>9. Control(ctl, frames, V)  BY <1>6, <1>7, <1>8 DEF Control, IrFrame
<1>10. ValuesOK(V, {}, Len(heap)) /\ HeapOK(heap, V, {}, code)
  <2>1. heap \in Seq({}) /\ Len(heap) = 0  BY <1>7
  <2>2. IsSeq(heap)  BY <2>1 DEF IsSeq
  <2>3. \A n \in (1..Len(heap)) \ {} : FALSE  BY <2>1
  <2> QED BY <1>4, <2>1, <2>2, <2>3 DEF HeapOK
<1>11. dyn \in Seq(V) /\ dyn # <<>> /\ Len(dyn) = 1  BY <1>3, <1>7
<1>12. Consistent(V, {}, code, frames, ctl, heap, dyn)
  BY <1>8, <1>9, <1>10, <1>11 DEF Consistent
<1>13. IsSeq(out) /\ Len(out) = 1
  <2>1. out \in Seq({<<>>}) /\ Len(out) = 1  BY <1>7
  <2> QED BY <2>1 DEF IsSeq
<1>14. GuardsHold(frames, dyn, out)
  <2>1. 1 = 1 + 0  OBVIOUS
  <2> QED BY <1>8, <1>11, <1>13, <2>1 DEF GuardsHold
<1> QED BY <1>2, <1>12, <1>14 DEF IndInv, IrSound

\* Every step keeps the invariant.
LEMMA StepInv == IndInv /\ [IrNext]_irVars => IndInv'
<1> SUFFICES ASSUME IndInv, [IrNext]_irVars PROVE IndInv'  OBVIOUS
<1>1. PICK V, C : Consistent(V, C, code, frames, ctl, heap, dyn)  BY DEF IndInv, IrSound
<1>2. WellFormed(code) /\ Holds(V, C)  BY <1>1 DEF IndInv, IrSound, Holds
<1>3. CASE UNCHANGED irVars  BY <1>3 DEF irVars, IndInv
<1>4. CASE IrNext
  <2>1. code' = code
    BY <1>4 DEF IrNext, Phi, Const, LoadGlobal, LoadVar, AllocCollection, AllocClosure, DefVar,
       Deref, SetBang, Throw, CallKnown, Call, Jump, Branch, Return, Leave, EnterTry,
       CatchThrown, RunFinally, EndFinally, EnterBinding, EndBinding, EnterCapture,
       EndCapture, Done, irVars
  <2>2. IrSound(code, frames', ctl', heap', dyn', out')
    <3>1. CASE Phi  BY <1>2, <3>1, PhiStep
    <3>2. CASE Const  BY <1>2, <3>2, ConstStep
    <3>3. CASE LoadGlobal  BY <1>2, <3>3, LoadGlobalStep
    <3>4. CASE LoadVar  BY <1>2, <3>4, LoadVarStep
    <3>5. CASE AllocCollection  BY <1>2, <3>5, AllocCollectionStep
    <3>6. CASE AllocClosure  BY <1>2, <3>6, AllocClosureStep
    <3>7. CASE DefVar  BY <1>2, <3>7, DefVarStep
    <3>8. CASE Deref  BY <1>2, <3>8, DerefStep
    <3>9. CASE SetBang  BY <1>2, <3>9, SetBangStep
    <3>10. CASE Throw  BY <1>2, <3>10, ThrowStep
    <3>11. CASE CallKnown  BY <1>2, <3>11, CallKnownStep
    <3>12. CASE Call  BY <1>2, <3>12, CallStep
    <3>13. CASE Jump  BY <1>2, <3>13, JumpStep
    <3>14. CASE Branch  BY <1>2, <3>14, BranchStep
    <3>15. CASE Return  BY <1>2, <3>15, ReturnStep
    <3>16. CASE Leave  BY <1>2, <3>16, LeaveStep
    <3>17. CASE EnterTry  BY <1>2, <3>17, EnterTryStep
    <3>18. CASE CatchThrown  BY <1>2, <3>18, CatchThrownStep
    <3>19. CASE RunFinally  BY <1>2, <3>19, RunFinallyStep
    <3>20. CASE EndFinally  BY <1>2, <3>20, EndFinallyStep
    <3>21. CASE EnterBinding  BY <1>2, <3>21, EnterBindingStep
    <3>22. CASE EndBinding  BY <1>2, <3>22, EndBindingStep
    <3>23. CASE EnterCapture  BY <1>2, <3>23, EnterCaptureStep
    <3>24. CASE EndCapture  BY <1>2, <3>24, EndCaptureStep
    <3>25. CASE Done
      <4>1. UNCHANGED <<frames, ctl, heap, dyn, out>>  BY <3>25 DEF Done, irVars
      <4> QED BY <4>1 DEF IndInv
    <3> QED BY <1>4, <3>1, <3>2, <3>3, <3>4, <3>5, <3>6, <3>7, <3>8, <3>9, <3>10, <3>11,
               <3>12, <3>13, <3>14, <3>15, <3>16, <3>17, <3>18, <3>19, <3>20, <3>21,
               <3>22, <3>23, <3>24, <3>25 DEF IrNext
  <2> QED BY <1>2, <2>1, <2>2 DEF IndInv
<1> QED BY <1>3, <1>4 DEF irVars

-----------------------------------------------------------------------------
(* In every state of every run of well-formed code, each value that names a
   closure or a cell finds one in the heap, each frame is in a block of an
   existing function that it reached along an edge, with every register of the
   function holding a value, each caller stands at the call it waits for, and
   there is one binding and one capture per guard on the stack.               *)
THEOREM RunsAreSound == IrSpec => []IndInv
<1>1. IrInit => IndInv  BY InitInv
<1>2. IndInv /\ [IrNext]_irVars => IndInv'  BY StepInv
<1> QED BY <1>1, <1>2, PTL DEF IrSpec

\* The top frame of a sound state that runs.
LEMMA RunningTop ==
    ASSUME IndInv, Running
    PROVE  \E V : /\ IrFrame(Top, V, code) /\ GoodFn(code, code[Top.fn])
                  /\ GoodBlock(code, code[Top.fn], Top.blk) /\ Block = BlockOf(Top, code)
                  /\ Len(Block.phis) \in Int /\ Len(Block.insts) \in Int
<1>1. PICK V, C : Consistent(V, C, code, frames, ctl, heap, dyn)  BY DEF IndInv, IrSound
<1>2. WellFormed(code)  BY DEF IndInv
<1>3. Top = TopOf(frames) /\ Top.kind = "ir" /\ Block = BlockOf(Top, code)
  BY DEF Running, Top, TopOf, Block, BlockOf
<1>4. IrFrame(Top, V, code)  BY <1>1, <1>3, TopFrame DEF Consistent
<1>5. /\ GoodFn(code, code[Top.fn]) /\ GoodBlock(code, code[Top.fn], Top.blk)
      /\ Len(Block.phis) \in Int /\ Len(Block.insts) \in Int
  BY <1>2, <1>3, <1>4, InGoodBlock
<1> QED BY <1>3, <1>4, <1>5

\* The phis of the block being run have one entry for the edge it was entered by.
LEMMA EdgesHeld == IndInv => PhisHaveEdges
<1> SUFFICES ASSUME IndInv, Running
             PROVE  /\ \A k \in 1..Len(Block.phis) :
                         Cardinality({j \in 1..Len(Block.phis[k].from) :
                                        Block.phis[k].from[j][1] = Top.prev}) = 1
                    /\ Block.term # <<"unreachable">> \/ ~AtEnd
  BY DEF PhisHaveEdges
<1>1. PICK V : /\ IrFrame(Top, V, code) /\ GoodFn(code, code[Top.fn])
               /\ GoodBlock(code, code[Top.fn], Top.blk) /\ Block = BlockOf(Top, code)
               /\ Len(Block.phis) \in Int /\ Len(Block.insts) \in Int
  BY RunningTop
<1> DEFINE f == code[Top.fn]
<1>2. Block = f.blocks[Top.blk]  BY DEF Block
<1>3. Entered(f, Top.prev, Top.blk) /\ Reached(Block, Top.at)  BY <1>1 DEF IrFrame
<1>4. \A k \in 1..Len(Block.phis) :
        Cardinality({j \in 1..Len(Block.phis[k].from) : Block.phis[k].from[j][1] = Top.prev}) = 1
  <2>1. CASE Top.blk = 0 /\ Top.prev = -1
    <3>1. Block.phis = <<>>  BY <1>1, <1>2, <2>1 DEF GoodFn
    <3>2. \A k \in 1..Len(Block.phis) : FALSE  BY <3>1
    <3> QED BY <3>2
  <2>2. CASE Top.prev \in DOMAIN f.blocks /\ Top.blk \in Successors(f.blocks[Top.prev].term)
    <3>1. GoodBlock(code, f, Top.prev)  BY <1>1, <2>2 DEF GoodFn
    <3> QED BY <3>1, <1>2, <2>2 DEF GoodBlock
  <2> QED BY <1>3, <2>1, <2>2 DEF Entered
<1>5. ASSUME Block.term = <<"unreachable">>, AtEnd PROVE FALSE
  <2>1. PICK j \in 1..Len(Block.insts) : Block.insts[j][1] = "throw"
    BY <1>1, <1>2, <1>5 DEF GoodBlock
  <2>2. Top.at < Len(Block.phis) + j  BY <1>3, <2>1 DEF Reached
  <2>3. Top.at = Len(Block.phis) + Len(Block.insts)  BY <1>5 DEF AtEnd
  <2>4. \A m, n \in Int : \A i \in 1..n : ~(m + n < m + i)  OBVIOUS
  <2> QED BY <1>1, <2>2, <2>3, <2>4
<1> QED BY <1>4, <1>5

(* PhisHaveEdges for any programs whose code is well formed: whichever
   closures, cells, thunks and loops a call goes through, execute_block finds
   exactly one entry for the block just left in each phi it copies, and never
   reaches the dead end behind a throw.                                       *)
THEOREM PhisAlwaysHaveEdges == IrSpec => []PhisHaveEdges
BY RunsAreSound, EdgesHeld, PTL

\* A finished call has no guard left.
LEMMA NoGuardLeft == IndInv => NothingLeftBehind
<1> SUFFICES ASSUME IndInv, Len(frames) = 1 PROVE Len(dyn) = 1 /\ Len(out) = 1
  BY DEF NothingLeftBehind, Finished
<1>1. frames[1].kind = "ir"  BY DEF IndInv, IrSound, Consistent, StackOK
<1>2. \A i \in 1..Len(frames) : i = 1  OBVIOUS
<1>3. ASSUME NEW k, k # "ir" PROVE Count(frames, k) = 0
  <2>1. {i \in 1..Len(frames) : frames[i].kind = k} = {}  BY <1>1, <1>2, <1>3
  <2> QED BY <2>1, FS_EmptySet DEF Count
<1>4. Count(frames, "bind") = 0 /\ Count(frames, "capture") = 0  BY <1>3
<1>5. Len(dyn) = 1 + 0 /\ Len(out) = 1 + 0  BY <1>4 DEF IndInv, IrSound, GuardsHold
<1> QED BY <1>5

(* NothingLeftBehind for any programs whose code is well formed: a return, a
   throw or an error that leaves try, with-bindings and with-out-str at any
   depth pops every dynamic binding and every capture on its way out.         *)
THEOREM GuardsUnwind == IrSpec => []NothingLeftBehind
BY RunsAreSound, NoGuardLeft, PTL
=============================================================================
