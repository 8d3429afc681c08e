--------------------------- MODULE GcHeapProofs ---------------------------
(***************************************************************************)
(* Proofs about GcHeap: for every set of boxes and tasks, every limit and    *)
(* every bound, nothing reachable is freed unless one of the two root        *)
(* defects happened first (NothingDangles), a loop releases only its own     *)
(* entries (LoopsReleaseTheirOwn) and backoff hides no pressure              *)
(* (PressureServed).                                                         *)
(*                                                                          *)
(* Reach and Mark are iterations bounded by the number of boxes.  That they  *)
(* are closed at that bound takes induction over the naturals, which is      *)
(* drawn from the least number of a set: a growing chain of subsets of Objs  *)
(* that is still growing at step n has at least n elements.                  *)
(***************************************************************************)
EXTENDS GcHeap, FiniteSetTheorems, SequenceTheorems, TLAPS

-----------------------------------------------------------------------------
(* Iteration *)

\* A set of numbers has a least one.
LEMMA LeastNumber ==
    ASSUME NEW T \in SUBSET Nat, T # {}
    PROVE  \E x \in T : \A y \in T : x <= y
<1> DEFINE less == OpToRel(<, Nat)
<1>1. IsWellFoundedOn(less, Nat)  BY NatLessThanWellFounded
<1>2. \A x, y \in Nat : <<x, y>> \in less <=> x < y  BY DEF OpToRel
<1> HIDE DEF less
<1>3. PICK x \in T : \A y \in T : ~ (<<y, x>> \in less)  BY <1>1, WFMin
<1>4. \A y \in T : x \in Nat /\ y \in Nat /\ ~ (y < x)  BY <1>2, <1>3
<1>5. \A y \in T : x <= y  BY <1>4
<1> QED  BY <1>5

\* Induction, for a set of numbers instead of a predicate.
LEMMA AllNumbers ==
    ASSUME NEW T \in SUBSET Nat, 0 \in T, \A n \in T : n + 1 \in T
    PROVE  T = Nat
<1>1. SUFFICES ASSUME Nat \ T # {} PROVE FALSE  OBVIOUS
<1>2. PICK x \in Nat \ T : \A y \in Nat \ T : x <= y  BY <1>1, LeastNumber
<1>3. x # 0 /\ x - 1 \in Nat /\ (x - 1) + 1 = x /\ ~ (x <= x - 1)  OBVIOUS
<1>4. x - 1 \notin T  BY <1>3
<1> QED  BY <1>2, <1>3, <1>4

\* A function that adds to sets, and one applied again and again, as often as there are boxes.
Inflates(F, U) == F \in [SUBSET U -> SUBSET U] /\ \A X \in SUBSET U : X \subseteq F[X]
Applied(f, F, S, m) == f[0] = S /\ \A n \in 1..m : f[n] = F[f[n - 1]]
Iterates(f, F, S) == Applied(f, F, S, Cardinality(Objs))

\* A function can be applied any number of times.
LEMMA Repeats ==
    ASSUME NEW U, NEW F, Inflates(F, U), NEW S \in SUBSET U, NEW m \in Nat
    PROVE  \E f : f \in [0..m -> SUBSET U] /\ Applied(f, F, S, m)
<1>0. F \in [SUBSET U -> SUBSET U]  BY DEF Inflates
<1> DEFINE T == {k \in Nat : \E f \in [0..k -> SUBSET U] : f[0] = S /\ \A n \in 1..k : f[n] = F[f[n - 1]]}
<1>1. 0 \in T
  <2> DEFINE f == [n \in 0..0 |-> S]
  <2>1. f \in [0..0 -> SUBSET U] /\ f[0] = S /\ \A n \in 1..0 : f[n] = F[f[n - 1]]  OBVIOUS
  <2> HIDE DEF f
  <2> QED  BY <2>1
<1>2. ASSUME NEW k \in T PROVE k + 1 \in T
  <2>1. PICK f \in [0..k -> SUBSET U] : f[0] = S /\ \A n \in 1..k : f[n] = F[f[n - 1]]  OBVIOUS
  <2> DEFINE g == [n \in 0..(k + 1) |-> IF n = k + 1 THEN F[f[k]] ELSE f[n]]
  <2>0. k \in Nat /\ k \in 0..k /\ 0 \in 0..k /\ 0 # k + 1 /\ k + 1 \in Nat  OBVIOUS
  <2>2. F[f[k]] \in SUBSET U  BY <1>0, <2>0, <2>1
  <2>3. \A n \in 0..(k + 1) : n # k + 1 => n \in 0..k  BY <2>0
  <2>4. g \in [0..(k + 1) -> SUBSET U]  BY <2>1, <2>2, <2>3
  <2>5. g[0] = S  BY <2>0, <2>1
  <2>6. ASSUME NEW n \in 1..(k + 1) PROVE g[n] = F[g[n - 1]]
    <3>1. n - 1 \in 0..k /\ n - 1 # k + 1 /\ n \in 0..(k + 1) /\ n - 1 \in 0..(k + 1)  BY <2>0
    <3>2. g[n - 1] = f[n - 1]  BY <3>1
    <3>3. CASE n = k + 1
      <4>1. n - 1 = k  BY <2>0, <3>3
      <4> QED  BY <3>1, <3>2, <3>3, <4>1
    <3>4. CASE n # k + 1
      <4>1. n \in 1..k  BY <2>0, <3>4
      <4> QED  BY <2>1, <3>1, <3>2, <3>4, <4>1
    <3> QED  BY <3>3, <3>4
  <2> HIDE DEF g
  <2> QED  BY <2>0, <2>4, <2>5, <2>6
<1>3. T \in SUBSET Nat  OBVIOUS
<1> HIDE DEF T
<1>4. T = Nat  BY <1>1, <1>2, <1>3, AllNumbers
<1>5. PICK f \in [0..m -> SUBSET U] : f[0] = S /\ \A n \in 1..m : f[n] = F[f[n - 1]]  BY <1>4 DEF T
<1> QED  BY <1>5 DEF Applied

\* There is such an iteration.
LEMMA IterationExists ==
    ASSUME NEW U, NEW F, Inflates(F, U), NEW S \in SUBSET U
    PROVE  \E f : f \in [0..Cardinality(Objs) -> SUBSET U] /\ Iterates(f, F, S)
<1>1. Cardinality(Objs) \in Nat  BY GcAssumption, FS_CardinalityType
<1> QED  BY <1>1, Repeats DEF Iterates

\* An inflationary function applied as often as there are boxes has reached its least
\* fixed point above the set it started from.
LEMMA Saturates ==
    ASSUME NEW U \in SUBSET Objs, NEW F, Inflates(F, U), NEW S \in SUBSET U, NEW g, Iterates(g, F, S)
    PROVE  LET L == g[Cardinality(Objs)] IN
           /\ L \in SUBSET U /\ S \subseteq L /\ F[L] = L
           /\ \A C : S \subseteq C /\ (\A X \in SUBSET U : X \subseteq C => F[X] \subseteq C) => L \subseteq C
<1> DEFINE N == Cardinality(Objs)
<1>f. F \in [SUBSET U -> SUBSET U] /\ \A X \in SUBSET U : X \subseteq F[X]  BY DEF Inflates
<1>g. g[0] = S /\ \A n \in 1..N : g[n] = F[g[n - 1]]  BY DEF Iterates, Applied
<1>0. IsFiniteSet(Objs) /\ N \in Nat  BY GcAssumption, FS_CardinalityType
<1>1. \A X \in SUBSET U : IsFiniteSet(X) /\ Cardinality(X) \in Nat /\ Cardinality(X) <= N
  BY <1>0, FS_Subset, FS_CardinalityType
<1> HIDE DEF N
<1> DEFINE T == {n \in Nat : n <= N => /\ g[n] \in SUBSET U /\ S \subseteq g[n]
                                       /\ F[g[n]] = g[n] \/ Cardinality(g[n]) >= n}
<1>2. 0 \in T  BY <1>0, <1>1, <1>g
<1>3. ASSUME NEW n \in T PROVE n + 1 \in T
  <2>1. SUFFICES ASSUME n + 1 <= N
                 PROVE  /\ g[n + 1] \in SUBSET U /\ S \subseteq g[n + 1]
                        /\ F[g[n + 1]] = g[n + 1] \/ Cardinality(g[n + 1]) >= n + 1
    OBVIOUS
  <2>2. /\ n \in Nat /\ g[n] \in SUBSET U /\ S \subseteq g[n] /\ (F[g[n]] = g[n] \/ Cardinality(g[n]) >= n)
    BY <1>0, <2>1
  <2>3. n + 1 \in 1..N /\ (n + 1) - 1 = n  BY <1>0, <2>1, <2>2
  <2>4. g[n + 1] = F[g[n]]  BY <1>g, <2>3
  <2>5. g[n + 1] \in SUBSET U /\ g[n] \subseteq g[n + 1]  BY <1>f, <2>2, <2>4
  <2>6. CASE F[g[n]] = g[n]  BY <2>2, <2>4, <2>6
  <2>7. CASE F[g[n]] # g[n]
    <3>1. Cardinality(g[n]) \in Nat /\ Cardinality(g[n + 1]) \in Nat /\ IsFiniteSet(g[n + 1])  BY <1>1, <2>2, <2>5
    <3>2. Cardinality(g[n]) <= Cardinality(g[n + 1]) /\ Cardinality(g[n]) # Cardinality(g[n + 1])
      BY <2>4, <2>5, <2>7, <3>1, FS_Subset
    <3>3. Cardinality(g[n]) >= n  BY <2>2, <2>7
    <3>4. Cardinality(g[n + 1]) >= n + 1  BY <2>2, <3>1, <3>2, <3>3
    <3> QED  BY <2>2, <2>5, <3>4
  <2> QED  BY <2>6, <2>7
<1>4. T = Nat
  <2>1. T \in SUBSET Nat  OBVIOUS
  <2> HIDE DEF T
  <2> QED  BY <1>2, <1>3, <2>1, AllNumbers
<1>5. /\ g[N] \in SUBSET U /\ S \subseteq g[N] /\ (F[g[N]] = g[N] \/ Cardinality(g[N]) >= N)
  BY <1>0, <1>4
<1>6. F[g[N]] = g[N]
  <2>1. CASE Cardinality(g[N]) >= N
    <3>1. Cardinality(g[N]) = N  BY <1>0, <1>1, <1>5, <2>1
    <3>2. g[N] = Objs  BY <1>0, <1>5, <3>1, FS_Subset DEF N
    <3>3. F[g[N]] \in SUBSET U /\ g[N] \subseteq F[g[N]]  BY <1>5, <1>f
    <3> QED  BY <1>5, <3>2, <3>3
  <2> QED  BY <1>5, <2>1
<1>7. ASSUME NEW C, S \subseteq C, \A X \in SUBSET U : X \subseteq C => F[X] \subseteq C PROVE g[N] \subseteq C
  <2> DEFINE V == {n \in Nat : n <= N => g[n] \subseteq C}
  <2>1. 0 \in V  BY <1>7, <1>g
  <2>2. ASSUME NEW n \in V PROVE n + 1 \in V
    <3>1. SUFFICES ASSUME n + 1 <= N PROVE g[n + 1] \subseteq C  OBVIOUS
    <3>2. n \in Nat /\ n <= N /\ n \in T  BY <1>0, <1>4, <3>1
    <3>3. g[n] \subseteq C /\ g[n] \in SUBSET U  BY <3>2
    <3>4. n + 1 \in 1..N /\ (n + 1) - 1 = n  BY <1>0, <3>1, <3>2
    <3>5. g[n + 1] = F[g[n]]  BY <1>g, <3>4
    <3> QED  BY <1>7, <3>3, <3>5
  <2>3. V \in SUBSET Nat  OBVIOUS
  <2> HIDE DEF V
  <2>4. V = Nat  BY <2>1, <2>2, <2>3, AllNumbers
  <2> QED  BY <1>0, <2>4 DEF V
<1> QED  BY <1>5, <1>6, <1>7 DEF N

-----------------------------------------------------------------------------
(* Reachability *)

\* Reach, for any graph.
StepIn(k, S) == S \cup UNION {k[o] : o \in S}
ReachIn(k, S) ==
    LET R[n \in 0..Cardinality(Objs)] == IF n = 0 THEN S ELSE StepIn(k, R[n - 1])
    IN  R[Cardinality(Objs)]

Graphs == [Objs -> SUBSET Objs]
Closed(k, C) == \A o \in C : k[o] \subseteq C

\* The boxes reached are the least closed set.
LEMMA ReachIs ==
    ASSUME NEW k \in Graphs, NEW S \in SUBSET Objs
    PROVE  /\ S \subseteq ReachIn(k, S) /\ ReachIn(k, S) \subseteq Objs /\ Closed(k, ReachIn(k, S))
           /\ \A C : S \subseteq C /\ Closed(k, C) => ReachIn(k, S) \subseteq C
<1> DEFINE N == Cardinality(Objs)
           F == [X \in SUBSET Objs |-> StepIn(k, X)]
           R == CHOOSE r : r = [n \in 0..N |-> IF n = 0 THEN S ELSE StepIn(k, r[n - 1])]
<1>0. N \in Nat  BY GcAssumption, FS_CardinalityType
<1>1. F \in [SUBSET Objs -> SUBSET Objs] /\ \A X \in SUBSET Objs : X \subseteq F[X] /\ F[X] = StepIn(k, X)
  BY DEF StepIn, Graphs
<1>f. Inflates(F, Objs)  BY <1>1 DEF Inflates
<1> HIDE DEF F, N
<1>2. R = [n \in 0..N |-> IF n = 0 THEN S ELSE StepIn(k, R[n - 1])]
  <2>0. PICK f : f \in [0..N -> SUBSET Objs] /\ Iterates(f, F, S)
    BY <1>f, IterationExists DEF N
  <2>1. f \in [0..N -> SUBSET Objs] /\ f[0] = S /\ \A n \in 1..N : f[n] = F[f[n - 1]]
    BY <2>0 DEF Iterates, Applied, N
  <2>2. ASSUME NEW n \in 0..N, n # 0 PROVE f[n] = StepIn(k, f[n - 1])
    <3>1. n \in 1..N /\ n - 1 \in 0..N  BY <1>0, <2>2
    <3> QED  BY <1>1, <2>1, <3>1
  <2>3. f = [n \in 0..N |-> f[n]]  BY <2>1
  <2>4. [n \in 0..N |-> f[n]] = [n \in 0..N |-> IF n = 0 THEN S ELSE StepIn(k, f[n - 1])]  BY <2>1, <2>2
  <2>5. \E r : r = [n \in 0..N |-> IF n = 0 THEN S ELSE StepIn(k, r[n - 1])]  BY <2>3, <2>4, Zenon
  <2> QED  BY <2>5, Zenon
<1>3. ReachIn(k, S) = R[N]  BY DEF ReachIn, N
<1> HIDE DEF R
<1>4. R[0] = S  BY <1>0, <1>2
<1>5. \A n \in 1..N : R[n] = StepIn(k, R[n - 1])
  <2>1. \A n \in 1..N : n \in 0..N /\ n # 0  BY <1>0
  <2> QED  BY <1>2, <2>1
<1> DEFINE T == {n \in Nat : n <= N => R[n] \in SUBSET Objs}
<1>6. T = Nat
  <2>1. 0 \in T  BY <1>4
  <2>2. ASSUME NEW n \in T PROVE n + 1 \in T
    <3>1. SUFFICES ASSUME n + 1 <= N PROVE R[n + 1] \in SUBSET Objs  OBVIOUS
    <3>2. n \in Nat /\ n <= N /\ n + 1 \in 1..N /\ (n + 1) - 1 = n  BY <1>0, <3>1
    <3>3. R[n + 1] = StepIn(k, R[n]) /\ R[n] \in SUBSET Objs  BY <1>5, <3>2
    <3> QED  BY <1>1, <3>3
  <2>3. T \in SUBSET Nat  OBVIOUS
  <2> HIDE DEF T
  <2> QED  BY <2>1, <2>2, <2>3, AllNumbers
<1>7. \A n \in 1..N : R[n] = F[R[n - 1]]
  <2>1. \A n \in 1..N : n - 1 \in Nat /\ n - 1 <= N  BY <1>0
  <2>2. \A n \in 1..N : R[n - 1] \in SUBSET Objs  BY <1>6, <2>1
  <2> QED  BY <1>1, <1>5, <2>2
<1>8. /\ R[N] \in SUBSET Objs /\ S \subseteq R[N] /\ F[R[N]] = R[N]
      /\ \A C : S \subseteq C /\ (\A X \in SUBSET Objs : X \subseteq C => F[X] \subseteq C) => R[N] \subseteq C
  <2>1. Iterates(R, F, S)  BY <1>4, <1>7 DEF Iterates, Applied, N
  <2>2. Objs \in SUBSET Objs  OBVIOUS
  <2> QED  BY <1>f, <2>1, <2>2, Saturates DEF N
<1>9. Closed(k, R[N])
  <2>1. StepIn(k, R[N]) = R[N]  BY <1>1, <1>8
  <2> QED  BY <2>1 DEF StepIn, Closed
<1>10. ASSUME NEW C, S \subseteq C, Closed(k, C) PROVE R[N] \subseteq C
  <2>1. \A X \in SUBSET Objs : X \subseteq C => F[X] \subseteq C  BY <1>1, <1>10 DEF StepIn, Closed
  <2> QED  BY <1>8, <1>10, <2>1
<1> QED  BY <1>3, <1>8, <1>9, <1>10

\* The collector's mark: all roots outside regions, and with the region boxes it is closed.
LEMMA MarkIs ==
    ASSUME kids \in Graphs, Roots \subseteq Objs, InRegions \subseteq Objs
    PROVE  /\ Mark \subseteq Objs /\ Roots \subseteq Mark \cup InRegions
           /\ Closed(kids, Mark \cup InRegions)
<1> DEFINE N == Cardinality(Objs)
           U == Objs \ InRegions
           S == (Roots \cup RegionChildren) \ InRegions
           F == [X \in SUBSET U |-> Step(X) \ InRegions]
           R == CHOOSE r : r = [n \in 0..N |-> IF n = 0 THEN S ELSE Step(r[n - 1]) \ InRegions]
<1>0. N \in Nat  BY GcAssumption, FS_CardinalityType
<1>1. F \in [SUBSET U -> SUBSET U] /\ \A X \in SUBSET U : X \subseteq F[X] /\ F[X] = Step(X) \ InRegions
  BY DEF Step, Graphs
<1>f. Inflates(F, U)  BY <1>1 DEF Inflates
<1>2. S \in SUBSET U /\ U \in SUBSET Objs  BY DEF RegionChildren, Graphs
<1> HIDE DEF F, N, S, U
<1>3. R = [n \in 0..N |-> IF n = 0 THEN S ELSE Step(R[n - 1]) \ InRegions]
  <2>0. PICK f : f \in [0..N -> SUBSET U] /\ Iterates(f, F, S)
    BY <1>2, <1>f, IterationExists DEF N
  <2>1. f \in [0..N -> SUBSET U] /\ f[0] = S /\ \A n \in 1..N : f[n] = F[f[n - 1]]
    BY <2>0 DEF Iterates, Applied, N
  <2>2. ASSUME NEW n \in 0..N, n # 0 PROVE f[n] = Step(f[n - 1]) \ InRegions
    <3>1. n \in 1..N /\ n - 1 \in 0..N  BY <1>0, <2>2
    <3> QED  BY <1>1, <2>1, <3>1
  <2>3. f = [n \in 0..N |-> f[n]]  BY <2>1
  <2>4. [n \in 0..N |-> f[n]] = [n \in 0..N |-> IF n = 0 THEN S ELSE Step(f[n - 1]) \ InRegions]  BY <2>1, <2>2
  <2>5. \E r : r = [n \in 0..N |-> IF n = 0 THEN S ELSE Step(r[n - 1]) \ InRegions]  BY <2>3, <2>4, Zenon
  <2> QED  BY <2>5, Zenon
<1>4. Mark = R[N]  BY DEF Mark, N, S
<1> HIDE DEF R
<1>5. R[0] = S  BY <1>0, <1>3
<1>6. \A n \in 1..N : R[n] = Step(R[n - 1]) \ InRegions
  <2>1. \A n \in 1..N : n \in 0..N /\ n # 0  BY <1>0
  <2> QED  BY <1>3, <2>1
<1> DEFINE T == {n \in Nat : n <= N => R[n] \in SUBSET U}
<1>7. T = Nat
  <2>1. 0 \in T  BY <1>2, <1>5
  <2>2. ASSUME NEW n \in T PROVE n + 1 \in T
    <3>1. SUFFICES ASSUME n + 1 <= N PROVE R[n + 1] \in SUBSET U  OBVIOUS
    <3>2. n \in Nat /\ n <= N /\ n + 1 \in 1..N /\ (n + 1) - 1 = n  BY <1>0, <3>1
    <3>3. R[n + 1] = Step(R[n]) \ InRegions /\ R[n] \in SUBSET U  BY <1>6, <3>2
    <3>4. F[R[n]] = Step(R[n]) \ InRegions /\ F[R[n]] \in SUBSET U  BY <1>1, <3>3
    <3> QED  BY <3>3, <3>4
  <2>3. T \in SUBSET Nat  OBVIOUS
  <2> HIDE DEF T
  <2> QED  BY <2>1, <2>2, <2>3, AllNumbers
<1>8. \A n \in 1..N : R[n] = F[R[n - 1]]
  <2>1. \A n \in 1..N : n - 1 \in Nat /\ n - 1 <= N  BY <1>0
  <2>2. \A n \in 1..N : R[n - 1] \in SUBSET U  BY <1>7, <2>1
  <2> QED  BY <1>1, <1>6, <2>2
<1>9. R[N] \in SUBSET U /\ S \subseteq R[N] /\ F[R[N]] = R[N]
  <2>1. Iterates(R, F, S)  BY <1>5, <1>8 DEF Iterates, Applied, N
  <2> QED  BY <1>2, <1>f, <2>1, Saturates DEF N
<1>10. Step(R[N]) \ InRegions = R[N]  BY <1>1, <1>9
<1>11. Closed(kids, R[N] \cup InRegions)
  <2>1. ASSUME NEW o \in R[N] PROVE kids[o] \subseteq R[N] \cup InRegions
    BY <1>10 DEF Step
  <2>2. ASSUME NEW o \in InRegions PROVE kids[o] \subseteq R[N] \cup InRegions
    <3>1. kids[o] \subseteq RegionChildren  BY DEF RegionChildren
    <3> QED  BY <1>9, <3>1 DEF S
  <2> QED  BY <2>1, <2>2 DEF Closed
<1>12. Roots \subseteq R[N] \cup InRegions  BY <1>9 DEF S
<1> QED  BY <1>2, <1>4, <1>9, <1>11, <1>12

-----------------------------------------------------------------------------
(* Types *)

Phases == {"none", "spawned", "running", "parked", "done"}
Marks == Nat \cup {-1}

GcTyped ==
    /\ kids \in Graphs /\ gone \subseteq Objs /\ cell \subseteq Objs /\ stack \subseteq Objs /\ retired \subseteq Objs
    /\ DOMAIN heap \subseteq Objs /\ regions \in Seq(SUBSET Objs) /\ watermark \in Nat
    /\ st \in [Actors -> Phases] /\ bound \in [Actors -> SUBSET Objs] /\ boxed \in [Actors -> SUBSET Objs]
    /\ cur \in Actors \cup {None} /\ allocRoots \in Seq(Objs) /\ mine \in [Actors -> SUBSET Objs]
    /\ frame \in Marks /\ loop \in [Actors -> [at : Marks, yielded : BOOLEAN]]
    /\ cur # None => st[cur] = "running"
    /\ st[Main] # "none" => frame \in Nat
    /\ cur = None => regions = <<>>
    /\ loop[Main].at = -1

\* A sequence with one more element.
LEMMA AppendIs ==
    ASSUME NEW S, NEW s \in Seq(S), NEW x \in S
    PROVE  /\ Append(s, x) \in Seq(S) /\ Append(s, x) # <<>>
           /\ DOMAIN Append(s, x) = DOMAIN s \cup {Len(s) + 1}
           /\ Append(s, x)[Len(s) + 1] = x /\ Len(s) \in Nat
           /\ \A i \in DOMAIN s : Append(s, x)[i] = s[i] /\ i \in 1..Len(s)
           /\ Range(Append(s, x)) = Range(s) \cup {x}
<1>1. Len(s) \in Nat /\ DOMAIN s = 1..Len(s)  OBVIOUS
<1>2. /\ Append(s, x) \in Seq(S) /\ Append(s, x) # <<>> /\ Len(Append(s, x)) = Len(s) + 1
      /\ \A i \in 1..Len(s) : Append(s, x)[i] = s[i]
      /\ Append(s, x)[Len(s) + 1] = x
  BY AppendProperties
<1>3. DOMAIN Append(s, x) = 1..(Len(s) + 1)  BY <1>2
<1>4. 1..(Len(s) + 1) = (1..Len(s)) \cup {Len(s) + 1}  BY <1>1
<1>5. Range(Append(s, x)) = Range(s) \cup {x}  BY <1>1, <1>2, <1>3, <1>4 DEF Range
<1> QED  BY <1>1, <1>2, <1>3, <1>4, <1>5

\* Its last element taken off.
LEMMA FrontIs ==
    ASSUME NEW S, NEW s \in Seq(S), s # <<>>
    PROVE  /\ Front(s) \in Seq(S) /\ Len(s) \in Nat \ {0} /\ Len(Front(s)) = Len(s) - 1
           /\ \A i \in 1..(Len(s) - 1) : Front(s)[i] = s[i]
           /\ DOMAIN Front(s) = 1..(Len(s) - 1) /\ DOMAIN s = (1..(Len(s) - 1)) \cup {Len(s)}
           /\ Range(s) = Range(Front(s)) \cup {s[Len(s)]}
<1>1. Len(s) \in Nat /\ Len(s) # 0 /\ DOMAIN s = 1..Len(s)  OBVIOUS
<1>2. Front(s) = SubSeq(s, 1, Len(s) - 1)  BY DEF Front
<1>3. 1 \in 1..(Len(s) + 1) /\ Len(s) - 1 \in (1 - 1)..Len(s) /\ (Len(s) - 1) - 1 + 1 = Len(s) - 1  BY <1>1
<1>4. /\ SubSeq(s, 1, Len(s) - 1) \in Seq(S)
      /\ Len(SubSeq(s, 1, Len(s) - 1)) = (Len(s) - 1) - 1 + 1
      /\ \A i \in 1..((Len(s) - 1) - 1 + 1) : SubSeq(s, 1, Len(s) - 1)[i] = s[1 + i - 1]
  BY <1>3, SubSeqProperties
<1>5. Front(s) \in Seq(S) /\ Len(Front(s)) = Len(s) - 1  BY <1>2, <1>3, <1>4
<1>6. \A i \in 1..(Len(s) - 1) : Front(s)[i] = s[i]
  <2>1. \A i \in 1..(Len(s) - 1) : 1 + i - 1 = i  BY <1>1
  <2> QED  BY <1>2, <1>3, <1>4, <2>1
<1>7. DOMAIN Front(s) = 1..(Len(s) - 1)  BY <1>5
<1>8. 1..Len(s) = (1..(Len(s) - 1)) \cup {Len(s)}  BY <1>1
<1>9. Range(s) = Range(Front(s)) \cup {s[Len(s)]}  BY <1>1, <1>6, <1>7, <1>8 DEF Range
<1> QED  BY <1>1, <1>5, <1>6, <1>7, <1>8, <1>9

\* ALLOC_ROOTS truncated.
LEMMA TruncateIs ==
    ASSUME allocRoots \in Seq(Objs), NEW n \in Nat
    PROVE  /\ Truncate(n) \in Seq(Objs) /\ Range(Truncate(n)) \subseteq Objs
           /\ \A k \in DOMAIN allocRoots : k <= n => allocRoots[k] \in Range(Truncate(n))
<1> DEFINE s == allocRoots
<1>1. Len(s) \in Nat /\ DOMAIN s = 1..Len(s) /\ \A k \in 1..Len(s) : s[k] \in Objs  OBVIOUS
<1>2. CASE n < Len(s)
  <2>1. Truncate(n) = SubSeq(s, 1, n)  BY <1>2 DEF Truncate
  <2>2. 1 \in 1..(Len(s) + 1) /\ n \in (1 - 1)..Len(s) /\ n - 1 + 1 = n  BY <1>1, <1>2
  <2>3. /\ SubSeq(s, 1, n) \in Seq(Objs) /\ Len(SubSeq(s, 1, n)) = n - 1 + 1
        /\ \A i \in 1..(n - 1 + 1) : SubSeq(s, 1, n)[i] = s[1 + i - 1]
    BY <2>2, SubSeqProperties
  <2>4. DOMAIN SubSeq(s, 1, n) = 1..n  BY <2>2, <2>3
  <2>5. \A i \in 1..n : SubSeq(s, 1, n)[i] = s[i] /\ i \in 1..Len(s)
    <3>1. \A i \in 1..n : 1 + i - 1 = i /\ i \in 1..Len(s)  BY <1>1, <1>2
    <3> QED  BY <2>2, <2>3, <3>1
  <2>6. \A k \in DOMAIN s : k <= n => k \in 1..n  BY <1>1
  <2> HIDE DEF s
  <2> QED  BY <1>1, <2>1, <2>3, <2>4, <2>5, <2>6 DEF Range, s
<1>3. CASE ~(n < Len(s))
  <2>1. Truncate(n) = s  BY <1>3 DEF Truncate
  <2> QED  BY <1>1, <2>1 DEF Range
<1> QED  BY <1>2, <1>3

\* The boxes of regions.
LEMMA RegionsTyped == GcTyped => InRegions \subseteq Objs /\ Used \subseteq Objs
<1> SUFFICES ASSUME GcTyped PROVE InRegions \subseteq Objs /\ Used \subseteq Objs  OBVIOUS
<1>1. \A i \in DOMAIN regions : regions[i] \in SUBSET Objs  BY DEF GcTyped
<1>2. UNION Range(regions) \subseteq Objs  BY <1>1 DEF Range
<1>3. InRegions \subseteq Objs  BY <1>2 DEF GcTyped, InRegions
<1> QED  BY <1>3 DEF GcTyped, Used

\* Nothing is allocated at the start.
LEMMA TypedInit == Init => GcTyped
<1> SUFFICES ASSUME Init PROVE GcTyped  OBVIOUS
<1>1. Main \in Actors /\ None \notin Actors  BY GcAssumption DEF Actors
<1>2. /\ kids \in Graphs /\ gone \subseteq Objs /\ cell \subseteq Objs /\ stack \subseteq Objs /\ retired \subseteq Objs
      /\ DOMAIN heap \subseteq Objs /\ regions \in Seq(SUBSET Objs) /\ watermark \in Nat /\ regions = <<>>
  BY DEF Init, Graphs
<1>3. /\ st \in [Actors -> Phases] /\ bound \in [Actors -> SUBSET Objs] /\ boxed \in [Actors -> SUBSET Objs]
      /\ cur = None /\ allocRoots \in Seq(Objs) /\ mine \in [Actors -> SUBSET Objs] /\ st[Main] = "none"
  BY <1>1 DEF Init, Phases
<1>4. frame \in Marks /\ loop \in [Actors -> [at : Marks, yielded : BOOLEAN]] /\ loop[Main].at = -1
  BY <1>1 DEF Init, NoLoop, Marks
<1> QED  BY <1>2, <1>3, <1>4 DEF GcTyped

\* A new box, on the heap.
LEMMA NewBoxTyped ==
    ASSUME GcTyped, NEW o \in Objs, NEW ks \in SUBSET Objs, NEW op, cur \in Actors, NewBox(cur, o, ks, op)
    PROVE  /\ kids' \in Graphs /\ DOMAIN heap' = DOMAIN heap \cup {o} /\ allocRoots' \in Seq(Objs)
           /\ allocRoots' = Append(allocRoots, o) /\ mine' \in [Actors -> SUBSET Objs]
           /\ kids' = [kids EXCEPT ![o] = ks] /\ mine' = [mine EXCEPT ![cur] = @ \cup {o}]
<1>1. /\ kids' = [kids EXCEPT ![o] = ks] /\ allocRoots' = Append(allocRoots, o)
      /\ mine' = [mine EXCEPT ![cur] = @ \cup {o}] /\ DOMAIN heap' = DOMAIN heap \cup {o}
  BY DEF NewBox
<1>2. kids \in [Objs -> SUBSET Objs] /\ allocRoots \in Seq(Objs) /\ mine \in [Actors -> SUBSET Objs]
  BY DEF GcTyped, Graphs
<1>3. kids' \in Graphs  BY <1>1, <1>2 DEF Graphs
<1>4. allocRoots' \in Seq(Objs)  BY <1>1, <1>2, AppendIs
<1>5. mine' \in [Actors -> SUBSET Objs]  BY <1>1, <1>2
<1> QED  BY <1>1, <1>3, <1>4, <1>5

\* alloc and RegionAlloc.
LEMMA AllocTyped ==
    ASSUME GcTyped, NEW o \in Objs, NEW ks, NEW op, Alloc(o, ks, op) \/ RegionAlloc(o, ks, op)
    PROVE  GcTyped'
<1>0. /\ cur # None /\ cur \in Actors /\ ks \in SUBSET Objs /\ stack' = stack \cup {o}
      /\ UNCHANGED <<gone, retired, watermark, cell, st, bound, boxed, cur, envRoots, frame, loop>>
  BY DEF Alloc, RegionAlloc, GcTyped, regionVars, rootVars
<1>1. CASE Alloc(o, ks, op)
  <2>1. NewBox(cur, o, ks, op) /\ UNCHANGED regions  BY <1>1 DEF Alloc, regionVars
  <2>2. kids' \in Graphs /\ DOMAIN heap' = DOMAIN heap \cup {o} /\ allocRoots' \in Seq(Objs) /\ mine' \in [Actors -> SUBSET Objs]
    BY <1>0, <2>1, NewBoxTyped
  <2> QED  BY <1>0, <2>1, <2>2 DEF GcTyped
<1>2. CASE RegionAlloc(o, ks, op)
  <2>1. /\ regions # <<>> /\ regions' = [regions EXCEPT ![Len(regions)] = @ \cup {o}]
        /\ kids' = [kids EXCEPT ![o] = ks] /\ UNCHANGED <<heap, allocRoots, mine>>
    BY <1>2 DEF RegionAlloc, rootVars
  <2>2. kids' \in Graphs  BY <1>0, <2>1 DEF GcTyped, Graphs
  <2>3. regions' \in Seq(SUBSET Objs)
    <3>1. regions \in Seq(SUBSET Objs) /\ Len(regions) \in 1..Len(regions)  BY <2>1 DEF GcTyped
    <3>2. regions[Len(regions)] \cup {o} \in SUBSET Objs  BY <3>1
    <3> QED  BY <2>1, <3>1, <3>2
  <2> QED  BY <1>0, <2>1, <2>2, <2>3 DEF GcTyped
<1> QED  BY <1>1, <1>2

\* The publish barrier.
LEMMA PublishTyped == ASSUME GcTyped, NEW o \in Objs, Publish(o) PROVE GcTyped'
<1>1. /\ cur # None /\ cur \in Actors /\ PublishValue(o)
      /\ UNCHANGED <<regions, retired, st, bound, boxed, stack, cur, envRoots, frame, loop>>
  BY DEF Publish, GcTyped
<1>2. watermark' \in Nat
  <2>1. Len(regions) \in Nat /\ watermark \in Nat  BY DEF GcTyped
  <2> QED  BY <1>1, <2>1 DEF PublishValue, Poisoned
<1>3. CASE StoreAsIs(o)
  <2>1. cell' = {o} /\ UNCHANGED <<heap, kids, gone, allocRoots, mine>>  BY <1>3 DEF StoreAsIs, heapVars
  <2> QED  BY <1>1, <1>2, <2>1 DEF GcTyped
<1>4. CASE StoreCopy(o)
  <2>1. PICK c \in Fresh : NewBox(cur, c, {}, FALSE) /\ cell' = {c} /\ UNCHANGED gone  BY <1>4 DEF StoreCopy
  <2>2. c \in Objs /\ {} \in SUBSET Objs  BY <2>1 DEF Fresh
  <2>3. kids' \in Graphs /\ DOMAIN heap' = DOMAIN heap \cup {c} /\ allocRoots' \in Seq(Objs) /\ mine' \in [Actors -> SUBSET Objs]
    BY <1>1, <2>1, <2>2, NewBoxTyped
  <2> QED  BY <1>1, <1>2, <2>1, <2>2, <2>3 DEF GcTyped
<1> QED  BY <1>1, <1>3, <1>4 DEF PublishValue

\* Regions begin and end.
LEMMA RegionTyped == ASSUME GcTyped, RegionStart \/ RegionEnd PROVE GcTyped'
<1>0. regions \in Seq(SUBSET Objs) /\ watermark \in Nat  BY DEF GcTyped
<1>1. CASE RegionStart
  <2>1. /\ cur # None /\ regions' = Append(regions, {})
        /\ UNCHANGED <<heap, kids, gone, retired, watermark, cell, st, bound, boxed, stack, cur, allocRoots, mine, frame, loop>>
    BY <1>1 DEF RegionStart, heapVars, taskVars, rootVars
  <2>2. regions' \in Seq(SUBSET Objs)  BY <1>0, <2>1, AppendIs
  <2> QED  BY <2>1, <2>2 DEF GcTyped
<1>2. CASE RegionEnd
  <2> DEFINE boxes == regions[Len(regions)]
  <2>1. /\ cur # None /\ regions # <<>> /\ stack' \subseteq stack /\ regions' = Front(regions)
        /\ watermark' = IF Len(regions) <= watermark THEN Len(regions) - 1 ELSE watermark
        /\ retired' \in {retired, retired \cup boxes} /\ gone' \in {gone, gone \cup boxes}
        /\ UNCHANGED <<heap, kids, cell, st, bound, boxed, cur, allocRoots, mine, frame, loop>>
    BY <1>2 DEF RegionEnd, rootVars
  <2>2. Front(regions) \in Seq(SUBSET Objs) /\ Len(regions) \in Nat \ {0} /\ DOMAIN regions = (1..(Len(regions) - 1)) \cup {Len(regions)}
    BY <1>0, <2>1, FrontIs
  <2>3. boxes \in SUBSET Objs  BY <1>0, <2>2
  <2>4. watermark' \in Nat  BY <1>0, <2>1, <2>2
  <2> HIDE DEF boxes
  <2> QED  BY <2>1, <2>2, <2>3, <2>4 DEF GcTyped
<1> QED  BY <1>1, <1>2

\* What running code does with its values.
LEMMA CodeTyped ==
    ASSUME GcTyped, (\E o \in Objs : Bind(o) \/ Stash(o) \/ Load(o)) \/ PopFrame \/ Discard
    PROVE  GcTyped'
<1>t. bound \in [Actors -> SUBSET Objs] /\ boxed \in [Actors -> SUBSET Objs] /\ stack \subseteq Objs /\ cell \subseteq Objs
  BY DEF GcTyped
<1>b. bound' \in [Actors -> SUBSET Objs]  BY <1>t DEF Bind, Stash, Load, PopFrame, Discard
<1>x. boxed' \in [Actors -> SUBSET Objs]  BY <1>t DEF Bind, Stash, Load, PopFrame, Discard
<1>s. stack' \subseteq Objs  BY <1>t DEF Bind, Stash, Load, PopFrame, Discard
<1>1. bound' \in [Actors -> SUBSET Objs] /\ boxed' \in [Actors -> SUBSET Objs] /\ stack' \subseteq Objs
  BY <1>b, <1>x, <1>s
<1>2. UNCHANGED <<heap, kids, gone, regions, retired, watermark, cell, st, cur, allocRoots, mine, frame, loop>>
  BY DEF Bind, Stash, Load, PopFrame, Discard, heapVars, regionVars, rootVars
<1> QED  BY <1>1, <1>2 DEF GcTyped

\* Tasks and forms begin, wait, resume and end.
LEMMA TaskTyped ==
    ASSUME GcTyped, \/ \E t \in Tasks, args \in SUBSET stack : Spawn(t, args)
                    \/ \E t \in Actors : FirstPoll(t) \/ Resume(t)
                    \/ Await \/ Finish \/ BeginForm \/ EndForm
    PROVE  GcTyped'
<1>0. Main \in Actors /\ Tasks \subseteq Actors /\ Main \notin Tasks /\ None \notin Actors  BY GcAssumption DEF Actors
<1>t. /\ st \in [Actors -> Phases] /\ bound \in [Actors -> SUBSET Objs] /\ boxed \in [Actors -> SUBSET Objs]
      /\ cur \in Actors \cup {None} /\ stack \subseteq Objs
  BY DEF GcTyped
<1>1. ASSUME NEW t \in Tasks, NEW args \in SUBSET stack, Spawn(t, args) PROVE GcTyped'
  <2>1. /\ cur # None /\ st[t] = "none" /\ st' = [st EXCEPT ![t] = "spawned"] /\ boxed' = [boxed EXCEPT ![t] = args]
        /\ watermark' = Poisoned
        /\ UNCHANGED <<heap, kids, gone, regions, retired, cell, bound, stack, cur, allocRoots, mine, frame, loop>>
    BY <1>1 DEF Spawn, heapVars, rootVars
  <2>2. st[cur] = "running" /\ cur # t  BY <2>1 DEF GcTyped
  <2>3. st' \in [Actors -> Phases] /\ boxed' \in [Actors -> SUBSET Objs] /\ st'[cur] = "running" /\ st'[Main] = st[Main]
    BY <1>0, <1>t, <2>1, <2>2 DEF Phases
  <2>4. watermark' \in Nat
    <3>1. Len(regions) \in Nat /\ watermark \in Nat  BY DEF GcTyped
    <3> QED  BY <2>1, <3>1 DEF Poisoned
  <2> QED  BY <2>1, <2>3, <2>4 DEF GcTyped
<1>2. ASSUME NEW t \in Actors, FirstPoll(t) PROVE GcTyped'
  <2>1. /\ t \in Tasks /\ cur = None /\ cur' = t /\ st' = [st EXCEPT ![t] = "running"]
        /\ bound' = [bound EXCEPT ![t] = boxed[t]] /\ boxed' = [boxed EXCEPT ![t] = {}]
        /\ UNCHANGED <<heap, kids, gone, regions, retired, watermark, cell, stack, allocRoots, mine, frame, loop>>
    BY <1>2 DEF FirstPoll, heapVars, regionVars
  <2>2. st' \in [Actors -> Phases] /\ st'[t] = "running" /\ st'[Main] = st[Main]  BY <1>0, <1>t, <2>1 DEF Phases
  <2>3. bound' \in [Actors -> SUBSET Objs] /\ boxed' \in [Actors -> SUBSET Objs]  BY <1>t, <2>1
  <2> QED  BY <1>0, <2>1, <2>2, <2>3 DEF GcTyped
<1>3. ASSUME NEW t \in Actors, Resume(t) PROVE GcTyped'
  <2>1. /\ cur = None /\ cur' = t /\ st[t] = "parked" /\ st' = [st EXCEPT ![t] = "running"]
        /\ UNCHANGED <<heap, kids, gone, regions, retired, watermark, cell, bound, boxed, stack, allocRoots, mine, frame, loop>>
    BY <1>3 DEF Resume, heapVars, regionVars, rootVars
  <2>2. st' \in [Actors -> Phases] /\ st'[t] = "running" /\ (st'[Main] # "none" => st[Main] # "none")
    BY <1>0, <1>t, <2>1 DEF Phases
  <2> QED  BY <1>0, <2>1, <2>2 DEF GcTyped
<1>4. CASE Await
  <2>1. /\ cur # None /\ cur' = None /\ regions = <<>> /\ st' = [st EXCEPT ![cur] = "parked"] /\ stack' = {}
        /\ loop' = [loop EXCEPT ![cur].yielded = (loop[cur].at # -1)]
        /\ UNCHANGED <<heap, kids, gone, regions, retired, watermark, cell, bound, boxed, allocRoots, mine, frame>>
    BY <1>4 DEF Await, heapVars, regionVars
  <2>2. st' \in [Actors -> Phases] /\ (st'[Main] # "none" => st[Main] # "none")
    <3>1. st[cur] = "running"  BY <2>1 DEF GcTyped
    <3> QED  BY <1>0, <1>t, <2>1, <3>1 DEF Phases
  <2>3. loop' \in [Actors -> [at : Marks, yielded : BOOLEAN]] /\ loop'[Main].at = -1
    <3>1. loop \in [Actors -> [at : Marks, yielded : BOOLEAN]] /\ loop[Main].at = -1  BY DEF GcTyped
    <3> DEFINE b == loop[cur].at # -1
    <3>2. b \in BOOLEAN  OBVIOUS
    <3> HIDE DEF b
    <3>3. loop' = [loop EXCEPT ![cur] = [loop[cur] EXCEPT !.yielded = b]]  BY <2>1 DEF b
    <3>4. [loop[cur] EXCEPT !.yielded = b] \in [at : Marks, yielded : BOOLEAN] /\ [loop[cur] EXCEPT !.yielded = b].at = loop[cur].at
      BY <1>t, <2>1, <3>1, <3>2
    <3> QED  BY <1>0, <1>t, <2>1, <3>1, <3>3, <3>4
  <2> QED  BY <2>1, <2>2, <2>3 DEF GcTyped
<1>5. CASE Finish
  <2>1. /\ cur \in Tasks /\ cur' = None /\ regions = <<>> /\ st' = [st EXCEPT ![cur] = "done"] /\ stack' = {}
        /\ bound' = [bound EXCEPT ![cur] = {}] /\ boxed' = [boxed EXCEPT ![cur] = {}] /\ mine' = [mine EXCEPT ![cur] = {}]
        /\ UNCHANGED <<heap, kids, gone, regions, retired, watermark, cell, allocRoots, frame, loop>>
    BY <1>5 DEF Finish, heapVars, regionVars
  <2>2. st' \in [Actors -> Phases] /\ st'[Main] = st[Main]  BY <1>0, <1>t, <2>1 DEF Phases
  <2>3. bound' \in [Actors -> SUBSET Objs] /\ boxed' \in [Actors -> SUBSET Objs]  BY <1>t, <2>1
  <2>4. mine' \in [Actors -> SUBSET Objs]  BY <2>1 DEF GcTyped
  <2> QED  BY <2>1, <2>2, <2>3, <2>4 DEF GcTyped
<1>6. CASE BeginForm
  <2>1. /\ cur = None /\ cur' = Main /\ frame' = Len(allocRoots) /\ st' = [st EXCEPT ![Main] = "running"]
        /\ UNCHANGED <<heap, kids, gone, regions, retired, watermark, cell, bound, boxed, stack, allocRoots, mine, loop>>
    BY <1>6 DEF BeginForm, heapVars, regionVars
  <2>2. st' \in [Actors -> Phases] /\ st'[Main] = "running"  BY <1>0, <1>t, <2>1 DEF Phases
  <2>3. frame' \in Nat /\ frame' \in Marks  BY <2>1 DEF GcTyped, Marks
  <2> QED  BY <1>0, <2>1, <2>2, <2>3 DEF GcTyped
<1>7. CASE EndForm
  <2>1. /\ cur = Main /\ cur' = None /\ regions = <<>> /\ frame' = -1 /\ st' = [st EXCEPT ![Main] = "none"] /\ stack' = {}
        /\ allocRoots' = Truncate(frame) /\ mine' = [t \in Actors |-> mine[t] \cap Range(allocRoots')]
        /\ UNCHANGED <<heap, kids, gone, regions, retired, watermark, cell, bound, boxed, loop>>
    BY <1>7 DEF EndForm, heapVars, regionVars
  <2>2. st' \in [Actors -> Phases] /\ st'[Main] = "none"  BY <1>0, <1>t, <2>1 DEF Phases
  <2>3. frame \in Nat  BY <1>0, <2>1 DEF GcTyped
  <2>4. allocRoots' \in Seq(Objs)  BY <2>1, <2>3, TruncateIs DEF GcTyped
  <2>5. mine' \in [Actors -> SUBSET Objs]  BY <2>1 DEF GcTyped
  <2>6. -1 \in Marks  BY DEF Marks
  <2> QED  BY <2>1, <2>2, <2>4, <2>5, <2>6 DEF GcTyped
<1> QED  BY <1>1, <1>2, <1>3, <1>4, <1>5, <1>6, <1>7

\* Loops.
LEMMA LoopTyped == ASSUME GcTyped, LoopStart \/ LoopEnd PROVE GcTyped'
<1>0. /\ Tasks \subseteq Actors /\ Main \notin Tasks /\ cur \in Tasks /\ Main \in Actors
      /\ loop \in [Actors -> [at : Marks, yielded : BOOLEAN]] /\ loop[Main].at = -1
      /\ allocRoots \in Seq(Objs) /\ mine \in [Actors -> SUBSET Objs]
  BY GcAssumption DEF Actors, GcTyped, LoopStart, LoopEnd
<1>u. /\ UNCHANGED <<heap, kids, gone, regions, retired, watermark, cell, st, bound, boxed, stack, cur, frame>>
  BY DEF LoopStart, LoopEnd, heapVars, regionVars, taskVars
<1>1. CASE LoopStart
  <2>1. /\ loop' = [loop EXCEPT ![cur] = [at |-> Len(allocRoots), yielded |-> FALSE]] /\ UNCHANGED <<allocRoots, mine>>
    BY <1>1 DEF LoopStart
  <2>2. [at |-> Len(allocRoots), yielded |-> FALSE] \in [at : Marks, yielded : BOOLEAN]  BY <1>0 DEF Marks
  <2>3. loop' \in [Actors -> [at : Marks, yielded : BOOLEAN]] /\ loop'[Main].at = -1  BY <1>0, <2>1, <2>2
  <2> QED  BY <1>u, <2>1, <2>3 DEF GcTyped
<1>2. CASE LoopEnd
  <2>1. /\ allocRoots' = BackEdge(loop[cur]) /\ loop' = [loop EXCEPT ![cur] = NoLoop] /\ loop[cur].at # -1
        /\ mine' = [mine EXCEPT ![cur] = @ \cap Range(allocRoots')]
    BY <1>2 DEF LoopEnd
  <2>2. NoLoop \in [at : Marks, yielded : BOOLEAN]  BY DEF NoLoop, Marks
  <2>3. loop' \in [Actors -> [at : Marks, yielded : BOOLEAN]] /\ loop'[Main].at = -1  BY <1>0, <2>1, <2>2
  <2>4. loop[cur].at \in Nat  BY <1>0, <2>1 DEF Marks
  <2>5. allocRoots' \in Seq(Objs)  BY <1>0, <2>1, <2>4, TruncateIs DEF BackEdge
  <2>6. mine' \in [Actors -> SUBSET Objs]  BY <1>0, <2>1
  <2> QED  BY <1>u, <2>3, <2>5, <2>6 DEF GcTyped
<1> QED  BY <1>1, <1>2

\* A collection.
LEMMA CollectTyped == ASSUME GcTyped, CollectInner PROVE GcTyped'
<1> DEFINE dead == Swept(Mark)
<1>1. /\ DOMAIN heap' = DOMAIN heap \ dead /\ gone' = gone \cup dead
      /\ UNCHANGED <<kids, regions, retired, watermark, cell, st, bound, boxed, stack, cur, allocRoots, mine, frame, loop>>
  BY DEF CollectInner, regionVars, taskVars, rootVars
<1>2. dead \subseteq DOMAIN heap  BY DEF Swept
<1> HIDE DEF dead
<1> QED  BY <1>1, <1>2 DEF GcTyped

\* Every step.
LEMMA TypedStep == GcTyped /\ [Next]_vars => GcTyped'
<1> SUFFICES ASSUME GcTyped, [Next]_vars PROVE GcTyped'  OBVIOUS
<1>0. CASE UNCHANGED vars  BY <1>0 DEF vars, heapVars, regionVars, taskVars, rootVars, GcTyped
<1>1. CASE \E o \in Objs, op \in BOOLEAN : \E ks \in SUBSET stack : Alloc(o, ks, op) \/ RegionAlloc(o, ks, op)
  BY <1>1, AllocTyped
<1>2. CASE \E o \in Objs : Publish(o)  BY <1>2, PublishTyped
<1>3. CASE Safepoint \/ ForceCollect  BY <1>3, CollectTyped DEF Safepoint, ForceCollect
<1> QED  BY <1>0, <1>1, <1>2, <1>3, RegionTyped, CodeTyped, TaskTyped, LoopTyped DEF Next

-----------------------------------------------------------------------------
(* Memory pressure *)

PressureInv ==
    /\ {mem, afterGc, threshold, headroom} \subseteq Int
    /\ requested \in BOOLEAN /\ suppressed \in BOOLEAN
    /\ suppressed => threshold <= afterGc + MaxHeadroom
    /\ PressureIsServed

\* The backoff stays between its base and a quarter of the limit.
LEMMA HeadroomIs ==
    ASSUME headroom \in Int
    PROVE  MaxHeadroom \in Nat /\ NextHeadroom \in Int /\ NextHeadroom <= MaxHeadroom
<1>1. SoftLimit \in Nat  BY GcAssumption
<1>2. SoftLimit \div 10 \in Int /\ SoftLimit \div 4 \in Int  BY <1>1
<1>3. BaseHeadroom \in Nat /\ MaxHeadroom \in Nat /\ BaseHeadroom <= MaxHeadroom
  BY <1>2 DEF BaseHeadroom, MaxHeadroom
<1> HIDE DEF BaseHeadroom, MaxHeadroom
<1> QED  BY <1>3 DEF NextHeadroom

\* Baseline and no collection yet.
LEMMA PressureInit == Init => PressureInv
<1> SUFFICES ASSUME Init PROVE PressureInv  OBVIOUS
<1>1. /\ mem = Baseline /\ afterGc = Baseline /\ threshold = 0 /\ headroom = 0 /\ requested = FALSE /\ suppressed = FALSE
      /\ Baseline \in Nat
  BY GcAssumption DEF Init
<1>2. MaxHeadroom \in Nat  BY <1>1, HeadroomIs
<1>3. mem <= afterGc + MaxHeadroom /\ {mem, afterGc, threshold, headroom} \subseteq Int  BY <1>1, <1>2
<1>4. requested \in BOOLEAN /\ suppressed \in BOOLEAN /\ ~suppressed  BY <1>1
<1> QED  BY <1>3, <1>4 DEF PressureInv, PressureIsServed

\* The test of an allocation.
LEMMA PressureAlloc == ASSUME PressureInv, Pressure(mem + 1), UNCHANGED afterGc PROVE PressureInv'
<1>1. /\ mem \in Int /\ afterGc \in Int /\ threshold \in Int /\ headroom \in Int /\ SoftLimit \in Nat
      /\ requested \in BOOLEAN /\ suppressed \in BOOLEAN
      /\ suppressed => threshold <= afterGc + MaxHeadroom
  BY GcAssumption DEF PressureInv
<1>2. /\ mem' = mem + 1 /\ threshold' = threshold /\ headroom' = headroom /\ afterGc' = afterGc
      /\ requested' = (requested \/ (mem + 1 > SoftLimit /\ (suppressed => mem + 1 > threshold)))
      /\ suppressed' = (suppressed /\ ~(mem + 1 > SoftLimit /\ mem + 1 > threshold))
  BY DEF Pressure
<1>3. MaxHeadroom \in Nat  BY <1>1, HeadroomIs
<1>4. requested' \in BOOLEAN /\ suppressed' \in BOOLEAN /\ (suppressed' => suppressed)  BY <1>2
<1>5. ASSUME mem' > SoftLimit, ~requested' PROVE mem' <= afterGc + MaxHeadroom
  <2>1. suppressed /\ ~(mem + 1 > threshold)  BY <1>2, <1>5
  <2> QED  BY <1>1, <1>2, <1>3, <2>1
<1>6. (MaxHeadroom)' = MaxHeadroom  BY DEF MaxHeadroom, BaseHeadroom
<1> QED  BY <1>1, <1>2, <1>4, <1>5, <1>6 DEF PressureInv, PressureIsServed

\* A collection: what is left is the new reference, and suppression starts there.
LEMMA PressureCollect == ASSUME GcTyped, PressureInv, CollectInner PROVE PressureInv'
<1> DEFINE dead == Swept(Mark)
           n == Cardinality(dead)
<1>1. mem \in Int /\ threshold \in Int /\ headroom \in Int  BY DEF PressureInv
<1>2. n \in Nat
  <2>1. dead \subseteq Objs  BY DEF Swept, GcTyped
  <2> QED  BY <2>1, GcAssumption, FS_Subset, FS_CardinalityType
<1>3. /\ mem' = mem - n /\ afterGc' = mem - n /\ requested' = FALSE
      /\ suppressed' = (dead = {})
      /\ headroom' = IF dead = {} THEN NextHeadroom ELSE 0
      /\ threshold' = IF dead = {} THEN (mem - n) + NextHeadroom ELSE threshold
  BY DEF CollectInner
<1>4. MaxHeadroom \in Nat /\ NextHeadroom \in Int /\ NextHeadroom <= MaxHeadroom  BY <1>1, HeadroomIs
<1> HIDE DEF n, dead
<1>5. mem' \in Int /\ afterGc' \in Int /\ headroom' \in Int /\ threshold' \in Int  BY <1>1, <1>2, <1>3, <1>4
<1>6. suppressed' \in BOOLEAN /\ requested' \in BOOLEAN  BY <1>3
<1>7. ASSUME suppressed' PROVE threshold' <= afterGc' + MaxHeadroom
  <2>1. dead = {}  BY <1>3, <1>7
  <2> QED  BY <1>1, <1>2, <1>3, <1>4, <2>1
<1>8. mem' <= afterGc' + MaxHeadroom  BY <1>1, <1>2, <1>3, <1>4
<1>9. (MaxHeadroom)' = MaxHeadroom  BY DEF MaxHeadroom, BaseHeadroom
<1> QED  BY <1>5, <1>6, <1>7, <1>8, <1>9 DEF PressureInv, PressureIsServed

\* Every step.
LEMMA PressureStep == GcTyped /\ PressureInv /\ [Next]_vars => PressureInv'
<1> SUFFICES ASSUME GcTyped, PressureInv, [Next]_vars PROVE PressureInv'  OBVIOUS
<1>u. ASSUME UNCHANGED <<pressureVars, afterGc>> PROVE PressureInv'
  <2>1. (MaxHeadroom)' = MaxHeadroom  BY DEF MaxHeadroom, BaseHeadroom
  <2> QED  BY <1>u, <2>1 DEF pressureVars, PressureInv, PressureIsServed
<1>0. CASE UNCHANGED vars  BY <1>0, <1>u DEF vars, boundVars
<1>1. ASSUME NEW o \in Objs, NEW op \in BOOLEAN, NEW ks \in SUBSET stack, Alloc(o, ks, op) \/ RegionAlloc(o, ks, op)
      PROVE  PressureInv'
  BY <1>1, <1>u, PressureAlloc DEF Alloc, NewBox, RegionAlloc, boundVars
<1>2. CASE RegionStart \/ RegionEnd  BY <1>2, <1>u DEF RegionStart, RegionEnd, boundVars
<1>3. ASSUME NEW o \in Objs, Publish(o) PROVE PressureInv'
  <2>1. UNCHANGED afterGc /\ PublishValue(o)  BY <1>3 DEF Publish, boundVars
  <2>2. CASE StoreAsIs(o)  BY <1>u, <2>1, <2>2 DEF StoreAsIs
  <2>3. CASE StoreCopy(o)  BY <2>1, <2>3, PressureAlloc DEF StoreCopy, NewBox
  <2> QED  BY <2>1, <2>2, <2>3 DEF PublishValue
<1>4. CASE (\E o \in Objs : Bind(o) \/ Stash(o) \/ Load(o)) \/ PopFrame \/ Discard
  BY <1>4, <1>u DEF Bind, Stash, Load, PopFrame, Discard, boundVars
<1>5. CASE (\E t \in Tasks, args \in SUBSET stack : Spawn(t, args)) \/ (\E t \in Actors : FirstPoll(t) \/ Resume(t))
  BY <1>5, <1>u DEF Spawn, FirstPoll, Resume, boundVars
<1>6. CASE Await \/ Finish \/ BeginForm \/ EndForm
  BY <1>6, <1>u DEF Await, Finish, BeginForm, EndForm, boundVars
<1>7. CASE LoopStart \/ LoopEnd  BY <1>7, <1>u DEF LoopStart, LoopEnd, boundVars
<1>8. CASE Safepoint \/ ForceCollect  BY <1>8, PressureCollect DEF Safepoint, ForceCollect
<1> QED  BY <1>0, <1>1, <1>2, <1>3, <1>4, <1>5, <1>6, <1>7, <1>8 DEF Next

\* Backoff never lets the heap grow unnoticed (Pressure, CollectInner: the
\* soft-limit test of GcHeap::alloc and the headroom of its collections).
THEOREM PressureServed == Spec => []PressureIsServed
<1>1. Init => GcTyped /\ PressureInv  BY TypedInit, PressureInit
<1>2. GcTyped /\ PressureInv /\ [Next]_vars => (GcTyped /\ PressureInv)'  BY TypedStep, PressureStep
<1>3. PressureInv => PressureIsServed  BY DEF PressureInv
<1> QED  BY <1>1, <1>2, <1>3, PTL DEF Spec

-----------------------------------------------------------------------------
(* ALLOC_ROOTS and the loops that truncate it *)

\* The first n entries of a root stack.
Early(s, n) == {s[k] : k \in {j \in DOMAIN s : j <= n}}
\* The iteration of t has not yielded: its back edge will truncate.
Truncates(t) == loop[t].at # -1 /\ ~loop[t].yielded

\* Every actor's unreleased boxes are registered, and those of the others were
\* registered before an iteration that will truncate began.
LoopInv ==
    /\ \A t \in Actors : mine[t] \subseteq Range(allocRoots)
    /\ \A t \in Actors : Truncates(t) =>
           t = cur /\ \A u \in Actors \ {t} : mine[u] \subseteq Early(allocRoots, loop[t].at)

\* Registered is registered.
LEMMA LoopSafe == LoopInv => InFlightIsRooted
BY DEF LoopInv, InFlightIsRooted

\* Nothing is allocated at the start.
LEMMA LoopInit == Init => LoopInv
BY DEF Init, LoopInv, Truncates, NoLoop

\* An allocation registers its box behind all others.
LEMMA LoopNewBox ==
    ASSUME GcTyped, LoopInv, NEW o \in Objs, NEW ks, NEW op, cur # None, NewBox(cur, o, ks, op), UNCHANGED <<cur, loop>>
    PROVE  LoopInv'
<1>1. /\ cur \in Actors /\ allocRoots \in Seq(Objs) /\ mine \in [Actors -> SUBSET Objs]
      /\ allocRoots' = Append(allocRoots, o) /\ mine' = [mine EXCEPT ![cur] = @ \cup {o}]
  BY DEF GcTyped, NewBox
<1>2. /\ Range(allocRoots') = Range(allocRoots) \cup {o}
      /\ DOMAIN allocRoots' = DOMAIN allocRoots \cup {Len(allocRoots) + 1}
      /\ \A i \in DOMAIN allocRoots : allocRoots'[i] = allocRoots[i]
  BY <1>1, AppendIs
<1>3. \A t \in Actors : mine'[t] \subseteq Range(allocRoots')  BY <1>1, <1>2 DEF LoopInv
<1>4. ASSUME NEW t \in Actors, Truncates(t)', NEW u \in Actors \ {t}
      PROVE  t = cur /\ mine'[u] \subseteq Early(allocRoots', loop'[t].at)
  <2>1. Truncates(t) /\ loop'[t] = loop[t]  BY <1>4 DEF Truncates
  <2>2. t = cur /\ mine[u] \subseteq Early(allocRoots, loop[t].at)  BY <2>1 DEF LoopInv
  <2>3. mine'[u] = mine[u]  BY <1>1, <2>2
  <2>4. Early(allocRoots, loop[t].at) \subseteq Early(allocRoots', loop[t].at)  BY <1>2 DEF Early
  <2> QED  BY <2>1, <2>2, <2>3, <2>4
<1>5. \A t \in Actors : Truncates(t)' => t = cur  BY DEF LoopInv, Truncates
<1> QED  BY <1>3, <1>4, <1>5 DEF LoopInv

\* Without a loop that truncates, registration is all there is.
LEMMA NoTruncation ==
    ASSUME \A t \in Actors : mine'[t] \subseteq Range(allocRoots'), \A t \in Actors : ~Truncates(t)'
    PROVE  LoopInv'
BY DEF LoopInv

\* Tasks and forms begin, wait, resume and end.
LEMMA LoopTask ==
    ASSUME GcTyped, LoopInv, (\E t \in Actors : FirstPoll(t) \/ Resume(t)) \/ Await \/ Finish \/ BeginForm \/ EndForm
    PROVE  LoopInv'
<1>0. /\ Main \in Actors /\ None \notin Actors /\ Tasks \subseteq Actors /\ mine \in [Actors -> SUBSET Objs]
      /\ loop \in [Actors -> [at : Marks, yielded : BOOLEAN]] /\ loop[Main].at = -1 /\ cur \in Actors \cup {None}
      /\ \A t \in Actors : mine[t] \subseteq Range(allocRoots)
      /\ \A t \in Actors : Truncates(t) => t = cur
  BY GcAssumption DEF Actors, GcTyped, LoopInv
<1>1. CASE (\E t \in Actors : FirstPoll(t) \/ Resume(t)) \/ BeginForm
  <2>1. cur = None /\ UNCHANGED <<loop, mine, allocRoots>>
    BY <1>1 DEF FirstPoll, Resume, BeginForm, rootVars
  <2>2. \A t \in Actors : ~Truncates(t)'  BY <1>0, <2>1 DEF Truncates
  <2> QED  BY <1>0, <2>1, <2>2, NoTruncation
<1>2. CASE Await
  <2>1. cur \in Actors /\ UNCHANGED <<mine, allocRoots>> /\ loop' = [loop EXCEPT ![cur].yielded = (loop[cur].at # -1)]
    BY <1>0, <1>2 DEF Await
  <2> DEFINE b == loop[cur].at # -1
  <2>2. loop'[cur] = [loop[cur] EXCEPT !.yielded = b] /\ \A t \in Actors : t # cur => loop'[t] = loop[t]  BY <1>0, <2>1
  <2>3. loop[cur] \in [at : Marks, yielded : BOOLEAN]  BY <1>0, <2>1
  <2>4. loop'[cur].at = loop[cur].at /\ loop'[cur].yielded = b  BY <2>2, <2>3
  <2>5. \A t \in Actors : ~Truncates(t)'  BY <1>0, <2>2, <2>4 DEF Truncates
  <2> QED  BY <1>0, <2>1, <2>5, NoTruncation
<1>3. CASE Finish
  <2>1. cur \in Tasks /\ loop[cur].at = -1 /\ UNCHANGED <<loop, allocRoots>> /\ mine' = [mine EXCEPT ![cur] = {}]
    BY <1>3 DEF Finish
  <2>2. \A t \in Actors : ~Truncates(t)'  BY <1>0, <2>1 DEF Truncates
  <2>3. \A t \in Actors : mine'[t] \subseteq Range(allocRoots')  BY <1>0, <2>1
  <2> QED  BY <2>2, <2>3, NoTruncation
<1>4. CASE EndForm
  <2>1. cur = Main /\ UNCHANGED loop /\ mine' = [t \in Actors |-> mine[t] \cap Range(allocRoots')]
    BY <1>4 DEF EndForm
  <2>2. \A t \in Actors : ~Truncates(t)'  BY <1>0, <2>1 DEF Truncates
  <2>3. \A t \in Actors : mine'[t] \subseteq Range(allocRoots')  BY <2>1
  <2> QED  BY <2>2, <2>3, NoTruncation
<1> QED  BY <1>1, <1>2, <1>3, <1>4

\* The watermark of an iteration, and its back edge.
LEMMA LoopLoop == ASSUME GcTyped, LoopInv, LoopStart \/ LoopEnd PROVE LoopInv'
<1>0. /\ cur \in Actors /\ mine \in [Actors -> SUBSET Objs] /\ allocRoots \in Seq(Objs)
      /\ loop \in [Actors -> [at : Marks, yielded : BOOLEAN]]
      /\ \A t \in Actors : mine[t] \subseteq Range(allocRoots)
      /\ \A t \in Actors : Truncates(t) => t = cur
      /\ UNCHANGED cur
  BY DEF Actors, GcTyped, LoopInv, LoopStart, LoopEnd, taskVars
<1>1. CASE LoopStart
  <2>1. /\ loop' = [loop EXCEPT ![cur] = [at |-> Len(allocRoots), yielded |-> FALSE]]
        /\ UNCHANGED <<mine, allocRoots>>
    BY <1>1 DEF LoopStart
  <2>2. loop'[cur].at = Len(allocRoots) /\ \A t \in Actors : t # cur => loop'[t] = loop[t]  BY <1>0, <2>1
  <2>3. Early(allocRoots, Len(allocRoots)) = Range(allocRoots)
    <3>1. DOMAIN allocRoots = 1..Len(allocRoots) /\ Len(allocRoots) \in Nat  BY <1>0
    <3>2. \A k \in DOMAIN allocRoots : k <= Len(allocRoots)  BY <3>1
    <3> QED  BY <3>2 DEF Early, Range
  <2>4. \A t \in Actors : Truncates(t)' => t = cur  BY <1>0, <2>2 DEF Truncates
  <2> QED  BY <1>0, <2>1, <2>2, <2>3, <2>4 DEF LoopInv
<1>2. CASE LoopEnd
  <2>1. /\ allocRoots' = BackEdge(loop[cur]) /\ mine' = [mine EXCEPT ![cur] = @ \cap Range(allocRoots')]
        /\ loop' = [loop EXCEPT ![cur] = NoLoop] /\ loop[cur].at # -1
    BY <1>2 DEF LoopEnd
  <2>2. \A t \in Actors : ~Truncates(t)'  BY <1>0, <2>1 DEF Truncates, NoLoop
  <2>3. ASSUME NEW u \in Actors PROVE mine'[u] \subseteq Range(allocRoots')
    <3>1. CASE u = cur  BY <1>0, <2>1, <3>1
    <3>2. CASE u # cur /\ loop[cur].yielded
      <4>1. allocRoots' = allocRoots  BY <2>1, <3>2 DEF BackEdge
      <4> QED  BY <1>0, <2>1, <3>2, <4>1
    <3>3. CASE u # cur /\ ~loop[cur].yielded
      <4>1. allocRoots' = Truncate(loop[cur].at)  BY <2>1, <3>3 DEF BackEdge
      <4>2. loop[cur].at \in Nat  BY <1>0, <2>1 DEF Marks
      <4>3. mine[u] \subseteq Early(allocRoots, loop[cur].at)  BY <1>0, <2>1, <3>3 DEF LoopInv, Truncates
      <4>4. \A k \in DOMAIN allocRoots : k <= loop[cur].at => allocRoots[k] \in Range(allocRoots')
        BY <1>0, <4>1, <4>2, TruncateIs
      <4>5. mine'[u] = mine[u]  BY <1>0, <2>1, <3>3
      <4> QED  BY <4>3, <4>4, <4>5 DEF Early
    <3> QED  BY <3>1, <3>2, <3>3
  <2> QED  BY <2>2, <2>3, NoTruncation
<1> QED  BY <1>1, <1>2

\* Every step.
LEMMA LoopStep == GcTyped /\ LoopInv /\ [Next]_vars => LoopInv'
<1> SUFFICES ASSUME GcTyped, LoopInv, [Next]_vars PROVE LoopInv'  OBVIOUS
<1>u. ASSUME UNCHANGED <<cur, loop, mine, allocRoots>> PROVE LoopInv'  BY <1>u DEF LoopInv, Truncates
<1>0. CASE UNCHANGED vars  BY <1>0, <1>u DEF vars, taskVars, rootVars
<1>1. ASSUME NEW o \in Objs, NEW op \in BOOLEAN, NEW ks \in SUBSET stack, Alloc(o, ks, op) \/ RegionAlloc(o, ks, op)
      PROVE  LoopInv'
  <2>1. CASE Alloc(o, ks, op)  BY <2>1, LoopNewBox DEF Alloc
  <2>2. CASE RegionAlloc(o, ks, op)  BY <2>2, <1>u DEF RegionAlloc, rootVars
  <2> QED  BY <1>1, <2>1, <2>2
<1>2. CASE RegionStart \/ RegionEnd  BY <1>2, <1>u DEF RegionStart, RegionEnd, taskVars, rootVars
<1>3. ASSUME NEW o \in Objs, Publish(o) PROVE LoopInv'
  <2>1. UNCHANGED <<cur, loop>> /\ PublishValue(o) /\ cur # None  BY <1>3 DEF Publish
  <2>2. CASE StoreAsIs(o)  BY <1>u, <2>1, <2>2 DEF StoreAsIs
  <2>3. CASE StoreCopy(o)
    <3>1. PICK c \in Fresh : NewBox(cur, c, {}, FALSE)  BY <2>3 DEF StoreCopy
    <3>2. c \in Objs  BY <3>1 DEF Fresh
    <3> QED  BY <2>1, <3>1, <3>2, LoopNewBox
  <2> QED  BY <2>1, <2>2, <2>3 DEF PublishValue
<1>4. CASE (\E o \in Objs : Bind(o) \/ Stash(o) \/ Load(o)) \/ PopFrame \/ Discard
  BY <1>4, <1>u DEF Bind, Stash, Load, PopFrame, Discard, rootVars
<1>5. CASE \E t \in Tasks, args \in SUBSET stack : Spawn(t, args)  BY <1>5, <1>u DEF Spawn, rootVars
<1>6. CASE Safepoint \/ ForceCollect
  BY <1>6, <1>u DEF Safepoint, ForceCollect, CollectInner, taskVars, rootVars
<1> QED  BY <1>0, <1>1, <1>2, <1>3, <1>4, <1>5, <1>6, LoopTask, LoopLoop DEF Next

\* A back edge never releases a value of another task (eval_loop_async: the
\* watermark of AllocRootGuard and its yielded flag).
THEOREM LoopsReleaseTheirOwn == Spec => []InFlightIsRooted
<1>1. Init => GcTyped /\ LoopInv  BY TypedInit, LoopInit
<1>2. GcTyped /\ LoopInv /\ [Next]_vars => (GcTyped /\ LoopInv)'  BY TypedStep, LoopStep
<1> QED  BY <1>1, <1>2, LoopSafe, PTL DEF Spec

-----------------------------------------------------------------------------
(* What is reachable, and what is freed *)

\* The boxes of regions that close by freeing them.
UnpoisonedIn(rs, w) == UNION {rs[d] : d \in (w + 1)..Len(rs)}
Unpoisoned == UnpoisonedIn(regions, watermark)
\* What is held outside the running code.
Outside == cell \cup UNION {bound[t] \cup boxed[t] : t \in Actors \ {cur}}

\* A box is on the heap or in a region, and nothing leads to a box that was
\* never allocated.
BoxInv ==
    /\ DOMAIN heap \cap InRegions = {}
    /\ InUse \subseteq Used
    /\ \A o \in Objs : kids[o] \subseteq Used

\* Only tasks that run or wait have bindings, and as long as every pop took the
\* popper's own entry, their Envs are on ENV_ROOTS.
EnvInv ==
    /\ bound[Main] = {}
    /\ \A t \in Actors : bound[t] # {} => st[t] \in {"running", "parked"}
    /\ ~mispopped => envRoots \in Seq(Tasks)
    /\ ~mispopped => \A t \in Tasks : st[t] \in {"running", "parked"} => t \in Range(envRoots)

\* The publish barrier: from outside the running code, no path leads into a
\* region that will be freed.
FenceInv == ReachIn(kids, Outside) \cap Unpoisoned = {}
DangleInv == ~exposed /\ ~mispopped => ReachIn(kids, InUse) \cap gone = {}
HeapInv == BoxInv /\ EnvInv /\ FenceInv /\ DangleInv

\* More roots reach more, and two sets of roots reach what each reaches.
LEMMA ReachSets ==
    ASSUME NEW k \in Graphs, NEW A \in SUBSET Objs, NEW B \in SUBSET Objs
    PROVE  /\ A \subseteq B => ReachIn(k, A) \subseteq ReachIn(k, B)
           /\ ReachIn(k, A \cup B) \subseteq ReachIn(k, A) \cup ReachIn(k, B)
<1>1. /\ A \subseteq ReachIn(k, A) /\ Closed(k, ReachIn(k, A))
      /\ \A C : A \subseteq C /\ Closed(k, C) => ReachIn(k, A) \subseteq C
  BY ReachIs
<1>2. B \subseteq ReachIn(k, B) /\ Closed(k, ReachIn(k, B))  BY ReachIs
<1>3. \A C : (A \cup B) \subseteq C /\ Closed(k, C) => ReachIn(k, A \cup B) \subseteq C
  <2>1. A \cup B \in SUBSET Objs  OBVIOUS
  <2> QED  BY <2>1, ReachIs
<1>4. Closed(k, ReachIn(k, A) \cup ReachIn(k, B))  BY <1>1, <1>2 DEF Closed
<1> QED  BY <1>1, <1>2, <1>3, <1>4

\* A box linked into the graph for the first time.
LEMMA ReachNew ==
    ASSUME NEW k \in Graphs, NEW o \in Objs, NEW U \in SUBSET Objs, o \notin U, Closed(k, U),
           NEW S \in SUBSET U, NEW ks \in SUBSET Objs
    PROVE  /\ ReachIn(k, S) \subseteq U
           /\ ReachIn([k EXCEPT ![o] = ks], S) \subseteq ReachIn(k, S)
           /\ ks \subseteq S => ReachIn([k EXCEPT ![o] = ks], S \cup {o}) \subseteq ReachIn(k, S) \cup {o}
<1> DEFINE k2 == [k EXCEPT ![o] = ks]
           C == ReachIn(k, S)
<1>1. k2 \in Graphs /\ S \in SUBSET Objs /\ S \cup {o} \in SUBSET Objs  BY DEF Graphs
<1>2. S \subseteq C /\ Closed(k, C) /\ C \subseteq U /\ C \subseteq Objs  BY <1>1, ReachIs
<1>3. \A p \in Objs : p # o => k2[p] = k[p]  BY DEF Graphs
<1>4. k2[o] = ks  BY DEF Graphs
<1> HIDE DEF k2, C
<1>5. Closed(k2, C)  BY <1>2, <1>3 DEF Closed
<1>6. ReachIn(k2, S) \subseteq C  BY <1>1, <1>2, <1>5, ReachIs
<1>7. ASSUME ks \subseteq S PROVE ReachIn(k2, S \cup {o}) \subseteq C \cup {o}
  <2>1. Closed(k2, C \cup {o})  BY <1>2, <1>3, <1>4, <1>7 DEF Closed
  <2>2. (S \cup {o}) \subseteq (C \cup {o})  BY <1>2
  <2> QED  BY <1>1, <2>1, <2>2, ReachIs
<1> QED  BY <1>2, <1>6, <1>7 DEF k2, C

\* No region is open, or all are poisoned.
LEMMA AllPoisoned ==
    ASSUME NEW rs, NEW w \in Nat, Len(rs) \in Nat, Len(rs) <= w
    PROVE  UnpoisonedIn(rs, w) = {}
<1>1. (w + 1)..Len(rs) = {}  OBVIOUS
<1> QED  BY <1>1 DEF UnpoisonedIn

\* The fence is a set of boxes in regions.
LEMMA UnpoisonedUsed == GcTyped => Unpoisoned \subseteq InRegions
<1> SUFFICES ASSUME GcTyped PROVE Unpoisoned \subseteq InRegions  OBVIOUS
<1>1. Len(regions) \in Nat /\ watermark \in Nat /\ DOMAIN regions = 1..Len(regions)  BY DEF GcTyped
<1>2. (watermark + 1)..Len(regions) \subseteq DOMAIN regions  BY <1>1
<1> QED  BY <1>2 DEF Unpoisoned, UnpoisonedIn, InRegions, Range

\* What is held is boxes.
LEMMA UseTyped ==
    GcTyped => /\ InUse \subseteq Objs /\ Outside \subseteq Objs /\ Outside \subseteq InUse
               /\ \A t \in Actors : (bound[t] \cup boxed[t]) \subseteq InUse
<1> SUFFICES ASSUME GcTyped
             PROVE  /\ InUse \subseteq Objs /\ Outside \subseteq Objs /\ Outside \subseteq InUse
                    /\ \A t \in Actors : (bound[t] \cup boxed[t]) \subseteq InUse
  OBVIOUS
<1>1. \A t \in Actors : bound[t] \subseteq Objs /\ boxed[t] \subseteq Objs  BY DEF GcTyped
<1>2. InUse \subseteq Objs  BY <1>1 DEF InUse, GcTyped
<1>3. Outside \subseteq InUse  BY DEF InUse, Outside
<1>4. \A t \in Actors : (bound[t] \cup boxed[t]) \subseteq InUse  BY DEF InUse
<1> QED  BY <1>2, <1>3, <1>4

\* The graph stays within the boxes allocated so far.
LEMMA UsedClosed == GcTyped /\ BoxInv => Closed(kids, Used)
<1> SUFFICES ASSUME GcTyped, BoxInv PROVE Closed(kids, Used)  OBVIOUS
<1>1. Used \subseteq Objs  BY RegionsTyped
<1> QED  BY <1>1 DEF BoxInv, Closed

\* Nothing is allocated at the start.
LEMMA HeapInit == Init => HeapInv
<1> SUFFICES ASSUME Init PROVE HeapInv  OBVIOUS
<1>0. Main \in Actors /\ Tasks \subseteq Actors  BY DEF Actors
<1>1. GcTyped  BY TypedInit
<1>2. InUse = {} /\ Outside = {}  BY DEF Init, InUse, Outside
<1>3. BoxInv
  <2>1. DOMAIN heap = {} /\ \A o \in Objs : kids[o] = {}  BY DEF Init
  <2> QED  BY <1>2, <2>1 DEF BoxInv
<1>4. EnvInv
  <2>1. /\ \A t \in Actors : bound[t] = {} /\ st[t] = "none"
        /\ envRoots = <<>>
    BY DEF Init
  <2> QED  BY <1>0, <2>1 DEF EnvInv
<1>5. ReachIn(kids, {}) = {}
  <2>1. Closed(kids, {})  BY DEF Closed
  <2>2. {} \in SUBSET Objs /\ kids \in Graphs  BY <1>1 DEF GcTyped
  <2> QED  BY <2>1, <2>2, ReachIs
<1> QED  BY <1>2, <1>3, <1>4, <1>5 DEF HeapInv, FenceInv, DangleInv

\* A step that frees nothing and holds no more.
LEMMA NarrowUse ==
    ASSUME GcTyped, HeapInv, UNCHANGED <<heap, kids, gone, regions, retired>>, InUse' \subseteq InUse,
           exposed => exposed', mispopped => mispopped'
    PROVE  BoxInv' /\ DangleInv'
<1>1. InRegions' = InRegions /\ Used' = Used  BY DEF InRegions, Used
<1>2. BoxInv'  BY <1>1 DEF HeapInv, BoxInv
<1>3. InUse \in SUBSET Objs /\ InUse' \in SUBSET Objs /\ kids \in Graphs  BY UseTyped DEF GcTyped
<1>4. ReachIn(kids, InUse') \subseteq ReachIn(kids, InUse)  BY <1>3, ReachSets
<1>5. DangleInv'  BY <1>4 DEF HeapInv, DangleInv
<1> QED  BY <1>2, <1>5

\* A step that hands nothing out of the running code.
LEMMA FenceSame ==
    ASSUME GcTyped, FenceInv, UNCHANGED <<kids, regions, watermark>>, Outside' \subseteq Outside
    PROVE  FenceInv'
<1>1. Outside \in SUBSET Objs /\ Outside' \in SUBSET Objs /\ kids \in Graphs  BY UseTyped DEF GcTyped
<1>2. ReachIn(kids, Outside') \subseteq ReachIn(kids, Outside)  BY <1>1, ReachSets
<1> QED  BY <1>2 DEF FenceInv, Unpoisoned

\* A step after which no region will be freed.
LEMMA FenceNone ==
    ASSUME GcTyped', Len(regions') <= watermark' PROVE FenceInv'
<1>1. Len(regions') \in Nat /\ watermark' \in Nat  BY DEF GcTyped
<1>2. UnpoisonedIn(regions', watermark') = {}  BY <1>1, AllPoisoned
<1> QED  BY <1>2 DEF FenceInv, Unpoisoned

\* The same without regions.
LEMMA FenceEmpty == ASSUME GcTyped', regions' = <<>> PROVE FenceInv'
<1>1. Len(regions') = 0 /\ watermark' \in Nat  BY DEF GcTyped
<1>2. Len(regions') <= watermark'  BY <1>1
<1> QED  BY <1>2, FenceNone

\* A step that no Env notices.
LEMMA EnvSame == ASSUME EnvInv, UNCHANGED <<bound, st, envRoots, mispopped>> PROVE EnvInv'
BY DEF EnvInv

\* What running code does with its values.
LEMMA HeapCode ==
    ASSUME GcTyped, HeapInv, (\E o \in Objs : Bind(o) \/ Stash(o) \/ Load(o)) \/ PopFrame \/ Discard
    PROVE  HeapInv'
<1>0. /\ Main \in Actors /\ Main \notin Tasks /\ Tasks \subseteq Actors /\ None \notin Actors
      /\ bound \in [Actors -> SUBSET Objs] /\ boxed \in [Actors -> SUBSET Objs] /\ cur \in Actors \cup {None}
      /\ cur # None => st[cur] = "running"
  BY GcAssumption DEF Actors, GcTyped
<1>1. /\ UNCHANGED <<heap, kids, gone, regions, retired, watermark, cell, st, cur, envRoots, mispopped, exposed>>
      /\ cur # None
  BY GcAssumption DEF Bind, Stash, Load, PopFrame, Discard, heapVars, regionVars, rootVars, boundVars
<1>2. cur \in Actors  BY <1>0, <1>1
<1>3. \A t \in Actors \ {cur} : bound'[t] = bound[t] /\ boxed'[t] = boxed[t]
  BY <1>0, <1>2 DEF Bind, Stash, Load, PopFrame, Discard
<1>4. bound'[cur] \subseteq InUse /\ boxed'[cur] \subseteq InUse /\ stack' \subseteq InUse
  BY <1>0, <1>2 DEF Bind, Stash, Load, PopFrame, Discard, InUse
<1>5. Outside' = Outside  BY <1>1, <1>3 DEF Outside
<1>6. InUse' \subseteq InUse
  <2>1. \A t \in Actors : bound'[t] \cup boxed'[t] \subseteq InUse
    <3>1. \A t \in Actors : bound[t] \cup boxed[t] \subseteq InUse  BY UseTyped
    <3> QED  BY <1>3, <1>4, <3>1
  <2>2. cell' \subseteq InUse  BY <1>1 DEF InUse
  <2> HIDE DEF InUse
  <2>3. InUse' = cell' \cup stack' \cup UNION {bound'[t] \cup boxed'[t] : t \in Actors}  BY DEF InUse
  <2> QED  BY <1>4, <2>1, <2>2, <2>3
<1>7. EnvInv'
  <2>1. bound'[Main] = bound[Main]
    <3>1. CASE cur = Main  BY <1>0, <3>1 DEF Bind, Stash, Load, PopFrame, Discard
    <3>2. CASE cur # Main  BY <1>0, <1>3, <3>2
    <3> QED  BY <3>1, <3>2
  <2>2. \A t \in Actors : bound'[t] # {} => st[t] \in {"running", "parked"}
    <3>1. st[cur] = "running"  BY <1>0, <1>1
    <3> QED  BY <1>3, <3>1 DEF HeapInv, EnvInv
  <2> QED  BY <1>1, <2>1, <2>2 DEF HeapInv, EnvInv
<1> QED  BY <1>1, <1>5, <1>6, <1>7, NarrowUse, FenceSame DEF HeapInv

\* A task is spawned beside the running code: the regions are poisoned.
LEMMA HeapSpawn ==
    ASSUME GcTyped, GcTyped', HeapInv, NEW t \in Tasks, NEW args \in SUBSET stack, Spawn(t, args)
    PROVE  HeapInv'
<1>0. /\ Main \in Actors /\ Main \notin Tasks /\ t \in Actors
      /\ bound \in [Actors -> SUBSET Objs] /\ boxed \in [Actors -> SUBSET Objs] /\ st \in [Actors -> Phases]
  BY GcAssumption DEF Actors, GcTyped
<1>1. /\ st[t] = "none" /\ st' = [st EXCEPT ![t] = "spawned"] /\ boxed' = [boxed EXCEPT ![t] = args] /\ watermark' = Poisoned
      /\ UNCHANGED <<heap, kids, gone, regions, retired, cell, bound, stack, cur, envRoots, mispopped, exposed>>
  BY DEF Spawn, heapVars, rootVars, boundVars
<1>2. InUse' \subseteq InUse
  <2>1. \A u \in Actors : boxed'[u] \subseteq boxed[u] \cup stack  BY <1>0, <1>1
  <2> QED  BY <1>1, <2>1 DEF InUse
<1>3. FenceInv'
  <2>1. Len(regions) \in Nat /\ watermark \in Nat  BY DEF GcTyped
  <2>2. Len(regions') <= watermark'  BY <1>1, <2>1 DEF Poisoned
  <2> QED  BY <2>2, FenceNone
<1>4. EnvInv'
  <2>1. bound[t] = {}  BY <1>0, <1>1 DEF HeapInv, EnvInv
  <2>2. \A u \in Actors : u # t => st'[u] = st[u]  BY <1>0, <1>1
  <2>3. st'[t] = "spawned"  BY <1>0, <1>1
  <2>4. \A u \in Actors : bound'[u] # {} => st'[u] \in {"running", "parked"}
    BY <1>1, <2>1, <2>2 DEF HeapInv, EnvInv
  <2>5. ~mispopped' => \A u \in Tasks : st'[u] \in {"running", "parked"} => u \in Range(envRoots')
    BY <1>1, <2>2, <2>3 DEF HeapInv, EnvInv, Actors
  <2> QED  BY <1>1, <2>4, <2>5 DEF HeapInv, EnvInv
<1> QED  BY <1>1, <1>2, <1>3, <1>4, NarrowUse DEF HeapInv

\* A task or a form starts or resumes, or the running one waits or ends: no
\* region is open, before or after.
LEMMA HeapSwitch ==
    ASSUME GcTyped, GcTyped', HeapInv, UNCHANGED <<heap, kids, gone, regions, retired, exposed>>, regions = <<>>,
           InUse' \subseteq InUse, mispopped => mispopped', EnvInv'
    PROVE  HeapInv'
BY NarrowUse, FenceEmpty DEF HeapInv

\* run_async_fn is polled for the first time.
LEMMA HeapPoll ==
    ASSUME GcTyped, GcTyped', HeapInv, NEW t \in Actors, FirstPoll(t)
    PROVE  HeapInv'
<1>0. /\ Main \in Actors /\ Main \notin Tasks /\ None \notin Actors /\ Tasks \subseteq Actors
      /\ bound \in [Actors -> SUBSET Objs] /\ boxed \in [Actors -> SUBSET Objs] /\ st \in [Actors -> Phases]
  BY GcAssumption DEF Actors, GcTyped
<1>1. /\ t \in Tasks /\ cur = None /\ cur' = t /\ st' = [st EXCEPT ![t] = "running"]
      /\ bound' = [bound EXCEPT ![t] = boxed[t]] /\ boxed' = [boxed EXCEPT ![t] = {}]
      /\ envRoots' = Append(envRoots, t)
      /\ UNCHANGED <<heap, kids, gone, regions, retired, cell, stack, mispopped, exposed>>
  BY DEF FirstPoll, heapVars, regionVars, boundVars
<1>2. InUse' \subseteq InUse
  <2>1. \A u \in Actors : bound'[u] \cup boxed'[u] \subseteq bound[u] \cup boxed[u]  BY <1>0, <1>1
  <2> QED  BY <1>1, <2>1 DEF InUse
<1>3. EnvInv'
  <2>1. \A u \in Actors : u # t => st'[u] = st[u] /\ bound'[u] = bound[u]  BY <1>0, <1>1
  <2>2. st'[t] = "running" /\ t # Main  BY <1>0, <1>1
  <2>3. ASSUME ~mispopped PROVE envRoots' \in Seq(Tasks) /\ Range(envRoots') = Range(envRoots) \cup {t}
    <3>1. envRoots \in Seq(Tasks)  BY <2>3 DEF HeapInv, EnvInv
    <3> QED  BY <1>1, <3>1, AppendIs
  <2>4. \A u \in Actors : bound'[u] # {} => st'[u] \in {"running", "parked"}  BY <2>1, <2>2 DEF HeapInv, EnvInv
  <2>5. ASSUME ~mispopped, NEW u \in Tasks, st'[u] \in {"running", "parked"} PROVE u \in Range(envRoots')
    BY <1>0, <2>1, <2>3, <2>5 DEF HeapInv, EnvInv
  <2>6. bound'[Main] = {}  BY <1>0, <2>1, <2>2 DEF HeapInv, EnvInv
  <2> QED  BY <1>1, <2>3, <2>4, <2>5, <2>6 DEF EnvInv
<1> QED  BY <1>1, <1>2, <1>3, HeapSwitch DEF GcTyped

\* run_async_fn returns: its own entry, or the history says so.
LEMMA HeapFinish == ASSUME GcTyped, GcTyped', HeapInv, Finish PROVE HeapInv'
<1>0. /\ Main \in Actors /\ Main \notin Tasks /\ None \notin Actors /\ Tasks \subseteq Actors
      /\ bound \in [Actors -> SUBSET Objs] /\ boxed \in [Actors -> SUBSET Objs] /\ st \in [Actors -> Phases]
      /\ cur # None => st[cur] = "running"
  BY GcAssumption DEF Actors, GcTyped
<1>1. /\ cur \in Tasks /\ regions = <<>> /\ st' = [st EXCEPT ![cur] = "done"] /\ stack' = {}
      /\ bound' = [bound EXCEPT ![cur] = {}] /\ boxed' = [boxed EXCEPT ![cur] = {}]
      /\ envRoots' = Front(envRoots) /\ mispopped' = (mispopped \/ Last(envRoots) # cur)
      /\ UNCHANGED <<heap, kids, gone, regions, retired, cell, exposed>>
  BY DEF Finish, PopEnv, heapVars, regionVars, boundVars
<1>2. InUse' \subseteq InUse
  <2>1. \A u \in Actors : bound'[u] \cup boxed'[u] \subseteq bound[u] \cup boxed[u]  BY <1>0, <1>1
  <2> QED  BY <1>1, <2>1 DEF InUse
<1>3. EnvInv'
  <2>1. \A u \in Actors : u # cur => st'[u] = st[u] /\ bound'[u] = bound[u]  BY <1>0, <1>1
  <2>2. st'[cur] = "done" /\ bound'[cur] = {} /\ cur # Main /\ st[cur] = "running"  BY <1>0, <1>1
  <2>3. ASSUME ~mispopped' PROVE envRoots' \in Seq(Tasks) /\ Range(envRoots) = Range(envRoots') \cup {cur}
    <3>1. ~mispopped /\ Last(envRoots) = cur  BY <1>1, <2>3
    <3>2. envRoots \in Seq(Tasks) /\ cur \in Range(envRoots)  BY <1>1, <2>2, <3>1 DEF HeapInv, EnvInv
    <3>3. envRoots # <<>>  BY <3>2 DEF Range
    <3>4. Last(envRoots) = envRoots[Len(envRoots)]  BY DEF Last
    <3> QED  BY <1>1, <3>1, <3>2, <3>3, <3>4, FrontIs
  <2>4. \A u \in Actors : bound'[u] # {} => st'[u] \in {"running", "parked"}  BY <2>1, <2>2 DEF HeapInv, EnvInv
  <2>5. ASSUME ~mispopped', NEW u \in Tasks, st'[u] \in {"running", "parked"} PROVE u \in Range(envRoots')
    <3>1. ~mispopped /\ u # cur  BY <1>1, <2>2, <2>5
    <3>2. u \in Range(envRoots)  BY <1>0, <2>1, <2>5, <3>1 DEF HeapInv, EnvInv
    <3> QED  BY <2>3, <2>5, <3>1, <3>2
  <2>6. bound'[Main] = {}  BY <1>0, <2>1, <2>2 DEF HeapInv, EnvInv
  <2> QED  BY <1>1, <2>3, <2>4, <2>5, <2>6 DEF EnvInv
<1>4. mispopped => mispopped'  BY <1>1
<1> QED  BY <1>1, <1>2, <1>3, <1>4, HeapSwitch

\* Waiting, resuming, and the forms.
LEMMA HeapTurn ==
    ASSUME GcTyped, GcTyped', HeapInv, (\E t \in Actors : Resume(t)) \/ Await \/ BeginForm \/ EndForm
    PROVE  HeapInv'
<1>0. /\ Main \in Actors /\ Main \notin Tasks /\ None \notin Actors /\ Tasks \subseteq Actors
      /\ st \in [Actors -> Phases] /\ cur \in Actors \cup {None}
      /\ cur # None => st[cur] = "running"
      /\ cur = None => regions = <<>>
  BY GcAssumption DEF Actors, GcTyped
<1>1. /\ regions = <<>> /\ stack' \subseteq stack
      /\ UNCHANGED <<heap, kids, gone, regions, retired, cell, bound, boxed, envRoots, mispopped, exposed>>
  BY <1>0 DEF Resume, Await, BeginForm, EndForm, heapVars, regionVars, rootVars, boundVars
<1>2. InUse' \subseteq InUse  BY <1>1 DEF InUse
<1>3. \A u \in Tasks : st'[u] \in {"running", "parked"} <=> st[u] \in {"running", "parked"}
  BY <1>0 DEF Resume, Await, BeginForm, EndForm
<1>4. EnvInv'
  <2>1. \A u \in Actors : bound[u] # {} => u \in Tasks  BY DEF HeapInv, EnvInv, Actors
  <2>2. \A u \in Actors : bound[u] # {} => st'[u] \in {"running", "parked"}  BY <1>3, <2>1 DEF HeapInv, EnvInv
  <2> QED  BY <1>1, <1>3, <2>2 DEF HeapInv, EnvInv
<1> QED  BY <1>1, <1>2, <1>4, HeapSwitch

\* A box is built from what is in use.
LEMMA NewNode ==
    ASSUME GcTyped, GcTyped', HeapInv, NEW o \in Objs, o \notin Used, NEW ks \in SUBSET InUse,
           kids' = [kids EXCEPT ![o] = ks], Used' = Used \cup {o}, InUse' \subseteq InUse \cup {o},
           UNCHANGED <<gone, exposed, mispopped>>, DOMAIN heap' \cap InRegions' = {}
    PROVE  BoxInv' /\ DangleInv'
<1>1. kids \in Graphs /\ Used \in SUBSET Objs /\ Closed(kids, Used) /\ InUse \in SUBSET Used /\ ks \in SUBSET Objs
      /\ gone \subseteq Used
  BY RegionsTyped, UsedClosed DEF GcTyped, HeapInv, BoxInv, Used
<1>2. \A p \in Objs : kids'[p] \subseteq Used'
  <2>1. \A p \in Objs : kids'[p] = IF p = o THEN ks ELSE kids[p]  BY <1>1 DEF Graphs
  <2> QED  BY <1>1, <2>1 DEF HeapInv, BoxInv
<1>3. InUse' \subseteq Used'  BY <1>1
<1>4. ReachIn(kids', InUse \cup {o}) \subseteq ReachIn(kids, InUse) \cup {o}
  <2> HIDE DEF GcTyped, HeapInv
  <2>1. ReachIn([kids EXCEPT ![o] = ks], InUse \cup {o}) \subseteq ReachIn(kids, InUse) \cup {o}  BY <1>1, ReachNew
  <2> QED  BY <2>1
<1>5. ReachIn(kids', InUse') \subseteq ReachIn(kids', InUse \cup {o})
  <2>1. kids' \in Graphs /\ InUse \cup {o} \in SUBSET Objs /\ InUse' \in SUBSET Objs  BY <1>1 DEF GcTyped
  <2> QED  BY <2>1, ReachSets
<1>6. DangleInv'
  <2>1. ASSUME ~exposed', ~mispopped' PROVE ReachIn(kids', InUse') \cap gone' = {}
    <3>1. ReachIn(kids, InUse) \cap gone = {}  BY <2>1 DEF HeapInv, DangleInv
    <3>2. o \notin gone  BY <1>1
    <3> QED  BY <1>4, <1>5, <3>1, <3>2
  <2> QED  BY <2>1 DEF DangleInv
<1> QED  BY <1>2, <1>3, <1>6 DEF BoxInv

\* A box of the running code: nobody else leads to it.
LEMMA FenceNew ==
    ASSUME GcTyped, HeapInv, NEW o \in Objs, o \notin Used, NEW ks \in SUBSET InUse,
           kids' = [kids EXCEPT ![o] = ks], Outside' = Outside, Unpoisoned' \subseteq Unpoisoned \cup {o}
    PROVE  FenceInv'
<1>1. kids \in Graphs /\ Used \in SUBSET Objs /\ Closed(kids, Used) /\ Outside \in SUBSET Used /\ ks \in SUBSET Objs
  BY RegionsTyped, UsedClosed, UseTyped DEF GcTyped, HeapInv, BoxInv
<1>2. ReachIn(kids', Outside) \subseteq ReachIn(kids, Outside) /\ ReachIn(kids, Outside) \subseteq Used
  BY <1>1, ReachNew
<1>3. ReachIn(kids, Outside) \cap Unpoisoned = {}  BY DEF HeapInv, FenceInv
<1> QED  BY <1>2, <1>3 DEF FenceInv

\* alloc and RegionAlloc.
LEMMA HeapAlloc ==
    ASSUME GcTyped, GcTyped', HeapInv, NEW o \in Objs, NEW ks, NEW op, Alloc(o, ks, op) \/ RegionAlloc(o, ks, op)
    PROVE  HeapInv'
<1>1. /\ o \notin Used /\ ks \subseteq stack /\ stack' = stack \cup {o} /\ kids' = [kids EXCEPT ![o] = ks]
      /\ UNCHANGED <<gone, retired, watermark, cell, st, bound, boxed, cur, envRoots, mispopped, exposed>>
  BY DEF Alloc, RegionAlloc, NewBox, Fresh, regionVars, rootVars, boundVars
<1>2. ks \in SUBSET InUse /\ InUse' \subseteq InUse \cup {o} /\ Outside' = Outside  BY <1>1 DEF InUse, Outside
<1>3. DOMAIN heap \cap InRegions = {}  BY DEF HeapInv, BoxInv
<1>4. CASE Alloc(o, ks, op)
  <2>1. DOMAIN heap' = DOMAIN heap \cup {o} /\ UNCHANGED regions  BY <1>4 DEF Alloc, NewBox, regionVars
  <2>2. InRegions' = InRegions /\ Used' = Used \cup {o} /\ Unpoisoned' = Unpoisoned
    BY <1>1, <2>1 DEF InRegions, Used, Unpoisoned
  <2>3. DOMAIN heap' \cap InRegions' = {}  BY <1>1, <1>3, <2>1, <2>2 DEF Used
  <2>4. BoxInv' /\ DangleInv'  BY <1>1, <1>2, <2>2, <2>3, NewNode
  <2>5. FenceInv'  BY <1>1, <1>2, <2>2, FenceNew
  <2> QED  BY <1>1, <2>4, <2>5, EnvSame DEF HeapInv
<1>5. CASE RegionAlloc(o, ks, op)
  <2>1. /\ regions # <<>> /\ regions' = [regions EXCEPT ![Len(regions)] = @ \cup {o}] /\ UNCHANGED heap
    BY <1>5 DEF RegionAlloc
  <2>2. regions \in Seq(SUBSET Objs) /\ watermark \in Nat /\ Len(regions) \in DOMAIN regions /\ DOMAIN regions = 1..Len(regions) /\ Len(regions) \in Nat
    BY <2>1 DEF GcTyped
  <2>3. /\ DOMAIN regions' = DOMAIN regions /\ Len(regions') = Len(regions)
        /\ regions'[Len(regions)] = regions[Len(regions)] \cup {o}
        /\ \A d \in DOMAIN regions : d # Len(regions) => regions'[d] = regions[d]
    BY <2>1, <2>2
  <2>4. UNION Range(regions') = (UNION Range(regions)) \cup {o}
    <3>1. \A d \in DOMAIN regions : regions[d] \subseteq regions'[d] /\ regions'[d] \subseteq regions[d] \cup {o}  BY <2>3
    <3>2. \A x : x \in UNION Range(regions') <=> \E d \in DOMAIN regions : x \in regions'[d]  BY <2>3 DEF Range
    <3>3. \A x : x \in UNION Range(regions) <=> \E d \in DOMAIN regions : x \in regions[d]  BY DEF Range
    <3> QED  BY <2>2, <2>3, <3>1, <3>2, <3>3
  <2>5. InRegions' = InRegions \cup {o} /\ Used' = Used \cup {o}  BY <1>1, <2>1, <2>4 DEF InRegions, Used
  <2>6. Unpoisoned' \subseteq Unpoisoned \cup {o}
    <3>1. \A d \in (watermark + 1)..Len(regions) : d \in DOMAIN regions  BY <2>2
    <3>2. \A d \in (watermark + 1)..Len(regions) : regions'[d] \subseteq regions[d] \cup {o}  BY <2>3, <3>1
    <3> QED  BY <1>1, <2>3, <3>2 DEF Unpoisoned, UnpoisonedIn
  <2>7. DOMAIN heap' \cap InRegions' = {}  BY <1>1, <1>3, <2>1, <2>5 DEF Used
  <2>8. BoxInv' /\ DangleInv'  BY <1>1, <1>2, <2>5, <2>7, NewNode
  <2>9. FenceInv'  BY <1>1, <1>2, <2>6, FenceNew
  <2> QED  BY <1>1, <2>8, <2>9, EnvSame DEF HeapInv
<1> QED  BY <1>4, <1>5

\* publish_value and the store.
LEMMA HeapPublish == ASSUME GcTyped, GcTyped', HeapInv, NEW o \in Objs, Publish(o) PROVE HeapInv'
<1>1. /\ o \in stack /\ PublishValue(o) /\ cur # None
      /\ UNCHANGED <<regions, retired, st, bound, boxed, stack, cur, envRoots, mispopped, exposed>>
  BY DEF Publish, boundVars
<1>2. EnvInv'  BY <1>1, EnvSame DEF HeapInv
<1>3. InRegions' = InRegions  BY <1>1 DEF InRegions
<1>t. kids \in Graphs /\ Outside \in SUBSET Objs /\ Outside \subseteq InUse  BY UseTyped DEF GcTyped
<1>4. ASSUME StoreAsIs(o) PROVE BoxInv' /\ DangleInv' /\ UNCHANGED kids /\ Outside' \subseteq Outside \cup {o}
  <2>1. cell' = {o} /\ UNCHANGED <<heap, kids, gone>>  BY <1>4 DEF StoreAsIs, heapVars
  <2>2. InUse' \subseteq InUse  BY <1>1, <2>1 DEF InUse
  <2>3. Outside' \subseteq Outside \cup {o}  BY <1>1, <2>1 DEF Outside
  <2> QED  BY <1>1, <2>1, <2>2, <2>3, NarrowUse
<1>5. CASE regions = <<>>
  <2>1. StoreAsIs(o)  BY <1>1, <1>5 DEF PublishValue
  <2>2. regions' = <<>>  BY <1>1, <1>5
  <2> QED  BY <1>2, <1>4, <2>1, <2>2, FenceEmpty DEF HeapInv
<1>6. CASE regions # <<>> /\ Scan(o) = "clean"
  <2>1. StoreAsIs(o) /\ UNCHANGED watermark  BY <1>1, <1>6 DEF PublishValue
  <2>2. Reach({o}) = ReachIn(kids, {o})  BY DEF Reach, ReachIn, Step, StepIn
  <2>3. ReachIn(kids, {o}) \cap InRegions = {}  BY <1>6, <2>2 DEF Scan
  <2>4. kids' = kids /\ Outside' \in SUBSET Objs /\ Outside \cup {o} \in SUBSET Objs /\ Outside' \subseteq Outside \cup {o}
    BY <1>4, <1>t, <2>1
  <2>5. ReachIn(kids, Outside') \subseteq ReachIn(kids, Outside \cup {o})  BY <1>t, <2>4, ReachSets
  <2>6. ReachIn(kids, Outside \cup {o}) \subseteq ReachIn(kids, Outside) \cup ReachIn(kids, {o})  BY <1>t, ReachSets
  <2>7. Unpoisoned' = Unpoisoned /\ Unpoisoned \subseteq InRegions  BY <1>1, <2>1, UnpoisonedUsed DEF Unpoisoned
  <2>8. ReachIn(kids, Outside) \cap Unpoisoned = {}  BY DEF HeapInv, FenceInv
  <2>9. FenceInv'  BY <2>3, <2>4, <2>5, <2>6, <2>7, <2>8 DEF FenceInv
  <2> QED  BY <1>2, <1>4, <2>1, <2>9 DEF HeapInv
<1>7. CASE regions # <<>> /\ Scan(o) = "dirty"
  <2>1. StoreCopy(o) /\ UNCHANGED watermark  BY <1>1, <1>7 DEF PublishValue
  <2>2. PICK c \in Fresh : NewBox(cur, c, {}, FALSE) /\ cell' = {c} /\ UNCHANGED gone  BY <2>1 DEF StoreCopy
  <2>3. /\ c \in Objs /\ c \notin Used /\ DOMAIN heap' = DOMAIN heap \cup {c} /\ kids' = [kids EXCEPT ![c] = {}]
    BY <2>2 DEF NewBox, Fresh
  <2>4. Used' = Used \cup {c}  BY <1>3, <2>2, <2>3 DEF Used
  <2>5. DOMAIN heap' \cap InRegions' = {}  BY <1>3, <2>3 DEF Used, HeapInv, BoxInv
  <2>6. InUse' \subseteq InUse \cup {c} /\ Outside' \subseteq Outside \cup {c}  BY <1>1, <2>2 DEF InUse, Outside
  <2>7. BoxInv' /\ DangleInv'  BY <1>1, <2>2, <2>3, <2>4, <2>5, <2>6, NewNode
  <2>8. FenceInv'
    <3>1. kids \in Graphs /\ Used \in SUBSET Objs /\ Closed(kids, Used) /\ Outside \in SUBSET Used
      BY <1>t, RegionsTyped, UsedClosed DEF HeapInv, BoxInv
    <3>2. ReachIn(kids', Outside \cup {c}) \subseteq ReachIn(kids, Outside) \cup {c}  BY <2>3, <3>1, ReachNew
    <3>3. ReachIn(kids', Outside') \subseteq ReachIn(kids', Outside \cup {c})
      <4>1. kids' \in Graphs /\ Outside' \in SUBSET Objs /\ Outside \cup {c} \in SUBSET Objs
        BY <1>t, <2>3, <2>6 DEF GcTyped
      <4> QED  BY <2>6, <4>1, ReachSets
    <3>4. Unpoisoned' = Unpoisoned /\ Unpoisoned \subseteq Used  BY <1>1, <2>1, UnpoisonedUsed DEF Unpoisoned, Used
    <3>5. ReachIn(kids, Outside) \cap Unpoisoned = {}  BY DEF HeapInv, FenceInv
    <3> QED  BY <2>3, <3>2, <3>3, <3>4, <3>5 DEF FenceInv
  <2> QED  BY <1>2, <2>7, <2>8 DEF HeapInv
<1>8. CASE regions # <<>> /\ Scan(o) # "clean" /\ Scan(o) # "dirty"
  <2>1. StoreAsIs(o) /\ watermark' = Poisoned  BY <1>1, <1>8 DEF PublishValue
  <2>2. Len(regions) \in Nat /\ watermark \in Nat  BY DEF GcTyped
  <2>3. Len(regions') <= watermark'  BY <1>1, <2>1, <2>2 DEF Poisoned
  <2> QED  BY <1>2, <1>4, <2>1, <2>3, FenceNone DEF HeapInv
<1> QED  BY <1>5, <1>6, <1>7, <1>8

\* What a set of boxes reaches, each of them reaches.
LEMMA ReachEach ==
    ASSUME NEW k \in Graphs, NEW S \in SUBSET Objs, NEW B, \A o \in S : ReachIn(k, {o}) \cap B = {}
    PROVE  ReachIn(k, S) \cap B = {}
<1> DEFINE C == UNION {ReachIn(k, {o}) : o \in S}
<1>1. \A o \in S : {o} \in SUBSET Objs  OBVIOUS
<1>2. \A o \in S : o \in ReachIn(k, {o}) /\ Closed(k, ReachIn(k, {o}))  BY <1>1, ReachIs
<1>3. S \subseteq C /\ Closed(k, C)  BY <1>2 DEF Closed
<1>4. C \cap B = {}  OBVIOUS
<1> HIDE DEF C
<1> QED  BY <1>3, <1>4, ReachIs

\* A region opens.
LEMMA HeapRegionStart == ASSUME GcTyped, GcTyped', HeapInv, RegionStart PROVE HeapInv'
<1>1. /\ regions' = Append(regions, {})
      /\ UNCHANGED <<heap, kids, gone, retired, watermark, cell, stack, st, bound, boxed, cur, envRoots, mispopped, exposed>>
  BY DEF RegionStart, heapVars, taskVars, rootVars, boundVars
<1>2. regions \in Seq(SUBSET Objs) /\ watermark \in Nat /\ {} \in SUBSET Objs  BY DEF GcTyped
<1>3. /\ DOMAIN regions' = DOMAIN regions \cup {Len(regions) + 1} /\ regions'[Len(regions) + 1] = {}
      /\ Len(regions) \in Nat /\ Range(regions') = Range(regions) \cup {{}}
      /\ \A d \in DOMAIN regions : regions'[d] = regions[d] /\ d \in 1..Len(regions)
  <2>0. PICK e : e = {}  OBVIOUS
  <2>1. e \in SUBSET Objs  BY <2>0
  <2>2. /\ DOMAIN Append(regions, e) = DOMAIN regions \cup {Len(regions) + 1} /\ Append(regions, e)[Len(regions) + 1] = e
        /\ Len(regions) \in Nat /\ Range(Append(regions, e)) = Range(regions) \cup {e}
        /\ \A d \in DOMAIN regions : Append(regions, e)[d] = regions[d] /\ d \in 1..Len(regions)
    BY <1>2, <2>1, AppendIs
  <2> QED  BY <1>1, <2>0, <2>2, Zenon
<1>4. InRegions' = InRegions /\ Used' = Used  BY <1>1, <1>3 DEF InRegions, Used
<1>5. Unpoisoned' \subseteq Unpoisoned
  <2>1. Len(regions') = Len(regions) + 1 /\ DOMAIN regions = 1..Len(regions)  BY <1>1, <1>2
  <2>2. ASSUME NEW d \in (watermark + 1)..(Len(regions) + 1) PROVE regions'[d] \subseteq Unpoisoned
    <3>1. CASE d = Len(regions) + 1  BY <1>3, <3>1
    <3>2. CASE d # Len(regions) + 1
      <4>1. d \in (watermark + 1)..Len(regions) /\ d \in DOMAIN regions  BY <1>2, <1>3, <2>1, <2>2, <3>2
      <4> QED  BY <1>3, <4>1 DEF Unpoisoned, UnpoisonedIn
    <3> QED  BY <3>1, <3>2
  <2>3. Unpoisoned' = UNION {regions'[d] : d \in (watermark + 1)..(Len(regions) + 1)}
    BY <1>1, <2>1 DEF Unpoisoned, UnpoisonedIn
  <2> QED  BY <2>2, <2>3
<1>6. InUse' = InUse /\ Outside' = Outside  BY <1>1 DEF InUse, Outside
<1>7. BoxInv'  BY <1>1, <1>4, <1>6 DEF HeapInv, BoxInv
<1>8. FenceInv' /\ DangleInv'  BY <1>1, <1>5, <1>6 DEF HeapInv, FenceInv, DangleInv
<1> QED  BY <1>1, <1>7, <1>8, EnvSame DEF HeapInv

\* The innermost region closes: kept when poisoned, freed when no path leads in.
LEMMA HeapRegionEnd == ASSUME GcTyped, GcTyped', HeapInv, RegionEnd PROVE HeapInv'
<1> DEFINE depth == Len(regions)
           boxes == regions[depth]
<1>1. /\ cur # None /\ regions # <<>> /\ Reach(bound[cur] \cup boxed[cur]) \cap boxes = {}
      /\ stack' = {o \in stack : Reach({o}) \cap boxes = {}} /\ regions' = Front(regions)
      /\ watermark' = IF depth <= watermark THEN depth - 1 ELSE watermark
      /\ retired' = IF depth <= watermark THEN retired \cup boxes ELSE retired
      /\ gone' = IF depth <= watermark THEN gone ELSE gone \cup boxes
      /\ UNCHANGED <<heap, kids, cell, st, bound, boxed, cur, envRoots, mispopped, exposed>>
  BY DEF RegionEnd, rootVars, boundVars
<1>2. regions \in Seq(SUBSET Objs) /\ watermark \in Nat /\ kids \in Graphs /\ cur \in Actors /\ stack \subseteq Objs
  BY <1>1 DEF GcTyped
<1>3. /\ depth \in Nat \ {0} /\ Len(regions') = depth - 1 /\ Range(regions) = Range(regions') \cup {boxes}
      /\ \A i \in 1..(depth - 1) : regions'[i] = regions[i]
  BY <1>1, <1>2, FrontIs
<1>4. InRegions' \subseteq InRegions /\ Used' = Used
  BY <1>1, <1>3 DEF InRegions, Used
<1>5. Unpoisoned' \subseteq Unpoisoned
  <2>1. CASE depth <= watermark
    <3>1. Len(regions') <= watermark' /\ watermark' \in Nat /\ Len(regions') \in Nat  BY <1>1, <1>2, <1>3, <2>1
    <3> QED  BY <3>1, AllPoisoned DEF Unpoisoned
  <2>2. CASE ~(depth <= watermark)
    <3>1. watermark' = watermark  BY <1>1, <2>2
    <3>2. \A d \in (watermark + 1)..(depth - 1) : d \in 1..(depth - 1) /\ d \in (watermark + 1)..depth  BY <1>2, <1>3
    <3>3. \A d \in (watermark + 1)..(depth - 1) : regions'[d] = regions[d]  BY <1>3, <3>2
    <3> QED  BY <1>3, <3>1, <3>2, <3>3 DEF Unpoisoned, UnpoisonedIn
  <2> QED  BY <2>1, <2>2
<1>6. ~(depth <= watermark) => boxes \subseteq Unpoisoned
  <2>1. ASSUME ~(depth <= watermark) PROVE boxes \subseteq Unpoisoned
    <3>1. depth \in (watermark + 1)..depth  BY <1>2, <1>3, <2>1
    <3> QED  BY <3>1 DEF Unpoisoned, UnpoisonedIn
  <2> QED  BY <2>1
<1>r. \A S \in SUBSET Objs : Reach(S) = ReachIn(kids, S)  BY DEF Reach, ReachIn, Step, StepIn
<1> DEFINE own == bound[cur] \cup boxed[cur]
<1>7. /\ own \in SUBSET Objs /\ stack' \in SUBSET Objs /\ Outside \in SUBSET Objs /\ InUse \in SUBSET Objs
      /\ InUse' \subseteq InUse /\ InUse' \subseteq (Outside \cup own) \cup stack' /\ Outside' = Outside
  <2>1. own \subseteq Objs  BY <1>2 DEF GcTyped
  <2>2. InUse' \subseteq InUse  BY <1>1 DEF InUse
  <2>3. InUse' \subseteq (Outside \cup own) \cup stack'  BY <1>1 DEF InUse, Outside
  <2>4. Outside' = Outside  BY <1>1 DEF Outside
  <2>5. stack' \subseteq Objs  BY <1>1, <1>2
  <2> QED  BY <2>1, <2>2, <2>3, <2>4, <2>5, UseTyped
<1>8. ReachIn(kids, own) \cap boxes = {}  BY <1>1, <1>7, <1>r
<1>9. ReachIn(kids, stack') \cap boxes = {}
  <2>1. \A o \in stack' : {o} \in SUBSET Objs  BY <1>7
  <2>2. \A o \in stack' : Reach({o}) \cap boxes = {}  BY <1>1
  <2>3. \A o \in stack' : ReachIn(kids, {o}) \cap boxes = {}  BY <1>r, <2>1, <2>2
  <2> QED  BY <1>2, <1>7, <2>3, ReachEach
<1> HIDE DEF boxes, depth, own
<1>10. ReachIn(kids, InUse') \subseteq ReachIn(kids, InUse)
  BY <1>2, <1>7, ReachSets
<1>11. ReachIn(kids, InUse') \subseteq (ReachIn(kids, Outside) \cup ReachIn(kids, own)) \cup ReachIn(kids, stack')
  <2>1. Outside \cup own \in SUBSET Objs /\ (Outside \cup own) \cup stack' \in SUBSET Objs /\ InUse' \in SUBSET Objs  BY <1>7
  <2>2. ReachIn(kids, Outside \cup own) \subseteq ReachIn(kids, Outside) \cup ReachIn(kids, own)  BY <1>2, <1>7, ReachSets
  <2>3. ReachIn(kids, (Outside \cup own) \cup stack') \subseteq ReachIn(kids, Outside \cup own) \cup ReachIn(kids, stack')
    BY <1>2, <1>7, <2>1, ReachSets
  <2>4. ReachIn(kids, InUse') \subseteq ReachIn(kids, (Outside \cup own) \cup stack')  BY <1>2, <1>7, <2>1, ReachSets
  <2> QED  BY <2>2, <2>3, <2>4
<1>12. BoxInv'  BY <1>1, <1>4, <1>7 DEF HeapInv, BoxInv
<1>13. FenceInv'  BY <1>1, <1>5, <1>7 DEF HeapInv, FenceInv
<1>14. DangleInv'
  <2>1. SUFFICES ASSUME ~exposed', ~mispopped' PROVE ReachIn(kids', InUse') \cap gone' = {}  BY DEF DangleInv
  <2>2. ReachIn(kids, InUse) \cap gone = {}  BY <1>1, <2>1 DEF HeapInv, DangleInv
  <2>3. CASE depth <= watermark  BY <1>1, <1>10, <2>2, <2>3
  <2>4. CASE ~(depth <= watermark)
    <3>1. ReachIn(kids, Outside) \cap boxes = {}  BY <1>6, <2>4 DEF HeapInv, FenceInv
    <3>2. ReachIn(kids, InUse') \cap boxes = {}  BY <1>8, <1>9, <1>11, <3>1
    <3> QED  BY <1>1, <1>10, <2>2, <2>4, <3>2
  <2> QED  BY <2>3, <2>4
<1> QED  BY <1>1, <1>12, <1>13, <1>14, EnvSame DEF HeapInv

\* A collection frees only what the mark did not meet.
LEMMA HeapCollect == ASSUME GcTyped, GcTyped', HeapInv, CollectInner PROVE HeapInv'
<1> DEFINE dead == Swept(Mark)
<1>1. /\ DOMAIN heap' = DOMAIN heap \ dead /\ gone' = gone \cup dead
      /\ exposed' = (exposed \/ ~ (UNION Range(boxed) \subseteq Mark \cup InRegions))
      /\ UNCHANGED <<kids, regions, retired, watermark, cell, st, bound, boxed, stack, cur, envRoots, mispopped>>
  BY DEF CollectInner, regionVars, taskVars, rootVars
<1>2. dead \subseteq DOMAIN heap /\ dead \cap Mark = {}
  BY DEF Swept, Lives
<1> HIDE DEF dead
<1>3. InRegions' = InRegions /\ Used' = Used /\ InUse' = InUse /\ Outside' = Outside /\ Unpoisoned' = Unpoisoned
  BY <1>1, <1>2 DEF InRegions, Used, InUse, Outside, Unpoisoned
<1>4. BoxInv'  BY <1>1, <1>3 DEF HeapInv, BoxInv
<1>5. FenceInv'  BY <1>1, <1>3 DEF HeapInv, FenceInv
<1>6. DangleInv'
  <2>1. SUFFICES ASSUME ~exposed', ~mispopped' PROVE ReachIn(kids', InUse') \cap gone' = {}  BY DEF DangleInv
  <2>2. ~exposed /\ ~mispopped /\ UNION Range(boxed) \subseteq Mark \cup InRegions  BY <1>1, <2>1
  <2>3. /\ kids \in Graphs /\ bound \in [Actors -> SUBSET Objs] /\ boxed \in [Actors -> SUBSET Objs] /\ cell \subseteq Objs
        /\ stack \subseteq Objs /\ cur \in Actors \cup {None} /\ InUse \in SUBSET Objs /\ InRegions \subseteq Objs
        /\ Tasks \subseteq Actors /\ Range(allocRoots) \subseteq Objs
    <3>1. allocRoots \in Seq(Objs)  BY DEF GcTyped
    <3>2. Range(allocRoots) \subseteq Objs  BY <3>1 DEF Range
    <3> QED  BY <3>2, RegionsTyped, UseTyped DEF GcTyped, Actors
  <2>4. /\ envRoots \in Seq(Tasks)
        /\ \A t \in Tasks : st[t] \in {"running", "parked"} => t \in Range(envRoots)
        /\ bound[Main] = {}
        /\ \A t \in Actors : bound[t] # {} => st[t] \in {"running", "parked"}
    BY <2>2 DEF HeapInv, EnvInv
  <2>5. \A i \in DOMAIN envRoots : envRoots[i] \in Actors  BY <2>3, <2>4
  <2>6. Roots \subseteq Objs
    <3>1. UNION {bound[envRoots[i]] : i \in DOMAIN envRoots} \subseteq Objs  BY <2>3, <2>5
    <3>2. (IF cur = None THEN {} ELSE bound[cur]) \subseteq Objs  BY <2>3
    <3> QED  BY <2>3, <3>1, <3>2 DEF Roots
  <2>7. Roots \subseteq Mark \cup InRegions /\ Closed(kids, Mark \cup InRegions)  BY <2>3, <2>6, MarkIs
  <2>8. \A t \in Actors : bound[t] \subseteq Roots
    <3>1. ASSUME NEW t \in Actors, bound[t] # {} PROVE bound[t] \subseteq Roots
      <4>1. t \in Tasks  BY <2>4, <3>1 DEF Actors
      <4>2. t \in Range(envRoots)  BY <2>4, <3>1, <4>1
      <4>3. PICK i \in DOMAIN envRoots : envRoots[i] = t  BY <4>2 DEF Range
      <4> QED  BY <4>3 DEF Roots
    <3> QED  BY <3>1
  <2>9. \A t \in Actors : boxed[t] \subseteq Mark \cup InRegions  BY <2>2, <2>3 DEF Range
  <2>10. InUse \subseteq Mark \cup InRegions
    <3>1. cell \subseteq Roots /\ stack \subseteq Roots  BY DEF Roots
    <3> QED  BY <2>7, <2>8, <2>9, <3>1 DEF InUse
  <2>11. ReachIn(kids, InUse) \subseteq Mark \cup InRegions  BY <2>3, <2>7, <2>10, ReachIs
  <2>12. dead \cap InRegions = {}  BY <1>2 DEF HeapInv, BoxInv
  <2>13. ReachIn(kids, InUse) \cap gone = {}  BY <2>2 DEF HeapInv, DangleInv
  <2> QED  BY <1>1, <1>2, <1>3, <2>11, <2>12, <2>13
<1> QED  BY <1>1, <1>4, <1>5, <1>6, EnvSame DEF HeapInv

\* Every step.
LEMMA HeapStep == GcTyped /\ HeapInv /\ [Next]_vars => HeapInv'
<1> SUFFICES ASSUME GcTyped, HeapInv, [Next]_vars PROVE HeapInv'  OBVIOUS
<1>t. GcTyped'  BY TypedStep
<1>0. CASE UNCHANGED vars \/ LoopStart \/ LoopEnd
  <2>1. UNCHANGED <<heap, kids, gone, regions, retired, watermark, cell, st, bound, boxed, stack, cur, envRoots, mispopped, exposed>>
    BY <1>0 DEF vars, LoopStart, LoopEnd, heapVars, regionVars, taskVars, rootVars, boundVars
  <2>2. InUse' = InUse /\ Outside' = Outside  BY <2>1 DEF InUse, Outside
  <2> QED  BY <2>1, <2>2, NarrowUse, FenceSame, EnvSame DEF HeapInv
<1>1. CASE \E o \in Objs, op \in BOOLEAN : \E ks \in SUBSET stack : Alloc(o, ks, op) \/ RegionAlloc(o, ks, op)
  BY <1>1, <1>t, HeapAlloc
<1>2. CASE \E o \in Objs : Publish(o)  BY <1>2, <1>t, HeapPublish
<1>3. CASE \E t \in Tasks, args \in SUBSET stack : Spawn(t, args)  BY <1>3, <1>t, HeapSpawn
<1>4. CASE \E t \in Actors : FirstPoll(t)  BY <1>4, <1>t, HeapPoll
<1>5. CASE (\E t \in Actors : Resume(t)) \/ Await \/ BeginForm \/ EndForm  BY <1>5, <1>t, HeapTurn
<1>6. CASE Safepoint \/ ForceCollect  BY <1>6, <1>t, HeapCollect DEF Safepoint, ForceCollect
<1> QED  BY <1>0, <1>1, <1>2, <1>3, <1>4, <1>5, <1>6, <1>t, HeapCode, HeapRegionStart, HeapRegionEnd, HeapFinish DEF Next

\* But for a popped Env and for locals no root reached, nothing the program can
\* reach is ever freed, by a collection (collect_inner) or by the end of a
\* region (close_region).
THEOREM NothingDangles == Spec => []NoDangling
<1>1. Init => GcTyped /\ HeapInv  BY TypedInit, HeapInit
<1>2. GcTyped /\ HeapInv /\ [Next]_vars => (GcTyped /\ HeapInv)'  BY TypedStep, HeapStep
<1>3. HeapInv => NoDangling
  <2>1. Reach(InUse) = ReachIn(kids, InUse)  BY DEF Reach, ReachIn, Step, StepIn
  <2> QED  BY <2>1 DEF HeapInv, DangleInv, NoDangling
<1> QED  BY <1>1, <1>2, <1>3, PTL DEF Spec
=============================================================================
