--------------------------- MODULE ServicesProofs ---------------------------
(***************************************************************************)
(* The services of Services.tla do what they promise for any number of        *)
(* isolates, requests, pods, atoms, tasks and transactions.  Each component    *)
(* has an inductive invariant of its own, kept by its steps and left alone by   *)
(* the others'; ServicesInv is their conjunction.                             *)
(***************************************************************************)
EXTENDS Services, SequenceTheorems, FiniteSetTheorems, TLAPS

-----------------------------------------------------------------------------
(* Sequences *)

\* What Append does to the elements.
LEMMA PushSeq ==
    ASSUME NEW S, NEW s \in Seq(S), NEW x \in S
    PROVE  /\ Append(s, x) \in Seq(S) /\ Len(Append(s, x)) = Len(s) + 1 /\ Len(s) \in Nat
           /\ DOMAIN s = 1..Len(s) /\ DOMAIN Append(s, x) = 1..(Len(s) + 1)
           /\ \A k \in 1..Len(s) : Append(s, x)[k] = s[k]
           /\ Append(s, x)[Len(s) + 1] = x
OBVIOUS

\* What Head and Tail do.
LEMMA TailSeq ==
    ASSUME NEW S, NEW s \in Seq(S), s # <<>>
    PROVE  /\ Tail(s) \in Seq(S) /\ Len(Tail(s)) = Len(s) - 1 /\ Len(s) \in Nat \ {0}
           /\ DOMAIN s = 1..Len(s) /\ DOMAIN Tail(s) = 1..(Len(s) - 1)
           /\ Head(s) = s[1] /\ Head(s) \in S
           /\ \A k \in 1..(Len(s) - 1) : Tail(s)[k] = s[k + 1]
OBVIOUS

\* The first m elements.
LEMMA PrefixSeq ==
    ASSUME NEW S, NEW s \in Seq(S), NEW m \in 0..Len(s)
    PROVE  /\ SubSeq(s, 1, m) \in Seq(S) /\ Len(SubSeq(s, 1, m)) = m
           /\ DOMAIN SubSeq(s, 1, m) = 1..m
           /\ \A k \in 1..m : SubSeq(s, 1, m)[k] = s[k]
<1> DEFINE t == SubSeq(s, 1, m)
<1>1. Len(s) \in Nat /\ m \in Nat /\ m <= Len(s) /\ \A k \in 1..m : s[k] \in S  OBVIOUS
<1>2. /\ t \in Seq(S) /\ Len(t) = IF 1 <= m THEN m - 1 + 1 ELSE 0
      /\ \A k \in 1..(m - 1 + 1) : t[k] = s[1 + k - 1]
  BY <1>1, SubSeqProperties
<1> HIDE DEF t
<1>3. Len(t) = m
  <2>1. CASE m = 0  BY <1>1, <1>2, <2>1
  <2>2. CASE m > 0  BY <1>1, <1>2, <2>2
  <2> QED  BY <1>1, <2>1, <2>2
<1>4. ASSUME NEW k \in 1..m PROVE t[k] = s[k]
  <2>1. k \in 1..(m - 1 + 1) /\ 1 + k - 1 = k  BY <1>1
  <2> QED  BY <1>2, <2>1
<1> QED  BY <1>2, <1>3, <1>4 DEF t

\* The innermost frame is popped.
LEMMA PopSeq ==
    ASSUME NEW S, NEW s \in Seq(S), s # <<>>
    PROVE  LET t == SubSeq(s, 1, Len(s) - 1) IN
           /\ t \in Seq(S) /\ Len(t) = Len(s) - 1 /\ Len(s) \in Nat \ {0}
           /\ DOMAIN s = 1..Len(s) /\ DOMAIN t = 1..(Len(s) - 1) /\ s[Len(s)] \in S
           /\ \A k \in 1..(Len(s) - 1) : t[k] = s[k]
<1>1. Len(s) \in Nat \ {0} /\ DOMAIN s = 1..Len(s) /\ s[Len(s)] \in S  OBVIOUS
<1>2. Len(s) - 1 \in 0..Len(s)  BY <1>1
<1> QED  BY <1>1, <1>2, PrefixSeq

\* The innermost frame is replaced.
LEMMA ReplaceLast ==
    ASSUME NEW S, NEW s \in Seq(S), s # <<>>, NEW x \in S
    PROVE  LET t == SubSeq(s, 1, Len(s) - 1) \o <<x>> IN
           /\ t \in Seq(S) /\ Len(t) = Len(s) /\ Len(s) \in Nat \ {0}
           /\ DOMAIN s = 1..Len(s) /\ DOMAIN t = 1..Len(s) /\ s[Len(s)] \in S
           /\ \A k \in 1..(Len(s) - 1) : t[k] = s[k]
           /\ t[Len(s)] = x
<1> DEFINE r == SubSeq(s, 1, Len(s) - 1)
<1>1. /\ r \in Seq(S) /\ Len(r) = Len(s) - 1 /\ Len(s) \in Nat \ {0}
      /\ DOMAIN s = 1..Len(s) /\ s[Len(s)] \in S /\ \A k \in 1..(Len(s) - 1) : r[k] = s[k]
  BY PopSeq
<1> HIDE DEF r
<1>2. r \o <<x>> = Append(r, x)  BY <1>1, AppendIsConcat
<1>3. /\ Append(r, x) \in Seq(S) /\ Len(Append(r, x)) = Len(r) + 1
      /\ DOMAIN Append(r, x) = 1..(Len(r) + 1)
      /\ \A k \in 1..Len(r) : Append(r, x)[k] = r[k]
      /\ Append(r, x)[Len(r) + 1] = x
  BY <1>1, PushSeq
<1>4. Len(r) + 1 = Len(s)  BY <1>1
<1> QED  BY <1>1, <1>2, <1>3, <1>4 DEF r

\* A sequence of one element.
LEMMA SingleSeq ==
    ASSUME NEW S, NEW s \in Seq(S), Len(s) = 1
    PROVE  s = <<s[1]>>
OBVIOUS

\* The last elements.
LEMMA SuffixSeq ==
    ASSUME NEW S, NEW s \in Seq(S), NEW m \in 0..Len(s)
    PROVE  LET t == SubSeq(s, m + 1, Len(s)) IN
           /\ t \in Seq(S) /\ DOMAIN t = 1..(Len(s) - m)
           /\ \A k \in 1..(Len(s) - m) : t[k] = s[k + m]
<1> DEFINE t == SubSeq(s, m + 1, Len(s))
<1>1. Len(s) \in Nat /\ m \in Nat /\ m <= Len(s) /\ \A k \in (m + 1)..Len(s) : s[k] \in S  OBVIOUS
<1>2. /\ t \in Seq(S) /\ Len(t) = IF m + 1 <= Len(s) THEN Len(s) - (m + 1) + 1 ELSE 0
      /\ \A k \in 1..(Len(s) - (m + 1) + 1) : t[k] = s[(m + 1) + k - 1]
  BY <1>1, SubSeqProperties
<1> HIDE DEF t
<1>3. Len(t) = Len(s) - m
  <2>1. CASE m = Len(s)  BY <1>1, <1>2, <2>1
  <2>2. CASE m < Len(s)  BY <1>1, <1>2, <2>2
  <2> QED  BY <1>1, <2>1, <2>2
<1>4. ASSUME NEW k \in 1..(Len(s) - m) PROVE t[k] = s[k + m]
  <2>1. k \in 1..(Len(s) - (m + 1) + 1) /\ (m + 1) + k - 1 = k + m  BY <1>1
  <2> QED  BY <1>2, <2>1
<1>5. DOMAIN t = 1..(Len(s) - m)  BY <1>2, <1>3
<1> QED  BY <1>2, <1>4, <1>5 DEF t
-----------------------------------------------------------------------------
(* The shared atom *)

\* An Arc is made once: whoever read the Arc that is in the cell read its value.
SharedInv ==
    /\ sa_arcs \in Nat
    /\ sa_cell \in [arc : Nat, val : Nat] /\ sa_cell.arc <= sa_arcs
    /\ sa_op \in [Isolates -> {"idle", "swap", "cas"}]
    /\ sa_read \in [Isolates -> [arc : Nat, val : Nat]]
    /\ \A i \in Isolates : /\ sa_read[i].arc <= sa_arcs
                           /\ sa_read[i].arc = sa_cell.arc => sa_read[i].val = sa_cell.val
    /\ sa_cell.val = sa_expect /\ sa_lied = FALSE

\* It holds of a new atom.
LEMMA SharedInit == ASSUME Shared!Init PROVE SharedInv
BY DEF Shared!Init, SharedInv

\* Every write keeps it.
LEMMA SharedStep ==
    ASSUME SharedInv, Shared!Next \/ UNCHANGED saVars
    PROVE  SharedInv'
<1>1. CASE UNCHANGED saVars  BY <1>1 DEF SharedInv, saVars
<1>2. ASSUME NEW i \in Isolates, Shared!Reset(i) PROVE SharedInv'
  BY <1>2 DEF SharedInv, Shared!Reset, Shared!Fresh, Shared!Promote
<1>3. ASSUME NEW i \in Isolates, NEW k \in {"swap", "cas"}, Shared!Load(i, k) PROVE SharedInv'
  BY <1>3 DEF SharedInv, Shared!Load
<1>4. ASSUME NEW i \in Isolates, Shared!SwapCommit(i) PROVE SharedInv'
  BY <1>4 DEF SharedInv, Shared!SwapCommit, Shared!Same, Shared!Fresh, Shared!Promote
<1>5. ASSUME NEW i \in Isolates, Shared!SwapFails(i) PROVE SharedInv'
  BY <1>5 DEF SharedInv, Shared!SwapFails
<1>6. ASSUME NEW i \in Isolates, Shared!CasCommit(i) PROVE SharedInv'
  <2>1. CASE Shared!Same(i)
    <3>1. sa_read[i].val = sa_cell.val /\ sa_lied = FALSE
      BY <2>1 DEF SharedInv, Shared!Same
    <3>2. sa_lied' = FALSE
      BY <1>6, <2>1, <3>1 DEF Shared!CasCommit
    <3> QED  BY <1>6, <2>1, <3>2 DEF SharedInv, Shared!CasCommit, Shared!Same, Shared!Fresh, Shared!Promote
  <2>2. CASE ~Shared!Same(i)
    BY <1>6, <2>2 DEF SharedInv, Shared!CasCommit
  <2> QED  BY <2>1, <2>2
<1> QED  BY <1>1, <1>2, <1>3, <1>4, <1>5, <1>6 DEF Shared!Next

-----------------------------------------------------------------------------
(* Reference types *)

Cells == {"delay", "lazy"}
RefFrame == [op : {"swap", "rt_swap", "reset"} \cup Cells, id : Nat, old : SUBSET Nat,
             at : {"f", "watch", "thunk"}]

\* The stack is one of swaps, resets and thunks; those of swaps and resets are
\* numbered by the operation.
FrameTyped(f) ==
    /\ f.at = "thunk" <=> f.op \in Cells
    /\ f.at # "thunk" => f.id \in AtomOps
RefTyped ==
    /\ re_stack \in Seq(RefFrame)
    /\ \A i \in 1..Len(re_stack) : FrameTyped(re_stack[i])
    /\ re_cells \in [Cells -> {"pending", "nil", "value", "error"}]
    /\ re_runs \in [Cells -> Nat]
    /\ re_atom \subseteq Nat

\* A cell that is neither pending nor answered by its thunk is one whose thunk runs
\* now, or threw.
ForcedInv ==
    /\ \A c \in Cells :
           /\ re_runs[c] <= 1
           /\ re_cells[c] = "pending" => re_runs[c] = 0
           /\ re_cells[c] = "error" => c \in re_threw
           /\ re_cells[c] = "nil" =>
                  c \in re_threw \/ \E i \in 1..Len(re_stack) : re_stack[i].op = c
    /\ ~re_saw.in /\ re_saw.cell \notin re_threw => re_saw.got = "value"

\* While the function of a swap! runs, the atom has gained, over the value that the
\* swap! read, only updates made inside that function; and so have the values read
\* by the operations inside it.
Inside(i, S) == \A u \in S \ re_stack[i].old : re_stack[i].id \in re_under[u]
NestInv ==
    /\ re_atom \subseteq DOMAIN re_under
    /\ \A i \in 1..Len(re_stack) :
           /\ re_stack[i].at # "thunk" => re_stack[i].old \subseteq DOMAIN re_under
           /\ re_stack[i].at = "f" =>
                  /\ re_stack[i].id \notin DOMAIN re_under
                  /\ Inside(i, re_atom)
                  /\ \A j \in (i + 1)..Len(re_stack) : re_stack[j].at = "f" => Inside(i, re_stack[j].old)
           /\ \A j \in 1..Len(re_stack) :
                  i # j /\ re_stack[i].id = re_stack[j].id => re_stack[i].at = "thunk"

\* Nothing is in progress at first.
LEMMA RefInit == ASSUME Ref!Init PROVE RefTyped /\ ForcedInv /\ NestInv
<1>1. re_stack = <<>> /\ Len(re_stack) = 0 /\ re_stack \in Seq(RefFrame)  BY DEF Ref!Init
<1>2. RefTyped  BY <1>1 DEF Ref!Init, RefTyped, Cells
<1>3. ForcedInv  BY <1>1 DEF Ref!Init, ForcedInv, Cells
<1>4. NestInv  BY <1>1 DEF Ref!Init, NestInv
<1> QED  BY <1>2, <1>3, <1>4

\* The four ways in which the stack changes.
LEMMA RefPush ==
    ASSUME RefTyped, NEW f \in RefFrame, Ref!Push(f)
    PROVE  /\ re_stack' \in Seq(RefFrame) /\ Len(re_stack') = Len(re_stack) + 1
           /\ Len(re_stack) \in Nat /\ re_stack'[Len(re_stack) + 1] = f
           /\ \A k \in 1..Len(re_stack) : re_stack'[k] = re_stack[k]
BY PushSeq DEF RefTyped, Ref!Push

\* A frame that goes on is the innermost one.
LEMMA RefNow ==
    ASSUME RefTyped, NEW at, at # "none", Ref!Now(at)
    PROVE  /\ re_stack # <<>> /\ Len(re_stack) \in Nat \ {0}
           /\ Ref!Top = re_stack[Len(re_stack)] /\ Ref!Top \in RefFrame /\ Ref!Top.at = at
<1>1. re_stack # <<>>  BY DEF Ref!Now, Ref!At
<1>2. Ref!Top = re_stack[Len(re_stack)]  BY DEF Ref!Top, Ref!Last
<1> QED  BY <1>1, <1>2, PopSeq DEF RefTyped, Ref!Now, Ref!At

\* An operation returns.
LEMMA RefPop ==
    ASSUME RefTyped, re_stack # <<>>, Ref!Pop
    PROVE  /\ re_stack' \in Seq(RefFrame) /\ Len(re_stack') = Len(re_stack) - 1
           /\ Len(re_stack) \in Nat \ {0}
           /\ \A k \in 1..(Len(re_stack) - 1) : re_stack'[k] = re_stack[k]
BY PopSeq DEF RefTyped, Ref!Pop, Ref!Front

\* The innermost operation goes on to its next stage.
LEMMA RefReplace ==
    ASSUME RefTyped, re_stack # <<>>, NEW f \in RefFrame,
           re_stack' = Ref!Front(re_stack) \o <<f>>
    PROVE  /\ re_stack' \in Seq(RefFrame) /\ Len(re_stack') = Len(re_stack)
           /\ Len(re_stack) \in Nat \ {0}
           /\ \A k \in 1..(Len(re_stack) - 1) : re_stack'[k] = re_stack[k]
           /\ re_stack'[Len(re_stack)] = f
BY ReplaceLast DEF RefTyped, Ref!Front

\* What an operation sees of the frames around it.
LEMMA RefFresh ==
    ASSUME RefTyped, NEW id, Ref!Fresh(id)
    PROVE  id \notin DOMAIN re_under /\ \A i \in 1..Len(re_stack) : re_stack[i].id # id
<1>1. DOMAIN re_stack = 1..Len(re_stack)  BY DEF RefTyped
<1> QED  BY <1>1 DEF Ref!Fresh, Ref!Frames, Ref!Range

\* The frames that a swap! or reset! puts on the stack.
LEMMA RefFrames ==
    ASSUME RefTyped, NEW id \in AtomOps
    PROVE  /\ \A op \in {"swap", "rt_swap"} : [op |-> op, id |-> id, old |-> re_atom, at |-> "f"] \in RefFrame
           /\ [op |-> "reset", id |-> id, old |-> re_atom, at |-> "watch"] \in RefFrame
           /\ \A c \in Cells : [op |-> c, id |-> 0, old |-> {}, at |-> "thunk"] \in RefFrame
BY ServicesAssumption DEF RefTyped, RefFrame, Cells

\* The frame of a thunk.
LEMMA ThunkFrames ==
    ASSUME NEW c \in Cells
    PROVE  [op |-> c, id |-> 0, old |-> {}, at |-> "thunk"] \in RefFrame
BY DEF RefFrame, Cells

\* Every step keeps the types.
LEMMA RefTypedStep ==
    ASSUME RefTyped, Ref!Next \/ UNCHANGED reVars
    PROVE  RefTyped'
<1> USE ServicesAssumption DEF Ref!atomVars, Ref!cellVars
<1> DEFINE Stack == re_stack \in Seq(RefFrame) /\ \A i \in 1..Len(re_stack) : FrameTyped(re_stack[i])
           Cell == /\ re_cells \in [Cells -> {"pending", "nil", "value", "error"}]
                   /\ re_runs \in [Cells -> Nat]
<1>a. RefTyped <=> Stack /\ Cell /\ re_atom \subseteq Nat  BY DEF RefTyped
<1>b. RefTyped' <=> Stack' /\ Cell' /\ re_atom' \subseteq Nat  BY DEF RefTyped
<1>c. ASSUME NEW f \in RefFrame, FrameTyped(f), Ref!Push(f) PROVE Stack'
  <2>1. /\ re_stack' \in Seq(RefFrame) /\ Len(re_stack') = Len(re_stack) + 1
        /\ Len(re_stack) \in Nat /\ re_stack'[Len(re_stack) + 1] = f
        /\ \A k \in 1..Len(re_stack) : re_stack'[k] = re_stack[k]
    BY <1>c, RefPush
  <2>2. ASSUME NEW i \in 1..Len(re_stack') PROVE FrameTyped(re_stack'[i])
    <3>1. i \in 1..Len(re_stack) \/ i = Len(re_stack) + 1  BY <2>1
    <3> QED  BY <1>a, <1>c, <2>1, <3>1
  <2> QED  BY <2>1, <2>2 DEF FrameTyped
<1>d. ASSUME re_stack # <<>>, Ref!Pop PROVE Stack'
  <2>1. /\ re_stack' \in Seq(RefFrame) /\ Len(re_stack') = Len(re_stack) - 1
        /\ Len(re_stack) \in Nat \ {0}
        /\ \A k \in 1..(Len(re_stack) - 1) : re_stack'[k] = re_stack[k]
    BY <1>d, RefPop
  <2>2. ASSUME NEW i \in 1..Len(re_stack') PROVE FrameTyped(re_stack'[i])
    <3>1. i \in 1..Len(re_stack) /\ i \in 1..(Len(re_stack) - 1)  BY <2>1
    <3> QED  BY <1>a, <2>1, <3>1
  <2> QED  BY <2>1, <2>2 DEF FrameTyped
<1>e. ASSUME re_stack # <<>>, NEW f \in RefFrame, FrameTyped(f),
             re_stack' = Ref!Front(re_stack) \o <<f>>
      PROVE  Stack'
  <2>1. /\ re_stack' \in Seq(RefFrame) /\ Len(re_stack') = Len(re_stack)
        /\ Len(re_stack) \in Nat \ {0}
        /\ \A k \in 1..(Len(re_stack) - 1) : re_stack'[k] = re_stack[k]
        /\ re_stack'[Len(re_stack)] = f
    BY <1>e, RefReplace
  <2>2. ASSUME NEW i \in 1..Len(re_stack') PROVE FrameTyped(re_stack'[i])
    <3>1. i \in 1..Len(re_stack) /\ (i \in 1..(Len(re_stack) - 1) \/ i = Len(re_stack))  BY <2>1
    <3> QED  BY <1>a, <1>e, <2>1, <3>1
  <2> QED  BY <2>1, <2>2 DEF FrameTyped
<1>f. ASSUME NEW at, at # "none", Ref!Now(at)
      PROVE  /\ re_stack # <<>> /\ Ref!Top = re_stack[Len(re_stack)] /\ Ref!Top \in RefFrame
             /\ Ref!Top.at = at /\ FrameTyped(Ref!Top)
  BY <1>a, <1>f, RefNow
<1> HIDE DEF Stack
<1>0. CASE UNCHANGED reVars  BY <1>0 DEF reVars, RefTyped
<1>1. ASSUME NEW id \in AtomOps, NEW op \in {"swap", "rt_swap"}, Ref!BeginSwap(id, op) PROVE RefTyped'
  <2> DEFINE f == [op |-> op, id |-> id, old |-> re_atom, at |-> "f"]
  <2>1. f \in RefFrame /\ FrameTyped(f)  BY RefFrames DEF Cells, FrameTyped
  <2>2. Ref!Push(f)  BY <1>1 DEF Ref!BeginSwap
  <2> HIDE DEF f
  <2> QED  BY <1>1, <1>a, <1>b, <1>c, <2>1, <2>2 DEF Ref!BeginSwap
<1>2. ASSUME NEW id \in AtomOps, Ref!Reset(id) PROVE RefTyped'
  <2> DEFINE f == [op |-> "reset", id |-> id, old |-> re_atom, at |-> "watch"]
  <2>1. f \in RefFrame /\ FrameTyped(f)  BY RefFrames DEF Cells, FrameTyped
  <2>2. Ref!Push(f)  BY <1>2 DEF Ref!Reset
  <2> HIDE DEF f
  <2> QED  BY <1>2, <1>a, <1>b, <1>c, <2>1, <2>2 DEF Ref!Reset, Ref!Store
<1>3. ASSUME NEW id \in AtomOps, Ref!CompareAndSet(id, re_atom) PROVE RefTyped'
  BY <1>3 DEF RefTyped, Ref!CompareAndSet, Ref!Store
<1>4. CASE Ref!AbortSwap
  BY <1>4, <1>a, <1>b, <1>d, <1>f DEF Ref!AbortSwap
<1>5. CASE Ref!EndWatch
  BY <1>5, <1>a, <1>b, <1>d, <1>f DEF Ref!EndWatch
<1>6. CASE Ref!EndSwap
  <2> DEFINE f == [Ref!Top EXCEPT !.at = "watch"]
  <2>1. re_stack # <<>> /\ Ref!Top \in RefFrame /\ Ref!Top.at = "f" /\ FrameTyped(Ref!Top)
    BY <1>6, <1>f DEF Ref!EndSwap
  <2>2. f \in RefFrame /\ FrameTyped(f)  BY <2>1 DEF RefFrame, FrameTyped
  <2>3. re_stack' = Ref!Front(re_stack) \o <<f>>  BY <1>6 DEF Ref!EndSwap, Ref!Step
  <2>4. Stack'  BY <1>e, <2>1, <2>2, <2>3
  <2>5. re_atom' \subseteq Nat  BY <1>6, <2>1 DEF Ref!EndSwap, Ref!Store, RefFrame
  <2> QED  BY <1>6, <1>a, <1>b, <2>4, <2>5 DEF Ref!EndSwap
<1>7. CASE Ref!EndSwapRt
  <2>1. re_stack # <<>> /\ Ref!Top \in RefFrame /\ Ref!Top.at = "f" /\ FrameTyped(Ref!Top)
    BY <1>7, <1>f DEF Ref!EndSwapRt
  <2>2. CASE Ref!Current(Ref!Top)
    <3>1. re_atom' \subseteq Nat  BY <1>7, <2>1, <2>2 DEF Ref!EndSwapRt, Ref!Store, RefFrame
    <3> QED  BY <1>7, <1>a, <1>b, <1>d, <2>1, <2>2, <3>1 DEF Ref!EndSwapRt
  <2>3. CASE ~Ref!Current(Ref!Top)
    <3> DEFINE f == [Ref!Top EXCEPT !.old = re_atom]
    <3>1. f \in RefFrame /\ FrameTyped(f)  BY <1>a, <2>1 DEF RefFrame, FrameTyped
    <3>2. re_stack' = Ref!Front(re_stack) \o <<f>>  BY <1>7, <2>3 DEF Ref!EndSwapRt
    <3>3. Stack'  BY <1>e, <2>1, <3>1, <3>2
    <3> QED  BY <1>7, <1>a, <1>b, <2>3, <3>3 DEF Ref!EndSwapRt
  <2> QED  BY <2>2, <2>3
<1>8. ASSUME NEW c \in Cells, Ref!ForceCached(c) PROVE RefTyped'
  BY <1>8 DEF RefTyped, Ref!ForceCached
<1>9. ASSUME NEW c \in Cells, Ref!BeginForce(c) PROVE RefTyped'
  <2> DEFINE f == [op |-> c, id |-> 0, old |-> {}, at |-> "thunk"]
  <2>1. f \in RefFrame /\ FrameTyped(f)  BY ThunkFrames DEF FrameTyped
  <2>2. Ref!Push(f)  BY <1>9 DEF Ref!BeginForce
  <2> HIDE DEF f
  <2>3. Cell'  BY <1>9, <1>a DEF Ref!BeginForce, Ref!Placeholder
  <2> QED  BY <1>9, <1>a, <1>b, <1>c, <2>1, <2>2, <2>3 DEF Ref!BeginForce
<1>10. CASE Ref!EndForce
  <2>1. Cell'  BY <1>10, <1>a DEF Ref!EndForce
  <2> QED  BY <1>10, <1>a, <1>b, <1>d, <1>f, <2>1 DEF Ref!EndForce
<1>11. CASE Ref!ThunkThrows
  <2>1. Cell'  BY <1>11, <1>a DEF Ref!ThunkThrows
  <2> QED  BY <1>11, <1>a, <1>b, <1>d, <1>f, <2>1 DEF Ref!ThunkThrows
<1> QED
  BY <1>0, <1>1, <1>2, <1>3, <1>4, <1>5, <1>6, <1>7, <1>8, <1>9, <1>10, <1>11 DEF Ref!Next, Cells

\* A thunk is taken out of its cell before it runs.
LEMMA ForcedStep ==
    ASSUME RefTyped, ForcedInv, Ref!Next \/ UNCHANGED reVars
    PROVE  ForcedInv'
<1> USE ServicesAssumption DEF Ref!atomVars, Ref!cellVars
<1> DEFINE Runs(c) == \E i \in 1..Len(re_stack) : re_stack[i].op = c
\* Swaps and resets come and go without the cells.
<1>a. ASSUME UNCHANGED <<re_cells, re_threw, re_runs, re_saw>>, \A c \in Cells : Runs(c) => Runs(c)'
      PROVE  ForcedInv'
  BY <1>a DEF ForcedInv
<1>b. ASSUME NEW f \in RefFrame, Ref!Push(f) PROVE \A c \in Cells : (Runs(c) \/ f.op = c) => Runs(c)'
  <2>1. /\ Len(re_stack') = Len(re_stack) + 1 /\ Len(re_stack) \in Nat
        /\ re_stack'[Len(re_stack) + 1] = f
        /\ \A k \in 1..Len(re_stack) : re_stack'[k] = re_stack[k]
    BY <1>b, RefPush
  <2>2. 1..Len(re_stack) \subseteq 1..Len(re_stack') /\ Len(re_stack) + 1 \in 1..Len(re_stack')
    BY <2>1
  <2> QED  BY <2>1, <2>2
<1>c. ASSUME re_stack # <<>>, Ref!Pop, NEW c, re_stack[Len(re_stack)].op # c, Runs(c) PROVE Runs(c)'
  BY <1>c, RefPop
<1>d. ASSUME re_stack # <<>>, NEW f \in RefFrame, re_stack' = Ref!Front(re_stack) \o <<f>>,
             f.op = re_stack[Len(re_stack)].op, NEW c, Runs(c) PROVE Runs(c)'
  <2>1. /\ Len(re_stack') = Len(re_stack) /\ Len(re_stack) \in Nat \ {0}
        /\ \A k \in 1..(Len(re_stack) - 1) : re_stack'[k] = re_stack[k]
        /\ re_stack'[Len(re_stack)] = f
    BY <1>d, RefReplace
  <2>2. \A i \in 1..Len(re_stack) : i \in 1..(Len(re_stack) - 1) \/ i = Len(re_stack)  BY <2>1
  <2> QED  BY <1>d, <2>1, <2>2
<1>e. ASSUME NEW at, at # "none", Ref!Now(at)
      PROVE  /\ re_stack # <<>> /\ Ref!Top = re_stack[Len(re_stack)] /\ Ref!Top \in RefFrame
             /\ at = "thunk" <=> Ref!Top.op \in Cells
  BY <1>e, RefNow DEF RefTyped, FrameTyped
<1>0. CASE UNCHANGED reVars  BY <1>0 DEF reVars, ForcedInv
<1>1. ASSUME NEW id \in AtomOps, NEW op \in {"swap", "rt_swap"}, Ref!BeginSwap(id, op) PROVE ForcedInv'
  BY <1>1, <1>a, <1>b, RefFrames DEF Ref!BeginSwap
<1>2. ASSUME NEW id \in AtomOps, Ref!Reset(id) PROVE ForcedInv'
  BY <1>2, <1>a, <1>b, RefFrames DEF Ref!Reset
<1>3. ASSUME NEW id \in AtomOps, Ref!CompareAndSet(id, re_atom) PROVE ForcedInv'
  BY <1>3 DEF ForcedInv, Ref!CompareAndSet
<1>4. CASE Ref!AbortSwap
  <2>1. re_stack # <<>> /\ re_stack[Len(re_stack)].op \notin Cells
    BY <1>4, <1>e DEF Ref!AbortSwap
  <2> QED  BY <1>4, <1>a, <1>c, <2>1 DEF Ref!AbortSwap
<1>5. CASE Ref!EndWatch
  <2>1. re_stack # <<>> /\ re_stack[Len(re_stack)].op \notin Cells
    BY <1>5, <1>e DEF Ref!EndWatch
  <2> QED  BY <1>5, <1>a, <1>c, <2>1 DEF Ref!EndWatch
<1>6. CASE Ref!EndSwap
  <2> DEFINE f == [Ref!Top EXCEPT !.at = "watch"]
  <2>1. /\ re_stack # <<>> /\ Ref!Top = re_stack[Len(re_stack)] /\ Ref!Top \in RefFrame
    BY <1>6, RefNow DEF Ref!EndSwap
  <2>2. f \in RefFrame /\ f.op = re_stack[Len(re_stack)].op  BY <2>1 DEF RefFrame
  <2>3. re_stack' = Ref!Front(re_stack) \o <<f>>  BY <1>6 DEF Ref!EndSwap, Ref!Step
  <2> HIDE DEF f
  <2> QED  BY <1>6, <1>a, <1>d, <2>1, <2>2, <2>3 DEF Ref!EndSwap
<1>7. CASE Ref!EndSwapRt
  <2>1. /\ re_stack # <<>> /\ Ref!Top = re_stack[Len(re_stack)] /\ Ref!Top \in RefFrame
        /\ re_stack[Len(re_stack)].op \notin Cells
    BY <1>7, <1>e DEF Ref!EndSwapRt
  <2>2. CASE Ref!Current(Ref!Top)
    BY <1>7, <1>a, <1>c, <2>1, <2>2 DEF Ref!EndSwapRt
  <2>3. CASE ~Ref!Current(Ref!Top)
    <3> DEFINE f == [Ref!Top EXCEPT !.old = re_atom]
    <3>1. f \in RefFrame /\ f.op = re_stack[Len(re_stack)].op  BY <2>1 DEF RefFrame, RefTyped
    <3>2. re_stack' = Ref!Front(re_stack) \o <<f>>  BY <1>7, <2>3 DEF Ref!EndSwapRt
    <3> HIDE DEF f
    <3> QED  BY <1>7, <1>a, <1>d, <2>1, <2>3, <3>1, <3>2 DEF Ref!EndSwapRt
  <2> QED  BY <2>2, <2>3
<1>8. ASSUME NEW c \in Cells, Ref!ForceCached(c) PROVE ForcedInv'
  <2>1. Ref!Running(c) <=> Runs(c)
    <3>1. DOMAIN re_stack = 1..Len(re_stack)  BY DEF RefTyped
    <3> QED  BY <3>1 DEF Ref!Running, Ref!Frames, Ref!Range
  <2>2. re_saw'.cell = c /\ (re_saw'.in <=> Runs(c))  BY <1>8, <2>1 DEF Ref!ForceCached, Ref!See
  <2>3. ASSUME ~Runs(c), c \notin re_threw PROVE re_saw'.got = "value"
    <3>1. re_cells[c] = "value"  BY <1>8, <2>3 DEF ForcedInv, RefTyped, Ref!ForceCached
    <3> QED  BY <1>8, <3>1 DEF Ref!ForceCached, Ref!See
  <2> QED  BY <1>8, <2>2, <2>3 DEF ForcedInv, Ref!ForceCached
<1>9. ASSUME NEW c \in Cells, Ref!BeginForce(c) PROVE ForcedInv'
  <2>1. \A d \in Cells : (Runs(d) \/ d = c) => Runs(d)'
    <3> DEFINE f == [op |-> c, id |-> 0, old |-> {}, at |-> "thunk"]
    <3>1. f \in RefFrame /\ f.op = c  BY ThunkFrames
    <3>2. Ref!Push(f)  BY <1>9 DEF Ref!BeginForce
    <3> HIDE DEF f, Runs
    <3> QED  BY <1>b, <3>1, <3>2
  <2>2. \A d \in Cells : /\ re_cells'[d] = IF d = c THEN "nil" ELSE re_cells[d]
                         /\ re_runs'[d] = IF d = c THEN re_runs[d] + 1 ELSE re_runs[d]
    BY <1>9 DEF RefTyped, Ref!BeginForce, Ref!Placeholder
  <2>3. re_cells[c] = "pending" /\ UNCHANGED <<re_threw, re_saw>>  BY <1>9 DEF Ref!BeginForce
  <2>4. re_runs[c] = 0 /\ \A d \in Cells : re_runs[d] \in Nat  BY <2>3 DEF ForcedInv, RefTyped
  <2>5. ASSUME NEW d \in Cells
        PROVE  /\ re_runs'[d] <= 1
               /\ re_cells'[d] = "pending" => re_runs'[d] = 0
               /\ re_cells'[d] = "error" => d \in re_threw'
               /\ re_cells'[d] = "nil" => d \in re_threw' \/ Runs(d)'
    <3>1. CASE d = c  BY <2>1, <2>2, <2>4, <3>1
    <3>2. CASE d # c
      <4>1. re_cells'[d] = re_cells[d] /\ re_runs'[d] = re_runs[d]  BY <2>2, <3>2
      <4>2. Runs(d) => Runs(d)'  BY <2>1
      <4> QED  BY <2>3, <4>1, <4>2 DEF ForcedInv
    <3> QED  BY <3>1, <3>2
  <2> HIDE DEF Runs
  <2>6. ~re_saw'.in /\ re_saw'.cell \notin re_threw' => re_saw'.got = "value"
    BY <2>3 DEF ForcedInv
  <2> QED  BY <2>5, <2>6 DEF ForcedInv, Runs
<1>10. CASE Ref!EndForce
  <2>1. re_stack # <<>> /\ Ref!Top = re_stack[Len(re_stack)] /\ Ref!Top.op \in Cells
    BY <1>10, <1>e DEF Ref!EndForce
  <2>2. \A d \in Cells : re_cells'[d] = IF d = Ref!Top.op THEN "value" ELSE re_cells[d]
    BY <1>10, <2>1 DEF RefTyped, Ref!EndForce
  <2>3. \A d \in Cells : d # Ref!Top.op /\ Runs(d) => Runs(d)'
    BY <1>10, <1>c, <2>1 DEF Ref!EndForce
  <2>4. UNCHANGED <<re_threw, re_runs>> /\ re_saw'.got = "value"  BY <1>10 DEF Ref!EndForce
  <2> QED  BY <2>1, <2>2, <2>3, <2>4 DEF ForcedInv
<1>11. CASE Ref!ThunkThrows
  <2>1. re_stack # <<>> /\ Ref!Top = re_stack[Len(re_stack)] /\ Ref!Top.op \in Cells
    BY <1>11, <1>e DEF Ref!ThunkThrows
  <2>2. \A d \in Cells : d # Ref!Top.op => re_cells'[d] = re_cells[d]
    BY <1>11, <2>1 DEF RefTyped, Ref!ThunkThrows
  <2>3. \A d \in Cells : d # Ref!Top.op /\ Runs(d) => Runs(d)'
    BY <1>11, <1>c, <2>1 DEF Ref!ThunkThrows
  <2>4. re_cells'[Ref!Top.op] \in {"error", re_cells[Ref!Top.op]}
    BY <1>11, <2>1 DEF RefTyped, Ref!ThunkThrows
  <2>5. re_threw' = re_threw \cup {Ref!Top.op} /\ UNCHANGED <<re_runs, re_saw>>
    BY <1>11 DEF Ref!ThunkThrows
  <2> QED  BY <2>1, <2>2, <2>3, <2>4, <2>5 DEF ForcedInv
<1> QED
  BY <1>0, <1>1, <1>2, <1>3, <1>4, <1>5, <1>6, <1>7, <1>8, <1>9, <1>10, <1>11 DEF Ref!Next, Cells

\* The first m frames stay as they are, one more may have come on top, and a value may
\* have been stored: what has to be shown of that value and of that frame.
Kept(m, n) ==
    /\ m \in 0..Len(re_stack) /\ n \in {m, m + 1} /\ Len(re_stack') = n
    /\ \A k \in 1..m : re_stack'[k] = re_stack[k]
    /\ DOMAIN re_under \subseteq DOMAIN re_under'
    /\ \A u \in DOMAIN re_under : re_under'[u] = re_under[u]
StoreFits(m) ==
    /\ re_atom' \subseteq DOMAIN re_under'
    /\ \A i \in 1..m : re_stack[i].at = "f" =>
           /\ re_stack[i].id \notin DOMAIN re_under'
           /\ \A u \in re_atom' \ re_stack[i].old : re_stack[i].id \in re_under'[u]
FrameFits(m, g) ==
    /\ g.at # "thunk" => g.old \subseteq DOMAIN re_under'
    /\ g.at = "f" =>
           /\ g.id \notin DOMAIN re_under'
           /\ \A u \in re_atom' \ g.old : g.id \in re_under'[u]
           /\ \A i \in 1..m : re_stack[i].at = "f" =>
                  \A u \in g.old \ re_stack[i].old : re_stack[i].id \in re_under'[u]
    /\ \A i \in 1..m : g.id = re_stack[i].id => re_stack[i].at = "thunk" /\ g.at = "thunk"

\* That is enough.
LEMMA NestKept ==
    ASSUME RefTyped, NestInv, NEW m, NEW n, Kept(m, n), StoreFits(m),
           n = m + 1 => FrameFits(m, re_stack'[m + 1])
    PROVE  NestInv'
<1> DEFINE g == re_stack'[m + 1]
<1>1. /\ m \in Nat /\ Len(re_stack) \in Nat /\ n \in Nat /\ m <= Len(re_stack) /\ Len(re_stack') = n
      /\ 1..m \subseteq 1..Len(re_stack)
      /\ \A i \in 1..n : i \in 1..m \/ (n = m + 1 /\ i = m + 1)
  <2>1. Len(re_stack) \in Nat  BY DEF RefTyped
  <2> QED  BY <2>1 DEF Kept
<1>2. ASSUME NEW i \in 1..m
      PROVE  /\ re_stack'[i] = re_stack[i] /\ i \in 1..Len(re_stack)
             /\ re_stack[i].at # "thunk" => re_stack[i].old \subseteq DOMAIN re_under
             /\ \A j \in (i + 1)..Len(re_stack) : re_stack[i].at = "f" /\ re_stack[j].at = "f" =>
                     \A u \in re_stack[j].old \ re_stack[i].old : re_stack[i].id \in re_under[u]
             /\ \A j \in 1..Len(re_stack) :
                    i # j /\ re_stack[i].id = re_stack[j].id => re_stack[i].at = "thunk"
  BY <1>1, <1>2 DEF Kept, NestInv, Inside
<1>3. ASSUME NEW i \in 1..n, re_stack'[i].at # "thunk" PROVE re_stack'[i].old \subseteq DOMAIN re_under'
  <2>1. CASE i \in 1..m  BY <1>2, <1>3, <2>1 DEF Kept
  <2>2. CASE n = m + 1 /\ i = m + 1  BY <1>3, <2>2 DEF FrameFits
  <2> QED  BY <1>1, <2>1, <2>2
<1>4. ASSUME NEW i \in 1..n, re_stack'[i].at = "f"
      PROVE  /\ re_stack'[i].id \notin DOMAIN re_under'
             /\ \A u \in re_atom' \ re_stack'[i].old : re_stack'[i].id \in re_under'[u]
  <2>1. CASE i \in 1..m  BY <1>2, <1>4, <2>1 DEF StoreFits
  <2>2. CASE n = m + 1 /\ i = m + 1  BY <1>4, <2>2 DEF FrameFits
  <2> QED  BY <1>1, <2>1, <2>2
<1>5. ASSUME NEW i \in 1..n, NEW j \in (i + 1)..n, re_stack'[i].at = "f", re_stack'[j].at = "f",
             NEW u \in re_stack'[j].old \ re_stack'[i].old
      PROVE  re_stack'[i].id \in re_under'[u]
  <2>1. i \in 1..m /\ i \in 1..Len(re_stack)  BY <1>1, <1>5
  <2>2. CASE j \in 1..m
    <3>1. j \in (i + 1)..Len(re_stack)  BY <1>1, <2>2, <1>5
    <3>2. re_stack[i].id \in re_under[u] /\ u \in DOMAIN re_under  BY <1>2, <1>5, <2>1, <2>2, <3>1
    <3> QED  BY <1>2, <2>1, <3>2 DEF Kept
  <2>3. CASE n = m + 1 /\ j = m + 1  BY <1>2, <1>5, <2>1, <2>3 DEF FrameFits
  <2> QED  BY <1>1, <1>5, <2>2, <2>3
<1>6. ASSUME NEW i \in 1..n, NEW j \in 1..n, i # j, re_stack'[i].id = re_stack'[j].id
      PROVE  re_stack'[i].at = "thunk"
  <2>1. CASE i \in 1..m /\ j \in 1..m  BY <1>1, <1>2, <1>6, <2>1
  <2>2. CASE i \in 1..m /\ n = m + 1 /\ j = m + 1  BY <1>2, <1>6, <2>2 DEF FrameFits
  <2>3. CASE j \in 1..m /\ n = m + 1 /\ i = m + 1  BY <1>2, <1>6, <2>3 DEF FrameFits
  <2> QED  BY <1>1, <1>6, <2>1, <2>2, <2>3
<1> HIDE DEF g
<1>7. re_atom' \subseteq DOMAIN re_under'  BY DEF StoreFits
<1> QED  BY <1>1, <1>3, <1>4, <1>5, <1>6, <1>7 DEF NestInv, Inside

\* What Store does.
LEMMA StoreEffect ==
    ASSUME RefTyped, NEW id, NEW v, id \notin DOMAIN re_under, Ref!Store(id, v)
    PROVE  /\ re_atom' = v /\ DOMAIN re_under' = DOMAIN re_under \cup {id}
           /\ \A u \in DOMAIN re_under : re_under'[u] = re_under[u]
           /\ \A i \in 1..Len(re_stack) : re_stack[i].id # id => re_stack[i].id \in re_under'[id]
<1>1. DOMAIN re_stack = 1..Len(re_stack)  BY DEF RefTyped
<1>2. \A i \in 1..Len(re_stack) : re_stack[i].id \in {f.id : f \in Ref!Frames}
  BY <1>1 DEF Ref!Frames, Ref!Range
<1> QED  BY <1>2 DEF Ref!Store

\* A store that keeps only what the storing operation read, and its own number.
LEMMA StoreIsInside ==
    ASSUME RefTyped, NestInv, NEW id, NEW v, NEW m \in 0..Len(re_stack),
           id \notin DOMAIN re_under, Ref!Store(id, v \cup {id}), v \subseteq DOMAIN re_under,
           \A i \in 1..m : re_stack[i].at = "f" => re_stack[i].id # id /\ Inside(i, v)
    PROVE  StoreFits(m)
<1>1. 1..m \subseteq 1..Len(re_stack)
  <2>1. Len(re_stack) \in Nat  BY DEF RefTyped
  <2> QED  BY <2>1
<1>2. /\ re_atom' = v \cup {id} /\ DOMAIN re_under' = DOMAIN re_under \cup {id}
      /\ \A u \in DOMAIN re_under : re_under'[u] = re_under[u]
      /\ \A i \in 1..Len(re_stack) : re_stack[i].id # id => re_stack[i].id \in re_under'[id]
  BY StoreEffect
<1>3. \A i \in 1..m : re_stack[i].at = "f" => re_stack[i].id \notin DOMAIN re_under
  BY <1>1 DEF NestInv
<1> QED  BY <1>1, <1>2, <1>3 DEF StoreFits, Inside

\* Every operation keeps the nesting.
LEMMA NestStep ==
    ASSUME RefTyped, NestInv, Ref!Next \/ UNCHANGED reVars
    PROVE  NestInv'
<1> USE ServicesAssumption DEF Ref!atomVars, Ref!cellVars
<1> DEFINE n == Len(re_stack)
<1>n. n \in Nat  BY DEF RefTyped
\* Nothing is stored.
<1>a. ASSUME UNCHANGED <<re_atom, re_under>>, NEW m \in 0..n PROVE StoreFits(m)
  <2>1. 1..m \subseteq 1..n  BY <1>n
  <2> QED  BY <1>a, <2>1 DEF NestInv, StoreFits, Inside
\* The frame on top, in the function of a swap!.
<1>f. ASSUME Ref!Now("f")
      PROVE  /\ n # 0 /\ re_stack # <<>> /\ Ref!Top = re_stack[n] /\ Ref!Top.at = "f" /\ Ref!Top \in RefFrame
             /\ Ref!Top.id \notin DOMAIN re_under /\ Ref!Top.old \subseteq DOMAIN re_under
             /\ n - 1 \in 0..n
             /\ \A i \in 1..(n - 1) : /\ re_stack[i].id # Ref!Top.id
                                      /\ re_stack[i].at = "f" => Inside(i, Ref!Top.old)
                                      /\ re_stack[i].at = "f" => Inside(i, re_atom)
  <2>1. n \in Nat \ {0} /\ re_stack # <<>> /\ Ref!Top = re_stack[n] /\ Ref!Top.at = "f" /\ Ref!Top \in RefFrame
    BY <1>f, RefNow
  <2>2. n \in 1..n /\ n - 1 \in 0..n /\ \A i \in 1..(n - 1) : i \in 1..n /\ n \in (i + 1)..n /\ i # n
    BY <2>1
  <2> QED  BY <2>1, <2>2 DEF NestInv
<1>0. CASE UNCHANGED reVars  BY <1>0 DEF reVars, NestInv, Inside
<1>1. ASSUME NEW id \in AtomOps, NEW op \in {"swap", "rt_swap"}, Ref!BeginSwap(id, op) PROVE NestInv'
  <2> DEFINE f == [op |-> op, id |-> id, old |-> re_atom, at |-> "f"]
  <2>1. f \in RefFrame /\ f.at = "f" /\ f.id = id /\ f.old = re_atom  BY RefFrames
  <2>2. Ref!Push(f) /\ Ref!Fresh(id) /\ UNCHANGED <<re_atom, re_under>>  BY <1>1 DEF Ref!BeginSwap
  <2> HIDE DEF f
  <2>3. Kept(n, n + 1) /\ re_stack'[n + 1] = f  BY <1>n, <2>1, <2>2, RefPush DEF Kept
  <2>4. n \in 0..n  BY <1>n
  <2>5. FrameFits(n, f)  BY <2>1, <2>2, RefFresh DEF FrameFits, NestInv, Inside
  <2>6. StoreFits(n)  BY <1>a, <2>2, <2>4
  <2> QED  BY <2>3, <2>5, <2>6, NestKept
<1>2. ASSUME NEW id \in AtomOps, Ref!Reset(id) PROVE NestInv'
  <2> DEFINE f == [op |-> "reset", id |-> id, old |-> re_atom, at |-> "watch"]
  <2>1. f \in RefFrame /\ f.at = "watch" /\ f.id = id /\ f.old = re_atom  BY RefFrames
  <2>2. Ref!Push(f) /\ Ref!Fresh(id) /\ Ref!Store(id, {} \cup {id})
    <3>1. {} \cup {id} = {id}  OBVIOUS
    <3> QED  BY <1>2, <3>1 DEF Ref!Reset
  <2> HIDE DEF f
  <2>3. id \notin DOMAIN re_under /\ \A i \in 1..n : re_stack[i].id # id  BY <2>2, RefFresh
  <2>4. n \in 0..n  BY <1>n
  <2>5. StoreFits(n)  BY <2>2, <2>3, <2>4, StoreIsInside DEF Inside
  <2>6. DOMAIN re_under' = DOMAIN re_under \cup {id} /\ \A u \in DOMAIN re_under : re_under'[u] = re_under[u]
    BY <2>2, <2>3, StoreEffect
  <2>7. Kept(n, n + 1) /\ re_stack'[n + 1] = f  BY <1>n, <2>1, <2>2, <2>6, RefPush DEF Kept
  <2>8. FrameFits(n, f)  BY <2>1, <2>3, <2>6 DEF FrameFits, NestInv
  <2> QED  BY <2>5, <2>7, <2>8, NestKept
<1>3. ASSUME NEW id \in AtomOps, Ref!CompareAndSet(id, re_atom) PROVE NestInv'
  <2>1. Ref!Fresh(id) /\ Ref!Store(id, {} \cup {id}) /\ UNCHANGED re_stack
    <3>1. {} \cup {id} = {id}  OBVIOUS
    <3> QED  BY <1>3, <3>1 DEF Ref!CompareAndSet
  <2>2. id \notin DOMAIN re_under /\ \A i \in 1..n : re_stack[i].id # id  BY <2>1, RefFresh
  <2>3. n \in 0..n  BY <1>n
  <2>4. StoreFits(n)  BY <2>1, <2>2, <2>3, StoreIsInside DEF Inside
  <2>5. DOMAIN re_under' = DOMAIN re_under \cup {id} /\ \A u \in DOMAIN re_under : re_under'[u] = re_under[u]
    BY <2>1, <2>2, StoreEffect
  <2>6. Kept(n, n) /\ n # n + 1  BY <1>n, <2>1, <2>5 DEF Kept
  <2> QED  BY <2>4, <2>6, NestKept
\* A frame is popped, and nothing is stored.
<1>p. ASSUME re_stack # <<>>, Ref!Pop, UNCHANGED <<re_atom, re_under>> PROVE NestInv'
  <2>1. n \in Nat \ {0} /\ Kept(n - 1, n - 1)  BY <1>p, RefPop DEF Kept
  <2>2. n - 1 \in 0..n /\ n - 1 # (n - 1) + 1  BY <2>1
  <2>3. StoreFits(n - 1)  BY <1>a, <1>p, <2>2
  <2> QED  BY <2>1, <2>2, <2>3, NestKept
<1>4. CASE Ref!AbortSwap  BY <1>4, <1>p, RefNow DEF Ref!AbortSwap
<1>5. CASE Ref!EndWatch  BY <1>5, <1>p, RefNow DEF Ref!EndWatch
<1>10. CASE Ref!EndForce  BY <1>10, <1>p, RefNow DEF Ref!EndForce
<1>11. CASE Ref!ThunkThrows  BY <1>11, <1>p, RefNow DEF Ref!ThunkThrows
\* A swap! stores what it read and its own update.
<1>s. ASSUME Ref!Now("f"), Ref!Store(Ref!Top.id, Ref!Top.old \cup {Ref!Top.id})
      PROVE  /\ StoreFits(n - 1) /\ DOMAIN re_under' = DOMAIN re_under \cup {Ref!Top.id}
             /\ \A u \in DOMAIN re_under : re_under'[u] = re_under[u]
  <2>1. \A i \in 1..(n - 1) : re_stack[i].at = "f" => re_stack[i].id # Ref!Top.id /\ Inside(i, Ref!Top.old)
    BY <1>f, <1>s
  <2>2. StoreFits(n - 1)  BY <1>f, <1>s, <2>1, StoreIsInside
  <2> QED  BY <1>f, <1>s, <2>2, StoreEffect
<1>6. CASE Ref!EndSwap
  <2> DEFINE f == [Ref!Top EXCEPT !.at = "watch"]
  <2>1. Ref!Now("f") /\ Ref!Store(Ref!Top.id, Ref!Top.old \cup {Ref!Top.id})  BY <1>6 DEF Ref!EndSwap
  <2>2. f \in RefFrame /\ f.at = "watch" /\ f.id = Ref!Top.id /\ f.old = Ref!Top.old
    BY <1>f, <2>1 DEF RefFrame
  <2>3. re_stack' = Ref!Front(re_stack) \o <<f>>  BY <1>6 DEF Ref!EndSwap, Ref!Step
  <2> HIDE DEF f
  <2>4. /\ Len(re_stack') = n /\ re_stack'[n] = f
        /\ \A k \in 1..(n - 1) : re_stack'[k] = re_stack[k]
    BY <1>f, <2>1, <2>2, <2>3, RefReplace
  <2>5. n - 1 \in 0..n /\ (n - 1) + 1 = n  BY <1>f, <1>n, <2>1
  <2>6. Kept(n - 1, n)  BY <1>s, <2>1, <2>4, <2>5 DEF Kept
  <2>7. FrameFits(n - 1, f)  BY <1>f, <1>s, <2>1, <2>2 DEF FrameFits
  <2> QED  BY <1>s, <2>1, <2>4, <2>5, <2>6, <2>7, NestKept
<1>7. CASE Ref!EndSwapRt
  <2>1. Ref!Now("f")  BY <1>7 DEF Ref!EndSwapRt
  <2>2. CASE Ref!Current(Ref!Top)
    <3>1. Ref!Store(Ref!Top.id, Ref!Top.old \cup {Ref!Top.id}) /\ Ref!Pop
      BY <1>7, <2>2 DEF Ref!EndSwapRt
    <3>2. Len(re_stack') = n - 1 /\ \A k \in 1..(n - 1) : re_stack'[k] = re_stack[k]
      BY <1>f, <2>1, <3>1, RefPop
    <3>3. n - 1 \in 0..n /\ n - 1 # (n - 1) + 1  BY <1>f, <1>n, <2>1
    <3>4. Kept(n - 1, n - 1)  BY <1>s, <2>1, <3>1, <3>2, <3>3 DEF Kept
    <3> QED  BY <1>s, <2>1, <3>1, <3>3, <3>4, NestKept
  <2>3. CASE ~Ref!Current(Ref!Top)
    <3> DEFINE f == [Ref!Top EXCEPT !.old = re_atom]
    <3>1. f \in RefFrame /\ f.at = "f" /\ f.id = Ref!Top.id /\ f.old = re_atom
      BY <1>f, <2>1 DEF RefFrame, RefTyped
    <3>2. re_stack' = Ref!Front(re_stack) \o <<f>> /\ UNCHANGED <<re_atom, re_under>>
      BY <1>7, <2>3 DEF Ref!EndSwapRt
    <3> HIDE DEF f
    <3>3. /\ Len(re_stack') = n /\ re_stack'[n] = f
          /\ \A k \in 1..(n - 1) : re_stack'[k] = re_stack[k]
      BY <1>f, <2>1, <3>1, <3>2, RefReplace
    <3>4. n - 1 \in 0..n /\ (n - 1) + 1 = n  BY <1>f, <1>n, <2>1
    <3>5. Kept(n - 1, n)  BY <3>2, <3>3, <3>4 DEF Kept
    <3>6. FrameFits(n - 1, f)
      <4>1. re_atom \subseteq DOMAIN re_under  BY DEF NestInv
      <4>2. re_atom' = re_atom /\ re_under' = re_under  BY <3>2
      <4> QED  BY <1>f, <2>1, <3>1, <4>1, <4>2 DEF FrameFits, Inside
    <3>7. StoreFits(n - 1)  BY <1>a, <3>2, <3>4
    <3> QED  BY <3>3, <3>4, <3>5, <3>6, <3>7, NestKept
  <2> QED  BY <2>2, <2>3
<1>8. ASSUME NEW c \in Cells, Ref!ForceCached(c) PROVE NestInv'
  BY <1>8 DEF NestInv, Inside, Ref!ForceCached
<1>9. ASSUME NEW c \in Cells, Ref!BeginForce(c) PROVE NestInv'
  <2> DEFINE f == [op |-> c, id |-> 0, old |-> {}, at |-> "thunk"]
  <2>1. f \in RefFrame /\ f.at = "thunk" /\ f.id = 0  BY ThunkFrames
  <2>2. Ref!Push(f) /\ UNCHANGED <<re_atom, re_under>>  BY <1>9 DEF Ref!BeginForce
  <2> HIDE DEF f
  <2>3. Kept(n, n + 1) /\ re_stack'[n + 1] = f  BY <1>n, <2>1, <2>2, RefPush DEF Kept
  <2>4. n \in 0..n  BY <1>n
  <2>5. FrameFits(n, f)  BY <2>1 DEF FrameFits, RefTyped, FrameTyped
  <2>6. StoreFits(n)  BY <1>a, <2>2, <2>4
  <2> QED  BY <2>3, <2>5, <2>6, NestKept
<1> QED
  BY <1>0, <1>1, <1>2, <1>3, <1>4, <1>5, <1>6, <1>7, <1>8, <1>9, <1>10, <1>11 DEF Ref!Next, Cells

\* An update that a step removes was removed by a reset!, by a compare-and-set!, or by
\* the swap! it was made in.
LEMMA LossStep ==
    ASSUME RefTyped, NestInv, Ref!Next \/ UNCHANGED reVars, NEW u \in re_atom \ re_atom'
    PROVE  \/ \E o \in AtomOps : Ref!Reset(o) \/ Ref!CompareAndSet(o, re_atom)
           \/ Ref!EndSwap /\ Ref!Top.id \in re_under[u]
<1> USE DEF Ref!atomVars
<1>1. re_atom' # re_atom  OBVIOUS
<1>2. CASE UNCHANGED reVars  BY <1>1, <1>2 DEF reVars
<1>3. ASSUME NEW id \in AtomOps, NEW op \in {"swap", "rt_swap"}, Ref!BeginSwap(id, op) PROVE FALSE
  BY <1>1, <1>3 DEF Ref!BeginSwap
<1>4. CASE Ref!AbortSwap \/ Ref!EndWatch \/ Ref!EndForce \/ Ref!ThunkThrows
  BY <1>1, <1>4 DEF Ref!AbortSwap, Ref!EndWatch, Ref!EndForce, Ref!ThunkThrows
<1>5. ASSUME NEW c \in Cells, Ref!ForceCached(c) \/ Ref!BeginForce(c) PROVE FALSE
  BY <1>1, <1>5 DEF Ref!ForceCached, Ref!BeginForce
<1>6. CASE Ref!EndSwap
  <2>1. /\ Len(re_stack) \in 1..Len(re_stack) /\ Ref!Top = re_stack[Len(re_stack)] /\ Ref!Top.at = "f"
    BY <1>6, RefNow DEF Ref!EndSwap
  <2>2. u \in re_atom \ Ref!Top.old  BY <1>6 DEF Ref!EndSwap, Ref!Store
  <2> QED  BY <1>6, <2>1, <2>2 DEF NestInv, Inside
<1>7. CASE Ref!EndSwapRt
  <2>1. CASE Ref!Current(Ref!Top)
    BY <1>7, <2>1 DEF Ref!EndSwapRt, Ref!Current, Ref!Store
  <2>2. CASE ~Ref!Current(Ref!Top)
    BY <1>1, <1>7, <2>2 DEF Ref!EndSwapRt
  <2> QED  BY <2>1, <2>2
<1> QED  BY <1>2, <1>3, <1>4, <1>5, <1>6, <1>7 DEF Ref!Next, Cells

-----------------------------------------------------------------------------
(* Calls into other isolates *)

CallStates == {"none", "refused", "queued", "resolved", "running", "ok", "err", "died"}
CallsTyped ==
    /\ ic_worker \in [Calls!Ids -> {"init", "up", "exited", "panicked"}]
    /\ ic_queue \in [Calls!Ids -> Seq(IsolateCallIds)]
    /\ ic_args \in [Calls!Ids -> IsolateCallIds \cup {None}]
    /\ ic_call \in [IsolateCallIds -> [st : CallStates, with : IsolateCallIds \cup {None}]]
    /\ DOMAIN ic_target = IsolateCallIds

\* What is in a worker's channel is queued there, once; a worker has one command in
\* hand, whose arguments the two vars hold until it has been applied.
CallsInv ==
    /\ \A w \in Calls!Ids : \A i \in 1..Len(ic_queue[w]) :
           /\ ic_call[ic_queue[w][i]].st = "queued" /\ ic_target[ic_queue[w][i]] = w
           /\ \A j \in 1..Len(ic_queue[w]) : ic_queue[w][i] = ic_queue[w][j] => i = j
    /\ \A c, d \in IsolateCallIds :
           /\ ic_call[c].st \in {"resolved", "running"} /\ ic_call[d].st \in {"resolved", "running"}
           /\ ic_target[c] = ic_target[d]
           => c = d
    /\ \A c \in IsolateCallIds :
           /\ ic_call[c].with \in {None, c}
           /\ ic_call[c].st = "resolved" => ic_args[ic_target[c]] = c
           /\ ic_call[c].st = "died" => ic_target[c] \in Calls!Ids /\ ic_worker[ic_target[c]] = "panicked"

\* No call has been made at first, or there is no pool at all.
LEMMA CallsInit == ASSUME Calls!Init \/ NoWorkers PROVE CallsTyped /\ CallsInv
<1>1. /\ ic_queue = [w \in Calls!Ids |-> <<>>] /\ ic_args = [w \in Calls!Ids |-> None]
      /\ ic_call = [c \in IsolateCallIds |-> [st |-> "none", with |-> None]]
      /\ ic_target = [c \in IsolateCallIds |-> None]
      /\ ic_worker \in [Calls!Ids -> {"init", "up", "exited", "panicked"}]
  BY DEF Calls!Init, NoWorkers
<1>2. \A w \in Calls!Ids : Len(ic_queue[w]) = 0 /\ ic_queue[w] \in Seq(IsolateCallIds)  BY <1>1
<1>3. CallsTyped  BY <1>1, <1>2 DEF CallsTyped, CallStates
<1>4. CallsInv  BY <1>1, <1>2 DEF CallsInv
<1> QED  BY <1>3, <1>4

\* The next worker of the pool is one.
LEMMA PoolHasNext ==
    ASSUME NEW n \in Nat
    PROVE  PoolWorkers[(n % Len(PoolWorkers)) + 1] \in Calls!Ids
<1>1. Len(PoolWorkers) \in Nat \ {0} /\ DOMAIN PoolWorkers = 1..Len(PoolWorkers)
  BY ServicesAssumption
<1>2. (n % Len(PoolWorkers)) + 1 \in 1..Len(PoolWorkers)
  <2> DEFINE k == Len(PoolWorkers)
  <2>1. k \in Nat \ {0}  BY <1>1
  <2> HIDE DEF k
  <2>2. n % k \in 0..(k - 1)  BY <2>1
  <2> QED  BY <2>1, <2>2 DEF k
<1> QED  BY <1>1, <1>2 DEF Calls!Ids, Calls!Range

\* Every step keeps the types.
LEMMA CallsTypedStep ==
    ASSUME CallsTyped, ic_next \in Nat, Calls!Next \/ UNCHANGED icVars
    PROVE  CallsTyped' /\ ic_next' \in Nat
<1>0. CASE UNCHANGED icVars  BY <1>0 DEF icVars, CallsTyped
\* A call only changes its state.
<1>s. ASSUME NEW c \in IsolateCallIds, NEW s \in CallStates, Calls!Set(c, s)
      PROVE  ic_call' \in [IsolateCallIds -> [st : CallStates, with : IsolateCallIds \cup {None}]]
  BY <1>s DEF Calls!Set, CallsTyped
<1>1. ASSUME NEW c \in IsolateCallIds, NEW b \in BOOLEAN, Calls!IsolateCall(c, b)
      PROVE  CallsTyped' /\ ic_next' \in Nat
  <2> DEFINE w == PoolWorkers[(ic_next % Len(PoolWorkers)) + 1]
  <2>1. w \in Calls!Ids  BY PoolHasNext
  <2>2. /\ ic_queue' \in {ic_queue, [ic_queue EXCEPT ![w] = Append(@, c)]}
        /\ ic_next' = ic_next + 1 /\ ic_target' = [ic_target EXCEPT ![c] = w]
        /\ UNCHANGED <<ic_tx, ic_worker, ic_args>>
        /\ Calls!Set(c, "queued") \/ Calls!Set(c, "refused")
    BY <1>1 DEF Calls!IsolateCall
  <2> HIDE DEF w
  <2>3. ic_queue' \in [Calls!Ids -> Seq(IsolateCallIds)]
    <3>1. Append(ic_queue[w], c) \in Seq(IsolateCallIds)  BY <2>1 DEF CallsTyped
    <3> QED  BY <2>1, <2>2, <3>1 DEF CallsTyped
  <2>4. ic_call' \in [IsolateCallIds -> [st : CallStates, with : IsolateCallIds \cup {None}]]
    BY <1>s, <2>2 DEF CallStates
  <2>5. DOMAIN ic_target' = IsolateCallIds /\ ic_next' \in Nat  BY <2>2 DEF CallsTyped
  <2> QED  BY <2>2, <2>3, <2>4, <2>5 DEF CallsTyped
<1>2. ASSUME NEW w \in Calls!Ids, Calls!Close(w) PROVE CallsTyped' /\ ic_next' \in Nat
  BY <1>2 DEF Calls!Close, CallsTyped
<1>3. ASSUME NEW w \in Calls!Ids, Calls!Start(w) \/ Calls!Exit(w) PROVE CallsTyped' /\ ic_next' \in Nat
  BY <1>3 DEF Calls!Start, Calls!Exit, CallsTyped
<1>4. ASSUME NEW w \in Calls!Ids, NEW ok \in BOOLEAN, Calls!Resolve(w, ok) PROVE CallsTyped' /\ ic_next' \in Nat
  <2> DEFINE c == Head(ic_queue[w])
  <2>1. ic_queue[w] \in Seq(IsolateCallIds) /\ ic_queue[w] # <<>>  BY <1>4 DEF CallsTyped, Calls!Resolve, Calls!Recv
  <2>2. c \in IsolateCallIds /\ Tail(ic_queue[w]) \in Seq(IsolateCallIds)  BY <2>1, TailSeq
  <2>3. /\ ic_queue' = [ic_queue EXCEPT ![w] = Tail(@)] /\ UNCHANGED <<ic_tx, ic_worker, ic_target, ic_next>>
        /\ ic_args' \in {ic_args, [ic_args EXCEPT ![w] = c]}
        /\ Calls!Set(c, "resolved") \/ Calls!Set(c, "err")
    BY <1>4 DEF Calls!Resolve
  <2> HIDE DEF c
  <2>4. ic_call' \in [IsolateCallIds -> [st : CallStates, with : IsolateCallIds \cup {None}]]
    BY <1>s, <2>2, <2>3 DEF CallStates
  <2>5. ic_queue' \in [Calls!Ids -> Seq(IsolateCallIds)]  BY <2>2, <2>3 DEF CallsTyped
  <2> QED  BY <2>2, <2>3, <2>4, <2>5 DEF CallsTyped
<1>5. ASSUME NEW w \in Calls!Ids, NEW c \in IsolateCallIds, Calls!Apply(w, c) PROVE CallsTyped' /\ ic_next' \in Nat
  <2>1. ic_call' \in [IsolateCallIds -> [st : CallStates, with : IsolateCallIds \cup {None}]]
    BY <1>5 DEF Calls!Apply, CallsTyped, CallStates
  <2> QED  BY <1>5, <2>1 DEF Calls!Apply, CallsTyped
<1>6. ASSUME NEW w \in Calls!Ids, NEW c \in IsolateCallIds, NEW ok \in BOOLEAN, Calls!Reply(w, c, ok)
      PROVE  CallsTyped' /\ ic_next' \in Nat
  <2>1. Calls!Set(c, "ok") \/ Calls!Set(c, "err")  BY <1>6 DEF Calls!Reply
  <2>2. ic_call' \in [IsolateCallIds -> [st : CallStates, with : IsolateCallIds \cup {None}]]
    BY <1>s, <2>1 DEF CallStates
  <2> QED  BY <1>6, <2>2 DEF Calls!Reply, CallsTyped
<1>7. ASSUME NEW w \in Calls!Ids, NEW c \in IsolateCallIds, Calls!Panic(w, c) PROVE CallsTyped' /\ ic_next' \in Nat
  <2>1. ASSUME NEW d \in IsolateCallIds
        PROVE  [ic_call[d] EXCEPT !.st = "died"] \in [st : CallStates, with : IsolateCallIds \cup {None}]
    BY DEF CallsTyped, CallStates
  <2>2. ic_call' \in [IsolateCallIds -> [st : CallStates, with : IsolateCallIds \cup {None}]]
    BY <1>7, <2>1 DEF Calls!Panic, CallsTyped
  <2>3. ic_queue' \in [Calls!Ids -> Seq(IsolateCallIds)]  BY <1>7 DEF Calls!Panic, CallsTyped
  <2> QED  BY <1>7, <2>2, <2>3 DEF Calls!Panic, CallsTyped
<1> QED
  BY <1>0, <1>1, <1>2, <1>3, <1>4, <1>5, <1>6, <1>7 DEF Calls!Next, Calls!WorkerStep

\* Every step keeps the invariant.
LEMMA CallsStep ==
    ASSUME CallsTyped, CallsInv, ic_next \in Nat, Calls!Next \/ UNCHANGED icVars
    PROVE  CallsInv'
<1> DEFINE Busy(c) == ic_call[c].st \in {"resolved", "running"}
\* A call changes its state, and no other call does.
<1>s. ASSUME NEW c \in IsolateCallIds, NEW s, Calls!Set(c, s)
      PROVE  \A d \in IsolateCallIds : /\ ic_call'[d].st = IF d = c THEN s ELSE ic_call[d].st
                                       /\ ic_call'[d].with = ic_call[d].with
  BY <1>s DEF Calls!Set, CallsTyped
<1>q. ASSUME NEW w \in Calls!Ids, NEW i \in 1..Len(ic_queue[w])
      PROVE  ic_queue[w][i] \in IsolateCallIds
  BY DEF CallsTyped
<1>0. CASE UNCHANGED icVars  BY <1>0 DEF icVars, CallsInv
<1>1. ASSUME NEW c \in IsolateCallIds, NEW b \in BOOLEAN, Calls!IsolateCall(c, b) PROVE CallsInv'
  <2> DEFINE w == PoolWorkers[(ic_next % Len(PoolWorkers)) + 1]
  <2>1. w \in Calls!Ids /\ ic_queue[w] \in Seq(IsolateCallIds)  BY PoolHasNext DEF CallsTyped
  <2>2. ic_call[c].st = "none"
    <3>1. c >= c  BY ServicesAssumption
    <3> QED  BY <1>1, <3>1 DEF Calls!IsolateCall
  <2>3. PICK s \in {"queued", "refused"} :
            /\ Calls!Set(c, s)
            /\ ic_queue' = IF s = "queued" THEN [ic_queue EXCEPT ![w] = Append(@, c)] ELSE ic_queue
            /\ ic_target' = [ic_target EXCEPT ![c] = w]
            /\ UNCHANGED <<ic_worker, ic_args>>
    BY <1>1 DEF Calls!IsolateCall
  <2> HIDE DEF w
  <2>4. \A d \in IsolateCallIds : /\ ic_call'[d].st = IF d = c THEN s ELSE ic_call[d].st
                                  /\ ic_call'[d].with = ic_call[d].with
                                  /\ ic_target'[d] = IF d = c THEN w ELSE ic_target[d]
    BY <1>s, <2>3 DEF CallsTyped
  <2>5. \A v \in Calls!Ids : \A i \in 1..Len(ic_queue[v]) : ic_queue[v][i] # c
    BY <2>2 DEF CallsInv
  <2>6. ASSUME NEW v \in Calls!Ids, NEW i \in 1..Len(ic_queue'[v])
        PROVE  /\ ic_call'[ic_queue'[v][i]].st = "queued" /\ ic_target'[ic_queue'[v][i]] = v
               /\ \A j \in 1..Len(ic_queue'[v]) : ic_queue'[v][i] = ic_queue'[v][j] => i = j
    <3>1. CASE ic_queue'[v] = ic_queue[v]
      <4>1. \A k \in 1..Len(ic_queue[v]) : ic_queue[v][k] \in IsolateCallIds \ {c}  BY <1>q, <2>5
      <4> QED  BY <2>4, <2>6, <3>1, <4>1 DEF CallsInv
    <3>2. CASE v = w /\ s = "queued" /\ ic_queue'[v] = Append(ic_queue[v], c)
      <4>1. /\ Len(ic_queue'[v]) = Len(ic_queue[v]) + 1 /\ Len(ic_queue[v]) \in Nat
            /\ ic_queue'[v][Len(ic_queue[v]) + 1] = c
            /\ \A k \in 1..Len(ic_queue[v]) : ic_queue'[v][k] = ic_queue[v][k]
        BY <2>1, <3>2, PushSeq
      <4>2. \A k \in 1..Len(ic_queue'[v]) : k \in 1..Len(ic_queue[v]) \/ k = Len(ic_queue[v]) + 1
        BY <4>1
      <4>3. \A k \in 1..Len(ic_queue[v]) : ic_queue[v][k] \in IsolateCallIds \ {c}  BY <1>q, <2>5
      <4>4. CASE i = Len(ic_queue[v]) + 1
        BY <2>4, <3>2, <4>1, <4>2, <4>3, <4>4
      <4>5. CASE i \in 1..Len(ic_queue[v])
        BY <2>4, <3>2, <4>1, <4>2, <4>3, <4>5 DEF CallsInv
      <4> QED  BY <2>6, <4>2, <4>4, <4>5
    <3> QED  BY <2>1, <2>3, <3>1, <3>2 DEF CallsTyped
  <2>7. ASSUME NEW d \in IsolateCallIds
        PROVE  /\ ic_call'[d].with \in {None, d}
               /\ ic_call'[d].st = "resolved" => ic_args'[ic_target'[d]] = d
               /\ ic_call'[d].st = "died" => ic_target'[d] \in Calls!Ids /\ ic_worker'[ic_target'[d]] = "panicked"
    BY <2>3, <2>4 DEF CallsInv
  <2>8. ASSUME NEW d \in IsolateCallIds, NEW e \in IsolateCallIds, Busy(d)', Busy(e)', ic_target'[d] = ic_target'[e]
        PROVE  d = e
    <3>1. d # c /\ e # c  BY <2>3, <2>4, <2>8
    <3> QED  BY <2>4, <2>8, <3>1 DEF CallsInv
  <2> QED  BY <2>6, <2>7, <2>8 DEF CallsInv
<1>2. ASSUME NEW w \in Calls!Ids, Calls!Close(w) PROVE CallsInv'
  BY <1>2 DEF Calls!Close, CallsInv
<1>3. ASSUME NEW w \in Calls!Ids, Calls!Start(w) \/ Calls!Exit(w) PROVE CallsInv'
  <2>1. /\ UNCHANGED <<ic_queue, ic_args, ic_call, ic_target>>
        /\ \A v \in Calls!Ids : ic_worker[v] = "panicked" => ic_worker'[v] = "panicked"
    BY <1>3 DEF Calls!Start, Calls!Exit, CallsTyped
  <2> QED  BY <2>1 DEF CallsInv
<1>4. ASSUME NEW w \in Calls!Ids, NEW ok \in BOOLEAN, Calls!Resolve(w, ok) PROVE CallsInv'
  <2> DEFINE c == Head(ic_queue[w])
  <2>1. /\ ic_queue[w] \in Seq(IsolateCallIds) /\ ic_queue[w] # <<>>
        /\ \A d \in IsolateCallIds : Busy(d) => ic_target[d] # w
    BY <1>4 DEF CallsTyped, Calls!Resolve, Calls!Recv, Calls!InFlight
  <2>2. /\ c \in IsolateCallIds /\ c = ic_queue[w][1] /\ Len(ic_queue[w]) \in Nat \ {0}
        /\ Len(Tail(ic_queue[w])) = Len(ic_queue[w]) - 1
        /\ \A k \in 1..(Len(ic_queue[w]) - 1) : Tail(ic_queue[w])[k] = ic_queue[w][k + 1]
    BY <2>1, TailSeq
  <2>3. ic_call[c].st = "queued" /\ ic_target[c] = w
    <3>1. 1 \in 1..Len(ic_queue[w])  BY <2>2
    <3> QED  BY <2>2, <3>1 DEF CallsInv
  <2>4. PICK s \in {"resolved", "err"} :
            /\ Calls!Set(c, s) /\ ic_queue' = [ic_queue EXCEPT ![w] = Tail(@)]
            /\ UNCHANGED <<ic_worker, ic_target>>
            /\ ic_args' = IF s = "resolved" THEN [ic_args EXCEPT ![w] = c] ELSE ic_args
    BY <1>4 DEF Calls!Resolve
  <2> HIDE DEF c
  <2>5. \A d \in IsolateCallIds : /\ ic_call'[d].st = IF d = c THEN s ELSE ic_call[d].st
                                  /\ ic_call'[d].with = ic_call[d].with
    BY <1>s, <2>2, <2>4
  <2>6. ASSUME NEW v \in Calls!Ids, NEW i \in 1..Len(ic_queue'[v])
        PROVE  /\ ic_call'[ic_queue'[v][i]].st = "queued" /\ ic_target'[ic_queue'[v][i]] = v
               /\ \A j \in 1..Len(ic_queue'[v]) : ic_queue'[v][i] = ic_queue'[v][j] => i = j
    <3>1. CASE v # w
      <4>1. ic_queue'[v] = ic_queue[v]  BY <2>4, <3>1 DEF CallsTyped
      <4>2. \A k \in 1..Len(ic_queue[v]) : ic_queue[v][k] \in IsolateCallIds \ {c}
        BY <1>q, <2>3, <3>1 DEF CallsInv
      <4>3. /\ ic_call[ic_queue[v][i]].st = "queued" /\ ic_target[ic_queue[v][i]] = v
            /\ \A j \in 1..Len(ic_queue[v]) : ic_queue[v][i] = ic_queue[v][j] => i = j
        BY <2>6, <4>1 DEF CallsInv
      <4> QED  BY <2>4, <2>5, <2>6, <4>1, <4>2, <4>3
    <3>2. CASE v = w
      <4>1. ic_queue'[v] = Tail(ic_queue[w])  BY <2>4, <3>2 DEF CallsTyped
      <4>2. \A k \in 1..Len(ic_queue'[v]) : /\ k \in 1..(Len(ic_queue[w]) - 1)
                                            /\ k + 1 \in 1..Len(ic_queue[w]) /\ k + 1 # 1
        BY <2>2, <4>1
      <4>3. 1 \in 1..Len(ic_queue[w])  BY <2>2
      <4>4. \A k \in 1..Len(ic_queue'[v]) : /\ ic_queue'[v][k] = ic_queue[w][k + 1]
                                            /\ ic_queue[w][k + 1] \in IsolateCallIds \ {c}
        BY <1>q, <2>2, <4>1, <4>2, <4>3 DEF CallsInv
      <4>5. ASSUME NEW j \in 1..Len(ic_queue'[v]), ic_queue'[v][i] = ic_queue'[v][j] PROVE i = j
        <5>1. i + 1 = j + 1  BY <2>6, <4>2, <4>4, <4>5 DEF CallsInv
        <5> QED  BY <5>1, <4>2, <2>6
      <4>6. ic_call[ic_queue[w][i + 1]].st = "queued" /\ ic_target[ic_queue[w][i + 1]] = w
        BY <2>6, <4>2 DEF CallsInv
      <4> QED  BY <2>4, <2>5, <2>6, <3>2, <4>4, <4>5, <4>6
    <3> QED  BY <3>1, <3>2
  <2>7. ASSUME NEW d \in IsolateCallIds
        PROVE  /\ ic_call'[d].with \in {None, d}
               /\ ic_call'[d].st = "resolved" => ic_args'[ic_target'[d]] = d
               /\ ic_call'[d].st = "died" => ic_target'[d] \in Calls!Ids /\ ic_worker'[ic_target'[d]] = "panicked"
    <3>1. CASE d = c
      <4>1. s = "resolved" => ic_args'[w] = c  BY <2>4 DEF CallsTyped
      <4> QED  BY <2>3, <2>4, <2>5, <3>1, <4>1 DEF CallsInv
    <3>2. CASE d # c
      <4>1. ic_call[d].st = "resolved" => ic_args'[ic_target[d]] = ic_args[ic_target[d]]
        BY <2>1, <2>4 DEF CallsTyped
      <4> QED  BY <2>4, <2>5, <3>2, <4>1 DEF CallsInv
    <3> QED  BY <3>1, <3>2
  <2>8. ASSUME NEW d \in IsolateCallIds, NEW e \in IsolateCallIds, Busy(d)', Busy(e)', ic_target'[d] = ic_target'[e]
        PROVE  d = e
    BY <2>1, <2>3, <2>4, <2>5, <2>8 DEF CallsInv
  <2> QED  BY <2>6, <2>7, <2>8 DEF CallsInv
<1>5. ASSUME NEW w \in Calls!Ids, NEW c \in IsolateCallIds, Calls!Apply(w, c) PROVE CallsInv'
  <2>1. ic_call[c].st = "resolved" /\ ic_target[c] = w /\ ic_args[w] = c
    BY <1>5 DEF Calls!Apply, Calls!InFlight, CallsInv
  <2>2. UNCHANGED <<ic_queue, ic_args, ic_target, ic_worker>>  BY <1>5 DEF Calls!Apply
  <2>3. \A d \in IsolateCallIds : /\ ic_call'[d].st = IF d = c THEN "running" ELSE ic_call[d].st
                                  /\ ic_call'[d].with = IF d = c THEN c ELSE ic_call[d].with
    BY <1>5, <2>1 DEF Calls!Apply, CallsTyped
  <2>4. \A v \in Calls!Ids : \A i \in 1..Len(ic_queue[v]) : ic_queue[v][i] \in IsolateCallIds \ {c}
    BY <1>q, <2>1 DEF CallsInv
  <2> QED  BY <2>1, <2>2, <2>3, <2>4 DEF CallsInv
<1>6. ASSUME NEW w \in Calls!Ids, NEW c \in IsolateCallIds, NEW ok \in BOOLEAN, Calls!Reply(w, c, ok) PROVE CallsInv'
  <2>1. ic_call[c].st = "running" /\ UNCHANGED <<ic_queue, ic_args, ic_target, ic_worker>>
    BY <1>6 DEF Calls!Reply
  <2>2. PICK s \in {"ok", "err"} : Calls!Set(c, s)  BY <1>6 DEF Calls!Reply
  <2>3. \A d \in IsolateCallIds : /\ ic_call'[d].st = IF d = c THEN s ELSE ic_call[d].st
                                  /\ ic_call'[d].with = ic_call[d].with
    BY <1>s, <2>2
  <2>4. \A v \in Calls!Ids : \A i \in 1..Len(ic_queue[v]) : ic_queue[v][i] \in IsolateCallIds \ {c}
    BY <1>q, <2>1 DEF CallsInv
  <2> QED  BY <2>1, <2>2, <2>3, <2>4 DEF CallsInv
<1>7. ASSUME NEW w \in Calls!Ids, NEW c \in IsolateCallIds, Calls!Panic(w, c) PROVE CallsInv'
  <2>1. ASSUME NEW d \in Calls!LostWith(w), d \in IsolateCallIds PROVE ic_target[d] = w
    <3>1. CASE d \in Calls!InFlight(w)  BY <3>1 DEF Calls!InFlight
    <3>2. CASE d \in Calls!Range(ic_queue[w])
      <4>1. DOMAIN ic_queue[w] = 1..Len(ic_queue[w])  BY DEF CallsTyped
      <4> QED  BY <3>2, <4>1 DEF Calls!Range, CallsInv
    <3> QED  BY <3>1, <3>2 DEF Calls!LostWith
  <2>2. /\ UNCHANGED <<ic_args, ic_target>>
        /\ \A v \in Calls!Ids : ic_queue'[v] = IF v = w THEN <<>> ELSE ic_queue[v]
        /\ \A v \in Calls!Ids : ic_worker[v] = "panicked" => ic_worker'[v] = "panicked"
        /\ ic_worker'[w] = "panicked"
    BY <1>7 DEF Calls!Panic, CallsTyped
  <2>3. \A d \in IsolateCallIds :
            /\ ic_call'[d].st = IF d \in Calls!LostWith(w) THEN "died" ELSE ic_call[d].st
            /\ ic_call'[d].with = ic_call[d].with
    BY <1>7 DEF Calls!Panic, CallsTyped
  <2>4. \A v \in Calls!Ids \ {w} : \A i \in 1..Len(ic_queue[v]) :
            ic_queue[v][i] \in IsolateCallIds \ Calls!LostWith(w)
    BY <1>q, <2>1 DEF CallsInv
  <2>5. \A v \in Calls!Ids : \A i \in 1..Len(ic_queue'[v]) : v # w
    BY <2>2
  <2>6. ASSUME NEW v \in Calls!Ids, NEW i \in 1..Len(ic_queue'[v])
        PROVE  /\ ic_call'[ic_queue'[v][i]].st = "queued" /\ ic_target'[ic_queue'[v][i]] = v
               /\ \A j \in 1..Len(ic_queue'[v]) : ic_queue'[v][i] = ic_queue'[v][j] => i = j
    <3>1. v # w /\ ic_queue'[v] = ic_queue[v]  BY <2>2, <2>5, <2>6
    <3> QED  BY <2>2, <2>3, <2>4, <2>6, <3>1 DEF CallsInv
  <2>7. ASSUME NEW d \in IsolateCallIds
        PROVE  /\ ic_call'[d].with \in {None, d}
               /\ ic_call'[d].st = "resolved" => ic_args'[ic_target'[d]] = d
               /\ ic_call'[d].st = "died" => ic_target'[d] \in Calls!Ids /\ ic_worker'[ic_target'[d]] = "panicked"
    BY <2>1, <2>2, <2>3 DEF CallsInv
  <2>8. ASSUME NEW d \in IsolateCallIds, NEW e \in IsolateCallIds, Busy(d)', Busy(e)', ic_target'[d] = ic_target'[e]
        PROVE  d = e
    BY <2>2, <2>3, <2>8 DEF CallsInv
  <2> QED  BY <2>6, <2>7, <2>8 DEF CallsInv
<1> QED
  BY <1>0, <1>1, <1>2, <1>3, <1>4, <1>5, <1>6, <1>7 DEF Calls!Next, Calls!WorkerStep

-----------------------------------------------------------------------------
(* The channel between isolates *)

\* The receiver will wake a take that waits and is not scheduled; and as long as no
\* two takes waited together, the only one that waits is scheduled, or the receiver
\* will wake it and has nothing for it.
Waiting(t) == ix_take[t] = "waiting"
RecvInv ==
    /\ ix_chan \in Seq(Puts) /\ ix_got \in Seq(Puts) /\ ix_sent \in Seq(Puts)
    /\ ix_sent = ix_got \o ix_chan
    /\ ix_senders \in BOOLEAN /\ ix_shared \in BOOLEAN
    /\ DOMAIN ix_take = Takes
    /\ ix_runnable \subseteq {t \in Takes : Waiting(t)}
    /\ ix_waker \in {t \in Takes : Waiting(t) /\ t \notin ix_runnable} \cup {None}
    /\ ~ix_shared => /\ \A t, u \in Takes : Waiting(t) /\ Waiting(u) => t = u
                     /\ \A t \in Takes : Waiting(t) =>
                            \/ t \in ix_runnable
                            \/ ix_waker = t /\ ix_chan = <<>> /\ ix_senders

\* Nobody waits at first.
LEMMA RecvInit == ASSUME Recv!Init PROVE RecvInv
<1>1. <<>> \in Seq(Puts) /\ <<>> \o <<>> = <<>>  OBVIOUS
<1> QED  BY <1>1 DEF Recv!Init, RecvInv, Waiting

\* Concatenation, seen from the end of the first part.
LEMMA ConcatShift ==
    ASSUME NEW S, NEW s \in Seq(S), NEW t \in Seq(S)
    PROVE  /\ \A x \in S : s \o Append(t, x) = Append(s \o t, x)
           /\ t # <<>> => Append(s, Head(t)) \o Tail(t) = s \o t
<1>1. ASSUME NEW x \in S PROVE s \o Append(t, x) = Append(s \o t, x)
  OBVIOUS
<1>2. ASSUME t # <<>> PROVE Append(s, Head(t)) \o Tail(t) = s \o t
  BY <1>2
<1> QED  BY <1>1, <1>2

\* Every send, poll and drop keeps it.
LEMMA RecvStep ==
    ASSUME RecvInv, Recv!Next \/ UNCHANGED ixVars
    PROVE  RecvInv'
<1> USE ServicesAssumption
<1>0. CASE UNCHANGED ixVars  BY <1>0 DEF ixVars, RecvInv, Waiting
\* After a wake-up every take that the receiver knew of is scheduled.
<1>w. ASSUME Recv!WakeRx, UNCHANGED <<ix_take, ix_shared>>
      PROVE  /\ ix_runnable' \subseteq {t \in Takes : Waiting(t)'} /\ ix_waker' = None
             /\ ~ix_shared => \A t \in Takes : Waiting(t) => t \in ix_runnable'
  BY <1>w DEF RecvInv, Recv!WakeRx, Waiting
<1>c. /\ \A v \in Puts : ix_got \o Append(ix_chan, v) = Append(ix_got \o ix_chan, v)
      /\ ix_chan # <<>> => Append(ix_got, Head(ix_chan)) \o Tail(ix_chan) = ix_got \o ix_chan
  <2>1. ix_got \in Seq(Puts) /\ ix_chan \in Seq(Puts)  BY DEF RecvInv
  <2> QED  BY <2>1, ConcatShift
<1>1. ASSUME NEW v \in Puts, Recv!IsolatePut(v) PROVE RecvInv'
  <2>1. /\ ix_chan' \in Seq(Puts) /\ ix_sent' \in Seq(Puts) /\ UNCHANGED <<ix_got, ix_take, ix_shared, ix_senders>>
        /\ ix_chan' = Append(ix_chan, v) /\ ix_sent' = Append(ix_sent, v)
    BY <1>1 DEF Recv!IsolatePut, RecvInv
  <2>2. ix_sent' = ix_got' \o ix_chan'  BY <1>c, <2>1 DEF RecvInv
  <2>3. Recv!WakeRx  BY <1>1 DEF Recv!IsolatePut
  <2> QED  BY <1>w, <2>1, <2>2, <2>3 DEF RecvInv, Waiting
<1>2. CASE Recv!DropSender
  <2>1. UNCHANGED <<ix_chan, ix_sent, ix_got, ix_take, ix_shared>> /\ ix_senders' = FALSE /\ Recv!WakeRx
    BY <1>2 DEF Recv!DropSender
  <2> QED  BY <1>w, <2>1 DEF RecvInv, Waiting
<1>3. ASSUME NEW t \in Takes, Recv!IsolateTake(t) PROVE RecvInv'
  <2>1. /\ UNCHANGED <<ix_chan, ix_sent, ix_got, ix_senders, ix_waker>> /\ ix_take[t] = "none"
        /\ \A u \in Takes : ix_take'[u] = IF u = t THEN "waiting" ELSE ix_take[u]
        /\ DOMAIN ix_take' = Takes
        /\ ix_runnable' = ix_runnable \cup {t}
        /\ ix_shared' = (ix_shared \/ \E u \in Takes : Waiting(u))
    BY <1>3 DEF Recv!IsolateTake, RecvInv, Waiting
  <2>2. ix_shared' \in BOOLEAN /\ (~ix_shared' => ~ix_shared /\ \A u \in Takes : ~Waiting(u))
    BY <2>1
  <2>3. /\ ix_runnable' \subseteq {u \in Takes : Waiting(u)'}
        /\ ix_waker' \in {u \in Takes : Waiting(u)' /\ u \notin ix_runnable'} \cup {None}
    BY <2>1 DEF RecvInv, Waiting
  <2>4. ASSUME ~ix_shared', NEW u \in Takes, Waiting(u)' PROVE u = t /\ u \in ix_runnable'
    BY <2>1, <2>2, <2>4 DEF Waiting
  <2>5. DOMAIN ix_take' = Takes  BY <2>1
  <2> QED  BY <2>1, <2>2, <2>3, <2>4, <2>5 DEF RecvInv
<1>4. ASSUME NEW t \in Takes, Recv!PollRecv(t) PROVE RecvInv'
  <2>1. t \in ix_runnable /\ ix_runnable' = ix_runnable \ {t} /\ Waiting(t) /\ UNCHANGED <<ix_senders, ix_sent, ix_shared>>
    BY <1>4 DEF Recv!PollRecv, RecvInv
  <2>2. CASE ix_chan # <<>>
    <3>1. /\ ix_take' = [ix_take EXCEPT ![t] = Head(ix_chan)] /\ ix_chan' = Tail(ix_chan)
          /\ ix_got' = Append(ix_got, Head(ix_chan)) /\ UNCHANGED ix_waker
      BY <1>4, <2>2 DEF Recv!PollRecv
    <3>2. /\ Head(ix_chan) \in Puts /\ ix_chan' \in Seq(Puts) /\ ix_got' \in Seq(Puts)
          /\ ix_sent' = ix_got' \o ix_chan'
      <4>1. Head(ix_chan) \in Puts /\ Tail(ix_chan) \in Seq(Puts)  BY <2>2, TailSeq DEF RecvInv
      <4>2. Append(ix_got, Head(ix_chan)) \in Seq(Puts)  BY <4>1 DEF RecvInv
      <4>3. Append(ix_got, Head(ix_chan)) \o Tail(ix_chan) = ix_got \o ix_chan
        BY <1>c, <2>2
      <4> QED  BY <2>1, <3>1, <4>1, <4>2, <4>3 DEF RecvInv
    <3>3. /\ DOMAIN ix_take' = Takes
          /\ \A u \in Takes : Waiting(u)' <=> Waiting(u) /\ u # t
      BY <3>1, <3>2 DEF RecvInv, Waiting
    <3>4. /\ ix_runnable' \subseteq {u \in Takes : Waiting(u)'}
          /\ ix_waker' \in {u \in Takes : Waiting(u)' /\ u \notin ix_runnable'} \cup {None}
      BY <2>1, <3>1, <3>3 DEF RecvInv
    <3>5. ASSUME ~ix_shared', NEW u \in Takes, Waiting(u)' PROVE FALSE
      BY <2>1, <3>3, <3>5 DEF RecvInv
    <3> QED  BY <2>1, <3>2, <3>3, <3>4, <3>5 DEF RecvInv
  <2>3. CASE ix_chan = <<>> /\ ix_senders
    <3>1. ix_waker' = t /\ UNCHANGED <<ix_take, ix_chan, ix_got>>
      BY <1>4, <2>3 DEF Recv!PollRecv, Recv!Register
    <3> QED  BY <2>1, <2>3, <3>1 DEF RecvInv, Waiting
  <2>4. CASE ix_chan = <<>> /\ ~ix_senders
    <3>1. ix_take' = [ix_take EXCEPT ![t] = "nil"] /\ UNCHANGED <<ix_waker, ix_chan, ix_got>>
      BY <1>4, <2>4 DEF Recv!PollRecv
    <3>2. /\ DOMAIN ix_take' = Takes
          /\ \A u \in Takes : Waiting(u)' <=> Waiting(u) /\ u # t
      BY <3>1 DEF RecvInv, Waiting
    <3>3. /\ ix_runnable' \subseteq {u \in Takes : Waiting(u)'}
          /\ ix_waker' \in {u \in Takes : Waiting(u)' /\ u \notin ix_runnable'} \cup {None}
      BY <2>1, <3>1, <3>2 DEF RecvInv
    <3>4. ASSUME ~ix_shared', NEW u \in Takes, Waiting(u)' PROVE FALSE
      BY <2>1, <3>2, <3>4 DEF RecvInv
    <3> QED  BY <2>1, <3>1, <3>2, <3>3, <3>4 DEF RecvInv
  <2> QED  BY <2>2, <2>3, <2>4 DEF RecvInv
<1>5. CASE Recv!IsolatePoll
  <2>1. /\ ix_chan # <<>> /\ ix_chan' = Tail(ix_chan) /\ ix_got' = Append(ix_got, Head(ix_chan))
        /\ UNCHANGED <<ix_senders, ix_waker, ix_runnable, ix_take, ix_sent, ix_shared>>
    BY <1>5 DEF Recv!IsolatePoll
  <2>2. Head(ix_chan) \in Puts /\ Tail(ix_chan) \in Seq(Puts)  BY <2>1, TailSeq DEF RecvInv
  <2>3. Append(ix_got, Head(ix_chan)) \in Seq(Puts)  BY <2>2 DEF RecvInv
  <2>4. Append(ix_got, Head(ix_chan)) \o Tail(ix_chan) = ix_got \o ix_chan
    BY <1>c, <2>1
  <2> QED  BY <2>1, <2>2, <2>3, <2>4 DEF RecvInv, Waiting
<1> QED  BY <1>0, <1>1, <1>2, <1>3, <1>4, <1>5 DEF Recv!Next

\* What was received is the beginning of what was sent.
LEMMA RecvServes == ASSUME RecvInv PROVE Recv!TakeIsServed
<1>1. Recv!IsPrefixOfSent
  <2> DEFINE n == Len(ix_got)
  <2>1. ix_got \in Seq(Puts) /\ ix_chan \in Seq(Puts) /\ ix_sent = ix_got \o ix_chan  BY DEF RecvInv
  <2>2. n \in 0..Len(ix_sent)  BY <2>1
  <2>3. ix_got = SubSeq(ix_sent, 1, n)
    <3>1. ix_sent \in Seq(Puts)  BY DEF RecvInv
    <3>2. /\ SubSeq(ix_sent, 1, n) \in Seq(Puts) /\ Len(SubSeq(ix_sent, 1, n)) = n
          /\ \A k \in 1..n : SubSeq(ix_sent, 1, n)[k] = ix_sent[k]
      BY <2>2, <3>1, PrefixSeq
    <3>3. \A k \in 1..n : ix_sent[k] = ix_got[k]  BY <2>1
    <3> QED  BY <2>1, <3>2, <3>3, SeqEqual
  <2> QED  BY <2>2, <2>3 DEF Recv!IsPrefixOfSent
<1> QED  BY <1>1 DEF RecvInv, Recv!TakeIsServed, Waiting

-----------------------------------------------------------------------------
(* The nREPL server *)

\* A job is queued once or in hand; as long as no key was used again too early, the
\* entry of an eval that is queued or in hand is in the table, under its own key.
Listed(req, pending, q) ==
    req[q].op = "eval" /\ req[q].key \in Nrepl!Keys =>
        req[q].key \in DOMAIN pending /\ pending[req[q].key] = q
NreplInv ==
    /\ DOMAIN nr_req \subseteq NReplRequests
    /\ nr_jobs \in Seq(NReplRequests)
    /\ \A i \in 1..Len(nr_jobs) :
           /\ nr_jobs[i] \in DOMAIN nr_req /\ nr_jobs[i] # nr_cur
           /\ \A j \in 1..Len(nr_jobs) : nr_jobs[i] = nr_jobs[j] => i = j
    /\ nr_cur \in DOMAIN nr_req \cup {None}
    /\ nr_cur = None <=> nr_stage = "idle"
    /\ nr_late = {}
    /\ nr_reused \in BOOLEAN /\ nr_missed \in BOOLEAN
    /\ ~nr_reused => /\ ~nr_missed
                     /\ \A i \in 1..Len(nr_jobs) : Listed(nr_req, nr_pending, nr_jobs[i])
                     /\ nr_cur # None => Listed(nr_req, nr_pending, nr_cur)

\* Nothing was read at first.
LEMMA NreplInit == ASSUME Nrepl!Init PROVE NreplInv
<1>1. nr_jobs = <<>> /\ nr_jobs \in Seq(NReplRequests) /\ Len(nr_jobs) = 0  BY DEF Nrepl!Init
<1>2. DOMAIN nr_req = {}  BY DEF Nrepl!Init
<1>3. /\ nr_cur = None /\ nr_stage = "idle" /\ nr_late = {}
      /\ nr_reused = FALSE /\ nr_missed = FALSE
  BY DEF Nrepl!Init
<1>4. \A i : i \notin 1..Len(nr_jobs)  BY <1>1
<1>5. nr_reused \in BOOLEAN /\ nr_missed \in BOOLEAN /\ ~nr_missed  BY <1>3
<1> QED  BY <1>1, <1>2, <1>3, <1>4, <1>5, Zenon DEF NreplInv

\* The next request was not read before; what was, stays as it was.
LEMMA NreplRecord ==
    ASSUME NreplInv, NEW r \in NReplRequests, Nrepl!IsNext(r), NEW op, NEW key, Nrepl!Record(r, op, key)
    PROVE  /\ r \notin DOMAIN nr_req /\ DOMAIN nr_req' = DOMAIN nr_req \cup {r}
           /\ nr_req'[r] = [op |-> op, key |-> key] /\ r # None
           /\ \A q \in DOMAIN nr_req : nr_req'[q] = nr_req[q] /\ q # r
<1>1. ~(r < r) /\ r # None  BY ServicesAssumption
<1>2. r \notin DOMAIN nr_req  BY <1>1 DEF Nrepl!IsNext, Nrepl!Received
<1> QED  BY <1>1, <1>2 DEF Nrepl!Record, Nrepl!Received

\* A job is appended.
LEMMA NreplQueued ==
    ASSUME NreplInv, NEW r \in NReplRequests, r \notin DOMAIN nr_req, r # None,
           DOMAIN nr_req' = DOMAIN nr_req \cup {r}, nr_jobs' = Append(nr_jobs, r), UNCHANGED nr_cur
    PROVE  /\ nr_jobs' \in Seq(NReplRequests)
           /\ \A i \in 1..Len(nr_jobs') :
                  /\ nr_jobs'[i] \in DOMAIN nr_req' /\ nr_jobs'[i] # nr_cur'
                  /\ \A j \in 1..Len(nr_jobs') : nr_jobs'[i] = nr_jobs'[j] => i = j
                  /\ nr_jobs'[i] = r \/ \E k \in 1..Len(nr_jobs) : nr_jobs'[i] = nr_jobs[k]
<1>1. /\ nr_jobs' \in Seq(NReplRequests) /\ Len(nr_jobs') = Len(nr_jobs) + 1 /\ Len(nr_jobs) \in Nat
      /\ nr_jobs'[Len(nr_jobs) + 1] = r
      /\ \A k \in 1..Len(nr_jobs) : nr_jobs'[k] = nr_jobs[k]
  BY PushSeq DEF NreplInv
<1>2. \A i \in 1..Len(nr_jobs') : i \in 1..Len(nr_jobs) \/ i = Len(nr_jobs) + 1  BY <1>1
<1>3. \A i \in 1..Len(nr_jobs) : nr_jobs[i] \in DOMAIN nr_req /\ nr_jobs[i] # nr_cur /\ nr_jobs[i] # r
  BY DEF NreplInv
<1>4. nr_cur # r  BY DEF NreplInv
<1>5. ASSUME NEW i \in 1..Len(nr_jobs'), NEW j \in 1..Len(nr_jobs'), nr_jobs'[i] = nr_jobs'[j] PROVE i = j
  <2>1. CASE i \in 1..Len(nr_jobs) /\ j \in 1..Len(nr_jobs)  BY <1>1, <1>5, <2>1 DEF NreplInv
  <2> QED  BY <1>1, <1>2, <1>3, <1>5, <2>1
<1> QED  BY <1>1, <1>2, <1>3, <1>4, <1>5

\* A form begins only when the flag is down, and the table tells the truth.
LEMMA NreplStep ==
    ASSUME NreplInv, Nrepl!Next \/ UNCHANGED nrVars
    PROVE  NreplInv'
<1> USE DEF Nrepl!netVars, Nrepl!tableVars, Nrepl!engineVars
<1>0. CASE UNCHANGED nrVars  BY <1>0 DEF nrVars, NreplInv, Listed
<1>1. ASSUME NEW r \in NReplRequests, NEW key \in Nrepl!Keys \cup {None}, Nrepl!DispatchEval(r, key) PROVE NreplInv'
  <2>1. /\ r \notin DOMAIN nr_req /\ DOMAIN nr_req' = DOMAIN nr_req \cup {r}
        /\ nr_req'[r] = [op |-> "eval", key |-> key] /\ r # None
        /\ \A q \in DOMAIN nr_req : nr_req'[q] = nr_req[q] /\ q # r
    BY <1>1, NreplRecord DEF Nrepl!DispatchEval
  <2>2. /\ nr_jobs' = Append(nr_jobs, r) /\ UNCHANGED <<nr_cur, nr_stage, nr_late, nr_missed>>
        /\ nr_pending' = IF key = None THEN nr_pending
                         ELSE [k \in DOMAIN nr_pending \cup {key} |-> IF k = key THEN r ELSE nr_pending[k]]
        /\ nr_reused' = (nr_reused \/ key \in DOMAIN nr_pending)
    BY <1>1 DEF Nrepl!DispatchEval
  <2>3. nr_reused' \in BOOLEAN /\ (~nr_reused' => ~nr_reused /\ key \notin DOMAIN nr_pending)
    BY <2>2
  <2>4. ASSUME NEW q \in DOMAIN nr_req, ~nr_reused', Listed(nr_req, nr_pending, q) PROVE Listed(nr_req', nr_pending', q)
    BY <2>1, <2>2, <2>3, <2>4 DEF Listed
  <2>5. Listed(nr_req', nr_pending', r)
    <3>1. None \notin Nrepl!Keys  BY ServicesAssumption DEF Nrepl!Keys
    <3> QED  BY <2>1, <2>2, <3>1 DEF Listed
  <2>6. ASSUME ~nr_reused'
        PROVE  /\ ~nr_missed' /\ \A i \in 1..Len(nr_jobs') : Listed(nr_req', nr_pending', nr_jobs'[i])
               /\ nr_cur' # None => Listed(nr_req', nr_pending', nr_cur')
    <3>1. \A i \in 1..Len(nr_jobs) : nr_jobs[i] \in DOMAIN nr_req /\ Listed(nr_req, nr_pending, nr_jobs[i])
      BY <2>3, <2>6 DEF NreplInv
    <3>2. nr_cur # None => nr_cur \in DOMAIN nr_req /\ Listed(nr_req, nr_pending, nr_cur)  BY <2>3, <2>6 DEF NreplInv
    <3>3. \A i \in 1..Len(nr_jobs') : nr_jobs'[i] = r \/ \E k \in 1..Len(nr_jobs) : nr_jobs'[i] = nr_jobs[k]
      BY <2>1, <2>2, NreplQueued
    <3>4. ~nr_missed'  BY <2>2, <2>3, <2>6 DEF NreplInv
    <3>5. \A i \in 1..Len(nr_jobs') : Listed(nr_req', nr_pending', nr_jobs'[i])
      <4> SUFFICES ASSUME NEW i \in 1..Len(nr_jobs') PROVE Listed(nr_req', nr_pending', nr_jobs'[i])  OBVIOUS
      <4> QED  BY <2>4, <2>5, <2>6, <3>1, <3>3
    <3> QED  BY <2>2, <2>4, <2>6, <3>2, <3>4, <3>5
  <2>7. DOMAIN nr_req' \subseteq NReplRequests /\ nr_cur' \in DOMAIN nr_req' \cup {None}
    BY <2>1, <2>2 DEF NreplInv
  <2>8. /\ nr_jobs' \in Seq(NReplRequests)
        /\ \A i \in 1..Len(nr_jobs') :
               /\ nr_jobs'[i] \in DOMAIN nr_req' /\ nr_jobs'[i] # nr_cur'
               /\ \A j \in 1..Len(nr_jobs') : nr_jobs'[i] = nr_jobs'[j] => i = j
    BY <2>1, <2>2, NreplQueued
  <2> QED  BY <2>2, <2>3, <2>6, <2>7, <2>8 DEF NreplInv
\* Nothing is queued, and the request in hand stays in hand or none is.
<1>a. ASSUME UNCHANGED <<nr_req, nr_jobs, nr_late, nr_missed, nr_reused>>, nr_pending' = nr_pending,
             nr_cur' = nr_cur, nr_cur' = None <=> nr_stage' = "idle"
      PROVE  NreplInv'
  BY <1>a DEF NreplInv
<1>2. ASSUME NEW r \in NReplRequests, NEW op \in {"clone", "close", "other"}, NEW s \in Sessions,
             Nrepl!DispatchOther(r, op, s)
      PROVE  NreplInv'
  <2>1. /\ r \notin DOMAIN nr_req /\ DOMAIN nr_req' = DOMAIN nr_req \cup {r}
        /\ nr_req'[r] = [op |-> op, key |-> <<s, None>>] /\ r # None
        /\ \A q \in DOMAIN nr_req : nr_req'[q] = nr_req[q] /\ q # r
    BY <1>2, NreplRecord DEF Nrepl!DispatchOther
  <2>2. /\ nr_jobs' = Append(nr_jobs, r)
        /\ UNCHANGED <<nr_cur, nr_stage, nr_late, nr_missed, nr_pending, nr_reused>>
    BY <1>2 DEF Nrepl!DispatchOther
  <2>3. ASSUME NEW q \in DOMAIN nr_req, Listed(nr_req, nr_pending, q) PROVE Listed(nr_req', nr_pending', q)
    BY <2>1, <2>2, <2>3 DEF Listed
  <2>4. Listed(nr_req', nr_pending', r)  BY <2>1 DEF Listed
  <2>5. ASSUME ~nr_reused'
        PROVE  /\ ~nr_missed' /\ \A i \in 1..Len(nr_jobs') : Listed(nr_req', nr_pending', nr_jobs'[i])
               /\ nr_cur' # None => Listed(nr_req', nr_pending', nr_cur')
    <3>1. \A i \in 1..Len(nr_jobs) : nr_jobs[i] \in DOMAIN nr_req /\ Listed(nr_req, nr_pending, nr_jobs[i])
      BY <2>2, <2>5 DEF NreplInv
    <3>2. nr_cur # None => nr_cur \in DOMAIN nr_req /\ Listed(nr_req, nr_pending, nr_cur)
      BY <2>2, <2>5 DEF NreplInv
    <3>3. \A i \in 1..Len(nr_jobs') : nr_jobs'[i] = r \/ \E k \in 1..Len(nr_jobs) : nr_jobs'[i] = nr_jobs[k]
      BY <2>1, <2>2, NreplQueued
    <3>4. ~nr_missed'  BY <2>2, <2>5 DEF NreplInv
    <3>5. \A i \in 1..Len(nr_jobs') : Listed(nr_req', nr_pending', nr_jobs'[i])
      BY <2>3, <2>4, <3>1, <3>3
    <3> QED  BY <2>2, <2>3, <3>2, <3>4, <3>5
  <2>6. DOMAIN nr_req' \subseteq NReplRequests /\ nr_cur' \in DOMAIN nr_req' \cup {None}
    BY <2>1, <2>2 DEF NreplInv
  <2>7. /\ nr_jobs' \in Seq(NReplRequests)
        /\ \A i \in 1..Len(nr_jobs') :
               /\ nr_jobs'[i] \in DOMAIN nr_req' /\ nr_jobs'[i] # nr_cur'
               /\ \A j \in 1..Len(nr_jobs') : nr_jobs'[i] = nr_jobs'[j] => i = j
    BY <2>1, <2>2, NreplQueued
  <2> QED  BY <2>2, <2>5, <2>6, <2>7 DEF NreplInv
<1>3. ASSUME NEW r \in NReplRequests, NEW s \in Sessions, NEW i \in MessageIds \cup {None},
             Nrepl!DispatchInterrupt(r, s, i)
      PROVE  NreplInv'
  <2> DEFINE hit == {nr_pending[k] : k \in Nrepl!Named(s, i) \cap DOMAIN nr_pending}
             running == {q \in DOMAIN nr_req : nr_req[q].op = "eval" /\ nr_req[q].key \in Nrepl!Named(s, i)}
  <2>1. /\ r \notin DOMAIN nr_req /\ DOMAIN nr_req' = DOMAIN nr_req \cup {r}
        /\ \A q \in DOMAIN nr_req : nr_req'[q] = nr_req[q] /\ q # r
    BY <1>3, NreplRecord DEF Nrepl!DispatchInterrupt
  <2>2. /\ UNCHANGED <<nr_cur, nr_stage, nr_late, nr_pending, nr_reused, nr_jobs>>
        /\ nr_missed' = (nr_missed \/ (hit = {} /\ running \cap (Nrepl!Queued \cup Nrepl!InHand) # {}))
    BY <1>3 DEF Nrepl!DispatchInterrupt, Nrepl!Received
  <2>3. ASSUME ~nr_reused, hit = {}, NEW q \in running \cap (Nrepl!Queued \cup Nrepl!InHand) PROVE FALSE
    <3>1. Listed(nr_req, nr_pending, q)
      <4>1. DOMAIN nr_jobs = 1..Len(nr_jobs)  BY DEF NreplInv
      <4>2. CASE q \in Nrepl!Queued  BY <2>3, <4>1, <4>2 DEF Nrepl!Queued, NreplInv
      <4>3. CASE q \in Nrepl!InHand  BY <2>3, <4>3 DEF Nrepl!InHand, NreplInv
      <4> QED  BY <2>3, <4>2, <4>3
    <3>2. nr_req[q].op = "eval" /\ nr_req[q].key \in Nrepl!Named(s, i) /\ nr_req[q].key \in Nrepl!Keys
      BY <2>3 DEF Nrepl!Named
    <3>3. nr_pending[nr_req[q].key] \in hit  BY <3>1, <3>2 DEF Listed
    <3> QED  BY <2>3, <3>3
  <2> HIDE DEF hit, running
  <2>4. nr_missed' \in BOOLEAN  BY <2>2
  <2>5. ~nr_reused' => ~nr_missed'
    <3>1. ~nr_reused => ~nr_missed  BY DEF NreplInv
    <3> QED  BY <2>2, <2>3, <3>1
  <2>6. ASSUME NEW q \in DOMAIN nr_req, Listed(nr_req, nr_pending, q) PROVE Listed(nr_req', nr_pending', q)
    BY <2>1, <2>2, <2>6 DEF Listed
  <2>7. ASSUME ~nr_reused'
        PROVE  /\ \A k \in 1..Len(nr_jobs') : Listed(nr_req', nr_pending', nr_jobs'[k])
               /\ nr_cur' # None => Listed(nr_req', nr_pending', nr_cur')
    <3>1. \A k \in 1..Len(nr_jobs) : nr_jobs[k] \in DOMAIN nr_req /\ Listed(nr_req, nr_pending, nr_jobs[k])
      BY <2>2, <2>7 DEF NreplInv
    <3>2. nr_cur # None => nr_cur \in DOMAIN nr_req /\ Listed(nr_req, nr_pending, nr_cur)
      BY <2>2, <2>7 DEF NreplInv
    <3> QED  BY <2>2, <2>6, <3>1, <3>2
  <2>8. DOMAIN nr_req' \subseteq NReplRequests /\ nr_cur' \in DOMAIN nr_req' \cup {None}
    BY <2>1, <2>2 DEF NreplInv
  <2>9. /\ nr_jobs' \in Seq(NReplRequests)
        /\ \A k \in 1..Len(nr_jobs') :
               /\ nr_jobs'[k] \in DOMAIN nr_req' /\ nr_jobs'[k] # nr_cur'
               /\ \A j \in 1..Len(nr_jobs') : nr_jobs'[k] = nr_jobs'[j] => k = j
    BY <2>1, <2>2 DEF NreplInv
  <2>10. nr_reused' \in BOOLEAN /\ nr_late' = {} /\ (nr_cur' = None <=> nr_stage' = "idle")
    BY <2>2 DEF NreplInv
  <2> QED  BY <2>4, <2>5, <2>7, <2>8, <2>9, <2>10 DEF NreplInv
<1>4. CASE Nrepl!Shutdown
  BY <1>4, <1>a DEF Nrepl!Shutdown, NreplInv
<1>5. CASE Nrepl!TakeJob
  <2>1. /\ nr_cur = None /\ nr_jobs # <<>> /\ nr_cur' = Head(nr_jobs) /\ nr_jobs' = Tail(nr_jobs)
        /\ nr_stage' = "taken" /\ UNCHANGED <<nr_req, nr_pending, nr_late, nr_missed, nr_reused>>
    BY <1>5 DEF Nrepl!TakeJob
  <2>2. /\ nr_jobs' \in Seq(NReplRequests) /\ Len(nr_jobs') = Len(nr_jobs) - 1 /\ Len(nr_jobs) \in Nat \ {0}
        /\ nr_cur' = nr_jobs[1] /\ \A k \in 1..(Len(nr_jobs) - 1) : nr_jobs'[k] = nr_jobs[k + 1]
    BY <2>1, TailSeq DEF NreplInv
  <2>3. 1 \in 1..Len(nr_jobs) /\ \A k \in 1..Len(nr_jobs') : /\ nr_jobs'[k] = nr_jobs[k + 1]
                                                             /\ k + 1 \in 1..Len(nr_jobs) /\ k + 1 # 1
    BY <2>2
  <2>4. nr_cur' \in DOMAIN nr_req /\ nr_cur' # None
    <3>1. nr_cur' \in DOMAIN nr_req  BY <2>2, <2>3 DEF NreplInv
    <3> QED  BY <3>1, ServicesAssumption DEF NreplInv
  <2>5. ASSUME NEW i \in 1..Len(nr_jobs') PROVE nr_jobs'[i] \in DOMAIN nr_req /\ nr_jobs'[i] # nr_cur'
    BY <2>2, <2>3, <2>5 DEF NreplInv
  <2>6. ASSUME NEW i \in 1..Len(nr_jobs'), NEW j \in 1..Len(nr_jobs'), nr_jobs'[i] = nr_jobs'[j] PROVE i = j
    <3>1. i + 1 = j + 1  BY <2>3, <2>6 DEF NreplInv
    <3> QED  BY <3>1
  <2>7. ~nr_reused => /\ \A i \in 1..Len(nr_jobs') : Listed(nr_req, nr_pending, nr_jobs'[i])
                      /\ Listed(nr_req, nr_pending, nr_cur')
    BY <2>2, <2>3 DEF NreplInv
  <2> QED  BY <2>1, <2>2, <2>4, <2>5, <2>6, <2>7 DEF NreplInv
<1>6. CASE Nrepl!DropJob \/ Nrepl!EndEval \/ Nrepl!OtherOp \/ \E n \in 0..MaxEvalForms : Nrepl!BeginEval(n)
  BY <1>6, <1>a DEF Nrepl!DropJob, Nrepl!EndEval, Nrepl!OtherOp, Nrepl!BeginEval, NreplInv
<1>7. CASE \E ok \in BOOLEAN : Nrepl!EndForm(ok)
  BY <1>7, <1>a DEF Nrepl!EndForm, NreplInv
<1>8. CASE Nrepl!BeginForm
  <2>1. nr_late' = nr_late  BY <1>8 DEF Nrepl!BeginForm, Nrepl!FlagSeen
  <2> QED  BY <1>8, <1>a, <2>1 DEF Nrepl!BeginForm, NreplInv
<1>9. CASE Nrepl!EndJob
  <2>1. /\ nr_stage = "answered" /\ nr_cur' = None /\ nr_stage' = "idle"
        /\ nr_pending' = IF nr_req[nr_cur].op # "eval" THEN nr_pending
                         ELSE [k \in DOMAIN nr_pending \ {nr_req[nr_cur].key} |-> nr_pending[k]]
        /\ UNCHANGED <<nr_req, nr_jobs, nr_late, nr_missed, nr_reused>>
    BY <1>9 DEF Nrepl!EndJob, Nrepl!RemoveKey
  <2>2. ASSUME ~nr_reused, NEW i \in 1..Len(nr_jobs) PROVE Listed(nr_req, nr_pending', nr_jobs[i])
    <3>1. Listed(nr_req, nr_pending, nr_jobs[i]) /\ Listed(nr_req, nr_pending, nr_cur) /\ nr_jobs[i] # nr_cur
      BY <2>1, <2>2 DEF NreplInv
    <3> QED  BY <2>1, <3>1 DEF Listed
  <2>3. \A i \in 1..Len(nr_jobs) : nr_jobs[i] # None  BY ServicesAssumption DEF NreplInv
  <2> QED  BY <2>1, <2>2, <2>3 DEF NreplInv
<1> QED
  BY <1>0, <1>1, <1>2, <1>3, <1>4, <1>5, <1>6, <1>7, <1>8, <1>9 DEF Nrepl!Next, Nrepl!EngineStep

-----------------------------------------------------------------------------
(* Pods *)

Finals == {"done", "value_done", "error_done"}
PodMessage == [id : Nat \cup {None}, kind : Finals \cup {"value", "error", "describe"}]
PodsTyped ==
    /\ po_proc \in [PodIds -> {"none", "running", "dead"}]
    /\ po_load \in [PodIds -> {"no", "describing", "loaded", "failed"}]
    /\ po_inbox \in [PodIds -> Seq(Nat)] /\ po_outbox \in [PodIds -> Seq(PodMessage)]
    /\ po_calls \in [PodIds -> Nat]
    /\ DOMAIN po_cur = PodIds /\ DOMAIN po_last = PodIds /\ DOMAIN po_result = PodIds
    /\ po_exited \in BOOLEAN

\* A pod that runs was loaded; while the host lives, those it has a handle of are
\* listed.
OrphanInv ==
    \A p \in PodIds :
        /\ po_proc[p] = "running" => po_load[p] # "no"
        /\ po_load[p] = "describing" => ~po_exited
        /\ po_load[p] = "loaded" /\ ~po_exited => p \in po_listed
        /\ po_exited /\ po_proc[p] = "running" => po_load[p] = "failed"

\* Between the calls of a running pod no message is on its way; during a call, its
\* request is, or its replies are, of which only the last one ends the call.
Ending(p, c) ==
    /\ Len(po_inbox[p]) = 0 /\ Len(po_outbox[p]) # 0 /\ po_last[p] \in {None, c}
    /\ \A i \in 1..Len(po_outbox[p]) :
           /\ po_outbox[p][i].id = c
           /\ i # Len(po_outbox[p]) => po_outbox[p][i].kind = "value"
    /\ po_outbox[p][Len(po_outbox[p])].kind \in Finals
Asking(p, c) == /\ Len(po_inbox[p]) = 1 /\ po_inbox[p][1] = c /\ Len(po_outbox[p]) = 0
                /\ po_last[p] = None
Describing(p) == \/ Len(po_inbox[p]) = 1 /\ po_inbox[p][1] = 0 /\ Len(po_outbox[p]) = 0
                 \/ Len(po_inbox[p]) = 0 /\ Len(po_outbox[p]) = 1
Quiet(p) == Len(po_inbox[p]) = 0 /\ Len(po_outbox[p]) = 0
PodOrderly(p) ==
    /\ po_result[p].from = po_result[p].id
    /\ p \in po_stubs => po_load[p] \in {"loaded", "failed"}
    /\ po_load[p] = "no" => Quiet(p)
    /\ po_load[p] = "describing" => Describing(p)
    /\ p \in po_stubs /\ po_cur[p] = None /\ po_proc[p] = "running" => Quiet(p)
    /\ po_cur[p] # None => /\ p \in po_stubs /\ po_cur[p] \in Nat \ {0}
                           /\ Asking(p, po_cur[p]) \/ Ending(p, po_cur[p])
AnswerInv == \A p \in PodIds \ po_loose : PodOrderly(p)

\* There are no pods at first.
LEMMA PodsInit == ASSUME Pod!Init PROVE PodsTyped /\ OrphanInv /\ AnswerInv
<1>1. \A p \in PodIds : Len(po_inbox[p]) = 0 /\ Len(po_outbox[p]) = 0  BY DEF Pod!Init
<1>2. PodsTyped
  <2>1. <<>> \in Seq(Nat) /\ <<>> \in Seq(PodMessage)  OBVIOUS
  <2> QED  BY <2>1 DEF Pod!Init, PodsTyped
<1>3. OrphanInv  BY DEF Pod!Init, OrphanInv
<1>4. AnswerInv  BY <1>1 DEF Pod!Init, AnswerInv, PodOrderly, Quiet
<1> QED  BY <1>2, <1>3, <1>4

\* A reply is a sequence of messages; unless it has an error of its own, only its last
\* message ends the call.
LEMMA ReplyMessages ==
    ASSUME NEW ks \in Pod!Replies, NEW id \in Nat
    PROVE  LET ms == [i \in DOMAIN ks |-> [id |-> id, kind |-> ks[i]]] IN
           /\ ms \in Seq(PodMessage) /\ Len(ms) = Len(ks) /\ Len(ks) \in {1, 2}
           /\ \A i \in 1..Len(ks) : ms[i].id = id /\ ms[i].kind = ks[i]
           /\ (~ \E i \in DOMAIN ks : ks[i] = "error") =>
                  /\ \A i \in 1..Len(ks) : i # Len(ks) => ks[i] = "value"
                  /\ ks[Len(ks)] \in Finals
<1> DEFINE ms == [i \in DOMAIN ks |-> [id |-> id, kind |-> ks[i]]]
<1>0. 1..1 = {1} /\ 1..2 = {1, 2}  OBVIOUS
<1>1. /\ Len(ks) \in {1, 2} /\ DOMAIN ks = 1..Len(ks)
      /\ \A i \in 1..Len(ks) : ks[i] \in Finals \cup {"value", "error", "describe"}
      /\ (~ \E i \in 1..Len(ks) : ks[i] = "error") =>
             /\ \A i \in 1..Len(ks) : i # Len(ks) => ks[i] = "value"
             /\ ks[Len(ks)] \in Finals
  <2>1. CASE ks = <<"value", "done">>
    <3>1. Len(ks) = 2 /\ DOMAIN ks = 1..2 /\ ks[1] = "value" /\ ks[2] = "done"  BY <2>1
    <3> QED  BY <1>0, <3>1 DEF Finals
  <2>2. CASE ks = <<"value_done">>
    <3>1. Len(ks) = 1 /\ DOMAIN ks = 1..1 /\ ks[1] = "value_done"  BY <2>2
    <3> QED  BY <1>0, <3>1 DEF Finals
  <2>3. CASE ks = <<"done">>
    <3>1. Len(ks) = 1 /\ DOMAIN ks = 1..1 /\ ks[1] = "done"  BY <2>3
    <3> QED  BY <1>0, <3>1 DEF Finals
  <2>4. CASE ks = <<"value", "error_done">>
    <3>1. Len(ks) = 2 /\ DOMAIN ks = 1..2 /\ ks[1] = "value" /\ ks[2] = "error_done"  BY <2>4
    <3> QED  BY <1>0, <3>1 DEF Finals
  <2>5. CASE ks = <<"error", "done">>
    <3>1. Len(ks) = 2 /\ DOMAIN ks = 1..2 /\ ks[1] = "error" /\ ks[2] = "done"  BY <2>5
    <3> QED  BY <1>0, <3>1 DEF Finals
  <2> QED  BY <2>1, <2>2, <2>3, <2>4, <2>5 DEF Pod!Replies
<1>2. ms \in [1..Len(ks) -> PodMessage]
  <2>1. \A i \in 1..Len(ks) : [id |-> id, kind |-> ks[i]] \in PodMessage  BY <1>1 DEF PodMessage
  <2> QED  BY <1>1, <2>1
<1>3. ms \in Seq(PodMessage) /\ Len(ms) = Len(ks)
  <2>1. Len(ks) \in Nat
    <3>1. Len(ks) = 1 \/ Len(ks) = 2  BY <1>1
    <3> QED  BY <3>1
  <2>2. ms \in Seq(PodMessage)  BY <1>2, <2>1, SeqDef
  <2>3. DOMAIN ms = 1..Len(ks)  BY <1>2
  <2> HIDE DEF ms
  <2>4. DOMAIN ms = 1..Len(ms) /\ Len(ms) \in Nat  BY <2>2
  <2> QED  BY <2>1, <2>2, <2>3, <2>4
<1> QED  BY <1>1, <1>3

\* Every step keeps the types.
LEMMA PodsTypedStep ==
    ASSUME PodsTyped, Pod!Next \/ UNCHANGED poVars
    PROVE  PodsTyped'
<1> USE DEF Pod!callVars, Pod!ownVars
<1>0. CASE UNCHANGED poVars  BY <1>0 DEF poVars, PodsTyped
<1>1. ASSUME NEW p \in PodIds, NEW ks \in Pod!Replies, Pod!PodReply(p, ks) PROVE PodsTyped'
  <2> DEFINE ms == [i \in DOMAIN ks |-> [id |-> Head(po_inbox[p]), kind |-> ks[i]]]
  <2>1. po_inbox[p] \in Seq(Nat) /\ po_inbox[p] # <<>>  BY <1>1 DEF PodsTyped, Pod!PodReply
  <2>2. Head(po_inbox[p]) \in Nat /\ Tail(po_inbox[p]) \in Seq(Nat)  BY <2>1, TailSeq
  <2>3. ms \in Seq(PodMessage)  BY <2>2, ReplyMessages
  <2>4. po_outbox' = [po_outbox EXCEPT ![p] = @ \o ms]  BY <1>1 DEF Pod!PodReply
  <2> HIDE DEF ms
  <2>5. po_outbox[p] \o ms \in Seq(PodMessage)  BY <2>3 DEF PodsTyped
  <2>6. po_outbox' \in [PodIds -> Seq(PodMessage)]  BY <2>4, <2>5 DEF PodsTyped
  <2>7. po_inbox' \in [PodIds -> Seq(Nat)]  BY <1>1, <2>2 DEF PodsTyped, Pod!PodReply
  <2> QED  BY <1>1, <2>6, <2>7 DEF PodsTyped, Pod!PodReply
<1>2. ASSUME NEW p \in PodIds, Pod!PodDescribes(p) PROVE PodsTyped'
  <2>1. po_inbox[p] \in Seq(Nat) /\ po_inbox[p] # <<>>  BY <1>2 DEF PodsTyped, Pod!PodDescribes
  <2>2. Tail(po_inbox[p]) \in Seq(Nat)  BY <2>1, TailSeq
  <2>3. [id |-> None, kind |-> "describe"] \in PodMessage  BY DEF PodMessage
  <2>4. Append(po_outbox[p], [id |-> None, kind |-> "describe"]) \in Seq(PodMessage)
    BY <2>3 DEF PodsTyped
  <2>5. po_outbox' \in [PodIds -> Seq(PodMessage)] /\ po_inbox' \in [PodIds -> Seq(Nat)]
    BY <1>2, <2>2, <2>4 DEF PodsTyped, Pod!PodDescribes
  <2> QED  BY <1>2, <2>5 DEF PodsTyped, Pod!PodDescribes
<1>3. ASSUME NEW p \in PodIds, Pod!PodDies(p) \/ Pod!DescribeFails(p) \/ Pod!Unload(p) \/ Pod!DropHandle(p)
      PROVE  PodsTyped'
  BY <1>3 DEF PodsTyped, Pod!PodDies, Pod!DescribeFails, Pod!Unload, Pod!DropHandle, Pod!Killed
<1>4. ASSUME NEW p \in PodIds, Pod!LoadPod(p) PROVE PodsTyped'
  <2>1. <<0>> \in Seq(Nat)  OBVIOUS
  <2> QED  BY <1>4, <2>1 DEF PodsTyped, Pod!LoadPod
<1>5. ASSUME NEW p \in PodIds, NEW o \in {"ok", "bad_format", "bad_code"}, Pod!Describe(p, o) PROVE PodsTyped'
  <2>1. po_outbox[p] \in Seq(PodMessage) /\ po_outbox[p] # <<>>  BY <1>5 DEF PodsTyped, Pod!Describe
  <2>2. Tail(po_outbox[p]) \in Seq(PodMessage)  BY <2>1, TailSeq
  <2>3. po_outbox' \in [PodIds -> Seq(PodMessage)]  BY <1>5, <2>2 DEF PodsTyped, Pod!Describe
  <2>4. po_proc' \in [PodIds -> {"none", "running", "dead"}]
    BY <1>5 DEF PodsTyped, Pod!Describe, Pod!Killed
  <2>5. po_load' \in [PodIds -> {"no", "describing", "loaded", "failed"}]  BY <1>5 DEF PodsTyped, Pod!Describe
  <2> QED  BY <1>5, <2>3, <2>4, <2>5 DEF PodsTyped, Pod!Describe
<1>6. ASSUME NEW p \in PodIds, Pod!Invoke(p) PROVE PodsTyped'
  <2>1. po_calls[p] + 1 \in Nat  BY DEF PodsTyped
  <2>2. Append(po_inbox[p], po_calls[p] + 1) \in Seq(Nat)  BY <2>1 DEF PodsTyped
  <2>3. po_inbox' \in [PodIds -> Seq(Nat)] /\ po_calls' \in [PodIds -> Nat]
    BY <1>6, <2>1, <2>2 DEF PodsTyped, Pod!Invoke
  <2>4. DOMAIN po_cur' = PodIds /\ DOMAIN po_last' = PodIds  BY <1>6 DEF PodsTyped, Pod!Invoke
  <2> QED  BY <1>6, <2>3, <2>4 DEF PodsTyped, Pod!Invoke
<1>7. ASSUME NEW p \in PodIds, Pod!Pump(p) PROVE PodsTyped'
  <2>1. po_outbox[p] \in Seq(PodMessage) /\ po_outbox[p] # <<>>  BY <1>7 DEF PodsTyped, Pod!Pump
  <2>2. Tail(po_outbox[p]) \in Seq(PodMessage)  BY <2>1, TailSeq
  <2>3. po_outbox' \in [PodIds -> Seq(PodMessage)]  BY <1>7, <2>2 DEF PodsTyped, Pod!Pump
  <2>4. DOMAIN po_cur' = PodIds /\ DOMAIN po_last' = PodIds /\ DOMAIN po_result' = PodIds
    BY <1>7 DEF PodsTyped, Pod!Pump, Pod!Fail
  <2> QED  BY <1>7, <2>3, <2>4 DEF PodsTyped, Pod!Pump
<1>8. ASSUME NEW p \in PodIds, Pod!Closed(p) PROVE PodsTyped'
  BY <1>8 DEF PodsTyped, Pod!Closed, Pod!Fail
<1>9. CASE Pod!Exit
  BY <1>9 DEF PodsTyped, Pod!Exit
<1> QED
  BY <1>0, <1>1, <1>2, <1>3, <1>4, <1>5, <1>6, <1>7, <1>8, <1>9 DEF Pod!Next

\* The host knows the pods it loaded, and ends them when it exits.
LEMMA OrphanStep ==
    ASSUME PodsTyped, OrphanInv, Pod!Next \/ UNCHANGED poVars
    PROVE  OrphanInv'
<1> USE DEF Pod!callVars, Pod!ownVars
\* The process of a pod goes on, or ends.
<1>a. ASSUME \A p \in PodIds : po_proc'[p] \in {po_proc[p], "dead"}, UNCHANGED <<po_load, po_listed, po_exited>>
      PROVE  OrphanInv'
  BY <1>a DEF OrphanInv
<1>0. CASE UNCHANGED poVars  BY <1>0, <1>a DEF poVars
<1>1. ASSUME NEW p \in PodIds, NEW ks \in Pod!Replies, Pod!PodReply(p, ks) PROVE OrphanInv'
  BY <1>1, <1>a DEF Pod!PodReply
<1>2. ASSUME NEW p \in PodIds, Pod!PodDescribes(p) \/ Pod!Invoke(p) \/ Pod!DropHandle(p) PROVE OrphanInv'
  BY <1>2, <1>a DEF Pod!PodDescribes, Pod!Invoke, Pod!DropHandle
<1>3. ASSUME NEW p \in PodIds, Pod!PodDies(p) \/ Pod!Unload(p) PROVE OrphanInv'
  BY <1>3, <1>a DEF Pod!PodDies, Pod!Unload, Pod!Killed, PodsTyped
<1>4. ASSUME NEW p \in PodIds, Pod!Pump(p) \/ Pod!Closed(p) PROVE OrphanInv'
  BY <1>4, <1>a DEF Pod!Pump, Pod!Closed
<1>5. ASSUME NEW p \in PodIds, Pod!LoadPod(p) PROVE OrphanInv'
  BY <1>5 DEF OrphanInv, Pod!LoadPod, PodsTyped
<1>6. ASSUME NEW p \in PodIds, Pod!DescribeFails(p) PROVE OrphanInv'
  BY <1>6 DEF OrphanInv, Pod!DescribeFails, Pod!Killed, PodsTyped
<1>7. ASSUME NEW p \in PodIds, NEW o \in {"ok", "bad_format", "bad_code"}, Pod!Describe(p, o) PROVE OrphanInv'
  <2>1. /\ ~po_exited /\ UNCHANGED po_exited /\ po_listed \subseteq po_listed'
        /\ o = "ok" => p \in po_listed'
    BY <1>7 DEF Pod!Describe, Pod!Registered
  <2>2. /\ \A q \in PodIds : po_load'[q] = IF q # p THEN po_load[q] ELSE IF o = "ok" THEN "loaded" ELSE "failed"
        /\ \A q \in PodIds : po_proc'[q] \in {po_proc[q], "dead"}
    BY <1>7 DEF Pod!Describe, Pod!Killed, PodsTyped
  <2> QED  BY <2>1, <2>2 DEF OrphanInv
<1>8. CASE Pod!Exit
  BY <1>8 DEF OrphanInv, Pod!Exit, PodsTyped
<1> QED
  BY <1>0, <1>1, <1>2, <1>3, <1>4, <1>5, <1>6, <1>7, <1>8 DEF Pod!Next

\* A step leaves another pod alone.
SamePod(q) ==
    /\ po_result'[q] = po_result[q] /\ (q \in po_stubs' <=> q \in po_stubs)
    /\ po_load'[q] = po_load[q] /\ po_cur'[q] = po_cur[q] /\ po_last'[q] = po_last[q]
    /\ po_inbox'[q] = po_inbox[q] /\ po_outbox'[q] = po_outbox[q]

\* Such a pod stays orderly.
LEMMA PodLeftAlone ==
    ASSUME NEW q, PodOrderly(q), SamePod(q), po_proc'[q] = "running" => po_proc[q] = "running"
    PROVE  PodOrderly(q)'
BY DEF PodOrderly, SamePod, Quiet, Describing, Asking, Ending

\* A call is answered by the replies to it.
LEMMA AnswerStep ==
    ASSUME PodsTyped, AnswerInv, Pod!Next \/ UNCHANGED poVars
    PROVE  AnswerInv'
<1> USE DEF Pod!callVars, Pod!ownVars
<1>a. ASSUME po_loose \subseteq po_loose', NEW p \in PodIds,
             \A q \in PodIds \ {p} : SamePod(q) /\ po_proc'[q] = po_proc[q],
             p \notin po_loose' => PodOrderly(p)'
      PROVE  AnswerInv'
  <2>1. ASSUME NEW q \in PodIds \ po_loose' PROVE PodOrderly(q)'
    <3>1. CASE q = p  BY <1>a, <2>1, <3>1
    <3>2. CASE q # p
      <4>1. PodOrderly(q)  BY <1>a, <2>1 DEF AnswerInv
      <4>2. SamePod(q) /\ po_proc'[q] = po_proc[q]  BY <1>a, <2>1, <3>2
      <4> QED  BY <4>1, <4>2, PodLeftAlone
    <3> QED  BY <3>1, <3>2
  <2> QED  BY <2>1 DEF AnswerInv
<1>b. ASSUME UNCHANGED po_loose,
             \A q \in PodIds : SamePod(q) /\ (po_proc'[q] = "running" => po_proc[q] = "running")
      PROVE  AnswerInv'
  BY <1>b, PodLeftAlone DEF AnswerInv
<1>l. ASSUME NEW p \in PodIds
      PROVE  /\ Len(po_inbox[p]) \in Nat /\ (po_inbox[p] = <<>> <=> Len(po_inbox[p]) = 0)
             /\ Len(po_outbox[p]) \in Nat /\ (po_outbox[p] = <<>> <=> Len(po_outbox[p]) = 0)
             /\ po_inbox[p] \in Seq(Nat) /\ po_outbox[p] \in Seq(PodMessage)
  <2>1. po_inbox[p] \in Seq(Nat) /\ po_outbox[p] \in Seq(PodMessage)  BY DEF PodsTyped
  <2> QED  BY <2>1
<1>0. CASE UNCHANGED poVars  BY <1>0, <1>b DEF poVars, SamePod
<1>1. ASSUME NEW p \in PodIds, NEW ks \in Pod!Replies, Pod!PodReply(p, ks) PROVE AnswerInv'
  <2> DEFINE ms == [i \in DOMAIN ks |-> [id |-> Head(po_inbox[p]), kind |-> ks[i]]]
             c == Head(po_inbox[p])
  <2>1. /\ po_inbox[p] # <<>> /\ c # 0 /\ po_proc[p] = "running" /\ po_loose \subseteq po_loose'
        /\ po_inbox' = [po_inbox EXCEPT ![p] = Tail(@)] /\ po_outbox' = [po_outbox EXCEPT ![p] = @ \o ms]
        /\ UNCHANGED <<po_proc, po_load, po_stubs, po_cur, po_last, po_result>>
        /\ p \notin po_loose' => p \notin po_loose /\ ~ \E i \in DOMAIN ks : ks[i] = "error"
    BY <1>1 DEF Pod!PodReply
  <2>2. c \in Nat /\ c = po_inbox[p][1] /\ Len(Tail(po_inbox[p])) = Len(po_inbox[p]) - 1
    BY <1>l, <2>1, TailSeq
  <2>3. /\ ms \in Seq(PodMessage) /\ Len(ms) = Len(ks) /\ Len(ks) \in {1, 2}
        /\ \A i \in 1..Len(ks) : ms[i].id = c /\ ms[i].kind = ks[i]
    BY <2>2, ReplyMessages
  <2> HIDE DEF ms, c
  <2>4. ASSUME p \notin po_loose' PROVE PodOrderly(p)'
    <3>1. PodOrderly(p)  BY <2>1, <2>4 DEF AnswerInv
    <3>2. Len(po_inbox[p]) # 0  BY <1>l, <2>1
    <3>3. \/ /\ po_cur[p] # None /\ Asking(p, po_cur[p]) /\ po_cur[p] = c
             /\ po_load[p] \in {"loaded", "failed"}
          \/ p \notin po_stubs /\ po_cur[p] = None /\ po_load[p] \notin {"no", "describing"}
      <4>1. po_load[p] # "no"  BY <3>1, <3>2 DEF PodOrderly, Quiet
      <4>2. po_load[p] # "describing"  BY <2>1, <2>2, <3>1, <3>2 DEF PodOrderly, Describing
      <4>3. p \in po_stubs => po_cur[p] # None  BY <2>1, <3>1, <3>2 DEF PodOrderly, Quiet
      <4>4. ASSUME po_cur[p] # None
            PROVE  Asking(p, po_cur[p]) /\ po_cur[p] = c /\ po_load[p] \in {"loaded", "failed"}
        BY <2>2, <3>1, <3>2, <4>4 DEF PodOrderly, Asking, Ending
      <4>5. po_cur[p] = None => p \notin po_stubs  BY <4>3
      <4> QED  BY <4>1, <4>2, <4>4, <4>5
    <3>4. CASE p \notin po_stubs /\ po_cur[p] = None /\ po_load[p] \notin {"no", "describing"}
      BY <2>1, <3>1, <3>4 DEF PodOrderly
    <3>5. CASE po_cur[p] # None /\ Asking(p, po_cur[p]) /\ po_cur[p] = c /\ po_load[p] \in {"loaded", "failed"}
      <4>1. Len(po_inbox'[p]) = 0
        <5>1. po_inbox'[p] = Tail(po_inbox[p])  BY <2>1 DEF PodsTyped
        <5> QED  BY <2>2, <3>5, <5>1 DEF Asking
      <4>2. po_outbox'[p] = ms
        <5>1. po_outbox'[p] = po_outbox[p] \o ms  BY <2>1 DEF PodsTyped
        <5>2. po_outbox[p] = <<>>  BY <1>l, <3>5 DEF Asking
        <5> QED  BY <2>3, <5>1, <5>2, ConcatEmptySeq
      <4>3. /\ \A i \in 1..Len(ks) : i # Len(ks) => ks[i] = "value"
            /\ ks[Len(ks)] \in Finals
        <5>1. ~ \E i \in DOMAIN ks : ks[i] = "error"  BY <2>1, <2>4
        <5> QED  BY <2>2, <5>1, ReplyMessages
      <4>4. Len(ks) \in Nat \ {0} /\ Len(ks) \in 1..Len(ks)
        <5>1. Len(ks) = 1 \/ Len(ks) = 2  BY <2>3
        <5> QED  BY <5>1
      <4>5. Ending(p, po_cur[p])'
        <5>1. po_last'[p] = None /\ po_cur'[p] = c  BY <2>1, <3>5 DEF Asking
        <5>2. Len(po_outbox'[p]) # 0 /\ Len(po_outbox'[p]) = Len(ks)  BY <2>3, <4>2, <4>4
        <5>3. \A i \in 1..Len(ks) : /\ po_outbox'[p][i].id = c
                                    /\ i # Len(ks) => po_outbox'[p][i].kind = "value"
          BY <2>3, <4>2, <4>3
        <5>4. po_outbox'[p][Len(ks)].kind \in Finals  BY <2>3, <4>2, <4>3, <4>4
        <5> QED  BY <4>1, <5>1, <5>2, <5>3, <5>4 DEF Ending
      <4> QED  BY <2>1, <3>1, <3>5, <4>5 DEF PodOrderly
    <3> QED  BY <3>3, <3>4, <3>5
  <2> QED  BY <1>a, <2>1, <2>4 DEF SamePod, PodsTyped
<1>2. ASSUME NEW p \in PodIds, Pod!PodDescribes(p) PROVE AnswerInv'
  <2>1. /\ po_inbox[p] # <<>> /\ Head(po_inbox[p]) = 0 /\ po_proc[p] = "running"
        /\ po_inbox' = [po_inbox EXCEPT ![p] = Tail(@)]
        /\ po_outbox' = [po_outbox EXCEPT ![p] = Append(@, [id |-> None, kind |-> "describe"])]
        /\ UNCHANGED <<po_proc, po_load, po_stubs, po_cur, po_last, po_result, po_loose>>
    BY <1>2 DEF Pod!PodDescribes
  <2>2. po_inbox[p][1] = 0 /\ Len(Tail(po_inbox[p])) = Len(po_inbox[p]) - 1 /\ Len(po_inbox[p]) # 0
    BY <1>l, <2>1, TailSeq
  <2>3. po_inbox'[p] = Tail(po_inbox[p]) /\ Len(po_outbox'[p]) = Len(po_outbox[p]) + 1
    <3>1. /\ po_inbox'[p] = Tail(po_inbox[p])
          /\ po_outbox'[p] = Append(po_outbox[p], [id |-> None, kind |-> "describe"])
      BY <2>1 DEF PodsTyped
    <3>2. [id |-> None, kind |-> "describe"] \in PodMessage  BY DEF PodMessage
    <3> QED  BY <1>l, <3>1, <3>2, PushSeq
  <2>4. ASSUME p \notin po_loose PROVE PodOrderly(p)'
    <3>1. PodOrderly(p)  BY <2>4 DEF AnswerInv
    <3>2. po_load[p] # "no"  BY <2>2, <3>1 DEF PodOrderly, Quiet
    <3>3. p \in po_stubs => po_cur[p] # None  BY <2>1, <2>2, <3>1 DEF PodOrderly, Quiet
    <3>4. po_cur[p] = None  BY <2>2, <3>1 DEF PodOrderly, Asking, Ending
    <3>5. po_load[p] = "describing" => Describing(p)'
      BY <2>2, <2>3, <3>1 DEF PodOrderly, Describing
    <3> QED  BY <2>1, <3>1, <3>2, <3>3, <3>4, <3>5 DEF PodOrderly
  <2> QED  BY <1>a, <2>1, <2>4 DEF SamePod, PodsTyped
<1>3. ASSUME NEW p \in PodIds, Pod!PodDies(p) \/ Pod!Unload(p) \/ Pod!DropHandle(p) PROVE AnswerInv'
  BY <1>3, <1>b DEF Pod!PodDies, Pod!Unload, Pod!DropHandle, Pod!Killed, SamePod, PodsTyped
<1>4. ASSUME NEW p \in PodIds, Pod!LoadPod(p) PROVE AnswerInv'
  <2>1. /\ po_load[p] = "no" /\ po_load' = [po_load EXCEPT ![p] = "describing"]
        /\ po_proc' = [po_proc EXCEPT ![p] = "running"] /\ po_inbox' = [po_inbox EXCEPT ![p] = <<0>>]
        /\ UNCHANGED <<po_outbox, po_stubs, po_cur, po_last, po_result, po_loose>>
    BY <1>4 DEF Pod!LoadPod
  <2>2. po_load'[p] = "describing" /\ Len(po_inbox'[p]) = 1 /\ po_inbox'[p][1] = 0  BY <2>1 DEF PodsTyped
  <2>3. ASSUME p \notin po_loose PROVE PodOrderly(p)'
    <3>1. PodOrderly(p)  BY <2>3 DEF AnswerInv
    <3>2. p \notin po_stubs /\ po_cur[p] = None /\ Len(po_outbox[p]) = 0
      BY <2>1, <3>1 DEF PodOrderly, Quiet
    <3> QED  BY <2>1, <2>2, <3>1, <3>2 DEF PodOrderly, Describing
  <2> QED  BY <1>a, <2>1, <2>3 DEF SamePod, PodsTyped
<1>5. ASSUME NEW p \in PodIds, Pod!DescribeFails(p) PROVE AnswerInv'
  <2>1. /\ po_load[p] = "describing" /\ po_load' = [po_load EXCEPT ![p] = "failed"]
        /\ po_proc' = [po_proc EXCEPT ![p] = "dead"]
        /\ UNCHANGED <<po_inbox, po_outbox, po_stubs, po_cur, po_last, po_result, po_loose>>
    BY <1>5 DEF Pod!DescribeFails, Pod!Killed
  <2>2. po_load'[p] = "failed"  BY <2>1 DEF PodsTyped
  <2>3. ASSUME p \notin po_loose PROVE PodOrderly(p)'
    <3>1. PodOrderly(p)  BY <2>3 DEF AnswerInv
    <3>2. p \notin po_stubs /\ po_cur[p] = None  BY <2>1, <3>1 DEF PodOrderly
    <3> QED  BY <2>1, <2>2, <3>1, <3>2 DEF PodOrderly
  <2> QED  BY <1>a, <2>1, <2>3 DEF SamePod, PodsTyped
<1>6. ASSUME NEW p \in PodIds, NEW o \in {"ok", "bad_format", "bad_code"}, Pod!Describe(p, o) PROVE AnswerInv'
  <2>1. /\ po_load[p] = "describing" /\ po_outbox[p] # <<>> /\ po_outbox' = [po_outbox EXCEPT ![p] = Tail(@)]
        /\ po_load' = [po_load EXCEPT ![p] = IF o = "ok" THEN "loaded" ELSE "failed"]
        /\ po_stubs' \in {po_stubs, po_stubs \cup {p}} /\ po_proc' \in {po_proc, Pod!Killed(p)}
        /\ UNCHANGED <<po_inbox, po_cur, po_last, po_result, po_loose>>
    BY <1>6 DEF Pod!Describe
  <2>2. po_load'[p] \in {"loaded", "failed"}  BY <2>1 DEF PodsTyped
  <2>3. ASSUME p \notin po_loose PROVE PodOrderly(p)'
    <3>1. PodOrderly(p)  BY <2>3 DEF AnswerInv
    <3>2. po_cur[p] = None  BY <2>1, <3>1 DEF PodOrderly
    <3>3. Len(po_inbox[p]) = 0 /\ Len(po_outbox[p]) = 1  BY <1>l, <2>1, <3>1 DEF PodOrderly, Describing
    <3>4. Len(Tail(po_outbox[p])) = 0  BY <1>l, <2>1, <3>3, TailSeq
    <3>5. Quiet(p)'
      <4>1. po_outbox'[p] = Tail(po_outbox[p])  BY <2>1 DEF PodsTyped
      <4> QED  BY <2>1, <3>3, <3>4, <4>1 DEF Quiet
    <3> QED  BY <2>1, <2>2, <3>1, <3>2, <3>5 DEF PodOrderly
  <2>4. \A q \in PodIds \ {p} : SamePod(q) /\ po_proc'[q] = po_proc[q]
    BY <2>1 DEF SamePod, PodsTyped, Pod!Killed
  <2> QED  BY <1>a, <2>1, <2>3, <2>4
<1>7. ASSUME NEW p \in PodIds, Pod!Invoke(p) PROVE AnswerInv'
  <2> DEFINE c == po_calls[p] + 1
  <2>1. p \in po_stubs /\ po_cur[p] = None /\ UNCHANGED <<po_proc, po_outbox, po_load, po_stubs, po_result, po_loose>>
    BY <1>7 DEF Pod!Invoke
  <2>2. c \in Nat \ {0}  BY DEF PodsTyped
  <2> HIDE DEF c
  <2>3. CASE po_proc[p] = "running"
    <3>1. /\ po_inbox' = [po_inbox EXCEPT ![p] = Append(@, c)] /\ po_cur' = [po_cur EXCEPT ![p] = c]
          /\ po_last' = [po_last EXCEPT ![p] = None]
      BY <1>7, <2>3 DEF Pod!Invoke, c
    <3>2. po_inbox'[p] = Append(po_inbox[p], c) /\ po_cur'[p] = c /\ po_last'[p] = None
      BY <3>1 DEF PodsTyped
    <3>3. ASSUME p \notin po_loose PROVE PodOrderly(p)'
      <4>1. PodOrderly(p)  BY <3>3 DEF AnswerInv
      <4>2. Len(po_inbox[p]) = 0 /\ Len(po_outbox[p]) = 0  BY <2>1, <2>3, <4>1 DEF PodOrderly, Quiet
      <4>3. Len(po_inbox'[p]) = 1 /\ po_inbox'[p][1] = c
        <5>1. /\ Len(po_inbox'[p]) = Len(po_inbox[p]) + 1 /\ po_inbox'[p][Len(po_inbox[p]) + 1] = c
          BY <1>l, <2>2, <3>2, PushSeq
        <5> QED  BY <4>2, <5>1
      <4>4. Asking(p, po_cur[p])'  BY <2>1, <3>2, <4>2, <4>3 DEF Asking
      <4>5. po_load[p] \in {"loaded", "failed"} /\ c # None
        BY <2>1, <2>2, <4>1, ServicesAssumption DEF PodOrderly
      <4> QED  BY <2>1, <2>2, <3>2, <4>1, <4>4, <4>5 DEF PodOrderly
    <3> QED  BY <1>a, <2>1, <3>1, <3>3 DEF SamePod, PodsTyped
  <2>4. CASE po_proc[p] # "running"
    BY <1>7, <1>b, <2>1, <2>4 DEF Pod!Invoke, SamePod
  <2> QED  BY <2>3, <2>4
<1>8. ASSUME NEW p \in PodIds, Pod!Pump(p) PROVE AnswerInv'
  <2> DEFINE m == Head(po_outbox[p])
             seen == IF m.kind \in {"value", "value_done"} THEN m.id ELSE po_last[p]
             c == po_cur[p]
  <2>1. /\ c # None /\ po_outbox[p] # <<>> /\ po_outbox' = [po_outbox EXCEPT ![p] = Tail(@)]
        /\ po_last' = [po_last EXCEPT ![p] = seen]
        /\ UNCHANGED <<po_proc, po_inbox, po_load, po_stubs, po_loose>>
    BY <1>8 DEF Pod!Pump
  <2>2. \/ /\ m.kind \in {"error", "error_done"} /\ po_cur' = [po_cur EXCEPT ![p] = None] /\ UNCHANGED po_result
        \/ /\ m.kind \in {"done", "value_done"} /\ po_cur' = [po_cur EXCEPT ![p] = None]
           /\ po_result' = [po_result EXCEPT ![p] = [id |-> c, from |-> IF seen = None THEN m.id ELSE seen]]
        \/ m.kind \notin {"error", "error_done", "done", "value_done"} /\ UNCHANGED <<po_cur, po_result>>
    BY <1>8 DEF Pod!Pump, Pod!Throws, Pod!Returns, Pod!Fail
  <2>3. /\ Len(po_outbox[p]) \in Nat \ {0} /\ m = po_outbox[p][1]
        /\ po_outbox'[p] = Tail(po_outbox[p]) /\ Len(po_outbox'[p]) = Len(po_outbox[p]) - 1
        /\ \A k \in 1..(Len(po_outbox[p]) - 1) : po_outbox'[p][k] = po_outbox[p][k + 1]
    <3>1. po_outbox'[p] = Tail(po_outbox[p])  BY <2>1 DEF PodsTyped
    <3>2. po_outbox[p] \in Seq(PodMessage) /\ po_outbox[p] # <<>>  BY <1>l, <2>1
    <3>3. /\ Len(po_outbox[p]) \in Nat \ {0} /\ Head(po_outbox[p]) = po_outbox[p][1]
          /\ Len(Tail(po_outbox[p])) = Len(po_outbox[p]) - 1
          /\ \A k \in 1..(Len(po_outbox[p]) - 1) : Tail(po_outbox[p])[k] = po_outbox[p][k + 1]
      BY ONLY <3>2, TailSeq
    <3> QED  BY <3>1, <3>3
  <2>4. ASSUME p \notin po_loose PROVE PodOrderly(p)'
    <3>1. PodOrderly(p)  BY <2>4 DEF AnswerInv
    <3>2. p \in po_stubs /\ c \in Nat \ {0} /\ Ending(p, c) /\ po_load[p] \in {"loaded", "failed"}
      BY <2>1, <2>3, <3>1 DEF PodOrderly, Asking
    <3>3. m.id = c /\ seen \in {None, c} /\ po_last'[p] \in {None, c}
      <4>1. 1 \in 1..Len(po_outbox[p])  BY <2>3
      <4>2. m.id = c  BY <2>3, <3>2, <4>1 DEF Ending
      <4> QED  BY <2>1, <3>2, <4>2 DEF Ending, PodsTyped
    <3>4. CASE Len(po_outbox[p]) = 1
      <4>1. m.kind \in Finals  BY <2>3, <3>2, <3>4 DEF Ending
      <4>2. Quiet(p)'  BY <2>1, <2>3, <3>2, <3>4 DEF Ending, Quiet
      <4>3. po_cur'[p] = None /\ po_result'[p].from = po_result'[p].id
        <5> HIDE DEF m, seen, c
        <5>1. po_cur'[p] = None /\ po_result'[p] \in {po_result[p], [id |-> c, from |-> IF seen = None THEN m.id ELSE seen]}
          BY <2>2, <4>1 DEF Finals, PodsTyped
        <5> QED  BY <3>1, <3>3, <5>1 DEF PodOrderly
      <4> QED  BY <2>1, <3>2, <4>2, <4>3 DEF PodOrderly
    <3>5. CASE Len(po_outbox[p]) # 1
      <4>1. 1 \in 1..Len(po_outbox[p]) /\ Len(po_outbox[p]) \in Nat \ {0, 1}  BY <2>3, <3>5
      <4>2. m.kind = "value"  BY <2>3, <3>2, <3>5, <4>1 DEF Ending
      <4>3. UNCHANGED <<po_cur, po_result>>  BY <2>2, <4>2
      <4>4. Ending(p, po_cur[p])'
        <5>1. Len(po_inbox'[p]) = 0 /\ Len(po_outbox'[p]) # 0  BY <2>1, <2>3, <3>2, <4>1 DEF Ending
        <5>2. ASSUME NEW i \in 1..Len(po_outbox'[p])
              PROVE  /\ po_outbox'[p][i].id = c
                     /\ i # Len(po_outbox'[p]) => po_outbox'[p][i].kind = "value"
          <6>1. /\ i \in 1..(Len(po_outbox[p]) - 1) /\ i + 1 \in 1..Len(po_outbox[p])
                /\ i # Len(po_outbox'[p]) => i + 1 # Len(po_outbox[p])
            BY <2>3, <5>2
          <6> QED  BY <2>3, <3>2, <6>1 DEF Ending
        <5>3. po_outbox'[p][Len(po_outbox'[p])].kind \in Finals
          <6>1. /\ Len(po_outbox'[p]) \in 1..(Len(po_outbox[p]) - 1)
                /\ Len(po_outbox'[p]) + 1 = Len(po_outbox[p])
            <7>1. Len(po_outbox'[p]) = Len(po_outbox[p]) - 1 /\ Len(po_outbox[p]) \in Nat \ {0, 1}
              BY <2>3, <4>1
            <7>2. \A a, b : b \in Nat \ {0, 1} /\ a = b - 1 => a \in 1..(b - 1) /\ a + 1 = b  OBVIOUS
            <7> HIDE DEF m, seen, c
            <7> QED  BY <7>1, <7>2, Zenon
          <6> QED  BY <2>3, <3>2, <6>1 DEF Ending
        <5> QED  BY <3>3, <4>3, <5>1, <5>2, <5>3 DEF Ending
      <4> QED  BY <2>1, <3>1, <3>2, <4>3, <4>4 DEF PodOrderly
    <3> QED  BY <3>4, <3>5
  <2>5. \A q \in PodIds \ {p} : SamePod(q) /\ po_proc'[q] = po_proc[q]
    <3> HIDE DEF m, seen, c
    <3> QED  BY <2>1, <2>2 DEF SamePod, PodsTyped
  <2> QED  BY <1>a, <2>1, <2>4, <2>5
<1>9. ASSUME NEW p \in PodIds, Pod!Closed(p) PROVE AnswerInv'
  <2>1. /\ po_proc[p] = "dead" /\ po_cur' = [po_cur EXCEPT ![p] = None] /\ po_cur[p] # None
        /\ UNCHANGED <<po_proc, po_inbox, po_outbox, po_load, po_stubs, po_last, po_result, po_loose>>
    BY <1>9 DEF Pod!Closed, Pod!Fail
  <2>2. ASSUME p \notin po_loose PROVE PodOrderly(p)'
    <3>1. PodOrderly(p)  BY <2>2 DEF AnswerInv
    <3>2. po_cur'[p] = None  BY <2>1 DEF PodsTyped
    <3>3. po_load[p] \in {"loaded", "failed"}  BY <2>1, <3>1 DEF PodOrderly
    <3> QED  BY <2>1, <3>1, <3>2, <3>3 DEF PodOrderly
  <2> QED  BY <1>a, <2>1, <2>2 DEF SamePod, PodsTyped
<1>10. CASE Pod!Exit
  <2>1. /\ \A q \in PodIds : po_proc'[q] = "running" => po_proc[q] = "running"
        /\ UNCHANGED <<po_inbox, po_outbox, po_load, po_stubs, po_cur, po_last, po_result, po_loose>>
    BY <1>10 DEF Pod!Exit
  <2> QED  BY <1>b, <2>1 DEF SamePod
<1> QED
  BY <1>0, <1>1, <1>2, <1>3, <1>4, <1>5, <1>6, <1>7, <1>8, <1>9, <1>10 DEF Pod!Next

-----------------------------------------------------------------------------
(* Transactions *)

\* The components count as the library does.
LEMMA SameCount == ASSUME NEW S PROVE Tx!Cardinality(S) = Cardinality(S) /\ Scope!Cardinality(S) = Cardinality(S)
BY DEF Tx!Cardinality, Scope!Cardinality, Cardinality

\* The occurrences of a kind of frame among others.
CountSet(s, k) == {i \in DOMAIN s : s[i] = k}

\* They are finitely many.
LEMMA CountIsFinite ==
    ASSUME NEW S, NEW s \in Seq(S), NEW k
    PROVE  IsFiniteSet(CountSet(s, k)) /\ Tx!Count(s, k) = Cardinality(CountSet(s, k)) /\ Tx!Count(s, k) \in Nat
<1>1. Len(s) \in Nat /\ DOMAIN s = 1..Len(s)  OBVIOUS
<1>2. IsFiniteSet(1..Len(s))  BY <1>1, FS_Interval
<1>3. CountSet(s, k) \in SUBSET (1..Len(s))  BY <1>1 DEF CountSet
<1>4. IsFiniteSet(CountSet(s, k))  BY <1>2, <1>3, FS_Subset
<1> QED  BY <1>4, FS_CardinalityType, SameCount DEF CountSet, Tx!Count

\* No frames at all.
LEMMA CountEmpty == ASSUME NEW k PROVE Tx!Count(<<>>, k) = 0
<1>1. {i \in DOMAIN <<>> : <<>>[i] = k} = {}  OBVIOUS
<1> QED  BY <1>1, FS_EmptySet, SameCount DEF Tx!Count

\* One more frame.
LEMMA CountPush ==
    ASSUME NEW S, NEW s \in Seq(S), NEW x \in S, NEW k
    PROVE  Tx!Count(Append(s, x), k) = Tx!Count(s, k) + (IF x = k THEN 1 ELSE 0)
<1> DEFINE n == Len(s) + 1
           t == Append(s, x)
<1>1. /\ t \in Seq(S) /\ Len(s) \in Nat /\ DOMAIN s = 1..Len(s) /\ DOMAIN t = 1..n
      /\ \A i \in 1..Len(s) : t[i] = s[i]
      /\ t[n] = x
  BY PushSeq
<1> HIDE DEF t
<1>2. n \notin CountSet(s, k) /\ 1..n = (1..Len(s)) \cup {n}  BY <1>1 DEF CountSet
<1>3. CountSet(t, k) = IF x = k THEN CountSet(s, k) \cup {n} ELSE CountSet(s, k)
  <2>1. ASSUME NEW i PROVE i \in CountSet(t, k) <=> i \in CountSet(s, k) \/ (i = n /\ x = k)
    <3>1. CASE i = n  BY <1>1, <1>2, <3>1 DEF CountSet
    <3>2. CASE i # n  BY <1>1, <1>2, <3>2 DEF CountSet
    <3> QED  BY <3>1, <3>2
  <2> HIDE DEF n
  <2> QED  BY <2>1
<1> HIDE DEF n
<1>4. /\ IsFiniteSet(CountSet(s, k)) /\ Tx!Count(s, k) = Cardinality(CountSet(s, k)) /\ Tx!Count(s, k) \in Nat
      /\ Tx!Count(t, k) = Cardinality(CountSet(t, k))
  BY <1>1, CountIsFinite
<1>5. Cardinality(CountSet(s, k) \cup {n}) = Cardinality(CountSet(s, k)) + 1
  BY <1>2, <1>4, FS_AddElement
<1>6. CASE x = k  BY <1>3, <1>4, <1>5, <1>6 DEF t
<1>7. CASE x # k  BY <1>3, <1>4, <1>7 DEF t
<1> QED  BY <1>6, <1>7

\* Frames that stay and frames that go.
LEMMA CountSplit ==
    ASSUME NEW S, NEW s \in Seq(S), NEW n \in 0..Len(s), NEW k
    PROVE  Tx!Count(s, k) = Tx!Count(SubSeq(s, 1, Len(s) - n), k)
                            + Tx!Count(SubSeq(s, Len(s) - n + 1, Len(s)), k)
<1> DEFINE m == Len(s) - n
           p == SubSeq(s, 1, m)
           g == SubSeq(s, m + 1, Len(s))
           G == {i \in CountSet(s, k) : i > m}
           f == [i \in CountSet(g, k) |-> i + m]
<1>1. m \in 0..Len(s) /\ m \in Nat /\ Len(s) \in Nat /\ DOMAIN s = 1..Len(s) /\ n \in Nat /\ Len(s) = m + n
  OBVIOUS
<1> HIDE DEF m
<1>2. p \in Seq(S) /\ DOMAIN p = 1..m /\ \A i \in 1..m : p[i] = s[i]  BY <1>1, PrefixSeq
<1>3. g \in Seq(S) /\ DOMAIN g = 1..n /\ \A i \in 1..n : g[i] = s[i + m]  BY <1>1, SuffixSeq
<1> HIDE DEF p, g
<1>4. CountSet(s, k) = CountSet(p, k) \cup G /\ CountSet(p, k) \cap G = {}  BY <1>1, <1>2 DEF CountSet
<1>5. f \in Bijection(CountSet(g, k), G)
  <2>1. ASSUME NEW i \in CountSet(g, k) PROVE i \in 1..n /\ f[i] = i + m /\ f[i] \in G
    BY <1>1, <1>3 DEF CountSet
  <2>2. ASSUME NEW j \in G PROVE j - m \in CountSet(g, k) /\ f[j - m] = j
    BY <1>1, <1>3 DEF CountSet
  <2>3. ASSUME NEW i \in CountSet(g, k), NEW j \in CountSet(g, k), f[i] = f[j] PROVE i = j
    BY <1>1, <2>1, <2>3
  <2>4. f \in [CountSet(g, k) -> G]  BY <2>1
  <2>5. \A j \in G : \E i \in CountSet(g, k) : f[i] = j  BY <2>2
  <2> HIDE DEF f, G
  <2> QED  BY <2>3, <2>4, <2>5 DEF Bijection, Injection, Surjection, IsInjective
<1> HIDE DEF f, G
<1>6. /\ IsFiniteSet(CountSet(g, k)) /\ Tx!Count(g, k) = Cardinality(CountSet(g, k)) /\ Tx!Count(g, k) \in Nat
      /\ IsFiniteSet(CountSet(p, k)) /\ Tx!Count(p, k) = Cardinality(CountSet(p, k)) /\ Tx!Count(p, k) \in Nat
      /\ Tx!Count(s, k) = Cardinality(CountSet(s, k))
  BY <1>2, <1>3, CountIsFinite
<1>7. ExistsBijection(CountSet(g, k), G)  BY <1>5 DEF ExistsBijection
<1>8. IsFiniteSet(G) /\ Cardinality(G) = Cardinality(CountSet(g, k))  BY <1>6, <1>7, FS_Bijection
<1>9. Cardinality(CountSet(s, k)) = Cardinality(CountSet(p, k)) + Cardinality(G)
  <2>1. Cardinality(CountSet(p, k) \cup G) =
            Cardinality(CountSet(p, k)) + Cardinality(G) - Cardinality(CountSet(p, k) \cap G)
    BY <1>6, <1>8, FS_Union
  <2>2. Cardinality(CountSet(p, k) \cap G) = 0  BY <1>4, FS_EmptySet
  <2> QED  BY <1>4, <1>6, <1>8, <2>1, <2>2
<1> QED  BY <1>6, <1>8, <1>9 DEF m, p, g

\* While a transaction runs its guards are up and its counters agree with its frames;
\* eval contexts beyond those of its native calls are left from a panic.
TxTyped ==
    /\ tx_frames \in Seq({"apply", "native", "bind"}) /\ tx_ctx \in Seq(Nat) /\ tx_tx \in Nat
    /\ tx_running \in BOOLEAN /\ tx_panicked \in BOOLEAN
TxInv ==
    /\ tx_bound = Tx!Count(tx_frames, "bind")
    /\ Len(tx_ctx) >= Tx!Count(tx_frames, "native")
    /\ ~tx_panicked => Len(tx_ctx) = Tx!Count(tx_frames, "native")
    /\ tx_running => /\ tx_policy = 1
                     /\ tx_depth = Tx!Count(tx_frames, "apply") /\ tx_depth <= TxDepth
    /\ ~tx_running => tx_frames = <<>> /\ tx_arena = 0 /\ tx_policy = 0 /\ tx_depth = -1

\* No transaction has begun.
LEMMA TxInit == ASSUME Tx!Init PROVE TxTyped /\ TxInv
<1>1. /\ tx_frames = <<>> /\ tx_ctx = <<>> /\ tx_tx = 0 /\ tx_running = FALSE /\ tx_panicked = FALSE
      /\ tx_bound = 0 /\ tx_arena = 0 /\ tx_policy = 0 /\ tx_depth = -1
  BY DEF Tx!Init
<1>2. Len(tx_ctx) = 0 /\ tx_frames \in Seq({"apply", "native", "bind"}) /\ tx_ctx \in Seq(Nat)  BY <1>1
<1>3. \A k : Tx!Count(tx_frames, k) = 0  BY <1>1, CountEmpty
<1>4. TxTyped  BY <1>1, <1>2 DEF TxTyped
<1>5. TxInv  BY <1>1, <1>2, <1>3 DEF TxInv
<1> QED  BY <1>4, <1>5

\* Every frame undoes what it did, and the guards are dropped at any end.
LEMMA TxStep ==
    ASSUME TxTyped, TxInv, Tx!Next \/ UNCHANGED txVars
    PROVE  TxTyped' /\ TxInv'
<1> DEFINE K == {"apply", "native", "bind"}
           C(s, k) == Tx!Count(s, k)
<1>t. /\ tx_frames \in Seq(K) /\ tx_ctx \in Seq(Nat) /\ tx_tx \in Nat
      /\ tx_running \in BOOLEAN /\ tx_panicked \in BOOLEAN /\ Len(tx_ctx) \in Nat /\ Len(tx_frames) \in Nat
  BY DEF TxTyped
<1>c. \A k : C(tx_frames, k) \in Nat  BY <1>t, CountIsFinite
<1>d. TxDepth \in Nat  BY ServicesAssumption DEF ServicesAssumption
<1> HIDE DEF C
<1>0. CASE UNCHANGED txVars  BY <1>0 DEF txVars, TxTyped, TxInv
<1>e. ASSUME tx_frames' = <<>>, tx_ctx' \in Seq(Nat), tx_tx' = tx_tx, tx_panicked' \in BOOLEAN, tx_running,
             tx_bound' = tx_bound - C(tx_frames, "bind"), Tx!DropGuards,
             ~tx_panicked' => Len(tx_ctx') = 0
      PROVE  TxTyped' /\ TxInv'
  <2>1. /\ tx_policy' = 0 /\ tx_depth' = -1 /\ tx_arena' = 0 /\ tx_running' = FALSE /\ tx_bound' = 0
    BY <1>c, <1>e DEF Tx!DropGuards, Tx!DroppedPolicy, Tx!Max0, TxInv, C
  <2>2. tx_frames' \in Seq(K) /\ Len(tx_ctx') \in Nat /\ \A k : C(tx_frames', k) = 0
    BY <1>e, CountEmpty DEF C
  <2>3. TxTyped'  BY <1>e, <1>t, <2>1, <2>2 DEF TxTyped
  <2>4. TxInv'
    <3>1. Tx!Count(tx_frames', "bind") = 0 /\ Tx!Count(tx_frames', "native") = 0  BY <2>2 DEF C
    <3>2. tx_bound' = Tx!Count(tx_frames', "bind") /\ Len(tx_ctx') >= Tx!Count(tx_frames', "native")
      BY <2>1, <2>2, <3>1
    <3>3. ~tx_panicked' => Len(tx_ctx') = Tx!Count(tx_frames', "native")  BY <1>e, <3>1
    <3> QED  BY <1>e, <2>1, <3>2, <3>3 DEF TxInv
  <2> QED  BY <2>3, <2>4
<1>1. CASE Tx!Begin
  <2>1. /\ ~tx_running /\ tx_tx' = tx_tx + 1 /\ tx_running' = TRUE /\ tx_policy' = tx_policy + 1 /\ tx_depth' = 0
        /\ UNCHANGED <<tx_frames, tx_ctx, tx_bound, tx_panicked>>
    BY <1>1 DEF Tx!Begin
  <2>2. C(tx_frames, "apply") = 0  BY <2>1, CountEmpty DEF TxInv, C
  <2> QED  BY <1>t, <1>d, <2>1, <2>2 DEF TxTyped, TxInv, C
<1>p. ASSUME NEW x \in K, tx_frames' = Append(tx_frames, x)
      PROVE  /\ tx_frames' \in Seq(K)
             /\ \A k : C(tx_frames', k) = C(tx_frames, k) + (IF x = k THEN 1 ELSE 0)
  BY <1>t, <1>p, PushSeq, CountPush DEF C
<1>2. CASE Tx!Apply
  <2>1. /\ tx_running /\ tx_frames' = Append(tx_frames, "apply")
        /\ tx_depth = -1 \/ tx_depth < TxDepth
        /\ tx_depth' = IF tx_depth = -1 THEN -1 ELSE tx_depth + 1
        /\ UNCHANGED <<tx_tx, tx_running, tx_policy, tx_ctx, tx_bound, tx_panicked>>
    BY <1>2 DEF Tx!Apply, Tx!CanApply
  <2>2. /\ tx_frames' \in Seq(K) /\ C(tx_frames', "apply") = C(tx_frames, "apply") + 1
        /\ C(tx_frames', "bind") = C(tx_frames, "bind") /\ C(tx_frames', "native") = C(tx_frames, "native")
    BY <1>c, <1>p, <2>1
  <2> QED  BY <1>t, <1>c, <1>d, <2>1, <2>2 DEF TxTyped, TxInv, C
<1>3. CASE Tx!Native
  <2>1. /\ tx_running /\ tx_frames' = Append(tx_frames, "native") /\ tx_ctx' = Append(tx_ctx, tx_tx)
        /\ UNCHANGED <<tx_tx, tx_running, tx_policy, tx_depth, tx_bound, tx_panicked>>
    BY <1>3 DEF Tx!Native
  <2>2. /\ tx_frames' \in Seq(K) /\ C(tx_frames', "native") = C(tx_frames, "native") + 1
        /\ C(tx_frames', "bind") = C(tx_frames, "bind") /\ C(tx_frames', "apply") = C(tx_frames, "apply")
    BY <1>c, <1>p, <2>1
  <2>3. tx_ctx' \in Seq(Nat) /\ Len(tx_ctx') = Len(tx_ctx) + 1  BY <1>t, <2>1
  <2> QED  BY <1>t, <1>c, <1>d, <2>1, <2>2, <2>3 DEF TxTyped, TxInv, C
<1>4. CASE Tx!Bind
  <2>1. /\ tx_running /\ tx_frames' = Append(tx_frames, "bind") /\ tx_bound' = tx_bound + 1
        /\ UNCHANGED <<tx_tx, tx_running, tx_policy, tx_depth, tx_ctx, tx_panicked>>
    BY <1>4 DEF Tx!Bind
  <2>2. /\ tx_frames' \in Seq(K) /\ C(tx_frames', "bind") = C(tx_frames, "bind") + 1
        /\ C(tx_frames', "native") = C(tx_frames, "native") /\ C(tx_frames', "apply") = C(tx_frames, "apply")
    BY <1>c, <1>p, <2>1
  <2> QED  BY <1>t, <1>c, <1>d, <2>1, <2>2 DEF TxTyped, TxInv, C
<1>l. ASSUME NEW n \in 1..Len(tx_frames), NEW ok, tx_running, Tx!Leave(n, ok),
             UNCHANGED <<tx_tx, tx_running, tx_policy, tx_panicked>>
      PROVE  TxTyped' /\ TxInv'
  <2> DEFINE gone == SubSeq(tx_frames, Len(tx_frames) - n + 1, Len(tx_frames))
             kept == SubSeq(tx_frames, 1, Len(tx_frames) - n)
  <2>1. n \in 0..Len(tx_frames) /\ Len(tx_frames) - n \in 0..Len(tx_frames)  BY <1>t
  <2>2. kept \in Seq(K) /\ gone \in Seq(K)  BY <1>t, <2>1, PrefixSeq, SuffixSeq
  <2>3. /\ tx_frames' = kept
        /\ tx_depth' = IF tx_depth = -1 THEN -1 ELSE Tx!Max0(tx_depth - C(gone, "apply"))
        /\ tx_ctx' = SubSeq(tx_ctx, 1, Len(tx_ctx) - C(gone, "native"))
        /\ tx_bound' = tx_bound - C(gone, "bind")
    BY <1>l DEF Tx!Leave, Tx!CountedDown, C
  <2>4. \A k : C(tx_frames, k) = C(kept, k) + C(gone, k)  BY <1>t, <2>1, CountSplit DEF C
  <2> HIDE DEF gone, kept
  <2>5. \A k : C(kept, k) \in Nat /\ C(gone, k) \in Nat  BY <2>2, CountIsFinite DEF C
  <2>6. Len(tx_ctx) - C(gone, "native") \in 0..Len(tx_ctx)  BY <1>t, <2>4, <2>5 DEF TxInv, C
  <2>7. tx_ctx' \in Seq(Nat) /\ Len(tx_ctx') = Len(tx_ctx) - C(gone, "native")  BY <1>t, <2>3, <2>6, PrefixSeq
  <2>8. tx_depth' = C(kept, "apply") /\ tx_depth' <= TxDepth
    BY <1>d, <1>l, <2>3, <2>4, <2>5 DEF TxInv, Tx!Max0, C
  <2>9. /\ tx_bound' = C(tx_frames', "bind") /\ Len(tx_ctx') >= C(tx_frames', "native")
        /\ ~tx_panicked' => Len(tx_ctx') = C(tx_frames', "native")
    <3>1. ~tx_panicked' => Len(tx_ctx) = C(tx_frames, "native")  BY <1>l DEF TxInv, C
    <3>2. tx_bound = C(tx_frames, "bind") /\ Len(tx_ctx) >= C(tx_frames, "native")  BY DEF TxInv, C
    <3>3. tx_bound' = C(tx_frames', "bind")  BY <2>3, <2>4, <2>5, <3>2
    <3>4. Len(tx_ctx') >= C(tx_frames', "native")  BY <1>t, <2>3, <2>4, <2>5, <2>7, <3>2
    <3>5. Len(tx_ctx) = C(tx_frames, "native") => Len(tx_ctx') = C(tx_frames', "native")
      BY <1>t, <2>3, <2>4, <2>5, <2>7
    <3> QED  BY <3>1, <3>3, <3>4, <3>5
  <2> QED  BY <1>t, <1>l, <2>2, <2>3, <2>7, <2>8, <2>9 DEF TxTyped, TxInv, C
<1>5. CASE Tx!Return
  <2>1. 1 \in 1..Len(tx_frames)  BY <1>5, <1>t DEF Tx!Return
  <2> QED  BY <1>5, <1>l, <2>1 DEF Tx!Return
<1>6. ASSUME NEW n \in 1..MaxFrames, Tx!Caught(n) PROVE TxTyped' /\ TxInv'
  BY <1>6, <1>l DEF Tx!Caught
<1>7. CASE Tx!End
  <2>1. /\ tx_running /\ tx_frames = <<>> /\ Tx!DropGuards
        /\ UNCHANGED <<tx_tx, tx_frames, tx_ctx, tx_bound, tx_panicked>>
    BY <1>7 DEF Tx!End
  <2>2. \A k : C(tx_frames, k) = 0  BY <2>1, CountEmpty DEF C
  <2>3. tx_bound' = tx_bound - C(tx_frames, "bind")  BY <2>1, <2>2 DEF TxInv, C
  <2> QED  BY <1>e, <1>t, <2>1, <2>2, <2>3 DEF TxInv, C
<1>8. CASE Tx!Fail
  <2>1. /\ tx_running /\ tx_frames' = <<>> /\ Tx!DropGuards /\ UNCHANGED <<tx_tx, tx_panicked>>
        /\ tx_ctx' = SubSeq(tx_ctx, 1, Len(tx_ctx) - C(tx_frames, "native"))
        /\ tx_bound' = tx_bound - C(tx_frames, "bind")
    BY <1>8 DEF Tx!Fail, C
  <2>2. Len(tx_ctx) - C(tx_frames, "native") \in 0..Len(tx_ctx)  BY <1>t, <1>c DEF TxInv, C
  <2>3. tx_ctx' \in Seq(Nat) /\ Len(tx_ctx') = Len(tx_ctx) - C(tx_frames, "native")
    BY <1>t, <2>1, <2>2, PrefixSeq
  <2>4. ~tx_panicked' => Len(tx_ctx') = 0  BY <1>t, <1>c, <2>1, <2>3 DEF TxInv, C
  <2> QED  BY <1>e, <1>t, <2>1, <2>3, <2>4
<1>9. CASE Tx!Panic
  <2>1. /\ tx_running /\ tx_frames' = <<>> /\ Tx!DropGuards /\ UNCHANGED <<tx_tx, tx_ctx>>
        /\ tx_bound' = tx_bound - C(tx_frames, "bind")
        /\ tx_panicked' = (tx_panicked \/ C(tx_frames, "native") > 0)
    BY <1>9 DEF Tx!Panic, C
  <2>2. ~tx_panicked' => Len(tx_ctx') = 0
    <3>1. ~tx_panicked' => ~tx_panicked /\ ~(C(tx_frames, "native") > 0)  BY <2>1
    <3>2. ~tx_panicked => Len(tx_ctx) = C(tx_frames, "native")  BY DEF TxInv, C
    <3>3. ~(C(tx_frames, "native") > 0) => C(tx_frames, "native") = 0  BY <1>c
    <3> QED  BY <2>1, <3>1, <3>2, <3>3
  <2>3. tx_panicked' \in BOOLEAN  BY <1>t, <2>1
  <2> QED  BY <1>e, <1>t, <2>1, <2>2, <2>3
<1> QED  BY <1>0, <1>1, <1>2, <1>3, <1>4, <1>5, <1>6, <1>7, <1>8, <1>9 DEF Tx!Next

\* What the counters say of a transaction.
LEMMA TxHolds == ASSUME TxTyped, TxInv PROVE Tx!DepthIsExact /\ Tx!NoTrace
<1>1. ~tx_running => tx_bound = 0 /\ Tx!Count(tx_frames, "native") = 0  BY CountEmpty DEF TxInv
<1>2. Len(tx_ctx) = 0 => tx_ctx = <<>>  BY DEF TxTyped
<1> QED  BY <1>1, <1>2 DEF TxInv, Tx!DepthIsExact, Tx!NoTrace

-----------------------------------------------------------------------------
(* Meters and bindings *)

\* A form, or one that waits, is outermost; a poll is right above a waiting form, and
\* the meters are those of the form and of the polled task.
ScopeFrame == [kind : {"form", "waiting", "poll", "steal", "bind"}, task : Tasks \cup {None}]
ScopeTyped ==
    /\ sc_stack \in Seq(ScopeFrame) /\ sc_bindings \in Seq(Tasks \cup {None})
    /\ sc_form \in Nat /\ sc_captured \in [Tasks -> Seq(Nat)]
    /\ sc_active \in Seq(Nat)
    /\ sc_state \in [Tasks -> {"none", "queued", "claimed", "done"}]
HasPoll == Len(sc_stack) >= 2 /\ sc_stack[2].kind = "poll"
Stacked ==
    /\ Len(sc_stack) # 0 => sc_stack[1].kind \in {"form", "waiting"}
    /\ \A i \in 2..Len(sc_stack) :
           /\ sc_stack[i].kind \in {"poll", "steal", "bind"}
           /\ sc_stack[i].kind = "poll" => i = 2 /\ sc_stack[i].task \in Tasks
           /\ sc_stack[i].kind = "steal" => sc_stack[i].task \in Tasks
Metered ==
    /\ Len(sc_stack) = 0 => sc_active = <<>>
    /\ Len(sc_stack) # 0 /\ ~HasPoll => sc_active = <<sc_form>>
    /\ HasPoll => /\ sc_active = <<sc_form>> \o sc_captured[sc_stack[2].task]
                  /\ sc_state[sc_stack[2].task] # "none"
Binds(s) == {i \in DOMAIN s : s[i].kind = "bind"}
ScopeInv == Stacked /\ Metered /\ Len(sc_bindings) = Cardinality(Binds(sc_stack))

\* The binding frames of a stack are finitely many.
LEMMA BindsAreFinite ==
    ASSUME NEW s \in Seq(ScopeFrame)
    PROVE  IsFiniteSet(Binds(s)) /\ Cardinality(Binds(s)) \in Nat
<1>1. Len(s) \in Nat /\ DOMAIN s = 1..Len(s)  OBVIOUS
<1>2. IsFiniteSet(1..Len(s))  BY <1>1, FS_Interval
<1>3. Binds(s) \in SUBSET (1..Len(s))  BY <1>1 DEF Binds
<1> QED  BY <1>2, <1>3, FS_Subset, FS_CardinalityType

\* A frame is pushed.
LEMMA BindsPush ==
    ASSUME NEW s \in Seq(ScopeFrame), NEW x \in ScopeFrame
    PROVE  Cardinality(Binds(Append(s, x))) = Cardinality(Binds(s)) + (IF x.kind = "bind" THEN 1 ELSE 0)
<1> DEFINE n == Len(s) + 1
           t == Append(s, x)
<1>1. /\ Len(s) \in Nat /\ DOMAIN s = 1..Len(s) /\ DOMAIN t = 1..n
      /\ \A i \in 1..Len(s) : t[i] = s[i]
      /\ t[n] = x
  BY PushSeq
<1> HIDE DEF t
<1>2. n \notin Binds(s) /\ 1..n = (1..Len(s)) \cup {n}  BY <1>1 DEF Binds
<1>3. Binds(t) = IF x.kind = "bind" THEN Binds(s) \cup {n} ELSE Binds(s)
  <2>1. ASSUME NEW i PROVE i \in Binds(t) <=> i \in Binds(s) \/ (i = n /\ x.kind = "bind")
    <3>1. CASE i = n  BY <1>1, <1>2, <3>1 DEF Binds
    <3>2. CASE i # n  BY <1>1, <1>2, <3>2 DEF Binds
    <3> QED  BY <3>1, <3>2
  <2> HIDE DEF n
  <2> QED  BY <2>1
<1> HIDE DEF n
<1>4. IsFiniteSet(Binds(s)) /\ Cardinality(Binds(s)) \in Nat  BY BindsAreFinite
<1>5. Cardinality(Binds(s) \cup {n}) = Cardinality(Binds(s)) + 1  BY <1>2, <1>4, FS_AddElement
<1>6. CASE x.kind = "bind"  BY <1>3, <1>4, <1>5, <1>6 DEF t
<1>7. CASE x.kind # "bind"  BY <1>3, <1>4, <1>7 DEF t
<1> QED  BY <1>6, <1>7

\* The innermost frame is popped.
LEMMA BindsPop ==
    ASSUME NEW s \in Seq(ScopeFrame), s # <<>>
    PROVE  Cardinality(Binds(SubSeq(s, 1, Len(s) - 1)))
               = Cardinality(Binds(s)) - (IF s[Len(s)].kind = "bind" THEN 1 ELSE 0)
<1> DEFINE t == SubSeq(s, 1, Len(s) - 1)
<1>1. /\ Len(s) \in Nat \ {0} /\ DOMAIN s = 1..Len(s) /\ DOMAIN t = 1..(Len(s) - 1)
      /\ \A i \in 1..(Len(s) - 1) : t[i] = s[i]
  BY PopSeq
<1> HIDE DEF t
<1>2. 1..Len(s) = (1..(Len(s) - 1)) \cup {Len(s)} /\ Len(s) \notin 1..(Len(s) - 1)  BY <1>1
<1>3. Binds(t) = Binds(s) \ {Len(s)} /\ (Len(s) \in Binds(s) <=> s[Len(s)].kind = "bind")
  BY <1>1, <1>2 DEF Binds
<1>4. IsFiniteSet(Binds(s)) /\ Cardinality(Binds(s)) \in Nat  BY BindsAreFinite
<1>5. Cardinality(Binds(s) \ {Len(s)})
          = IF Len(s) \in Binds(s) THEN Cardinality(Binds(s)) - 1 ELSE Cardinality(Binds(s))
  BY <1>4, FS_RemoveElement
<1>6. CASE s[Len(s)].kind = "bind"  BY <1>3, <1>5, <1>6 DEF t
<1>7. CASE s[Len(s)].kind # "bind"
  <2>1. Cardinality(Binds(t)) = Cardinality(Binds(s))  BY <1>3, <1>5, <1>7
  <2>2. \A c : c \in Nat => c - 0 = c  OBVIOUS
  <2> QED  BY <1>4, <1>7, <2>1, <2>2, Zenon DEF t
<1> QED  BY <1>6, <1>7

\* A single frame of another kind, or none.
LEMMA NoBinds ==
    ASSUME NEW s, s = <<>> \/ (\E f : s = <<f>> /\ f.kind # "bind")
    PROVE  Cardinality(Binds(s)) = 0
<1>1. Binds(s) = {}
  <2>1. CASE s = <<>>  BY <2>1 DEF Binds
  <2>2. ASSUME NEW f, s = <<f>>, f.kind # "bind" PROVE Binds(s) = {}
    <3>1. DOMAIN <<f>> = {1} /\ <<f>>[1] = f  OBVIOUS
    <3> QED  BY <2>2, <3>1 DEF Binds
  <2> QED  BY <2>1, <2>2
<1> QED  BY <1>1, FS_EmptySet

\* Nothing runs at first.
LEMMA ScopeInit == ASSUME Scope!Init PROVE ScopeTyped /\ ScopeInv
<1>1. /\ sc_stack = <<>> /\ sc_active = <<>> /\ sc_bindings = <<>> /\ sc_form = 0
      /\ sc_state = [t \in Tasks |-> "none"] /\ sc_captured = [t \in Tasks |-> <<>>]
  BY DEF Scope!Init
<1>2. Len(sc_stack) = 0 /\ Len(sc_bindings) = 0 /\ Cardinality(Binds(sc_stack)) = 0  BY <1>1, NoBinds
<1>3. /\ sc_stack \in Seq(ScopeFrame) /\ sc_bindings \in Seq(Tasks \cup {None}) /\ sc_active \in Seq(Nat)
      /\ <<>> \in Seq(Nat)
  BY <1>1
<1>4. ScopeTyped  BY <1>1, <1>3 DEF ScopeTyped
<1>5. Stacked /\ Metered  BY <1>1, <1>2 DEF Stacked, Metered, HasPoll
<1> QED  BY <1>2, <1>4, <1>5 DEF ScopeInv

\* Where the innermost frame is.
LEMMA ScopeTop ==
    ASSUME ScopeTyped, Stacked
    PROVE  /\ Len(sc_stack) \in Nat /\ (sc_stack = <<>> <=> Len(sc_stack) = 0)
           /\ Scope!Kind = IF Len(sc_stack) = 0 THEN "none" ELSE sc_stack[Len(sc_stack)].kind
           /\ Scope!Last(sc_stack) = sc_stack[Len(sc_stack)]
           /\ Len(sc_stack) # 0 => sc_stack[Len(sc_stack)] \in ScopeFrame
           /\ Scope!Kind \in {"form", "waiting"} => Len(sc_stack) = 1
           /\ Scope!Kind \in {"bind", "steal", "poll"} => Len(sc_stack) >= 2
           /\ Scope!Kind = "poll" => Len(sc_stack) = 2 /\ HasPoll
<1>1. Len(sc_stack) \in Nat /\ (sc_stack = <<>> <=> Len(sc_stack) = 0)  BY DEF ScopeTyped
<1>2. /\ Scope!Kind = IF Len(sc_stack) = 0 THEN "none" ELSE sc_stack[Len(sc_stack)].kind
      /\ Scope!Last(sc_stack) = sc_stack[Len(sc_stack)]
  BY <1>1 DEF Scope!Kind, Scope!Last
<1>3. Len(sc_stack) # 0 => sc_stack[Len(sc_stack)] \in ScopeFrame  BY <1>1 DEF ScopeTyped
<1>4. ASSUME Len(sc_stack) >= 2
      PROVE  /\ sc_stack[Len(sc_stack)].kind \in {"poll", "steal", "bind"}
             /\ sc_stack[Len(sc_stack)].kind = "poll" => Len(sc_stack) = 2
  <2>1. Len(sc_stack) \in 2..Len(sc_stack)  BY <1>1, <1>4
  <2> QED  BY <2>1 DEF Stacked
<1>5. Len(sc_stack) = 1 => sc_stack[Len(sc_stack)].kind \in {"form", "waiting"}  BY DEF Stacked
<1>6. Len(sc_stack) = 0 \/ Len(sc_stack) = 1 \/ Len(sc_stack) >= 2
  <2>1. \A n \in Nat : n = 0 \/ n = 1 \/ n >= 2  OBVIOUS
  <2> QED  BY <1>1, <2>1, Zenon
<1>7. CASE Len(sc_stack) = 0  BY <1>1, <1>2, <1>3, <1>7
<1>8. CASE Len(sc_stack) = 1  BY <1>1, <1>2, <1>3, <1>5, <1>8
<1>9. CASE Len(sc_stack) >= 2  BY <1>1, <1>2, <1>3, <1>4, <1>9 DEF HasPoll
<1> QED  BY <1>6, <1>7, <1>8, <1>9

\* A frame of code is pushed on code, or a poll on a waiting form.
LEMMA ScopePush ==
    ASSUME ScopeTyped, Stacked, NEW f \in ScopeFrame, f.kind \in {"poll", "steal", "bind"},
           sc_stack' = Append(sc_stack, f), Len(sc_stack) # 0,
           f.kind # "bind" => f.task \in Tasks, f.kind = "poll" => Len(sc_stack) = 1
    PROVE  /\ sc_stack' \in Seq(ScopeFrame) /\ Stacked' /\ Len(sc_stack') = Len(sc_stack) + 1
           /\ HasPoll' <=> HasPoll \/ f.kind = "poll"
           /\ HasPoll => sc_stack'[2] = sc_stack[2]
           /\ f.kind = "poll" => sc_stack'[2] = f
<1>1. /\ Len(sc_stack) \in Nat \ {0} /\ sc_stack' \in Seq(ScopeFrame) /\ Len(sc_stack') = Len(sc_stack) + 1
      /\ \A k \in 1..Len(sc_stack) : sc_stack'[k] = sc_stack[k]
      /\ sc_stack'[Len(sc_stack) + 1] = f
  BY PushSeq DEF ScopeTyped
<1>2. Stacked'
  <2>1. sc_stack'[1].kind \in {"form", "waiting"}  BY <1>1 DEF Stacked
  <2>2. ASSUME NEW i \in 2..Len(sc_stack')
        PROVE  /\ sc_stack'[i].kind \in {"poll", "steal", "bind"}
               /\ sc_stack'[i].kind = "poll" => i = 2 /\ sc_stack'[i].task \in Tasks
               /\ sc_stack'[i].kind = "steal" => sc_stack'[i].task \in Tasks
    <3>1. i \in 2..Len(sc_stack) \/ i = Len(sc_stack) + 1  BY <1>1
    <3>2. CASE i \in 2..Len(sc_stack)
      <4>1. sc_stack'[i] = sc_stack[i]  BY <1>1, <3>2
      <4> QED  BY <3>2, <4>1 DEF Stacked
    <3>3. CASE i = Len(sc_stack) + 1  BY <1>1, <3>3
    <3> QED  BY <3>1, <3>2, <3>3
  <2> QED  BY <2>1, <2>2 DEF Stacked
<1>3. CASE Len(sc_stack) = 1
  <2>1. Len(sc_stack') = 2 /\ sc_stack'[2] = f /\ ~(Len(sc_stack) >= 2)
    <3>1. Len(sc_stack) + 1 = 2  BY <1>3
    <3> QED  BY <1>1, <1>3, <3>1
  <2> QED  BY <1>1, <1>2, <2>1 DEF HasPoll
<1>4. CASE Len(sc_stack) # 1
  <2>1. sc_stack'[2] = sc_stack[2] /\ Len(sc_stack) >= 2 /\ Len(sc_stack') >= 2
    <3>1. \A n \in Nat \ {0} : n # 1 => n >= 2 /\ n + 1 >= 2 /\ 2 \in 1..n  OBVIOUS
    <3>2. 2 \in 1..Len(sc_stack) /\ Len(sc_stack) >= 2 /\ Len(sc_stack) + 1 >= 2  BY <1>1, <1>4, <3>1, Zenon
    <3> QED  BY <1>1, <3>2, Zenon
  <2> QED  BY <1>1, <1>2, <1>4, <2>1 DEF HasPoll
<1> QED  BY <1>1, <1>2, <1>3, <1>4

\* The innermost frame is popped.
LEMMA ScopePop ==
    ASSUME ScopeTyped, Stacked, Len(sc_stack) >= 2, sc_stack' = SubSeq(sc_stack, 1, Len(sc_stack) - 1)
    PROVE  /\ sc_stack' \in Seq(ScopeFrame) /\ Stacked' /\ Len(sc_stack') = Len(sc_stack) - 1
           /\ HasPoll' <=> HasPoll /\ Len(sc_stack) # 2
           /\ HasPoll' => sc_stack'[2] = sc_stack[2]
<1>1. /\ Len(sc_stack) \in Nat \ {0, 1} /\ sc_stack' \in Seq(ScopeFrame) /\ Len(sc_stack') = Len(sc_stack) - 1
      /\ \A k \in 1..(Len(sc_stack) - 1) : sc_stack'[k] = sc_stack[k]
  <2>1. sc_stack \in Seq(ScopeFrame) /\ sc_stack # <<>> /\ Len(sc_stack) \in Nat \ {0, 1}  BY DEF ScopeTyped
  <2> QED  BY <2>1, PopSeq
<1>2. Stacked'
  <2>1. sc_stack'[1].kind \in {"form", "waiting"}  BY <1>1 DEF Stacked
  <2>2. ASSUME NEW i \in 2..Len(sc_stack')
        PROVE  i \in 2..Len(sc_stack) /\ sc_stack'[i] = sc_stack[i]
    BY <1>1
  <2> QED  BY <2>1, <2>2 DEF Stacked
<1>3. CASE Len(sc_stack) = 2  BY <1>1, <1>2, <1>3 DEF HasPoll
<1>4. CASE Len(sc_stack) # 2
  <2>1. sc_stack'[2] = sc_stack[2] /\ Len(sc_stack) >= 2 /\ Len(sc_stack') >= 2  BY <1>1, <1>4
  <2> QED  BY <1>1, <1>2, <1>4, <2>1 DEF HasPoll
<1> QED  BY <1>3, <1>4

\* The meters of a poll go with it.
LEMMA Uninstall ==
    ASSUME ScopeTyped, Stacked, Metered, HasPoll
    PROVE  /\ sc_stack[2].task \in Tasks
           /\ Scope!Uninstalled(sc_stack[2].task) = <<sc_form>>
<1> DEFINE c == sc_captured[sc_stack[2].task]
<1>1. sc_stack[2].task \in Tasks  BY DEF HasPoll, Stacked, ScopeTyped
<1>2. c \in Seq(Nat) /\ sc_form \in Nat /\ sc_active = <<sc_form>> \o c
  BY <1>1 DEF ScopeTyped, Metered
<1> HIDE DEF c
<1>3. /\ <<sc_form>> \in Seq(Nat) /\ sc_active \in Seq(Nat) /\ Len(sc_active) = Len(c) + 1 /\ Len(c) \in Nat
      /\ sc_active[1] = sc_form
  BY <1>2
<1>4. Len(sc_active) - Len(c) = 1 /\ 1 \in 0..Len(sc_active)  BY <1>3
<1>5. SubSeq(sc_active, 1, 1) = <<sc_form>>
  <2>1. /\ SubSeq(sc_active, 1, 1) \in Seq(Nat) /\ Len(SubSeq(sc_active, 1, 1)) = 1
        /\ SubSeq(sc_active, 1, 1)[1] = sc_active[1]
    BY <1>3, <1>4, PrefixSeq
  <2> HIDE DEF c
  <2> QED  BY <1>3, <2>1, SingleSeq
<1>6. Scope!Uninstalled(sc_stack[2].task) = SubSeq(sc_active, 1, Len(sc_active) - Len(c))
  BY DEF Scope!Uninstalled, Scope!Drop, c
<1> QED  BY <1>1, <1>4, <1>5, <1>6

\* The only poll of the stack is the second frame.
LEMMA PolledIs ==
    ASSUME ScopeTyped, Stacked
    PROVE  Scope!Polled = IF HasPoll THEN {2} ELSE {}
<1>1. Len(sc_stack) \in Nat /\ DOMAIN sc_stack = 1..Len(sc_stack)  BY DEF ScopeTyped
<1>2. ASSUME NEW i \in 1..Len(sc_stack), sc_stack[i].kind = "poll" PROVE i = 2 /\ HasPoll
  <2>1. i # 1  BY <1>1, <1>2 DEF Stacked
  <2>2. i \in 2..Len(sc_stack) /\ Len(sc_stack) >= 2  BY <1>1, <2>1
  <2>3. i = 2  BY <1>2, <2>2 DEF Stacked
  <2> QED  BY <1>2, <2>2, <2>3 DEF HasPoll
<1>3. HasPoll => 2 \in 1..Len(sc_stack) /\ sc_stack[2].kind = "poll"  BY <1>1 DEF HasPoll
<1>4. \A i : i \in Scope!Polled <=> i \in 1..Len(sc_stack) /\ sc_stack[i].kind = "poll"
  BY <1>1 DEF Scope!Polled
<1>5. CASE HasPoll  BY <1>2, <1>3, <1>4, <1>5
<1>6. CASE ~HasPoll  BY <1>2, <1>4, <1>6
<1> QED  BY <1>5, <1>6

\* What the structure of the stack says of the meters and the bindings.
LEMMA ScopeHolds == ASSUME ScopeTyped, ScopeInv PROVE Scope!MetersAreOwn /\ Scope!BindingsAreScoped
<1>1. Stacked /\ Metered /\ Len(sc_bindings) = Cardinality(Binds(sc_stack))  BY DEF ScopeInv
<1>2. Scope!BindingsAreScoped  BY <1>1, SameCount DEF Scope!BindingsAreScoped, Binds
<1>3. ASSUME sc_stack # <<>>
      PROVE  sc_active = <<sc_form>> \o
                 (IF Scope!Polled = {} THEN <<>> ELSE sc_captured[sc_stack[CHOOSE i \in Scope!Polled : TRUE].task])
  <2>1. Len(sc_stack) # 0 /\ sc_form \in Nat  BY <1>3 DEF ScopeTyped
  <2>2. CASE HasPoll
    <3>1. Scope!Polled # {} /\ Scope!Polled = {2}  BY <1>1, <2>2, PolledIs
    <3>2. (CHOOSE i \in Scope!Polled : TRUE) = 2  BY <3>1
    <3> QED  BY <1>1, <2>2, <3>1, <3>2 DEF Metered
  <2>3. CASE ~HasPoll
    <3>1. Scope!Polled = {} /\ sc_active = <<sc_form>>  BY <1>1, <2>1, <2>3, PolledIs DEF Metered
    <3>2. <<sc_form>> \o <<>> = <<sc_form>>
      <4>1. <<sc_form>> \in Seq(Nat)  BY <2>1
      <4> QED  BY <4>1, ConcatEmptySeq
    <3> QED  BY <3>1, <3>2
  <2> QED  BY <2>2, <2>3
<1> QED  BY <1>2, <1>3 DEF Scope!MetersAreOwn

\* Every guard takes away what it put on its stack.
LEMMA ScopeStep ==
    ASSUME ScopeTyped, ScopeInv, Scope!Next \/ UNCHANGED scVars
    PROVE  ScopeTyped' /\ ScopeInv'
<1>i. /\ Stacked /\ Metered /\ Len(sc_bindings) = Cardinality(Binds(sc_stack))
      /\ Len(sc_stack) \in Nat /\ (sc_stack = <<>> <=> Len(sc_stack) = 0)
      /\ sc_stack \in Seq(ScopeFrame) /\ sc_active \in Seq(Nat) /\ sc_bindings \in Seq(Tasks \cup {None})
      /\ sc_form \in Nat /\ Len(sc_bindings) \in Nat
  <2>1. Stacked /\ Metered /\ Len(sc_bindings) = Cardinality(Binds(sc_stack))  BY DEF ScopeInv
  <2>2. /\ sc_stack \in Seq(ScopeFrame) /\ sc_active \in Seq(Nat) /\ sc_bindings \in Seq(Tasks \cup {None})
        /\ sc_form \in Nat
    BY DEF ScopeTyped
  <2>3. Len(sc_bindings) \in Nat  BY <2>2
  <2> QED  BY <2>1, <2>2, <2>3, ScopeTop
<1>k. Scope!Kind = IF Len(sc_stack) = 0 THEN "none" ELSE sc_stack[Len(sc_stack)].kind
  BY <1>i, ScopeTop
<1>0. CASE UNCHANGED scVars
  <2>1. /\ UNCHANGED <<sc_form, sc_stack, sc_active, sc_bindings, sc_state, sc_captured>>
    BY <1>0 DEF scVars
  <2> QED  BY <1>i, <2>1 DEF ScopeTyped, ScopeInv, Stacked, Metered, HasPoll
\* A single frame, outermost.
<1>s. ASSUME NEW k \in {"form", "waiting"}, sc_stack' = <<Scope!Frame(k, None)>>, Len(sc_bindings) = 0,
             UNCHANGED <<sc_bindings, sc_state, sc_captured>>, sc_form' \in Nat, sc_active' = <<sc_form'>>
      PROVE  ScopeTyped' /\ ScopeInv'
  <2> DEFINE f == [kind |-> k, task |-> None]
  <2>1. f \in ScopeFrame /\ f.kind = k /\ sc_stack' = <<f>>  BY <1>s DEF ScopeFrame, Scope!Frame
  <2> HIDE DEF f
  <2>2. sc_stack' \in Seq(ScopeFrame) /\ Len(sc_stack') = 1 /\ sc_stack'[1] = f  BY <2>1
  <2>3. Cardinality(Binds(sc_stack')) = 0  BY <2>1, NoBinds
  <2>4. sc_active' \in Seq(Nat)  BY <1>s
  <2>5. ScopeTyped'  BY <1>i, <1>s, <2>2, <2>4 DEF ScopeTyped
  <2>6. ~HasPoll'  BY <2>2 DEF HasPoll
  <2>7. Stacked'
    <3>1. 2..1 = {}  OBVIOUS
    <3> QED  BY <2>1, <2>2, <3>1 DEF Stacked
  <2>8. Metered'  BY <1>s, <2>2, <2>6 DEF Metered
  <2> QED  BY <1>s, <2>3, <2>5, <2>7, <2>8 DEF ScopeInv
\* A form, or one that waits, is alone on the stack.
<1>o. ASSUME Scope!Kind \in {"form", "waiting"}
      PROVE  Len(sc_stack) = 1 /\ Len(sc_bindings) = 0 /\ sc_active = <<sc_form>>
  <2>1. Len(sc_stack) = 1 /\ sc_stack[1].kind # "bind"  BY <1>i, <1>k, <1>o, ScopeTop
  <2>2. ~HasPoll  BY <2>1 DEF HasPoll
  <2>3. sc_stack = <<sc_stack[1]>>  BY <1>i, <2>1
  <2>4. Cardinality(Binds(sc_stack)) = 0  BY <2>1, <2>3, NoBinds
  <2> QED  BY <1>i, <2>1, <2>2, <2>4 DEF Metered
<1>1. CASE Scope!BeginForm
  <2>1. /\ sc_stack = <<>> /\ sc_form' = sc_form + 1 /\ sc_active' = Append(sc_active, sc_form + 1)
        /\ sc_stack' = <<Scope!Frame("form", None)>> /\ UNCHANGED <<sc_bindings, sc_state, sc_captured>>
    BY <1>1 DEF Scope!BeginForm
  <2>2. sc_active = <<>> /\ Len(sc_bindings) = 0  BY <1>i, <2>1, NoBinds DEF Metered
  <2>3. sc_form' \in Nat /\ sc_active' = <<sc_form'>>  BY <1>i, <2>1, <2>2
  <2> QED  BY <1>s, <2>1, <2>2, <2>3
<1>2. CASE Scope!EndForm
  <2>1. /\ Scope!Kind = "form" /\ sc_stack' = <<>> /\ sc_active' = SubSeq(sc_active, 1, Len(sc_active) - 1)
        /\ UNCHANGED <<sc_form, sc_bindings, sc_state, sc_captured>>
    BY <1>2 DEF Scope!EndForm, Scope!Drop
  <2>2. Len(sc_bindings) = 0 /\ sc_active = <<sc_form>>  BY <1>o, <2>1
  <2>3. sc_active' = <<>>
    <3>1. Len(sc_active) - 1 = 0 /\ 0 \in 0..Len(sc_active)  BY <1>i, <2>2
    <3>2. sc_active' \in Seq(Nat) /\ Len(sc_active') = 0  BY <1>i, <2>1, <3>1, PrefixSeq
    <3> QED  BY <3>2
  <2>4. Len(sc_stack') = 0 /\ sc_stack' \in Seq(ScopeFrame) /\ sc_active' \in Seq(Nat)
    <3>1. Len(<<>>) = 0 /\ <<>> \in Seq(ScopeFrame) /\ <<>> \in Seq(Nat)  OBVIOUS
    <3> QED  BY <2>1, <2>3, <3>1, Zenon
  <2>5. ScopeTyped'  BY <1>i, <2>1, <2>4 DEF ScopeTyped
  <2>6. Cardinality(Binds(sc_stack')) = 0  BY <2>1, NoBinds
  <2>7. Stacked' /\ Metered'  BY <2>3, <2>4 DEF Stacked, Metered, HasPoll
  <2> QED  BY <2>1, <2>2, <2>5, <2>6, <2>7 DEF ScopeInv
<1>3. CASE Scope!Await \/ Scope!Resume
  <2>1. /\ Scope!Kind \in {"form", "waiting"}
        /\ sc_stack' = <<Scope!Frame("form", None)>> \/ sc_stack' = <<Scope!Frame("waiting", None)>>
        /\ UNCHANGED <<sc_form, sc_active, sc_bindings, sc_state, sc_captured>>
    BY <1>3 DEF Scope!Await, Scope!Resume
  <2>2. Len(sc_bindings) = 0 /\ sc_active' = <<sc_form'>> /\ sc_form' \in Nat  BY <1>i, <1>o, <2>1
  <2> QED  BY <1>s, <2>1, <2>2
\* A frame of code on code: the meters stay.
<1>p. ASSUME NEW f \in ScopeFrame, f.kind \in {"steal", "bind"}, f.kind # "bind" => f.task \in Tasks,
             sc_stack' = Append(sc_stack, f), Scope!Code, UNCHANGED <<sc_form, sc_active, sc_captured>>,
             sc_bindings' \in Seq(Tasks \cup {None}),
             Len(sc_bindings') = Len(sc_bindings) + (IF f.kind = "bind" THEN 1 ELSE 0),
             sc_state' \in [Tasks -> {"none", "queued", "claimed", "done"}],
             \A t \in Tasks : sc_state[t] # "none" => sc_state'[t] # "none"
      PROVE  ScopeTyped' /\ ScopeInv'
  <2>1. Len(sc_stack) # 0  BY <1>k, <1>p DEF Scope!Code
  <2>2. /\ sc_stack' \in Seq(ScopeFrame) /\ Stacked' /\ Len(sc_stack') = Len(sc_stack) + 1
        /\ HasPoll' <=> HasPoll
        /\ HasPoll => sc_stack'[2] = sc_stack[2]
    <3>1. f.kind \in {"poll", "steal", "bind"} /\ f.kind # "poll"  BY <1>p
    <3> QED  BY <1>i, <1>p, <2>1, <3>1, ScopePush
  <2>3. HasPoll => sc_stack[2].task \in Tasks  BY <1>i, Uninstall
  <2>4. Metered'
    <3>1. Len(sc_stack') # 0  BY <1>i, <2>2
    <3> QED  BY <1>i, <1>p, <2>1, <2>2, <2>3, <3>1 DEF Metered
  <2>5. ScopeTyped'  BY <1>p, <2>2 DEF ScopeTyped
  <2>6. Len(sc_bindings') = Cardinality(Binds(sc_stack'))  BY <1>i, <1>p, BindsPush
  <2> QED  BY <2>2, <2>4, <2>5, <2>6 DEF ScopeInv
<1>4. CASE Scope!Bind
  <2> DEFINE f == [kind |-> "bind", task |-> sc_stack[Len(sc_stack)].task]
  <2>1. /\ Scope!Code /\ sc_stack' = Append(sc_stack, f)
        /\ sc_bindings' = Append(sc_bindings, sc_stack[Len(sc_stack)].task)
        /\ UNCHANGED <<sc_form, sc_active, sc_captured, sc_state>>
    BY <1>4 DEF Scope!Bind, Scope!Frame, Scope!Last
  <2>2. Len(sc_stack) # 0  BY <1>k, <2>1 DEF Scope!Code
  <2>3. f \in ScopeFrame /\ f.kind = "bind" /\ f.task \in Tasks \cup {None}
    <3>1. sc_stack[Len(sc_stack)] \in ScopeFrame  BY <1>i, <2>2
    <3> QED  BY <3>1 DEF ScopeFrame
  <2>4. sc_bindings' \in Seq(Tasks \cup {None}) /\ Len(sc_bindings') = Len(sc_bindings) + 1
    BY <1>i, <2>1, <2>3, PushSeq
  <2>5. sc_state' \in [Tasks -> {"none", "queued", "claimed", "done"}]  BY <2>1 DEF ScopeTyped
  <2> HIDE DEF f
  <2> QED  BY <1>p, <2>1, <2>3, <2>4, <2>5
<1>5. ASSUME NEW t \in Tasks, Scope!Steal(t) PROVE ScopeTyped' /\ ScopeInv'
  <2> DEFINE f == [kind |-> "steal", task |-> t]
  <2>1. /\ Scope!Code /\ sc_stack' = Append(sc_stack, f) /\ sc_state' = [sc_state EXCEPT ![t] = "claimed"]
        /\ UNCHANGED <<sc_form, sc_active, sc_captured, sc_bindings>>
    BY <1>5 DEF Scope!Steal, Scope!Frame
  <2>2. f \in ScopeFrame /\ f.kind = "steal" /\ f.task \in Tasks  BY DEF ScopeFrame
  <2>3. /\ sc_state' \in [Tasks -> {"none", "queued", "claimed", "done"}]
        /\ \A u \in Tasks : sc_state[u] # "none" => sc_state'[u] # "none"
    BY <2>1 DEF ScopeTyped
  <2>4. sc_bindings' \in Seq(Tasks \cup {None}) /\ Len(sc_bindings') = Len(sc_bindings) + 0  BY <1>i, <2>1
  <2> HIDE DEF f
  <2> QED  BY <1>p, <2>1, <2>2, <2>3, <2>4
\* A frame of code is popped: the meters stay.
<1>q. ASSUME Scope!Kind \in {"steal", "bind"}, sc_stack' = SubSeq(sc_stack, 1, Len(sc_stack) - 1),
             UNCHANGED <<sc_form, sc_active, sc_captured>>, sc_bindings' \in Seq(Tasks \cup {None}),
             Len(sc_bindings') = Len(sc_bindings) - (IF Scope!Kind = "bind" THEN 1 ELSE 0),
             sc_state' \in [Tasks -> {"none", "queued", "claimed", "done"}],
             \A t \in Tasks : sc_state[t] # "none" => sc_state'[t] # "none"
      PROVE  ScopeTyped' /\ ScopeInv'
  <2>1. Len(sc_stack) >= 2 /\ Scope!Kind = sc_stack[Len(sc_stack)].kind /\ sc_stack # <<>>
    <3>1. Len(sc_stack) >= 2  BY <1>i, <1>q, ScopeTop
    <3> QED  BY <1>i, <1>k, <3>1
  <2>2. HasPoll => Len(sc_stack) # 2
    <3>1. Len(sc_stack) = 2 => Scope!Kind = sc_stack[2].kind  BY <2>1
    <3> QED  BY <1>q, <3>1 DEF HasPoll
  <2>3. /\ sc_stack' \in Seq(ScopeFrame) /\ Stacked' /\ Len(sc_stack') = Len(sc_stack) - 1
        /\ HasPoll' <=> HasPoll
        /\ HasPoll => sc_stack'[2] = sc_stack[2]
    BY <1>i, <1>q, <2>1, <2>2, ScopePop
  <2>4. HasPoll => sc_stack[2].task \in Tasks  BY <1>i, Uninstall
  <2>5. Metered'
    <3>1. Len(sc_stack') # 0 /\ Len(sc_stack) # 0  BY <1>i, <2>1, <2>3
    <3> QED  BY <1>i, <1>q, <2>3, <2>4, <3>1 DEF Metered
  <2>6. ScopeTyped'  BY <1>q, <1>i, <2>3 DEF ScopeTyped
  <2>7. Len(sc_bindings') = Cardinality(Binds(sc_stack'))  BY <1>i, <1>q, <2>1, BindsPop
  <2> QED  BY <2>3, <2>5, <2>6, <2>7 DEF ScopeInv
<1>6. CASE Scope!Unbind
  <2>1. /\ Scope!Kind = "bind" /\ sc_stack' = SubSeq(sc_stack, 1, Len(sc_stack) - 1)
        /\ sc_bindings' = SubSeq(sc_bindings, 1, Len(sc_bindings) - 1)
        /\ UNCHANGED <<sc_form, sc_active, sc_captured, sc_state>>
    BY <1>6 DEF Scope!Unbind, Scope!Front
  <2>2. Len(sc_bindings) # 0
    <3>1. sc_stack # <<>> /\ sc_stack[Len(sc_stack)].kind = "bind"  BY <1>i, <1>k, <2>1
    <3>2. Len(sc_stack) \in Binds(sc_stack)  BY <1>i, <3>1 DEF Binds
    <3>3. Cardinality(Binds(sc_stack)) # 0  BY <1>i, <3>2, BindsAreFinite, FS_EmptySet
    <3> QED  BY <1>i, <3>3
  <2>3. sc_bindings' \in Seq(Tasks \cup {None}) /\ Len(sc_bindings') = Len(sc_bindings) - 1
    <3>1. sc_bindings # <<>>  BY <1>i, <2>2
    <3> QED  BY <1>i, <2>1, <3>1, PopSeq
  <2>4. sc_state' \in [Tasks -> {"none", "queued", "claimed", "done"}]  BY <2>1 DEF ScopeTyped
  <2> QED  BY <1>q, <2>1, <2>3, <2>4
<1>7. CASE Scope!Stolen
  <2> DEFINE t == sc_stack[Len(sc_stack)].task
  <2>1. /\ Scope!Kind = "steal" /\ sc_stack' = SubSeq(sc_stack, 1, Len(sc_stack) - 1)
        /\ sc_state' = [sc_state EXCEPT ![t] = "done"]
        /\ UNCHANGED <<sc_form, sc_active, sc_captured, sc_bindings>>
    BY <1>7 DEF Scope!Stolen, Scope!Front, Scope!Last
  <2>2. /\ sc_state' \in [Tasks -> {"none", "queued", "claimed", "done"}]
        /\ \A u \in Tasks : sc_state[u] # "none" => sc_state'[u] # "none"
    BY <2>1 DEF ScopeTyped
  <2>3. sc_bindings' \in Seq(Tasks \cup {None}) /\ Len(sc_bindings') = Len(sc_bindings) - 0  BY <1>i, <2>1
  <2> QED  BY <1>q, <2>1, <2>2, <2>3
<1>8. ASSUME NEW t \in Tasks, Scope!Spawn(t) PROVE ScopeTyped' /\ ScopeInv'
  <2>1. /\ sc_state[t] = "none" /\ sc_state' = [sc_state EXCEPT ![t] = "queued"]
        /\ sc_captured' = [sc_captured EXCEPT ![t] = sc_active]
        /\ UNCHANGED <<sc_form, sc_stack, sc_active, sc_bindings>>
    BY <1>8 DEF Scope!Spawn
  <2>2. ScopeTyped'  BY <1>i, <2>1 DEF ScopeTyped
  <2>3. HasPoll => sc_stack[2].task \in Tasks  BY <1>i, Uninstall
  <2>4. HasPoll => /\ sc_captured'[sc_stack[2].task] = sc_captured[sc_stack[2].task]
                   /\ sc_state'[sc_stack[2].task] # "none"
    BY <1>i, <2>1, <2>3 DEF Metered, ScopeTyped
  <2>5. Stacked' /\ (HasPoll' <=> HasPoll) /\ Binds(sc_stack') = Binds(sc_stack)
    BY <1>i, <2>1 DEF Stacked, HasPoll
  <2>6. Metered'  BY <1>i, <2>1, <2>4, <2>5 DEF Metered
  <2> QED  BY <1>i, <2>1, <2>2, <2>5, <2>6 DEF ScopeInv
<1>9. ASSUME NEW t \in Tasks, Scope!Poll(t) PROVE ScopeTyped' /\ ScopeInv'
  <2> DEFINE f == [kind |-> "poll", task |-> t]
  <2>1. /\ Scope!Kind = "waiting" /\ sc_stack' = Append(sc_stack, f)
        /\ sc_state' = [sc_state EXCEPT ![t] = "claimed"] /\ sc_active' = sc_active \o sc_captured[t]
        /\ UNCHANGED <<sc_form, sc_captured, sc_bindings>>
    BY <1>9 DEF Scope!Poll, Scope!Frame
  <2>2. f \in ScopeFrame /\ f.kind = "poll" /\ f.task = t  BY DEF ScopeFrame
  <2> HIDE DEF f
  <2>3. Len(sc_stack) = 1 /\ sc_active = <<sc_form>>  BY <1>o, <2>1
  <2>4. sc_stack' \in Seq(ScopeFrame) /\ Stacked' /\ HasPoll' /\ sc_stack'[2] = f /\ Len(sc_stack') = 2
    <3>1. Len(sc_stack) # 0 /\ 1 + 1 = 2  BY <2>3
    <3> QED  BY <1>i, <2>1, <2>2, <2>3, <3>1, ScopePush
  <2>5. sc_active' \in Seq(Nat) /\ sc_state' \in [Tasks -> {"none", "queued", "claimed", "done"}]
    <3>1. sc_captured[t] \in Seq(Nat)  BY DEF ScopeTyped
    <3>2. sc_active \o sc_captured[t] \in Seq(Nat)  BY <1>i, <3>1
    <3> QED  BY <2>1, <3>2 DEF ScopeTyped
  <2>6. ScopeTyped'  BY <2>1, <2>4, <2>5 DEF ScopeTyped
  <2>7. sc_state'[t] = "claimed"  BY <2>1 DEF ScopeTyped
  <2>8. Metered'  BY <2>1, <2>2, <2>3, <2>4, <2>7 DEF Metered
  <2>9. Len(sc_bindings') = Cardinality(Binds(sc_stack'))
    <3>1. Cardinality(Binds(sc_stack')) = Cardinality(Binds(sc_stack)) + 0  BY <1>i, <2>1, <2>2, BindsPush
    <3> QED  BY <1>i, <2>1, <3>1
  <2> QED  BY <2>4, <2>6, <2>8, <2>9 DEF ScopeInv
<1>10. CASE Scope!Yield \/ Scope!Finish
  <2> DEFINE t == sc_stack[Len(sc_stack)].task
  <2>1. Scope!Kind = "poll" /\ sc_active' = Scope!Uninstalled(t) /\ UNCHANGED <<sc_form, sc_captured, sc_bindings>>
    BY <1>10 DEF Scope!Yield, Scope!Yields, Scope!Finish, Scope!Last
  <2>2. Len(sc_stack) = 2 /\ HasPoll /\ t = sc_stack[2].task  BY <1>i, <2>1, ScopeTop
  <2>3. sc_stack' = SubSeq(sc_stack, 1, Len(sc_stack) - 1)
    <3>1. CASE Scope!Finish  BY <3>1 DEF Scope!Finish, Scope!Front
    <3>2. CASE Scope!Yield
      <4>1. Scope!Polled = {2}  BY <1>i, <2>2, PolledIs
      <4>2. (CHOOSE i \in Scope!Polled : TRUE) = 2  BY <4>1
      <4>3. sc_stack' = SubSeq(sc_stack, 1, (CHOOSE i \in Scope!Polled : TRUE) - 1)  BY <3>2 DEF Scope!Yield
      <4> QED  BY <2>2, <4>2, <4>3
    <3> QED  BY <1>10, <3>1, <3>2
  <2>4. sc_state' = sc_state \/ sc_state' = [sc_state EXCEPT ![t] = "done"]
    BY <1>10 DEF Scope!Yield, Scope!Finish, Scope!Last
  <2>5. sc_active' = <<sc_form>> /\ t \in Tasks  BY <1>i, <2>1, <2>2, Uninstall
  <2>6. sc_stack' \in Seq(ScopeFrame) /\ Stacked' /\ ~HasPoll' /\ Len(sc_stack') = 1
    <3>1. Len(sc_stack) >= 2 /\ 2 - 1 = 1  BY <2>2
    <3> QED  BY <1>i, <2>2, <2>3, <3>1, ScopePop
  <2>7. Len(sc_bindings') = Cardinality(Binds(sc_stack'))
    <3>1. sc_stack # <<>> /\ sc_stack[Len(sc_stack)].kind # "bind"  BY <1>i, <2>2 DEF HasPoll
    <3>2. Cardinality(Binds(sc_stack')) = Cardinality(Binds(sc_stack)) - 0  BY <1>i, <2>3, <3>1, BindsPop
    <3> QED  BY <1>i, <2>1, <3>2
  <2> HIDE DEF t
  <2>8. ScopeTyped'
    <3>1. <<sc_form>> \in Seq(Nat)  BY <1>i
    <3>2. sc_state' \in [Tasks -> {"none", "queued", "claimed", "done"}]  BY <2>4 DEF ScopeTyped
    <3> QED  BY <2>1, <2>5, <2>6, <3>1, <3>2 DEF ScopeTyped
  <2>9. Metered'  BY <2>1, <2>5, <2>6 DEF Metered
  <2> QED  BY <2>6, <2>7, <2>8, <2>9 DEF ScopeInv
<1> QED  BY <1>0, <1>1, <1>2, <1>3, <1>4, <1>5, <1>6, <1>7, <1>8, <1>9, <1>10 DEF Scope!Next

-----------------------------------------------------------------------------
(* The services together *)

ServicesInv ==
    /\ SharedInv
    /\ RefTyped /\ ForcedInv /\ NestInv
    /\ CallsTyped /\ CallsInv /\ ic_next \in Nat
    /\ RecvInv
    /\ NreplInv
    /\ PodsTyped /\ OrphanInv /\ AnswerInv
    /\ ScopeTyped /\ ScopeInv
    /\ TxTyped /\ TxInv

\* It holds before any service is used.
LEMMA ServicesInit == Init => ServicesInv
<1> SUFFICES ASSUME Init PROVE ServicesInv  OBVIOUS
<1>1. Calls!Init \/ NoWorkers  BY DEF Init
<1>2. ic_next \in Nat  BY <1>1 DEF Calls!Init, NoWorkers
<1>3. Recv!Init /\ Shared!Init /\ Nrepl!Init /\ Pod!Init /\ Ref!Init /\ Scope!Init /\ Tx!Init  BY DEF Init
<1> QED
  BY <1>1, <1>2, <1>3, SharedInit, RefInit, CallsInit, RecvInit, NreplInit, PodsInit, ScopeInit, TxInit
  DEF ServicesInv

\* A step is one of one service, or none.
LEMMA OneService ==
    ASSUME [Next]_vars
    PROVE  /\ Calls!Next \/ UNCHANGED icVars
           /\ Recv!Next \/ UNCHANGED ixVars
           /\ Shared!Next \/ UNCHANGED saVars
           /\ Nrepl!Next \/ UNCHANGED nrVars
           /\ Pod!Next \/ UNCHANGED poVars
           /\ Ref!Next \/ UNCHANGED reVars
           /\ Scope!Next \/ UNCHANGED scVars
           /\ Tx!Next \/ UNCHANGED txVars
<1>1. CASE Next  BY <1>1, Zenon DEF Next
<1>2. CASE UNCHANGED vars  BY <1>2 DEF vars
<1> QED  BY <1>1, <1>2

\* Every service keeps its part.
LEMMA ServicesStep == ServicesInv /\ [Next]_vars => ServicesInv'
<1> SUFFICES ASSUME ServicesInv, [Next]_vars PROVE ServicesInv'  OBVIOUS
<1>1. SharedInv'  BY OneService, SharedStep DEF ServicesInv
<1>2. RefTyped' /\ ForcedInv' /\ NestInv'  BY OneService, RefTypedStep, ForcedStep, NestStep DEF ServicesInv
<1>3. CallsTyped' /\ CallsInv' /\ ic_next' \in Nat  BY OneService, CallsTypedStep, CallsStep DEF ServicesInv
<1>4. RecvInv'  BY OneService, RecvStep DEF ServicesInv
<1>5. NreplInv'  BY OneService, NreplStep DEF ServicesInv
<1>6. PodsTyped' /\ OrphanInv' /\ AnswerInv'
  BY OneService, PodsTypedStep, OrphanStep, AnswerStep DEF ServicesInv
<1>7. ScopeTyped' /\ ScopeInv'  BY OneService, ScopeStep DEF ServicesInv
<1>8. TxTyped' /\ TxInv'  BY OneService, TxStep DEF ServicesInv
<1> QED  BY <1>1, <1>2, <1>3, <1>4, <1>5, <1>6, <1>7, <1>8 DEF ServicesInv

\* The inductive invariant of all services.
THEOREM ServicesInvariant == Spec => []ServicesInv
BY ServicesInit, ServicesStep, PTL DEF Spec

\* isolate.rs, isolate_channel.rs, shared.rs: a call is applied to its own arguments and
\* lost only to a panic of its worker, a take that is alone on its channel is woken for
\* every value, and no update of a shared atom is lost, for any number of calls,
\* workers, values and isolates.
THEOREM IsolatesStayApart == Spec => []IsolatesKeepApart
<1>1. ServicesInv => IsolatesKeepApart
  <2> SUFFICES ASSUME ServicesInv PROVE IsolatesKeepApart  OBVIOUS
  <2>1. Calls!OwnArguments /\ Calls!LostOnlyToPanic
    BY DEF ServicesInv, CallsInv, Calls!OwnArguments, Calls!LostOnlyToPanic
  <2>2. Recv!TakeIsServed  BY RecvServes DEF ServicesInv
  <2>3. Shared!CommitsAddUp  BY DEF ServicesInv, SharedInv, Shared!CommitsAddUp
  <2> QED  BY <2>1, <2>2, <2>3 DEF IsolatesKeepApart
<1> QED  BY <1>1, ServicesInvariant, PTL

\* server.rs, engine.rs: an eval that was interrupted starts no further form, and
\* "session-idle" is the truth, for any number of requests and forms.
THEOREM InterruptsAreTrue == Spec => []InterruptsAreHonest
<1>1. ServicesInv => InterruptsAreHonest
  BY DEF ServicesInv, NreplInv, InterruptsAreHonest, Nrepl!InterruptStops, Nrepl!IdleMeansIdle
<1> QED  BY <1>1, ServicesInvariant, PTL

\* cljrsh-pods: an invoke returns the value of its own request although the host never
\* compares ids, and no pod but one whose load failed outlives the host.
THEOREM PodsAnswerTheirCaller == Spec => []PodsAnswerOwn
<1>1. ServicesInv => PodsAnswerOwn
  <2> SUFFICES ASSUME ServicesInv PROVE PodsAnswerOwn  OBVIOUS
  <2>1. Pod!OwnAnswer  BY DEF ServicesInv, AnswerInv, PodOrderly, Pod!OwnAnswer
  <2>2. Pod!NoOrphan  BY DEF ServicesInv, OrphanInv, Pod!NoOrphan
  <2> QED  BY <2>1, <2>2 DEF PodsAnswerOwn
<1> QED  BY <1>1, ServicesInvariant, PTL

\* apply.rs, rt_abi.rs: without a reset! or compare-and-set!, an update of an atom is
\* lost only at the end of a swap! that was running around it.
THEOREM LostOnlyToEnclosingSwap == Spec => OnlyEnclosingSwapLoses
<1>1. ServicesInv /\ [Next]_vars =>
          [\A u \in re_atom \ re_atom' :
              \/ \E o \in AtomOps : Ref!Reset(o) \/ Ref!CompareAndSet(o, re_atom)
              \/ Ref!EndSwap /\ Ref!Top.id \in re_under[u]]_(Ref!vars)
  BY OneService, LossStep DEF ServicesInv
<1> QED  BY <1>1, ServicesInvariant, PTL DEF Spec, OnlyEnclosingSwapLoses, Ref!OnlyEnclosingSwapLoses

\* types.rs: the thunk of a delay or lazy sequence runs at most once, however calls nest.
THEOREM ThunksRunOnce == Spec => []ForcedOnce
<1>1. ServicesInv => ForcedOnce
  <2> SUFFICES ASSUME ServicesInv PROVE ForcedOnce  OBVIOUS
  <2>1. DOMAIN re_runs = Cells  BY DEF ServicesInv, RefTyped
  <2> QED  BY <2>1 DEF ServicesInv, ForcedInv, ForcedOnce, Ref!ForcedOnce
<1> QED  BY <1>1, ServicesInvariant, PTL

\* gas.rs, dynamics.rs, cljrs-tx: code runs under its own meters and bindings, the call
\* depth is exact after caught errors, and a transaction leaves no trace, for any number
\* of tasks, forms, frames and transactions.
THEOREM ThreadStateStaysOwn == Spec => []ThreadStateIsOwn
<1>1. ServicesInv => ThreadStateIsOwn
  BY ScopeHolds, TxHolds DEF ServicesInv, ThreadStateIsOwn
<1> QED  BY <1>1, ServicesInvariant, PTL
=============================================================================
