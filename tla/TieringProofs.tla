--------------------------- MODULE TieringProofs ---------------------------
(***************************************************************************)
(* Proofs about Tiering, for all sets of arities, loops and isolates and    *)
(* all capacities and bounds.                                               *)
(***************************************************************************)
EXTENDS Tiering, SequenceTheorems, TLAPS

-----------------------------------------------------------------------------
(* Who holds what.  One conjunct per table that the invariants below index.  *)

\* s is a sequence, of whatever elements.
IsSeq(s) == s \in Seq({s[k] : k \in DOMAIN s})

OpPcs == {"idle", "asking", "drop", "drain", "mark", "invalidate", "unpublish",
          "free", "sweep", "evict"}
LwPcs == {"idle", "register", "clear", "lower", "store", "peek"}
JwPcs == {"idle", "guard", "storeNative", "storeOsr"}
LwBusy == {"clear", "lower", "store", "peek"}

OpTyped ==
    /\ op \in [Isolates -> [pc : OpPcs, todo : SUBSET Arities, held : SUBSET (Arities \cup Nat)]]
    /\ \A i \in Isolates : op[i].pc \in {"idle", "drop", "drain"} => op[i].todo = {}
    /\ \A i \in Isolates : op[i].pc = "unpublish" => op[i].held \subseteq Arities

LowerTyped ==
    /\ dependents \subseteq Arities \ Unlowerable
    /\ relower \subseteq Arities
    /\ DOMAIN cache = Arities
    /\ lowerReqs \in Seq([arity : Arities \cup {None}, ver : Nat])
    /\ lw \in [pc : LwPcs, arity : Arities \cup {None}, inl : SUBSET Nat, attempts : Nat]
    /\ lw.pc \in LwBusy => lw.arity \in Arities
    /\ reg \in SUBSET Nat

-----------------------------------------------------------------------------
(* The dependency edges (defn_registry.rs, lower_worker.rs).                 *)

\* The hook of some rebind still has to drop the cached IR of a.
Doomed(a) == \E i \in Isolates :
    \/ op[i].pc \in {"mark", "invalidate"} /\ a \in op[i].todo
    \/ op[i].pc = "unpublish" /\ a \in op[i].todo \ op[i].held

\* The hook of some rebind has drained the edge of a and not yet marked a.
Draining(a) == \E i \in Isolates : op[i].pc = "mark" /\ a \in op[i].todo

\* The lowering worker stored the IR of a and is about to see its mark.
Caught(a) == lw.pc = "peek" /\ lw.arity = a /\ a \in relower

\* EdgeCovers is not inductive: a relower mark alone covers nothing once the
\* worker has looked at it, and a collection's todo set covers nothing at all.
EdgeInv ==
    /\ \A a \in Arities : IsIr(cache[a]) /\ cache[a].inl # {} =>
           a \in dependents \/ Doomed(a) \/ Caught(a)
    /\ lw.pc = "store" /\ lw.inl # {} =>
           lw.arity \in dependents \cup relower \/ Draining(lw.arity)

-----------------------------------------------------------------------------
(* Stale IR.                                                                 *)

Dead(inl) == ~(inl \subseteq {ver} \cup late)

\* Home's rebind has happened and its hook has not drained the edges.
Rebinding == op[Home].pc \in {"drop", "drain"}

\* A dead definition is on its way out: the hook of Home's rebind has still to
\* find it, or some hook or the worker is about to drop it.
StaleInv ==
    /\ Dead(reg) => op[Home].pc = "drop"
    /\ \A a \in Arities : IsIr(cache[a]) /\ Dead(cache[a].inl) =>
           (Rebinding /\ a \in dependents) \/ Doomed(a) \/ Caught(a)
    /\ lw.pc = "store" /\ Dead(lw.inl) =>
           \/ Rebinding /\ lw.arity \in dependents
           \/ lw.arity \in relower
           \/ Draining(lw.arity)

\* A queue after its first request is taken.
LEMMA RestOfQueue ==
    ASSUME NEW S, NEW s \in Seq(S), s # <<>>
    PROVE  /\ 1 \in DOMAIN s /\ Head(s) = s[1] /\ Tail(s) \in Seq(S)
           /\ \A k \in DOMAIN Tail(s) : k + 1 \in DOMAIN s /\ Tail(s)[k] = s[k + 1]
           /\ \A k \in DOMAIN s : k = 1 \/ (k - 1 \in DOMAIN Tail(s) /\ Tail(s)[k - 1] = s[k])
<1>1. Len(s) \in Nat /\ Len(s) # 0 /\ DOMAIN s = 1..Len(s) /\ Head(s) = s[1]  OBVIOUS
<1>2. /\ Tail(s) \in Seq(S) /\ Len(Tail(s)) = Len(s) - 1
      /\ \A k \in 1..Len(Tail(s)) : Tail(s)[k] = s[k + 1]
  BY HeadTailProperties
<1>3. DOMAIN Tail(s) = 1..(Len(s) - 1)  BY <1>2
<1>4. \A k \in 1..(Len(s) - 1) : Tail(s)[k] = s[k + 1] /\ k + 1 \in 1..Len(s)  BY <1>1, <1>2
<1>5. ASSUME NEW k \in 1..Len(s), k # 1 PROVE k - 1 \in 1..(Len(s) - 1) /\ Tail(s)[k - 1] = s[k]
  <2>1. k - 1 \in 1..(Len(s) - 1) /\ (k - 1) + 1 = k  BY <1>1, <1>5
  <2> QED  BY <1>4, <2>1
<1>6. 1 \in 1..Len(s)  BY <1>1
<1> QED  BY <1>1, <1>2, <1>3, <1>4, <1>5, <1>6

-----------------------------------------------------------------------------
(* Marks and the flag that suppresses requests.                              *)

Requested(a) == \E k \in DOMAIN lowerReqs : lowerReqs[k].arity = a
Clearing(a) == lw.pc = "clear" /\ lw.arity = a
Unpublishing(a) == \E i \in Isolates :
    op[i].pc \in {"invalidate", "unpublish"} /\ a \in op[i].todo

MarkInv ==
    /\ \A a \in Arities : cache[a] = Unsupported => a \in Unlowerable
    /\ relower \cap Unlowerable = {}
    /\ \A i \in Isolates : op[i].pc \in {"mark", "invalidate", "unpublish"} =>
           op[i].todo \cap Unlowerable = {}
    /\ \A a \in relower \cap lowerQ : Requested(a) \/ Clearing(a) \/ Unpublishing(a)
    /\ op[Home].pc = "asking" =>
           \A a \in relower \cap op[Home].todo : Requested(a) \/ Clearing(a)

-----------------------------------------------------------------------------
(* Modules (code_cache.rs).                                                  *)

Loops == Arities \X Headers

ModuleTyped ==
    /\ IsSeq(code) /\ IsSeq(jitReqs)
    /\ native \in [Arities -> {0} \cup DOMAIN code]
    /\ osrEpoch \in [Loops -> {0} \cup DOMAIN code]
    /\ \A k \in DOMAIN jitReqs : /\ jitReqs[k].arity \in Arities
                               /\ jitReqs[k].header \in Headers \cup {None}
    /\ \A e \in DOMAIN code : code[e].arity \in Arities
    /\ IsSeq(stack)
    /\ \A k \in DOMAIN stack : stack[k].arity \in Arities /\ stack[k].epoch \in {0} \cup DOMAIN code
    /\ fetched \in {0} \cup DOMAIN code
    /\ jw = [pc |-> jw.pc, req |-> jw.req, epoch |-> jw.epoch]
    /\ jw.pc \in JwPcs /\ jw.epoch \in {0} \cup DOMAIN code
    /\ jw.pc = "idle" <=> jw.epoch = 0
    /\ jw.pc # "idle" => jw.req.arity \in Arities
    /\ jw.pc = "storeOsr" => jw.req.header \in Headers
    /\ {live, stale, freed} \subseteq SUBSET DOMAIN code
    /\ live \cap stale = {} /\ (live \cup stale) \cap freed = {}

\* A module is reachable from one place only, the tables of its own arity.
PublishInv ==
    /\ \A a \in Arities : native[a] # 0 => native[a] \in live /\ code[native[a]].arity = a
    /\ \A l \in Loops : osrEpoch[l] # 0 =>
           /\ osrEpoch[l] \in live /\ code[osrEpoch[l]].arity = l[1]
           /\ osrEpoch[l] # native[l[1]]
    /\ jw.epoch # 0 =>
           /\ jw.epoch \in live /\ code[jw.epoch].arity = jw.req.arity
           /\ \A a \in Arities : native[a] # jw.epoch
           /\ \A l \in Loops : osrEpoch[l] # jw.epoch

\* What Home holds has not been released, and Home stands still from the scan
\* of its frames to the release.
HomeInv ==
    /\ op[Home].pc # "idle" => fetched = 0
    /\ op[Home].pc = "free" => op[Home].held = LiveFrames
    /\ LiveFrames \cup pinned \cup ({fetched} \ {0}) \subseteq live \cup stale

-----------------------------------------------------------------------------
(* Sequences *)

\* Every sequence is one.
LEMMA SeqIsSeq ==
    ASSUME NEW S, NEW s \in Seq(S)
    PROVE  IsSeq(s) /\ Len(s) \in Nat /\ DOMAIN s = 1..Len(s)
<1>1. s \in [1..Len(s) -> {s[k] : k \in DOMAIN s}]  OBVIOUS
<1>2. Len(s) \in Nat /\ DOMAIN s = 1..Len(s)  OBVIOUS
<1>3. s \in Seq({s[k] : k \in DOMAIN s})  BY <1>1, <1>2, SeqDef
<1> QED  BY <1>2, <1>3 DEF IsSeq

\* So is the empty one.
LEMMA EmptyIsSeq == IsSeq(<<>>)  BY SeqIsSeq, <<>> \in Seq({})

\* What Append does to the elements.
LEMMA AppendIsSeq ==
    ASSUME NEW s, IsSeq(s), NEW x
    PROVE  /\ IsSeq(Append(s, x)) /\ DOMAIN Append(s, x) = DOMAIN s \cup {Len(s) + 1}
           /\ Len(Append(s, x)) = Len(s) + 1 /\ Len(s) \in Nat /\ DOMAIN s = 1..Len(s)
           /\ \A k \in DOMAIN s : Append(s, x)[k] = s[k]
           /\ Append(s, x)[Len(s) + 1] = x
<1> DEFINE S == {s[k] : k \in DOMAIN s} \cup {x}
<1>0. s \in Seq({s[k] : k \in DOMAIN s})  BY DEF IsSeq
<1>1. s \in Seq(S) /\ x \in S
  <2>1. s \in [1..Len(s) -> S] /\ Len(s) \in Nat  BY <1>0
  <2> QED  BY <2>1, SeqDef
<1> HIDE DEF S
<1>2. Append(s, x) \in Seq(S)  BY <1>1
<1>3. IsSeq(Append(s, x))  BY <1>2, SeqIsSeq
<1> QED  BY <1>1, <1>2, <1>3

\* What Head and Tail do.
LEMMA TailIsSeq ==
    ASSUME NEW s, IsSeq(s), s # <<>>
    PROVE  /\ IsSeq(Tail(s)) /\ Len(s) \in Nat \ {0} /\ DOMAIN s = 1..Len(s)
           /\ Head(s) = s[1] /\ 1 \in DOMAIN s /\ DOMAIN Tail(s) = 1..(Len(s) - 1)
           /\ \A k \in DOMAIN Tail(s) : k + 1 \in DOMAIN s /\ Tail(s)[k] = s[k + 1]
<1>0. s \in Seq({s[k] : k \in DOMAIN s})  BY DEF IsSeq
<1> DEFINE S == {s[k] : k \in DOMAIN s}
<1>1. s \in Seq(S)  BY <1>0
<1> HIDE DEF S
<1>2. Tail(s) \in Seq(S)  BY <1>1
<1>3. IsSeq(Tail(s))  BY <1>2, SeqIsSeq
<1> QED  BY <1>1, <1>2, <1>3

\* A frame is popped.
LEMMA ButLastIsSeq ==
    ASSUME NEW s, IsSeq(s), s # <<>>
    PROVE  LET t == SubSeq(s, 1, Len(s) - 1) IN
           /\ IsSeq(t) /\ Len(s) \in Nat \ {0} /\ DOMAIN s = 1..Len(s)
           /\ DOMAIN t = 1..(Len(s) - 1) /\ Len(s) \in DOMAIN s
           /\ \A k \in DOMAIN t : k \in DOMAIN s /\ t[k] = s[k]
<1>0. s \in Seq({s[k] : k \in DOMAIN s})  BY DEF IsSeq
<1> DEFINE S == {s[k] : k \in DOMAIN s}
           t == SubSeq(s, 1, Len(s) - 1)
<1>1. s \in Seq(S)  BY <1>0
<1> HIDE DEF S
<1>2. Len(s) \in Nat \ {0} /\ \A k \in 1..(Len(s) - 1) : s[k] \in S  BY <1>1
<1>3. /\ t \in Seq(S) /\ Len(t) = IF 1 <= Len(s) - 1 THEN (Len(s) - 1) - 1 + 1 ELSE 0
      /\ \A k \in 1..((Len(s) - 1) - 1 + 1) : t[k] = s[1 + k - 1]
  BY <1>2, SubSeqProperties
<1> HIDE DEF t
<1>4. Len(t) = Len(s) - 1 /\ \A k \in 1..(Len(s) - 1) : t[k] = s[k]
  <2>1. Len(t) = Len(s) - 1
    <3>1. Len(s) \in Nat \ {0}  BY <1>2
    <3>2. Len(t) = IF 1 <= Len(s) - 1 THEN (Len(s) - 1) - 1 + 1 ELSE 0  BY <1>3
    <3>3. CASE Len(s) = 1  BY <3>1, <3>2, <3>3
    <3>4. CASE Len(s) > 1  BY <3>1, <3>2, <3>4
    <3> QED  BY <3>1, <3>3, <3>4
  <2>2. ASSUME NEW k \in 1..(Len(s) - 1) PROVE t[k] = s[k]
    <3>1. k \in 1..((Len(s) - 1) - 1 + 1) /\ 1 + k - 1 = k  BY <1>2
    <3> QED  BY <1>3, <3>1
  <2> QED  BY <2>1, <2>2
<1>5. IsSeq(t)  BY <1>3, SeqIsSeq
<1> QED  BY <1>1, <1>2, <1>3, <1>4, <1>5 DEF t

\* Appending by concatenation.
LEMMA ConcatOne ==
    ASSUME NEW s, IsSeq(s), NEW x
    PROVE  s \o <<x>> = Append(s, x) /\ s \o <<>> = s
<1> DEFINE S == {s[k] : k \in DOMAIN s} \cup {x}
<1>0. s \in Seq({s[k] : k \in DOMAIN s})  BY DEF IsSeq
<1>1. s \in Seq(S) /\ x \in S
  <2>1. s \in [1..Len(s) -> S] /\ Len(s) \in Nat  BY <1>0
  <2> QED  BY <2>1, SeqDef
<1> HIDE DEF S
<1> QED  BY <1>1, ConcatEmptySeq, AppendIsConcat

-----------------------------------------------------------------------------
(* Type correctness *)

\* Nothing is queued, compiled or running at first.
LEMMA ModuleInit == ASSUME Init PROVE ModuleTyped
BY EmptyIsSeq, TieringAssumption DEF Init, ModuleTyped, IdleJw, JwPcs, Loops

\* Taking published code away and marking modules stale keeps the tables' shape.
LEMMA StaleTyped ==
    ASSUME ModuleTyped, NEW S, NEW E, TakeNative(S) \/ UNCHANGED native,
           TakeOsr(S) \/ UNCHANGED osrVars, MarkStale(E) \/ UNCHANGED <<live, stale>>,
           UNCHANGED <<code, freed>>
    PROVE  /\ native' \in [Arities -> {0} \cup DOMAIN code']
           /\ osrEpoch' \in [Loops -> {0} \cup DOMAIN code']
           /\ {live', stale', freed'} \subseteq SUBSET DOMAIN code'
           /\ live' \cap stale' = {} /\ (live' \cup stale') \cap freed' = {}
<1>1. native' \in [Arities -> {0} \cup DOMAIN code']
  BY DEF TakeNative, ModuleTyped
<1>2. osrEpoch' \in [Loops -> {0} \cup DOMAIN code']
  BY DEF TakeOsr, ModuleTyped, osrVars, Loops
<1>3. /\ {live', stale', freed'} \subseteq SUBSET DOMAIN code'
      /\ live' \cap stale' = {} /\ (live' \cup stale') \cap freed' = {}
  BY DEF MarkStale, ModuleTyped
<1> QED  BY <1>1, <1>2, <1>3

\* The tables of modules, the queue of the JIT worker and Home's frames.
LEMMA ModuleStep ==
    ASSUME ModuleTyped, [Next]_vars
    PROVE  ModuleTyped'
<1> USE TieringAssumption
<1> DEFINE Rest == <<code, jitReqs, jw, stack, fetched, freed>>
<1>1. ASSUME UNCHANGED Rest, UNCHANGED <<native, osrVars, live, stale>>  PROVE ModuleTyped'
  BY <1>1 DEF ModuleTyped, osrVars
<1>2. ASSUME UNCHANGED Rest, NEW S, NEW E, TakeNative(S) \/ UNCHANGED native,
             TakeOsr(S) \/ UNCHANGED osrVars, MarkStale(E) \/ UNCHANGED <<live, stale>>
      PROVE ModuleTyped'
  <2>1. /\ native' \in [Arities -> {0} \cup DOMAIN code']
        /\ osrEpoch' \in [Loops -> {0} \cup DOMAIN code']
        /\ {live', stale', freed'} \subseteq SUBSET DOMAIN code'
        /\ live' \cap stale' = {} /\ (live' \cup stale') \cap freed' = {}
    BY <1>2, StaleTyped
  <2> QED  BY <1>2, <2>1 DEF ModuleTyped
<1>3. CASE Dispatch
  <2>1. ASSUME NEW a \in Arities, RequestLower(a) \/ PinUnsupported(a) PROVE ModuleTyped'
    BY <1>1, <2>1 DEF RequestLower, PinUnsupported, moduleVars, homeVars, dispatchVars
  <2>2. ASSUME NEW a \in Arities, Tier1Call(a) PROVE ModuleTyped'
    <3>1. IsSeq(stack')
          /\ \A k \in DOMAIN stack' : stack'[k].arity \in Arities /\ stack'[k].epoch \in {0} \cup DOMAIN code
      <4>1. stack' = Append(stack, IrFrame(a, cache[a]))  BY <2>2 DEF Tier1Call
      <4>2. IrFrame(a, cache[a]).arity = a /\ IrFrame(a, cache[a]).epoch = 0  BY DEF IrFrame
      <4> HIDE DEF IrFrame
      <4> QED  BY <4>1, <4>2, AppendIsSeq DEF ModuleTyped
    <3>2. IsSeq(jitReqs') /\ \A k \in DOMAIN jitReqs' : /\ jitReqs'[k].arity \in Arities
                               /\ jitReqs'[k].header \in Headers \cup {None}
      <4>1. CASE jitReqs' = jitReqs  BY <4>1 DEF ModuleTyped
      <4>2. CASE jitReqs' = Append(jitReqs, [arity |-> a, header |-> None, ir |-> cache[a]])
        BY <4>2, AppendIsSeq DEF ModuleTyped
      <4> QED  BY <2>2, <4>1, <4>2 DEF Tier1Call, RecordCall, SendJit
    <3> QED  BY <2>2, <3>1, <3>2 DEF Tier1Call, ModuleTyped, moduleVars, osrVars
  <2>3. ASSUME NEW a \in Arities, NativeCall(a) PROVE ModuleTyped'
    BY <2>3 DEF NativeCall, moduleVars, dispatchVars, osrVars, ModuleTyped
  <2>4. ASSUME NEW a \in Arities, Redefine(a) PROVE ModuleTyped'
    BY <1>2, <2>4 DEF Redefine, homeVars
  <2>5. ASSUME NEW h \in Headers, OsrRequest(h) PROVE ModuleTyped'
    <3>1. Top.arity \in Arities
      BY <2>5, ButLastIsSeq DEF OsrRequest, IrOnTop, Top, ModuleTyped
    <3> DEFINE r == [arity |-> Top.arity, header |-> h, ir |-> Top.ir]
    <3>2. r.arity \in Arities /\ r.header = h  BY <3>1
    <3>3. jitReqs' = jitReqs \/ jitReqs' = Append(jitReqs, r)
      BY <2>5 DEF OsrRequest, RequestOsr, SendJit
    <3> HIDE DEF r
    <3>4. IsSeq(jitReqs') /\ \A k \in DOMAIN jitReqs' : /\ jitReqs'[k].arity \in Arities
                               /\ jitReqs'[k].header \in Headers \cup {None}
      <4>1. CASE jitReqs' = jitReqs  BY <4>1 DEF ModuleTyped
      <4>2. CASE jitReqs' = Append(jitReqs, r)  BY <3>2, <4>2, AppendIsSeq DEF ModuleTyped
      <4> QED  BY <3>3, <4>1, <4>2
    <3> QED  BY <2>5, <3>4 DEF OsrRequest, ModuleTyped, moduleVars, homeVars, dispatchVars
  <2>6. ASSUME NEW h \in Headers, OsrEnter(h) PROVE ModuleTyped'
    <3>1. stack # <<>> /\ IsSeq(stack)  BY <2>6 DEF OsrEnter, IrOnTop, ModuleTyped
    <3>2. Top.arity \in Arities  BY <3>1, ButLastIsSeq DEF Top, ModuleTyped
    <3>3. fetched' \in {0} \cup DOMAIN code
      BY <2>6, <3>2 DEF OsrEnter, ModuleTyped, Loops
    <3>4. stack' = SubSeq(stack, 1, Len(stack) - 1)  BY <2>6 DEF OsrEnter
    <3>5. IsSeq(stack')
          /\ \A k \in DOMAIN stack' : stack'[k].arity \in Arities /\ stack'[k].epoch \in {0} \cup DOMAIN code
      BY <3>1, <3>4, ButLastIsSeq DEF ModuleTyped
    <3> QED  BY <2>6, <3>3, <3>5 DEF OsrEnter, ModuleTyped, moduleVars, dispatchVars, osrVars
  <2>7. CASE MarkLowerQueued \/ PinEpoch
    BY <1>1, <2>7 DEF MarkLowerQueued, PinEpoch, moduleVars, homeVars, dispatchVars
  <2>8. CASE Return
    <3>1. stack # <<>> /\ IsSeq(stack) /\ stack' = SubSeq(stack, 1, Len(stack) - 1)
      BY <2>8 DEF Return, ModuleTyped
    <3>2. IsSeq(stack')
          /\ \A k \in DOMAIN stack' : stack'[k].arity \in Arities /\ stack'[k].epoch \in {0} \cup DOMAIN code
      BY <3>1, ButLastIsSeq DEF ModuleTyped
    <3> QED  BY <2>8, <3>2 DEF Return, ModuleTyped, moduleVars, dispatchVars, osrVars
  <2>9. ASSUME fetched # 0
        PROVE  LET s == Append(stack, NativeFrame(fetched)) IN
               IsSeq(s) /\ \A k \in DOMAIN s : s[k].arity \in Arities /\ s[k].epoch \in {0} \cup DOMAIN code
    <3>1. /\ NativeFrame(fetched).arity \in Arities
          /\ NativeFrame(fetched).epoch \in DOMAIN code
      BY <2>9 DEF NativeFrame, ModuleTyped
    <3> QED  BY <3>1, AppendIsSeq DEF ModuleTyped
  <2>12. CASE EnterNative
    BY <2>12, <2>9 DEF EnterNative, ModuleTyped, moduleVars, dispatchVars, osrVars
  <2>10. CASE EnterDeopt
    <3> DEFINE a == code[fetched].arity
               s == Append(stack, NativeFrame(fetched))
    <3>1. a \in Arities /\ fetched # 0  BY <2>10 DEF EnterDeopt, ModuleTyped
    <3>2. IsSeq(s) /\ \A k \in DOMAIN s : s[k].arity \in Arities /\ s[k].epoch \in {0} \cup DOMAIN code
      BY <2>9, <3>1
    <3>3. IrFrame(a, cache[a]).arity = a /\ IrFrame(a, cache[a]).epoch = 0  BY DEF IrFrame
    <3>4. stack' = s \o <<IrFrame(a, cache[a])>> \/ stack' = s \o <<>>
      BY <2>10 DEF EnterDeopt
    <3> DEFINE f == IrFrame(a, cache[a])
    <3>5. RecordDeopt(a) /\ UNCHANGED <<osrVars, jitReqs, jw, code, freed>> /\ fetched' = 0
      BY <2>10 DEF EnterDeopt
    <3> HIDE DEF s, f
    <3>6. stack' = Append(s, f) \/ stack' = s  BY <3>2, <3>4, ConcatOne DEF f
    <3>7. IsSeq(stack')
          /\ \A k \in DOMAIN stack' : stack'[k].arity \in Arities /\ stack'[k].epoch \in {0} \cup DOMAIN code
      <4>1. f.arity \in Arities /\ f.epoch \in {0} \cup DOMAIN code  BY <3>1, <3>3 DEF f
      <4>2. CASE stack' = s  BY <3>2, <4>2
      <4>3. CASE stack' = Append(s, f)  BY <3>2, <4>1, <4>3, AppendIsSeq
      <4> QED  BY <3>6, <4>2, <4>3
    <3>8. /\ native' \in [Arities -> {0} \cup DOMAIN code']
          /\ osrEpoch' \in [Loops -> {0} \cup DOMAIN code']
          /\ {live', stale', freed'} \subseteq SUBSET DOMAIN code'
          /\ live' \cap stale' = {} /\ (live' \cup stale') \cap freed' = {}
      BY <3>5, StaleTyped DEF RecordDeopt, dispatchVars
    <3> QED  BY <3>5, <3>7, <3>8 DEF ModuleTyped
  <2>11. ASSUME NEW v \in WarmVersions, CalleeWarm(v) PROVE ModuleTyped'
    BY <1>1, <2>11 DEF CalleeWarm, moduleVars, homeVars, dispatchVars
  <2> QED  BY <1>3, <2>1, <2>2, <2>3, <2>4, <2>5, <2>6, <2>7, <2>8, <2>9, <2>10, <2>11, <2>12 DEF Dispatch
<1>4. ASSUME NEW i \in Isolates, RebindStep(i) PROVE ModuleTyped'
  <2>1. CASE StaleNativeCode(i)
    BY <1>2, <2>1 DEF StaleNativeCode, RebindUnchanged, homeVars
  <2>2. CASE ~StaleNativeCode(i)
    BY <1>1, <1>4, <2>2 DEF RebindStep, Rebind, DropRegistration, DrainDependents, MarkRelower,
        InvalidateIr, RebindUnchanged, homeVars
  <2> QED  BY <2>1, <2>2
<1>5. ASSUME NEW i \in Isolates, Collection(i) PROVE ModuleTyped'
  <2> USE DEF CollectUnchanged, homeVars
  <2>1. CASE ScanFrames(i) \/ SweepIdle(i)  BY <1>1, <2>1 DEF ScanFrames, SweepIdle
  <2>2. CASE FreeModules(i)
    BY <2>2 DEF FreeModules, SelectReclaimable, ModuleTyped, osrVars
  <2>3. CASE EvictEntries(i)
    <3>1. /\ native' \in [Arities -> {0} \cup DOMAIN code']
          /\ osrEpoch' \in [Loops -> {0} \cup DOMAIN code']
      BY <2>3 DEF EvictEntries, TakeNative, TakeOsr, ModuleTyped, Loops
    <3>2. /\ {live', stale', freed'} \subseteq SUBSET DOMAIN code'
          /\ live' \cap stale' = {} /\ (live' \cup stale') \cap freed' = {}
      BY <2>3 DEF EvictEntries, MarkStale, ModuleTyped
    <3> QED  BY <2>3, <3>1, <3>2 DEF EvictEntries, ModuleTyped
  <2> QED  BY <1>5, <2>1, <2>2, <2>3 DEF Collection
<1>6. CASE LowerWorker
  BY <1>1, <1>6 DEF LowerWorker, LwTake, LwClear, LwSnapshot, LwUnsupported, LwPanics, LwStore,
      LwPeek, LwRegister, LwUnchanged, moduleVars, homeVars
<1>7. CASE JitWorker
  <2> USE DEF JwUnchanged, homeVars
  <2>0. CASE jitReqs # <<>> /\ jitReqs' = Tail(jitReqs)
    <3>1. /\ IsSeq(jitReqs') /\ Head(jitReqs).arity \in Arities
          /\ Head(jitReqs).header \in Headers \cup {None}
          /\ \A k \in DOMAIN jitReqs' : /\ jitReqs'[k].arity \in Arities
                                        /\ jitReqs'[k].header \in Headers \cup {None}
      BY <2>0, TailIsSeq DEF ModuleTyped
    <3>2. CASE JwCompile
      <4> DEFINE r == Head(jitReqs)
                 e == Len(code) + 1
      <4>1. PICK b \in BOOLEAN :
              code' = Append(code, [arity |-> r.arity, inl |-> r.ir.inl, spec |-> b])
        BY <3>2 DEF JwCompile
      <4>2. /\ IsSeq(code') /\ DOMAIN code' = DOMAIN code \cup {e} /\ code'[e].arity = r.arity
            /\ \A k \in DOMAIN code : code'[k] = code[k]
            /\ e \notin DOMAIN code /\ e # 0
        BY <4>1, AppendIsSeq DEF ModuleTyped
      <4>3. /\ jw' = [pc |-> IF r.header = None THEN "guard" ELSE "storeOsr", req |-> r, epoch |-> e]
            /\ live' = live \cup {e}
        BY <3>2 DEF JwCompile
      <4>4. UNCHANGED <<native, osrVars, stale, freed, stack, fetched>>  BY <3>2 DEF JwCompile
      <4> HIDE DEF r, e
      <4>5. /\ native' \in [Arities -> {0} \cup DOMAIN code']
            /\ osrEpoch' \in [Loops -> {0} \cup DOMAIN code']
        BY <4>2, <4>4 DEF ModuleTyped, osrVars
      <4>6. /\ {live', stale', freed'} \subseteq SUBSET DOMAIN code'
            /\ live' \cap stale' = {} /\ (live' \cup stale') \cap freed' = {}
        BY <4>2, <4>3, <4>4 DEF ModuleTyped
      <4>7. /\ jw' = [pc |-> jw'.pc, req |-> jw'.req, epoch |-> jw'.epoch]
            /\ jw'.pc \in JwPcs /\ jw'.epoch \in {0} \cup DOMAIN code'
            /\ jw'.pc = "idle" <=> jw'.epoch = 0
            /\ jw'.pc # "idle" => jw'.req.arity \in Arities
            /\ jw'.pc = "storeOsr" => jw'.req.header \in Headers
        BY <3>1, <4>2, <4>3 DEF JwPcs, r
      <4> QED  BY <3>1, <4>2, <4>4, <4>5, <4>6, <4>7 DEF ModuleTyped, r
    <3>3. CASE JwDecline
      BY <3>1, <3>3 DEF JwDecline, ModuleTyped, osrVars, Loops
    <3> QED  BY <2>0, <3>2, <3>3, <1>7 DEF JitWorker, JwGuard, JwStoreNative, JwStoreOsr
  <2>1. CASE JwCompile \/ JwDecline  BY <2>0, <2>1 DEF JwCompile, JwDecline
  <2>3. CASE JwGuard
    <3>1. /\ {live', stale', freed'} \subseteq SUBSET DOMAIN code'
          /\ live' \cap stale' = {} /\ (live' \cup stale') \cap freed' = {}
      BY <2>3 DEF JwGuard, MarkStale, ModuleTyped
    <3>2. UNCHANGED <<native, osrVars, jitReqs, code, stack, fetched>>  BY <2>3 DEF JwGuard
    <3>3. /\ jw' = [pc |-> jw'.pc, req |-> jw'.req, epoch |-> jw'.epoch]
          /\ jw'.pc \in JwPcs /\ jw'.epoch \in {0} \cup DOMAIN code'
          /\ jw'.pc = "idle" <=> jw'.epoch = 0
          /\ jw'.pc # "idle" => jw'.req.arity \in Arities
          /\ jw'.pc = "storeOsr" => jw'.req.header \in Headers
      BY <2>3 DEF JwGuard, IdleJw, JwPcs, ModuleTyped
    <3> QED  BY <3>1, <3>2, <3>3 DEF ModuleTyped, osrVars
  <2>4. CASE JwStoreNative  BY <2>4 DEF JwStoreNative, ModuleTyped, IdleJw, JwPcs, osrVars
  <2>5. CASE JwStoreOsr  BY <2>5 DEF JwStoreOsr, ModuleTyped, IdleJw, JwPcs, Loops
  <2> QED  BY <1>7, <2>1, <2>3, <2>4, <2>5 DEF JitWorker
<1>8. CASE UNCHANGED vars  BY <1>1, <1>8 DEF vars, moduleVars, homeVars, dispatchVars
<1> QED  BY <1>3, <1>4, <1>5, <1>6, <1>7, <1>8 DEF Next

\* Nothing has been asked for at first.
LEMMA TypedInit == ASSUME Init PROVE OpTyped /\ LowerTyped
BY TieringAssumption DEF Init, OpTyped, LowerTyped, OpPcs, LwPcs, LwBusy, IdleOp, IdleLw, Stage

\* An isolate goes on to the next stage of what it is in the middle of.
LEMMA OpSet ==
    ASSUME OpTyped, NEW i \in Isolates, NEW p \in OpPcs, NEW T \in SUBSET Arities,
           NEW H \in SUBSET (Arities \cup Nat),
           p \in {"idle", "drop", "drain"} => T = {}, p = "unpublish" => H \subseteq Arities,
           op' = [op EXCEPT ![i] = Stage(p, T, H)]
    PROVE  OpTyped'
BY DEF OpTyped, OpPcs, Stage

\* Every table keeps its shape.
LEMMA TypedStep ==
    ASSUME ModuleTyped, OpTyped, LowerTyped, [Next]_vars
    PROVE  OpTyped' /\ LowerTyped'
<1> USE TieringAssumption DEF OpTyped, LowerTyped, OpPcs, LwPcs, LwBusy, IdleOp, IdleLw, Stage,
        defnVars, dispatchVars, homeVars, moduleVars, boundVars, osrVars
<1>1. CASE Dispatch
  <2>1. ASSUME NEW a \in Arities, RequestLower(a) PROVE OpTyped' /\ LowerTyped'
    <3>1. [arity |-> a, ver |-> 0] \in [arity : Arities \cup {None}, ver : Nat]  OBVIOUS
    <3>2. LowerTyped'  BY <2>1, <3>1 DEF RequestLower
    <3>3. OpTyped'  BY <2>1 DEF RequestLower
    <3> QED  BY <3>2, <3>3
  <2>2. ASSUME NEW a \in Arities, PinUnsupported(a) \/ Tier1Call(a) \/ NativeCall(a) \/ Redefine(a)
        PROVE OpTyped' /\ LowerTyped'
    BY <2>2 DEF PinUnsupported, Tier1Call, NativeCall, Redefine
  <2>3. ASSUME NEW h \in Headers, OsrRequest(h) \/ OsrEnter(h) PROVE OpTyped' /\ LowerTyped'
    BY <2>3 DEF OsrRequest, OsrEnter
  <2>4. CASE MarkLowerQueued  BY <2>4 DEF MarkLowerQueued
  <2>5. CASE Return \/ EnterNative \/ EnterDeopt \/ PinEpoch
    BY <2>5 DEF Return, EnterNative, EnterDeopt, PinEpoch
  <2>6. ASSUME NEW v \in WarmVersions, CalleeWarm(v) PROVE OpTyped' /\ LowerTyped'
    <3>1. [arity |-> None, ver |-> v] \in [arity : Arities \cup {None}, ver : Nat]  OBVIOUS
    <3> QED  BY <2>6, <3>1 DEF CalleeWarm
  <2> QED  BY <1>1, <2>1, <2>2, <2>3, <2>4, <2>5, <2>6 DEF Dispatch
<1>2. ASSUME NEW i \in Isolates, RebindStep(i) PROVE OpTyped' /\ LowerTyped'
  <2> USE DEF RebindUnchanged
  <2>1. CASE Rebind(i)
    <3>1. OpTyped'  BY <2>1, OpSet DEF Rebind
    <3>2. LowerTyped'  BY <2>1 DEF Rebind, CanRun
    <3> QED  BY <3>1, <3>2
  <2>2. CASE DropRegistration(i)  BY <2>2 DEF DropRegistration
  <2>3. CASE DrainDependents(i)
    <3>1. OpTyped'  BY <2>3, OpSet DEF DrainDependents
    <3>2. LowerTyped'  BY <2>3 DEF DrainDependents
    <3> QED  BY <3>1, <3>2
  <2>4. CASE MarkRelower(i)  BY <2>4 DEF MarkRelower, NextInvalidation
  <2>5. ASSUME NEW a \in Arities, InvalidateIr(i, a) PROVE OpTyped' /\ LowerTyped'
    <3>1. OpTyped'  BY <2>5, OpSet DEF InvalidateIr
    <3>2. LowerTyped'  BY <2>5 DEF InvalidateIr
    <3> QED  BY <3>1, <3>2
  <2>6. CASE StaleNativeCode(i)  BY <2>6 DEF StaleNativeCode, NextInvalidation
  <2> QED  BY <1>2, <2>1, <2>2, <2>3, <2>4, <2>5, <2>6 DEF RebindStep
<1>3. ASSUME NEW i \in Isolates, Collection(i) PROVE OpTyped' /\ LowerTyped'
  <2> USE DEF CollectUnchanged
  <2>1. CASE ScanFrames(i)
    <3>1. LiveFrames \subseteq Nat
      <4>1. DOMAIN code \subseteq Nat  BY SeqIsSeq DEF ModuleTyped, IsSeq
      <4> QED  BY <4>1 DEF LiveFrames, ModuleTyped
    <3> QED  BY <2>1, <3>1 DEF ScanFrames
  <2>2. CASE FreeModules(i)  BY <2>2 DEF FreeModules
  <2>3. CASE SweepIdle(i)
    <3>1. OpTyped'  BY <2>3, OpSet DEF SweepIdle, Evictable
    <3>2. LowerTyped'  BY <2>3 DEF SweepIdle, Evictable
    <3> QED  BY <3>1, <3>2
  <2>4. CASE EvictEntries(i)  BY <2>4 DEF EvictEntries
  <2> QED  BY <1>3, <2>1, <2>2, <2>3, <2>4 DEF Collection
<1>4. CASE LowerWorker
  <2> USE <1>4 DEF LwUnchanged
  <2>1. CASE LwTake
    <3>1. /\ lowerReqs # <<>>
          /\ Head(lowerReqs) \in [arity : Arities \cup {None}, ver : Nat]
          /\ Tail(lowerReqs) \in Seq([arity : Arities \cup {None}, ver : Nat])
      BY <2>1, HeadTailProperties DEF LwTake
    <3> QED  BY <2>1, <3>1 DEF LwTake
  <2>2. CASE LwClear
    <3>1. OpTyped'  BY <2>2 DEF LwClear
    <3>3. lw' = [pc |-> "lower", arity |-> lw.arity, inl |-> lw.inl, attempts |-> lw.attempts + 1]
      BY <2>2 DEF LwClear
    <3>2. LowerTyped'  BY <2>2, <3>3 DEF LwClear
    <3> QED  BY <3>1, <3>2
  <2>3. CASE LwSnapshot  BY <2>3 DEF LwSnapshot
  <2>4. CASE LwUnsupported
    <3>1. OpTyped'  BY <2>4 DEF LwUnsupported
    <3>2. LowerTyped'  BY <2>4 DEF LwUnsupported
    <3> QED  BY <3>1, <3>2
  <2>8. CASE LwPanics  BY <2>8 DEF LwPanics
  <2>5. CASE LwStore  BY <2>5 DEF LwStore
  <2>6. CASE LwPeek
    <3>1. OpTyped'  BY <2>6 DEF LwPeek
    <3>3. \/ lw' = IdleLw
          \/ lw' = [pc |-> "clear", arity |-> lw.arity, inl |-> lw.inl, attempts |-> lw.attempts]
      BY <2>6 DEF LwPeek
    <3>4. DOMAIN cache' = Arities  BY <2>6 DEF LwPeek
    <3>2. LowerTyped'  BY <2>6, <3>3, <3>4 DEF LwPeek
    <3> QED  BY <3>1, <3>2
  <2>7. CASE LwRegister  BY <2>7 DEF LwRegister
  <2> QED  BY <1>4, <2>1, <2>2, <2>3, <2>4, <2>5, <2>6, <2>7, <2>8 DEF LowerWorker
<1>5. CASE JitWorker
  BY <1>5 DEF JitWorker, JwCompile, JwDecline, JwGuard, JwStoreNative, JwStoreOsr, JwUnchanged
<1>6. CASE UNCHANGED vars  BY <1>6 DEF vars
<1> QED  BY <1>1, <1>2, <1>3, <1>4, <1>5, <1>6 DEF Next

-----------------------------------------------------------------------------
(* Every IR with the callee in it can be found by the next rebind *)

\* An isolate that is not in the middle of an invalidation dooms nothing.
LEMMA DoomedKept ==
    ASSUME OpTyped, NEW i \in Isolates, NEW r, op' = [op EXCEPT ![i] = r],
           op[i].pc \notin {"mark", "invalidate", "unpublish"}
    PROVE  \A a : (Doomed(a) => Doomed(a)') /\ (Draining(a) => Draining(a)')
BY DEF OpTyped, Doomed, Draining

\* The registry is empty or holds one version, and nothing is cached.
LEMMA EdgeInit == ASSUME Init PROVE EdgeInv
BY DEF Init, EdgeInv, IsIr, Absent, IdleLw

\* No step of a call, a rebind, a collection or a worker loses the way to an IR
\* that contains the callee.
LEMMA EdgeStep ==
    ASSUME OpTyped, LowerTyped, EdgeInv, [Next]_vars
    PROVE  EdgeInv'
<1> USE DEF IsIr
<1>1. ASSUME UNCHANGED <<cache, dependents, relower, lw>>,
             \A a : (Doomed(a) => Doomed(a)') /\ (Draining(a) => Draining(a)')
      PROVE EdgeInv'
  BY <1>1 DEF EdgeInv, Caught
<1>2. ASSUME UNCHANGED <<cache, dependents, relower, lw, op>>
      PROVE EdgeInv'
  BY <1>2 DEF EdgeInv, Caught, Doomed, Draining
<1>3. CASE Dispatch
  <2> USE DEF defnVars
  <2>1. ASSUME NEW a \in Arities, RequestLower(a) PROVE EdgeInv'
    BY <1>1, <2>1, DoomedKept, TieringAssumption DEF RequestLower, CanRun
  <2>2. CASE MarkLowerQueued
    BY <1>1, <2>2, DoomedKept, TieringAssumption DEF MarkLowerQueued
  <2>3. ASSUME NEW a \in Arities, PinUnsupported(a) \/ Tier1Call(a) \/ NativeCall(a) \/ Redefine(a)
        PROVE EdgeInv'
    BY <1>2, <2>3 DEF PinUnsupported, Tier1Call, NativeCall, Redefine
  <2>4. ASSUME NEW h \in Headers, OsrRequest(h) \/ OsrEnter(h) PROVE EdgeInv'
    BY <1>2, <2>4 DEF OsrRequest, OsrEnter
  <2>5. CASE Return \/ EnterNative \/ EnterDeopt \/ PinEpoch
    BY <1>2, <2>5 DEF Return, EnterNative, EnterDeopt, PinEpoch
  <2>6. ASSUME NEW v \in WarmVersions, CalleeWarm(v) PROVE EdgeInv'
    BY <1>2, <2>6 DEF CalleeWarm
  <2> QED  BY <1>3, <2>1, <2>2, <2>3, <2>4, <2>5, <2>6 DEF Dispatch
<1>4. ASSUME NEW i \in Isolates, RebindStep(i) PROVE EdgeInv'
  <2> USE DEF RebindUnchanged
  <2>1. CASE Rebind(i)  BY <1>1, <2>1, DoomedKept DEF Rebind, CanRun
  <2>2. CASE DropRegistration(i)  BY <1>1, <2>2, DoomedKept DEF DropRegistration
  <2>3. CASE DrainDependents(i)
    <3>1. \A a : (Doomed(a) => Doomed(a)') /\ (Draining(a) => Draining(a)')
      BY <2>3, DoomedKept DEF DrainDependents
    <3>2. \A a \in dependents : Doomed(a)' /\ Draining(a)'
      BY <2>3 DEF DrainDependents, OpTyped, Doomed, Draining, Stage
    <3> QED  BY <2>3, <3>1, <3>2 DEF DrainDependents, EdgeInv, Caught
  <2>4. CASE MarkRelower(i)
    <3>1. \A a : Doomed(a) => Doomed(a)'
      BY <2>4 DEF MarkRelower, NextInvalidation, OpTyped, Doomed, Stage
    <3>2. \A a : Draining(a) => a \in relower' \/ Draining(a)'
      BY <2>4 DEF MarkRelower, OpTyped, Draining
    <3> QED  BY <2>4, <3>1, <3>2 DEF MarkRelower, EdgeInv, Caught
  <2>5. ASSUME NEW a \in Arities, InvalidateIr(i, a) PROVE EdgeInv'
    <3>1. \A b : b # a /\ Doomed(b) => Doomed(b)'
      BY <2>5 DEF InvalidateIr, OpTyped, Doomed, Stage
    <3>2. \A b : Draining(b) => Draining(b)'
      BY <2>5 DEF InvalidateIr, OpTyped, Draining
    <3>3. cache'[a].st # "ir" /\ \A b \in Arities : b # a => cache'[b] = cache[b]
      BY <2>5 DEF InvalidateIr, LowerTyped, Absent
    <3> QED  BY <2>5, <3>1, <3>2, <3>3 DEF InvalidateIr, EdgeInv, Caught
  <2>6. CASE StaleNativeCode(i)
    <3>1. \A a : Doomed(a) => Doomed(a)'
      BY <2>6 DEF StaleNativeCode, NextInvalidation, OpTyped, Doomed, Stage
    <3>2. \A a : Draining(a) => Draining(a)'
      BY <2>6 DEF StaleNativeCode, OpTyped, Draining
    <3> QED  BY <1>1, <2>6, <3>1, <3>2 DEF StaleNativeCode
  <2> QED  BY <1>4, <2>1, <2>2, <2>3, <2>4, <2>5, <2>6 DEF RebindStep
<1>5. ASSUME NEW i \in Isolates, Collection(i) PROVE EdgeInv'
  <2> USE DEF CollectUnchanged, defnVars
  <2>1. CASE ScanFrames(i)  BY <1>1, <2>1, DoomedKept DEF ScanFrames, CanRun
  <2>2. CASE FreeModules(i)  BY <1>1, <2>2, DoomedKept DEF FreeModules
  <2>3. CASE SweepIdle(i)
    <3>1. \A a : (Doomed(a) => Doomed(a)') /\ (Draining(a) => Draining(a)')
      BY <2>3, DoomedKept DEF SweepIdle
    <3>2. \A a \in Arities : cache'[a] = cache[a] \/ cache'[a].st # "ir"
      BY <2>3 DEF SweepIdle, Absent
    <3>3. UNCHANGED <<dependents, relower, lw>>  BY <2>3 DEF SweepIdle
    <3> QED  BY <3>1, <3>2, <3>3 DEF EdgeInv, Caught
  <2>4. CASE EvictEntries(i)  BY <1>1, <2>4, DoomedKept DEF EvictEntries
  <2> QED  BY <1>5, <2>1, <2>2, <2>3, <2>4 DEF Collection
<1>6. CASE LowerWorker
  <2>0. UNCHANGED op /\ \A a : (Doomed(a)' <=> Doomed(a)) /\ (Draining(a)' <=> Draining(a))
    <3>1. UNCHANGED op
      BY <1>6 DEF LowerWorker, LwTake, LwClear, LwSnapshot, LwUnsupported, LwPanics, LwStore, LwPeek,
          LwRegister, LwUnchanged
    <3> QED  BY <3>1 DEF Doomed, Draining
  <2>1. CASE LwTake
    <3>1. lw.pc # "peek" /\ lw'.pc # "store" /\ UNCHANGED <<cache, dependents, relower>>
      BY <2>1 DEF LwTake, IdleLw
    <3> QED  BY <2>0, <3>1 DEF EdgeInv, Caught
  <2>2. CASE LwClear
    <3>1. lw.arity \in Arities /\ lw.pc = "clear" /\ lw'.pc = "lower"
      BY <2>2 DEF LwClear, LowerTyped, LwBusy
    <3>2. cache'[lw.arity].st # "ir" /\ \A b \in Arities : b # lw.arity => cache'[b] = cache[b]
      BY <2>2, <3>1 DEF LwClear, LowerTyped, Absent
    <3> QED  BY <2>0, <2>2, <3>1, <3>2 DEF LwClear, EdgeInv, Caught
  <2>3. CASE LwSnapshot
    <3>1. /\ lw.pc = "lower" /\ lw'.arity = lw.arity /\ lw'.pc = "store" /\ lw'.inl = reg
          /\ dependents \subseteq dependents'
          /\ reg # {} => lw.arity \in dependents'
          /\ UNCHANGED <<cache, relower>>
      BY <2>3 DEF LwSnapshot, LowerTyped
    <3>2. \A a \in Arities : IsIr(cache'[a]) /\ cache'[a].inl # {} =>
              a \in dependents' \/ Doomed(a)' \/ Caught(a)'
      BY <2>0, <3>1 DEF EdgeInv, Caught
    <3>3. lw'.inl # {} => lw'.arity \in dependents'  BY <3>1
    <3> QED  BY <3>2, <3>3 DEF EdgeInv
  <2>4. CASE LwUnsupported
    <3>1. lw.arity \in Arities /\ lw.pc = "lower" /\ lw'.pc = "idle"
      BY <2>4 DEF LwUnsupported, LowerTyped, LwBusy, IdleLw
    <3>2. cache'[lw.arity].st # "ir" /\ \A b \in Arities : b # lw.arity => cache'[b] = cache[b]
      BY <2>4, <3>1 DEF LwUnsupported, LowerTyped, Unsupported
    <3> QED  BY <2>0, <2>4, <3>1, <3>2 DEF LwUnsupported, EdgeInv, Caught
  <2>5. CASE LwPanics
    BY <2>0, <2>5 DEF LwPanics, IdleLw, EdgeInv, Caught
  <2>6. CASE LwStore
    <3>1. lw.arity \in Arities /\ lw.pc = "store" /\ lw'.pc = "peek" /\ lw'.arity = lw.arity
      BY <2>6 DEF LwStore, LowerTyped, LwBusy
    <3>2. /\ cache'[lw.arity].inl = lw.inl
          /\ \A b \in Arities : b # lw.arity => cache'[b] = cache[b]
      BY <2>6, <3>1 DEF LwStore, LowerTyped, NewIr
    <3>3. \A a : Draining(a) => Doomed(a)  BY DEF Doomed, Draining
    <3> QED  BY <2>0, <2>6, <3>1, <3>2, <3>3 DEF LwStore, EdgeInv, Caught
  <2>7. CASE LwPeek
    <3>1. lw.arity \in Arities /\ lw'.pc # "store" /\ lw.pc = "peek" /\ lw'.pc # "peek"
      BY <2>7 DEF LwPeek, LowerTyped, LwBusy, IdleLw
    <3>2. /\ \A b \in Arities : cache'[b] = cache[b] \/ cache'[b].st # "ir"
          /\ lw.arity \in relower => cache'[lw.arity].st # "ir"
      BY <2>7, <3>1 DEF LwPeek, LowerTyped, Absent
    <3> QED  BY <2>0, <2>7, <3>1, <3>2 DEF LwPeek, EdgeInv, Caught
  <2>8. CASE LwRegister
    BY <2>0, <2>8 DEF LwRegister, IdleLw, EdgeInv, Caught
  <2> QED  BY <1>6, <2>1, <2>2, <2>3, <2>4, <2>5, <2>6, <2>7, <2>8 DEF LowerWorker
<1>7. CASE JitWorker
  BY <1>2, <1>7 DEF JitWorker, JwCompile, JwDecline, JwGuard, JwStoreNative, JwStoreOsr,
      JwUnchanged, defnVars
<1>8. CASE UNCHANGED vars  BY <1>2, <1>8 DEF vars, defnVars
<1> QED  BY <1>3, <1>4, <1>5, <1>6, <1>7, <1>8 DEF Next

-----------------------------------------------------------------------------
(* No dead definition stays in the IR cache *)

\* The first version is the only one anybody knows.
LEMMA StaleInit == ASSUME Init PROVE StaleInv
BY TieringAssumption DEF Init, StaleInv, IsIr, Absent, IdleLw, Dead, IdleOp, Stage

\* An isolate moves between two stages that have nothing to do with a rebind.
LEMMA StaleFrame ==
    ASSUME StaleInv, UNCHANGED <<ver, late, reg, cache, dependents, relower, lw>>,
           \A a : (Doomed(a) => Doomed(a)') /\ (Draining(a) => Draining(a)'),
           op[Home].pc \in {"drop", "drain"} => op'[Home].pc = op[Home].pc
    PROVE  StaleInv'
<1>1. Rebinding => Rebinding'  BY DEF Rebinding
<1>2. \A a : Caught(a)' <=> Caught(a)  BY DEF Caught
<1>3. \A x : Dead(x)' <=> Dead(x)  BY DEF Dead
<1>4. \A a \in Arities : IsIr(cache[a])' <=> IsIr(cache[a])  BY DEF IsIr
<1> QED  BY <1>1, <1>2, <1>3, <1>4 DEF StaleInv

\* A step leaves no IR with a dead definition that nobody is about to drop.
LEMMA StaleStep ==
    ASSUME OpTyped, LowerTyped, EdgeInv, StaleInv, [Next]_vars
    PROVE  StaleInv'
<1> USE TieringAssumption
<1>1. ASSUME UNCHANGED <<ver, late, reg, cache, dependents, relower, lw>>,
             NEW i \in Isolates, NEW r, op' = [op EXCEPT ![i] = r],
             op[i].pc \notin {"drop", "drain", "mark", "invalidate", "unpublish"}
      PROVE  StaleInv'
  <2>1. \A a : (Doomed(a) => Doomed(a)') /\ (Draining(a) => Draining(a)')  BY <1>1, DoomedKept
  <2>2. op[Home].pc \in {"drop", "drain"} => op'[Home].pc = op[Home].pc
    BY <1>1 DEF OpTyped
  <2> QED  BY <1>1, <2>1, <2>2, StaleFrame
<1>2. ASSUME UNCHANGED <<ver, late, reg, cache, dependents, relower, lw, op>>
      PROVE  StaleInv'
  BY <1>2, StaleFrame DEF Doomed, Draining
<1>3. CASE Dispatch
  <2> USE DEF defnVars, boundVars
  <2>1. ASSUME NEW a \in Arities, RequestLower(a) PROVE StaleInv'
    BY <1>1, <2>1 DEF RequestLower, CanRun
  <2>2. CASE MarkLowerQueued
    BY <1>1, <2>2 DEF MarkLowerQueued
  <2>3. ASSUME NEW a \in Arities, PinUnsupported(a) \/ Tier1Call(a) \/ NativeCall(a) \/ Redefine(a)
        PROVE StaleInv'
    BY <1>2, <2>3 DEF PinUnsupported, Tier1Call, NativeCall, Redefine
  <2>4. ASSUME NEW h \in Headers, OsrRequest(h) \/ OsrEnter(h) PROVE StaleInv'
    BY <1>2, <2>4 DEF OsrRequest, OsrEnter
  <2>5. CASE Return \/ EnterNative \/ EnterDeopt \/ PinEpoch
    BY <1>2, <2>5 DEF Return, EnterNative, EnterDeopt, PinEpoch
  <2>6. ASSUME NEW v \in WarmVersions, CalleeWarm(v) PROVE StaleInv'
    BY <1>2, <2>6 DEF CalleeWarm
  <2> QED  BY <1>3, <2>1, <2>2, <2>3, <2>4, <2>5, <2>6 DEF Dispatch
<1>4. ASSUME NEW i \in Isolates, RebindStep(i) PROVE StaleInv'
  <2> USE DEF RebindUnchanged
  <2>1. CASE Rebind(i)
    <3>0. \A a : (Doomed(a) => Doomed(a)') /\ (Draining(a) => Draining(a)')
      BY <2>1, DoomedKept DEF Rebind, CanRun
    <3>1. CASE i = Home
      <4>1. /\ op'[Home].pc = "drop" /\ Rebinding'
            /\ UNCHANGED <<cache, dependents, relower, lw>>
        BY <2>1, <3>1 DEF Rebind, OpTyped, Stage, Rebinding
      <4>2. \A a : Caught(a)' <=> Caught(a)  BY <4>1 DEF Caught
      <4>3. \A x : Dead(x)' => x # {}  BY DEF Dead
      <4>4. \A a \in Arities : (IsIr(cache[a]) /\ Dead(cache[a].inl))' =>
               (Rebinding' /\ a \in dependents') \/ Doomed(a)' \/ Caught(a)'
        BY <3>0, <4>1, <4>2, <4>3 DEF EdgeInv
      <4>5. lw'.pc = "store" /\ Dead(lw.inl)' =>
               \/ Rebinding' /\ lw'.arity \in dependents'
               \/ lw'.arity \in relower'
               \/ Draining(lw.arity)'
        BY <3>0, <4>1, <4>3 DEF EdgeInv
      <4> QED  BY <4>1, <4>4, <4>5 DEF StaleInv
    <3>2. CASE i # Home
      <4>1. op[Home].pc \in {"drop", "drain"} => op'[Home].pc = op[Home].pc
        BY <2>1, <3>2 DEF Rebind, OpTyped
      <4>2. UNCHANGED <<ver, late, reg, cache, dependents, relower, lw>>
        BY <2>1, <3>2 DEF Rebind
      <4> QED  BY <3>0, <4>1, <4>2, StaleFrame
    <3> QED  BY <3>1, <3>2
  <2>2. CASE DropRegistration(i)
    <3>1. \A a : (Doomed(a) => Doomed(a)') /\ (Draining(a) => Draining(a)')
      BY <2>2, DoomedKept DEF DropRegistration
    <3>2. Rebinding => Rebinding'  BY <2>2 DEF DropRegistration, Rebinding, OpTyped, Stage
    <3>3. UNCHANGED <<ver, late, cache, dependents, relower, lw>> /\ reg' = {}
      BY <2>2 DEF DropRegistration
    <3>4. \A x : Dead(x)' <=> Dead(x)  BY <3>3 DEF Dead
    <3>5. ~Dead(reg)'  BY <3>3 DEF Dead
    <3> QED  BY <3>1, <3>2, <3>3, <3>4, <3>5 DEF StaleInv, IsIr, Caught
  <2>3. CASE DrainDependents(i)
    <3>1. \A a : (Doomed(a) => Doomed(a)') /\ (Draining(a) => Draining(a)')
      BY <2>3, DoomedKept DEF DrainDependents
    <3>2. \A a \in dependents : Doomed(a)' /\ Draining(a)'
      BY <2>3 DEF DrainDependents, OpTyped, Doomed, Draining, Stage
    <3>3. UNCHANGED <<ver, late, reg, cache, relower, lw>>
      BY <2>3 DEF DrainDependents
    <3>4. \A x : Dead(x)' <=> Dead(x)  BY <3>3 DEF Dead
    <3>5. op[Home].pc = "drop" => op'[Home].pc = "drop"  BY <2>3 DEF DrainDependents, OpTyped
    <3> QED  BY <3>1, <3>2, <3>3, <3>4, <3>5 DEF StaleInv, IsIr, Caught
  <2>4. CASE MarkRelower(i)
    <3>1. \A a : Doomed(a) => Doomed(a)'
      BY <2>4 DEF MarkRelower, NextInvalidation, OpTyped, Doomed, Stage
    <3>2. \A a : Draining(a) => a \in relower' \/ Draining(a)'
      BY <2>4 DEF MarkRelower, OpTyped, Draining
    <3>3. /\ UNCHANGED <<ver, late, reg, cache, dependents, lw>>
          /\ relower \subseteq relower'
      BY <2>4 DEF MarkRelower
    <3>4. \A x : Dead(x)' <=> Dead(x)  BY <3>3 DEF Dead
    <3>5. op[Home].pc \in {"drop", "drain"} => op'[Home].pc = op[Home].pc
      BY <2>4 DEF MarkRelower, OpTyped
    <3>6. (Rebinding => Rebinding') /\ \A a : Caught(a) => Caught(a)'
      BY <3>3, <3>5 DEF Rebinding, Caught
    <3> QED  BY <3>1, <3>2, <3>3, <3>4, <3>5, <3>6 DEF StaleInv, IsIr
  <2>5. ASSUME NEW a \in Arities, InvalidateIr(i, a) PROVE StaleInv'
    <3>1. \A b : b # a /\ Doomed(b) => Doomed(b)'
      BY <2>5 DEF InvalidateIr, OpTyped, Doomed, Stage
    <3>2. \A b : Draining(b) => Draining(b)'
      BY <2>5 DEF InvalidateIr, OpTyped, Draining
    <3>3. ~IsIr(cache'[a]) /\ \A b \in Arities : b # a => cache'[b] = cache[b]
      BY <2>5 DEF InvalidateIr, LowerTyped, Absent, IsIr
    <3>4. UNCHANGED <<ver, late, reg, dependents, relower, lw>>
      BY <2>5 DEF InvalidateIr
    <3>5. op[Home].pc \in {"drop", "drain"} => op'[Home].pc = op[Home].pc
      BY <2>5 DEF InvalidateIr, OpTyped
    <3>6. (Rebinding => Rebinding') /\ \A b : Caught(b) => Caught(b)'
      BY <3>4, <3>5 DEF Rebinding, Caught
    <3>7. \A x : Dead(x)' <=> Dead(x)  BY <3>4 DEF Dead
    <3> QED  BY <3>1, <3>2, <3>3, <3>4, <3>5, <3>6, <3>7 DEF StaleInv, IsIr
  <2>6. CASE StaleNativeCode(i)
    <3>1. \A a : Doomed(a) => Doomed(a)'
      BY <2>6 DEF StaleNativeCode, NextInvalidation, OpTyped, Doomed, Stage
    <3>2. \A a : Draining(a) => Draining(a)'
      BY <2>6 DEF StaleNativeCode, OpTyped, Draining
    <3>3. op[Home].pc \in {"drop", "drain"} => op'[Home].pc = op[Home].pc
      BY <2>6 DEF StaleNativeCode, OpTyped
    <3>4. UNCHANGED <<ver, late, reg, cache, dependents, relower, lw>>
      BY <2>6 DEF StaleNativeCode
    <3> QED  BY <3>1, <3>2, <3>3, <3>4, StaleFrame
  <2> QED  BY <1>4, <2>1, <2>2, <2>3, <2>4, <2>5, <2>6 DEF RebindStep
<1>5. ASSUME NEW i \in Isolates, Collection(i) PROVE StaleInv'
  <2> USE DEF CollectUnchanged, defnVars, boundVars
  <2>1. CASE ScanFrames(i)  BY <1>1, <2>1 DEF ScanFrames, CanRun
  <2>2. CASE FreeModules(i)  BY <1>1, <2>2 DEF FreeModules
  <2>3. CASE SweepIdle(i)
    <3>1. \A a : (Doomed(a) => Doomed(a)') /\ (Draining(a) => Draining(a)')
      BY <2>3, DoomedKept DEF SweepIdle
    <3>2. \A a \in Arities : cache'[a] = cache[a] \/ ~IsIr(cache'[a])
      BY <2>3 DEF SweepIdle, Absent, IsIr
    <3>3. UNCHANGED <<ver, late, reg, dependents, relower, lw>>  BY <2>3 DEF SweepIdle
    <3>4. op[Home].pc \in {"drop", "drain"} => op'[Home].pc = op[Home].pc
      BY <2>3 DEF SweepIdle, OpTyped
    <3>5. (Rebinding => Rebinding') /\ \A b : Caught(b) => Caught(b)'
      BY <3>3, <3>4 DEF Rebinding, Caught
    <3>6. \A x : Dead(x)' <=> Dead(x)  BY <3>3 DEF Dead
    <3> QED  BY <3>1, <3>2, <3>3, <3>4, <3>5, <3>6 DEF StaleInv, IsIr
  <2>4. CASE EvictEntries(i)  BY <1>1, <2>4 DEF EvictEntries
  <2> QED  BY <1>5, <2>1, <2>2, <2>3, <2>4 DEF Collection
<1>6. CASE LowerWorker
  <2>0. /\ UNCHANGED op
        /\ \A a : (Doomed(a)' <=> Doomed(a)) /\ (Draining(a)' <=> Draining(a))
        /\ \A x : Dead(x)' => Dead(x)
        /\ Rebinding' <=> Rebinding
    <3>1. UNCHANGED <<op, ver>> /\ late \subseteq late'
      BY <1>6 DEF LowerWorker, LwTake, LwClear, LwSnapshot, LwUnsupported, LwPanics, LwStore, LwPeek,
          LwRegister, LwUnchanged, boundVars
    <3> QED  BY <3>1 DEF Doomed, Draining, Dead, Rebinding
  <2>1. CASE LwTake
    <3>1. lw.pc # "peek" /\ lw'.pc # "store" /\ UNCHANGED <<cache, dependents, relower, reg>>
      BY <2>1 DEF LwTake, IdleLw
    <3> QED  BY <2>0, <3>1 DEF StaleInv, Caught, IsIr
  <2>2. CASE LwClear
    <3>1. lw.arity \in Arities /\ lw.pc = "clear" /\ lw'.pc = "lower"
      BY <2>2 DEF LwClear, LowerTyped, LwBusy
    <3>2. ~IsIr(cache'[lw.arity]) /\ \A b \in Arities : b # lw.arity => cache'[b] = cache[b]
      BY <2>2, <3>1 DEF LwClear, LowerTyped, Absent, IsIr
    <3>3. UNCHANGED <<reg, dependents>>  BY <2>2 DEF LwClear
    <3> QED  BY <2>0, <3>1, <3>2, <3>3 DEF StaleInv, Caught, IsIr
  <2>3. CASE LwSnapshot
    <3>1. /\ lw.pc = "lower" /\ lw'.arity = lw.arity /\ lw'.pc = "store" /\ lw'.inl = reg
          /\ dependents \subseteq dependents'
          /\ reg # {} => lw.arity \in dependents'
          /\ UNCHANGED <<cache, relower, reg>>
      BY <2>3 DEF LwSnapshot, LowerTyped
    <3>2. Dead(reg) => reg # {} /\ Rebinding  BY DEF Dead, StaleInv, Rebinding
    <3> QED  BY <2>0, <3>1, <3>2 DEF StaleInv, Caught, IsIr
  <2>4. CASE LwUnsupported
    <3>1. lw.arity \in Arities /\ lw.pc = "lower" /\ lw'.pc = "idle"
      BY <2>4 DEF LwUnsupported, LowerTyped, LwBusy, IdleLw
    <3>2. ~IsIr(cache'[lw.arity]) /\ \A b \in Arities : b # lw.arity => cache'[b] = cache[b]
      BY <2>4, <3>1 DEF LwUnsupported, LowerTyped, Unsupported, IsIr
    <3>3. UNCHANGED <<reg, dependents, relower>>  BY <2>4 DEF LwUnsupported
    <3> QED  BY <2>0, <3>1, <3>2, <3>3 DEF StaleInv, Caught, IsIr
  <2>5. CASE LwPanics
    <3>1. lw.pc \in {"lower", "store"} /\ lw'.pc = "idle"
          /\ UNCHANGED <<reg, dependents, relower, cache>>
      BY <2>5 DEF LwPanics, IdleLw
    <3> QED  BY <2>0, <3>1 DEF StaleInv, Caught, IsIr
  <2>6. CASE LwStore
    <3>1. lw.arity \in Arities /\ lw.pc = "store" /\ lw'.pc = "peek" /\ lw'.arity = lw.arity
      BY <2>6 DEF LwStore, LowerTyped, LwBusy
    <3>2. /\ cache'[lw.arity].inl = lw.inl
          /\ \A b \in Arities : b # lw.arity => cache'[b] = cache[b]
      BY <2>6, <3>1 DEF LwStore, LowerTyped, NewIr
    <3>3. \A a : Draining(a) => Doomed(a)  BY DEF Doomed, Draining
    <3>4. UNCHANGED <<reg, dependents, relower>>  BY <2>6 DEF LwStore
    <3>5. \A a \in Arities : (IsIr(cache[a]) /\ Dead(cache[a].inl))' =>
               (Rebinding' /\ a \in dependents') \/ Doomed(a)' \/ Caught(a)'
      BY <2>0, <3>1, <3>2, <3>3, <3>4 DEF StaleInv, Caught, IsIr
    <3> QED  BY <2>0, <3>1, <3>4, <3>5 DEF StaleInv, IsIr
  <2>7. CASE LwPeek
    <3>1. /\ lw.arity \in Arities /\ lw'.pc \notin {"store", "register"}
          /\ lw.pc = "peek" /\ lw'.pc # "peek"
      BY <2>7 DEF LwPeek, LowerTyped, LwBusy, IdleLw
    <3>2. /\ \A b \in Arities : cache'[b] = cache[b] \/ ~IsIr(cache'[b])
          /\ lw.arity \in relower => ~IsIr(cache'[lw.arity])
      BY <2>7, <3>1 DEF LwPeek, LowerTyped, Absent, IsIr
    <3>3. UNCHANGED <<reg, dependents, relower>>  BY <2>7 DEF LwPeek
    <3> QED  BY <2>0, <3>1, <3>2, <3>3 DEF StaleInv, Caught, IsIr
  <2>8. CASE LwRegister
    <3>1. Dead(reg)' => op'[Home].pc = "drop"
      <4>1. op[Home].pc # "drop" => reg' \subseteq {ver'} \cup late'
        BY <2>8 DEF LwRegister, LwUnchanged
      <4> QED  BY <2>0, <4>1 DEF Dead
    <3>2. lw.pc = "register" /\ lw'.pc = "idle" /\ UNCHANGED <<cache, dependents, relower>>
      BY <2>8 DEF LwRegister, IdleLw
    <3> QED  BY <2>0, <3>1, <3>2 DEF StaleInv, Caught, IsIr
  <2> QED  BY <1>6, <2>1, <2>2, <2>3, <2>4, <2>5, <2>6, <2>7, <2>8 DEF LowerWorker
<1>7. CASE JitWorker
  BY <1>2, <1>7 DEF JitWorker, JwCompile, JwDecline, JwGuard, JwStoreNative, JwStoreOsr,
      JwUnchanged, defnVars, boundVars
<1>8. CASE UNCHANGED vars  BY <1>2, <1>8 DEF vars, defnVars, boundVars
<1> QED  BY <1>3, <1>4, <1>5, <1>6, <1>7, <1>8 DEF Next

-----------------------------------------------------------------------------
(* A relower mark can be acted on *)

\* Nothing is marked at first.
LEMMA MarkInit == ASSUME Init PROVE MarkInv
BY DEF Init, MarkInv, Unsupported, Absent, IdleOp, Stage

\* Requests in the queue stay there, marks and flags do not grow and no
\* invalidation is left.
LEMMA MarkFrame ==
    ASSUME MarkInv, relower' \subseteq relower, lowerQ' \subseteq lowerQ, UNCHANGED lw,
           \A a : Requested(a) => Requested(a)',
           \A a : Unpublishing(a) => Unpublishing(a)',
           \A a \in Arities : cache'[a] = cache[a] \/ cache'[a] = Absent,
           \A i \in Isolates : op'[i].pc \in {"mark", "invalidate", "unpublish"} =>
               op'[i].todo \cap Unlowerable = {},
           op'[Home].pc = "asking" =>
               \A a \in relower' \cap op'[Home].todo : Requested(a)' \/ Clearing(a)'
    PROVE  MarkInv'
<1>1. \A a : Clearing(a)' <=> Clearing(a)  BY DEF Clearing
<1>2. Absent # Unsupported  BY DEF Absent, Unsupported
<1> QED  BY <1>1, <1>2 DEF MarkInv

\* With one isolate, a mark is never made while a request is being flagged.
LEMMA MarkStep ==
    ASSUME Isolates = {Home}, OpTyped, LowerTyped, MarkInv, [Next]_vars
    PROVE  MarkInv'
<1> USE TieringAssumption
<1>0. Len(lowerReqs) \in Nat /\ DOMAIN lowerReqs = 1..Len(lowerReqs)  BY DEF LowerTyped
<1>1. ASSUME NEW x, lowerReqs' = Append(lowerReqs, x)
      PROVE  Requested(x.arity)' /\ \A a : Requested(a) => Requested(a)'
  BY <1>0, <1>1 DEF LowerTyped, Requested
<1>2. ASSUME UNCHANGED <<cache, relower, lw, lowerReqs>>, lowerQ' \subseteq lowerQ,
             op'[Home].pc # "asking", op[Home].pc \notin {"mark", "invalidate", "unpublish"},
             op'[Home].pc \in {"mark", "invalidate", "unpublish"} =>
                 op'[Home].todo \cap Unlowerable = {}
      PROVE  MarkInv'
  <2>2. \A a : Unpublishing(a) => Unpublishing(a)'  BY <1>2 DEF Unpublishing
  <2>3. \A a : Requested(a) => Requested(a)'  BY <1>2 DEF Requested
  <2> QED  BY <1>2, <2>2, <2>3, MarkFrame
<1>3. ASSUME UNCHANGED <<cache, relower, lw, op>>, lowerQ' \subseteq lowerQ,
             \A a : Requested(a) => Requested(a)'
      PROVE  MarkInv'
  <2>1. \A a : Unpublishing(a) => Unpublishing(a)'  BY <1>3 DEF Unpublishing
  <2>2. op'[Home].pc = "asking" =>
               \A a \in relower' \cap op'[Home].todo : Requested(a)' \/ Clearing(a)'
    BY <1>3 DEF MarkInv, Clearing
  <2>3. \A i \in Isolates : op'[i].pc \in {"mark", "invalidate", "unpublish"} =>
               op'[i].todo \cap Unlowerable = {}
    BY <1>3 DEF MarkInv
  <2> QED  BY <1>3, <2>1, <2>2, <2>3, MarkFrame
<1>4. ASSUME UNCHANGED <<cache, relower, lw, op, lowerReqs>>, lowerQ' \subseteq lowerQ
      PROVE  MarkInv'
  BY <1>3, <1>4 DEF Requested
<1>5. CASE Dispatch
  <2>1. ASSUME NEW a \in Arities, RequestLower(a) PROVE MarkInv'
    <3>1. /\ lowerReqs' = Append(lowerReqs, [arity |-> a, ver |-> 0]) /\ op[Home].pc = "idle"
          /\ op'[Home].pc = "asking" /\ op'[Home].todo = {a}
          /\ UNCHANGED <<cache, relower, lowerQ, lw>>
      BY <2>1 DEF RequestLower, OpTyped, Stage, CanRun, dispatchVars
    <3>2. Requested(a)' /\ \A b : Requested(b) => Requested(b)'  BY <1>1, <3>1
    <3>3. \A b : Unpublishing(b) => Unpublishing(b)'  BY <3>1 DEF Unpublishing
    <3> QED  BY <3>1, <3>2, <3>3, MarkFrame
  <2>2. CASE MarkLowerQueued
    <3>1. /\ op[Home].pc = "asking" /\ op'[Home].pc = "idle" /\ lowerQ' = lowerQ \cup op[Home].todo
          /\ UNCHANGED <<cache, relower, lw, lowerReqs>>
      BY <2>2 DEF MarkLowerQueued, OpTyped, IdleOp, Stage
    <3>2. \A b : ~Unpublishing(b)  BY <3>1 DEF Unpublishing
    <3>3. \A b : (Requested(b)' <=> Requested(b)) /\ (Clearing(b)' <=> Clearing(b))
      BY <3>1 DEF Requested, Clearing
    <3>4. \A b \in relower' \cap lowerQ' : Requested(b)' \/ Clearing(b)'
      BY <3>1, <3>2, <3>3 DEF MarkInv
    <3> QED  BY <3>1, <3>4 DEF MarkInv
  <2>3. ASSUME NEW a \in Arities, PinUnsupported(a) PROVE MarkInv'
    <3>1. /\ cache[a] = Unsupported /\ lowerQ' = lowerQ \cup {a}
          /\ UNCHANGED <<cache, relower, lw, lowerReqs, op>>
      BY <2>3 DEF PinUnsupported
    <3>2. a \notin relower  BY <3>1 DEF MarkInv
    <3>3. \A b : (Requested(b)' <=> Requested(b)) /\ (Clearing(b)' <=> Clearing(b))
               /\ (Unpublishing(b)' <=> Unpublishing(b))
      BY <3>1 DEF Requested, Clearing, Unpublishing
    <3> QED  BY <3>1, <3>2, <3>3 DEF MarkInv
  <2>4. ASSUME NEW a \in Arities, Tier1Call(a) \/ NativeCall(a) \/ Redefine(a) PROVE MarkInv'
    BY <1>4, <2>4 DEF Tier1Call, NativeCall, Redefine, TakeNative, dispatchVars
  <2>5. ASSUME NEW h \in Headers, OsrRequest(h) \/ OsrEnter(h) PROVE MarkInv'
    BY <1>4, <2>5 DEF OsrRequest, OsrEnter, dispatchVars
  <2>6. CASE Return \/ EnterNative \/ EnterDeopt \/ PinEpoch
    BY <1>4, <2>6 DEF Return, EnterNative, EnterDeopt, PinEpoch, RecordDeopt, TakeNative,
        dispatchVars
  <2>7. ASSUME NEW v \in WarmVersions, CalleeWarm(v) PROVE MarkInv'
    <3>1. lowerReqs' = Append(lowerReqs, [arity |-> None, ver |-> v])  BY <2>7 DEF CalleeWarm
    <3>2. \A b : Requested(b) => Requested(b)'  BY <1>1, <3>1
    <3> QED  BY <1>3, <2>7, <3>2 DEF CalleeWarm, dispatchVars
  <2> QED  BY <1>5, <2>1, <2>2, <2>3, <2>4, <2>5, <2>6, <2>7 DEF Dispatch
<1>6. CASE RebindStep(Home)
  <2> USE DEF RebindUnchanged
  <2>1. CASE Rebind(Home)
    <3>1. op'[Home].pc = "drop"  BY <2>1 DEF Rebind, CanRun, OpTyped, Stage
    <3> QED  BY <1>2, <2>1, <3>1 DEF Rebind, CanRun
  <2>2. CASE DropRegistration(Home)
    <3>1. op'[Home].pc = "drain"  BY <2>2 DEF DropRegistration, OpTyped, Stage
    <3> QED  BY <1>2, <2>2, <3>1 DEF DropRegistration
  <2>3. CASE DrainDependents(Home)
    <3>1. op'[Home].pc = "mark" /\ op'[Home].todo = dependents
      BY <2>3 DEF DrainDependents, OpTyped, Stage
    <3> QED  BY <1>2, <2>3, <3>1 DEF DrainDependents, LowerTyped
  <2>4. CASE MarkRelower(Home)
    <3>1. /\ op[Home].pc = "mark" /\ relower' = relower \cup op[Home].todo
          /\ UNCHANGED <<cache, lw, lowerReqs, lowerQ>>
      BY <2>4 DEF MarkRelower
    <3>2. /\ op'[Home].pc \in {"idle", "invalidate"} /\ op'[Home].todo = op[Home].todo
          /\ op[Home].todo # {} => op'[Home].pc = "invalidate"
      BY <2>4 DEF MarkRelower, NextInvalidation, OpTyped, IdleOp, Stage
    <3>3. op[Home].todo \cap Unlowerable = {}  BY <3>1 DEF MarkInv
    <3>4. \A b : ~Unpublishing(b)  BY <3>1 DEF Unpublishing
    <3>5. \A b \in op[Home].todo : Unpublishing(b)'  BY <3>2 DEF Unpublishing
    <3>6. \A b : (Requested(b)' <=> Requested(b)) /\ (Clearing(b)' <=> Clearing(b))
      BY <3>1 DEF Requested, Clearing
    <3>7. \A b \in relower' \cap lowerQ' : Requested(b)' \/ Clearing(b)' \/ Unpublishing(b)'
      BY <3>1, <3>4, <3>5, <3>6 DEF MarkInv
    <3> QED  BY <3>1, <3>2, <3>3, <3>7 DEF MarkInv
  <2>5. ASSUME NEW a \in Arities, InvalidateIr(Home, a) PROVE MarkInv'
    <3>1. /\ op[Home].pc = "invalidate" /\ op'[Home].pc = "unpublish"
          /\ op'[Home].todo = op[Home].todo /\ UNCHANGED <<relower, lw, lowerReqs, lowerQ>>
          /\ \A b \in Arities : cache'[b] = cache[b] \/ cache'[b] = Absent
      BY <2>5 DEF InvalidateIr, OpTyped, Stage, LowerTyped
    <3>2. \A b : Unpublishing(b) => Unpublishing(b)'  BY <3>1 DEF Unpublishing
    <3>3. \A b : Requested(b) => Requested(b)'  BY <3>1 DEF Requested
    <3>4. op[Home].todo \cap Unlowerable = {}  BY <3>1 DEF MarkInv
    <3> QED  BY <3>1, <3>2, <3>3, <3>4, MarkFrame
  <2>6. CASE StaleNativeCode(Home)
    <3> DEFINE S == op[Home].held
               T == op[Home].todo \ S
    <3>1. /\ op[Home].pc = "unpublish" /\ lowerQ' = lowerQ \ S
          /\ UNCHANGED <<cache, relower, lw, lowerReqs>>
      BY <2>6 DEF StaleNativeCode, TakeNative
    <3>2. /\ op'[Home].pc \in {"idle", "invalidate"} /\ op'[Home].todo = T
          /\ T # {} => op'[Home].pc = "invalidate"
      BY <2>6 DEF StaleNativeCode, NextInvalidation, OpTyped, IdleOp, Stage
    <3>3. \A b : Unpublishing(b) => Unpublishing(b)' \/ b \in S  BY <3>1, <3>2 DEF Unpublishing
    <3>4. \A b : (Requested(b)' <=> Requested(b)) /\ (Clearing(b)' <=> Clearing(b))
      BY <3>1 DEF Requested, Clearing
    <3>5. T \cap Unlowerable = {}  BY <3>1 DEF MarkInv
    <3>6. \A b \in relower' \cap lowerQ' : Requested(b)' \/ Clearing(b)' \/ Unpublishing(b)'
      BY <3>1, <3>3, <3>4 DEF MarkInv
    <3> QED  BY <3>1, <3>2, <3>5, <3>6 DEF MarkInv
  <2> QED  BY <1>6, <2>1, <2>2, <2>3, <2>4, <2>5, <2>6 DEF RebindStep
<1>7. CASE Collection(Home)
  <2> USE DEF CollectUnchanged
  <2>1. CASE ScanFrames(Home)
    <3>1. op'[Home].pc = "free"  BY <2>1 DEF ScanFrames, CanRun, OpTyped, Stage
    <3> QED  BY <1>2, <2>1, <3>1 DEF ScanFrames, CanRun
  <2>2. CASE FreeModules(Home)
    <3>1. op'[Home].pc = "sweep"  BY <2>2 DEF FreeModules, OpTyped, Stage
    <3> QED  BY <1>2, <2>2, <3>1 DEF FreeModules
  <2>3. CASE SweepIdle(Home)
    <3>1. /\ op[Home].pc = "sweep" /\ op'[Home].pc = "evict"
          /\ UNCHANGED <<relower, lw, lowerReqs, lowerQ>>
          /\ \A b \in Arities : cache'[b] = cache[b] \/ cache'[b] = Absent
      BY <2>3 DEF SweepIdle, OpTyped, Stage
    <3>2. \A b : Unpublishing(b) => Unpublishing(b)'  BY <3>1 DEF Unpublishing
    <3>3. \A b : Requested(b) => Requested(b)'  BY <3>1 DEF Requested
    <3> QED  BY <3>1, <3>2, <3>3, MarkFrame
  <2>4. CASE EvictEntries(Home)
    <3>1. op'[Home].pc = "idle"  BY <2>4 DEF EvictEntries, OpTyped, IdleOp, Stage
    <3> QED  BY <1>2, <2>4, <3>1 DEF EvictEntries, TakeNative
  <2> QED  BY <1>7, <2>1, <2>2, <2>3, <2>4 DEF Collection
<1>8. CASE LowerWorker
  <2>0. UNCHANGED op /\ \A a : Unpublishing(a)' <=> Unpublishing(a)
    <3>1. UNCHANGED op
      BY <1>8 DEF LowerWorker, LwTake, LwClear, LwSnapshot, LwUnsupported, LwPanics, LwStore, LwPeek,
          LwRegister, LwUnchanged
    <3> QED  BY <3>1 DEF Unpublishing
  <2>1. CASE LwTake
    <3>1. /\ lw.pc = "idle" /\ lowerReqs # <<>> /\ lowerReqs' = Tail(lowerReqs)
          /\ UNCHANGED <<cache, relower, lowerQ>>
      BY <2>1 DEF LwTake
    <3>2. /\ Head(lowerReqs) = lowerReqs[1]
          /\ \A k \in DOMAIN lowerReqs : k = 1 \/ (k - 1 \in DOMAIN lowerReqs' /\ lowerReqs'[k - 1] = lowerReqs[k])
      <4>1. lowerReqs \in Seq([arity : Arities \cup {None}, ver : Nat])  BY <1>0 DEF LowerTyped
      <4> QED  BY <3>1, <4>1, RestOfQueue
    <3>3. \A b \in Arities \cap relower : Head(lowerReqs).arity = b => Clearing(b)'
      BY <2>1 DEF LwTake, Clearing, IdleLw
    <3>4. \A b : Requested(b) => Requested(b)' \/ Head(lowerReqs).arity = b
      BY <3>2 DEF Requested
    <3>5. \A b : ~Clearing(b)  BY <3>1 DEF Clearing
    <3>6. \A b \in Arities \cap relower : Requested(b) \/ Clearing(b) => Requested(b)' \/ Clearing(b)'
      BY <3>3, <3>4, <3>5
    <3> QED  BY <2>0, <3>1, <3>6 DEF MarkInv, LowerTyped
  <2>2. CASE LwClear
    <3>1. /\ relower' = relower \ {lw.arity} /\ UNCHANGED <<lowerQ, lowerReqs>>
          /\ \A b \in Arities : cache'[b] = cache[b] \/ cache'[b] = Absent
      BY <2>2 DEF LwClear, LowerTyped
    <3>2. \A b \in relower' : ~Clearing(b)  BY <3>1 DEF Clearing
    <3>3. \A b : Requested(b)' <=> Requested(b)  BY <3>1 DEF Requested
    <3>4. Absent # Unsupported  BY DEF Absent, Unsupported
    <3> QED  BY <2>0, <3>1, <3>2, <3>3, <3>4 DEF MarkInv
  <2>3. CASE LwSnapshot \/ LwPanics \/ LwRegister
    <3>1. lw.pc # "clear" /\ UNCHANGED <<cache, relower, lowerQ, lowerReqs>>
      BY <2>3 DEF LwSnapshot, LwPanics, LwRegister
    <3>2. \A b : ~Clearing(b) /\ (Requested(b)' <=> Requested(b))  BY <3>1 DEF Clearing, Requested
    <3> QED  BY <2>0, <3>1, <3>2 DEF MarkInv
  <2>4. CASE LwUnsupported \/ LwStore
    <3>1. lw.pc # "clear" /\ UNCHANGED <<relower, lowerQ, lowerReqs>> /\ lw.arity \in Arities
      BY <2>4 DEF LwUnsupported, LwStore, LowerTyped, LwBusy
    <3>2. \A b : ~Clearing(b) /\ (Requested(b)' <=> Requested(b))  BY <3>1 DEF Clearing, Requested
    <3>3. \A b \in Arities : cache'[b] = Unsupported => b \in Unlowerable
      <4>1. CASE LwUnsupported
        BY <3>1, <4>1 DEF LwUnsupported, MarkInv, LowerTyped
      <4>2. CASE LwStore
        <5>1. NewIr(lw.inl) # Unsupported  BY DEF NewIr, Unsupported
        <5> QED  BY <3>1, <4>2, <5>1 DEF LwStore, MarkInv, LowerTyped
      <4> QED  BY <2>4, <4>1, <4>2
    <3> QED  BY <2>0, <3>1, <3>2, <3>3 DEF MarkInv
  <2>5. CASE LwPeek
    <3>1. lw.pc = "peek" /\ UNCHANGED <<relower, lowerReqs>> /\ lw.arity \in Arities
      BY <2>5 DEF LwPeek, LowerTyped, LwBusy
    <3>2. \A b \in Arities : cache'[b] = cache[b] \/ cache'[b] = Absent
      BY <2>5, <3>1 DEF LwPeek, LowerTyped
    <3>3. \A b : ~Clearing(b) /\ (Requested(b)' <=> Requested(b))  BY <3>1 DEF Clearing, Requested
    <3>4. lowerQ' \subseteq lowerQ  BY <2>5 DEF LwPeek
    <3>5. Absent # Unsupported  BY DEF Absent, Unsupported
    <3> QED  BY <2>0, <3>1, <3>2, <3>3, <3>4, <3>5 DEF MarkInv
  <2> QED  BY <1>8, <2>1, <2>2, <2>3, <2>4, <2>5 DEF LowerWorker
<1>9. CASE JitWorker
  BY <1>4, <1>9 DEF JitWorker, JwCompile, JwDecline, JwGuard, JwStoreNative, JwStoreOsr,
      JwUnchanged
<1>10. CASE UNCHANGED vars  BY <1>4, <1>10 DEF vars, dispatchVars
<1> QED  BY <1>5, <1>6, <1>7, <1>8, <1>9, <1>10 DEF Next

-----------------------------------------------------------------------------
(* Published code was not handed to reclamation *)

\* Nothing is published at first.
LEMMA PublishInit == ASSUME Init PROVE PublishInv
BY DEF Init, PublishInv, IdleJw, Loops

\* The arities S lose their code, and exactly their epochs become stale.
LEMMA PublishTake ==
    ASSUME ModuleTyped, PublishInv, UNCHANGED <<code, jw>>, NEW S \in SUBSET Arities,
           TakeNative(S), TakeOsr(S), MarkStale(NativeEpochs(S) \cup OsrEpochs(S))
    PROVE  PublishInv'
<1> USE DEF PublishInv, ModuleTyped, Loops
<1>0. \A l \in Loops : l[1] \in Arities /\ l[2] \in Headers /\ l = <<l[1], l[2]>>  OBVIOUS
<1>1. \A e \in live : e \notin NativeEpochs(S) \cup OsrEpochs(S) => e \in live'
  BY DEF MarkStale
<1>2. \A e \in NativeEpochs(S) \cup OsrEpochs(S) : e # 0 /\ code[e].arity \in S
  BY <1>0 DEF NativeEpochs, OsrEpochs
<1>3. ASSUME NEW a \in Arities, native'[a] # 0
      PROVE native'[a] \in live' /\ code[native'[a]].arity = a /\ native'[a] = native[a]
  BY <1>1, <1>2, <1>3 DEF TakeNative
<1>4. ASSUME NEW l \in Loops, osrEpoch'[l] # 0
      PROVE /\ osrEpoch'[l] \in live' /\ code[osrEpoch'[l]].arity = l[1]
            /\ osrEpoch'[l] # native'[l[1]] /\ osrEpoch'[l] = osrEpoch[l]
  BY <1>0, <1>1, <1>2, <1>4 DEF TakeOsr, TakeNative
<1>5. jw.epoch # 0 => jw.epoch \in live'
  BY <1>0, <1>1 DEF NativeEpochs, OsrEpochs
<1> QED  BY <1>3, <1>4, <1>5

\* Unpublishing never leaves a pointer to a module that may be released.
LEMMA PublishStep ==
    ASSUME ModuleTyped, OpTyped, PublishInv, [Next]_vars
    PROVE  PublishInv'
<1> USE TieringAssumption
<1>1. ASSUME UNCHANGED <<native, osrEpoch, jw, live, code>> PROVE PublishInv'
  BY <1>1 DEF PublishInv
<1>2. CASE Dispatch
  <2> USE DEF dispatchVars, moduleVars, osrVars
  <2>1. ASSUME NEW a \in Arities,
               RequestLower(a) \/ PinUnsupported(a) \/ Tier1Call(a) \/ NativeCall(a)
        PROVE PublishInv'
    BY <1>1, <2>1 DEF RequestLower, PinUnsupported, Tier1Call, NativeCall
  <2>2. ASSUME NEW a \in Arities, Redefine(a) PROVE PublishInv'
    BY <2>2, PublishTake DEF Redefine
  <2>3. ASSUME NEW h \in Headers, OsrRequest(h) \/ OsrEnter(h) PROVE PublishInv'
    BY <1>1, <2>3 DEF OsrRequest, OsrEnter
  <2>4. CASE MarkLowerQueued \/ Return \/ EnterNative \/ PinEpoch
    BY <1>1, <2>4 DEF MarkLowerQueued, Return, EnterNative, PinEpoch
  <2>5. CASE EnterDeopt
    <3> DEFINE a == code[fetched].arity
    <3>1. a \in Arities /\ UNCHANGED <<osrEpoch, jw, code>>
      BY <2>5 DEF EnterDeopt, ModuleTyped
    <3>2. CASE UNCHANGED <<dispatchVars, live, stale>>  BY <1>1, <3>1, <3>2
    <3>3. CASE TakeNative({a}) /\ MarkStale(NativeEpochs({a}))
      <4>0. \A l \in Loops : l[1] \in Arities  BY DEF Loops
      <4>1. \A b \in Arities : native'[b] = IF b = a THEN 0 ELSE native[b]
        BY <3>3 DEF TakeNative
      <4>2. live' = live \ ({native[a]} \ {0})  BY <3>3 DEF MarkStale, NativeEpochs
      <4>3. \A b \in Arities : native'[b] # 0 => native'[b] \in live' /\ code[native'[b]].arity = b
        BY <3>1, <4>1, <4>2 DEF PublishInv
      <4>4. \A l \in Loops : osrEpoch[l] # 0 =>
               osrEpoch[l] \in live' /\ osrEpoch[l] # native'[l[1]]
        BY <3>1, <4>0, <4>1, <4>2 DEF PublishInv
      <4>5. jw.epoch # 0 => jw.epoch \in live' /\ \A b \in Arities : native'[b] # jw.epoch
        BY <3>1, <4>1, <4>2 DEF PublishInv
      <4> QED  BY <3>1, <4>3, <4>4, <4>5 DEF PublishInv
    <3> QED  BY <2>5, <3>2, <3>3 DEF EnterDeopt, RecordDeopt
  <2>6. ASSUME NEW v \in WarmVersions, CalleeWarm(v) PROVE PublishInv'
    BY <1>1, <2>6 DEF CalleeWarm
  <2> QED  BY <1>2, <2>1, <2>2, <2>3, <2>4, <2>5, <2>6 DEF Dispatch
<1>3. ASSUME NEW i \in Isolates, RebindStep(i) PROVE PublishInv'
  <2>1. CASE StaleNativeCode(i)
    <3>1. op[i].held \in SUBSET Arities  BY <2>1 DEF StaleNativeCode, OpTyped
    <3> QED  BY <2>1, <3>1, PublishTake DEF StaleNativeCode, RebindUnchanged
  <2>2. CASE ~StaleNativeCode(i)
    BY <1>1, <1>3, <2>2 DEF RebindStep, Rebind, DropRegistration, DrainDependents, MarkRelower,
        InvalidateIr, RebindUnchanged, osrVars
  <2> QED  BY <2>1, <2>2
<1>4. ASSUME NEW i \in Isolates, Collection(i) PROVE PublishInv'
  <2> USE DEF CollectUnchanged, osrVars
  <2>1. CASE ScanFrames(i) \/ FreeModules(i) \/ SweepIdle(i)
    BY <1>1, <2>1 DEF ScanFrames, FreeModules, SweepIdle
  <2>2. CASE EvictEntries(i)
    <3> DEFINE S == op[i].todo
    <3>0. \A l \in Loops : l[1] \in Arities /\ l[2] \in Headers /\ l = <<l[1], l[2]>>  BY DEF Loops
    <3>1. S \subseteq Arities  BY DEF OpTyped
    <3>2. \A a \in Arities : native'[a] \in {0, native[a]}
      BY <2>2 DEF EvictEntries, TakeNative
    <3>3. \A l \in Loops : osrEpoch'[l] = IF l[1] \in S THEN 0 ELSE osrEpoch[l]
      BY <2>2 DEF EvictEntries, TakeOsr, Loops
    <3>4. live' = live \ OsrEpochs(S)  BY <2>2 DEF EvictEntries, MarkStale
    <3>5. \A e \in OsrEpochs(S) : e # 0 /\ code[e].arity \in S /\ e # native[code[e].arity] /\ e # jw.epoch
      BY <3>0, <3>1 DEF OsrEpochs, PublishInv, Loops
    <3> HIDE DEF S
    <3>6. UNCHANGED <<jw, code>>  BY <2>2 DEF EvictEntries
    <3>7. \A a \in Arities : native'[a] # 0 => native'[a] \in live' /\ code[native'[a]].arity = a
      BY <3>2, <3>4, <3>5 DEF PublishInv
    <3>8. \A l \in Loops : osrEpoch'[l] # 0 =>
               osrEpoch'[l] \in live' /\ osrEpoch'[l] # native'[l[1]] /\ osrEpoch'[l] = osrEpoch[l]
      BY <3>0, <3>2, <3>3, <3>4, <3>5 DEF PublishInv
    <3>9. jw.epoch # 0 => jw.epoch \in live' /\ \A a \in Arities : native'[a] # jw.epoch
      BY <3>2, <3>4, <3>5 DEF PublishInv
    <3> QED  BY <3>3, <3>6, <3>7, <3>8, <3>9 DEF PublishInv
  <2> QED  BY <1>4, <2>1, <2>2 DEF Collection
<1>5. CASE LowerWorker
  BY <1>1, <1>5 DEF LowerWorker, LwTake, LwClear, LwSnapshot, LwUnsupported, LwPanics, LwStore,
      LwPeek, LwRegister, LwUnchanged, moduleVars, osrVars
<1>6. CASE JitWorker
  <2> USE DEF osrVars
  <2>1. CASE JwCompile
    <3> DEFINE r == Head(jitReqs)
               e == Len(code) + 1
    <3>1. PICK b \in BOOLEAN :
              code' = Append(code, [arity |-> r.arity, inl |-> r.ir.inl, spec |-> b])
      BY <2>1 DEF JwCompile
    <3>2. /\ \A k \in DOMAIN code : code'[k] = code[k]
          /\ code'[e].arity = r.arity /\ e \notin DOMAIN code /\ e # 0
      BY <3>1, AppendIsSeq DEF ModuleTyped
    <3>3. /\ jw'.req = r /\ jw'.epoch = e /\ live' = live \cup {e} /\ UNCHANGED <<native, osrEpoch>>
      BY <2>1 DEF JwCompile
    <3> HIDE DEF r, e
    <3>4. \A a \in Arities : native[a] # e /\ (native[a] # 0 => native[a] \in DOMAIN code)
      BY <3>2 DEF ModuleTyped
    <3>5. \A l \in Loops : osrEpoch[l] # e /\ (osrEpoch[l] # 0 => osrEpoch[l] \in DOMAIN code)
      BY <3>2 DEF ModuleTyped
    <3> QED  BY <3>2, <3>3, <3>4, <3>5 DEF PublishInv
  <2>2. CASE JwDecline
    <3>1. UNCHANGED <<native, jw, code, live>> /\ \A l \in Loops : osrEpoch'[l] \in {0, osrEpoch[l]}
      BY <2>2 DEF JwDecline, ModuleTyped
    <3> QED  BY <3>1 DEF PublishInv
  <2>3. CASE JwGuard
    <3>1. UNCHANGED <<native, osrEpoch, code>>  BY <2>3 DEF JwGuard
    <3>2. CASE live' = live /\ jw'.epoch = jw.epoch /\ jw'.req = jw.req
      BY <3>1, <3>2 DEF PublishInv
    <3>3. CASE live' = live \ {jw.epoch} /\ jw'.epoch = 0
      <4>1. jw.epoch # 0  BY <2>3 DEF JwGuard, ModuleTyped
      <4> QED  BY <3>1, <3>3, <4>1 DEF PublishInv
    <3> QED  BY <2>3, <3>2, <3>3 DEF JwGuard, MarkStale, IdleJw, ModuleTyped
  <2>4. CASE JwStoreNative
    <3>1. /\ jw.epoch # 0 /\ jw.req.arity \in Arities /\ UNCHANGED <<osrEpoch, code, live>>
          /\ jw'.epoch = 0
      BY <2>4 DEF JwStoreNative, ModuleTyped, IdleJw
    <3>2. \A a \in Arities : native'[a] = IF a = jw.req.arity THEN jw.epoch ELSE native[a]
      BY <2>4 DEF JwStoreNative, ModuleTyped
    <3>3. \A l \in Loops : l[1] \in Arities  BY DEF Loops
    <3> QED  BY <3>1, <3>2, <3>3 DEF PublishInv
  <2>5. CASE JwStoreOsr
    <3> DEFINE m == <<jw.req.arity, jw.req.header>>
    <3>1. /\ jw.epoch # 0 /\ m \in Loops /\ m[1] = jw.req.arity /\ UNCHANGED <<native, code, live>>
          /\ jw'.epoch = 0
      BY <2>5 DEF JwStoreOsr, ModuleTyped, IdleJw, Loops
    <3>2. \A l \in Loops : osrEpoch'[l] = IF l = m THEN jw.epoch ELSE osrEpoch[l]
      BY <2>5 DEF JwStoreOsr, ModuleTyped
    <3>3. \A l \in Loops : l[1] \in Arities  BY DEF Loops
    <3> HIDE DEF m
    <3> QED  BY <3>1, <3>2, <3>3 DEF PublishInv
  <2> QED  BY <1>6, <2>1, <2>2, <2>3, <2>4, <2>5 DEF JitWorker
<1>7. CASE UNCHANGED vars  BY <1>1, <1>7 DEF vars, moduleVars, osrVars, dispatchVars
<1> QED  BY <1>2, <1>3, <1>4, <1>5, <1>6, <1>7 DEF Next

-----------------------------------------------------------------------------
(* Released memory is never reached *)

\* A pushed frame adds at most its own epoch to the epochs in use.
LEMMA FramesPush ==
    ASSUME IsSeq(stack), NEW f, stack' = Append(stack, f)
    PROVE  LiveFrames' \subseteq LiveFrames \cup ({f.epoch} \ {0})
BY AppendIsSeq DEF LiveFrames

\* Popping a frame shows no new epoch.
LEMMA FramesPop ==
    ASSUME IsSeq(stack), stack # <<>>, stack' = SubSeq(stack, 1, Len(stack) - 1)
    PROVE  LiveFrames' \subseteq LiveFrames
BY ButLastIsSeq DEF LiveFrames

\* Home has no frames at first.
LEMMA HomeInit == ASSUME Init PROVE HomeInv
<1>1. op[Home].pc = "idle"  BY TieringAssumption DEF Init, IdleOp, Stage
<1>2. stack = <<>> /\ fetched = 0 /\ pinned = {}  BY DEF Init
<1>3. DOMAIN stack = {}  BY <1>2
<1>4. LiveFrames = {}  BY <1>3 DEF LiveFrames
<1> QED  BY <1>1, <1>2, <1>4 DEF HomeInv

\* A module moves from live to stale, and no other way.
LEMMA MarkStaleKeeps ==
    ASSUME NEW E, MarkStale(E)
    PROVE  live' \cup stale' = live \cup stale
BY DEF MarkStale

\* A collection by the only isolate releases nothing that Home holds.
LEMMA HomeStep ==
    ASSUME Isolates = {Home}, ModuleTyped, OpTyped, PublishInv, HomeInv, [Next]_vars
    PROVE  HomeInv'
<1> USE TieringAssumption
<1> DEFINE Known == live \cup stale
<1>1. ASSUME UNCHANGED <<stack, fetched, pinned, op>>, Known \subseteq live' \cup stale'
      PROVE HomeInv'
  BY <1>1 DEF HomeInv, LiveFrames
<1>2. ASSUME UNCHANGED <<stack, fetched, pinned>>, Known \subseteq live' \cup stale',
             op'[Home].pc # "free", op[Home].pc # "idle" \/ CanRun(Home)
      PROVE HomeInv'
  BY <1>2 DEF HomeInv, LiveFrames, CanRun
<1>3. ASSUME UNCHANGED op, op[Home].pc = "idle",
             LiveFrames' \cup pinned' \cup ({fetched'} \ {0}) \subseteq live' \cup stale'
      PROVE HomeInv'
  BY <1>3 DEF HomeInv
<1>4. CASE Dispatch
  <2> USE DEF homeVars, moduleVars
  <2>1. ASSUME NEW a \in Arities, RequestLower(a) PROVE HomeInv'
    <3>1. op'[Home].pc = "asking"  BY <2>1 DEF RequestLower, OpTyped, Stage
    <3> QED  BY <1>2, <2>1, <3>1 DEF RequestLower
  <2>2. CASE MarkLowerQueued
    <3>1. op'[Home].pc = "idle"  BY <2>2 DEF MarkLowerQueued, OpTyped, IdleOp, Stage
    <3> QED  BY <1>2, <2>2, <3>1 DEF MarkLowerQueued
  <2>3. ASSUME NEW a \in Arities, PinUnsupported(a) PROVE HomeInv'
    BY <1>1, <2>3 DEF PinUnsupported
  <2>4. ASSUME NEW a \in Arities, Redefine(a) PROVE HomeInv'
    <3>1. live' \cup stale' = Known  BY <2>4, MarkStaleKeeps DEF Redefine
    <3> QED  BY <1>1, <2>4, <3>1 DEF Redefine
  <2>5. ASSUME NEW a \in Arities, Tier1Call(a) PROVE HomeInv'
    <3>1. LiveFrames' \subseteq LiveFrames \cup ({IrFrame(a, cache[a]).epoch} \ {0})
      BY <2>5, FramesPush DEF Tier1Call, ModuleTyped
    <3>2. IrFrame(a, cache[a]).epoch = 0  BY DEF IrFrame
    <3> QED  BY <1>3, <2>5, <3>1, <3>2 DEF Tier1Call, CanRun, HomeInv
  <2>6. ASSUME NEW a \in Arities, NativeCall(a) PROVE HomeInv'
    <3>1. LiveFrames' = LiveFrames  BY <2>6 DEF NativeCall, LiveFrames
    <3>2. fetched' \in live  BY <2>6 DEF NativeCall, PublishInv
    <3> QED  BY <1>3, <2>6, <3>1, <3>2 DEF NativeCall, CanRun, HomeInv
  <2>7. ASSUME NEW h \in Headers, OsrRequest(h) PROVE HomeInv'
    BY <1>1, <2>7 DEF OsrRequest
  <2>8. ASSUME NEW h \in Headers, OsrEnter(h) PROVE HomeInv'
    <3>0. IsSeq(stack) /\ stack # <<>>  BY <2>8 DEF OsrEnter, IrOnTop, ModuleTyped
    <3>1. LiveFrames' \subseteq LiveFrames  BY <2>8, <3>0, FramesPop DEF OsrEnter
    <3>2. Top.arity \in Arities  BY <3>0, ButLastIsSeq DEF Top, ModuleTyped
    <3>3. {fetched'} \ {0} \subseteq live  BY <2>8, <3>2 DEF OsrEnter, PublishInv, Loops
    <3> QED  BY <1>3, <2>8, <3>1, <3>3 DEF OsrEnter, CanRun, HomeInv
  <2>9. CASE Return
    <3>1. LiveFrames' \subseteq LiveFrames  BY <2>9, FramesPop DEF Return, ModuleTyped
    <3> QED  BY <1>3, <2>9, <3>1 DEF Return, CanRun, HomeInv
  <2>10. CASE EnterNative
    <3>1. LiveFrames' \subseteq LiveFrames \cup ({NativeFrame(fetched).epoch} \ {0})
      BY <2>10, FramesPush DEF EnterNative, ModuleTyped
    <3>2. NativeFrame(fetched).epoch = fetched  BY DEF NativeFrame
    <3>3. op[Home].pc = "idle"  BY <2>10 DEF EnterNative, HomeInv
    <3> QED  BY <1>3, <2>10, <3>1, <3>2, <3>3 DEF EnterNative, HomeInv
  <2>11. CASE EnterDeopt
    <3> DEFINE a == code[fetched].arity
               s == Append(stack, NativeFrame(fetched))
               f == IrFrame(a, cache[a])
               EpochsOf(t) == {t[k].epoch : k \in DOMAIN t} \ {0}
    <3>1. fetched # 0 /\ fetched' = 0 /\ UNCHANGED <<op, pinned>>  BY <2>11 DEF EnterDeopt
    <3>2. op[Home].pc = "idle"  BY <3>1 DEF HomeInv
    <3>3. IsSeq(s) /\ EpochsOf(s) \subseteq LiveFrames \cup {fetched}
      <4>1. NativeFrame(fetched).epoch = fetched  BY DEF NativeFrame
      <4> QED  BY <4>1, AppendIsSeq DEF LiveFrames, ModuleTyped
    <3>4. stack' = s \o <<f>> \/ stack' = s \o <<>>  BY <2>11 DEF EnterDeopt
    <3>5. f.epoch = 0  BY DEF IrFrame
    <3>6. live' \cup stale' = Known
      BY <2>11, MarkStaleKeeps DEF EnterDeopt, RecordDeopt
    <3>7. LiveFrames' = EpochsOf(stack')  BY DEF LiveFrames
    <3> HIDE DEF s, f
    <3>8. stack' = Append(s, f) \/ stack' = s  BY <3>3, <3>4, ConcatOne
    <3>9. EpochsOf(stack') \subseteq EpochsOf(s)  BY <3>3, <3>5, <3>8, AppendIsSeq
    <3> QED  BY <1>3, <3>1, <3>2, <3>3, <3>6, <3>7, <3>9 DEF HomeInv
  <2>12. CASE PinEpoch
    <3>1. /\ pinned' = pinned \cup {Top.epoch} /\ UNCHANGED <<stack, fetched, live, stale, op>>
          /\ stack # <<>> /\ Top.epoch # 0 /\ op[Home].pc = "idle"
      BY <2>12 DEF PinEpoch, NativeOnTop, CanRun
    <3>2. Top.epoch \in LiveFrames
      BY <3>1, ButLastIsSeq DEF Top, LiveFrames, ModuleTyped
    <3>3. LiveFrames' = LiveFrames  BY <3>1 DEF LiveFrames
    <3> QED  BY <1>3, <3>1, <3>2, <3>3 DEF HomeInv
  <2>13. ASSUME NEW v \in WarmVersions, CalleeWarm(v) PROVE HomeInv'
    BY <1>1, <2>13 DEF CalleeWarm
  <2> QED  BY <1>4, <2>1, <2>2, <2>3, <2>4, <2>5, <2>6, <2>7, <2>8, <2>9, <2>10, <2>11, <2>12,
              <2>13 DEF Dispatch
<1>5. CASE RebindStep(Home)
  <2> USE DEF RebindUnchanged, homeVars
  <2>1. CASE Rebind(Home)
    <3>1. op'[Home].pc = "drop"  BY <2>1 DEF Rebind, OpTyped, Stage
    <3> QED  BY <1>2, <2>1, <3>1 DEF Rebind
  <2>2. CASE DropRegistration(Home)
    <3>1. op'[Home].pc = "drain"  BY <2>2 DEF DropRegistration, OpTyped, Stage
    <3> QED  BY <1>2, <2>2, <3>1 DEF DropRegistration
  <2>3. CASE DrainDependents(Home)
    <3>1. op'[Home].pc = "mark"  BY <2>3 DEF DrainDependents, OpTyped, Stage
    <3> QED  BY <1>2, <2>3, <3>1 DEF DrainDependents
  <2>4. CASE MarkRelower(Home)
    <3>1. op'[Home].pc # "free"
      BY <2>4 DEF MarkRelower, NextInvalidation, OpTyped, IdleOp, Stage
    <3> QED  BY <1>2, <2>4, <3>1 DEF MarkRelower
  <2>5. ASSUME NEW a \in Arities, InvalidateIr(Home, a) PROVE HomeInv'
    <3>1. op'[Home].pc = "unpublish"  BY <2>5 DEF InvalidateIr, OpTyped, Stage
    <3> QED  BY <1>2, <2>5, <3>1 DEF InvalidateIr
  <2>6. CASE StaleNativeCode(Home)
    <3>1. op'[Home].pc # "free"
      BY <2>6 DEF StaleNativeCode, NextInvalidation, OpTyped, IdleOp, Stage
    <3>2. live' \cup stale' = Known  BY <2>6, MarkStaleKeeps DEF StaleNativeCode
    <3> QED  BY <1>2, <2>6, <3>1, <3>2 DEF StaleNativeCode
  <2> QED  BY <1>5, <2>1, <2>2, <2>3, <2>4, <2>5, <2>6 DEF RebindStep
<1>6. CASE Collection(Home)
  <2> USE DEF CollectUnchanged, homeVars
  <2>1. CASE ScanFrames(Home)
    <3>1. /\ op'[Home].pc = "free" /\ op'[Home].held = LiveFrames /\ fetched = 0
          /\ UNCHANGED <<stack, fetched, pinned, live, stale>>
      BY <2>1 DEF ScanFrames, OpTyped, Stage, CanRun
    <3> QED  BY <3>1 DEF HomeInv, LiveFrames
  <2>2. CASE FreeModules(Home)
    <3>1. /\ op[Home].pc = "free" /\ op'[Home].pc = "sweep"
          /\ UNCHANGED <<stack, fetched, pinned, live>>
          /\ stale' = stale \ (stale \ (op[Home].held \cup pinned))
      BY <2>2 DEF FreeModules, OpTyped, Stage, SelectReclaimable
    <3>2. LiveFrames' = LiveFrames  BY <3>1 DEF LiveFrames
    <3>3. fetched = 0 /\ op[Home].held = LiveFrames  BY <3>1 DEF HomeInv
    <3> QED  BY <3>1, <3>2, <3>3 DEF HomeInv
  <2>3. CASE SweepIdle(Home)
    <3>1. op'[Home].pc = "evict"  BY <2>3 DEF SweepIdle, OpTyped, Stage
    <3> QED  BY <1>2, <2>3, <3>1 DEF SweepIdle
  <2>4. CASE EvictEntries(Home)
    <3>1. op'[Home].pc = "idle"  BY <2>4 DEF EvictEntries, OpTyped, IdleOp, Stage
    <3>2. live' \cup stale' = Known  BY <2>4, MarkStaleKeeps DEF EvictEntries
    <3> QED  BY <1>2, <2>4, <3>1, <3>2 DEF EvictEntries
  <2> QED  BY <1>6, <2>1, <2>2, <2>3, <2>4 DEF Collection
<1>7. CASE LowerWorker
  BY <1>1, <1>7 DEF LowerWorker, LwTake, LwClear, LwSnapshot, LwUnsupported, LwPanics, LwStore,
      LwPeek, LwRegister, LwUnchanged, moduleVars, homeVars
<1>8. CASE JitWorker
  <2>1. UNCHANGED <<stack, fetched, pinned, op>>
    BY <1>8 DEF JitWorker, JwCompile, JwDecline, JwGuard, JwStoreNative, JwStoreOsr, JwUnchanged,
        homeVars
  <2>2. Known \subseteq live' \cup stale'
    BY <1>8, MarkStaleKeeps DEF JitWorker, JwCompile, JwDecline, JwGuard, JwStoreNative, JwStoreOsr
  <2> QED  BY <1>1, <2>1, <2>2
<1>9. CASE UNCHANGED vars  BY <1>1, <1>9 DEF vars, moduleVars, homeVars
<1> QED  BY <1>4, <1>5, <1>6, <1>7, <1>8, <1>9 DEF Next

-----------------------------------------------------------------------------
(* Theorems *)

\* For any number of isolates, arities and loops: whatever the order in which
\* rebinds, collections and the two workers run, IR with the body of the callee
\* in it is always within reach of the next rebind.
THEOREM EdgesCover == Spec => []EdgeCovers
<1> DEFINE IInv == ModuleTyped /\ OpTyped /\ LowerTyped /\ EdgeInv
<1>1. Init => IInv  BY ModuleInit, TypedInit, EdgeInit
<1>2. IInv /\ [Next]_vars => IInv'  BY ModuleStep, TypedStep, EdgeStep
<1>3. IInv => EdgeCovers
  BY DEF OpTyped, EdgeInv, EdgeCovers, Doomed, Caught
<1> QED  BY <1>1, <1>2, <1>3, PTL DEF Spec

\* For any number of isolates, arities, versions and rebinds: once the workers have
\* caught up, the IR cache holds no dead definition of the callee but one whose
\* registration came after the last rebind had dropped it; the next rebind drops
\* that one too.
THEOREM CacheIsCurrent == Spec => []NoStaleIr
<1> DEFINE IInv == ModuleTyped /\ OpTyped /\ LowerTyped /\ EdgeInv /\ StaleInv
<1>1. Init => IInv  BY ModuleInit, TypedInit, EdgeInit, StaleInit
<1>2. IInv /\ [Next]_vars => IInv'  BY ModuleStep, TypedStep, EdgeStep, StaleStep
<1>3. IInv => NoStaleIr
  BY TieringAssumption DEF StaleInv, NoStaleIr, Quiet, Doomed, Caught, Rebinding, Dead
<1> QED  BY <1>1, <1>2, <1>3, PTL DEF Spec

\* For any number of isolates: a pointer to native code in a table, or about to be
\* put there, never leads to a module that was handed to reclamation.
THEOREM PublishedCodeIsLive == Spec => []PublishedIsLive
<1> DEFINE IInv == ModuleTyped /\ OpTyped /\ LowerTyped /\ PublishInv
<1>1. Init => IInv  BY ModuleInit, TypedInit, PublishInit
<1>2. IInv /\ [Next]_vars => IInv'  BY ModuleStep, TypedStep, PublishStep
<1>3. IInv => PublishedIsLive
  BY DEF PublishInv, PublishedIsLive, NativeEpochs, OsrEpochs, Loops
<1> QED  BY <1>1, <1>2, <1>3, PTL DEF Spec

\* In a process with one isolate no released memory is reached: not by a frame, by
\* code looked up and not entered, by a closure or by a table.  (A second
\* isolate's collection does not see the first one's frames.)
THEOREM FreedCodeIsUnreachable ==
    ASSUME Isolates = {Home}
    PROVE  Spec => []NoFreedCode
<1> DEFINE IInv == ModuleTyped /\ OpTyped /\ LowerTyped /\ PublishInv /\ HomeInv
<1>1. Init => IInv  BY ModuleInit, TypedInit, PublishInit, HomeInit
<1>2. IInv /\ [Next]_vars => IInv'  BY ModuleStep, TypedStep, PublishStep, HomeStep
<1>3. IInv => NoFreedCode
  <2> SUFFICES ASSUME IInv PROVE NoFreedCode  OBVIOUS
  <2>1. 0 \notin freed
    <3>1. freed \subseteq DOMAIN code  BY DEF ModuleTyped
    <3>2. 0 \notin DOMAIN code  BY SeqIsSeq DEF ModuleTyped, IsSeq
    <3> QED  BY <3>1, <3>2
  <2>2. NativeEpochs(Arities) \cup OsrEpochs(Arities) \subseteq live
    BY DEF PublishInv, NativeEpochs, OsrEpochs, Loops
  <2>3. LiveFrames \cup pinned \cup ({fetched} \ {0}) \subseteq live \cup stale  BY DEF HomeInv
  <2>4. (live \cup stale) \cap freed = {}  BY DEF ModuleTyped
  <2> QED  BY <2>1, <2>2, <2>3, <2>4 DEF NoFreedCode
<1> QED  BY <1>1, <1>2, <1>3, PTL DEF Spec

\* In a process with one isolate an arity that was marked for lowering again is not
\* kept from asking by its own flag, whatever panics and lost requests there were.
THEOREM MarksAreActionable ==
    ASSUME Isolates = {Home}
    PROVE  Spec => []MarkIsActionable
<1> DEFINE IInv == ModuleTyped /\ OpTyped /\ LowerTyped /\ MarkInv
<1>1. Init => IInv  BY ModuleInit, TypedInit, MarkInit
<1>2. IInv /\ [Next]_vars => IInv'  BY ModuleStep, TypedStep, MarkStep
<1>3. IInv => MarkIsActionable
  BY DEF MarkInv, MarkIsActionable, Quiet, Requested, Clearing, Unpublishing, LowerTyped
<1> QED  BY <1>1, <1>2, <1>3, PTL DEF Spec
=============================================================================
