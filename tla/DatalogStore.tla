--------------------------- MODULE DatalogStore ---------------------------
(***************************************************************************)
(* The durable datalog store: Store (cljrs-datalog-store, lib.rs) over LMDB *)
(* (cljrs-lmdb), with the value conversion of its Clojure face              *)
(* (cljrsh-host, dstore.rs).                                                *)
(*                                                                          *)
(* A datom is kept in up to three indexes under the attribute's number (aid) *)
(* and the value's encoding; a value too large for a key is kept once in     *)
(* giants and named by its number.  Two in-memory tables translate names and *)
(* aids.  They are filled when the store is opened and by intern_attr, in    *)
(* the middle of a transaction, and are not restored when it fails.          *)
(*                                                                          *)
(* LMDB is external: one writer at a time works on a copy that commit        *)
(* installs and dropping the transaction forgets; a crash loses it too.      *)
(***************************************************************************)
EXTENDS Integers, FiniteSets, Functions

CONSTANTS
    Attrs,       \* attribute names
    Entities,    \* entity ids, which are also the integers stored as values
    Giants,      \* strings longer than GIANT_THRESHOLD
    Oversized,   \* values over the threshold that are neither string nor bytes
    MaxOps,      \* bound on the operations and declarations of a behaviour
    MaxFaults    \* bound on storage errors and crashes

ASSUME DatalogAssumption ==
    /\ Entities \subseteq Nat /\ MaxOps \in Nat /\ MaxFaults \in Nat
    /\ Entities # {} /\ Entities \cap (Giants \cup Oversized) = {}
    /\ "any" \notin Attrs

VARIABLES
    db,        \* the committed databases
    work,      \* the copy of the open write transaction; db when there is none
    phase,     \* "closed", "idle", or the open transaction: "writing"
    attrs,     \* Store.attrs: name -> aid and properties
    names,     \* Store.attr_names: aid -> name
    ops, faults,   \* bounded by MaxOps and MaxFaults
    damaged    \* history: a transaction began while attrs was not the schema

vars == <<db, work, phase, attrs, names, ops, faults, damaged>>

Empty == [x \in {} |-> 0]

Props == [many : BOOLEAN, ref : BOOLEAN]
DefaultProps == [many |-> FALSE, ref |-> FALSE]

\* A Clojure value as given to transact!: an integer, a long string, a tuple.
Values == Entities \cup Giants \cup Oversized

\* StoreValue: what the conversion makes of it.
StoreValues == ({"long", "ref"} \X Entities) \cup ({"str"} \X Giants) \cup ({"vec"} \X Oversized)

\* to_store_value: an integer becomes a reference when the attribute says so.
ToStoreValue(a, v) ==
    IF v \in Entities
    THEN <<IF a \in DOMAIN attrs /\ attrs[a].ref THEN "ref" ELSE "long", v>>
    ELSE <<IF v \in Giants THEN "str" ELSE "vec", v>>

-----------------------------------------------------------------------------
(* The schema and the counters *)

\* open_with_flags: the tables are read from the schema.
SchemaNames(schema) ==
    [i \in {schema[a].aid : a \in DOMAIN schema} |->
        CHOOSE a \in DOMAIN schema : schema[a].aid = i]

Init ==
    /\ db = [eav |-> {}, ave |-> {}, vae |-> {}, schema |-> Empty, giants |-> Empty,
             nextAid |-> 0, nextGiant |-> 0, maxEid |-> 0]
    /\ work = db
    /\ phase = "closed"
    /\ attrs = Empty /\ names = Empty
    /\ ops = 0 /\ faults = 0 /\ damaged = FALSE

Open ==
    /\ phase = "closed"
    /\ phase' = "idle"
    /\ attrs' = db.schema
    /\ names' = SchemaNames(db.schema)
    /\ UNCHANGED <<db, work, ops, faults, damaged>>

\* f with x mapped to y.
Put(f, x, y) == [z \in DOMAIN f \cup {x} |-> IF z = x THEN y ELSE f[z]]

\* intern_attr, without properties of its own (transact): a cached name is
\* used as it is; a new one takes the next aid and is written to the schema.
InternedAid(a) == IF a \in DOMAIN attrs THEN attrs[a].aid ELSE work.nextAid + 1

InternedProps(a) ==
    IF a \in DOMAIN attrs THEN [many |-> attrs[a].many, ref |-> attrs[a].ref] ELSE DefaultProps

Record(aid, p) == [aid |-> aid, many |-> p.many, ref |-> p.ref]

\* Mutant: the new attribute's schema record is not written.
InternedWorkNoRecord(a) ==
    IF a \in DOMAIN attrs THEN work ELSE [work EXCEPT !.nextAid = @ + 1]

InternedWork(a) ==
    IF a \in DOMAIN attrs THEN work
    ELSE [work EXCEPT !.nextAid = @ + 1,
                      !.schema = Put(@, a, Record(InternedAid(a), DefaultProps))]

InternCaches(a, p) ==
    /\ attrs' = Put(attrs, a, Record(InternedAid(a), p))
    /\ names' = Put(names, InternedAid(a), a)

-----------------------------------------------------------------------------
(* Values in keys *)

\* encode_value_for_key fails for a value that is over the threshold and is
\* neither a string nor bytes.
Encodable(sv) == sv[1] # "vec"

GiantId(d, g) == CHOOSE i \in DOMAIN d.giants : d.giants[i] = g

\* encode_value_for_key: a long string is stored under a new number unless an
\* equal one is stored already.
WithGiant(d, sv) ==
    IF sv[1] = "str" /\ sv[2] \notin Range(d.giants)
    THEN [d EXCEPT !.nextGiant = @ + 1, !.giants = Put(@, d.nextGiant + 1, sv[2])]
    ELSE d

\* The encoding of sv once its giant, if it is one, is stored in d.
Encode(d, sv) == IF sv[1] = "str" THEN <<"giant", GiantId(d, sv[2])>> ELSE sv

\* encode_value_readonly: an unknown giant gets number 0, which is never used.
EncodeReadonly(d, sv) ==
    IF sv[1] = "str" /\ sv[2] \notin Range(d.giants) THEN <<"giant", 0>> ELSE Encode(d, sv)

\* decode_value.
Decode(d, venc) == IF venc[1] = "giant" THEN <<"str", d.giants[venc[2]]>> ELSE venc

-----------------------------------------------------------------------------
(* The three indexes *)

InsertDatom(d, e, aid, venc) ==
    [d EXCEPT !.eav = @ \cup {<<e, aid, venc>>},
              !.ave = @ \cup {<<aid, venc, e>>},
              !.vae = IF venc[1] = "ref" THEN @ \cup {<<venc[2], aid, e>>} ELSE @]

\* Mutant: a deleted reference stays in the reverse index.
DeleteKeepsVae(d, e, aid, vencs) ==
    [d EXCEPT !.eav = @ \ {<<e, aid, x>> : x \in vencs},
              !.ave = @ \ {<<aid, x, e>> : x \in vencs}]

\* delete_datom and delete_datom_encoded, for a set of values of (e, aid).
DeleteDatoms(d, e, aid, vencs) ==
    [d EXCEPT !.eav = @ \ {<<e, aid, x>> : x \in vencs},
              !.ave = @ \ {<<aid, x, e>> : x \in vencs},
              !.vae = @ \ {<<x[2], aid, e>> : x \in {y \in vencs : y[1] = "ref"}}]

\* Mutant: an add does not find the value it replaces.
NoAttrValues(d, e, aid) == {}

EntityAttrValues(d, e, aid) == {k[3] : k \in {j \in d.eav : j[1] = e /\ j[2] = aid}}

-----------------------------------------------------------------------------
(* Transactions *)

Coherent == attrs = db.schema

\* transact: the write transaction is opened.
Begin ==
    /\ phase = "idle" /\ ops < MaxOps
    /\ phase' = "writing"
    /\ damaged' = (damaged \/ ~Coherent)
    /\ UNCHANGED <<db, work, attrs, names, ops, faults>>

\* Op::Add: replace the value of a cardinality-one attribute, then insert.
Add(e, a, sv) ==
    LET aid == InternedAid(a)
        old == EntityAttrValues(work, e, aid)
        w1  == IF InternedProps(a).many THEN InternedWork(a)
               ELSE DeleteDatoms(InternedWork(a), e, aid, old)
        w2  == WithGiant(w1, sv)
        w3  == InsertDatom(w2, e, aid, Encode(w2, sv))
    IN  /\ Encodable(sv)
        /\ work' = [w3 EXCEPT !.maxEid = IF e > @ THEN e ELSE @]
        /\ InternCaches(a, InternedProps(a))

\* Op::Retract: interns the attribute and stores the giant too.
Retract(e, a, sv) ==
    LET w == WithGiant(InternedWork(a), sv)
    IN  /\ Encodable(sv)
        /\ work' = DeleteDatoms(w, e, InternedAid(a), {Encode(w, sv)})
        /\ InternCaches(a, InternedProps(a))

Apply(e, a, v) ==
    /\ phase = "writing" /\ ops < MaxOps
    /\ ops' = ops + 1
    /\ Add(e, a, ToStoreValue(a, v)) \/ Retract(e, a, ToStoreValue(a, v))
    /\ UNCHANGED <<db, phase, faults, damaged>>

\* The value cannot be encoded: transact returns the error, having interned
\* the attribute, and the transaction is dropped.
OpFails(a, v) ==
    /\ phase = "writing" /\ ops < MaxOps
    /\ ~Encodable(ToStoreValue(a, v))
    /\ ops' = ops + 1
    /\ InternCaches(a, InternedProps(a))
    /\ work' = db /\ phase' = "idle"
    /\ UNCHANGED <<db, faults, damaged>>

Commit ==
    /\ phase = "writing"
    /\ db' = work /\ phase' = "idle"
    /\ UNCHANGED <<work, attrs, names, ops, faults, damaged>>

\* A put or the commit fails (the map is full): the transaction is dropped.
StorageError ==
    /\ phase = "writing" /\ faults < MaxFaults
    /\ faults' = faults + 1
    /\ work' = db /\ phase' = "idle"
    /\ UNCHANGED <<db, attrs, names, ops, damaged>>

\* set_attr, in a transaction of its own.
SetAttr(a, p) ==
    LET rec == Record(InternedAid(a), p)
    IN  /\ phase = "idle" /\ ops < MaxOps
        /\ ops' = ops + 1
        /\ damaged' = (damaged \/ ~Coherent)
        /\ db' = [db EXCEPT !.nextAid = IF a \in DOMAIN attrs THEN @ ELSE @ + 1,
                            !.schema = Put(@, a, rec)]
        /\ work' = db'
        /\ InternCaches(a, p)
        /\ UNCHANGED <<phase, faults>>

\* set_attr, when its commit fails.
SetAttrFails(a, p) ==
    /\ phase = "idle" /\ ops < MaxOps /\ faults < MaxFaults
    /\ ops' = ops + 1 /\ faults' = faults + 1
    /\ InternCaches(a, p)
    /\ UNCHANGED <<db, work, phase, damaged>>

\* The process ends, perhaps in the middle of a transaction, or the store is
\* closed: what is left is what was committed.
Crash ==
    /\ phase # "closed" /\ faults < MaxFaults
    /\ faults' = faults + 1
    /\ phase' = "closed" /\ work' = db
    /\ attrs' = Empty /\ names' = Empty
    /\ UNCHANGED <<db, ops, damaged>>

Next ==
    \/ Open \/ Begin \/ Commit \/ StorageError \/ Crash
    \/ \E a \in Attrs, v \in Values : OpFails(a, v) \/ (\E e \in Entities : Apply(e, a, v))
    \/ \E a \in Attrs, p \in Props : SetAttr(a, p) \/ SetAttrFails(a, p)

Spec == Init /\ [][Next]_vars

-----------------------------------------------------------------------------
(* Reads.  They use the committed databases and the in-memory tables. *)

\* Wildcards of a pattern.
AnyEntity == -1
AnyAttr == "any"
AnyValue == <<"any", 0>>

\* scan_eav, scan_ave, scan_vae: every key found is decoded; an aid without a
\* name ("unknown aid in index") or a missing giant fails the whole read.
ScanEav(keys) ==
    LET ok == \A k \in keys : /\ k[2] \in DOMAIN names
                              /\ k[3][1] = "giant" => k[3][2] \in DOMAIN db.giants
    IN  [ok |-> ok,
         datoms |-> IF ok THEN {<<k[1], names[k[2]], Decode(db, k[3])>> : k \in keys} ELSE {}]

ScanAve(keys) == ScanEav({<<k[3], k[1], k[2]>> : k \in keys})
\* Mutant: the entity and the target of a reverse key are read the wrong way round.
ScanVaeSwapped(keys) == ScanEav({<<k[1], k[2], <<"ref", k[3]>>>> : k \in keys})
ScanVae(keys) == ScanEav({<<k[3], k[2], <<"ref", k[1]>>>> : k \in keys})

\* A scan without the value in its prefix keeps the datoms with value sv.
Retain(found, sv) ==
    [found EXCEPT !.datoms = {d \in @ : sv = AnyValue \/ d[3] = sv}]

\* search: the index is chosen by what is bound.
Search(e, a, sv) ==
    LET aid    == attrs[a].aid
        HasV(x) == sv = AnyValue \/ x = EncodeReadonly(db, sv)
    IN  CASE a # AnyAttr /\ a \notin DOMAIN attrs -> [ok |-> TRUE, datoms |-> {}]
          [] e # AnyEntity /\ a \in DOMAIN attrs ->
                ScanEav({k \in db.eav : k[1] = e /\ k[2] = aid /\ HasV(k[3])})
          [] e # AnyEntity /\ a = AnyAttr ->
                Retain(ScanEav({k \in db.eav : k[1] = e}), sv)
          [] e = AnyEntity /\ a \in DOMAIN attrs ->
                ScanAve({k \in db.ave : k[1] = aid /\ HasV(k[2])})
          [] e = AnyEntity /\ a = AnyAttr /\ sv[1] = "ref" ->
                ScanVae({k \in db.vae : k[1] = sv[2]})
          [] OTHER -> Retain(ScanEav(db.eav), sv)

\* count: keys with the pattern's prefix, counted in one index without
\* decoding them; the remaining patterns fall back to search.
Count(e, a, sv) ==
    LET aid    == attrs[a].aid
        HasV(x) == sv = AnyValue \/ x = EncodeReadonly(db, sv)
    IN  Cardinality(
        CASE a # AnyAttr /\ a \notin DOMAIN attrs -> {}
          [] e # AnyEntity /\ a = AnyAttr /\ sv = AnyValue -> {k \in db.eav : k[1] = e}
          [] e # AnyEntity /\ a \in DOMAIN attrs ->
                {k \in db.eav : k[1] = e /\ k[2] = aid /\ HasV(k[3])}
          [] e = AnyEntity /\ a \in DOMAIN attrs -> {k \in db.ave : k[1] = aid /\ HasV(k[2])}
          [] e = AnyEntity /\ a = AnyAttr /\ sv[1] = "ref" -> {k \in db.vae : k[1] = sv[2]}
          [] e = AnyEntity /\ a = AnyAttr /\ sv = AnyValue -> db.eav
          [] OTHER -> Search(e, a, sv).datoms)

\* search_impl: an integer without an attribute may be a long or a reference,
\* so the reverse index is asked as well.
HostSearch(e, a, v) ==
    LET sv == ToStoreValue(a, v)
    IN  Search(e, a, sv).datoms \cup
        (IF a = AnyAttr /\ sv[1] = "long" THEN Search(e, a, <<"ref", v>>).datoms ELSE {})

-----------------------------------------------------------------------------
(* Properties *)

\* The datoms of databases d, by the schema record of each aid.
NameOf(d, aid) == CHOOSE a \in DOMAIN d.schema : d.schema[a].aid = aid
Datoms(d) == {<<k[1], NameOf(d, k[2]), Decode(d, k[3])>> : k \in d.eav}

TypeOK ==
    /\ phase \in {"closed", "idle", "writing"}
    /\ DOMAIN attrs \subseteq Attrs /\ Range(names) \subseteq Attrs
    /\ \A d \in {db, work} :
        /\ DOMAIN d.schema \subseteq Attrs /\ Range(d.giants) \subseteq Giants
        /\ d.eav \subseteq Entities \X (Nat \ {0})
                             \X (StoreValues \cup ({"giant"} \X (1..d.nextGiant)))
    /\ ops \in 0..MaxOps /\ faults \in 0..MaxFaults

\* The three indexes hold the same datoms, in the committed databases and
\* inside an open transaction: ave is eav reordered, and vae holds exactly the
\* references.  insert_datom and the two delete functions must keep them in
\* step through replacement, retraction and a change of an attribute's type.
Transposed(d) ==
    /\ d.ave = {<<k[2], k[3], k[1]>> : k \in d.eav}
    /\ d.vae = {<<k[3][2], k[2], k[1]>> : k \in {j \in d.eav : j[3][1] = "ref"}}

IndexesAgree == Transposed(db) /\ Transposed(work)

\* As long as no transaction began with a table that was not the schema, every
\* aid of the indexes belongs to exactly one schema record, the open store's
\* tables are inverse to each other and know it, and every giant is stored:
\* no read of the store can fail.
OneNamePerAid(d) ==
    /\ \A k \in d.eav : \E a \in DOMAIN d.schema : d.schema[a].aid = k[2]
    /\ \A a, b \in DOMAIN d.schema : d.schema[a].aid = d.schema[b].aid => a = b
    /\ \A k \in d.eav : k[3][1] = "giant" => k[3][2] \in DOMAIN d.giants

Readable ==
    ~damaged =>
        /\ OneNamePerAid(db) /\ OneNamePerAid(work)
        /\ phase # "closed" =>
            \A a \in DOMAIN db.schema : /\ a \in DOMAIN attrs
                                        /\ attrs[a].aid = db.schema[a].aid
                                        /\ names[db.schema[a].aid] = a

\* The indexes are transposes of each other and every read of them succeeds.
StoreIsSound == IndexesAgree /\ Readable

\* Under the same condition a search answers what a scan of all datoms would,
\* whichever index it takes, count agrees with it, and a Clojure integer finds
\* longs and references alike.
SearchAgrees ==
    ~damaged /\ phase = "idle" =>
        \A e \in Entities \cup {AnyEntity}, a \in Attrs \cup {AnyAttr},
           sv \in {x \in StoreValues : Encodable(x)} \cup {AnyValue} :
            LET want == {d \in Datoms(db) : /\ e \in {AnyEntity, d[1]}
                                            /\ a \in {AnyAttr, d[2]}
                                            /\ sv \in {AnyValue, d[3]}}
            IN  /\ Search(e, a, sv) = [ok |-> TRUE, datoms |-> want]
                /\ Count(e, a, sv) = Cardinality(want)
                /\ sv[1] = "long" =>
                    HostSearch(e, AnyAttr, sv[2]) =
                        {d \in Datoms(db) : e \in {AnyEntity, d[1]} /\ d[3][2] = sv[2]}

\* Under the same condition the store is a set of datoms changed atomically:
\* each step is a step of DatomSet or leaves the datoms alone, whatever
\* operations of a transaction fail and wherever the process dies.
ManyOf(schema) == {a \in DOMAIN schema : schema[a].many}

Abs == INSTANCE DatomSet WITH
        datoms <- Datoms(db), pending <- Datoms(work), many <- ManyOf(db.schema)

ImplementsDatomSet ==
    [][~damaged' => (Abs!Next \/ UNCHANGED <<Datoms(db), Datoms(work), ManyOf(db.schema)>>)]_vars

\* What the comment on transact says ("nothing is applied on failure", lib.rs):
\* between transactions the tables show the attributes of the schema.
NothingAppliedOnFailure == phase = "idle" => attrs = db.schema
=============================================================================
