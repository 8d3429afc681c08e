------------------------- MODULE DatalogStoreProofs -------------------------
(***************************************************************************)
(* The datalog store, for every set of attributes, entities and values and   *)
(* every bound on operations and faults.                                     *)
(*                                                                          *)
(* The inductive invariant has two parts.  StoreTyped holds whatever the     *)
(* tables say: the keys are well formed, their giants stored once, and the   *)
(* three indexes transposes of each other, in the committed databases and in *)
(* the open transaction.  SchemaInv holds as long as no transaction began    *)
(* with tables that were not the schema: every aid in the indexes has one    *)
(* schema record, the tables know it, and a name that a failed transaction   *)
(* left in the tables has an aid past every committed one.                   *)
(*                                                                          *)
(* From it follow what reads need (StoreIsSound), what they answer           *)
(* (SearchAgrees), and that a transaction is one step of DatomSet.           *)
(***************************************************************************)
EXTENDS DatalogStore, FiniteSetTheorems, TLAPS

-----------------------------------------------------------------------------
(* Databases *)

Fields == {"eav", "ave", "vae", "schema", "giants", "nextAid", "nextGiant", "maxEid"}
AttrRecord == [aid : Nat, many : BOOLEAN, ref : BOOLEAN]

\* What a key holds of a value: oversized values never get there.
Encoded == ({"long", "ref"} \X Entities) \cup ({"giant"} \X Nat)
IsTable(t) == DOMAIN t \subseteq Attrs /\ t \in [DOMAIN t -> AttrRecord]

\* Databases whose indexes agree and whose giants are all stored, each once.
Keys(d) == /\ IsFiniteSet(d.eav)
           /\ \A k \in d.eav : /\ k \in Entities \X Nat \X Encoded
                               /\ k[3][1] = "giant" => k[3][2] \in DOMAIN d.giants
Stored(d) == /\ d.nextGiant \in Nat /\ DOMAIN d.giants \subseteq 1..d.nextGiant
             /\ d.giants \in [DOMAIN d.giants -> Giants]
             /\ \A i, j \in DOMAIN d.giants : d.giants[i] = d.giants[j] => i = j
IsDb(d) == DOMAIN d = Fields /\ d = [f \in Fields |-> d[f]]
DbInv(d) == /\ IsDb(d) /\ IsTable(d.schema) /\ d.nextAid \in Nat
            /\ Keys(d) /\ Stored(d) /\ Transposed(d)

\* A function with one more argument, or another value for one.
LEMMA PutIs ==
    ASSUME NEW f, NEW x, NEW y
    PROVE  /\ DOMAIN Put(f, x, y) = DOMAIN f \cup {x} /\ Put(f, x, y)[x] = y
           /\ \A z \in DOMAIN f : z # x => Put(f, x, y)[z] = f[z]
BY DEF Put

\* It is still a function into the same set.
LEMMA PutFun ==
    ASSUME NEW S, NEW f, f \in [DOMAIN f -> S], NEW x, NEW y \in S
    PROVE  Put(f, x, y) \in [DOMAIN f \cup {x} -> S]
BY DEF Put

\* A table with one more attribute, or another record for one.
LEMMA PutTable ==
    ASSUME NEW t, IsTable(t), NEW a \in Attrs, NEW r \in AttrRecord
    PROVE  IsTable(Put(t, a, r))
<1>1. DOMAIN Put(t, a, r) = DOMAIN t \cup {a} /\ Put(t, a, r) \in [DOMAIN t \cup {a} -> AttrRecord]
  BY PutIs, PutFun DEF IsTable
<1> QED  BY <1>1 DEF IsTable

\* Keys are triples, and encodings pairs.
LEMMA KeyIs ==
    ASSUME NEW k \in Entities \X Nat \X Encoded
    PROVE  /\ k = <<k[1], k[2], k[3]>> /\ k[1] \in Entities /\ k[2] \in Nat /\ k[3] \in Encoded
           /\ k[3] = <<k[3][1], k[3][2]>> /\ k[3][1] \in {"long", "ref", "giant"}
<1>1. k = <<k[1], k[2], k[3]>> /\ k[1] \in Entities /\ k[2] \in Nat /\ k[3] \in Encoded  OBVIOUS
<1>2. \A x \in Encoded : x = <<x[1], x[2]>> /\ x[1] \in {"long", "ref", "giant"}  BY DEF Encoded
<1> QED  BY <1>1, <1>2

-----------------------------------------------------------------------------
(* Operators *)

\* A datom is inserted.
LEMMA InsertKeeps ==
    ASSUME NEW d, DbInv(d), NEW e \in Entities, NEW aid \in Nat, NEW venc \in Encoded,
           venc[1] = "giant" => venc[2] \in DOMAIN d.giants
    PROVE  LET n == InsertDatom(d, e, aid, venc) IN
           /\ DbInv(n) /\ n.eav = d.eav \cup {<<e, aid, venc>>}
           /\ n.schema = d.schema /\ n.giants = d.giants /\ n.nextAid = d.nextAid /\ n.nextGiant = d.nextGiant
<1> DEFINE n == InsertDatom(d, e, aid, venc)
           key == <<e, aid, venc>>
<1>1. /\ IsDb(n) /\ n.eav = d.eav \cup {key} /\ n.ave = d.ave \cup {<<aid, venc, e>>}
      /\ n.vae = IF venc[1] = "ref" THEN d.vae \cup {<<venc[2], aid, e>>} ELSE d.vae
      /\ n.schema = d.schema /\ n.giants = d.giants /\ n.nextAid = d.nextAid /\ n.nextGiant = d.nextGiant
  BY DEF InsertDatom, DbInv, IsDb, Fields
<1> HIDE DEF n
<1>2. key \in Entities \X Nat \X Encoded /\ key[1] = e /\ key[2] = aid /\ key[3] = venc  OBVIOUS
<1>3. Keys(n)
  <2> HIDE DEF key
  <2>1. IsFiniteSet(n.eav)  BY <1>1, FS_AddElement DEF DbInv, Keys
  <2> QED  BY <1>1, <1>2, <2>1 DEF DbInv, Keys
<1>4. Stored(n)  BY <1>1 DEF DbInv, Stored
<1>5. n.ave = {<<k[2], k[3], k[1]>> : k \in n.eav}
  <2>1. d.ave = {<<k[2], k[3], k[1]>> : k \in d.eav}  BY DEF DbInv, Transposed
  <2> HIDE DEF key
  <2> QED  BY <1>1, <1>2, <2>1
<1>6. n.vae = {<<k[3][2], k[2], k[1]>> : k \in {j \in n.eav : j[3][1] = "ref"}}
  <2>1. d.vae = {<<k[3][2], k[2], k[1]>> : k \in {j \in d.eav : j[3][1] = "ref"}}  BY DEF DbInv, Transposed
  <2> HIDE DEF key
  <2>2. CASE venc[1] = "ref"
    <3>1. {j \in n.eav : j[3][1] = "ref"} = {j \in d.eav : j[3][1] = "ref"} \cup {key}  BY <1>1, <1>2, <2>2
    <3> QED  BY <1>1, <1>2, <2>1, <2>2, <3>1
  <2>3. CASE venc[1] # "ref"
    <3>1. {j \in n.eav : j[3][1] = "ref"} = {j \in d.eav : j[3][1] = "ref"}  BY <1>1, <1>2, <2>3
    <3> QED  BY <1>1, <2>1, <2>3, <3>1
  <2> QED  BY <2>2, <2>3
<1>7. DbInv(n)  BY <1>1, <1>3, <1>4, <1>5, <1>6 DEF DbInv, Transposed
<1> QED  BY <1>1, <1>7 DEF n

\* Values of one entity and attribute are deleted.
LEMMA DeleteKeeps ==
    ASSUME NEW d, DbInv(d), NEW e \in Entities, NEW aid \in Nat, NEW vencs \in SUBSET Encoded
    PROVE  LET n == DeleteDatoms(d, e, aid, vencs) IN
           /\ DbInv(n) /\ n.eav = d.eav \ {<<e, aid, x>> : x \in vencs}
           /\ n.schema = d.schema /\ n.giants = d.giants /\ n.nextAid = d.nextAid /\ n.nextGiant = d.nextGiant
<1> DEFINE n == DeleteDatoms(d, e, aid, vencs)
           gone == {<<e, aid, x>> : x \in vencs}
<1>1. /\ IsDb(n) /\ n.eav = d.eav \ gone /\ n.ave = d.ave \ {<<aid, x, e>> : x \in vencs}
      /\ n.vae = d.vae \ {<<x[2], aid, e>> : x \in {y \in vencs : y[1] = "ref"}}
      /\ n.schema = d.schema /\ n.giants = d.giants /\ n.nextAid = d.nextAid /\ n.nextGiant = d.nextGiant
  BY DEF DeleteDatoms, DbInv, IsDb, Fields
<1> HIDE DEF n
<1>2. ASSUME NEW k \in d.eav
      PROVE  /\ k = <<k[1], k[2], k[3]>> /\ k[3] = <<k[3][1], k[3][2]>> /\ k[3] \in Encoded
             /\ k \in gone <=> k[1] = e /\ k[2] = aid /\ k[3] \in vencs
  <2>1. k = <<k[1], k[2], k[3]>> /\ k[3] = <<k[3][1], k[3][2]>> /\ k[3] \in Encoded
    BY KeyIs DEF DbInv, Keys
  <2>2. \A x : k = <<e, aid, x>> <=> k[1] = e /\ k[2] = aid /\ k[3] = x  BY <2>1
  <2> QED  BY <2>1, <2>2
<1> HIDE DEF gone
<1>3. Keys(n)
  <2>1. IsFiniteSet(n.eav)  BY <1>1, FS_Subset DEF DbInv, Keys
  <2> QED  BY <1>1, <2>1 DEF DbInv, Keys
<1>4. Stored(n)  BY <1>1 DEF DbInv, Stored
<1>5. n.ave = {<<k[2], k[3], k[1]>> : k \in n.eav}
  <2>1. d.ave = {<<k[2], k[3], k[1]>> : k \in d.eav}  BY DEF DbInv, Transposed
  <2>2. ASSUME NEW k \in d.eav
        PROVE  <<k[2], k[3], k[1]>> \in {<<aid, x, e>> : x \in vencs} <=> k \in gone
    BY <1>2
  <2> QED  BY <1>1, <2>1, <2>2
<1>6. n.vae = {<<k[3][2], k[2], k[1]>> : k \in {j \in n.eav : j[3][1] = "ref"}}
  <2>1. d.vae = {<<k[3][2], k[2], k[1]>> : k \in {j \in d.eav : j[3][1] = "ref"}}  BY DEF DbInv, Transposed
  <2>2. ASSUME NEW k \in d.eav, k[3][1] = "ref"
        PROVE  <<k[3][2], k[2], k[1]>> \in {<<x[2], aid, e>> : x \in {y \in vencs : y[1] = "ref"}} <=> k \in gone
    <3>1. ASSUME NEW x \in vencs, x[1] = "ref", x[2] = k[3][2] PROVE x = k[3]
      <4>1. x = <<x[1], x[2]>>  BY DEF Encoded
      <4> QED  BY <1>2, <2>2, <3>1, <4>1
    <3>2. \A x : <<k[3][2], k[2], k[1]>> = <<x[2], aid, e>> <=> k[3][2] = x[2] /\ k[2] = aid /\ k[1] = e  OBVIOUS
    <3> QED  BY <1>2, <2>2, <3>1, <3>2
  <2> QED  BY <1>1, <2>1, <2>2
<1>7. DbInv(n)  BY <1>1, <1>3, <1>4, <1>5, <1>6 DEF DbInv, Transposed
<1> QED  BY <1>1, <1>7 DEF n, gone

\* The values that can be encoded.
Storable == ({"long", "ref"} \X Entities) \cup ({"str"} \X Giants)

\* A value that can be encoded is a pair, and is its own encoding unless it is a giant.
LEMMA StorableIs ==
    /\ Storable = {x \in StoreValues : Encodable(x)}
    /\ \A x \in Storable : x = <<x[1], x[2]>> /\ x[1] \in {"long", "ref", "str"}
    /\ \A x \in Storable : x[1] # "str" => x \in Encoded /\ x[2] \in Entities
    /\ \A x \in Storable : x[1] = "str" => x[2] \in Giants
<1>1. \A x \in StoreValues : Encodable(x) <=> x \in Storable
  BY DEF StoreValues, Storable, Encodable
<1>2. Storable \subseteq StoreValues  BY DEF StoreValues, Storable
<1> QED  BY <1>1, <1>2 DEF Storable, Encoded

\* The conversion of the Clojure face.
LEMMA ConvertIs ==
    ASSUME NEW a, NEW v \in Values
    PROVE  ToStoreValue(a, v) \in StoreValues
BY DEF ToStoreValue, Values, StoreValues

\* A giant is stored once, under a new number.
LEMMA GiantKeeps ==
    ASSUME NEW d, DbInv(d), NEW sv \in Storable
    PROVE  LET n == WithGiant(d, sv) IN
           /\ DbInv(n) /\ n.eav = d.eav /\ n.schema = d.schema /\ n.nextAid = d.nextAid
           /\ \A i \in DOMAIN d.giants : i \in DOMAIN n.giants /\ n.giants[i] = d.giants[i]
           /\ sv[1] = "str" => \E i \in DOMAIN n.giants : n.giants[i] = sv[2]
<1> DEFINE n == WithGiant(d, sv)
<1>1. CASE ~(sv[1] = "str" /\ sv[2] \notin Range(d.giants))
  <2>1. n = d  BY <1>1 DEF WithGiant
  <2>2. sv[1] = "str" => \E i \in DOMAIN d.giants : d.giants[i] = sv[2]  BY <1>1 DEF Range
  <2> HIDE DEF n
  <2> QED  BY <2>1, <2>2 DEF n
<1>2. CASE sv[1] = "str" /\ sv[2] \notin Range(d.giants)
  <2> DEFINE g == sv[2]
             i0 == d.nextGiant + 1
             p == Put(d.giants, i0, g)
  <2>1. n = [d EXCEPT !.nextGiant = @ + 1, !.giants = p]  BY <1>2 DEF WithGiant
  <2>2. g \in Giants /\ \A i \in DOMAIN d.giants : d.giants[i] # g  BY <1>2, StorableIs DEF Range
  <2>3. d.nextGiant \in Nat /\ i0 \in Nat /\ i0 \notin DOMAIN d.giants  BY DEF DbInv, Stored
  <2>4. /\ DOMAIN p = DOMAIN d.giants \cup {i0} /\ p[i0] = g
        /\ \A z \in DOMAIN d.giants : p[z] = d.giants[z]
        /\ p \in [DOMAIN p -> Giants]
    <3>1. d.giants \in [DOMAIN d.giants -> Giants]  BY DEF DbInv, Stored
    <3> HIDE DEF i0, g
    <3>2. /\ DOMAIN p = DOMAIN d.giants \cup {i0} /\ p[i0] = g
          /\ \A z \in DOMAIN d.giants : z # i0 => p[z] = d.giants[z]
      BY DEF Put
    <3>3. p \in [DOMAIN d.giants \cup {i0} -> Giants]  BY <2>2, <3>1, PutFun
    <3> HIDE DEF p
    <3> QED  BY <2>3, <3>2, <3>3
  <2> HIDE DEF p, n, g
  <2>5. /\ IsDb(n) /\ n.nextGiant = i0 /\ n.giants = p /\ n.eav = d.eav /\ n.ave = d.ave /\ n.vae = d.vae
        /\ n.schema = d.schema /\ n.nextAid = d.nextAid
    BY <2>1 DEF DbInv, IsDb, Fields
  <2>6. Stored(n)
    <3>2. \A i, j \in DOMAIN p : p[i] = p[j] => i = j  BY <2>2, <2>4 DEF DbInv, Stored
    <3>3. 1..i0 = (1..d.nextGiant) \cup {i0}  BY <2>3
    <3>4. DOMAIN p \subseteq 1..i0  BY <2>4, <3>3 DEF DbInv, Stored
    <3> HIDE DEF i0
    <3> QED  BY <2>3, <2>4, <2>5, <3>2, <3>4 DEF Stored
  <2> HIDE DEF i0
  <2>7. Keys(n)  BY <2>4, <2>5 DEF DbInv, Keys
  <2>8. Transposed(n)  BY <2>5 DEF DbInv, Transposed
  <2>9. DbInv(n)  BY <2>5, <2>6, <2>7, <2>8 DEF DbInv
  <2>10. \E i \in DOMAIN n.giants : n.giants[i] = g  BY <2>4, <2>5
  <2> QED  BY <2>4, <2>5, <2>9, <2>10 DEF n, g
<1> QED  BY <1>1, <1>2

\* Encoding and decoding a value whose giant is stored.
LEMMA EncodeIs ==
    ASSUME NEW d, DbInv(d), NEW sv \in Storable,
           sv[1] = "str" => \E i \in DOMAIN d.giants : d.giants[i] = sv[2]
    PROVE  /\ Encode(d, sv) \in Encoded /\ Decode(d, Encode(d, sv)) = sv
           /\ Encode(d, sv)[1] = "giant" => Encode(d, sv)[2] \in DOMAIN d.giants
           /\ sv[1] # "str" => Encode(d, sv) = sv
<1>1. CASE sv[1] # "str"
  <2>1. Encode(d, sv) = sv /\ sv \in Encoded /\ sv[1] # "giant"  BY <1>1, StorableIs DEF Encode
  <2> QED  BY <1>1, <2>1 DEF Decode
<1>2. CASE sv[1] = "str"
  <2> DEFINE i == GiantId(d, sv[2])
  <2>1. i \in DOMAIN d.giants /\ d.giants[i] = sv[2]  BY <1>2 DEF GiantId
  <2>2. i \in Nat  BY <2>1 DEF DbInv, Stored
  <2> HIDE DEF i
  <2>3. Encode(d, sv) = <<"giant", i>>  BY <1>2 DEF Encode, i
  <2>4. <<"giant", i>> \in Encoded /\ <<"giant", i>>[1] = "giant" /\ <<"giant", i>>[2] = i  BY <2>2 DEF Encoded
  <2>5. Decode(d, <<"giant", i>>) = <<"str", sv[2]>>  BY <2>1, <2>4 DEF Decode
  <2>6. sv = <<"str", sv[2]>>  BY <1>2, StorableIs
  <2> QED  BY <1>2, <2>1, <2>3, <2>4, <2>5, <2>6
<1> QED  BY <1>1, <1>2

-----------------------------------------------------------------------------
(* The inductive invariant *)

StoreTyped ==
    /\ DbInv(db) /\ DbInv(work) /\ IsTable(attrs)
    /\ phase \in {"closed", "idle", "writing"}
    /\ phase # "writing" => work = db
    /\ damaged \in BOOLEAN

\* Every aid of the indexes has one schema record, and nextAid is past them all.
Named(d) ==
    /\ \A a \in DOMAIN d.schema : d.schema[a].aid \in 1..d.nextAid
    /\ \A a, b \in DOMAIN d.schema : d.schema[a].aid = d.schema[b].aid => a = b
    /\ \A k \in d.eav : \E a \in DOMAIN d.schema : d.schema[a].aid = k[2]

\* The tables know the attributes of a schema.
Knows(table, byAid, schema) ==
    \A a \in DOMAIN schema : /\ a \in DOMAIN table /\ table[a].aid = schema[a].aid
                             /\ schema[a].aid \in DOMAIN byAid /\ byAid[schema[a].aid] = a

\* A schema that a transaction has added to: what was there stays as it was, and what is
\* new has the default properties.
Extends(new, old) ==
    /\ \A a \in DOMAIN old : a \in DOMAIN new /\ new[a] = old[a]
    /\ \A a \in DOMAIN new \ DOMAIN old : ~new[a].many

\* A name the tables have and the schema has not, left by a transaction that failed, has
\* an aid that no committed datom uses.
SchemaInv ==
    ~damaged =>
        /\ Named(db) /\ Named(work)
        /\ phase # "closed" => /\ Knows(attrs, names, db.schema)
                               /\ \A a \in DOMAIN attrs \ DOMAIN db.schema : attrs[a].aid > db.nextAid
        /\ phase = "writing" => /\ attrs = work.schema /\ Knows(attrs, names, work.schema)
                                /\ work.nextAid >= db.nextAid
                                /\ Extends(work.schema, db.schema)

StoreInv == StoreTyped /\ SchemaInv

\* There is nothing in a new store.
LEMMA InitInv == Init => StoreInv
<1> SUFFICES ASSUME Init PROVE StoreInv  OBVIOUS
<1>1. /\ db = [eav |-> {}, ave |-> {}, vae |-> {}, schema |-> Empty, giants |-> Empty,
               nextAid |-> 0, nextGiant |-> 0, maxEid |-> 0]
      /\ work = db /\ phase = "closed" /\ attrs = Empty /\ damaged = FALSE
  BY DEF Init
<1>2. DOMAIN Empty = {} /\ \A S : Empty \in [DOMAIN Empty -> S]  BY DEF Empty
<1>3. /\ IsDb(db) /\ db.eav = {} /\ db.ave = {} /\ db.vae = {} /\ db.schema = Empty /\ db.giants = Empty
      /\ db.nextAid = 0 /\ db.nextGiant = 0
  BY <1>1 DEF IsDb, Fields
<1>4. IsTable(Empty)  BY <1>2 DEF IsTable
<1>5. Keys(db)  BY <1>3, FS_EmptySet DEF Keys
<1>6. Stored(db)  BY <1>2, <1>3 DEF Stored
<1>7. Transposed(db)  BY <1>3 DEF Transposed
<1>8. StoreTyped  BY <1>1, <1>3, <1>4, <1>5, <1>6, <1>7 DEF StoreTyped, DbInv
<1>9. Named(db)  BY <1>2, <1>3 DEF Named
<1>10. SchemaInv  BY <1>1, <1>9 DEF SchemaInv
<1> QED  BY <1>8, <1>10 DEF StoreInv

\* intern_attr, whatever the tables say.
LEMMA InternTyped ==
    ASSUME StoreTyped, NEW a \in Attrs
    PROVE  LET w == InternedWork(a) IN
           /\ InternedAid(a) \in Nat /\ InternedProps(a) \in Props
           /\ DbInv(w) /\ w.eav = work.eav /\ w.giants = work.giants /\ w.nextGiant = work.nextGiant
<1> DEFINE w == InternedWork(a)
<1>0. IsTable(attrs) /\ DbInv(work)  BY DEF StoreTyped
<1>1. CASE a \in DOMAIN attrs
  <2>1. attrs[a] \in AttrRecord  BY <1>0, <1>1 DEF IsTable
  <2>2. w = work /\ InternedAid(a) = attrs[a].aid  BY <1>1 DEF InternedWork, InternedAid
  <2>3. InternedProps(a) = [many |-> attrs[a].many, ref |-> attrs[a].ref]  BY <1>1 DEF InternedProps
  <2>4. InternedAid(a) \in Nat /\ InternedProps(a) \in Props  BY <2>1, <2>2, <2>3 DEF AttrRecord, Props
  <2> QED  BY <1>0, <2>2, <2>4
<1>2. CASE a \notin DOMAIN attrs
  <2> DEFINE s == Put(work.schema, a, Record(work.nextAid + 1, DefaultProps))
  <2>1. InternedAid(a) = work.nextAid + 1 /\ work.nextAid \in Nat /\ InternedProps(a) = DefaultProps
    BY <1>0, <1>2 DEF InternedAid, InternedProps, DbInv
  <2>2. DefaultProps \in Props /\ Record(work.nextAid + 1, DefaultProps) \in AttrRecord
    BY <2>1 DEF DefaultProps, Props, Record, AttrRecord
  <2>3. w = [work EXCEPT !.nextAid = @ + 1, !.schema = s]  BY <1>2, <2>1 DEF InternedWork
  <2>4. IsTable(s)  BY <1>0, <2>2, PutTable DEF DbInv
  <2> HIDE DEF s, w
  <2>5. /\ IsDb(w) /\ w.nextAid = work.nextAid + 1 /\ w.schema = s /\ w.eav = work.eav /\ w.ave = work.ave
        /\ w.vae = work.vae /\ w.giants = work.giants /\ w.nextGiant = work.nextGiant
    BY <1>0, <2>3 DEF DbInv, IsDb, Fields
  <2>6. DbInv(w)  BY <1>0, <2>1, <2>4, <2>5 DEF DbInv, Keys, Stored, Transposed
  <2> QED  BY <2>1, <2>2, <2>5, <2>6 DEF w
<1> QED  BY <1>1, <1>2

\* The tables after intern_attr.
LEMMA CachesTyped ==
    ASSUME StoreTyped, NEW a \in Attrs, NEW p \in Props, InternCaches(a, p)
    PROVE  IsTable(attrs')
<1>1. Record(InternedAid(a), p) \in AttrRecord  BY InternTyped DEF Record, AttrRecord, Props
<1> QED  BY <1>1, PutTable DEF InternCaches, StoreTyped

\* A record of the tables written back.
LEMMA PutSame ==
    ASSUME NEW t, IsTable(t), NEW a \in DOMAIN t
    PROVE  Put(t, a, Record(t[a].aid, [many |-> t[a].many, ref |-> t[a].ref])) = t
<1> DEFINE r == Record(t[a].aid, [many |-> t[a].many, ref |-> t[a].ref])
<1>1. t[a] \in AttrRecord /\ t = [z \in DOMAIN t |-> t[z]]  BY DEF IsTable
<1>2. r = t[a]  BY <1>1 DEF Record, AttrRecord
<1> HIDE DEF r
<1>3. Put(t, a, r) = [z \in DOMAIN t |-> t[z]]  BY <1>2 DEF Put
<1> QED  BY <1>1, <1>3 DEF r

\* intern_attr in a transaction that began with coherent tables: they stay the schema.
LEMMA InternNamed ==
    ASSUME StoreTyped, SchemaInv, ~damaged, phase = "writing", NEW a \in Attrs,
           InternCaches(a, InternedProps(a))
    PROVE  LET w == InternedWork(a) IN
           /\ attrs' = w.schema /\ Named(w) /\ Knows(attrs', names', w.schema)
           /\ a \in DOMAIN w.schema /\ w.schema[a].aid = InternedAid(a)
           /\ Extends(w.schema, work.schema) /\ w.nextAid \in Nat /\ w.nextAid >= work.nextAid
           /\ \A b \in DOMAIN w.schema \ DOMAIN work.schema : w.schema[b].aid > work.nextAid
           /\ InternedProps(a).many <=> a \in DOMAIN work.schema /\ work.schema[a].many
<1> DEFINE w == InternedWork(a)
<1>0. /\ attrs = work.schema /\ Knows(attrs, names, work.schema) /\ Named(work) /\ IsTable(attrs)
      /\ DbInv(work) /\ work.nextAid \in Nat
  BY DEF SchemaInv, StoreTyped, DbInv
<1>1. CASE a \in DOMAIN attrs
  <2>1. w = work /\ InternedAid(a) = attrs[a].aid  BY <1>1 DEF InternedWork, InternedAid
  <2>2. InternedProps(a) = [many |-> attrs[a].many, ref |-> attrs[a].ref]  BY <1>1 DEF InternedProps
  <2>3. attrs' = attrs  BY <1>0, <1>1, <2>1, <2>2, PutSame DEF InternCaches
  <2>4. /\ DOMAIN names' = DOMAIN names \cup {attrs[a].aid} /\ names'[attrs[a].aid] = a
        /\ \A i \in DOMAIN names : i # attrs[a].aid => names'[i] = names[i]
    BY <2>1 DEF InternCaches, Put
  <2>5. Knows(attrs', names', w.schema)
    <3>1. ASSUME NEW b \in DOMAIN work.schema
          PROVE  work.schema[b].aid \in DOMAIN names' /\ names'[work.schema[b].aid] = b
      <4>1. names[work.schema[b].aid] = b /\ work.schema[b].aid \in DOMAIN names  BY <1>0 DEF Knows
      <4>2. CASE work.schema[b].aid = attrs[a].aid
        <5>1. b = a  BY <1>0, <1>1, <4>2 DEF Named
        <5> QED  BY <2>4, <4>2, <5>1
      <4>3. CASE work.schema[b].aid # attrs[a].aid  BY <2>4, <4>1, <4>3
      <4> QED  BY <4>2, <4>3
    <3> QED  BY <1>0, <2>1, <2>3, <3>1 DEF Knows
  <2>6. Extends(w.schema, work.schema)  BY <2>1 DEF Extends
  <2>7. InternedProps(a).many <=> work.schema[a].many  BY <1>0, <2>2
  <2> HIDE DEF w
  <2> QED  BY <1>0, <1>1, <2>1, <2>3, <2>5, <2>6, <2>7 DEF w
<1>2. CASE a \notin DOMAIN attrs
  <2> DEFINE i0 == work.nextAid + 1
             r == Record(i0, DefaultProps)
             s == Put(work.schema, a, r)
  <2>1. InternedAid(a) = i0 /\ i0 \in Nat /\ InternedProps(a) = DefaultProps
    BY <1>0, <1>2 DEF InternedAid, InternedProps
  <2>2. attrs' = s /\ names' = Put(names, i0, a)  BY <1>0, <2>1 DEF InternCaches
  <2>3. w = [work EXCEPT !.nextAid = @ + 1, !.schema = s]  BY <1>2, <2>1 DEF InternedWork
  <2>4. r.aid = i0 /\ r.many = FALSE /\ DefaultProps.many = FALSE  BY DEF Record, DefaultProps
  <2>5. /\ DOMAIN s = DOMAIN work.schema \cup {a} /\ s[a] = r
        /\ \A b \in DOMAIN work.schema : s[b] = work.schema[b]
    <3> HIDE DEF r
    <3>1. \A b \in DOMAIN work.schema : b # a  BY <1>0, <1>2
    <3> QED  BY <3>1 DEF Put
  <2>6. /\ DOMAIN names' = DOMAIN names \cup {i0} /\ names'[i0] = a
        /\ \A i \in DOMAIN names : i # i0 => names'[i] = names[i]
    BY <2>2 DEF Put
  <2> HIDE DEF s, w, r
  <2>7. w.nextAid = i0 /\ w.schema = s /\ w.eav = work.eav
    BY <1>0, <2>3 DEF DbInv, IsDb, Fields
  <2>8. \A b \in DOMAIN work.schema : work.schema[b].aid \in 1..work.nextAid  BY <1>0 DEF Named
  <2>9. /\ \A j : j \in 1..work.nextAid => j # i0 /\ j \in 1..i0
        /\ i0 \in 1..i0 /\ i0 > work.nextAid /\ i0 >= work.nextAid
    BY <1>0
  <2> HIDE DEF i0
  <2>10. Named(w)
    <3>1. \A b \in DOMAIN s : s[b].aid \in 1..i0  BY <2>4, <2>5, <2>8, <2>9
    <3>2. ASSUME NEW b \in DOMAIN s, NEW c \in DOMAIN s, s[b].aid = s[c].aid PROVE b = c
      <4>1. \A x \in DOMAIN work.schema : s[x].aid = work.schema[x].aid /\ s[x].aid # i0  BY <2>5, <2>8, <2>9
      <4>2. s[a].aid = i0  BY <2>4, <2>5
      <4>3. CASE b \in DOMAIN work.schema /\ c \in DOMAIN work.schema
        BY <1>0, <3>2, <4>1, <4>3 DEF Named
      <4>4. CASE b = a \/ c = a  BY <2>5, <3>2, <4>1, <4>2, <4>4
      <4> QED  BY <2>5, <4>3, <4>4
    <3>3. \A k \in work.eav : \E b \in DOMAIN s : s[b].aid = k[2]  BY <1>0, <2>5 DEF Named
    <3> QED  BY <2>7, <3>1, <3>2, <3>3 DEF Named
  <2>11. Knows(attrs', names', w.schema)
    <3>1. ASSUME NEW b \in DOMAIN s PROVE s[b].aid \in DOMAIN names' /\ names'[s[b].aid] = b
      <4>1. CASE b = a  BY <2>4, <2>5, <2>6, <4>1
      <4>2. CASE b \in DOMAIN work.schema
        <5>1. /\ s[b].aid = work.schema[b].aid /\ s[b].aid # i0
              /\ names[work.schema[b].aid] = b /\ work.schema[b].aid \in DOMAIN names
          BY <1>0, <2>5, <2>8, <2>9, <4>2 DEF Knows
        <5> QED  BY <2>6, <5>1
      <4> QED  BY <2>5, <4>1, <4>2
    <3> QED  BY <2>2, <2>7, <3>1 DEF Knows
  <2>12. Extends(s, work.schema)  BY <2>4, <2>5 DEF Extends
  <2>13. \A b \in DOMAIN s \ DOMAIN work.schema : s[b].aid > work.nextAid  BY <2>4, <2>5, <2>9
  <2>14. a \in DOMAIN s /\ s[a].aid = i0 /\ ~InternedProps(a).many /\ a \notin DOMAIN work.schema
    BY <1>0, <1>2, <2>1, <2>4, <2>5
  <2> QED  BY <2>1, <2>2, <2>7, <2>9, <2>10, <2>11, <2>12, <2>13, <2>14 DEF w
<1> QED  BY <1>1, <1>2

-----------------------------------------------------------------------------
(* Operations *)

\* The values an add replaces.
Replaced(e, a) == IF InternedProps(a).many THEN {} ELSE EntityAttrValues(work, e, InternedAid(a))

\* What an add does to the keys.
LEMMA AddIs ==
    ASSUME StoreTyped, NEW e \in Entities, NEW a \in Attrs, NEW sv \in StoreValues, Add(e, a, sv)
    PROVE  /\ sv \in Storable /\ DbInv(work') /\ InternCaches(a, InternedProps(a))
           /\ work'.schema = InternedWork(a).schema /\ work'.nextAid = InternedWork(a).nextAid
           /\ \A i \in DOMAIN work.giants : i \in DOMAIN work'.giants /\ work'.giants[i] = work.giants[i]
           /\ \E enc \in Encoded :
                  /\ enc[1] = "giant" => enc[2] \in DOMAIN work'.giants
                  /\ Decode(work', enc) = sv
                  /\ work'.eav = (work.eav \ {<<e, InternedAid(a), x>> : x \in Replaced(e, a)})
                                     \cup {<<e, InternedAid(a), enc>>}
<1> DEFINE aid == InternedAid(a)
           w   == InternedWork(a)
           old == EntityAttrValues(work, e, aid)
           w1  == IF InternedProps(a).many THEN w ELSE DeleteDatoms(w, e, aid, old)
           w2  == WithGiant(w1, sv)
           enc == Encode(w2, sv)
           w3  == InsertDatom(w2, e, aid, enc)
<1>1. /\ Encodable(sv) /\ InternCaches(a, InternedProps(a))
      /\ work' = [w3 EXCEPT !.maxEid = IF e > @ THEN e ELSE @]
  BY DEF Add
<1>2. sv \in Storable  BY <1>1, StorableIs
<1>3. aid \in Nat /\ DbInv(w) /\ w.eav = work.eav /\ w.giants = work.giants  BY InternTyped
<1>4. old \in SUBSET Encoded /\ {<<e, aid, x>> : x \in {}} = {}
  <2>1. \A k \in work.eav : k[3] \in Encoded  BY KeyIs DEF StoreTyped, DbInv, Keys
  <2> QED  BY <2>1 DEF EntityAttrValues
<1>5. /\ DbInv(w1) /\ w1.eav = work.eav \ {<<e, aid, x>> : x \in Replaced(e, a)}
      /\ w1.schema = w.schema /\ w1.nextAid = w.nextAid /\ w1.giants = work.giants
  <2> HIDE DEF w, old, aid
  <2>1. CASE InternedProps(a).many
    <3>1. w1 = w /\ Replaced(e, a) = {}  BY <2>1 DEF Replaced
    <3> HIDE DEF w1
    <3> QED  BY <1>3, <1>4, <3>1
  <2>2. CASE ~InternedProps(a).many
    <3>1. w1 = DeleteDatoms(w, e, aid, old) /\ Replaced(e, a) = old  BY <2>2 DEF Replaced, old, aid
    <3> HIDE DEF w1
    <3> QED  BY <1>3, <1>4, <3>1, DeleteKeeps
  <2> QED  BY <2>1, <2>2
<1> HIDE DEF w1
<1>6. /\ DbInv(w2) /\ w2.eav = w1.eav /\ w2.schema = w1.schema /\ w2.nextAid = w1.nextAid
      /\ \A i \in DOMAIN w1.giants : i \in DOMAIN w2.giants /\ w2.giants[i] = w1.giants[i]
      /\ sv[1] = "str" => \E i \in DOMAIN w2.giants : w2.giants[i] = sv[2]
  BY <1>2, <1>5, GiantKeeps
<1> HIDE DEF w2
<1>7. /\ enc \in Encoded /\ Decode(w2, enc) = sv
      /\ enc[1] = "giant" => enc[2] \in DOMAIN w2.giants
  BY <1>2, <1>6, EncodeIs
<1> HIDE DEF enc, aid, w
<1>8. /\ DbInv(w3) /\ w3.eav = w2.eav \cup {<<e, aid, enc>>} /\ w3.schema = w2.schema
      /\ w3.giants = w2.giants /\ w3.nextAid = w2.nextAid
  BY <1>3, <1>6, <1>7, InsertKeeps
<1> HIDE DEF w3
<1>9. /\ IsDb(work') /\ work'.eav = w3.eav /\ work'.ave = w3.ave /\ work'.vae = w3.vae
      /\ work'.schema = w3.schema /\ work'.giants = w3.giants /\ work'.nextAid = w3.nextAid
      /\ work'.nextGiant = w3.nextGiant
  BY <1>1, <1>8 DEF DbInv, IsDb, Fields
<1>10. DbInv(work')  BY <1>8, <1>9 DEF DbInv, Keys, Stored, Transposed
<1>11. Decode(work', enc) = sv  BY <1>7, <1>8, <1>9 DEF Decode
<1>12. \A i \in DOMAIN work.giants : i \in DOMAIN work'.giants /\ work'.giants[i] = work.giants[i]
  BY <1>5, <1>6, <1>8, <1>9
<1>13. work'.eav = (work.eav \ {<<e, aid, x>> : x \in Replaced(e, a)}) \cup {<<e, aid, enc>>}
  BY <1>5, <1>6, <1>8, <1>9
<1>14. work'.schema = w.schema /\ work'.nextAid = w.nextAid /\ (enc[1] = "giant" => enc[2] \in DOMAIN work'.giants)
  BY <1>5, <1>6, <1>7, <1>8, <1>9
<1> QED  BY <1>1, <1>2, <1>7, <1>10, <1>11, <1>12, <1>13, <1>14 DEF aid, w

\* What a retraction does to the keys.
LEMMA RetractIs ==
    ASSUME StoreTyped, NEW e \in Entities, NEW a \in Attrs, NEW sv \in StoreValues, Retract(e, a, sv)
    PROVE  /\ sv \in Storable /\ DbInv(work') /\ InternCaches(a, InternedProps(a))
           /\ work'.schema = InternedWork(a).schema /\ work'.nextAid = InternedWork(a).nextAid
           /\ \A i \in DOMAIN work.giants : i \in DOMAIN work'.giants /\ work'.giants[i] = work.giants[i]
           /\ \E enc \in Encoded :
                  /\ enc[1] = "giant" => enc[2] \in DOMAIN work'.giants
                  /\ Decode(work', enc) = sv
                  /\ work'.eav = work.eav \ {<<e, InternedAid(a), enc>>}
<1> DEFINE aid == InternedAid(a)
           w   == InternedWork(a)
           w2  == WithGiant(w, sv)
           enc == Encode(w2, sv)
<1>1. Encodable(sv) /\ InternCaches(a, InternedProps(a)) /\ work' = DeleteDatoms(w2, e, aid, {enc})
  BY DEF Retract
<1>2. sv \in Storable  BY <1>1, StorableIs
<1>3. aid \in Nat /\ DbInv(w) /\ w.eav = work.eav /\ w.giants = work.giants  BY InternTyped
<1> HIDE DEF w, aid
<1>4. /\ DbInv(w2) /\ w2.eav = w.eav /\ w2.schema = w.schema /\ w2.nextAid = w.nextAid
      /\ \A i \in DOMAIN w.giants : i \in DOMAIN w2.giants /\ w2.giants[i] = w.giants[i]
      /\ sv[1] = "str" => \E i \in DOMAIN w2.giants : w2.giants[i] = sv[2]
  BY <1>2, <1>3, GiantKeeps
<1> HIDE DEF w2
<1>5. /\ enc \in Encoded /\ Decode(w2, enc) = sv
      /\ enc[1] = "giant" => enc[2] \in DOMAIN w2.giants
  BY <1>2, <1>4, EncodeIs
<1> HIDE DEF enc
<1>6. {enc} \in SUBSET Encoded /\ {<<e, aid, x>> : x \in {enc}} = {<<e, aid, enc>>}  BY <1>5
<1>7. /\ DbInv(work') /\ work'.eav = w2.eav \ {<<e, aid, enc>>}
      /\ work'.schema = w2.schema /\ work'.giants = w2.giants /\ work'.nextAid = w2.nextAid
  BY <1>1, <1>3, <1>4, <1>6, DeleteKeeps
<1>8. Decode(work', enc) = sv  BY <1>5, <1>7 DEF Decode
<1>9. \A i \in DOMAIN work.giants : i \in DOMAIN work'.giants /\ work'.giants[i] = work.giants[i]
  BY <1>3, <1>4, <1>7
<1>10. /\ work'.eav = work.eav \ {<<e, aid, enc>>} /\ work'.schema = w.schema /\ work'.nextAid = w.nextAid
       /\ enc[1] = "giant" => enc[2] \in DOMAIN work'.giants
  BY <1>3, <1>4, <1>5, <1>7
<1> QED  BY <1>1, <1>2, <1>5, <1>7, <1>8, <1>9, <1>10 DEF aid, w

\* set_attr: the schema of the committed databases gets a record.
LEMMA SetAttrIs ==
    ASSUME StoreTyped, NEW a \in Attrs, NEW p \in Props, SetAttr(a, p)
    PROVE  /\ phase = "idle" /\ work = db /\ DbInv(db') /\ work' = db' /\ phase' = "idle"
           /\ db'.eav = db.eav /\ db'.giants = db.giants
           /\ db'.schema = Put(db.schema, a, Record(InternedAid(a), p))
           /\ db'.nextAid = IF a \in DOMAIN attrs THEN db.nextAid ELSE db.nextAid + 1
           /\ InternCaches(a, p) /\ damaged' = (damaged \/ ~Coherent) /\ IsTable(attrs')
<1> DEFINE s == Put(db.schema, a, Record(InternedAid(a), p))
           i == IF a \in DOMAIN attrs THEN db.nextAid ELSE db.nextAid + 1
<1>1. /\ phase = "idle" /\ work' = db' /\ phase' = phase /\ InternCaches(a, p)
      /\ damaged' = (damaged \/ ~Coherent)
      /\ db' = [db EXCEPT !.nextAid = i, !.schema = s]
  BY DEF SetAttr
<1>2. work = db /\ DbInv(db)  BY <1>1 DEF StoreTyped
<1>3. Record(InternedAid(a), p) \in AttrRecord  BY InternTyped DEF Record, AttrRecord, Props
<1>4. IsTable(s) /\ i \in Nat  BY <1>2, <1>3, PutTable DEF DbInv
<1> HIDE DEF s, i
<1>5. /\ IsDb(db') /\ db'.nextAid = i /\ db'.schema = s /\ db'.eav = db.eav /\ db'.ave = db.ave
      /\ db'.vae = db.vae /\ db'.giants = db.giants /\ db'.nextGiant = db.nextGiant
  BY <1>1, <1>2 DEF DbInv, IsDb, Fields
<1>6. DbInv(db')  BY <1>2, <1>4, <1>5 DEF DbInv, Keys, Stored, Transposed
<1>7. IsTable(attrs')  BY <1>1, CachesTyped
<1> QED  BY <1>1, <1>2, <1>5, <1>6, <1>7 DEF s, i

\* The databases stay consistent and the indexes agree, damaged or not.
LEMMA TypedStep == StoreTyped /\ [Next]_vars => StoreTyped'
<1> SUFFICES ASSUME StoreTyped, [Next]_vars PROVE StoreTyped'  OBVIOUS
<1>0. CASE UNCHANGED vars  BY <1>0 DEF vars, StoreTyped
<1>1. CASE Open
  <2>1. IsTable(db.schema)  BY DEF StoreTyped, DbInv
  <2> QED  BY <1>1, <2>1 DEF Open, StoreTyped
<1>2. CASE Begin
  <2>1. damaged' \in BOOLEAN  BY <1>2 DEF Begin
  <2>2. UNCHANGED <<db, work, attrs>> /\ phase' = "writing"  BY <1>2 DEF Begin
  <2> QED  BY <2>1, <2>2 DEF StoreTyped
<1>3. CASE Commit \/ StorageError  BY <1>3 DEF Commit, StorageError, StoreTyped
<1>4. CASE Crash
  <2>1. IsTable(Empty)  BY DEF Empty, IsTable
  <2> QED  BY <1>4, <2>1 DEF Crash, StoreTyped
<1>5. ASSUME NEW a \in Attrs, NEW v \in Values, OpFails(a, v) PROVE StoreTyped'
  <2>1. IsTable(attrs')  BY <1>5, InternTyped, CachesTyped DEF OpFails
  <2> QED  BY <1>5, <2>1 DEF OpFails, StoreTyped
<1>6. ASSUME NEW a \in Attrs, NEW v \in Values, NEW e \in Entities, Apply(e, a, v) PROVE StoreTyped'
  <2>1. ToStoreValue(a, v) \in StoreValues  BY ConvertIs
  <2>2. Add(e, a, ToStoreValue(a, v)) \/ Retract(e, a, ToStoreValue(a, v))  BY <1>6 DEF Apply
  <2>3. DbInv(work') /\ InternCaches(a, InternedProps(a))  BY <2>1, <2>2, AddIs, RetractIs
  <2>4. IsTable(attrs')  BY <2>3, InternTyped, CachesTyped
  <2>5. phase' = "writing" /\ UNCHANGED <<db, damaged>>  BY <1>6 DEF Apply
  <2> QED  BY <2>3, <2>4, <2>5 DEF StoreTyped
<1>7. ASSUME NEW a \in Attrs, NEW p \in Props, SetAttr(a, p) PROVE StoreTyped'
  <2>1. damaged' \in BOOLEAN  BY <1>7 DEF SetAttr
  <2>2. DbInv(db') /\ work' = db' /\ phase' = "idle" /\ IsTable(attrs')  BY <1>7, SetAttrIs
  <2> QED  BY <2>1, <2>2 DEF StoreTyped
<1>8. ASSUME NEW a \in Attrs, NEW p \in Props, SetAttrFails(a, p) PROVE StoreTyped'
  <2>1. IsTable(attrs')  BY <1>8, CachesTyped DEF SetAttrFails
  <2> QED  BY <1>8, <2>1 DEF SetAttrFails, StoreTyped
<1> QED  BY <1>0, <1>1, <1>2, <1>3, <1>4, <1>5, <1>6, <1>7, <1>8 DEF Next

\* What interning in an orderly transaction leaves.
LEMMA InternKeeps ==
    ASSUME StoreTyped, SchemaInv, ~damaged, phase = "writing", NEW a \in Attrs,
           InternCaches(a, InternedProps(a))
    PROVE  /\ Knows(attrs', names', db.schema)
           /\ \A b \in DOMAIN attrs' \ DOMAIN db.schema : attrs'[b].aid > db.nextAid
           /\ Extends(InternedWork(a).schema, db.schema) /\ InternedWork(a).nextAid >= db.nextAid
<1> DEFINE w == InternedWork(a)
<1>1. /\ attrs' = w.schema /\ Knows(attrs', names', w.schema) /\ Extends(w.schema, work.schema)
      /\ w.nextAid >= work.nextAid /\ w.nextAid \in Nat
      /\ \A b \in DOMAIN w.schema \ DOMAIN work.schema : w.schema[b].aid > work.nextAid
  BY InternNamed
<1>2. /\ attrs = work.schema /\ work.nextAid >= db.nextAid /\ Extends(work.schema, db.schema)
      /\ \A b \in DOMAIN attrs \ DOMAIN db.schema : attrs[b].aid > db.nextAid
  BY DEF SchemaInv
<1>3. work.nextAid \in Nat /\ db.nextAid \in Nat /\ DbInv(w)  BY InternTyped DEF StoreTyped, DbInv
<1> HIDE DEF w
<1>4. Extends(w.schema, db.schema)
  <2>1. \A b \in DOMAIN db.schema : b \in DOMAIN w.schema /\ w.schema[b] = db.schema[b]
    BY <1>1, <1>2 DEF Extends
  <2>2. \A b \in DOMAIN w.schema \ DOMAIN db.schema : ~w.schema[b].many  BY <1>1, <1>2 DEF Extends
  <2> QED  BY <2>1, <2>2 DEF Extends
<1>5. Knows(attrs', names', db.schema)  BY <1>1, <1>4 DEF Knows, Extends
<1>6. ASSUME NEW b \in DOMAIN attrs' \ DOMAIN db.schema PROVE attrs'[b].aid > db.nextAid
  <2>1. CASE b \in DOMAIN work.schema  BY <1>1, <1>2, <1>6, <2>1 DEF Extends
  <2>2. CASE b \notin DOMAIN work.schema
    <3>1. w.schema[b].aid > work.nextAid  BY <1>1, <1>6, <2>2
    <3>2. w.schema[b].aid \in Nat  BY <1>1, <1>3, <1>6 DEF DbInv, IsTable, AttrRecord
    <3> QED  BY <1>1, <1>2, <1>3, <3>1, <3>2
  <2> QED  BY <2>1, <2>2
<1> QED  BY <1>1, <1>2, <1>3, <1>4, <1>5, <1>6 DEF w

\* The tables that set_attr leaves, also when its commit fails.
LEMMA DeclaredTables ==
    ASSUME StoreTyped, SchemaInv, ~damaged, phase = "idle", NEW a \in Attrs, NEW p \in Props, InternCaches(a, p)
    PROVE  /\ Knows(attrs', names', db.schema)
           /\ \A b \in DOMAIN attrs' \ DOMAIN db.schema : attrs'[b].aid > db.nextAid
           /\ a \notin DOMAIN attrs => InternedAid(a) = db.nextAid + 1
           /\ a \in DOMAIN attrs' /\ attrs'[a].aid = InternedAid(a)
           /\ InternedAid(a) \in DOMAIN names' /\ names'[InternedAid(a)] = a
<1> DEFINE i == InternedAid(a)
           r == Record(i, p)
<1>0. /\ work = db /\ db.nextAid \in Nat /\ IsTable(attrs) /\ Named(db) /\ Knows(attrs, names, db.schema)
      /\ \A b \in DOMAIN attrs \ DOMAIN db.schema : attrs[b].aid > db.nextAid
      /\ i \in Nat
  BY InternTyped DEF StoreTyped, SchemaInv, DbInv
<1>1. attrs' = Put(attrs, a, r) /\ names' = Put(names, i, a)  BY DEF InternCaches
<1>2. r.aid = i  BY DEF Record
<1>3. i = IF a \in DOMAIN attrs THEN attrs[a].aid ELSE db.nextAid + 1  BY <1>0 DEF InternedAid
<1> HIDE DEF r, i
<1>4. /\ DOMAIN attrs' = DOMAIN attrs \cup {a} /\ attrs'[a] = r
      /\ \A b \in DOMAIN attrs : b # a => attrs'[b] = attrs[b]
  BY <1>1 DEF Put
<1>5. /\ DOMAIN names' = DOMAIN names \cup {i} /\ names'[i] = a
      /\ \A j \in DOMAIN names : j # i => names'[j] = names[j]
  BY <1>1 DEF Put
<1>6. ASSUME NEW b \in DOMAIN db.schema, b # a PROVE db.schema[b].aid # i
  <2>0. db.schema[b].aid \in 1..db.nextAid  BY <1>0 DEF Named
  <2>1. CASE a \in DOMAIN db.schema
    <3>1. a \in DOMAIN attrs /\ attrs[a].aid = db.schema[a].aid  BY <1>0, <2>1 DEF Knows
    <3> QED  BY <1>0, <1>3, <1>6, <2>1, <3>1 DEF Named
  <2>2. CASE a \in DOMAIN attrs /\ a \notin DOMAIN db.schema
    <3>1. i > db.nextAid  BY <1>0, <1>3, <2>2
    <3> QED  BY <1>0, <2>0, <3>1
  <2>3. CASE a \notin DOMAIN attrs  BY <1>0, <1>3, <2>0, <2>3
  <2> QED  BY <2>1, <2>2, <2>3
<1>7. Knows(attrs', names', db.schema)
  <2>1. ASSUME NEW b \in DOMAIN db.schema
        PROVE  /\ b \in DOMAIN attrs' /\ attrs'[b].aid = db.schema[b].aid
               /\ db.schema[b].aid \in DOMAIN names' /\ names'[db.schema[b].aid] = b
    <3>0. /\ b \in DOMAIN attrs /\ attrs[b].aid = db.schema[b].aid
          /\ db.schema[b].aid \in DOMAIN names /\ names[db.schema[b].aid] = b
      BY <1>0 DEF Knows
    <3>1. CASE b = a
      <4>1. db.schema[b].aid = i  BY <1>3, <3>0, <3>1
      <4> QED  BY <1>2, <1>4, <1>5, <3>0, <3>1, <4>1
    <3>2. CASE b # a
      <4>1. db.schema[b].aid # i  BY <1>6, <3>2
      <4> QED  BY <1>4, <1>5, <3>0, <3>2, <4>1
    <3> QED  BY <3>1, <3>2
  <2> QED  BY <2>1 DEF Knows
<1>8. ASSUME NEW b \in DOMAIN attrs' \ DOMAIN db.schema PROVE attrs'[b].aid > db.nextAid
  <2>1. CASE b # a  BY <1>0, <1>4, <1>8, <2>1
  <2>2. CASE b = a /\ a \in DOMAIN attrs  BY <1>0, <1>2, <1>3, <1>4, <1>8, <2>2
  <2>3. CASE b = a /\ a \notin DOMAIN attrs  BY <1>0, <1>2, <1>3, <1>4, <2>3
  <2> QED  BY <2>1, <2>2, <2>3
<1> QED  BY <1>2, <1>3, <1>4, <1>5, <1>7, <1>8 DEF i

\* One more schema record, or another for an attribute that is there.
LEMMA DeclaredSchema ==
    ASSUME StoreTyped, SchemaInv, ~damaged, attrs = db.schema, NEW a \in Attrs, NEW p \in Props, SetAttr(a, p)
    PROVE  /\ attrs' = db'.schema /\ Named(db') /\ Knows(attrs', names', db'.schema)
           /\ \A b \in DOMAIN db.schema : b \in DOMAIN db'.schema /\ db'.schema[b].aid = db.schema[b].aid
<1>0. /\ phase = "idle" /\ work = db /\ db'.eav = db.eav /\ InternCaches(a, p)
      /\ db'.schema = Put(db.schema, a, Record(InternedAid(a), p))
      /\ db'.nextAid = IF a \in DOMAIN attrs THEN db.nextAid ELSE db.nextAid + 1
  BY SetAttrIs
<1>1. attrs' = db'.schema  BY <1>0 DEF InternCaches
<1>2. Named(db) /\ db.nextAid \in Nat /\ Knows(attrs, names, db.schema)
  BY <1>0 DEF StoreTyped, SchemaInv, DbInv
<1>3. /\ Knows(attrs', names', db.schema) /\ a \in DOMAIN attrs' /\ attrs'[a].aid = InternedAid(a)
      /\ InternedAid(a) \in DOMAIN names' /\ names'[InternedAid(a)] = a
      /\ a \notin DOMAIN attrs => InternedAid(a) = db.nextAid + 1
  BY <1>0, DeclaredTables
<1>4. DOMAIN db'.schema = DOMAIN db.schema \cup {a}  BY <1>0 DEF Put
<1>5. \A b \in DOMAIN db.schema : b \in DOMAIN db'.schema /\ db'.schema[b].aid = db.schema[b].aid
  BY <1>1, <1>3, <1>4 DEF Knows
<1>6. Knows(attrs', names', db'.schema)  BY <1>1, <1>3, <1>4 DEF Knows
<1>7. Named(db')
  <2>1. ASSUME NEW b \in DOMAIN db'.schema PROVE db'.schema[b].aid \in 1..db'.nextAid
    <3>1. CASE b \in DOMAIN db.schema
      <4>1. db'.schema[b].aid \in 1..db.nextAid  BY <1>2, <1>5, <3>1 DEF Named
      <4> QED  BY <1>0, <1>2, <4>1
    <3>2. CASE b \notin DOMAIN db.schema
      <4>1. b = a /\ a \notin DOMAIN attrs  BY <1>4, <3>2
      <4> QED  BY <1>0, <1>1, <1>2, <1>3, <4>1
    <3> QED  BY <3>1, <3>2
  <2>2. \A b, c \in DOMAIN db'.schema : db'.schema[b].aid = db'.schema[c].aid => b = c
    BY <1>6 DEF Knows
  <2>3. \A k \in db'.eav : \E b \in DOMAIN db'.schema : db'.schema[b].aid = k[2]
    BY <1>0, <1>2, <1>5 DEF Named
  <2> QED  BY <2>1, <2>2, <2>3 DEF Named
<1> QED  BY <1>1, <1>5, <1>6, <1>7

\* Unless a transaction begins with tables that are not the schema, names stay right.
LEMMA SchemaStep == StoreTyped /\ SchemaInv /\ [Next]_vars => SchemaInv'
<1> SUFFICES ASSUME StoreTyped, SchemaInv, [Next]_vars, ~damaged'
             PROVE  /\ Named(db)' /\ Named(work)'
                    /\ phase' # "closed" =>
                           /\ Knows(attrs', names', db'.schema)
                           /\ \A a \in DOMAIN attrs' \ DOMAIN db'.schema : attrs'[a].aid > db'.nextAid
                    /\ phase' = "writing" =>
                           /\ attrs' = work'.schema /\ Knows(attrs', names', work'.schema)
                           /\ work'.nextAid >= db'.nextAid
                           /\ Extends(work'.schema, db'.schema)
  BY DEF SchemaInv
<1>n. db.nextAid \in Nat /\ work.nextAid \in Nat  BY DEF StoreTyped, DbInv
<1>d. ~damaged
  BY DEF vars, Next, Open, Begin, Commit, StorageError, Crash, OpFails, Apply, SetAttr, SetAttrFails
<1>0. CASE UNCHANGED vars  BY <1>0, <1>d DEF vars, SchemaInv
<1>1. CASE Open
  <2>1. /\ phase = "closed" /\ phase' = "idle" /\ attrs' = db.schema /\ names' = SchemaNames(db.schema)
        /\ UNCHANGED <<db, work>>
    BY <1>1 DEF Open
  <2>2. Named(db) /\ Named(work)  BY <1>d DEF SchemaInv
  <2>3. ASSUME NEW a \in DOMAIN db.schema
        PROVE  db.schema[a].aid \in DOMAIN names' /\ names'[db.schema[a].aid] = a
    <3>1. \A b \in DOMAIN db.schema : db.schema[b].aid = db.schema[a].aid <=> b = a  BY <2>2 DEF Named
    <3>2. (CHOOSE b \in DOMAIN db.schema : db.schema[b].aid = db.schema[a].aid) = a  BY <3>1
    <3>3. db.schema[a].aid \in {db.schema[b].aid : b \in DOMAIN db.schema}  OBVIOUS
    <3> QED  BY <2>1, <3>2, <3>3 DEF SchemaNames
  <2>4. Knows(attrs', names', db'.schema)  BY <2>1, <2>3 DEF Knows
  <2> QED  BY <2>1, <2>2, <2>4
<1>2. CASE Begin
  <2>1. phase = "idle" /\ phase' = "writing" /\ UNCHANGED <<db, work, attrs, names>> /\ Coherent
    BY <1>2 DEF Begin
  <2>2. work = db /\ attrs = db.schema  BY <2>1 DEF StoreTyped, Coherent
  <2>3. Named(db) /\ Knows(attrs, names, db.schema)  BY <1>d, <2>1 DEF SchemaInv
  <2>4. Extends(db.schema, db.schema)  BY DEF Extends
  <2> QED  BY <1>n, <2>1, <2>2, <2>3, <2>4
<1>3. CASE Commit
  <2>1. /\ phase = "writing" /\ phase' = "idle" /\ db' = work /\ UNCHANGED <<work, attrs, names>>  BY <1>3 DEF Commit
  <2>2. Named(work) /\ attrs = work.schema /\ Knows(attrs, names, work.schema)  BY <1>d, <2>1 DEF SchemaInv
  <2> QED  BY <2>1, <2>2
<1>4. CASE StorageError
  <2>1. /\ phase = "writing" /\ phase' = "idle" /\ work' = db /\ UNCHANGED <<db, attrs, names>>
    BY <1>4 DEF StorageError
  <2> QED  BY <1>d, <2>1 DEF SchemaInv
<1>5. CASE Crash
  <2>1. phase' = "closed" /\ work' = db /\ UNCHANGED db  BY <1>5 DEF Crash
  <2> QED  BY <1>d, <2>1 DEF SchemaInv
<1>6. ASSUME NEW a \in Attrs, NEW v \in Values, OpFails(a, v) PROVE
                    /\ Named(db)' /\ Named(work)'
                    /\ phase' = "idle" /\ Knows(attrs', names', db'.schema)
                    /\ \A b \in DOMAIN attrs' \ DOMAIN db'.schema : attrs'[b].aid > db'.nextAid
  <2>1. /\ phase = "writing" /\ phase' = "idle" /\ work' = db /\ UNCHANGED db
        /\ InternCaches(a, InternedProps(a))
    BY <1>6 DEF OpFails
  <2>2. Named(db)  BY <1>d DEF SchemaInv
  <2> QED  BY <1>d, <2>1, <2>2, InternKeeps
<1>7. ASSUME NEW a \in Attrs, NEW v \in Values, NEW e \in Entities, Apply(e, a, v) PROVE
                    /\ Named(db)' /\ Named(work)' /\ Knows(attrs', names', db'.schema)
                    /\ \A b \in DOMAIN attrs' \ DOMAIN db'.schema : attrs'[b].aid > db'.nextAid
                    /\ attrs' = work'.schema /\ Knows(attrs', names', work'.schema)
                    /\ work'.nextAid >= db'.nextAid
                    /\ Extends(work'.schema, db'.schema)
  <2> DEFINE w == InternedWork(a)
             aid == InternedAid(a)
             sv == ToStoreValue(a, v)
  <2>1. phase = "writing" /\ UNCHANGED db /\ (Add(e, a, sv) \/ Retract(e, a, sv))  BY <1>7 DEF Apply
  <2>2. sv \in StoreValues  BY ConvertIs
  <2>3. /\ InternCaches(a, InternedProps(a)) /\ work'.schema = w.schema /\ work'.nextAid = w.nextAid
        /\ \E enc : work'.eav \subseteq work.eav \cup {<<e, aid, enc>>}
    <3> HIDE DEF sv
    <3>1. CASE Add(e, a, sv)
      <4>1. PICK enc \in Encoded : work'.eav = (work.eav \ {<<e, aid, x>> : x \in Replaced(e, a)}) \cup {<<e, aid, enc>>}
        BY <2>2, <3>1, AddIs
      <4>2. work'.eav \subseteq work.eav \cup {<<e, aid, enc>>}  BY <4>1
      <4> QED  BY <2>2, <3>1, <4>2, AddIs
    <3>2. CASE Retract(e, a, sv)
      <4>1. PICK enc \in Encoded : work'.eav = work.eav \ {<<e, aid, enc>>}  BY <2>2, <3>2, RetractIs
      <4>2. work'.eav \subseteq work.eav \cup {<<e, aid, enc>>}  BY <4>1
      <4> QED  BY <2>2, <3>2, <4>2, RetractIs
    <3> QED  BY <2>1, <3>1, <3>2
  <2>4. /\ attrs' = w.schema /\ Named(w) /\ Knows(attrs', names', w.schema)
        /\ a \in DOMAIN w.schema /\ w.schema[a].aid = aid /\ Extends(w.schema, work.schema)
    BY <1>d, <2>1, <2>3, InternNamed
  <2>5. /\ Knows(attrs', names', db.schema)
        /\ \A b \in DOMAIN attrs' \ DOMAIN db.schema : attrs'[b].aid > db.nextAid
        /\ Extends(w.schema, db.schema) /\ w.nextAid >= db.nextAid
    BY <1>d, <2>1, <2>3, InternKeeps
  <2>6. w.eav = work.eav  BY InternTyped
  <2> HIDE DEF w, aid, sv
  <2>7. Named(work')
    <3>1. PICK enc : work'.eav \subseteq work.eav \cup {<<e, aid, enc>>}  BY <2>3
    <3>2. ASSUME NEW k \in work'.eav PROVE \E b \in DOMAIN w.schema : w.schema[b].aid = k[2]
      <4>1. CASE k \in work.eav  BY <2>4, <2>6, <4>1 DEF Named
      <4>2. CASE k = <<e, aid, enc>>  BY <2>4, <4>2
      <4> QED  BY <3>1, <4>1, <4>2
    <3> QED  BY <2>3, <2>4, <3>2 DEF Named
  <2>8. Named(db)  BY <1>d DEF SchemaInv
  <2> QED  BY <2>1, <2>3, <2>4, <2>5, <2>7, <2>8
<1>8. ASSUME NEW a \in Attrs, NEW p \in Props, SetAttr(a, p) PROVE
                    /\ Named(db)' /\ Named(work)' /\ phase' = "idle" /\ Knows(attrs', names', db'.schema)
                    /\ DOMAIN attrs' \ DOMAIN db'.schema = {}
  <2>1. Coherent /\ phase' = "idle" /\ work' = db'  BY <1>8, SetAttrIs
  <2>2. attrs = db.schema  BY <2>1 DEF Coherent
  <2> QED  BY <1>8, <1>d, <2>1, <2>2, DeclaredSchema
<1>9. ASSUME NEW a \in Attrs, NEW p \in Props, SetAttrFails(a, p) PROVE
                    /\ Named(db)' /\ Named(work)' /\ phase' = "idle" /\ Knows(attrs', names', db'.schema)
                    /\ \A b \in DOMAIN attrs' \ DOMAIN db'.schema : attrs'[b].aid > db'.nextAid
  <2>1. phase = "idle" /\ phase' = "idle" /\ UNCHANGED <<db, work>> /\ InternCaches(a, p)  BY <1>9 DEF SetAttrFails
  <2>2. Named(db) /\ Named(work)  BY <1>d DEF SchemaInv
  <2> QED  BY <1>d, <2>1, <2>2, DeclaredTables
<1>10. CASE \E a \in Attrs, v \in Values : OpFails(a, v)  BY <1>6, <1>10
<1>11. CASE \E a \in Attrs, v \in Values, e \in Entities : Apply(e, a, v)  BY <1>7, <1>11
<1>12. CASE \E a \in Attrs, p \in Props : SetAttr(a, p)  BY <1>8, <1>12
<1>13. CASE \E a \in Attrs, p \in Props : SetAttrFails(a, p)  BY <1>9, <1>13
<1> QED  BY <1>0, <1>1, <1>2, <1>3, <1>4, <1>5, <1>10, <1>11, <1>12, <1>13 DEF Next

\* Both parts together.
THEOREM StoreInvariant == Spec => []StoreInv
<1>1. StoreInv /\ [Next]_vars => StoreInv'  BY TypedStep, SchemaStep DEF StoreInv
<1> QED  BY <1>1, InitInv, PTL DEF Spec

\* lib.rs: the three indexes are transposes of each other at every step, and as long as
\* no transaction began with tables that were not the schema, every aid has one name
\* and every giant is stored, for any attributes, entities and values.
THEOREM IndexesStaySound == Spec => []StoreIsSound
<1>1. StoreInv => StoreIsSound
  <2> SUFFICES ASSUME StoreInv PROVE StoreIsSound  OBVIOUS
  <2>1. IndexesAgree  BY DEF StoreInv, StoreTyped, DbInv, IndexesAgree
  <2>2. ASSUME NEW d, DbInv(d), Named(d) PROVE OneNamePerAid(d)
    BY <2>2 DEF DbInv, Keys, Named, OneNamePerAid
  <2>3. Readable  BY <2>2 DEF StoreInv, StoreTyped, SchemaInv, Knows, Readable
  <2> QED  BY <2>1, <2>3 DEF StoreIsSound
<1> QED  BY <1>1, StoreInvariant, PTL

-----------------------------------------------------------------------------
(* Datoms *)

\* The datom of a key.
DatomOf(d, k) == <<k[1], NameOf(d, k[2]), Decode(d, k[3])>>

\* A value that a key can hold, its giant stored.
Held(d, x) == x \in Encoded /\ (x[1] = "giant" => x[2] \in DOMAIN d.giants)

\* An aid has the name of its schema record.
LEMMA NameIs ==
    ASSUME NEW d, Named(d), NEW a \in DOMAIN d.schema
    PROVE  NameOf(d, d.schema[a].aid) = a
<1>1. \A b \in DOMAIN d.schema : d.schema[b].aid = d.schema[a].aid <=> b = a  BY DEF Named
<1> QED  BY <1>1 DEF NameOf

\* decode_value tells encodings apart, because a giant is stored once.
LEMMA DecodeDiffers ==
    ASSUME NEW d, Stored(d), NEW x, NEW y, Held(d, x), Held(d, y), Decode(d, x) = Decode(d, y)
    PROVE  x = y
<1>1. \A z \in Encoded : z = <<z[1], z[2]>> /\ z[1] \in {"long", "ref", "giant"}  BY DEF Encoded
<1>2. x = <<x[1], x[2]>> /\ y = <<y[1], y[2]>> /\ x[1] \in {"long", "ref", "giant"} /\ y[1] \in {"long", "ref", "giant"}
  BY <1>1 DEF Held
<1>3. CASE x[1] = "giant" /\ y[1] = "giant"
  <2>1. d.giants[x[2]] = d.giants[y[2]]  BY <1>3 DEF Decode
  <2>2. x[2] = y[2]  BY <1>3, <2>1 DEF Stored, Held
  <2> QED  BY <1>2, <1>3, <2>2
<1>4. CASE x[1] # "giant" /\ y[1] # "giant"  BY <1>4 DEF Decode
<1>5. CASE x[1] = "giant" /\ y[1] # "giant"
  <2>1. y = <<"str", d.giants[x[2]]>>  BY <1>5 DEF Decode
  <2>2. y[1] = "str"  BY <2>1
  <2> QED  BY <1>2, <2>2
<1>6. CASE x[1] # "giant" /\ y[1] = "giant"
  <2>1. x = <<"str", d.giants[y[2]]>>  BY <1>6 DEF Decode
  <2>2. x[1] = "str"  BY <2>1
  <2> QED  BY <1>2, <2>2
<1> QED  BY <1>3, <1>4, <1>5, <1>6

\* Keys of named databases and their datoms correspond one to one.
LEMMA DatomIs ==
    ASSUME NEW d, DbInv(d), Named(d), NEW k \in d.eav
    PROVE  /\ Held(d, k[3]) /\ k = <<k[1], k[2], k[3]>> /\ k[1] \in Entities
           /\ NameOf(d, k[2]) \in DOMAIN d.schema /\ d.schema[NameOf(d, k[2])].aid = k[2]
           /\ \A a \in DOMAIN d.schema : NameOf(d, k[2]) = a <=> k[2] = d.schema[a].aid
<1>1. Held(d, k[3]) /\ k = <<k[1], k[2], k[3]>> /\ k[1] \in Entities  BY KeyIs DEF DbInv, Keys, Held
<1>2. PICK b \in DOMAIN d.schema : d.schema[b].aid = k[2]  BY DEF Named
<1>3. NameOf(d, k[2]) = b  BY <1>2, NameIs
<1> QED  BY <1>1, <1>2, <1>3 DEF Named

\* Interning attributes and storing giants leaves the datoms of the keys as they were.
LEMMA DatomSame ==
    ASSUME NEW d, DbInv(d), Named(d), NEW n, Named(n), NEW k \in d.eav,
           \A b \in DOMAIN d.schema : b \in DOMAIN n.schema /\ n.schema[b].aid = d.schema[b].aid,
           \A i \in DOMAIN d.giants : i \in DOMAIN n.giants /\ n.giants[i] = d.giants[i]
    PROVE  /\ DatomOf(n, k) = DatomOf(d, k) /\ Held(n, k[3])
           /\ \A a \in DOMAIN n.schema : NameOf(n, k[2]) = a <=> k[2] = n.schema[a].aid
<1>1. /\ Held(d, k[3]) /\ NameOf(d, k[2]) \in DOMAIN d.schema /\ d.schema[NameOf(d, k[2])].aid = k[2]  BY DatomIs
<1>2. NameOf(n, k[2]) = NameOf(d, k[2])  BY <1>1, NameIs
<1>3. Decode(n, k[3]) = Decode(d, k[3]) /\ Held(n, k[3])  BY <1>1 DEF Decode, Held
<1>4. \A a \in DOMAIN n.schema : NameOf(n, k[2]) = a <=> k[2] = n.schema[a].aid  BY <1>1, <1>2 DEF Named
<1> QED  BY <1>2, <1>3, <1>4 DEF DatomOf

\* The datoms of a database are the datoms of its keys.
LEMMA DatomsAre ==
    ASSUME NEW d
    PROVE  Datoms(d) = {DatomOf(d, k) : k \in d.eav}
BY DEF Datoms, DatomOf

\* A transaction changes the cardinality of no attribute.
LEMMA ManyStays ==
    ASSUME NEW new, NEW old, Extends(new, old)
    PROVE  ManyOf(new) = ManyOf(old)
BY DEF Extends, ManyOf

-----------------------------------------------------------------------------
(* Refinement *)

\* What an operation in an orderly transaction leaves of names and giants.
LEMMA ApplyKeeps ==
    ASSUME StoreTyped, SchemaInv, ~damaged, phase = "writing", NEW e \in Entities, NEW a \in Attrs,
           NEW sv \in StoreValues, Add(e, a, sv) \/ Retract(e, a, sv)
    PROVE  /\ sv \in Storable /\ Named(work) /\ DbInv(work) /\ DbInv(work')
           /\ \A b \in DOMAIN work.schema : b \in DOMAIN work'.schema /\ work'.schema[b].aid = work.schema[b].aid
           /\ \A i \in DOMAIN work.giants : i \in DOMAIN work'.giants /\ work'.giants[i] = work.giants[i]
           /\ a \in DOMAIN work'.schema /\ work'.schema[a].aid = InternedAid(a)
           /\ InternedProps(a).many <=> a \in ManyOf(db.schema)
           /\ \A b, c \in DOMAIN work'.schema : work'.schema[b].aid = work'.schema[c].aid => b = c
           /\ \A b \in DOMAIN work'.schema : work'.schema[b].aid \in 1..work'.nextAid
<1> DEFINE w == InternedWork(a)
<1>1. /\ sv \in Storable /\ DbInv(work') /\ InternCaches(a, InternedProps(a))
      /\ work'.schema = w.schema /\ work'.nextAid = w.nextAid
      /\ \A i \in DOMAIN work.giants : i \in DOMAIN work'.giants /\ work'.giants[i] = work.giants[i]
  BY AddIs, RetractIs
<1>2. /\ Named(w) /\ a \in DOMAIN w.schema /\ w.schema[a].aid = InternedAid(a) /\ Extends(w.schema, work.schema)
      /\ InternedProps(a).many <=> a \in DOMAIN work.schema /\ work.schema[a].many
  BY <1>1, InternNamed
<1>3. Named(work) /\ DbInv(work) /\ Extends(work.schema, db.schema)  BY DEF SchemaInv, StoreTyped
<1> HIDE DEF w
<1>4. InternedProps(a).many <=> a \in ManyOf(db.schema)
  <2>1. ManyOf(work.schema) = ManyOf(db.schema)  BY <1>3, ManyStays
  <2> QED  BY <1>2, <2>1 DEF ManyOf
<1>5. \A b \in DOMAIN work.schema : b \in DOMAIN w.schema /\ w.schema[b].aid = work.schema[b].aid
  BY <1>2 DEF Extends
<1>6. /\ \A b, c \in DOMAIN w.schema : w.schema[b].aid = w.schema[c].aid => b = c
      /\ \A b \in DOMAIN w.schema : w.schema[b].aid \in 1..w.nextAid
  BY <1>2 DEF Named
<1> QED  BY <1>1, <1>2, <1>3, <1>4, <1>5, <1>6

\* Op::Add adds one datom, and replaces the entity's others of a cardinality-one attribute.
LEMMA AddRefines ==
    ASSUME StoreTyped, SchemaInv, ~damaged, phase = "writing", Named(work'), NEW e \in Entities,
           NEW a \in Attrs, NEW sv \in StoreValues, Add(e, a, sv)
    PROVE  Datoms(work') = {d \in Datoms(work) : a \in ManyOf(db.schema) \/ d[1] # e \/ d[2] # a}
                              \cup {<<e, a, sv>>}
<1> DEFINE aid == InternedAid(a)
           gone == {<<e, aid, x>> : x \in Replaced(e, a)}
           stays(d) == a \in ManyOf(db.schema) \/ d[1] # e \/ d[2] # a
<1>0. /\ Named(work) /\ DbInv(work) /\ DbInv(work')
      /\ \A b \in DOMAIN work.schema : b \in DOMAIN work'.schema /\ work'.schema[b].aid = work.schema[b].aid
      /\ \A i \in DOMAIN work.giants : i \in DOMAIN work'.giants /\ work'.giants[i] = work.giants[i]
      /\ a \in DOMAIN work'.schema /\ work'.schema[a].aid = aid
      /\ InternedProps(a).many <=> a \in ManyOf(db.schema)
  BY ApplyKeeps
<1>1. PICK enc \in Encoded : /\ Decode(work', enc) = sv
                             /\ work'.eav = (work.eav \ gone) \cup {<<e, aid, enc>>}
  BY AddIs
<1> HIDE DEF aid
<1>2. DatomOf(work', <<e, aid, enc>>) = <<e, a, sv>>
  <2>1. NameOf(work', aid) = a  BY <1>0, NameIs
  <2> QED  BY <1>1, <2>1 DEF DatomOf
<1>3. ASSUME NEW k \in work.eav
      PROVE  /\ DatomOf(work', k) = DatomOf(work, k)
             /\ stays(DatomOf(work, k)) <=> k \notin gone
  <2>1. /\ DatomOf(work', k) = DatomOf(work, k) /\ (NameOf(work', k[2]) = a <=> k[2] = aid)
    BY <1>0, DatomSame
  <2>2. DatomOf(work', k)[1] = k[1] /\ DatomOf(work', k)[2] = NameOf(work', k[2])  BY DEF DatomOf
  <2>3. k = <<k[1], k[2], k[3]>>  BY <1>0, DatomIs
  <2>4. CASE InternedProps(a).many
    <3>1. gone = {}  BY <2>4 DEF Replaced
    <3> QED  BY <1>0, <2>1, <2>4, <3>1
  <2>5. CASE ~InternedProps(a).many
    <3>1. Replaced(e, a) = {j[3] : j \in {i \in work.eav : i[1] = e /\ i[2] = aid}}
      BY <2>5 DEF Replaced, EntityAttrValues, aid
    <3>2. k \in gone <=> k[1] = e /\ k[2] = aid
      <4>1. \A x : k = <<e, aid, x>> <=> k[1] = e /\ k[2] = aid /\ k[3] = x  BY <2>3
      <4> QED  BY <3>1, <4>1
    <3> HIDE DEF gone
    <3> QED  BY <1>0, <2>1, <2>2, <2>5, <3>2
  <2> QED  BY <2>4, <2>5
<1> HIDE DEF gone, stays
<1>4. Datoms(work') = {DatomOf(work, k) : k \in work.eav \ gone} \cup {<<e, a, sv>>}
  <2>1. Datoms(work') = {DatomOf(work', k) : k \in work'.eav}  BY DatomsAre
  <2> QED  BY <1>1, <1>2, <1>3, <2>1
<1>5. {DatomOf(work, k) : k \in work.eav \ gone} = {d \in Datoms(work) : stays(d)}
  <2>1. Datoms(work) = {DatomOf(work, k) : k \in work.eav}  BY DatomsAre
  <2> QED  BY <1>3, <2>1
<1> QED  BY <1>4, <1>5 DEF stays

\* Op::Retract takes one datom out.
LEMMA RetractRefines ==
    ASSUME StoreTyped, SchemaInv, ~damaged, phase = "writing", Named(work'), NEW e \in Entities,
           NEW a \in Attrs, NEW sv \in StoreValues, Retract(e, a, sv)
    PROVE  Datoms(work') = Datoms(work) \ {<<e, a, sv>>}
<1> DEFINE aid == InternedAid(a)
<1>0. /\ Named(work) /\ DbInv(work) /\ DbInv(work')
      /\ \A b \in DOMAIN work.schema : b \in DOMAIN work'.schema /\ work'.schema[b].aid = work.schema[b].aid
      /\ \A i \in DOMAIN work.giants : i \in DOMAIN work'.giants /\ work'.giants[i] = work.giants[i]
      /\ a \in DOMAIN work'.schema /\ work'.schema[a].aid = aid
  BY ApplyKeeps
<1>1. PICK enc \in Encoded : /\ enc[1] = "giant" => enc[2] \in DOMAIN work'.giants
                             /\ Decode(work', enc) = sv
                             /\ work'.eav = work.eav \ {<<e, aid, enc>>}
  BY RetractIs
<1> HIDE DEF aid
<1>2. Held(work', enc) /\ Stored(work')  BY <1>0, <1>1 DEF Held, DbInv
<1>3. ASSUME NEW k \in work.eav
      PROVE  /\ DatomOf(work', k) = DatomOf(work, k)
             /\ DatomOf(work, k) = <<e, a, sv>> <=> k = <<e, aid, enc>>
  <2>1. /\ DatomOf(work', k) = DatomOf(work, k) /\ (NameOf(work', k[2]) = a <=> k[2] = aid) /\ Held(work', k[3])
    BY <1>0, DatomSame
  <2>2. k = <<k[1], k[2], k[3]>>  BY <1>0, DatomIs
  <2>3. Decode(work', k[3]) = sv <=> k[3] = enc  BY <1>1, <1>2, <2>1, DecodeDiffers
  <2>4. DatomOf(work', k) = <<k[1], NameOf(work', k[2]), Decode(work', k[3])>>  BY DEF DatomOf
  <2>5. DatomOf(work', k) = <<e, a, sv>> <=> k[1] = e /\ NameOf(work', k[2]) = a /\ Decode(work', k[3]) = sv
    BY <2>4
  <2>6. k = <<e, aid, enc>> <=> k[1] = e /\ k[2] = aid /\ k[3] = enc  BY <2>2
  <2> QED  BY <2>1, <2>3, <2>5, <2>6
<1>4. Datoms(work') = {DatomOf(work', k) : k \in work'.eav} /\ Datoms(work) = {DatomOf(work, k) : k \in work.eav}
  BY DatomsAre
<1> DEFINE key == <<e, aid, enc>>
           dat == <<e, a, sv>>
<1> HIDE DEF key, dat
<1>5. work'.eav = work.eav \ {key}  BY <1>1 DEF key
<1>6. \A k \in work.eav : DatomOf(work', k) = DatomOf(work, k) /\ (DatomOf(work, k) = dat <=> k = key)
  BY <1>3 DEF key, dat
<1>7. Datoms(work') = Datoms(work) \ {dat}  BY <1>4, <1>5, <1>6
<1> QED  BY <1>7 DEF dat

\* set_attr changes no datom.
LEMMA DeclareRefines ==
    ASSUME StoreTyped, SchemaInv, ~damaged', Named(db'), NEW a \in Attrs, NEW p \in Props, SetAttr(a, p)
    PROVE  Datoms(db') = Datoms(db) /\ work = db /\ work' = db'
<1>1. /\ work = db /\ work' = db' /\ db'.eav = db.eav /\ db'.giants = db.giants
      /\ damaged' = (damaged \/ ~Coherent)
  BY SetAttrIs
<1>2. ~damaged /\ attrs = db.schema  BY <1>1 DEF Coherent
<1>3. \A b \in DOMAIN db.schema : b \in DOMAIN db'.schema /\ db'.schema[b].aid = db.schema[b].aid
  BY <1>2, DeclaredSchema
<1>4. DbInv(db) /\ Named(db)  BY <1>2 DEF StoreTyped, SchemaInv
<1>5. \A k \in db.eav : DatomOf(db', k) = DatomOf(db, k)  BY <1>1, <1>3, <1>4, DatomSame
<1>6. Datoms(db') = {DatomOf(db', k) : k \in db'.eav} /\ Datoms(db) = {DatomOf(db, k) : k \in db.eav}
  BY DatomsAre
<1> QED  BY <1>1, <1>5, <1>6

\* Each step is a step of the set of datoms, or leaves it alone.
LEMMA RefineStep ==
    ASSUME StoreInv, StoreInv', [Next]_vars, ~damaged'
    PROVE  Abs!Next \/ UNCHANGED <<Datoms(db), Datoms(work), ManyOf(db.schema)>>
<1>d. ~damaged
  BY DEF vars, Next, Open, Begin, Commit, StorageError, Crash, OpFails, Apply, SetAttr, SetAttrFails
<1>i. StoreTyped /\ SchemaInv  BY DEF StoreInv
<1>n. Named(db') /\ Named(work') /\ DbInv(db')  BY DEF StoreInv, StoreTyped, SchemaInv
<1>0. CASE UNCHANGED vars  BY <1>0 DEF vars
<1>1. CASE Open \/ Begin  BY <1>1 DEF Open, Begin
<1>2. CASE Commit
  <2>1. phase = "writing" /\ db' = work /\ work' = work  BY <1>2 DEF Commit
  <2>2. ManyOf(work.schema) = ManyOf(db.schema)  BY <1>d, <1>i, <2>1, ManyStays DEF SchemaInv
  <2>3. Abs!Commit  BY <2>1, <2>2 DEF Abs!Commit
  <2> QED  BY <2>3 DEF Abs!Next
<1>3. CASE StorageError \/ Crash \/ \E a \in Attrs, v \in Values : OpFails(a, v)
  <2>1. work' = db /\ db' = db  BY <1>3 DEF StorageError, Crash, OpFails
  <2>2. Abs!Forget  BY <2>1 DEF Abs!Forget
  <2> QED  BY <2>2 DEF Abs!Next
<1>4. ASSUME NEW a \in Attrs, NEW v \in Values, NEW e \in Entities, Apply(e, a, v) PROVE Abs!Next
  <2> DEFINE sv == ToStoreValue(a, v)
  <2>1. phase = "writing" /\ db' = db /\ (Add(e, a, sv) \/ Retract(e, a, sv))  BY <1>4 DEF Apply
  <2>2. sv \in StoreValues  BY ConvertIs
  <2> HIDE DEF sv
  <2>3. CASE Add(e, a, sv)
    <3>1. Datoms(work') = {d \in Datoms(work) : a \in ManyOf(db.schema) \/ d[1] # e \/ d[2] # a} \cup {<<e, a, sv>>}
      BY <1>d, <1>i, <1>n, <2>1, <2>2, <2>3, AddRefines
    <3>2. Abs!Add(e, a, sv)  BY <2>1, <3>1 DEF Abs!Add
    <3> QED  BY <2>2, <3>2 DEF Abs!Next
  <2>4. CASE Retract(e, a, sv)
    <3>1. Datoms(work') = Datoms(work) \ {<<e, a, sv>>}
      BY <1>d, <1>i, <1>n, <2>1, <2>2, <2>4, RetractRefines
    <3>2. Abs!Retract(e, a, sv)  BY <2>1, <3>1 DEF Abs!Retract
    <3> QED  BY <2>2, <3>2 DEF Abs!Next
  <2> QED  BY <2>1, <2>3, <2>4
<1>5. ASSUME NEW a \in Attrs, NEW p \in Props, SetAttr(a, p) PROVE Abs!Next
  <2>1. Datoms(db') = Datoms(db) /\ work = db /\ work' = db'  BY <1>5, <1>i, <1>n, DeclareRefines
  <2>2. ManyOf(db'.schema) \in SUBSET Attrs  BY <1>n DEF ManyOf, DbInv, IsTable
  <2>3. Abs!Declare  BY <2>1, <2>2 DEF Abs!Declare
  <2> QED  BY <2>3 DEF Abs!Next
<1>6. ASSUME NEW a \in Attrs, NEW p \in Props, SetAttrFails(a, p)
      PROVE  UNCHANGED <<Datoms(db), Datoms(work), ManyOf(db.schema)>>
  BY <1>6 DEF SetAttrFails
<1>7. CASE \E a \in Attrs, v \in Values, e \in Entities : Apply(e, a, v)  BY <1>4, <1>7
<1>8. CASE \E a \in Attrs, p \in Props : SetAttr(a, p)  BY <1>5, <1>8
<1>9. CASE \E a \in Attrs, p \in Props : SetAttrFails(a, p)  BY <1>6, <1>9
<1> QED  BY <1>0, <1>1, <1>2, <1>3, <1>7, <1>8, <1>9 DEF Next

\* transact is atomic: whatever operations fail, whatever storage errors occur and
\* wherever the process dies, the committed datoms change only as the set of datoms of
\* DatomSet does, for any attributes, entities and values, as long as no transaction
\* began with tables that were not the schema.
THEOREM TransactIsAtomic == Spec => ImplementsDatomSet
<1>1. StoreInv /\ StoreInv' /\ [Next]_vars =>
          (~damaged' => (Abs!Next \/ UNCHANGED <<Datoms(db), Datoms(work), ManyOf(db.schema)>>))
  BY RefineStep
<1> QED  BY <1>1, StoreInvariant, PTL DEF Spec, ImplementsDatomSet

-----------------------------------------------------------------------------
(* Reads *)

\* When the store is read.
AtRest == StoreInv /\ ~damaged /\ phase = "idle"

\* The keys of the datoms with a pattern.
Chosen(e, a, sv) ==
    {k \in db.eav : /\ e = AnyEntity \/ k[1] = e
                    /\ a = AnyAttr \/ NameOf(db, k[2]) = a
                    /\ sv = AnyValue \/ Decode(db, k[3]) = sv}

\* The datoms with a pattern.
Wanted(e, a, sv) ==
    {d \in Datoms(db) : e \in {AnyEntity, d[1]} /\ a \in {AnyAttr, d[2]} /\ sv \in {AnyValue, d[3]}}

PatternEntities == Entities \cup {AnyEntity}
PatternAttrs == Attrs \cup {AnyAttr}
PatternValues == {x \in StoreValues : Encodable(x)} \cup {AnyValue}

\* They are the datoms of the chosen keys.
LEMMA WantedIs == \A e, a, sv : Wanted(e, a, sv) = {DatomOf(db, k) : k \in Chosen(e, a, sv)}
<1> SUFFICES ASSUME NEW e, NEW a, NEW sv PROVE Wanted(e, a, sv) = {DatomOf(db, k) : k \in Chosen(e, a, sv)}
  OBVIOUS
<1>1. \A k : DatomOf(db, k)[1] = k[1] /\ DatomOf(db, k)[2] = NameOf(db, k[2]) /\ DatomOf(db, k)[3] = Decode(db, k[3])
  BY DEF DatomOf
<1>2. Datoms(db) = {DatomOf(db, k) : k \in db.eav}  BY DatomsAre
<1>3. \A k \in db.eav : k \in Chosen(e, a, sv) <=> /\ e \in {AnyEntity, DatomOf(db, k)[1]}
                                                   /\ a \in {AnyAttr, DatomOf(db, k)[2]}
                                                   /\ sv \in {AnyValue, DatomOf(db, k)[3]}
  BY <1>1 DEF Chosen
<1>4. Chosen(e, a, sv) \subseteq db.eav  BY DEF Chosen
<1> QED  BY <1>2, <1>3, <1>4 DEF Wanted

\* A scan succeeds on keys of the index, and decodes each.
LEMMA ScanIs ==
    ASSUME AtRest, NEW keys \in SUBSET db.eav
    PROVE  ScanEav(keys) = [ok |-> TRUE, datoms |-> {DatomOf(db, k) : k \in keys}]
<1>1. DbInv(db) /\ Named(db) /\ Knows(attrs, names, db.schema)  BY DEF AtRest, StoreInv, StoreTyped, SchemaInv
<1>2. ASSUME NEW k \in keys
      PROVE  /\ k[2] \in DOMAIN names /\ names[k[2]] = NameOf(db, k[2])
             /\ k[3][1] = "giant" => k[3][2] \in DOMAIN db.giants
  <2>1. /\ NameOf(db, k[2]) \in DOMAIN db.schema /\ db.schema[NameOf(db, k[2])].aid = k[2] /\ Held(db, k[3])
    BY <1>1, DatomIs
  <2> QED  BY <1>1, <2>1 DEF Knows, Held
<1>3. {<<k[1], names[k[2]], Decode(db, k[3])>> : k \in keys} = {DatomOf(db, k) : k \in keys}
  BY <1>2 DEF DatomOf
<1> QED  BY <1>2, <1>3 DEF ScanEav

\* The aid of an attribute the tables have finds the attribute's keys, and there are
\* none of an attribute they do not have.
LEMMA AidFinds ==
    ASSUME AtRest, NEW k \in db.eav, NEW a \in Attrs
    PROVE  /\ a \in DOMAIN attrs => (k[2] = attrs[a].aid <=> NameOf(db, k[2]) = a)
           /\ a \notin DOMAIN attrs => NameOf(db, k[2]) # a
<1>1. /\ DbInv(db) /\ Named(db) /\ Knows(attrs, names, db.schema) /\ IsTable(attrs) /\ db.nextAid \in Nat
      /\ \A b \in DOMAIN attrs \ DOMAIN db.schema : attrs[b].aid > db.nextAid
  BY DEF AtRest, StoreInv, StoreTyped, SchemaInv, DbInv
<1>2. /\ NameOf(db, k[2]) \in DOMAIN db.schema /\ db.schema[NameOf(db, k[2])].aid = k[2]
      /\ \A b \in DOMAIN db.schema : NameOf(db, k[2]) = b <=> k[2] = db.schema[b].aid
  BY <1>1, DatomIs
<1>3. CASE a \in DOMAIN db.schema  BY <1>1, <1>2, <1>3 DEF Knows
<1>4. CASE a \in DOMAIN attrs /\ a \notin DOMAIN db.schema
  <2>1. k[2] \in 1..db.nextAid  BY <1>1, <1>2 DEF Named
  <2>2. attrs[a].aid > db.nextAid  BY <1>1, <1>4
  <2>3. k[2] # attrs[a].aid  BY <1>1, <2>1, <2>2
  <2> QED  BY <1>2, <1>4, <2>3
<1>5. CASE a \notin DOMAIN attrs /\ a \notin DOMAIN db.schema  BY <1>2, <1>5
<1> QED  BY <1>3, <1>4, <1>5

\* encode_value_readonly finds the keys of a value.
LEMMA ReadonlyFinds ==
    ASSUME AtRest, NEW k \in db.eav, NEW sv \in Storable
    PROVE  k[3] = EncodeReadonly(db, sv) <=> Decode(db, k[3]) = sv
<1>1. DbInv(db) /\ Named(db) /\ Stored(db)  BY DEF AtRest, StoreInv, StoreTyped, SchemaInv, DbInv
<1>2. Held(db, k[3])  BY <1>1, DatomIs
<1>3. CASE sv[1] = "str" /\ sv[2] \notin Range(db.giants)
  <2>1. EncodeReadonly(db, sv) = <<"giant", 0>>  BY <1>3 DEF EncodeReadonly
  <2>2. 0 \notin DOMAIN db.giants  BY <1>1 DEF Stored
  <2>3. k[3] # <<"giant", 0>>  BY <1>2, <2>2 DEF Held
  <2>4. k[3][1] = "giant" => db.giants[k[3][2]] # sv[2]  BY <1>2, <1>3 DEF Held, Range
  <2>5. Decode(db, k[3]) # sv
    <3>1. CASE k[3][1] = "giant"
      <4>1. Decode(db, k[3])[2] = db.giants[k[3][2]]  BY <3>1 DEF Decode
      <4> QED  BY <2>4, <3>1, <4>1
    <3>2. CASE k[3][1] # "giant"
      <4>1. Decode(db, k[3]) = k[3]  BY <3>2 DEF Decode
      <4>2. k[3][1] # "str"  BY <1>2 DEF Held, Encoded
      <4> QED  BY <1>3, <4>1, <4>2
    <3> QED  BY <3>1, <3>2
  <2> QED  BY <2>1, <2>3, <2>5
<1>4. CASE ~(sv[1] = "str" /\ sv[2] \notin Range(db.giants))
  <2>1. EncodeReadonly(db, sv) = Encode(db, sv)  BY <1>4 DEF EncodeReadonly
  <2>2. sv[1] = "str" => \E i \in DOMAIN db.giants : db.giants[i] = sv[2]  BY <1>4 DEF Range
  <2>3. Held(db, Encode(db, sv)) /\ Decode(db, Encode(db, sv)) = sv  BY <1>1, <2>2, EncodeIs DEF Held
  <2> QED  BY <1>1, <1>2, <2>1, <2>3, DecodeDiffers
<1> QED  BY <1>3, <1>4

\* Wildcards are no entities, attributes or values.
LEMMA WildcardsAre ==
    /\ AnyEntity \notin Entities /\ AnyAttr \notin Attrs /\ AnyValue \notin Storable
    /\ AnyValue[1] = "any" /\ PatternValues = Storable \cup {AnyValue}
<1>1. AnyEntity \notin Entities  BY DatalogAssumption DEF AnyEntity
<1>2. AnyAttr \notin Attrs  BY DatalogAssumption DEF AnyAttr
<1>3. AnyValue[1] = "any"  BY DEF AnyValue
<1>4. AnyValue \notin Storable  BY <1>3, StorableIs
<1> QED  BY <1>1, <1>2, <1>3, <1>4, StorableIs DEF PatternValues

\* A search with the value in its prefix.
HasValue(sv, x) == sv = AnyValue \/ x = EncodeReadonly(db, sv)

\* The keys under one entity and attribute, in eav.
LEMMA ByEntity ==
    ASSUME AtRest, NEW e \in Entities, NEW a \in Attrs, a \in DOMAIN attrs, NEW sv \in PatternValues
    PROVE  {k \in db.eav : k[1] = e /\ k[2] = attrs[a].aid /\ HasValue(sv, k[3])} = Chosen(e, a, sv)
<1>1. ASSUME NEW k \in db.eav PROVE HasValue(sv, k[3]) <=> sv = AnyValue \/ Decode(db, k[3]) = sv
  BY ReadonlyFinds, WildcardsAre DEF HasValue
<1>2. \A k \in db.eav : k[2] = attrs[a].aid <=> NameOf(db, k[2]) = a  BY AidFinds
<1>3. e # AnyEntity /\ a # AnyAttr  BY WildcardsAre
<1> QED  BY <1>1, <1>2, <1>3 DEF Chosen

\* The keys under one attribute, in ave.
LEMMA ByAttr ==
    ASSUME AtRest, NEW a \in Attrs, a \in DOMAIN attrs, NEW sv \in PatternValues
    PROVE  LET found == {k \in db.ave : k[1] = attrs[a].aid /\ HasValue(sv, k[2])} IN
           /\ {<<k[3], k[1], k[2]>> : k \in found} = Chosen(AnyEntity, a, sv)
           /\ \A k \in found : k = <<k[1], k[2], k[3]>>
<1> DEFINE found == {k \in db.ave : k[1] = attrs[a].aid /\ HasValue(sv, k[2])}
           aid == attrs[a].aid
<1>1. ASSUME NEW k \in db.eav PROVE HasValue(sv, k[3]) <=> sv = AnyValue \/ Decode(db, k[3]) = sv
  BY ReadonlyFinds, WildcardsAre DEF HasValue
<1>2. \A k \in db.eav : k[2] = aid <=> NameOf(db, k[2]) = a  BY AidFinds
<1>3. a # AnyAttr  BY WildcardsAre
<1>4. Chosen(AnyEntity, a, sv) = {k \in db.eav : k[2] = aid /\ HasValue(sv, k[3])}
  BY <1>1, <1>2, <1>3 DEF Chosen
<1>5. db.ave = {<<k[2], k[3], k[1]>> : k \in db.eav}  BY DEF AtRest, StoreInv, StoreTyped, DbInv, Transposed
<1>6. \A k \in db.eav : k = <<k[1], k[2], k[3]>>  BY KeyIs DEF AtRest, StoreInv, StoreTyped, DbInv, Keys
<1> HIDE DEF aid
<1>7. ASSUME NEW k \in found PROVE <<k[3], k[1], k[2]>> \in db.eav /\ k = <<k[1], k[2], k[3]>>
  <2>1. PICK j \in db.eav : k = <<j[2], j[3], j[1]>>  BY <1>5
  <2>2. k[1] = j[2] /\ k[2] = j[3] /\ k[3] = j[1]  BY <2>1
  <2> QED  BY <1>6, <2>1, <2>2
<1>8. ASSUME NEW k \in found PROVE <<k[3], k[1], k[2]>> \in Chosen(AnyEntity, a, sv)
  BY <1>4, <1>7 DEF aid
<1>9. ASSUME NEW j \in Chosen(AnyEntity, a, sv) PROVE \E k \in found : j = <<k[3], k[1], k[2]>>
  <2>1. j \in db.eav /\ j[2] = aid /\ HasValue(sv, j[3]) /\ j = <<j[1], j[2], j[3]>>  BY <1>4, <1>6
  <2> DEFINE k == <<j[2], j[3], j[1]>>
  <2>2. k \in db.ave  BY <1>5, <2>1
  <2>3. k[1] = j[2] /\ k[2] = j[3] /\ k[3] = j[1]  OBVIOUS
  <2> HIDE DEF k
  <2>4. k \in found  BY <2>1, <2>2, <2>3 DEF aid
  <2> QED  BY <2>1, <2>3, <2>4
<1>10. {<<k[3], k[1], k[2]>> : k \in found} = Chosen(AnyEntity, a, sv)
  <2> HIDE DEF found
  <2> QED  BY <1>8, <1>9
<1> QED  BY <1>7, <1>10

\* The keys with one reference, in vae.
LEMMA ByReference ==
    ASSUME AtRest, NEW sv \in Storable, sv[1] = "ref"
    PROVE  LET found == {k \in db.vae : k[1] = sv[2]} IN
           /\ {<<k[3], k[2], <<"ref", k[1]>>>> : k \in found} = Chosen(AnyEntity, AnyAttr, sv)
           /\ \A k \in found : k = <<k[1], k[2], k[3]>>
<1> DEFINE found == {k \in db.vae : k[1] = sv[2]}
<1>1. db.vae = {<<k[3][2], k[2], k[1]>> : k \in {j \in db.eav : j[3][1] = "ref"}}
  BY DEF AtRest, StoreInv, StoreTyped, DbInv, Transposed
<1>2. \A k \in db.eav : /\ k = <<k[1], k[2], k[3]>> /\ k[3] = <<k[3][1], k[3][2]>>
                        /\ k[3][1] \in {"long", "ref", "giant"}
  BY KeyIs DEF AtRest, StoreInv, StoreTyped, DbInv, Keys
<1>3. sv = <<"ref", sv[2]>> /\ sv # AnyValue  BY StorableIs, WildcardsAre
<1>4. \A k \in db.eav : Decode(db, k[3]) = sv <=> k[3] = sv
  <2> SUFFICES ASSUME NEW k \in db.eav PROVE Decode(db, k[3]) = sv <=> k[3] = sv  OBVIOUS
  <2>1. CASE k[3][1] = "giant"
    <3>1. Decode(db, k[3])[1] = "str"  BY <2>1 DEF Decode
    <3> QED  BY <2>1, <3>1
  <2>2. CASE k[3][1] # "giant"  BY <2>2 DEF Decode
  <2> QED  BY <2>1, <2>2
<1>5. Chosen(AnyEntity, AnyAttr, sv) = {k \in db.eav : k[3] = sv}  BY <1>3, <1>4 DEF Chosen
<1>6. ASSUME NEW k \in found
      PROVE  <<k[3], k[2], <<"ref", k[1]>>>> \in db.eav /\ k = <<k[1], k[2], k[3]>>
  <2>1. PICK j \in db.eav : j[3][1] = "ref" /\ k = <<j[3][2], j[2], j[1]>>  BY <1>1
  <2>2. k[1] = j[3][2] /\ k[2] = j[2] /\ k[3] = j[1]  BY <2>1
  <2>3. <<"ref", k[1]>> = j[3]  BY <1>2, <2>1, <2>2
  <2> QED  BY <1>2, <2>1, <2>2, <2>3
<1>7. ASSUME NEW k \in found PROVE <<k[3], k[2], <<"ref", k[1]>>>> \in Chosen(AnyEntity, AnyAttr, sv)
  <2>1. <<"ref", k[1]>> = sv  BY <1>3
  <2> QED  BY <1>5, <1>6, <2>1
<1>8. ASSUME NEW j \in Chosen(AnyEntity, AnyAttr, sv)
      PROVE  \E k \in found : j = <<k[3], k[2], <<"ref", k[1]>>>>
  <2>1. j \in db.eav /\ j[3] = sv /\ j = <<j[1], j[2], j[3]>> /\ j[3][1] = "ref"  BY <1>2, <1>5
  <2> DEFINE k == <<j[3][2], j[2], j[1]>>
  <2>2. k \in db.vae  BY <1>1, <2>1
  <2>3. k[1] = sv[2] /\ k[2] = j[2] /\ k[3] = j[1]  BY <2>1
  <2> HIDE DEF k
  <2>4. k \in found  BY <2>2, <2>3
  <2> QED  BY <1>3, <2>1, <2>3, <2>4
<1>9. {<<k[3], k[2], <<"ref", k[1]>>>> : k \in found} = Chosen(AnyEntity, AnyAttr, sv)
  <2> HIDE DEF found
  <2> QED  BY <1>7, <1>8
<1> QED  BY <1>6, <1>9

\* An answer with other datoms.
LEMMA WithDatoms ==
    ASSUME NEW S, NEW r \in [ok : BOOLEAN, datoms : S], NEW y \in S, r.ok
    PROVE  [r EXCEPT !.datoms = y] = [ok |-> TRUE, datoms |-> y]
<1> DEFINE n == [r EXCEPT !.datoms = y]
<1>1. n \in [ok : BOOLEAN, datoms : S] /\ n.ok = TRUE /\ n.datoms = y  OBVIOUS
<1>2. ASSUME NEW z \in [ok : BOOLEAN, datoms : S], z.ok, z.datoms = y PROVE z = [ok |-> TRUE, datoms |-> y]
  BY <1>2
<1> HIDE DEF n
<1>3. n = [ok |-> TRUE, datoms |-> y]  BY <1>1, <1>2
<1> QED  BY <1>3 DEF n

\* A scan whose datoms are kept or dropped by their value.
LEMMA RetainIs ==
    ASSUME AtRest, NEW keys \in SUBSET db.eav, NEW sv
    PROVE  Retain(ScanEav(keys), sv) =
               [ok |-> TRUE, datoms |-> {DatomOf(db, k) : k \in {j \in keys : sv = AnyValue \/ Decode(db, j[3]) = sv}}]
<1> DEFINE all == {DatomOf(db, k) : k \in keys}
<1>1. ScanEav(keys) = [ok |-> TRUE, datoms |-> all]  BY ScanIs
<1>2. \A k : DatomOf(db, k)[3] = Decode(db, k[3])  BY DEF DatomOf
<1>3. {d \in all : sv = AnyValue \/ d[3] = sv} =
          {DatomOf(db, k) : k \in {j \in keys : sv = AnyValue \/ Decode(db, j[3]) = sv}}
  BY <1>2
<1> HIDE DEF all
<1>4. Retain(ScanEav(keys), sv) = [ok |-> TRUE, datoms |-> {d \in all : sv = AnyValue \/ d[3] = sv}]
  <2> DEFINE r == [ok |-> TRUE, datoms |-> all]
             kept == {d \in all : sv = AnyValue \/ d[3] = sv}
  <2>1. r \in [ok : BOOLEAN, datoms : SUBSET all] /\ r.ok /\ r.datoms = all /\ kept \in SUBSET all  OBVIOUS
  <2> HIDE DEF r
  <2>2. Retain(r, sv) = [r EXCEPT !.datoms = kept]  BY <2>1 DEF Retain
  <2> HIDE DEF kept
  <2>3. Retain(r, sv) = [ok |-> TRUE, datoms |-> kept]  BY <2>1, <2>2, WithDatoms
  <2> QED  BY <1>1, <2>3 DEF r, kept
<1> QED  BY <1>3, <1>4

\* search finds the keys with the pattern, whichever index it takes.
LEMMA SearchIs ==
    ASSUME AtRest, NEW e \in PatternEntities, NEW a \in PatternAttrs, NEW sv \in PatternValues
    PROVE  Search(e, a, sv) = [ok |-> TRUE, datoms |-> Wanted(e, a, sv)]
<1> DEFINE answer(keys) == [ok |-> TRUE, datoms |-> {DatomOf(db, k) : k \in keys}]
<1>0. /\ Chosen(e, a, sv) \in SUBSET db.eav /\ DOMAIN attrs \subseteq Attrs /\ AnyAttr \notin DOMAIN attrs
      /\ e # AnyEntity => e \in Entities
      /\ a # AnyAttr => a \in Attrs
  BY WildcardsAre DEF Chosen, AtRest, StoreInv, StoreTyped, IsTable, PatternEntities, PatternAttrs
<1>1. SUFFICES Search(e, a, sv) = answer(Chosen(e, a, sv))  BY WantedIs
<1>2. CASE a # AnyAttr /\ a \notin DOMAIN attrs
  <2>1. Chosen(e, a, sv) = {}  BY <1>0, <1>2, AidFinds DEF Chosen
  <2>2. Search(e, a, sv) = [ok |-> TRUE, datoms |-> {}]  BY <1>2 DEF Search
  <2> QED  BY <2>1, <2>2
<1>3. CASE e # AnyEntity /\ a \in DOMAIN attrs
  <2>1. Search(e, a, sv) = ScanEav({k \in db.eav : k[1] = e /\ k[2] = attrs[a].aid /\ HasValue(sv, k[3])})
    BY <1>0, <1>3 DEF Search, HasValue
  <2> QED  BY <1>0, <1>3, <2>1, ByEntity, ScanIs
<1>4. CASE e # AnyEntity /\ a = AnyAttr
  <2> DEFINE keys == {k \in db.eav : k[1] = e}
  <2>1. Search(e, a, sv) = Retain(ScanEav(keys), sv)  BY <1>0, <1>4 DEF Search
  <2>2. {j \in keys : sv = AnyValue \/ Decode(db, j[3]) = sv} = Chosen(e, a, sv)  BY <1>4 DEF Chosen
  <2>3. keys \in SUBSET db.eav  OBVIOUS
  <2> HIDE DEF keys
  <2> QED  BY <2>1, <2>2, <2>3, RetainIs
<1>5. CASE e = AnyEntity /\ a \in DOMAIN attrs
  <2> DEFINE found == {k \in db.ave : k[1] = attrs[a].aid /\ HasValue(sv, k[2])}
  <2>1. Search(e, a, sv) = ScanAve(found)  BY <1>0, <1>5 DEF Search, HasValue
  <2>2. {<<k[3], k[1], k[2]>> : k \in found} = Chosen(e, a, sv)  BY <1>0, <1>5, ByAttr
  <2> HIDE DEF found
  <2>3. Search(e, a, sv) = ScanEav(Chosen(e, a, sv))  BY <2>1, <2>2 DEF ScanAve
  <2> QED  BY <1>0, <2>3, ScanIs
<1>6. CASE e = AnyEntity /\ a = AnyAttr /\ sv[1] = "ref"
  <2> DEFINE found == {k \in db.vae : k[1] = sv[2]}
  <2>0. sv \in Storable  BY <1>6, WildcardsAre
  <2>1. Search(e, a, sv) = ScanVae(found)  BY <1>0, <1>6 DEF Search
  <2>2. {<<k[3], k[2], <<"ref", k[1]>>>> : k \in found} = Chosen(e, a, sv)  BY <1>6, <2>0, ByReference
  <2> HIDE DEF found
  <2>3. Search(e, a, sv) = ScanEav(Chosen(e, a, sv))  BY <2>1, <2>2 DEF ScanVae
  <2> QED  BY <1>0, <2>3, ScanIs
<1>7. CASE e = AnyEntity /\ a = AnyAttr /\ sv[1] # "ref"
  <2>1. Search(e, a, sv) = Retain(ScanEav(db.eav), sv)  BY <1>0, <1>7 DEF Search
  <2>2. {j \in db.eav : sv = AnyValue \/ Decode(db, j[3]) = sv} = Chosen(e, a, sv)  BY <1>7 DEF Chosen
  <2>3. db.eav \in SUBSET db.eav  OBVIOUS
  <2> QED  BY <2>1, <2>2, <2>3, RetainIs
<1> QED  BY <1>2, <1>3, <1>4, <1>5, <1>6, <1>7

\* Sets whose elements correspond one to one.
LEMMA SameSize ==
    ASSUME NEW S, IsFiniteSet(S), NEW T, NEW f \in [S -> T],
           \A x, y \in S : f[x] = f[y] => x = y, \A t \in T : \E x \in S : f[x] = t
    PROVE  Cardinality(T) = Cardinality(S) /\ IsFiniteSet(T)
<1>1. f \in Bijection(S, T)  BY DEF Bijection, Injection, Surjection, IsInjective
<1> QED  BY <1>1, FS_Bijection DEF ExistsBijection

\* There are as many datoms with a pattern as keys.
LEMMA WantedSize ==
    ASSUME AtRest, NEW e, NEW a, NEW sv
    PROVE  Cardinality(Wanted(e, a, sv)) = Cardinality(Chosen(e, a, sv)) /\ IsFiniteSet(Chosen(e, a, sv))
<1> DEFINE S == Chosen(e, a, sv)
           T == Wanted(e, a, sv)
           f == [k \in S |-> DatomOf(db, k)]
<1>0. DbInv(db) /\ Named(db) /\ Stored(db) /\ IsFiniteSet(db.eav) /\ S \in SUBSET db.eav
  BY DEF AtRest, StoreInv, StoreTyped, SchemaInv, DbInv, Keys, Chosen
<1>1. IsFiniteSet(S)  BY <1>0, FS_Subset
<1>2. T = {DatomOf(db, k) : k \in S}  BY WantedIs
<1> HIDE DEF S, T
<1>3. f \in [S -> T]  BY <1>2
<1>4. ASSUME NEW x \in S, NEW y \in S, DatomOf(db, x) = DatomOf(db, y) PROVE x = y
  <2>1. x[1] = y[1] /\ NameOf(db, x[2]) = NameOf(db, y[2]) /\ Decode(db, x[3]) = Decode(db, y[3])
    BY <1>4 DEF DatomOf
  <2>2. ASSUME NEW k \in S
        PROVE  Held(db, k[3]) /\ k = <<k[1], k[2], k[3]>> /\ db.schema[NameOf(db, k[2])].aid = k[2]
    BY <1>0, DatomIs
  <2>3. x[3] = y[3]  BY <1>0, <2>1, <2>2, DecodeDiffers
  <2>4. x[2] = y[2]  BY <2>1, <2>2
  <2>5. x = <<x[1], x[2], x[3]>> /\ y = <<y[1], y[2], y[3]>>  BY <2>2
  <2> QED  BY <2>1, <2>3, <2>4, <2>5
<1>5. \A x, y \in S : f[x] = f[y] => x = y  BY <1>4
<1>6. \A t \in T : \E x \in S : f[x] = t  BY <1>2
<1> HIDE DEF f
<1> QED  BY <1>1, <1>3, <1>5, <1>6, SameSize DEF S, T

\* count counts keys of one index, as many as there are datoms with the pattern.
LEMMA CountIs ==
    ASSUME AtRest, NEW e \in PatternEntities, NEW a \in PatternAttrs, NEW sv \in PatternValues
    PROVE  Count(e, a, sv) = Cardinality(Wanted(e, a, sv))
<1>0. /\ AnyAttr \notin DOMAIN attrs /\ AnyValue[1] # "ref"
      /\ e # AnyEntity => e \in Entities
      /\ a # AnyAttr => a \in Attrs
  BY WildcardsAre DEF AtRest, StoreInv, StoreTyped, IsTable, PatternEntities, PatternAttrs
<1>1. /\ Cardinality(Wanted(e, a, sv)) = Cardinality(Chosen(e, a, sv)) /\ IsFiniteSet(Chosen(e, a, sv))
  BY WantedSize
<1>2. CASE a # AnyAttr /\ a \notin DOMAIN attrs
  <2>1. Chosen(e, a, sv) = {}  BY <1>0, <1>2, AidFinds DEF Chosen
  <2>2. Count(e, a, sv) = Cardinality({})  BY <1>2 DEF Count
  <2> QED  BY <1>1, <2>1, <2>2
<1>3. CASE e # AnyEntity /\ a = AnyAttr /\ sv = AnyValue
  <2>1. Chosen(e, a, sv) = {k \in db.eav : k[1] = e}  BY <1>3 DEF Chosen
  <2>2. Count(e, a, sv) = Cardinality({k \in db.eav : k[1] = e})  BY <1>0, <1>3 DEF Count
  <2> QED  BY <1>1, <2>1, <2>2
<1>4. CASE e # AnyEntity /\ a \in DOMAIN attrs
  <2>1. Count(e, a, sv) = Cardinality({k \in db.eav : k[1] = e /\ k[2] = attrs[a].aid /\ HasValue(sv, k[3])})
    BY <1>0, <1>4 DEF Count, HasValue
  <2>2. {k \in db.eav : k[1] = e /\ k[2] = attrs[a].aid /\ HasValue(sv, k[3])} = Chosen(e, a, sv)
    BY <1>0, <1>4, ByEntity
  <2> QED  BY <1>1, <2>1, <2>2
<1>5. CASE e = AnyEntity /\ a \in DOMAIN attrs
  <2> DEFINE found == {k \in db.ave : k[1] = attrs[a].aid /\ HasValue(sv, k[2])}
             S == Chosen(e, a, sv)
             f == [k \in S |-> <<k[2], k[3], k[1]>>]
  <2>1. Count(e, a, sv) = Cardinality(found)  BY <1>0, <1>5 DEF Count, HasValue
  <2>2. S = {<<k[3], k[1], k[2]>> : k \in found} /\ \A k \in found : k = <<k[1], k[2], k[3]>>  BY <1>0, <1>5, ByAttr
  <2>3. \A k \in S : k = <<k[1], k[2], k[3]>>  BY KeyIs DEF Chosen, AtRest, StoreInv, StoreTyped, DbInv, Keys
  <2> HIDE DEF found, S
  <2>4. ASSUME NEW k \in S PROVE <<k[2], k[3], k[1]>> \in found
    <3>1. PICK j \in found : k = <<j[3], j[1], j[2]>>  BY <2>2
    <3>2. k[1] = j[3] /\ k[2] = j[1] /\ k[3] = j[2]  BY <3>1
    <3>3. <<k[2], k[3], k[1]>> = j  BY <2>2, <3>2
    <3> QED  BY <3>3
  <2>5. f \in [S -> found]  BY <2>4
  <2>6. ASSUME NEW x \in S, NEW y \in S, <<x[2], x[3], x[1]>> = <<y[2], y[3], y[1]>> PROVE x = y
    <3>1. x[1] = y[1] /\ x[2] = y[2] /\ x[3] = y[3]  BY <2>6
    <3>2. x = <<x[1], x[2], x[3]>> /\ y = <<y[1], y[2], y[3]>>  BY <2>3
    <3> QED  BY <3>1, <3>2
  <2>7. ASSUME NEW t \in found PROVE \E x \in S : f[x] = t
    <3> DEFINE x == <<t[3], t[1], t[2]>>
    <3>1. x \in S /\ x[1] = t[3] /\ x[2] = t[1] /\ x[3] = t[2]  BY <2>2
    <3> HIDE DEF x
    <3>2. f[x] = <<t[1], t[2], t[3]>>  BY <3>1
    <3>3. t = <<t[1], t[2], t[3]>>  BY <2>2
    <3> QED  BY <3>1, <3>2, <3>3
  <2>8. \A x, y \in S : f[x] = f[y] => x = y  BY <2>6
  <2> HIDE DEF f
  <2>9. Cardinality(found) = Cardinality(S)  BY <1>1, <2>5, <2>7, <2>8, SameSize DEF S
  <2> QED  BY <1>1, <2>1, <2>9 DEF S
<1>6. CASE e = AnyEntity /\ a = AnyAttr /\ sv[1] = "ref"
  <2> DEFINE found == {k \in db.vae : k[1] = sv[2]}
             S == Chosen(e, a, sv)
             f == [k \in S |-> <<sv[2], k[2], k[1]>>]
  <2>0. sv \in Storable /\ sv # AnyValue  BY <1>0, <1>6, WildcardsAre
  <2>1. Count(e, a, sv) = Cardinality(found)  BY <1>0, <1>6, <2>0 DEF Count
  <2>2. S = {<<k[3], k[2], <<"ref", k[1]>>>> : k \in found} /\ \A k \in found : k = <<k[1], k[2], k[3]>> /\ k[1] = sv[2]
    BY <1>6, <2>0, ByReference
  <2> HIDE DEF found, S
  <2>4. ASSUME NEW k \in S
        PROVE  <<sv[2], k[2], k[1]>> \in found /\ k = <<k[1], k[2], <<"ref", sv[2]>>>>
    <3>1. PICK j \in found : k = <<j[3], j[2], <<"ref", j[1]>>>>  BY <2>2
    <3>2. k[1] = j[3] /\ k[2] = j[2] /\ j[1] = sv[2]  BY <2>2, <3>1
    <3>3. <<sv[2], k[2], k[1]>> = j  BY <2>2, <3>2
    <3> QED  BY <3>1, <3>2, <3>3
  <2>5. f \in [S -> found]  BY <2>4
  <2>6. ASSUME NEW x \in S, NEW y \in S, <<sv[2], x[2], x[1]>> = <<sv[2], y[2], y[1]>> PROVE x = y
    <3>1. x[1] = y[1] /\ x[2] = y[2]  BY <2>6
    <3>2. x = <<x[1], x[2], <<"ref", sv[2]>>>> /\ y = <<y[1], y[2], <<"ref", sv[2]>>>>  BY <2>4
    <3> QED  BY <3>1, <3>2
  <2>7. ASSUME NEW t \in found PROVE \E x \in S : f[x] = t
    <3> DEFINE x == <<t[3], t[2], <<"ref", t[1]>>>>
    <3>1. x \in S /\ x[1] = t[3] /\ x[2] = t[2]  BY <2>2
    <3> HIDE DEF x
    <3>2. f[x] = <<sv[2], t[2], t[3]>>  BY <3>1
    <3>3. t = <<t[1], t[2], t[3]>> /\ t[1] = sv[2]  BY <2>2
    <3> QED  BY <3>1, <3>2, <3>3
  <2>8. \A x, y \in S : f[x] = f[y] => x = y  BY <2>6
  <2> HIDE DEF f
  <2>9. Cardinality(found) = Cardinality(S)  BY <1>1, <2>5, <2>7, <2>8, SameSize DEF S
  <2> QED  BY <1>1, <2>1, <2>9 DEF S
<1>7. CASE e = AnyEntity /\ a = AnyAttr /\ sv = AnyValue
  <2>1. Chosen(e, a, sv) = db.eav  BY <1>7 DEF Chosen
  <2>2. Count(e, a, sv) = Cardinality(db.eav)  BY <1>0, <1>7 DEF Count
  <2> QED  BY <1>1, <2>1, <2>2
<1>8. CASE a = AnyAttr /\ sv # AnyValue /\ ~(e = AnyEntity /\ sv[1] = "ref")
  <2>1. Count(e, a, sv) = Cardinality(Search(e, a, sv).datoms)  BY <1>0, <1>8 DEF Count
  <2>2. Search(e, a, sv).datoms = Wanted(e, a, sv)  BY SearchIs
  <2> QED  BY <2>1, <2>2
<1> QED  BY <1>2, <1>3, <1>4, <1>5, <1>6, <1>7, <1>8

\* search_impl: a Clojure integer finds longs and references.
LEMMA HostIs ==
    ASSUME AtRest, NEW e \in PatternEntities, NEW v \in Entities
    PROVE  HostSearch(e, AnyAttr, v) = {d \in Datoms(db) : e \in {AnyEntity, d[1]} /\ d[3][2] = v}
<1> DEFINE l == <<"long", v>>
           r == <<"ref", v>>
<1>1. AnyAttr \notin DOMAIN attrs /\ l \in Storable /\ r \in Storable /\ l # AnyValue /\ r # AnyValue
  BY WildcardsAre DEF AtRest, StoreInv, StoreTyped, IsTable, Storable, AnyValue
<1>2. ToStoreValue(AnyAttr, v) = l  BY <1>1 DEF ToStoreValue
<1>3. HostSearch(e, AnyAttr, v) = Search(e, AnyAttr, l).datoms \cup Search(e, AnyAttr, r).datoms
  BY <1>2 DEF HostSearch
<1>4. AnyAttr \in PatternAttrs /\ l \in PatternValues /\ r \in PatternValues
  BY <1>1, WildcardsAre DEF PatternAttrs
<1>5. HostSearch(e, AnyAttr, v) = Wanted(e, AnyAttr, l) \cup Wanted(e, AnyAttr, r)
  BY <1>3, <1>4, SearchIs
<1>6. ASSUME NEW d \in Datoms(db) PROVE d[3][2] = v <=> d[3] = l \/ d[3] = r
  <2>1. DbInv(db) /\ Named(db)  BY DEF AtRest, StoreInv, StoreTyped, SchemaInv
  <2>2. PICK k \in db.eav : d = DatomOf(db, k)  BY DatomsAre
  <2>3. Held(db, k[3]) /\ d[3] = Decode(db, k[3])  BY <2>1, <2>2, DatomIs DEF DatomOf
  <2>4. CASE k[3][1] = "giant"
    <3>1. d[3][1] = "str" /\ d[3][2] = db.giants[k[3][2]]  BY <2>3, <2>4 DEF Decode
    <3>2. db.giants[k[3][2]] \in Giants  BY <2>1, <2>3, <2>4 DEF DbInv, Stored, Held
    <3>3. v \notin Giants  BY DatalogAssumption
    <3> QED  BY <3>1, <3>2, <3>3
  <2>5. CASE k[3][1] # "giant"
    <3>1. d[3] = k[3] /\ k[3] \in Encoded  BY <2>3, <2>5 DEF Decode, Held
    <3>2. k[3] = <<k[3][1], k[3][2]>> /\ k[3][1] \in {"long", "ref"}  BY <2>5, <3>1 DEF Encoded
    <3> QED  BY <3>1, <3>2
  <2> QED  BY <2>4, <2>5
<1> HIDE DEF l, r
<1> QED  BY <1>1, <1>5, <1>6 DEF Wanted

\* search, count and search_impl: as long as no transaction began with tables that were
\* not the schema, a search answers what a scan of all datoms would whichever index it
\* takes, count counts the same datoms without decoding them, and an integer without an
\* attribute finds longs and references, for any attributes, entities and values.
THEOREM SearchFindsTheDatoms == Spec => []SearchAgrees
<1>1. StoreInv => SearchAgrees
  <2> SUFFICES ASSUME StoreInv, ~damaged, phase = "idle", NEW e \in PatternEntities, NEW a \in PatternAttrs,
                      NEW sv \in PatternValues
               PROVE  LET want == {d \in Datoms(db) : /\ e \in {AnyEntity, d[1]}
                                                      /\ a \in {AnyAttr, d[2]}
                                                      /\ sv \in {AnyValue, d[3]}}
                      IN  /\ Search(e, a, sv) = [ok |-> TRUE, datoms |-> want]
                          /\ Count(e, a, sv) = Cardinality(want)
                          /\ sv[1] = "long" =>
                              HostSearch(e, AnyAttr, sv[2]) =
                                  {d \in Datoms(db) : e \in {AnyEntity, d[1]} /\ d[3][2] = sv[2]}
    BY DEF SearchAgrees, PatternEntities, PatternAttrs, PatternValues
  <2>1. AtRest  BY DEF AtRest
  <2>2. Search(e, a, sv) = [ok |-> TRUE, datoms |-> Wanted(e, a, sv)]  BY <2>1, SearchIs
  <2>3. Count(e, a, sv) = Cardinality(Wanted(e, a, sv))  BY <2>1, CountIs
  <2>4. sv[1] = "long" => sv[2] \in Entities  BY StorableIs, WildcardsAre
  <2>5. sv[1] = "long" => HostSearch(e, AnyAttr, sv[2]) =
            {d \in Datoms(db) : e \in {AnyEntity, d[1]} /\ d[3][2] = sv[2]}
    BY <2>1, <2>4, HostIs
  <2> QED  BY <2>2, <2>3, <2>5 DEF Wanted
<1> QED  BY <1>1, StoreInvariant, PTL
=============================================================================
