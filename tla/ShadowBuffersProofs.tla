------------------------ MODULE ShadowBuffersProofs ------------------------
(***************************************************************************)
(* What ShadowBuffers promises for any number of threads, objects, buffers  *)
(* and sizes.  The operations on the tables of one side come first; then    *)
(* the invariant Bind, of the tables, the threads' buffers and the calls    *)
(* that use them; last the invariant Kept, of the lifetimes: a shadow lasts *)
(* as long as its buffer was promised to.                                   *)
(***************************************************************************)
EXTENDS ShadowBuffers, TLAPS

\* Threads do not share buffers or objects: the mutex of the tables protects
\* the tables, not a buffer that one thread frees while another passes it.
UsesApart == \A t, u \in Threads : t # u => Uses[t] \cap Uses[u] = {}

\* The records ava_shadow_record_t, and the fields of the tables of one side.
Records == [id : Ids, local : Addr, size : Sizes, owned : BOOLEAN]
Fields == {"heap", "byId", "shadow", "coupled", "issued", "failed"}

\* The tables d of a side have their types, and no assertion has failed.
Typed(d) ==
    /\ DOMAIN d = Fields
    /\ d.heap \in [Addr -> Nat]
    /\ d.shadow \in [Addr -> Ids \cup {None}]
    /\ d.coupled \in [Keys -> Seq(Records)]
    /\ d.issued \in Nat
    /\ d.failed = FALSE
    /\ DOMAIN d.byId \subseteq Ids
    /\ \A i \in DOMAIN d.byId : d.byId[i] \in Records

\* buffers_by_id and the pointers in the metadata are inverse to each other.
Inverse(d) ==
    /\ \A i \in DOMAIN d.byId : d.byId[i].id = i /\ d.shadow[d.byId[i].local] = i
    /\ \A a \in Addr : d.shadow[a] # None =>
          d.shadow[a] \in DOMAIN d.byId /\ d.byId[d.shadow[a]].local = a

\* On side s, a record is solid exactly when s issued its id: then it is not in
\* a block of AvA. A shadow owns a block of its size.
Kinds(s, d) ==
    \A i \in DOMAIN d.byId :
       \/ i[1] = s /\ ~ d.byId[i].owned /\ d.byId[i].local \notin HeapAddr /\ i[2] <= d.issued
       \/ /\ i[1] # s /\ d.byId[i].owned /\ d.byId[i].local \in HeapAddr
          /\ d.heap[d.byId[i].local] = d.byId[i].size

\* The lists of coupled buffers hold live shadows of full size, each under its
\* own address or under an object.
Listed(d) ==
    \A k \in Keys : \A j \in DOMAIN d.coupled[k] :
       /\ d.coupled[k][j].id \in DOMAIN d.byId
       /\ d.byId[d.coupled[k][j].id] = d.coupled[k][j]
       /\ d.coupled[k][j].owned
       /\ d.coupled[k][j].size = MaxSize
       /\ k = d.coupled[k][j].local \/ k \in Objects

\* No record is listed twice.
Once(d) ==
    \A k, l \in Keys : \A j \in DOMAIN d.coupled[k], m \in DOMAIN d.coupled[l] :
       d.coupled[k][j].id = d.coupled[l][m].id => k = l /\ j = m

\* The invariant of the tables of one side.
SideOK(s, d) == Typed(d) /\ Inverse(d) /\ Kinds(s, d) /\ Listed(d) /\ Once(d)

\* It holds of both sides.
SidesOK == \A s \in Sides : SideOK(s, Side(s))

-----------------------------------------------------------------------------
\* What inserting into a hash table does to it.
LEMMA InsertFacts ==
    ASSUME NEW f, NEW i, NEW x
    PROVE  /\ DOMAIN Insert(f, i, x) = DOMAIN f \cup {i}
           /\ Insert(f, i, x)[i] = x
           /\ \A j \in DOMAIN f : j # i => Insert(f, i, x)[j] = f[j]
  BY Zenon DEF Insert

\* ava_shadow_buffer_new_record_unlocked, field by field.
LEMMA NewRecordFields ==
    ASSUME NEW d, DOMAIN d = Fields, NEW r, NEW e, e = NewRecord(d, r)
    PROVE  /\ DOMAIN e = Fields
           /\ e.heap = d.heap
           /\ e.byId = Insert(d.byId, r.id, r)
           /\ e.shadow = [d.shadow EXCEPT ![r.local] = r.id]
           /\ e.coupled = d.coupled
           /\ e.issued = d.issued
           /\ e.failed = (d.failed \/ r.id \in DOMAIN d.byId \/ d.shadow[r.local] # None)
  BY Zenon DEF NewRecord, Fields

\* e is d without record r and its block.
Forgets(d, r, e) ==
    /\ DOMAIN e = Fields
    /\ e.heap = [d.heap EXCEPT ![r.local] = 0]
    /\ \A j : j \in DOMAIN e.byId <=> j \in DOMAIN d.byId /\ j # r.id
    /\ \A j \in DOMAIN e.byId : e.byId[j] = d.byId[j]
    /\ e.shadow = [d.shadow EXCEPT ![r.local] = None]
    /\ e.coupled = d.coupled
    /\ e.issued = d.issued
    /\ ~ d.failed /\ r.owned => e.failed = FALSE

\* ava_shadow_buffer_free_record_unlocked, field by field.
LEMMA ForgetRecordFields ==
    ASSUME NEW d, DOMAIN d = Fields, NEW r, NEW e, e = ForgetRecord(d, r)
    PROVE  Forgets(d, r, e)
  BY Zenon DEF ForgetRecord, Fields, Remove, Forgets

\* The allocator returns the block at a.
Alloc(d, a, n) == [d EXCEPT !.heap[a] = n]

\* Allocating a block, field by field.
LEMMA HeapFields ==
    ASSUME NEW d, DOMAIN d = Fields, NEW a, NEW n,
           NEW e, e = Alloc(d, a, n)
    PROVE  /\ DOMAIN e = Fields
           /\ e.heap = [d.heap EXCEPT ![a] = n]
           /\ e.byId = d.byId
           /\ e.shadow = d.shadow
           /\ e.coupled = d.coupled
           /\ e.issued = d.issued
           /\ e.failed = d.failed
  BY Zenon DEF Fields, Alloc

\* Issuing an id, field by field.
LEMMA IssuedFields ==
    ASSUME NEW d, DOMAIN d = Fields, NEW e, e = [d EXCEPT !.issued = @ + 1]
    PROVE  /\ DOMAIN e = Fields
           /\ e.heap = d.heap
           /\ e.byId = d.byId
           /\ e.shadow = d.shadow
           /\ e.coupled = d.coupled
           /\ e.issued = d.issued + 1
           /\ e.failed = d.failed
  BY Zenon DEF Fields

\* A record of buffer i is listed under k in the tables d.
Under(d, k, i) == k \in Keys /\ \E j \in DOMAIN d.coupled[k] : d.coupled[k][j].id = i

\* Allocating a free block keeps the tables in order, and no record has its address.
LEMMA HeapOK ==
    ASSUME NEW s \in Sides, NEW d, SideOK(s, d),
           NEW a \in HeapAddr, d.heap[a] = 0, NEW n \in Sizes,
           NEW e, e = Alloc(d, a, n)
    PROVE  SideOK(s, e) /\ e.shadow[a] = None /\ e.heap[a] = n
<1>1. Typed(d) /\ Inverse(d) /\ Kinds(s, d) /\ Listed(d) /\ Once(d) /\ DOMAIN d = Fields
  BY Zenon DEF SideOK, Typed
<1>2. /\ DOMAIN e = Fields /\ e.heap = [d.heap EXCEPT ![a] = n] /\ e.byId = d.byId
      /\ e.shadow = d.shadow /\ e.coupled = d.coupled /\ e.issued = d.issued
      /\ e.failed = d.failed
  BY <1>1, HeapFields
<1>3. a \in Addr /\ n \in Nat /\ n > 0
  BY DEF Addr, Sizes
<1>4. d.shadow[a] = None
  BY <1>1, <1>3 DEF Typed, Inverse, Kinds, Records, Sizes
<1>5. \A i \in DOMAIN d.byId : d.byId[i].local # a
  BY <1>1, <1>4, BuffersAssumption DEF Typed, Inverse
<1>6. Typed(e)
  BY <1>1, <1>2, <1>3, ZenonT(60) DEF Typed
<1>7. Inverse(e) /\ Listed(e) /\ Once(e)
  BY <1>1, <1>2 DEF Inverse, Listed, Once
<1>8. Kinds(s, e)
  BY <1>1, <1>2, <1>3, <1>5 DEF Kinds, Typed, Records
<1> QED
  BY <1>1, <1>2, <1>3, <1>4, <1>6, <1>7, <1>8, Zenon DEF SideOK, Typed

\* Issuing an id keeps the tables in order.
LEMMA IssuedOK ==
    ASSUME NEW s \in Sides, NEW d, SideOK(s, d), NEW e, e = [d EXCEPT !.issued = @ + 1]
    PROVE  SideOK(s, e)
<1>1. Typed(d) /\ Inverse(d) /\ Kinds(s, d) /\ Listed(d) /\ Once(d) /\ DOMAIN d = Fields
  BY Zenon DEF SideOK, Typed
<1>2. /\ DOMAIN e = Fields /\ e.heap = d.heap /\ e.byId = d.byId
      /\ e.shadow = d.shadow /\ e.coupled = d.coupled /\ e.issued = d.issued + 1
      /\ e.failed = d.failed
  BY <1>1, IssuedFields, ZenonT(60)
<1>3. Typed(e)
  BY <1>1, <1>2 DEF Typed
<1>4. Inverse(e) /\ Listed(e) /\ Once(e)
  BY <1>1, <1>2 DEF Inverse, Listed, Once
<1>5. Kinds(s, e)
  <2> SUFFICES ASSUME NEW i \in DOMAIN d.byId, i[1] = s, i[2] <= d.issued
               PROVE  i[2] <= d.issued + 1
    BY <1>1, <1>2 DEF Kinds
  <2>1. i[2] \in Nat /\ d.issued \in Nat
    BY <1>1, Zenon DEF Typed, Ids
  <2> QED  BY <2>1
<1> QED
  BY <1>3, <1>4, <1>5, Zenon DEF SideOK

\* What a record may be in the tables of side s.
Fitting(s, d, r) ==
    \/ r.id[1] = s /\ ~ r.owned /\ r.local \notin HeapAddr /\ r.id[2] <= d.issued
    \/ r.id[1] # s /\ r.owned /\ r.local \in HeapAddr /\ d.heap[r.local] = r.size

\* A fitting record, for an id and at an address that have none, may be added:
\* neither check of ava_shadow_buffer_new_record_unlocked fails.
LEMMA NewRecordOK ==
    ASSUME NEW s \in Sides, NEW d, SideOK(s, d), NEW r \in Records,
           r.id \notin DOMAIN d.byId, d.shadow[r.local] = None, Fitting(s, d, r),
           NEW e, e = NewRecord(d, r)
    PROVE  /\ SideOK(s, e)
           /\ e.heap = d.heap /\ e.coupled = d.coupled /\ e.shadow[r.local] = r.id
           /\ DOMAIN e.byId = DOMAIN d.byId \cup {r.id} /\ e.byId[r.id] = r
           /\ \A i \in DOMAIN d.byId : e.byId[i] = d.byId[i]
<1>1. Typed(d) /\ Inverse(d) /\ Kinds(s, d) /\ Listed(d) /\ Once(d) /\ DOMAIN d = Fields
  BY Zenon DEF SideOK, Typed
<1>2. /\ DOMAIN e = Fields /\ e.heap = d.heap /\ e.byId = Insert(d.byId, r.id, r)
      /\ e.shadow = [d.shadow EXCEPT ![r.local] = r.id]
      /\ e.coupled = d.coupled /\ e.issued = d.issued
      /\ e.failed = (d.failed \/ r.id \in DOMAIN d.byId \/ d.shadow[r.local] # None)
  BY <1>1, NewRecordFields
<1>3. /\ DOMAIN e.byId = DOMAIN d.byId \cup {r.id} /\ e.byId[r.id] = r
      /\ \A i \in DOMAIN d.byId : e.byId[i] = d.byId[i]
  BY <1>2, InsertFacts, SMTT(60)
<1>4. r.id \in Ids /\ r.local \in Addr
  BY Zenon DEF Records
<1>5. Typed(e)
  BY <1>1, <1>2, <1>3, <1>4, ZenonT(60) DEF Typed
<1>6. Inverse(e)
  BY <1>1, <1>2, <1>3, <1>4, BuffersAssumption DEF Typed, Inverse, Records
<1>7. Kinds(s, e)
  BY <1>1, <1>2, <1>3, SMTT(60) DEF Kinds, Fitting
<1>8. Listed(e) /\ Once(e)
  BY <1>1, <1>2, <1>3 DEF Listed, Once
<1>9. e.shadow[r.local] = r.id
  BY <1>1, <1>2, <1>4, Zenon DEF Typed
<1> QED
  BY <1>2, <1>3, <1>5, <1>6, <1>7, <1>8, <1>9, Zenon DEF SideOK

\* Record r may be freed: it is a shadow and no list holds it.
Freeable(d, r) ==
    /\ r.id \in DOMAIN d.byId
    /\ d.byId[r.id] = r
    /\ r.owned
    /\ \A k \in Keys : ~ Under(d, k, r.id)

\* A shadow that no list holds may be freed.
LEMMA ForgetOK ==
    ASSUME NEW s \in Sides, NEW d, SideOK(s, d), NEW r, Freeable(d, r),
           NEW e, e = ForgetRecord(d, r)
    PROVE  /\ SideOK(s, e)
           /\ e.coupled = d.coupled
           /\ \A j : j \in DOMAIN e.byId <=> j \in DOMAIN d.byId /\ j # r.id
           /\ \A j \in DOMAIN e.byId : e.byId[j] = d.byId[j]
<1>1. Typed(d) /\ Inverse(d) /\ Kinds(s, d) /\ Listed(d) /\ Once(d) /\ DOMAIN d = Fields
  BY Zenon DEF SideOK, Typed
<1>0. r \in Records /\ r.owned /\ r.id \in Ids /\ d.shadow[r.local] = r.id /\ r.local \in Addr
  BY <1>1 DEF Typed, Inverse, Records, Freeable
<1>2. Forgets(d, r, e)
  BY <1>1, ForgetRecordFields, Zenon
<1>4. Typed(e)
  BY <1>0, <1>1, <1>2 DEF Forgets, Typed
<1>5. \A j \in DOMAIN e.byId : d.byId[j].local \in Addr /\ d.byId[j].local # r.local
  BY <1>0, <1>1, <1>2, SMTT(60) DEF Forgets, Inverse, Typed, Records
<1>6. Inverse(e)
  BY <1>0, <1>1, <1>2, <1>5, BuffersAssumption, SMTT(60) DEF Forgets, Typed, Inverse
<1>7. Kinds(s, e)
  BY <1>0, <1>1, <1>2, <1>5 DEF Forgets, Kinds, Typed
<1>8. Listed(e)
  BY <1>1, <1>2 DEF Forgets, Listed, Under, Freeable
<1>9. Once(e)
  BY <1>1, <1>2 DEF Forgets, Once
<1> QED
  BY <1>2, <1>4, <1>6, <1>7, <1>8, <1>9, Zenon DEF Forgets, SideOK

\* e is d with record r appended to list k.
Lists(d, k, r, e) ==
    /\ DOMAIN e = Fields
    /\ e.heap = d.heap /\ e.byId = d.byId /\ e.shadow = d.shadow
    /\ e.issued = d.issued /\ e.failed = d.failed
    /\ e.coupled \in [Keys -> Seq(Records)]
    /\ \A l \in Keys : l # k => e.coupled[l] = d.coupled[l]
    /\ \A j : j \in DOMAIN e.coupled[k] <=>
                 j \in DOMAIN d.coupled[k] \/ j = Len(d.coupled[k]) + 1
    /\ \A j \in DOMAIN d.coupled[k] :
          j # Len(d.coupled[k]) + 1 /\ e.coupled[k][j] = d.coupled[k][j]
    /\ e.coupled[k][Len(d.coupled[k]) + 1] = r

\* What appending to a sequence does to it.
LEMMA AppendFacts ==
    ASSUME NEW S, NEW q \in Seq(S), NEW r \in S, NEW p, p = Append(q, r)
    PROVE  /\ p \in Seq(S)
           /\ \A j : j \in DOMAIN p <=> j \in DOMAIN q \/ j = Len(q) + 1
           /\ \A j \in DOMAIN q : j # Len(q) + 1 /\ p[j] = q[j]
           /\ p[Len(q) + 1] = r
  OBVIOUS

\* Appending to a list of coupled buffers, field by field.
LEMMA CoupleFields ==
    ASSUME NEW d, Typed(d), NEW r \in Records, NEW k \in Keys,
           NEW e, e = [d EXCEPT !.coupled[k] = Append(@, r)]
    PROVE  Lists(d, k, r, e)
<1>1. DOMAIN d = Fields /\ d.coupled \in [Keys -> Seq(Records)]
  BY Zenon DEF Typed
<1> DEFINE q == d.coupled[k]  p == Append(q, r)
<1>2. q \in Seq(Records)
  BY <1>1, Zenon
<1>3. /\ p \in Seq(Records)
      /\ \A j : j \in DOMAIN p <=> j \in DOMAIN q \/ j = Len(q) + 1
      /\ \A j \in DOMAIN q : j # Len(q) + 1 /\ p[j] = q[j]
      /\ p[Len(q) + 1] = r
  <2> HIDE DEF q
  <2> QED  BY <1>2, AppendFacts
<1>4. e = [d EXCEPT !.coupled[k] = p]
  BY Zenon
<1> HIDE DEF p
<1>5. /\ DOMAIN e = Fields
      /\ e.heap = d.heap /\ e.byId = d.byId /\ e.shadow = d.shadow
      /\ e.issued = d.issued /\ e.failed = d.failed
      /\ e.coupled = [d.coupled EXCEPT ![k] = p]
  BY <1>1, <1>4, Zenon DEF Fields
<1>6. /\ e.coupled \in [Keys -> Seq(Records)] /\ e.coupled[k] = p
      /\ \A l \in Keys : l # k => e.coupled[l] = d.coupled[l]
  BY <1>1, <1>3, <1>5
<1> QED
  BY <1>3, <1>5, <1>6, ZenonT(60) DEF Lists

\* A shadow of full size that no list holds may be listed, and only it is added.
LEMMA CoupleOK ==
    ASSUME NEW s \in Sides, NEW d, SideOK(s, d), NEW k \in Keys, NEW r \in Records,
           r.size = MaxSize, k = r.local \/ k \in Objects, Freeable(d, r),
           NEW e, Lists(d, k, r, e)
    PROVE  /\ SideOK(s, e)
           /\ \A l, i : Under(e, l, i) <=> Under(d, l, i) \/ (l = k /\ i = r.id)
<1>1. Typed(d) /\ Inverse(d) /\ Kinds(s, d) /\ Listed(d) /\ Once(d)
  BY Zenon DEF SideOK
<1>2. Typed(e)
  BY <1>1, Zenon DEF Typed, Lists
<1>3. Inverse(e) /\ Kinds(s, e)
  BY <1>1, SMTT(60) DEF Inverse, Kinds, Lists
<1>4. Listed(e)
  BY <1>1, SMTT(60) DEF Listed, Lists, Freeable
<1>5. Once(e)
  <2> SUFFICES ASSUME NEW l \in Keys, NEW m \in Keys,
                      NEW j \in DOMAIN e.coupled[l], NEW h \in DOMAIN e.coupled[m],
                      e.coupled[l][j].id = e.coupled[m][h].id
               PROVE  l = m /\ j = h
    BY Zenon DEF Once
  <2> DEFINE old(x, y) == y \in DOMAIN d.coupled[x] /\ e.coupled[x][y] = d.coupled[x][y]
             new(x, y) == x = k /\ y = Len(d.coupled[k]) + 1 /\ e.coupled[x][y] = r
  <2>1. (old(l, j) \/ new(l, j)) /\ (old(m, h) \/ new(m, h))
    BY Zenon DEF Lists
  <2>2. CASE old(l, j) /\ old(m, h)
    BY <2>2, <1>1 DEF Once
  <2>3. CASE old(l, j) /\ new(m, h)
    BY <2>3, ZenonT(60) DEF Freeable, Under
  <2>4. CASE new(l, j) /\ old(m, h)
    BY <2>4, ZenonT(60) DEF Freeable, Under
  <2>5. CASE new(l, j) /\ new(m, h)
    BY <2>5, Zenon
  <2> QED  BY <2>1, <2>2, <2>3, <2>4, <2>5, Zenon
<1>6. ASSUME NEW l, NEW i
      PROVE  Under(e, l, i) <=> Under(d, l, i) \/ (l = k /\ i = r.id)
  <2>1. CASE l = k
    BY <2>1, Zenon DEF Under, Lists
  <2>2. CASE l # k
    BY <2>2, Zenon DEF Under, Lists
  <2> QED  BY <2>1, <2>2, Zenon
<1> QED
  BY <1>2, <1>3, <1>4, <1>5, <1>6, Zenon DEF SideOK

\* A request for the buffer of id: n elements, for the given lifetime.
Request(s, d, id, n, lifetime, obj) ==
    /\ id \in Ids
    /\ id[1] = s => id \in DOMAIN d.byId
    /\ n \in Sizes
    /\ lifetime \in Lifetimes
    /\ IF lifetime = "coupled" THEN obj \in Objects ELSE obj = None
    /\ lifetime = "static" \/ n = MaxSize

\* The key under which a new shadow at a is listed.
KeyOf(lifetime, obj, a) == IF lifetime = "manual" THEN a ELSE obj

\* The ids other than id have the same records in d and e.
OnlyChanges(d, e, id) ==
    /\ \A i : i # id => (i \in DOMAIN e.byId <=> i \in DOMAIN d.byId)
    /\ \A i \in DOMAIN d.byId : i # id => e.byId[i] = d.byId[i]

\* There is no record of id in f, which otherwise is d.
Fresh(s, d, id, f) ==
    /\ SideOK(s, f)
    /\ f.coupled = d.coupled
    /\ id \notin DOMAIN f.byId
    /\ \A k \in Keys : ~ Under(d, k, id)
    /\ OnlyChanges(d, f, id)

\* The tables e have record r of id, new and listed for its lifetime.
Makes(s, d, id, n, lifetime, obj, e, a) ==
    /\ SideOK(s, e)
    /\ OnlyChanges(d, e, id)
    /\ id[1] # s
    /\ id \in DOMAIN e.byId
    /\ e.byId[id] = [id |-> id, local |-> a, size |-> n, owned |-> TRUE]
    /\ \A k \in Keys : ~ Under(d, k, id)
    /\ \A k \in Keys, i \in Ids :
          Under(e, k, i) <=> Under(d, k, i) \/ (k = KeyOf(lifetime, obj, a) /\ i = id)

\* A request that GetBuffer does not serve from a record it has finds the tables
\* without one: an outgrown shadow is freed first.
LEMMA FreshOK ==
    ASSUME NEW s \in Sides, NEW d, SideOK(s, d), NEW id \in Ids, NEW n \in Sizes,
           id \in DOMAIN d.byId => Outgrown(d.byId[id], n),
           NEW f, f = IF id \in DOMAIN d.byId THEN FreeLocal(d, d.byId[id].local) ELSE d
    PROVE  Fresh(s, d, id, f)
<1>1. Typed(d) /\ Inverse(d) /\ Kinds(s, d) /\ Listed(d) /\ Once(d)
  BY Zenon DEF SideOK
<1>2. CASE id \notin DOMAIN d.byId
  <2>1. f = d
    BY <1>2, Zenon
  <2>2. \A k \in Keys : ~ Under(d, k, id)
    BY <1>1, <1>2, Zenon DEF Listed, Under
  <2> QED
    BY <1>2, <2>1, <2>2, Zenon DEF Fresh, OnlyChanges
<1>3. CASE id \in DOMAIN d.byId
  <2> PICK r \in Records : d.byId[id] = r
    BY <1>1, <1>3, Zenon DEF Typed
  <2>1. r.id = id /\ r.local \in Addr /\ d.shadow[r.local] = id /\ id # None
    BY <1>1, <1>3, BuffersAssumption DEF Inverse, Records
  <2>2. r.owned /\ r.size < MaxSize
    <3>1. Outgrown(r, n)
      BY <1>3, Zenon
    <3> QED  BY <3>1, BuffersAssumption DEF Outgrown, Records, Sizes
  <2>3. f = ForgetRecord(d, r)
    <3>1. FreeLocal(d, r.local) = ForgetRecord(d, d.byId[d.shadow[r.local]])
      BY Zenon, <2>1 DEF FreeLocal
    <3> QED  BY Zenon, <1>3, <2>1, <3>1
  <2>4. \A k \in Keys : ~ Under(d, k, id)
    <3> SUFFICES ASSUME NEW k \in Keys, NEW j \in DOMAIN d.coupled[k],
                        d.coupled[k][j].id = id
                 PROVE  FALSE
      BY Zenon DEF Under
    <3>1. r.size = MaxSize
      BY <1>1 DEF Listed
    <3> QED  BY <2>2, <3>1, BuffersAssumption
  <2>5. Freeable(d, r)
    BY Zenon, <1>3, <2>1, <2>2, <2>4 DEF Freeable
  <2>6. /\ SideOK(s, f) /\ f.coupled = d.coupled
        /\ \A j : j \in DOMAIN f.byId <=> j \in DOMAIN d.byId /\ j # r.id
        /\ \A j \in DOMAIN f.byId : f.byId[j] = d.byId[j]
    BY <2>3, <2>5, ForgetOK
  <2> QED
    BY <2>1, <2>4, <2>6, Zenon DEF Fresh, OnlyChanges
<1> QED  BY <1>2, <1>3, Zenon

\* Making a shadow keeps the tables in order and lists it for its lifetime.
LEMMA MakesOK ==
    ASSUME NEW s \in Sides, NEW d, NEW f, NEW id, NEW n, NEW lifetime, NEW obj,
           Request(s, d, id, n, lifetime, obj), Fresh(s, d, id, f), id[1] # s,
           NEW a \in HeapAddr, f.heap[a] = 0,
           NEW e, e = NewShadow(f, id, n, lifetime, obj, a)
    PROVE  Makes(s, d, id, n, lifetime, obj, e, a)
<1> DEFINE r == [id |-> id, local |-> a, size |-> n, owned |-> TRUE]
           e1 == Alloc(f, a, n)
           e2 == NewRecord(e1, r)
           key == KeyOf(lifetime, obj, a)
<1>1. e = Couple(e2, r, lifetime, obj)
  BY Zenon DEF NewShadow, Alloc
<1>2. id \in Ids /\ n \in Sizes /\ a \in Addr /\ r \in Records
  BY Zenon DEF Request, Records, Addr
<1>3. r.id = id /\ r.local = a /\ r.size = n /\ r.owned = TRUE
  BY Zenon
<1>4. e1.byId = f.byId /\ e1.coupled = f.coupled
  <2>1. DOMAIN f = Fields
    BY Zenon DEF Fresh, SideOK, Typed
  <2> QED  BY <2>1, Zenon DEF Fields, Alloc
<1>5. SideOK(s, e1) /\ e1.shadow[a] = None /\ e1.heap[a] = n
  BY <1>2, HeapOK DEF Fresh
<1> HIDE DEF r, e1
<1>6. /\ SideOK(s, e2) /\ e2.coupled = e1.coupled
      /\ DOMAIN e2.byId = DOMAIN e1.byId \cup {r.id} /\ e2.byId[r.id] = r
      /\ \A i \in DOMAIN e1.byId : e2.byId[i] = e1.byId[i]
  <2>1. r.id \notin DOMAIN e1.byId /\ e1.shadow[r.local] = None
    BY <1>3, <1>4, <1>5, Zenon DEF Fresh
  <2>2. Fitting(s, e1, r)
    BY <1>3, <1>5, Zenon DEF Fitting
  <2> QED  BY <1>2, <1>5, <2>1, <2>2, NewRecordOK
<1> HIDE DEF e2
<1>7. /\ OnlyChanges(d, e2, id) /\ id \in DOMAIN e2.byId /\ e2.byId[id] = r
      /\ e2.coupled = d.coupled /\ \A k \in Keys : ~ Under(d, k, id)
  BY <1>3, <1>4, <1>6 DEF Fresh, OnlyChanges
<1>8. \A k, i : Under(e2, k, i) <=> Under(d, k, i)
  BY <1>7, Zenon DEF Under
<1>9. CASE key = None
  <2>1. e = e2
    BY Zenon, <1>1, <1>3, <1>9 DEF Couple, KeyOf
  <2>2. None \notin Keys
    BY BuffersAssumption, Zenon DEF Keys, Addr
  <2> QED
    BY <1>6, <1>7, <1>8, <1>9, <2>1, <2>2, Zenon DEF Makes, r
<1>10. CASE key # None
  <2>1. e = [e2 EXCEPT !.coupled[key] = Append(@, r)]
    BY Zenon, <1>1, <1>3, <1>10 DEF Couple, KeyOf
  <2>2. key \in Keys /\ r.size = MaxSize /\ (key = r.local \/ key \in Objects)
    BY <1>2, <1>3, <1>10, Zenon DEF Request, KeyOf, Keys, Lifetimes
  <2>3. Freeable(e2, r)
    BY <1>3, <1>6, <1>7, <1>8, Zenon DEF Freeable
  <2> HIDE DEF key
  <2>4. Lists(e2, key, r, e)
    BY <1>2, <1>6, <2>1, <2>2, CoupleFields, Zenon DEF SideOK
  <2>5. /\ SideOK(s, e)
        /\ \A l, i : Under(e, l, i) <=> Under(e2, l, i) \/ (l = key /\ i = r.id)
    BY <1>2, <1>6, <2>2, <2>3, <2>4, CoupleOK
  <2>6. e.byId = e2.byId
    BY <2>4, Zenon DEF Lists
  <2> QED
    BY <1>3, <1>7, <1>8, <2>5, <2>6, ZenonT(60) DEF Makes, OnlyChanges, r, key
<1> QED  BY <1>9, <1>10, Zenon

\* The tables e and the address a that GetBuffer gives for a request.
Gets(s, d, id, n, lifetime, obj, e, a) ==
    \/ /\ id \in DOMAIN d.byId
       /\ d.byId[id].owned => d.byId[id].size >= n
       /\ e = d
       /\ a = d.byId[id].local
    \/ /\ id \in DOMAIN d.byId => d.byId[id].size < n /\ d.byId[id].owned
       /\ Makes(s, d, id, n, lifetime, obj, e, a)

\* ava_shadow_buffer_get_buffer returns the record there is, or makes one.
LEMMA GetsOK ==
    ASSUME NEW s \in Sides, NEW d, SideOK(s, d), NEW id, NEW n, NEW lifetime, NEW obj,
           Request(s, d, id, n, lifetime, obj),
           NEW g \in GetBuffer(d, id, n, lifetime, obj)
    PROVE  Gets(s, d, id, n, lifetime, obj, g.d, g.local)
<1> DEFINE fresh == IF id \in DOMAIN d.byId THEN FreeLocal(d, d.byId[id].local) ELSE d
<1>1. /\ n \in Nat
      /\ id \in DOMAIN d.byId => d.byId[id].size \in Nat /\ d.byId[id].owned \in BOOLEAN
      /\ id \in DOMAIN d.byId /\ d.byId[id].owned => id[1] # s
  BY DEF Request, SideOK, Typed, Records, Sizes, Kinds
<1>2. CASE id \in DOMAIN d.byId /\ ~ Outgrown(d.byId[id], n)
  <2>1. g = [d |-> d, local |-> d.byId[id].local]
    BY <1>2, Zenon DEF GetBuffer
  <2>2. g.d = d /\ g.local = d.byId[id].local
    BY <2>1, Zenon
  <2>3. d.byId[id].owned => d.byId[id].size >= n
    BY <1>1, <1>2 DEF Outgrown
  <2> QED  BY Zenon, <1>2, <2>2, <2>3 DEF Gets
<1>3. CASE ~ (id \in DOMAIN d.byId /\ ~ Outgrown(d.byId[id], n))
  <2>1. g \in {[d |-> NewShadow(fresh, id, n, lifetime, obj, b), local |-> b] :
                  b \in {c \in HeapAddr : fresh.heap[c] = 0}}
    BY Zenon, <1>3 DEF GetBuffer
  <2> HIDE DEF fresh
  <2>2. PICK a \in HeapAddr : /\ fresh.heap[a] = 0
                              /\ g = [d |-> NewShadow(fresh, id, n, lifetime, obj, a), local |-> a]
    BY <2>1, Zenon
  <2>3. g.d = NewShadow(fresh, id, n, lifetime, obj, a) /\ g.local = a
    BY <2>2, Zenon
  <2>4. id \in DOMAIN d.byId => Outgrown(d.byId[id], n)
    BY <1>3, Zenon
  <2>5. Fresh(s, d, id, fresh)
    <3>1. id \in Ids /\ n \in Sizes
      BY Zenon DEF Request
    <3> QED  BY <2>4, <3>1, FreshOK, Zenon DEF fresh
  <2>6. id \in DOMAIN d.byId => d.byId[id].size < n /\ d.byId[id].owned
    BY <1>1, <2>4, Zenon DEF Outgrown
  <2>7. id[1] # s
    BY <1>1, <2>6, Zenon DEF Request
  <2>8. Makes(s, d, id, n, lifetime, obj, g.d, a)
    BY <2>2, <2>3, <2>5, <2>7, MakesOK, Zenon
  <2> QED  BY Zenon, <2>3, <2>6, <2>8 DEF Gets
<1> QED  BY <1>2, <1>3, Zenon

\* e is d, or d with a new solid record of n elements at a.
Attaches(s, d, a, n, e) ==
    /\ SideOK(s, e)
    /\ e.coupled = d.coupled
    /\ e.shadow[a] \in DOMAIN e.byId
    /\ e.byId[e.shadow[a]].local = a
    /\ \A i : i # e.shadow[a] => (i \in DOMAIN e.byId <=> i \in DOMAIN d.byId)
    /\ \A i \in DOMAIN d.byId : i \in DOMAIN e.byId /\ e.byId[i] = d.byId[i]
    /\ \/ e = d
       \/ /\ e.shadow[a] \notin DOMAIN d.byId
          /\ e.shadow[a][1] = s
          /\ e.byId[e.shadow[a]].size = n

\* Attaching keeps the tables in order and leaves a record at the address.
LEMMA AttachOK ==
    ASSUME NEW s \in Sides, NEW d, SideOK(s, d), NEW a \in Addr, NEW n \in Sizes,
           d.shadow[a] # None \/ a \notin HeapAddr,
           NEW e, e = Attach(d, s, a, n)
    PROVE  Attaches(s, d, a, n, e)
<1>1. Typed(d) /\ Inverse(d) /\ Kinds(s, d) /\ Listed(d) /\ Once(d)
  BY Zenon DEF SideOK
<1>2. CASE d.shadow[a] # None
  <2>1. e = d
    BY Zenon, <1>2 DEF Attach
  <2> QED
    BY <1>1, <1>2, <2>1, Zenon DEF Attaches, Inverse
<1>3. CASE d.shadow[a] = None
  <2> DEFINE r == [id |-> <<s, d.issued + 1>>, local |-> a, size |-> n, owned |-> FALSE]
             e1 == [d EXCEPT !.issued = @ + 1]
  <2>1. e = NewRecord(e1, r)
    BY Zenon, <1>3 DEF Attach
  <2>2. d.issued \in Nat /\ DOMAIN d = Fields
    BY <1>1, Zenon DEF Typed
  <2>3. /\ r \in Records /\ r.id = <<s, d.issued + 1>> /\ r.local = a /\ r.size = n
        /\ r.owned = FALSE /\ r.id[1] = s /\ r.id[2] = d.issued + 1
    BY <2>2 DEF Records, Ids
  <2>4. /\ e1.byId = d.byId /\ e1.coupled = d.coupled /\ e1.shadow = d.shadow
        /\ e1.issued = d.issued + 1
    BY <2>2, Zenon DEF Fields
  <2>5. SideOK(s, e1)
    BY IssuedOK, Zenon
  <2> HIDE DEF r, e1
  <2>6. r.id \notin DOMAIN d.byId
    <3> SUFFICES ASSUME r.id \in DOMAIN d.byId  PROVE  FALSE
      BY Zenon
    <3>1. r.id[2] <= d.issued
      BY <1>1, <2>3, Zenon DEF Kinds
    <3> QED  BY <2>2, <2>3, <3>1
  <2>7. Fitting(s, e1, r)
    BY <1>3, <2>2, <2>3, <2>4 DEF Fitting
  <2>8. /\ SideOK(s, e) /\ e.coupled = e1.coupled /\ e.shadow[r.local] = r.id
        /\ DOMAIN e.byId = DOMAIN e1.byId \cup {r.id} /\ e.byId[r.id] = r
        /\ \A i \in DOMAIN e1.byId : e.byId[i] = e1.byId[i]
    BY <1>3, <2>1, <2>3, <2>4, <2>5, <2>6, <2>7, NewRecordOK, SMTT(60)
  <2> QED
    BY <2>3, <2>4, <2>6, <2>8, ZenonT(60) DEF Attaches
<1> QED  BY <1>2, <1>3, Zenon

\* A record listed under k is at address a.
At(d, k, a) == \E j \in DOMAIN d.coupled[k] : d.coupled[k][j].local = a

\* e is d without the records listed under k.
Drops(d, k, e) ==
    /\ DOMAIN e = Fields
    /\ e.failed = FALSE
    /\ e.issued = d.issued
    /\ e.heap \in [Addr -> Nat]
    /\ \A a \in Addr : ~ At(d, k, a) => e.heap[a] = d.heap[a]
    /\ e.shadow \in [Addr -> Ids \cup {None}]
    /\ \A a \in Addr : e.shadow[a] = IF At(d, k, a) THEN None ELSE d.shadow[a]
    /\ \A i : i \in DOMAIN e.byId <=> i \in DOMAIN d.byId /\ ~ Under(d, k, i)
    /\ \A i \in DOMAIN e.byId : e.byId[i] = d.byId[i]
    /\ e.coupled \in [Keys -> Seq(Records)]
    /\ e.coupled[k] = <<>>
    /\ \A l \in Keys : l # k => e.coupled[l] = d.coupled[l]

\* ava_shadow_buffer_free_coupled_unlocked, field by field: no listed record is
\* stale, so no assertion fails.
LEMMA DropsOK ==
    ASSUME NEW s \in Sides, NEW d, SideOK(s, d), NEW k \in Keys,
           NEW e, e = FreeCoupled(d, k)
    PROVE  Drops(d, k, e)
<1> DEFINE list == d.coupled[k]
           locals == {list[j].local : j \in DOMAIN list}
           ids == {d.shadow[a] : a \in locals} \ {None}
           stale(j) == \/ list[j].id \notin DOMAIN d.byId
                       \/ d.byId[list[j].id] # list[j]
                       \/ \E h \in 1 .. j - 1 : list[h].id = list[j].id
           wrong == \/ \E j \in DOMAIN list : stale(j)
                    \/ \E i \in ids : ~ d.byId[i].owned
           f == Freed(d, k)
<1>1. Typed(d) /\ Inverse(d) /\ Kinds(s, d) /\ Listed(d) /\ Once(d)
  BY Zenon DEF SideOK
<1>2. f = [d EXCEPT
            !.failed = \/ @
                       \/ \E j \in DOMAIN list : stale(j)
                       \/ \E i \in ids : ~ d.byId[i].owned,
            !.heap = [a \in Addr |-> IF a \in locals /\ d.shadow[a] # None THEN 0 ELSE @[a]],
            !.byId = Remove(@, ids),
            !.shadow = [a \in Addr |-> IF a \in locals THEN None ELSE @[a]]]
  BY Zenon DEF Freed
<1>3. \A j \in DOMAIN list : /\ list[j] \in Records /\ list[j].owned
                             /\ list[j].id \in DOMAIN d.byId /\ d.byId[list[j].id] = list[j]
                             /\ d.shadow[list[j].local] = list[j].id
                             /\ list[j].id # None
  BY <1>1, BuffersAssumption DEF Listed, Typed, Inverse
<1>4. \A a : a \in locals <=> At(d, k, a)
  BY Zenon DEF At
<1>5. \A i : i \in ids <=> Under(d, k, i)
  BY <1>3 DEF Under
<1>6. \A j \in DOMAIN list : ~ stale(j)
  <2> SUFFICES ASSUME NEW j \in DOMAIN list, NEW h \in 1 .. j - 1, list[h].id = list[j].id
               PROVE  FALSE
    BY <1>3, Zenon
  <2>1. list \in Seq(Records)
    BY <1>1, Zenon DEF Typed
  <2>2. j \in Nat /\ h \in DOMAIN list /\ h # j
    <3> HIDE DEF list
    <3> QED  BY <2>1, SMTT(60)
  <2> QED  BY <1>1, <2>2, Zenon DEF Once
<1>7. \A i \in ids : d.byId[i].owned
  BY <1>3
<1>8. ~ wrong
  BY <1>6, <1>7, Zenon
<1> HIDE DEF list, locals, ids, stale
<1>9. DOMAIN d = Fields /\ d.failed = FALSE
  BY <1>1, Zenon DEF Typed
<1>10. f = [d EXCEPT
            !.failed = d.failed \/ wrong,
            !.heap = [a \in Addr |-> IF a \in locals /\ d.shadow[a] # None THEN 0 ELSE @[a]],
            !.byId = Remove(@, ids),
            !.shadow = [a \in Addr |-> IF a \in locals THEN None ELSE @[a]]]
  BY Zenon, <1>2
<1> HIDE DEF wrong, f
<1>11. /\ DOMAIN f = Fields /\ f.failed = FALSE /\ f.issued = d.issued /\ f.coupled = d.coupled
       /\ f.heap = [a \in Addr |-> IF a \in locals /\ d.shadow[a] # None THEN 0 ELSE d.heap[a]]
       /\ f.byId = Remove(d.byId, ids)
       /\ f.shadow = [a \in Addr |-> IF a \in locals THEN None ELSE d.shadow[a]]
  BY <1>8, <1>9, <1>10, Zenon DEF Fields
<1>12. /\ DOMAIN e = Fields /\ e.failed = FALSE /\ e.issued = d.issued
       /\ e.coupled = [d.coupled EXCEPT ![k] = <<>>]
       /\ e.heap = f.heap /\ e.byId = f.byId /\ e.shadow = f.shadow
  <2>1. e = [f EXCEPT !.coupled[k] = <<>>]
    BY Zenon DEF FreeCoupled, f
  <2> QED  BY <1>11, <2>1, Zenon DEF Fields
<1>13. /\ \A i : i \in DOMAIN e.byId <=> i \in DOMAIN d.byId /\ ~ Under(d, k, i)
       /\ \A i \in DOMAIN e.byId : e.byId[i] = d.byId[i]
  <2>1. e.byId = Remove(d.byId, ids)
    BY Zenon, <1>11, <1>12
  <2> QED  BY <1>5, <2>1, Zenon DEF Remove
<1>14. e.heap \in [Addr -> Nat] /\ \A a \in Addr : ~ At(d, k, a) => e.heap[a] = d.heap[a]
  BY <1>1, <1>4, <1>11, <1>12, SMTT(60) DEF Typed
<1>15. /\ e.shadow \in [Addr -> Ids \cup {None}]
       /\ \A a \in Addr : e.shadow[a] = IF At(d, k, a) THEN None ELSE d.shadow[a]
  BY <1>1, <1>4, <1>11, <1>12 DEF Typed
<1>16. /\ e.coupled \in [Keys -> Seq(Records)] /\ e.coupled[k] = <<>>
       /\ \A l \in Keys : l # k => e.coupled[l] = d.coupled[l]
  <2>1. <<>> \in Seq(Records)
    OBVIOUS
  <2> QED  BY <1>1, <1>12, <2>1, Zenon DEF Typed
<1> QED
  BY <1>12, <1>13, <1>14, <1>15, <1>16, Zenon DEF Drops

\* What FreeCoupled does to the tables of side s.
Frees(s, d, k, e) ==
    /\ SideOK(s, e)
    /\ \A i : i \in DOMAIN e.byId <=> i \in DOMAIN d.byId /\ ~ Under(d, k, i)
    /\ \A i \in DOMAIN e.byId : e.byId[i] = d.byId[i]
    /\ \A l, i : Under(e, l, i) <=> Under(d, l, i) /\ l # k

\* Freeing the list of k keeps the tables in order, frees the shadows listed
\* under k and no other, and leaves that list empty.
LEMMA FreesOK ==
    ASSUME NEW s \in Sides, NEW d, SideOK(s, d), NEW k \in Keys,
           NEW e, e = FreeCoupled(d, k)
    PROVE  Frees(s, d, k, e)
<1>1. Typed(d) /\ Inverse(d) /\ Kinds(s, d) /\ Listed(d) /\ Once(d)
  BY Zenon DEF SideOK
<1>2. Drops(d, k, e)
  BY DropsOK, Zenon
<1>3. Typed(e)
  BY <1>1, <1>2, Zenon DEF Typed, Drops
<1>4. \A i \in DOMAIN e.byId : d.byId[i].local \in Addr /\ ~ At(d, k, d.byId[i].local)
  <2> SUFFICES ASSUME NEW i \in DOMAIN e.byId, At(d, k, d.byId[i].local)
               PROVE  FALSE
    BY <1>1, <1>2, Zenon DEF Typed, Records, Drops
  <2>1. i \in DOMAIN d.byId /\ ~ Under(d, k, i)
    BY <1>2, Zenon DEF Drops
  <2>2. PICK j \in DOMAIN d.coupled[k] : d.coupled[k][j].local = d.byId[i].local
    BY Zenon DEF At
  <2>3. /\ d.coupled[k][j].id \in DOMAIN d.byId
        /\ d.byId[d.coupled[k][j].id] = d.coupled[k][j]
    BY <1>1, ZenonT(60) DEF Listed
  <2>4. d.coupled[k][j].id = i
    BY <1>1, <2>1, <2>2, <2>3 DEF Inverse
  <2> QED  BY <2>1, <2>4, Zenon DEF Under
<1>5. \A a \in Addr : e.shadow[a] # None => ~ Under(d, k, d.shadow[a])
  <2> SUFFICES ASSUME NEW a \in Addr, e.shadow[a] # None, Under(d, k, d.shadow[a])
               PROVE  FALSE
    BY Zenon
  <2>1. d.shadow[a] # None /\ ~ At(d, k, a)
    BY <1>2, Zenon DEF Drops
  <2>2. PICK j \in DOMAIN d.coupled[k] : d.coupled[k][j].id = d.shadow[a]
    BY ZenonT(60) DEF Under
  <2>3. d.coupled[k][j].local = a
    BY <1>1, <2>1, <2>2 DEF Inverse, Listed
  <2> QED  BY <2>1, <2>3, Zenon DEF At
<1>6. Inverse(e)
  <2>1. ASSUME NEW i \in DOMAIN e.byId
        PROVE  e.byId[i].id = i /\ e.shadow[e.byId[i].local] = i
    <3>1. i \in DOMAIN d.byId /\ e.byId[i] = d.byId[i]
      BY <1>2, Zenon DEF Drops
    <3>2. e.shadow[d.byId[i].local] = d.shadow[d.byId[i].local]
      BY <1>2, <1>4, Zenon DEF Drops
    <3> QED  BY <1>1, <3>1, <3>2, Zenon DEF Inverse
  <2>2. ASSUME NEW a \in Addr, e.shadow[a] # None
        PROVE  e.shadow[a] \in DOMAIN e.byId /\ e.byId[e.shadow[a]].local = a
    <3>1. e.shadow[a] = d.shadow[a]
      BY <1>2, <2>2, Zenon DEF Drops
    <3>2. d.shadow[a] \in DOMAIN d.byId /\ d.byId[d.shadow[a]].local = a
      BY <1>1, <2>2, <3>1, Zenon DEF Inverse
    <3> QED  BY <1>2, <1>5, <2>2, <3>1, <3>2 DEF Drops
  <2> QED  BY <2>1, <2>2, Zenon DEF Inverse
<1>7. Kinds(s, e)
  <2> SUFFICES ASSUME NEW i \in DOMAIN e.byId
               PROVE  \/ /\ i[1] = s /\ ~ e.byId[i].owned
                         /\ e.byId[i].local \notin HeapAddr /\ i[2] <= e.issued
                      \/ /\ i[1] # s /\ e.byId[i].owned /\ e.byId[i].local \in HeapAddr
                         /\ e.heap[e.byId[i].local] = e.byId[i].size
    BY Zenon DEF Kinds
  <2>1. /\ i \in DOMAIN d.byId /\ e.byId[i] = d.byId[i] /\ e.issued = d.issued
        /\ e.heap[d.byId[i].local] = d.heap[d.byId[i].local]
    BY <1>2, <1>4, Zenon DEF Drops
  <2> QED  BY <1>1, <2>1, Zenon DEF Kinds
<1>8. DOMAIN e.coupled[k] = {}
  BY <1>2 DEF Drops
<1>9. \A l, i : Under(e, l, i) <=> Under(d, l, i) /\ l # k
  <2> TAKE l, i
  <2>1. CASE l = k
    BY <1>8, <2>1, Zenon DEF Under
  <2>2. CASE l # k
    BY <1>2, <2>2, Zenon DEF Under, Drops
  <2> QED  BY <2>1, <2>2, Zenon
<1>10. Once(e)
  BY <1>1, <1>2, <1>8, SMTT(60) DEF Once, Drops
<1>11. Listed(e)
  <2> SUFFICES ASSUME NEW l \in Keys, NEW j \in DOMAIN e.coupled[l], l # k
               PROVE  /\ e.coupled[l][j].id \in DOMAIN e.byId
                      /\ e.byId[e.coupled[l][j].id] = e.coupled[l][j]
                      /\ e.coupled[l][j].owned
                      /\ e.coupled[l][j].size = MaxSize
                      /\ l = e.coupled[l][j].local \/ l \in Objects
    BY <1>8, Zenon DEF Listed
  <2>1. e.coupled[l] = d.coupled[l]
    BY <1>2, Zenon DEF Drops
  <2>2. ~ Under(d, k, d.coupled[l][j].id)
    BY <1>1, <2>1, Zenon DEF Under, Once
  <2> QED  BY <1>1, <1>2, <2>1, <2>2 DEF Listed, Drops
<1> QED
  <2>1. /\ \A i : i \in DOMAIN e.byId <=> i \in DOMAIN d.byId /\ ~ Under(d, k, i)
        /\ \A i \in DOMAIN e.byId : e.byId[i] = d.byId[i]
    BY <1>2, Zenon DEF Drops
  <2> QED  BY Zenon, <1>3, <1>6, <1>7, <1>9, <1>10, <1>11, <2>1 DEF Frees, SideOK

-----------------------------------------------------------------------------
\* The variables are functions of the sides and threads.
Shape ==
    /\ DOMAIN heap = Sides /\ DOMAIN byId = Sides /\ DOMAIN shadow = Sides
    /\ DOMAIN coupled = Sides /\ DOMAIN issued = Sides
    /\ DOMAIN call = Threads /\ DOMAIN dying = Threads

\* The solid buffer of id i is one that thread t works with.
Owns(t, i) == i \in DOMAIN byId[i[1]] /\ byId[i[1]][i].local \in Uses[t]

\* The lifetimes thread t may give, with the object of a coupled one.
Fits(t, lifetime, obj) ==
    /\ lifetime \in Lifetimes
    /\ IF lifetime = "coupled" THEN obj \in Uses[t] \cap Objects ELSE obj = None

\* A promise is made to the thread that owns the buffer.
Promises ==
    \A i \in DOMAIN promised :
       /\ i \in Ids
       /\ \E t \in Threads, lt \in Lifetimes, o \in Objects \cup {None} :
             /\ promised[i] = [lifetime |-> lt, obj |-> o, thread |-> t]
             /\ Fits(t, lt, o)
             /\ Owns(t, i)

\* Buffer i is promised to last for ever.
Static(i) == i \in DOMAIN promised /\ promised[i].lifetime = "static"

\* Only a static buffer has a record of less than full size.
FullSizes ==
    \A s \in Sides : \A i \in DOMAIN byId[s] : byId[s][i].size = MaxSize \/ Static(i)

\* Side s lists buffer i under k.
Holds(s, k, i) == k \in Keys /\ \E j \in DOMAIN coupled[s][k] : coupled[s][k][j].id = i

\* An object lists buffers of the thread that works with it.
ObjectLists ==
    \A s \in Sides, k \in Objects, i \in Ids :
       Holds(s, k, i) => \E t \in Threads : k \in Uses[t] /\ Owns(t, i)

\* Side s has a record of i at a, a shadow only if it holds n elements.
Found(s, i, a, n) ==
    /\ i \in DOMAIN byId[s]
    /\ byId[s][i].local = a
    /\ byId[s][i].owned => byId[s][i].size >= n

\* The buffer of call c is promised as c says.
Given(t, c) ==
    /\ c.id \in DOMAIN promised
    /\ promised[c.id] = [lifetime |-> c.lifetime, obj |-> c.obj, thread |-> t]

\* The state of a call.
Calls == [at : {"app", "sent", "handler", "replied", "copy"},
          kind : {"none", "pass", "fetch", "free"}, arg : Keys \cup {None}, size : Nat,
          lifetime : Lifetimes, obj : Objects \cup {None}, id : Ids \cup {None},
          local : Keys \cup {None}]

\* The buffer that call c of thread t passes, fetches or frees.
BufferArg(t, c) ==
    /\ c.size \in Sizes
    /\ Fits(t, c.lifetime, c.obj)
    /\ c.lifetime = "static" \/ c.size = MaxSize

\* What a call that passes a buffer relies on, up to its RET.
PassOK(t, c) ==
    /\ BufferArg(t, c)
    /\ c.id \in Ids
    /\ Owns(t, c.id)
    /\ Given(t, c)
    /\ Found("guest", c.id, c.arg, c.size)
    /\ c.at = "handler" => Found("worker", c.id, c.local, c.size)
    /\ c.at = "copy" => c.local = c.arg

\* What a call that fetches a buffer relies on, up to its RET.
FetchOK(t, c) ==
    /\ BufferArg(t, c)
    /\ c.at \in {"sent", "handler"} =>
          /\ c.id = None
          /\ c.local \in Uses[t] \cap ApiAddr
          /\ \A i \in DOMAIN promised :
                i \in DOMAIN byId["worker"] /\ byId["worker"][i].local = c.local =>
                   promised[i] = [lifetime |-> c.lifetime, obj |-> c.obj, thread |-> t]
    /\ c.at \in {"replied", "copy"} => c.id \in Ids /\ Owns(t, c.id) /\ Given(t, c)
    /\ c.at = "copy" => Found("guest", c.id, c.local, c.size)

\* What a call that frees an object or a buffer relies on, up to its RET.
FreeOK(t, c) ==
    /\ c.at # "copy"
    /\ \/ c.id = None /\ c.arg = c.local /\ c.arg \in Uses[t] \cap Objects
       \/ /\ BufferArg(t, c)
          /\ c.lifetime = "manual"
          /\ c.id \in Ids
          /\ Owns(t, c.id)
          /\ Found("guest", c.id, c.arg, c.size)
          /\ c.at = "handler" => Found("worker", c.id, c.local, c.size)

\* What call c of thread t relies on.
CallOK(t, c) ==
    /\ c \in Calls
    /\ c.at = "handler" => dying[t] = None
    /\ c.at # "app" =>
          \/ c.kind = "pass" /\ PassOK(t, c)
          \/ c.kind = "fetch" /\ FetchOK(t, c)
          \/ c.kind = "free" /\ FreeOK(t, c)

\* What the worker still has to free for thread t belongs to t.
DyingOK(t, k) ==
    \/ k = None
    \/ k \in Uses[t] \cap Objects
    \/ \E i \in DOMAIN byId["worker"] : byId["worker"][i].local = k /\ Owns(t, i)

\* The inductive invariant of the tables and the calls that use them.
Bind ==
    /\ Shape
    /\ SidesOK
    /\ Promises
    /\ FullSizes
    /\ ObjectLists
    /\ \A t \in Threads : CallOK(t, call[t]) /\ DyingOK(t, dying[t])

\* The tables of side s become d; those of the other side stay.
Becomes(s, d) ==
    /\ heap'[s] = d.heap /\ byId'[s] = d.byId /\ shadow'[s] = d.shadow
    /\ coupled'[s] = d.coupled
    /\ \A o \in Sides : o # s =>
          heap'[o] = heap[o] /\ byId'[o] = byId[o] /\ shadow'[o] = shadow[o] /\ coupled'[o] = coupled[o]
    /\ DOMAIN heap' = Sides /\ DOMAIN byId' = Sides /\ DOMAIN shadow' = Sides
    /\ DOMAIN coupled' = Sides /\ DOMAIN issued' = Sides

\* SideOK depends on the fields only.
LEMMA SameTables ==
    ASSUME NEW s, NEW d, SideOK(s, d), NEW e, DOMAIN e = Fields,
           e.heap = d.heap, e.byId = d.byId, e.shadow = d.shadow, e.coupled = d.coupled,
           e.issued = d.issued, e.failed = d.failed
    PROVE  SideOK(s, e)
<1>1. Typed(e)
  BY Zenon DEF SideOK, Typed
<1>2. Inverse(e) /\ Kinds(s, e)
  BY SMTT(60) DEF SideOK, Inverse, Kinds
<1>3. Listed(e) /\ Once(e)
  BY DEF SideOK, Listed, Once
<1> QED  BY <1>1, <1>2, <1>3, Zenon DEF SideOK

\* SidesOK in the next state, from the tables of each side in it.
LEMMA SidesPrime ==
    ASSUME \A s \in Sides : SideOK(s, Side(s)')
    PROVE  SidesOK'
  BY Zenon DEF SidesOK, SideOK, Typed, Inverse, Kinds, Listed, Once, Records, Fields, Sides, Ids, Keys, Addr, Sizes

\* A step that sets one side to tables in order keeps both in order.
LEMMA SetSideFacts ==
    ASSUME Shape, SidesOK, NEW s \in Sides, NEW d, SideOK(s, d), SetSide(s, d)
    PROVE  SidesOK' /\ Becomes(s, d)
<1>1. Becomes(s, d) /\ issued'[s] = d.issued /\ (\A o \in Sides : o # s => issued'[o] = issued[o])
      /\ failed' = d.failed
  BY Zenon DEF Becomes, SetSide, Shape
<1>2. d.failed = FALSE
  BY Zenon DEF SideOK, Typed
<1>3. ASSUME NEW o \in Sides  PROVE  SideOK(o, Side(o)')
  <2> DEFINE e == Side(o)'
  <2>1. /\ DOMAIN e = Fields /\ e.heap = heap'[o] /\ e.byId = byId'[o] /\ e.shadow = shadow'[o]
        /\ e.coupled = coupled'[o] /\ e.issued = issued'[o] /\ e.failed = failed'
    BY Zenon DEF Side, Fields
  <2> DEFINE f == Side(o)
  <2>2. /\ f.heap = heap[o] /\ f.byId = byId[o] /\ f.shadow = shadow[o]
        /\ f.coupled = coupled[o] /\ f.issued = issued[o] /\ SideOK(o, f)
    BY Zenon DEF Side, SidesOK
  <2>3. f.failed = FALSE
    BY <2>2, Zenon DEF SideOK, Typed
  <2> HIDE DEF e, f
  <2>4. CASE o = s
    <3>1. /\ e.heap = d.heap /\ e.byId = d.byId /\ e.shadow = d.shadow
          /\ e.coupled = d.coupled /\ e.issued = d.issued /\ e.failed = d.failed
      BY <1>1, <2>1, <2>4, Zenon DEF Becomes
    <3>2. SideOK(o, d)
      BY <2>4, Zenon
    <3> QED  BY <2>1, <3>1, <3>2, SameTables, Zenon DEF e
  <2>5. CASE o # s
    <3>1. /\ e.heap = f.heap /\ e.byId = f.byId /\ e.shadow = f.shadow
          /\ e.coupled = f.coupled /\ e.issued = f.issued /\ e.failed = f.failed
      BY <1>1, <1>2, <2>1, <2>2, <2>3, <2>5, ZenonT(60) DEF Becomes
    <3> QED  BY <2>1, <2>2, <3>1, SameTables, Zenon DEF e
  <2> QED  BY <2>4, <2>5, Zenon DEF e
<1> QED  BY <1>1, <1>3, SidesPrime, Zenon

\* What the invariant of the tables says of the variables of side s.
Facts(s) ==
    /\ \A i \in DOMAIN byId[s] :
          /\ i \in Ids /\ byId[s][i] \in Records /\ byId[s][i].id = i
          /\ shadow[s][byId[s][i].local] = i
    /\ \A a \in Addr :
          /\ shadow[s][a] \in Ids \cup {None}
          /\ shadow[s][a] # None =>
                shadow[s][a] \in DOMAIN byId[s] /\ byId[s][shadow[s][a]].local = a
    /\ \A i \in DOMAIN byId[s] :
          \/ i[1] = s /\ ~ byId[s][i].owned /\ byId[s][i].local \notin HeapAddr
          \/ /\ i[1] # s /\ byId[s][i].owned /\ byId[s][i].local \in HeapAddr
             /\ heap[s][byId[s][i].local] = byId[s][i].size
    /\ \A k \in Keys, i \in Ids : Holds(s, k, i) =>
          /\ i \in DOMAIN byId[s] /\ byId[s][i].owned /\ byId[s][i].size = MaxSize
          /\ k = byId[s][i].local \/ k \in Objects
    /\ \A k, l \in Keys, i \in Ids : Holds(s, k, i) /\ Holds(s, l, i) => k = l

\* The invariant of the tables, read off the variables.
LEMMA FactsHold == SidesOK => \A s \in Sides : Facts(s)
<1> SUFFICES ASSUME SidesOK, NEW s \in Sides  PROVE  Facts(s)
  BY Zenon
<1> DEFINE d == Side(s)
<1>1. SideOK(s, d)
  BY Zenon DEF SidesOK
<1>2. /\ d.heap = heap[s] /\ d.byId = byId[s] /\ d.shadow = shadow[s] /\ d.coupled = coupled[s]
  BY Zenon DEF Side
<1> HIDE DEF d
<1>3. Typed(d) /\ Inverse(d) /\ Kinds(s, d) /\ Listed(d) /\ Once(d)
  BY <1>1, Zenon DEF SideOK
<1>4. \A k \in Keys, i \in Ids : Holds(s, k, i) =>
          /\ i \in DOMAIN byId[s] /\ byId[s][i].owned /\ byId[s][i].size = MaxSize
          /\ k = byId[s][i].local \/ k \in Objects
  BY <1>2, <1>3, SMTT(60) DEF Holds, Listed
<1>5. \A k, l \in Keys, i \in Ids : Holds(s, k, i) /\ Holds(s, l, i) => k = l
  BY <1>2, <1>3 DEF Holds, Once
<1>6. \A i \in DOMAIN byId[s] :
          \/ i[1] = s /\ ~ byId[s][i].owned /\ byId[s][i].local \notin HeapAddr
          \/ /\ i[1] # s /\ byId[s][i].owned /\ byId[s][i].local \in HeapAddr
             /\ heap[s][byId[s][i].local] = byId[s][i].size
  BY <1>2, <1>3, Zenon DEF Kinds
<1>7. /\ \A i \in DOMAIN byId[s] :
            /\ i \in Ids /\ byId[s][i] \in Records /\ byId[s][i].id = i
            /\ shadow[s][byId[s][i].local] = i
      /\ \A a \in Addr :
            /\ shadow[s][a] \in Ids \cup {None}
            /\ shadow[s][a] # None =>
                  shadow[s][a] \in DOMAIN byId[s] /\ byId[s][shadow[s][a]].local = a
  BY <1>2, <1>3, ZenonT(60) DEF Typed, Inverse
<1> QED  BY Zenon, <1>4, <1>5, <1>6, <1>7 DEF Facts

\* The same in the next state.
LEMMA FactsNext ==
    ASSUME SidesOK'
    PROVE  \A s \in Sides : Facts(s)'
<1>1. (\A s \in Sides : Facts(s))'
  BY FactsHold, PTL
<1> QED  BY <1>1, Zenon

\* A step of thread t on the tables: solid records stay, and so does all that
\* belongs to other threads.
KeepsTables(t) ==
    /\ \A s \in Sides, i \in Ids : i[1] = s /\ i \in DOMAIN byId[s] =>
          i \in DOMAIN byId'[s] /\ byId'[s][i] = byId[s][i]
    /\ \A s \in Sides, i \in Ids : ~ Owns(t, i)' =>
          /\ i \in DOMAIN byId'[s] <=> i \in DOMAIN byId[s]
          /\ i \in DOMAIN byId[s] => byId'[s][i] = byId[s][i]
          /\ \A k \in Keys : Holds(s, k, i)' <=> Holds(s, k, i)

\* Other threads keep their calls and the promises made to them.
KeepsOthers(t) ==
    /\ \A i \in Ids : ~ Owns(t, i)' =>
          /\ i \in DOMAIN promised' <=> i \in DOMAIN promised
          /\ i \in DOMAIN promised => promised'[i] = promised[i]
    /\ \A u \in Threads : u # t => call'[u] = call[u] /\ dying'[u] = dying[u]

\* A buffer keeps its owner in a step of any thread, and has one owner.
LEMMA OwnsKept ==
    ASSUME UsesApart, SidesOK, NEW t \in Threads, NEW u \in Threads, NEW i \in Ids,
           KeepsTables(t), Owns(u, i)
    PROVE  Owns(u, i)' /\ (u # t => ~ Owns(t, i)')
<1>1. i[1] \in Sides
  BY Zenon DEF Ids
<1>2. i \in DOMAIN byId[i[1]] /\ byId[i[1]][i].local \in Uses[u]
  BY Zenon DEF Owns
<1>3. i \in DOMAIN byId'[i[1]] /\ byId'[i[1]][i] = byId[i[1]][i]
  BY <1>1, <1>2, Zenon DEF KeepsTables
<1> QED  BY <1>2, <1>3, Zenon DEF Owns, UsesApart

\* A step of thread t leaves true what the calls of other threads rely on.
LEMMA OtherThreads ==
    ASSUME UsesApart, Bind, SidesOK', NEW t \in Threads, NEW u \in Threads, u # t,
           KeepsTables(t), KeepsOthers(t)
    PROVE  CallOK(u, call[u])' /\ DyingOK(u, dying[u])'
<1>1. SidesOK /\ CallOK(u, call[u]) /\ DyingOK(u, dying[u])
  BY Zenon DEF Bind
<1>2. \A i \in Ids : Owns(u, i) => Owns(u, i)' /\ ~ Owns(t, i)'
  BY <1>1, OwnsKept, Zenon
<1>3. \A s \in Sides, i \in Ids : ~ Owns(t, i)' =>
          /\ i \in DOMAIN byId'[s] <=> i \in DOMAIN byId[s]
          /\ i \in DOMAIN byId[s] => byId'[s][i] = byId[s][i]
  BY Zenon DEF KeepsTables
<1>4. \A i \in Ids : ~ Owns(t, i)' =>
          /\ i \in DOMAIN promised' <=> i \in DOMAIN promised
          /\ i \in DOMAIN promised => promised'[i] = promised[i]
  BY Zenon DEF KeepsOthers
<1>5. PICK c : call[u] = c
  BY Zenon
<1>6. call'[u] = c
  BY <1>5, Zenon DEF KeepsOthers
<1>7. \A s \in Sides, i \in Ids : \A a, n : Owns(u, i) /\ Found(s, i, a, n) => Found(s, i, a, n)'
  BY <1>2, <1>3, ZenonT(60) DEF Found
<1>8. "guest" \in Sides /\ "worker" \in Sides
  BY Zenon DEF Sides
<1>9. CallOK(u, c)
  BY <1>1, <1>5, Zenon
<1>10. PassOK(u, c) => PassOK(u, c)'
  <2> SUFFICES ASSUME PassOK(u, c)  PROVE  PassOK(u, c)'
    BY Zenon
  <2>1. c.id \in Ids /\ Owns(u, c.id) /\ Given(u, c) /\ Found("guest", c.id, c.arg, c.size)
    BY Zenon DEF PassOK
  <2>2. Owns(u, c.id)' /\ Given(u, c)' /\ Found("guest", c.id, c.arg, c.size)'
    BY <1>2, <1>4, <1>7, <1>8, <2>1, Zenon DEF Given
  <2>3. c.at = "handler" => Found("worker", c.id, c.local, c.size)'
    BY <1>7, <1>8, <2>1, Zenon DEF PassOK
  <2> QED  BY <2>1, <2>2, <2>3, Zenon DEF PassOK, BufferArg, Fits
<1>11. FreeOK(u, c) => FreeOK(u, c)'
  <2> SUFFICES ASSUME FreeOK(u, c), c.id # None  PROVE  FreeOK(u, c)'
    BY BuffersAssumption, Zenon DEF FreeOK
  <2>1. c.id \in Ids /\ Owns(u, c.id) /\ Found("guest", c.id, c.arg, c.size)
    BY Zenon DEF FreeOK
  <2>2. Owns(u, c.id)' /\ Found("guest", c.id, c.arg, c.size)'
    BY <1>2, <1>7, <1>8, <2>1, Zenon
  <2>3. c.at = "handler" => Found("worker", c.id, c.local, c.size)'
    BY <1>7, <1>8, <2>1, Zenon DEF FreeOK
  <2> QED  BY <2>1, <2>2, <2>3, Zenon DEF FreeOK, BufferArg, Fits
<1>12. FetchOK(u, c) => FetchOK(u, c)'
  <2> SUFFICES ASSUME FetchOK(u, c)  PROVE  FetchOK(u, c)'
    BY Zenon
  <2>1. c.at \in {"replied", "copy"} => c.id \in Ids /\ Owns(u, c.id)' /\ Given(u, c)'
    BY <1>2, <1>4, Zenon DEF FetchOK, Given
  <2>2. c.at = "copy" => Found("guest", c.id, c.local, c.size)'
    BY <1>7, <1>8, Zenon DEF FetchOK
  <2>3. ASSUME c.at \in {"sent", "handler"}, NEW i \in DOMAIN promised',
               i \in DOMAIN byId'["worker"], byId'["worker"][i].local = c.local
        PROVE  promised'[i] = [lifetime |-> c.lifetime, obj |-> c.obj, thread |-> u]
    <3>1. c.local \in Uses[u] /\ c.local \in ApiAddr /\ c.local \notin HeapAddr
      BY <2>3, BuffersAssumption, Zenon DEF FetchOK
    <3>2. \A s \in Sides : Facts(s)'
      BY FactsNext, Zenon
    <3>3. i \in Ids /\ i[1] = "worker"
      BY <1>8, <2>3, <3>1, <3>2, Zenon DEF Facts
    <3>4. Owns(u, i)' /\ ~ Owns(t, i)'
      BY <2>3, <3>1, <3>3, Zenon DEF Owns, UsesApart
    <3>5. i \in DOMAIN byId["worker"] /\ byId["worker"][i].local = c.local
      BY <1>3, <1>8, <2>3, <3>3, <3>4, Zenon
    <3>6. i \in DOMAIN promised /\ promised'[i] = promised[i]
      BY <1>4, <2>3, <3>3, <3>4, Zenon
    <3> QED  BY <2>3, <3>5, <3>6, Zenon DEF FetchOK
  <2> QED  BY <2>1, <2>2, <2>3, Zenon DEF FetchOK, BufferArg, Fits
<1>13. CallOK(u, c)'
  <2>1. dying'[u] = dying[u]
    BY Zenon DEF KeepsOthers
  <2> QED  BY <1>9, <1>10, <1>11, <1>12, <2>1, Zenon DEF CallOK, Calls
<1>14. CallOK(u, call[u])'
  BY <1>6, <1>13, Zenon
<1>15. DyingOK(u, dying[u])'
  <2>1. dying'[u] = dying[u]
    BY Zenon DEF KeepsOthers
  <2>2. \A i \in DOMAIN byId["worker"] : i \in Ids
    BY <1>1, <1>8, FactsHold, Zenon DEF Facts
  <2> QED  BY <1>1, <1>2, <1>3, <1>8, <2>1, <2>2, Zenon DEF DyingOK
<1> QED  BY <1>14, <1>15, Zenon

\* Objects list the buffers they listed before, and new ones of thread t.
KeepsLists(t) ==
    \A s \in Sides, k \in Objects, i \in Ids :
       Holds(s, k, i)' => Holds(s, k, i) \/ (k \in Uses[t] /\ Owns(t, i)')

\* Promises were made before, or are made to thread t for a buffer of its own.
KeepsPromises(t) ==
    \A i \in DOMAIN promised' :
       /\ i \in Ids
       /\ \/ i \in DOMAIN promised /\ promised'[i] = promised[i]
          \/ /\ Owns(t, i)'
             /\ \E lt \in Lifetimes, o \in Objects \cup {None} :
                   /\ promised'[i] = [lifetime |-> lt, obj |-> o, thread |-> t]
                   /\ Fits(t, lt, o)

\* Only records of static buffers have less than the full size.
KeepsSizes ==
    \A s \in Sides : \A i \in DOMAIN byId'[s] :
       \/ i \in DOMAIN byId[s] /\ byId'[s][i].size = byId[s][i].size /\ (Static(i) => Static(i)')
       \/ byId'[s][i].size = MaxSize
       \/ Static(i)'

\* What a step of thread t has to establish for the invariant to hold after it.
LEMMA BindStep ==
    ASSUME UsesApart, Bind, Shape', SidesOK', NEW t \in Threads,
           KeepsTables(t), KeepsOthers(t), KeepsLists(t), KeepsPromises(t), KeepsSizes,
           CallOK(t, call[t])', DyingOK(t, dying[t])'
    PROVE  Bind'
<1>1. SidesOK /\ Promises /\ FullSizes /\ ObjectLists
  BY Zenon DEF Bind
<1>2. \A u \in Threads, i \in Ids : Owns(u, i) => Owns(u, i)'
  BY <1>1, OwnsKept, Zenon
<1>3. Promises'
  <2> SUFFICES ASSUME NEW i \in DOMAIN promised'
               PROVE  /\ i \in Ids
                      /\ \E u \in Threads, lt \in Lifetimes, o \in Objects \cup {None} :
                            /\ promised'[i] = [lifetime |-> lt, obj |-> o, thread |-> u]
                            /\ Fits(u, lt, o)
                            /\ Owns(u, i)'
    BY Zenon DEF Promises, Fits
  <2>1. i \in Ids
    BY Zenon DEF KeepsPromises
  <2>2. CASE i \in DOMAIN promised /\ promised'[i] = promised[i]
    <3>1. PICK u \in Threads, lt \in Lifetimes, o \in Objects \cup {None} :
             /\ promised[i] = [lifetime |-> lt, obj |-> o, thread |-> u]
             /\ Fits(u, lt, o)
             /\ Owns(u, i)
      BY <1>1, <2>2, Zenon DEF Promises
    <3>2. Owns(u, i)'
      BY <1>2, <2>1, <3>1, Zenon
    <3> QED  BY Zenon, <2>1, <2>2, <3>1, <3>2
  <2>3. CASE /\ Owns(t, i)'
             /\ \E lt \in Lifetimes, o \in Objects \cup {None} :
                   /\ promised'[i] = [lifetime |-> lt, obj |-> o, thread |-> t]
                   /\ Fits(t, lt, o)
    BY Zenon, <2>1, <2>3
  <2> QED  BY <2>2, <2>3, Zenon DEF KeepsPromises
<1>4. FullSizes'
  <2> SUFFICES ASSUME NEW s \in Sides, NEW i \in DOMAIN byId'[s]
               PROVE  byId'[s][i].size = MaxSize \/ Static(i)'
    BY Zenon DEF FullSizes
  <2> QED  BY <1>1, Zenon DEF KeepsSizes, FullSizes
<1>5. ObjectLists'
  <2> SUFFICES ASSUME NEW s \in Sides, NEW k \in Objects, NEW i \in Ids, Holds(s, k, i)'
               PROVE  \E u \in Threads : k \in Uses[u] /\ Owns(u, i)'
    BY Zenon DEF ObjectLists
  <2>1. CASE Holds(s, k, i)
    BY <1>1, <1>2, <2>1, Zenon DEF ObjectLists
  <2>2. CASE k \in Uses[t] /\ Owns(t, i)'
    BY <2>2, Zenon
  <2> QED  BY <2>1, <2>2, Zenon DEF KeepsLists
<1>6. \A u \in Threads : CallOK(u, call[u])' /\ DyingOK(u, dying[u])'
  BY OtherThreads, Zenon
<1> QED
  BY <1>3, <1>4, <1>5, <1>6, Zenon DEF Bind

\* Side x keeps what it has of buffer i: its record and where it is listed.
Same(x, i) ==
    /\ i \in DOMAIN byId'[x] <=> i \in DOMAIN byId[x]
    /\ i \in DOMAIN byId[x] => byId'[x][i] = byId[x][i]
    /\ \A k \in Keys : Holds(x, k, i)' <=> Holds(x, k, i)

\* No shadow is made, changed or freed.
KeepsShadows == \A x \in Sides, i \in Ids : i[1] # x => Same(x, i)

\* Only side s changes, in what it has of buffer id: at most a new shadow.
Got(s, id, lt, o) ==
    /\ \A x \in Sides, i \in Ids : x # s \/ i # id => Same(x, i)
    /\ \/ id \in DOMAIN byId[s] /\ Same(s, id)
       \/ /\ id \in DOMAIN byId'[s] /\ id[1] # s
          /\ \A k \in Keys : Holds(s, k, id)' <=> k = KeyOf(lt, o, byId'[s][id].local)

\* Side s frees the shadows listed under k.
Lost(s, k) ==
    /\ \A x \in Sides, i \in Ids : ~ (x = s /\ Holds(s, k, i)) => Same(x, i)
    /\ \A i \in Ids : Holds(s, k, i) => i \notin DOMAIN byId'[s]

\* A step that attaches a buffer of thread t makes at most a solid record.
LEMMA AttachStep ==
    ASSUME UsesApart, Bind, NEW t \in Threads, NEW s \in Sides, NEW a \in Addr, NEW n \in Sizes,
           shadow[s][a] # None \/ (a \in Uses[t] /\ a \notin HeapAddr),
           NEW d, d = Attach(Side(s), s, a, n), SetSide(s, d)
    PROVE  /\ SidesOK' /\ Becomes(s, d) /\ Attaches(s, Side(s), a, n, d)
           /\ KeepsTables(t) /\ KeepsLists(t)
           /\ KeepsShadows
<1> DEFINE e == Side(s)
<1>1. Shape /\ SidesOK /\ SideOK(s, e)
  BY Zenon DEF Bind, SidesOK
<1>2. e.byId = byId[s] /\ e.shadow = shadow[s] /\ e.coupled = coupled[s]
  BY Zenon DEF Side
<1> HIDE DEF e
<1>3. Attaches(s, e, a, n, d)
  BY <1>1, <1>2, AttachOK, Zenon DEF e
<1>4. SidesOK' /\ Becomes(s, d)
  BY <1>1, <1>3, SetSideFacts, ZenonT(60) DEF Attaches
<1>5. \A o \in Sides : \A k, i : Holds(o, k, i)' <=> Holds(o, k, i)
  BY <1>2, <1>3, <1>4, SMTT(60) DEF Holds, Attaches, Becomes
<1>6. KeepsTables(t)
  <2>1. ASSUME NEW o \in Sides, NEW i \in Ids, i \in DOMAIN byId[o]
        PROVE  i \in DOMAIN byId'[o] /\ byId'[o][i] = byId[o][i]
    BY <1>2, <1>3, <1>4, <2>1 DEF Attaches, Becomes
  <2>2. ASSUME NEW o \in Sides, NEW i \in Ids, i \in DOMAIN byId'[o], i \notin DOMAIN byId[o]
        PROVE  Owns(t, i)'
    <3>1. o = s /\ i = d.shadow[a]
      BY <1>2, <1>3, <1>4, <2>2, Zenon DEF Attaches, Becomes
    <3>2. d # e
      BY <1>2, <1>4, <2>2, <3>1, Zenon DEF Becomes
    <3>3. shadow[s][a] = None
      <4> SUFFICES ASSUME shadow[s][a] # None  PROVE  d = e
        BY <3>2, Zenon
      <4> QED  BY <1>2, Zenon DEF Attach, e
    <3>4. i[1] = s /\ d.byId[i].local = a /\ i \in DOMAIN d.byId
      BY <1>3, <3>1, <3>2, Zenon DEF Attaches
    <3> QED  BY <1>4, <3>3, <3>4, Zenon DEF Owns, Becomes
  <2> QED  BY <1>5, <2>1, <2>2, ZenonT(60) DEF KeepsTables
<1>7. KeepsShadows
  <2> SUFFICES ASSUME NEW x \in Sides, NEW i \in Ids, i[1] # x  PROVE  Same(x, i)
    BY ZenonT(60) DEF KeepsShadows
  <2>1. i \in DOMAIN byId[x] => i \in DOMAIN byId'[x] /\ byId'[x][i] = byId[x][i]
    BY <1>2, <1>3, <1>4 DEF Attaches, Becomes
  <2>2. i \in DOMAIN byId'[x] => i \in DOMAIN byId[x]
    BY <1>2, <1>3, <1>4, ZenonT(60) DEF Attaches, Becomes
  <2> QED  BY <1>5, <2>1, <2>2, Zenon DEF Same
<1> QED  BY <1>3, <1>4, <1>5, <1>6, <1>7, Zenon DEF KeepsLists, e

\* A step that gets a buffer of thread t changes what its side has of it only.
LEMMA GetStep ==
    ASSUME UsesApart, Bind, NEW t \in Threads, NEW s \in Sides, NEW id, NEW n, NEW lt, NEW o,
           Request(s, Side(s), id, n, lt, o), Owns(t, id), Fits(t, lt, o),
           NEW g \in GetBuffer(Side(s), id, n, lt, o), SetSide(s, g.d)
    PROVE  /\ SidesOK' /\ Becomes(s, g.d) /\ Gets(s, Side(s), id, n, lt, o, g.d, g.local)
           /\ KeepsTables(t) /\ KeepsLists(t) /\ Got(s, id, lt, o)
           /\ \A x \in Sides, i \in Ids : i # id =>
                 /\ i \in DOMAIN byId'[x] <=> i \in DOMAIN byId[x]
                 /\ i \in DOMAIN byId[x] => byId'[x][i] = byId[x][i]
<1> DEFINE e == Side(s)
<1>1. Shape /\ SidesOK /\ SideOK(s, e)
  BY Zenon DEF Bind, SidesOK
<1>2. e.byId = byId[s] /\ e.coupled = coupled[s]
  BY Zenon DEF Side
<1>3. Gets(s, e, id, n, lt, o, g.d, g.local)
  BY <1>1, GetsOK, Zenon
<1> HIDE DEF e
<1> PICK d : g.d = d
  BY Zenon
<1>4. d = e \/ Makes(s, e, id, n, lt, o, d, g.local)
  BY <1>3, Zenon DEF Gets
<1>5. SideOK(s, d)
  BY <1>1, <1>4, Zenon DEF Makes
<1>6. SidesOK' /\ Becomes(s, d)
  BY <1>1, <1>5, SetSideFacts, ZenonT(60)
<1>7. \A x \in Sides, i \in Ids : i # id =>
         /\ i \in DOMAIN byId'[x] <=> i \in DOMAIN byId[x]
         /\ i \in DOMAIN byId[x] => byId'[x][i] = byId[x][i]
  BY <1>2, <1>4, <1>6, SMTT(60) DEF Makes, OnlyChanges, Becomes
<1>8. \A x \in Sides, i \in Ids : i[1] = x /\ i \in DOMAIN byId[x] =>
          i \in DOMAIN byId'[x] /\ byId'[x][i] = byId[x][i]
  BY <1>2, <1>4, <1>6, <1>7 DEF Makes, Becomes
<1>9. id \in Ids /\ Owns(t, id)'
  <2>1. id \in Ids /\ id[1] \in Sides
    BY Zenon DEF Request, Ids
  <2> QED  BY <1>8, <2>1, Zenon DEF Owns
<1>10. \A x \in Sides, k \in Keys, i \in Ids : i # id => (Holds(x, k, i)' <=> Holds(x, k, i))
  <2> SUFFICES ASSUME NEW x \in Sides, NEW k \in Keys, NEW i \in Ids, i # id
               PROVE  Holds(x, k, i)' <=> Holds(x, k, i)
    BY Zenon
  <2>1. CASE x # s
    BY <1>6, <2>1, Zenon DEF Becomes, Holds
  <2>2. CASE x = s
    <3>1. Holds(x, k, i)' <=> Under(d, k, i)
      BY <1>6, <2>2, ZenonT(60) DEF Becomes, Holds, Under
    <3>2. Holds(x, k, i) <=> Under(e, k, i)
      BY <1>2, <2>2, Zenon DEF Holds, Under
    <3>3. Under(d, k, i) <=> Under(e, k, i)
      BY <1>4, Zenon DEF Makes
    <3> QED  BY <3>1, <3>2, <3>3, Zenon
  <2> QED  BY <2>1, <2>2, Zenon
<1>11. KeepsTables(t)
  BY <1>7, <1>8, <1>9, <1>10, Zenon DEF KeepsTables
<1>12. KeepsLists(t)
  <2> SUFFICES ASSUME NEW x \in Sides, NEW k \in Objects, Holds(x, k, id)', ~ Holds(x, k, id)
               PROVE  k \in Uses[t]
    BY <1>9, <1>10, Zenon DEF KeepsLists, Keys
  <2>1. x = s
    BY <1>6, Zenon DEF Becomes, Holds
  <2>2. Under(d, k, id) /\ ~ Under(e, k, id)
    <3>1. coupled'[s] = d.coupled /\ coupled[s] = e.coupled
      BY <1>2, <1>6, Zenon DEF Becomes
    <3> QED  BY <2>1, <3>1, Zenon DEF Holds, Under
  <2>3. k = KeyOf(lt, o, g.local) /\ g.local \in HeapAddr
    <3>1. Makes(s, e, id, n, lt, o, d, g.local)
      BY <1>4, <2>2, Zenon
    <3>2. k = KeyOf(lt, o, g.local)
      BY <1>9, <2>2, <3>1, ZenonT(60) DEF Makes, Keys
    <3>3. Kinds(s, d) /\ id \in DOMAIN d.byId /\ id[1] # s /\ d.byId[id].local = g.local
      BY <1>5, <3>1 DEF Makes, SideOK
    <3> QED  BY <3>2, <3>3, Zenon DEF Kinds
  <2> QED  BY <2>3, BuffersAssumption, Zenon DEF KeyOf, Fits, Lifetimes
<1>13. \A x \in Sides, i \in Ids : x # s \/ i # id => Same(x, i)
  <2> SUFFICES ASSUME NEW x \in Sides, NEW i \in Ids, x # s \/ i # id  PROVE  Same(x, i)
    BY Zenon
  <2>1. CASE i # id
    BY <1>7, <1>10, <2>1, Zenon DEF Same
  <2>2. CASE x # s
    BY <1>6, <2>2, Zenon DEF Same, Becomes, Holds
  <2> QED  BY <2>1, <2>2, Zenon
<1>14. \A k : (Holds(s, k, id)' <=> Under(d, k, id)) /\ (Holds(s, k, id) <=> Under(e, k, id))
  BY <1>2, <1>6, ZenonT(60) DEF Becomes, Holds, Under
<1>15. Got(s, id, lt, o)
  <2>1. CASE Makes(s, e, id, n, lt, o, d, g.local)
    <3>1. /\ id \in DOMAIN byId'[s] /\ id[1] # s
          /\ byId'[s][id] = [id |-> id, local |-> g.local, size |-> n, owned |-> TRUE]
      BY <1>6, <2>1, ZenonT(60) DEF Makes, Becomes
    <3>2. byId'[s][id].local = g.local
      BY <3>1
    <3>3. \A k \in Keys : Holds(s, k, id)' <=> k = KeyOf(lt, o, g.local)
      BY <1>9, <1>14, <2>1, Zenon DEF Makes
    <3> QED  BY <1>13, <3>1, <3>2, <3>3, Zenon DEF Got
  <2>2. CASE id \in DOMAIN byId[s] /\ d = e
    <3>1. Same(s, id)
      BY <1>2, <1>6, <1>14, <2>2, Zenon DEF Same, Becomes
    <3> QED  BY <1>13, <2>2, <3>1, Zenon DEF Got
  <2> QED  BY <1>2, <1>3, <2>1, <2>2, Zenon DEF Gets
<1> QED  BY <1>3, <1>6, <1>7, <1>11, <1>12, <1>15, Zenon DEF e

\* A step that frees a list of thread t frees what it holds and nothing else.
LEMMA FreeStep ==
    ASSUME UsesApart, Bind, NEW t \in Threads, NEW s \in Sides, NEW k \in Keys,
           \A i \in Ids : Holds(s, k, i) => Owns(t, i),
           SetSide(s, FreeCoupled(Side(s), k))
    PROVE  /\ SidesOK' /\ Becomes(s, FreeCoupled(Side(s), k))
           /\ KeepsTables(t) /\ KeepsLists(t)
           /\ \A x \in Sides, i \in Ids :
                 /\ i \in DOMAIN byId'[x] <=> i \in DOMAIN byId[x] /\ ~ (x = s /\ Holds(s, k, i))
                 /\ i \in DOMAIN byId'[x] => byId'[x][i] = byId[x][i]
           /\ Lost(s, k)
<1> DEFINE e == Side(s)  d == FreeCoupled(e, k)
<1>1. Shape /\ SidesOK /\ SideOK(s, e)
  BY Zenon DEF Bind, SidesOK
<1>2. e.byId = byId[s] /\ e.coupled = coupled[s]
  BY Zenon DEF Side
<1>3. SetSide(s, d)
  BY Zenon
<1> HIDE DEF e
<1>4. Frees(s, e, k, d)
  BY <1>1, FreesOK, Zenon
<1> HIDE DEF d
<1>5. SideOK(s, d)
  BY <1>4, Zenon DEF Frees
<1>6. SidesOK' /\ Becomes(s, d)
  BY <1>1, <1>3, <1>5, SetSideFacts, Zenon
<1>7. \A l, i : Holds(s, l, i) <=> Under(e, l, i)
  BY <1>2, Zenon DEF Holds, Under
<1>8. \A l, i : Holds(s, l, i)' <=> Under(d, l, i)
  BY <1>6, Zenon DEF Holds, Under, Becomes
<1>9. \A x \in Sides, i \in Ids :
         /\ i \in DOMAIN byId'[x] <=> i \in DOMAIN byId[x] /\ ~ (x = s /\ Holds(s, k, i))
         /\ i \in DOMAIN byId'[x] => byId'[x][i] = byId[x][i]
  BY <1>2, <1>4, <1>6, <1>7 DEF Frees, Becomes
<1>10. \A x \in Sides, l \in Keys, i \in Ids :
          Holds(x, l, i)' <=> Holds(x, l, i) /\ ~ (x = s /\ l = k)
  <2> SUFFICES ASSUME NEW x \in Sides, NEW l \in Keys, NEW i \in Ids
               PROVE  Holds(x, l, i)' <=> Holds(x, l, i) /\ ~ (x = s /\ l = k)
    BY Zenon
  <2>1. CASE x # s
    BY <1>6, <2>1, ZenonT(60) DEF Becomes, Holds
  <2>2. CASE x = s
    BY <1>4, <1>7, <1>8, <2>2, Zenon DEF Frees
  <2> QED  BY <2>1, <2>2, Zenon
<1>11. \A x \in Sides, i \in Ids : i[1] = x /\ i \in DOMAIN byId[x] =>
          i \in DOMAIN byId'[x] /\ byId'[x][i] = byId[x][i]
  BY <1>1, <1>9, FactsHold DEF Facts
<1>12. \A i \in Ids : Holds(s, k, i) => Owns(t, i)'
  <2> SUFFICES ASSUME NEW i \in Ids, Holds(s, k, i)  PROVE  Owns(t, i)'
    BY Zenon
  <2>1. Owns(t, i) /\ i[1] \in Sides
    BY Zenon DEF Ids
  <2> QED  BY <1>11, <2>1, Zenon DEF Owns
<1>13. KeepsTables(t)
  BY <1>9, <1>10, <1>11, <1>12, Zenon DEF KeepsTables
<1>14. KeepsLists(t)
  BY <1>10, Zenon DEF KeepsLists, Keys
<1>15. Lost(s, k)
  <2> SUFFICES ASSUME NEW x \in Sides, NEW i \in Ids, ~ (x = s /\ Holds(s, k, i))
               PROVE  Same(x, i)
    BY <1>9, Zenon DEF Lost
  <2> QED  BY <1>9, <1>10, Zenon DEF Same
<1> QED  BY <1>6, <1>9, <1>13, <1>14, <1>15, Zenon DEF d, e

\* A step that leaves the tables alone.
LEMMA IdleStep ==
    ASSUME Bind, NEW t \in Threads, UNCHANGED <<tables, failed>>
    PROVE  /\ SidesOK' /\ KeepsTables(t) /\ KeepsLists(t)
           /\ KeepsShadows
<1>1. /\ heap' = heap /\ byId' = byId /\ shadow' = shadow /\ coupled' = coupled
      /\ issued' = issued /\ failed' = failed
  BY Zenon DEF tables
<1>2. SidesOK'
  <2>1. ASSUME NEW s \in Sides  PROVE  SideOK(s, Side(s)')
    <3>1. Side(s)' = Side(s)
      BY <1>1, Zenon DEF Side
    <3> QED  BY <3>1, Zenon DEF Bind, SidesOK
  <2> QED  BY <2>1, SidesPrime, Zenon
<1>3. \A x \in Sides : \A k, i : Holds(x, k, i)' <=> Holds(x, k, i)
  BY <1>1, Zenon DEF Holds
<1> QED  BY <1>1, <1>2, <1>3, Zenon DEF KeepsTables, KeepsLists, KeepsShadows, Same

\* The program passes coupled and manual buffers always with the same size, so that
\* only static shadows grow.
FixedSizes == ~ GrowCoupled

\* What is still to be freed for thread t stays, when no shadow of the worker goes.
LEMMA DyingKept ==
    ASSUME UsesApart, SidesOK, NEW t \in Threads, KeepsTables(t), DyingOK(t, dying[t]),
           dying'[t] = dying[t],
           \A i \in Ids : i \in DOMAIN byId["worker"] =>
              i \in DOMAIN byId'["worker"] /\ byId'["worker"][i].local = byId["worker"][i].local
    PROVE  DyingOK(t, dying[t])'
<1>1. \A i \in DOMAIN byId["worker"] : i \in Ids
  BY FactsHold, Zenon DEF Facts, Sides
<1>2. \A i \in Ids : Owns(t, i) => Owns(t, i)'
  BY OwnsKept, Zenon
<1> QED  BY <1>1, <1>2, Zenon DEF DyingOK

\* Buffer id is promised, and nothing else changes in what is promised.
Extends(id) ==
    /\ DOMAIN promised' = DOMAIN promised \cup {id}
    /\ \A i \in DOMAIN promised : promised'[i] = promised[i]

\* A step of thread t: it changes what belongs to t and keeps the invariant.
StepOf(t) == Bind' /\ KeepsTables(t) /\ KeepsOthers(t)

\* PassBuffer keeps the invariant, makes no shadow, and promises the buffer it
\* passes; a buffer of the worker was promised before.
LEMMA PassBind ==
    ASSUME UsesApart, FixedSizes, Bind, NEW t \in Threads, NEW a \in Addr, NEW n \in Sizes,
           NEW lt \in Lifetimes, NEW o \in Objects \cup {None}, PassBuffer(t, a, n, lt, o)
    PROVE  StepOf(t) /\ KeepsShadows
           /\ call'[t].at = "sent" /\ call'[t].kind = "pass" /\ Extends(call'[t].id)
           /\ (call'[t].id[1] = "worker" => call'[t].id \in DOMAIN promised)
<1> DEFINE e == Side("guest")
           d == Attach(e, "guest", a, n)
           p == [lifetime |-> lt, obj |-> o, thread |-> t]
<1> PICK id : d.shadow[a] = id
  BY Zenon
<1>c. PICK c : c = [Idle EXCEPT !.at = "sent", !.kind = "pass", !.arg = a, !.size = n,
                              !.lifetime = lt, !.obj = o, !.id = id]
  BY Zenon
<1>1. /\ GuestMayUse(t, a, n) /\ MayPass(t, n, lt, o) /\ Consistent(id, p)
      /\ SetSide("guest", d) /\ promised' = Insert(promised, id, p)
      /\ call' = [call EXCEPT ![t] = c] /\ dying' = dying
  BY Zenon, <1>c DEF PassBuffer
<1>2. Shape /\ SidesOK /\ Promises /\ FullSizes /\ "guest" \in Sides /\ CallOK(t, call[t])
      /\ DyingOK(t, dying[t]) /\ DOMAIN call = Threads /\ DOMAIN dying = Threads
  BY Zenon DEF Bind, Sides, Shape
<1>3. Facts("guest")
  BY <1>2, FactsHold, ZenonT(60)
<1>4. shadow["guest"][a] # None \/ (a \in Uses[t] /\ a \notin HeapAddr)
  BY <1>1, <1>2, BuffersAssumption DEF GuestMayUse, Promises
<1>5. e.shadow = shadow["guest"] /\ e.byId = byId["guest"] /\ e.heap = heap["guest"]
  BY Zenon DEF Side
<1>6. /\ SidesOK' /\ Becomes("guest", d) /\ Attaches("guest", e, a, n, d)
      /\ KeepsTables(t) /\ KeepsLists(t) /\ KeepsShadows
  <2> PICK dd : dd = d
    BY Zenon
  <2>1. dd = Attach(Side("guest"), "guest", a, n) /\ SetSide("guest", dd)
    BY <1>1, Zenon
  <2> HIDE DEF d, e
  <2>2. /\ SidesOK' /\ Becomes("guest", dd) /\ Attaches("guest", Side("guest"), a, n, dd)
        /\ KeepsTables(t) /\ KeepsLists(t) /\ KeepsShadows
    BY <1>2, <1>4, <2>1, AttachStep, Zenon
  <2> QED  BY <2>2, Zenon DEF e
<1>7. \A s \in Sides : Facts(s)'
  BY <1>6, FactsNext, Zenon
<1>8. shadow["guest"][a] # None => d = e
  BY <1>5, ZenonT(60) DEF Attach
<1> HIDE DEF d, e
<1>9. /\ id \in DOMAIN byId'["guest"] /\ byId'["guest"][id].local = a /\ id \in Ids
  BY <1>2, <1>6, <1>7, SMTT(60) DEF Attaches, Becomes, Facts
<1>10. Owns(t, id)'
  <2>1. CASE a \in Uses[t] \cap AppAddr
    <3>1. id[1] = "guest"
      <4>1. Facts("guest")' /\ a \notin HeapAddr
        BY <1>2, <1>7, <2>1, BuffersAssumption, Zenon
      <4> QED  BY <1>9, <4>1, Zenon DEF Facts
    <3> QED  BY <1>9, <2>1, <3>1, ZenonT(60) DEF Owns
  <2>2. CASE a \in HeapAddr /\ shadow["guest"][a] \in DOMAIN promised
             /\ promised[shadow["guest"][a]].thread = t
    <3>1. id = shadow["guest"][a]
      BY <1>2, <1>5, <1>8, <2>2, BuffersAssumption, ZenonT(60) DEF Promises
    <3>2. Owns(t, id)
      BY <1>2, <2>2, <3>1 DEF Promises
    <3> QED  BY <1>2, <1>6, <1>9, <3>2, OwnsKept, Zenon
  <2> QED  BY <1>1, <2>1, <2>2, Zenon DEF GuestMayUse
<1>11. Fits(t, lt, o) /\ (lt = "static" \/ n = MaxSize)
  BY <1>1, Zenon DEF Fits, MayPass, FixedSizes
<1>12. /\ DOMAIN promised' = DOMAIN promised \cup {id} /\ promised'[id] = p
       /\ \A i \in DOMAIN promised : promised'[i] = promised[i]
  BY <1>1, Zenon DEF Insert, Consistent
<1>13. KeepsPromises(t)
  BY <1>2, <1>9, <1>10, <1>11, <1>12, Zenon DEF KeepsPromises, Promises
<1>14. KeepsOthers(t)
  BY <1>1, <1>2, <1>10, <1>12, Zenon DEF KeepsOthers
<1>15. KeepsSizes
  <2> SUFFICES ASSUME NEW s \in Sides, NEW i \in DOMAIN byId'[s]
               PROVE  \/ /\ i \in DOMAIN byId[s] /\ byId'[s][i].size = byId[s][i].size
                         /\ Static(i) => Static(i)'
                      \/ byId'[s][i].size = MaxSize
                      \/ Static(i)'
    BY Zenon DEF KeepsSizes
  <2>1. Static(i) => Static(i)'
    BY <1>12, Zenon DEF Static
  <2>2. CASE i \in DOMAIN byId[s] /\ byId'[s][i] = byId[s][i]
    BY <2>1, <2>2, ZenonT(60)
  <2>3. CASE ~ (i \in DOMAIN byId[s] /\ byId'[s][i] = byId[s][i])
    <3>1. s = "guest" /\ byId'["guest"] = d.byId
      BY <1>6, <2>3, Zenon DEF Becomes
    <3>a. /\ \A j : j # id => (j \in DOMAIN d.byId <=> j \in DOMAIN byId["guest"])
          /\ \A j \in DOMAIN byId["guest"] : d.byId[j] = byId["guest"][j]
          /\ d.byId = byId["guest"] \/ d.byId[id].size = n
      BY <1>5, <1>6, Zenon DEF Attaches
    <3>2. i = id /\ byId'[s][i].size = n
      BY <2>3, <3>1, <3>a, Zenon
    <3>3. promised'[id].lifetime = lt
      BY <1>12, SMTT(60)
    <3> QED  BY <1>11, <1>12, <3>2, <3>3, Zenon DEF Static
  <2> QED  BY <2>2, <2>3, Zenon
<1>16. Found("guest", id, a, n)'
  <2> SUFFICES ASSUME byId'["guest"][id].owned  PROVE  byId'["guest"][id].size >= n
    BY <1>9, Zenon DEF Found
  <2>1. a \in HeapAddr /\ heap'["guest"][a] = byId'["guest"][id].size
    <3>1. Facts("guest")'
      BY <1>2, <1>7, Zenon
    <3> QED  BY <1>9, <3>1, Zenon DEF Facts
  <2>2. d = e /\ heap["guest"][a] >= n
    BY <1>1, <1>4, <1>8, <2>1, BuffersAssumption, Zenon DEF GuestMayUse
  <2> QED  BY <1>2, <1>5, <1>6, <2>1, <2>2, ZenonT(60) DEF Becomes
<1>17. /\ c.at = "sent" /\ c.kind = "pass" /\ c.arg = a /\ c.size = n /\ c.lifetime = lt
       /\ c.obj = o /\ c.id = id /\ c.local = None /\ c \in Calls
  <2>1. c = [at |-> "sent", kind |-> "pass", arg |-> a, size |-> n, lifetime |-> lt,
             obj |-> o, id |-> id, local |-> None]
    BY <1>c, Zenon DEF Idle
  <2>2. a \in Keys \cup {None} /\ n \in Nat /\ id \in Ids \cup {None}
    BY <1>9 DEF Keys, Sizes
  <2>3. /\ c.at = "sent" /\ c.kind = "pass" /\ c.arg = a /\ c.size = n /\ c.lifetime = lt
        /\ c.obj = o /\ c.id = id /\ c.local = None
    BY <2>1, Zenon
  <2>4. c \in Calls
    BY <2>1, <2>2, Zenon DEF Calls
  <2> QED  BY <2>3, <2>4, Zenon
<1>18. CallOK(t, call[t])'
  <2>1. call'[t] = c
    BY <1>1, <1>2, Zenon
  <2>2. PassOK(t, c)'
    BY <1>9, <1>10, <1>11, <1>12, <1>16, <1>17, Zenon DEF PassOK, BufferArg, Given, Fits
  <2> QED  BY <1>17, <2>1, <2>2, Zenon DEF CallOK
<1>19. DyingOK(t, dying[t])'
  <2>1. \A i \in Ids : i \in DOMAIN byId["worker"] =>
           i \in DOMAIN byId'["worker"] /\ byId'["worker"][i].local = byId["worker"][i].local
    BY <1>6, Zenon DEF Becomes, Sides
  <2> QED  BY <1>1, <1>2, <1>6, <2>1, DyingKept, Zenon
<1>20. Shape'
  BY <1>1, <1>2, <1>6, Zenon DEF Shape, Becomes
<1>w. id[1] = "worker" => id \in DOMAIN promised
  <2> SUFFICES ASSUME id[1] = "worker"  PROVE  id \in DOMAIN promised
    BY ZenonT(60)
  <2>1. a \in HeapAddr
    <3>1. Facts("guest")'
      BY <1>2, <1>7, Zenon
    <3> QED  BY <1>9, <3>1, ZenonT(60) DEF Facts
  <2> QED  BY <1>1, <1>5, <1>8, <2>1, <1>4, BuffersAssumption, Zenon DEF GuestMayUse
<1>b. Bind'
  BY <1>6, <1>13, <1>14, <1>15, <1>18, <1>19, <1>20, BindStep, Zenon
<1> QED  BY <1>b, <1>1, <1>2, <1>6, <1>12, <1>14, <1>17, <1>w, Zenon DEF StepOf, Extends

\* The call of thread t moves on; the calls of the others stay.
Moved(t, at, local, id) ==
    /\ call'[t] \in Calls
    /\ call'[t].at = at /\ call'[t].local = local /\ call'[t].id = id
    /\ call'[t].kind = call[t].kind /\ call'[t].arg = call[t].arg
    /\ call'[t].size = call[t].size /\ call'[t].lifetime = call[t].lifetime
    /\ call'[t].obj = call[t].obj
    /\ DOMAIN call' = Threads
    /\ \A u \in Threads : u # t => call'[u] = call[u]

\* What the three forms of assignment to a call do to it.
LEMMA CallMoves ==
    ASSUME NEW t \in Threads, DOMAIN call = Threads, call[t] \in Calls,
           NEW at \in {"app", "sent", "handler", "replied", "copy"},
           NEW local \in Keys \cup {None}, NEW id \in Ids \cup {None},
           \/ call' = [call EXCEPT ![t].at = at] /\ call[t].local = local /\ call[t].id = id
           \/ call' = [call EXCEPT ![t].at = at, ![t].local = local] /\ call[t].id = id
           \/ call' = [call EXCEPT ![t].at = at, ![t].id = id] /\ call[t].local = local
    PROVE  Moved(t, at, local, id)
<1>1. CASE call' = [call EXCEPT ![t].at = at] /\ call[t].local = local /\ call[t].id = id
  BY <1>1, ZenonT(60) DEF Moved, Calls
<1>2. CASE call' = [call EXCEPT ![t].at = at, ![t].local = local] /\ call[t].id = id
  BY <1>2, ZenonT(60) DEF Moved, Calls
<1>3. CASE call' = [call EXCEPT ![t].at = at, ![t].id = id] /\ call[t].local = local
  BY <1>3, ZenonT(60) DEF Moved, Calls
<1> QED  BY <1>1, <1>2, <1>3, Zenon

\* FetchBuffer keeps the invariant and the shadows.
LEMMA FetchBind ==
    ASSUME UsesApart, FixedSizes, Bind, NEW t \in Threads, NEW w \in Addr, NEW n \in Sizes,
           NEW lt \in Lifetimes, NEW o \in Objects \cup {None}, FetchBuffer(t, w, n, lt, o)
    PROVE  StepOf(t) /\ KeepsShadows
<1> DEFINE p == [lifetime |-> lt, obj |-> o, thread |-> t]
<1>c. PICK c : c = [Idle EXCEPT !.at = "sent", !.kind = "fetch", !.size = n, !.local = w,
                                !.lifetime = lt, !.obj = o]
  BY Zenon
<1>1. /\ w \in Uses[t] \cap ApiAddr /\ MayPass(t, n, lt, o) /\ Consistent(shadow["worker"][w], p)
      /\ call' = [call EXCEPT ![t] = c] /\ UNCHANGED <<tables, failed>>
      /\ dying' = dying /\ promised' = promised
  BY Zenon, <1>c DEF FetchBuffer
<1>2. Shape /\ SidesOK /\ Promises /\ FullSizes /\ "worker" \in Sides
      /\ DyingOK(t, dying[t]) /\ DOMAIN call = Threads /\ DOMAIN dying = Threads
  BY Zenon DEF Bind, Sides, Shape
<1>3. Facts("worker") /\ byId' = byId
  BY <1>1, <1>2, FactsHold, Zenon DEF tables
<1>4. SidesOK' /\ KeepsTables(t) /\ KeepsLists(t) /\ KeepsShadows
  BY <1>1, IdleStep, Zenon
<1>5. KeepsPromises(t)
  BY <1>1, <1>2, Zenon DEF KeepsPromises, Promises
<1>6. KeepsOthers(t)
  BY <1>1, <1>2, Zenon DEF KeepsOthers
<1>7. KeepsSizes
  BY <1>1, <1>3, Zenon DEF KeepsSizes, Static
<1>8. Fits(t, lt, o) /\ (lt = "static" \/ n = MaxSize)
  BY <1>1, Zenon DEF Fits, MayPass, FixedSizes
<1>9. /\ c.at = "sent" /\ c.kind = "fetch" /\ c.size = n /\ c.lifetime = lt
      /\ c.obj = o /\ c.id = None /\ c.local = w /\ c \in Calls
  <2>1. c = [at |-> "sent", kind |-> "fetch", arg |-> None, size |-> n, lifetime |-> lt,
             obj |-> o, id |-> None, local |-> w]
    BY <1>c, Zenon DEF Idle
  <2>2. w \in Keys \cup {None} /\ n \in Nat
    BY DEF Keys, Sizes
  <2>3. /\ c.at = "sent" /\ c.kind = "fetch" /\ c.size = n /\ c.lifetime = lt
        /\ c.obj = o /\ c.id = None /\ c.local = w
    BY <2>1, Zenon
  <2>4. c \in Calls
    BY <2>1, <2>2, Zenon DEF Calls
  <2> QED  BY <2>3, <2>4, Zenon
<1>10. CallOK(t, call[t])'
  <2>1. call'[t] = c
    BY <1>1, <1>2, Zenon
  <2>2. ASSUME NEW i \in DOMAIN promised', i \in DOMAIN byId'["worker"],
               byId'["worker"][i].local = w
        PROVE  promised'[i] = p
    <3>1. shadow["worker"][w] = i
      BY <1>3, <2>2, Zenon DEF Facts
    <3> QED  BY <1>1, <2>2, <3>1, Zenon DEF Consistent
  <2>3. FetchOK(t, c)'
    BY <1>1, <1>8, <1>9, <2>2, Zenon DEF FetchOK, BufferArg, Fits
  <2> QED  BY <1>9, <2>1, <2>3, Zenon DEF CallOK
<1>11. DyingOK(t, dying[t])'
  BY <1>1, <1>2, <1>3, <1>4, DyingKept, Zenon
<1>12. Shape'
  BY <1>1, <1>2, Zenon DEF Shape, tables
<1>b. Bind'
  BY <1>4, <1>5, <1>6, <1>7, <1>10, <1>11, <1>12, BindStep, Zenon
<1> QED  BY <1>b, <1>4, <1>6, Zenon DEF StepOf

\* FreeObject keeps the invariant and the shadows.
LEMMA FreeObjectBind ==
    ASSUME UsesApart, Bind, NEW t \in Threads, NEW o \in Objects, FreeObject(t, o)
    PROVE  StepOf(t) /\ KeepsShadows
<1> DEFINE R == {i \in DOMAIN promised : promised[i].obj = o}
<1>c. PICK c : c = [Idle EXCEPT !.at = "sent", !.kind = "free", !.arg = o, !.local = o]
  BY Zenon
<1>1. /\ o \in Uses[t] /\ promised' = Remove(promised, R)
      /\ call' = [call EXCEPT ![t] = c] /\ UNCHANGED <<tables, failed>> /\ dying' = dying
  BY <1>c, Zenon DEF FreeObject
<1>2. Shape /\ SidesOK /\ Promises /\ FullSizes
      /\ DyingOK(t, dying[t]) /\ DOMAIN call = Threads /\ DOMAIN dying = Threads
  BY Zenon DEF Bind, Sides, Shape
<1>3. byId' = byId
  BY <1>1, Zenon DEF tables
<1>4. SidesOK' /\ KeepsTables(t) /\ KeepsLists(t) /\ KeepsShadows
  BY <1>1, IdleStep, Zenon
<1>5. /\ \A i : i \in DOMAIN promised' <=> i \in DOMAIN promised /\ promised[i].obj # o
      /\ \A i \in DOMAIN promised' : promised'[i] = promised[i]
  BY <1>1, Zenon DEF Remove
<1>6. KeepsPromises(t)
  BY <1>2, <1>5, Zenon DEF KeepsPromises, Promises
<1>7. KeepsOthers(t)
  <2>1. ASSUME NEW i \in DOMAIN promised, promised[i].obj = o
        PROVE  Owns(t, i)'
    <3>1. PICK u \in Threads, lt \in Lifetimes, x \in Objects \cup {None} :
             /\ promised[i] = [lifetime |-> lt, obj |-> x, thread |-> u]
             /\ Fits(u, lt, x) /\ Owns(u, i)
      BY <1>2, Zenon DEF Promises
    <3>2. x = o /\ o \in Uses[u]
      BY <2>1, <3>1, BuffersAssumption DEF Fits
    <3>3. u = t
      BY <1>1, <3>2, Zenon DEF UsesApart
    <3> QED  BY <1>3, <3>1, <3>3, Zenon DEF Owns
  <2> QED  BY <1>1, <1>2, <1>5, <2>1, Zenon DEF KeepsOthers
<1>8. KeepsSizes
  <2>1. \A i : Static(i) => Static(i)'
    <3> SUFFICES ASSUME NEW i, Static(i)  PROVE  Static(i)'
      BY Zenon
    <3>1. promised[i].obj = None
      BY <1>2 DEF Static, Promises, Fits
    <3> QED  BY <1>5, <3>1, BuffersAssumption, Zenon DEF Static
  <2> QED  BY <1>3, <2>1, Zenon DEF KeepsSizes
<1>9. /\ c.at = "sent" /\ c.kind = "free" /\ c.arg = o /\ c.id = None /\ c.local = o /\ c \in Calls
  <2>1. c = [at |-> "sent", kind |-> "free", arg |-> o, size |-> 0, lifetime |-> "static",
             obj |-> None, id |-> None, local |-> o]
    BY <1>c, Zenon DEF Idle
  <2>2. o \in Keys \cup {None} /\ "static" \in Lifetimes
    BY Zenon DEF Keys, Lifetimes
  <2>3. c.at = "sent" /\ c.kind = "free" /\ c.arg = o /\ c.id = None /\ c.local = o
    BY <2>1, Zenon
  <2>4. c \in Calls
    BY <2>1, <2>2, Zenon DEF Calls
  <2> QED  BY <2>3, <2>4, Zenon
<1>10. CallOK(t, call[t])'
  <2>1. call'[t] = c
    BY <1>1, <1>2, Zenon
  <2>2. FreeOK(t, c)'
    BY <1>1, <1>9, Zenon DEF FreeOK
  <2> QED  BY <1>9, <2>1, <2>2, Zenon DEF CallOK
<1>11. DyingOK(t, dying[t])'
  BY <1>1, <1>2, <1>3, <1>4, DyingKept, Zenon
<1>12. Shape'
  BY <1>1, <1>2, Zenon DEF Shape, tables
<1>b. Bind'
  BY <1>4, <1>6, <1>7, <1>8, <1>10, <1>11, <1>12, BindStep, Zenon
<1> QED  BY <1>b, <1>4, <1>7, Zenon DEF StepOf

\* FreeBuffer keeps the invariant and the shadows.
LEMMA FreeBufferBind ==
    ASSUME UsesApart, Bind, NEW t \in Threads, NEW a \in Addr, FreeBuffer(t, a)
    PROVE  StepOf(t) /\ KeepsShadows
<1>i. PICK id : shadow["guest"][a] = id
  BY Zenon
<1>n. PICK n : byId["guest"][id].size = n
  BY Zenon
<1>c. PICK c : c = [Idle EXCEPT !.at = "sent", !.kind = "free", !.arg = a, !.size = n,
                                !.lifetime = "manual", !.id = id]
  BY Zenon
<1>1. /\ id \in DOMAIN promised /\ promised[id].lifetime = "manual" /\ promised[id].thread = t
      /\ promised' = Remove(promised, {id})
      /\ call' = [call EXCEPT ![t] = c] /\ UNCHANGED <<tables, failed>> /\ dying' = dying
  BY Zenon, <1>i, <1>n, <1>c DEF FreeBuffer
<1>2. Shape /\ SidesOK /\ Promises /\ FullSizes /\ "guest" \in Sides
      /\ DyingOK(t, dying[t]) /\ DOMAIN call = Threads /\ DOMAIN dying = Threads
  BY Zenon DEF Bind, Sides, Shape
<1>3. byId' = byId /\ Facts("guest")
  BY <1>1, <1>2, FactsHold, Zenon DEF tables
<1>4. SidesOK' /\ KeepsTables(t) /\ KeepsLists(t) /\ KeepsShadows
  BY <1>1, IdleStep, Zenon
<1>5. /\ \A i : i \in DOMAIN promised' <=> i \in DOMAIN promised /\ i # id
      /\ \A i \in DOMAIN promised' : promised'[i] = promised[i]
  BY <1>1, Zenon DEF Remove
<1>6. KeepsPromises(t)
  BY <1>2, <1>5, Zenon DEF KeepsPromises, Promises
<1>7. id \in Ids /\ Owns(t, id) /\ Owns(t, id)'
  <2>1. id \in Ids /\ Owns(t, id)
    BY <1>1, <1>2 DEF Promises
  <2> QED  BY <1>3, <2>1, ZenonT(60) DEF Owns
<1>8. KeepsOthers(t)
  BY <1>1, <1>2, <1>5, <1>7, Zenon DEF KeepsOthers
<1>9. KeepsSizes
  <2>1. \A i : Static(i) => Static(i)'
    BY <1>1, <1>5, Zenon DEF Static
  <2> QED  BY <1>3, <2>1, Zenon DEF KeepsSizes
<1>10. id \in DOMAIN byId["guest"] /\ byId["guest"][id].local = a /\ byId["guest"][id] \in Records
  BY <1>3, <1>7, <1>i, BuffersAssumption, ZenonT(60) DEF Facts
<1>11. n = MaxSize /\ n \in Sizes /\ n >= n
  <2>1. ~ Static(id)
    BY <1>1, Zenon DEF Static
  <2> QED  BY <1>2, <1>10, <1>n, <2>1 DEF FullSizes, Records, Sizes
<1>12. /\ c.at = "sent" /\ c.kind = "free" /\ c.arg = a /\ c.size = n /\ c.lifetime = "manual"
       /\ c.obj = None /\ c.id = id /\ c.local = None /\ c \in Calls
  <2>1. c = [at |-> "sent", kind |-> "free", arg |-> a, size |-> n, lifetime |-> "manual",
             obj |-> None, id |-> id, local |-> None]
    BY <1>c, Zenon DEF Idle
  <2>2. a \in Keys \cup {None} /\ n \in Nat /\ "manual" \in Lifetimes
    BY <1>11 DEF Keys, Sizes, Lifetimes
  <2>3. /\ c.at = "sent" /\ c.kind = "free" /\ c.arg = a /\ c.size = n /\ c.lifetime = "manual"
        /\ c.obj = None /\ c.id = id /\ c.local = None
    BY <2>1, Zenon
  <2>4. c \in Calls
    BY <1>7, <2>1, <2>2, Zenon DEF Calls
  <2> QED  BY <2>3, <2>4, Zenon
<1>13. CallOK(t, call[t])'
  <2>1. call'[t] = c
    BY <1>1, <1>2, Zenon
  <2>2. Found("guest", id, a, n)'
    BY <1>3, <1>10, <1>11, <1>n, Zenon DEF Found
  <2>3. FreeOK(t, c)'
    BY <1>7, <1>11, <1>12, <2>2, Zenon DEF FreeOK, BufferArg, Fits, Lifetimes
  <2> QED  BY <1>12, <2>1, <2>3, Zenon DEF CallOK
<1>14. DyingOK(t, dying[t])'
  BY <1>1, <1>2, <1>3, <1>4, DyingKept, Zenon
<1>15. Shape'
  BY <1>1, <1>2, Zenon DEF Shape, tables
<1>b. Bind'
  BY <1>4, <1>6, <1>8, <1>9, <1>13, <1>14, <1>15, BindStep, Zenon
<1> QED  BY <1>b, <1>4, <1>8, Zenon DEF StepOf

\* Getting a buffer leaves no record of less than full size but of static ones.
LEMMA GetSizes ==
    ASSUME NEW s \in Sides, NEW id \in Ids, NEW n, NEW lt, NEW o, NEW d, NEW a,
           Gets(s, Side(s), id, n, lt, o, d, a), Becomes(s, d),
           \A x \in Sides, i \in Ids : i # id =>
              /\ i \in DOMAIN byId'[x] <=> i \in DOMAIN byId[x]
              /\ i \in DOMAIN byId[x] => byId'[x][i] = byId[x][i],
           SidesOK', promised' = promised, n = MaxSize \/ Static(id)
    PROVE  KeepsSizes
<1>1. \A i : Static(i)' <=> Static(i)
  BY Zenon DEF Static
<1>2. \A x \in Sides : Facts(x)'
  BY FactsNext, Zenon
<1> SUFFICES ASSUME NEW x \in Sides, NEW i \in DOMAIN byId'[x]
             PROVE  \/ i \in DOMAIN byId[x] /\ byId'[x][i].size = byId[x][i].size
                    \/ byId'[x][i].size = MaxSize
                    \/ Static(i)'
  BY <1>1, Zenon DEF KeepsSizes
<1>3. i \in Ids
  BY <1>2, Zenon DEF Facts
<1>4. CASE i # id
  BY <1>3, <1>4, Zenon
<1>5. CASE i = id /\ x # s
  BY <1>5, Zenon DEF Becomes
<1>6. CASE i = id /\ x = s
  <2>1. Side(s).byId = byId[s]
    BY Zenon DEF Side
  <2>2. CASE d = Side(s)
    BY <1>6, <2>1, <2>2, Zenon DEF Becomes
  <2>3. CASE Makes(s, Side(s), id, n, lt, o, d, a)
    <3>1. byId'[x][i] = [id |-> id, local |-> a, size |-> n, owned |-> TRUE]
      BY <1>6, <2>3, ZenonT(60) DEF Makes, Becomes
    <3>2. byId'[x][i].size = n
      BY <3>1
    <3> QED  BY <1>1, <1>6, <3>2, Zenon
  <2> QED  BY <2>2, <2>3, Zenon DEF Gets
<1> QED  BY <1>4, <1>5, <1>6, Zenon

\* Sizes are numbers: one is not both at least and less than another.
LEMMA SizesOrdered == \A m, n \in Sizes : m >= n => ~ (m < n)
BY BuffersAssumption DEF Sizes

\* The address GetBuffer returns is that of a record large enough.
LEMMA GetFound ==
    ASSUME NEW s \in Sides, NEW id, NEW n \in Nat, NEW lt, NEW o, NEW d, NEW a,
           Gets(s, Side(s), id, n, lt, o, d, a), Becomes(s, d)
    PROVE  Found(s, id, a, n)'
<1>1. Side(s).byId = byId[s] /\ byId'[s] = d.byId
  BY Zenon DEF Side, Becomes
<1>2. CASE /\ id \in DOMAIN Side(s).byId
           /\ Side(s).byId[id].owned => Side(s).byId[id].size >= n
           /\ d = Side(s)
           /\ a = Side(s).byId[id].local
  BY <1>1, <1>2, Zenon DEF Found
<1>3. CASE Makes(s, Side(s), id, n, lt, o, d, a)
  <2>1. /\ id \in DOMAIN byId'[s]
        /\ byId'[s][id] = [id |-> id, local |-> a, size |-> n, owned |-> TRUE]
    BY <1>1, <1>3, Zenon DEF Makes
  <2>2. byId'[s][id].local = a /\ byId'[s][id].size = n
    BY <2>1
  <2> QED  BY <2>1, <2>2 DEF Found
<1> QED  BY <1>2, <1>3, Zenon DEF Gets

\* HandleBuffer keeps the invariant: the worker has the buffer of the call, and
\* has changed nothing else.
LEMMA HandleBind ==
    ASSUME UsesApart, Bind, NEW t \in Threads, HandleBuffer(t)
    PROVE  StepOf(t)
           /\ Got("worker", call[t].id, call[t].lifetime, call[t].obj)
           /\ Moved(t, "handler", call'[t].local, call[t].id)
<1>c. PICK c : call[t] = c
  BY Zenon
<1>1. c.at = "sent" /\ c.id # None /\ dying[t] = None /\ dying' = dying /\ promised' = promised
  BY <1>c, Zenon DEF HandleBuffer
<1>g. PICK g \in GetBuffer(Side("worker"), c.id, c.size, c.lifetime, c.obj) :
         /\ SetSide("worker", g.d)
         /\ call' = [call EXCEPT ![t].at = "handler", ![t].local = g.local]
  BY Zenon, <1>c DEF HandleBuffer
<1>2. Shape /\ SidesOK /\ CallOK(t, c) /\ "worker" \in Sides /\ "guest" \in Sides
      /\ Promises /\ DOMAIN call = Threads /\ DOMAIN dying = Threads
  BY <1>c, Zenon DEF Bind, Sides, Shape
<1>3. /\ c \in Calls /\ c.id \in Ids /\ BufferArg(t, c) /\ Owns(t, c.id)
      /\ Found("guest", c.id, c.arg, c.size)
      /\ \/ c.kind = "pass" /\ PassOK(t, c)
         \/ c.kind = "free" /\ FreeOK(t, c)
  BY <1>1, <1>2, Zenon DEF CallOK, PassOK, FetchOK, FreeOK
<1>4. Request("worker", Side("worker"), c.id, c.size, c.lifetime, c.obj) /\ Fits(t, c.lifetime, c.obj)
  <2>1. Side("worker").byId = byId["worker"]
    BY Zenon DEF Side
  <2> QED  BY <1>3, <2>1, Zenon DEF Request, BufferArg, Fits, Owns
<1>5. /\ SidesOK' /\ Becomes("worker", g.d)
      /\ Gets("worker", Side("worker"), c.id, c.size, c.lifetime, c.obj, g.d, g.local)
      /\ KeepsTables(t) /\ KeepsLists(t) /\ Got("worker", c.id, c.lifetime, c.obj)
      /\ \A x \in Sides, i \in Ids : i # c.id =>
            /\ i \in DOMAIN byId'[x] <=> i \in DOMAIN byId[x]
            /\ i \in DOMAIN byId[x] => byId'[x][i] = byId[x][i]
  <2>1. "worker" \in Sides /\ Owns(t, c.id)
    BY <1>2, <1>3, Zenon
  <2> QED  BY <1>4, <1>g, <2>1, GetStep, SMTT(60)
<1>6. Found("worker", c.id, g.local, c.size)'
  <2>1. c.size \in Nat
    BY <1>3, BuffersAssumption DEF BufferArg, Sizes
  <2> QED  BY <1>2, <1>5, <2>1, GetFound, ZenonT(60)
<1>7. KeepsSizes
  <2>1. c.size = MaxSize \/ Static(c.id)
    <3>1. CASE PassOK(t, c)
      <4>1. c.id \in DOMAIN promised /\ promised[c.id].lifetime = c.lifetime
        BY <3>1 DEF PassOK, Given
      <4> QED  BY <1>3, <4>1, ZenonT(60) DEF BufferArg, Static
    <3>2. CASE FreeOK(t, c)
      <4>1. c.lifetime = "manual"
        BY <1>1, <3>2, Zenon DEF FreeOK
      <4> QED  BY <1>3, <4>1, Zenon DEF BufferArg
    <3> QED  BY <1>3, <3>1, <3>2, Zenon
  <2> QED  BY <1>1, <1>2, <1>3, <1>5, <2>1, GetSizes, Zenon
<1>8. Moved(t, "handler", g.local, c.id)
  <2>1. g.local \in Keys \cup {None}
    <3>1. Facts("worker")'
      BY <1>2, <1>5, FactsNext, Zenon
    <3> QED  BY <1>6, <3>1, Zenon DEF Facts, Found, Records, Keys
  <2> QED  BY <1>2, <1>3, <1>c, <1>g, <2>1, CallMoves, Zenon
<1>9. KeepsOthers(t)
  BY <1>1, <1>8, Zenon DEF KeepsOthers, Moved
<1>10. KeepsPromises(t)
  BY <1>1, <1>2, Zenon DEF KeepsPromises, Promises
<1>11. CallOK(t, call[t])'
  <2>1. PICK n : call'[t] = n
    BY Zenon
  <2>2. /\ n \in Calls /\ n.at = "handler" /\ n.local = g.local /\ n.id = c.id
        /\ n.kind = c.kind /\ n.arg = c.arg /\ n.size = c.size /\ n.lifetime = c.lifetime
        /\ n.obj = c.obj
    BY <1>8, <1>c, <2>1, Zenon DEF Moved
  <2>3. Owns(t, n.id)'
    BY <1>2, <1>3, <1>5, <2>2, OwnsKept, Zenon
  <2>4. Found("guest", n.id, n.arg, n.size)'
    BY <1>2, <1>3, <1>5, <2>2, ZenonT(60) DEF Found, Becomes
  <2>5. Found("worker", n.id, n.local, n.size)'
    BY <1>6, <2>2, Zenon
  <2>6. BufferArg(t, n)
    BY <1>3, <2>2, Zenon DEF BufferArg
  <2>7. CASE c.kind = "pass" /\ PassOK(t, c)
    <3>1. Given(t, n)'
      BY <1>1, <2>2, <2>7, Zenon DEF PassOK, Given
    <3>2. PassOK(t, n)'
      BY <1>3, <2>2, <2>3, <2>4, <2>5, <2>6, <3>1, ZenonT(60) DEF PassOK, BufferArg, Fits
    <3>3. CallOK(t, n)'
      BY <1>1, <2>2, <2>7, <3>2, Zenon DEF CallOK
    <3> QED  BY <2>1, <3>3, Zenon
  <2>8. CASE c.kind = "free" /\ FreeOK(t, c)
    <3>1. n.lifetime = "manual"
      BY <1>1, <2>2, <2>8, Zenon DEF FreeOK
    <3>2. FreeOK(t, n)'
      BY <1>3, <2>2, <2>3, <2>4, <2>5, <2>6, <3>1, Zenon DEF FreeOK, BufferArg, Fits
    <3>3. CallOK(t, n)'
      BY <1>1, <2>2, <2>8, <3>2, Zenon DEF CallOK
    <3> QED  BY <2>1, <3>3, Zenon
  <2> QED  BY <1>3, <2>7, <2>8, Zenon
<1>12. DyingOK(t, dying[t])'
  BY <1>1, Zenon DEF DyingOK
<1>13. Shape'
  BY <1>1, <1>2, <1>5, <1>8, Zenon DEF Shape, Becomes, Moved
<1>b. Bind'
  BY <1>5, <1>7, <1>9, <1>10, <1>11, <1>12, <1>13, BindStep, Zenon
<1> QED  BY <1>b, <1>5, <1>8, <1>9, <1>c, Zenon DEF StepOf, Moved

\* HandlePlain keeps the invariant and the shadows.
LEMMA HandlePlainBind ==
    ASSUME UsesApart, Bind, NEW t \in Threads, HandlePlain(t)
    PROVE  StepOf(t) /\ KeepsShadows /\ Moved(t, "handler", call[t].local, None)
<1>c. PICK c : call[t] = c
  BY Zenon
<1>1. /\ c.at = "sent" /\ c.id = None /\ dying[t] = None /\ dying' = dying /\ promised' = promised
      /\ call' = [call EXCEPT ![t].at = "handler"] /\ UNCHANGED <<tables, failed>>
  BY <1>c, Zenon DEF HandlePlain
<1>2. Shape /\ SidesOK /\ CallOK(t, c) /\ Promises /\ DOMAIN call = Threads /\ DOMAIN dying = Threads
  BY <1>c, Zenon DEF Bind, Shape
<1>3. byId' = byId
  BY <1>1, Zenon DEF tables
<1>4. SidesOK' /\ KeepsTables(t) /\ KeepsLists(t) /\ KeepsShadows
  BY <1>1, IdleStep, Zenon
<1>5. c \in Calls
  BY <1>2, Zenon DEF CallOK
<1>6. Moved(t, "handler", c.local, None)
  <2>1. c.local \in Keys \cup {None}
    BY <1>5, Zenon DEF Calls
  <2> QED  BY <1>1, <1>2, <1>5, <1>c, <2>1, CallMoves, Zenon
<1>7. KeepsOthers(t)
  BY <1>1, <1>6, Zenon DEF KeepsOthers, Moved
<1>8. KeepsPromises(t) /\ KeepsSizes
  BY <1>1, <1>2, <1>3, Zenon DEF KeepsPromises, Promises, KeepsSizes, Static
<1>9. CallOK(t, call[t])'
  <2>1. PICK n : call'[t] = n
    BY Zenon
  <2>2. /\ n \in Calls /\ n.at = "handler" /\ n.local = c.local /\ n.id = None
        /\ n.kind = c.kind /\ n.arg = c.arg /\ n.size = c.size /\ n.lifetime = c.lifetime
        /\ n.obj = c.obj
    BY <1>6, <1>c, <2>1, Zenon DEF Moved
  <2>3. CASE c.kind = "fetch" /\ FetchOK(t, c)
    <3>1. FetchOK(t, n)'
      BY <1>1, <1>3, <2>2, <2>3, Zenon DEF FetchOK, BufferArg, Fits
    <3>2. CallOK(t, n)'
      BY <1>1, <2>2, <2>3, <3>1, Zenon DEF CallOK
    <3> QED  BY <2>1, <3>2, Zenon
  <2>4. CASE c.kind = "free" /\ FreeOK(t, c)
    <3>1. FreeOK(t, n)'
      BY <1>1, <2>2, <2>4, BuffersAssumption, Zenon DEF FreeOK
    <3>2. CallOK(t, n)'
      BY <1>1, <2>2, <2>4, <3>1, Zenon DEF CallOK
    <3> QED  BY <2>1, <3>2, Zenon
  <2>5. ~ PassOK(t, c)
    BY <1>1, BuffersAssumption, Zenon DEF PassOK
  <2> QED  BY <1>1, <1>2, <2>3, <2>4, <2>5, Zenon DEF CallOK
<1>10. DyingOK(t, dying[t])'
  BY <1>1, Zenon DEF DyingOK
<1>11. Shape'
  BY <1>1, <1>2, <1>6, Zenon DEF Shape, tables, Moved
<1>b. Bind'
  BY <1>4, <1>7, <1>8, <1>9, <1>10, <1>11, BindStep, Zenon
<1> QED  BY <1>b, <1>c, <1>4, <1>6, <1>7, Zenon DEF StepOf

\* The reply to a call that frees keeps the invariant and the shadows.
LEMMA ReplyFreeBind ==
    ASSUME UsesApart, Bind, NEW t \in Threads, Reply(t), call[t].kind = "free"
    PROVE  StepOf(t) /\ KeepsShadows /\ Moved(t, "replied", call[t].local, call[t].id)
<1>c. PICK c : call[t] = c
  BY Zenon
<1>1. /\ c.at = "handler" /\ c.kind = "free"
      /\ dying' = [dying EXCEPT ![t] = c.local] /\ promised' = promised
      /\ call' = [call EXCEPT ![t].at = "replied"] /\ UNCHANGED <<tables, failed>>
  BY <1>c, Zenon DEF Reply
<1>2. Shape /\ SidesOK /\ CallOK(t, c) /\ Promises /\ DOMAIN call = Threads /\ DOMAIN dying = Threads
  BY <1>c, Zenon DEF Bind, Shape
<1>3. byId' = byId
  BY <1>1, Zenon DEF tables
<1>4. SidesOK' /\ KeepsTables(t) /\ KeepsLists(t) /\ KeepsShadows
  BY <1>1, IdleStep, Zenon
<1>5. c \in Calls /\ FreeOK(t, c)
  BY <1>1, <1>2, Zenon DEF CallOK
<1>6. Moved(t, "replied", c.local, c.id)
  <2>1. c.local \in Keys \cup {None} /\ c.id \in Ids \cup {None}
    BY <1>5, Zenon DEF Calls
  <2> QED  BY <1>1, <1>2, <1>5, <1>c, <2>1, CallMoves, Zenon
<1>7. KeepsOthers(t)
  BY <1>1, <1>2, <1>6, Zenon DEF KeepsOthers, Moved
<1>8. KeepsPromises(t) /\ KeepsSizes
  BY <1>1, <1>2, <1>3, Zenon DEF KeepsPromises, Promises, KeepsSizes, Static
<1>9. CallOK(t, call[t])'
  <2>1. PICK n : call'[t] = n
    BY Zenon
  <2>2. /\ n \in Calls /\ n.at = "replied" /\ n.local = c.local /\ n.id = c.id
        /\ n.kind = c.kind /\ n.arg = c.arg /\ n.size = c.size /\ n.lifetime = c.lifetime
        /\ n.obj = c.obj
    BY <1>6, <1>c, <2>1, Zenon DEF Moved
  <2>3. FreeOK(t, n)'
    BY <1>3, <1>5, <2>2, Zenon DEF FreeOK, BufferArg, Fits, Owns, Found
  <2>4. CallOK(t, n)'
    BY <1>1, <2>2, <2>3, Zenon DEF CallOK
  <2> QED  BY <2>1, <2>4, Zenon
<1>10. DyingOK(t, dying[t])'
  <2>1. dying'[t] = c.local
    BY <1>1, <1>2, Zenon
  <2>2. DyingOK(t, c.local)
    BY <1>1, <1>5, Zenon DEF DyingOK, FreeOK, Found
  <2> QED  BY <1>3, <2>1, <2>2, Zenon DEF DyingOK, Owns
<1>11. Shape'
  BY <1>1, <1>2, <1>6, Zenon DEF Shape, tables, Moved
<1>b. Bind'
  BY <1>4, <1>7, <1>8, <1>9, <1>10, <1>11, BindStep, Zenon
<1> QED  BY <1>b, <1>c, <1>4, <1>6, <1>7, Zenon DEF StepOf

\* The reply to a call with a buffer keeps the invariant and the shadows: the
\* buffer passed keeps its id, the one fetched has an id of the worker.
LEMMA ReplyBind ==
    ASSUME UsesApart, Bind, NEW t \in Threads, Reply(t), call[t].kind # "free"
    PROVE  StepOf(t) /\ KeepsShadows
           /\ Moved(t, "replied", call[t].local, call'[t].id) /\ Extends(call'[t].id)
           /\ (call[t].kind = "pass" => call'[t].id = call[t].id)
           /\ (call[t].kind = "fetch" => call'[t].id[1] = "worker")
<1>c. PICK c : call[t] = c
  BY Zenon
<1>d. PICK d : d = Attach(Side("worker"), "worker", c.local, c.size)
  BY Zenon
<1>i. PICK id : d.shadow[c.local] = id
  BY Zenon
<1> DEFINE p == [lifetime |-> c.lifetime, obj |-> c.obj, thread |-> t]
<1>1. /\ c.at = "handler" /\ c.kind # "free" /\ SetSide("worker", d)
      /\ call' = [call EXCEPT ![t].at = "replied", ![t].id = id]
      /\ promised' = Insert(promised, id, p) /\ dying' = dying
  BY Zenon, <1>c, <1>d, <1>i DEF Reply
<1>2. /\ Shape /\ SidesOK /\ CallOK(t, c) /\ Promises /\ "worker" \in Sides /\ "guest" \in Sides
      /\ DOMAIN call = Threads /\ DOMAIN dying = Threads /\ Facts("worker")
  BY <1>c, FactsHold, Zenon DEF Bind, Shape, Sides
<1>3. /\ c \in Calls /\ BufferArg(t, c) /\ dying[t] = None /\ c.size \in Sizes
      /\ Fits(t, c.lifetime, c.obj)
      /\ \/ c.kind = "pass" /\ PassOK(t, c)
         \/ c.kind = "fetch" /\ FetchOK(t, c)
  BY <1>1, <1>2, ZenonT(60) DEF CallOK, PassOK, FetchOK, BufferArg
<1>4. ASSUME c.kind = "pass"
      PROVE  /\ PassOK(t, c) /\ c.local \in Addr /\ shadow["worker"][c.local] = c.id /\ c.id # None
             /\ c.id \in Ids
  <2>1. PassOK(t, c)
    BY <1>3, <1>4, Zenon
  <2>2. c.id \in Ids /\ Found("worker", c.id, c.local, c.size)
    BY <1>1, <2>1, Zenon DEF PassOK
  <2>3. c.id \in DOMAIN byId["worker"] /\ byId["worker"][c.id].local = c.local
    BY <2>2, Zenon DEF Found
  <2>4. /\ byId["worker"][c.id] \in Records
        /\ shadow["worker"][byId["worker"][c.id].local] = c.id
    BY <1>2, <2>3, Zenon DEF Facts
  <2>5. byId["worker"][c.id].local \in Addr
    BY <2>4 DEF Records
  <2>6. c.id # None
    BY <2>2, BuffersAssumption, Zenon
  <2> QED  BY <2>1, <2>2, <2>3, <2>4, <2>5, <2>6, Zenon
<1>5. ASSUME c.kind = "fetch"
      PROVE  FetchOK(t, c) /\ c.local \in Uses[t] /\ c.local \in Addr /\ c.local \notin HeapAddr
  <2>1. FetchOK(t, c)
    BY <1>3, <1>5, Zenon
  <2>2. c.local \in Uses[t] \cap ApiAddr
    BY <1>1, <2>1, Zenon DEF FetchOK
  <2> QED  BY <2>1, <2>2, BuffersAssumption, Zenon DEF Addr
<1>6. /\ SidesOK' /\ Becomes("worker", d) /\ Attaches("worker", Side("worker"), c.local, c.size, d)
      /\ KeepsTables(t) /\ KeepsLists(t) /\ KeepsShadows
  <2>1. c.local \in Addr
    BY <1>3, <1>4, <1>5, Zenon
  <2>2. shadow["worker"][c.local] # None \/ (c.local \in Uses[t] /\ c.local \notin HeapAddr)
    BY <1>3, <1>4, <1>5, Zenon
  <2> QED  BY <1>1, <1>2, <1>3, <1>d, <2>1, <2>2, AttachStep, Zenon
<1>7. \A s \in Sides : Facts(s)'
  BY <1>6, FactsNext, Zenon
<1>8. shadow["worker"][c.local] # None => d = Side("worker")
  BY <1>d, Zenon DEF Attach, Side
<1>e. Side("worker").shadow = shadow["worker"] /\ Side("worker").byId = byId["worker"]
  BY Zenon DEF Side
<1>9. /\ id \in DOMAIN byId'["worker"] /\ byId'["worker"][id].local = c.local /\ id \in Ids
  <2>1. id \in DOMAIN byId'["worker"] /\ byId'["worker"][id].local = c.local
    BY <1>6, <1>i, Zenon DEF Attaches, Becomes
  <2> QED  BY <1>2, <1>7, <2>1, Zenon DEF Facts
<1>10. Owns(t, id)' /\ (id \in DOMAIN promised => promised[id] = p) /\ (c.kind = "pass" => id = c.id)
       /\ (c.kind = "fetch" => id[1] = "worker")
  <2>1. CASE c.kind = "pass"
    <3>1. id = c.id
      BY <1>4, <1>8, <1>e, <1>i, <2>1, Zenon
    <3>2. Owns(t, c.id) /\ promised[c.id] = p
      BY <1>4, <2>1, Zenon DEF PassOK, Given
    <3>3. Owns(t, c.id)'
      BY <1>2, <1>4, <1>6, <2>1, <3>2, OwnsKept, Zenon
    <3> QED  BY <2>1, <3>1, <3>2, <3>3, Zenon
  <2>2. CASE c.kind = "fetch"
    <3>1. id[1] = "worker"
      BY <1>2, <1>5, <1>7, <1>9, <2>2, ZenonT(60) DEF Facts
    <3>2. Owns(t, id)'
      BY <1>5, <1>9, <2>2, <3>1, Zenon DEF Owns
    <3>3. ASSUME id \in DOMAIN promised  PROVE  promised[id] = p
      <4>1. id \in DOMAIN byId["worker"]
        BY <1>2, <3>1, <3>3, Zenon DEF Promises, Owns
      <4>2. byId["worker"][id].local = c.local
        BY <1>2, <1>6, <1>9, <3>1, <4>1, Zenon DEF KeepsTables
      <4> QED  BY <1>1, <1>5, <2>2, <3>3, <4>1, <4>2, Zenon DEF FetchOK
    <3> QED  BY <2>2, <3>1, <3>2, <3>3, Zenon
  <2> QED  BY <1>3, <2>1, <2>2, Zenon
<1>12. /\ DOMAIN promised' = DOMAIN promised \cup {id} /\ promised'[id] = p
       /\ \A i \in DOMAIN promised : promised'[i] = promised[i]
  BY <1>1, <1>10, Zenon DEF Insert
<1>13. KeepsPromises(t)
  <2>1. c.lifetime \in Lifetimes /\ c.obj \in Objects \cup {None}
    BY <1>3, Zenon DEF Calls
  <2> QED  BY <1>2, <1>3, <1>9, <1>10, <1>12, <2>1, Zenon DEF KeepsPromises, Promises
<1>m. Moved(t, "replied", c.local, id)
  <2>1. c.local \in Keys \cup {None}
    BY <1>3, Zenon DEF Calls
  <2> QED  BY <1>1, <1>2, <1>3, <1>9, <1>c, <2>1, CallMoves, Zenon
<1>14. KeepsOthers(t)
  BY <1>1, <1>2, <1>10, <1>12, <1>m, Zenon DEF KeepsOthers, Moved
<1>15. KeepsSizes
  <2> SUFFICES ASSUME NEW s \in Sides, NEW i \in DOMAIN byId'[s]
               PROVE  \/ /\ i \in DOMAIN byId[s] /\ byId'[s][i].size = byId[s][i].size
                         /\ Static(i) => Static(i)'
                      \/ byId'[s][i].size = MaxSize
                      \/ Static(i)'
    BY Zenon DEF KeepsSizes
  <2>1. Static(i) => Static(i)'
    BY <1>12, Zenon DEF Static
  <2>2. CASE i \in DOMAIN byId[s] /\ byId'[s][i] = byId[s][i]
    BY <2>1, <2>2, ZenonT(60)
  <2>3. CASE ~ (i \in DOMAIN byId[s] /\ byId'[s][i] = byId[s][i])
    <3>1. s = "worker" /\ byId'["worker"] = d.byId
      BY <1>6, <2>3, Zenon DEF Becomes
    <3>a. /\ \A j : j # id => (j \in DOMAIN d.byId <=> j \in DOMAIN byId["worker"])
          /\ \A j \in DOMAIN byId["worker"] : d.byId[j] = byId["worker"][j]
          /\ d.byId = byId["worker"] \/ d.byId[id].size = c.size
      BY <1>6, <1>e, <1>i, Zenon DEF Attaches
    <3>2. i = id /\ byId'[s][i].size = c.size
      BY <2>3, <3>1, <3>a, Zenon
    <3>3. promised'[id].lifetime = c.lifetime
      BY <1>12, SMTT(60)
    <3>4. c.lifetime = "static" \/ c.size = MaxSize
      BY <1>3, Zenon DEF BufferArg
    <3> QED  BY <1>12, <3>2, <3>3, <3>4, Zenon DEF Static
  <2> QED  BY <2>2, <2>3, Zenon
<1>18. CallOK(t, call[t])'
  <2>1. PICK n : call'[t] = n
    BY Zenon
  <2>2. /\ n \in Calls /\ n.at = "replied" /\ n.local = c.local /\ n.id = id
        /\ n.kind = c.kind /\ n.arg = c.arg /\ n.size = c.size /\ n.lifetime = c.lifetime
        /\ n.obj = c.obj
    BY <1>c, <1>m, <2>1, Zenon DEF Moved
  <2>3. BufferArg(t, n) /\ Given(t, n)' /\ Owns(t, n.id)'
    BY <1>3, <1>10, <1>12, <2>2, Zenon DEF BufferArg, Given
  <2>4. CASE c.kind = "pass"
    <3>1. Found("guest", n.id, n.arg, n.size)
      BY <1>4, <1>10, <2>2, <2>4, Zenon DEF PassOK
    <3>2. Found("guest", n.id, n.arg, n.size)'
      BY <1>2, <1>6, <3>1, Zenon DEF Found, Becomes
    <3>3. PassOK(t, n)'
      BY <1>9, <2>2, <2>3, <3>2, Zenon DEF PassOK, BufferArg, Fits
    <3>4. CallOK(t, n)'
      BY <2>2, <2>4, <3>3, Zenon DEF CallOK
    <3> QED  BY <2>1, <3>4, Zenon
  <2>5. CASE c.kind = "fetch"
    <3>1. FetchOK(t, n)'
      BY <1>9, <2>2, <2>3, Zenon DEF FetchOK, BufferArg, Fits
    <3>2. CallOK(t, n)'
      BY <2>2, <2>5, <3>1, Zenon DEF CallOK
    <3> QED  BY <2>1, <3>2, Zenon
  <2> QED  BY <1>3, <2>4, <2>5, Zenon
<1>19. DyingOK(t, dying[t])'
  BY <1>1, <1>3, Zenon DEF DyingOK
<1>20. Shape'
  BY <1>1, <1>2, <1>6, <1>m, Zenon DEF Shape, Becomes, Moved
<1>b. Bind'
  BY <1>6, <1>13, <1>14, <1>15, <1>18, <1>19, <1>20, BindStep, ZenonT(60)
<1> QED  BY <1>b, <1>6, <1>10, <1>12, <1>14, <1>c, <1>m, Zenon DEF StepOf, Moved, Extends

\* Thread t may end the lifetimes that end with k on side s.
MayFree(t, s, k) ==
    \/ k \in Uses[t] \cap Objects
    \/ \E i \in DOMAIN byId[s] : byId[s][i].local = k /\ Owns(t, i)

\* The shadows that end with a key of thread t are of buffers of t.
LEMMA FreeOwned ==
    ASSUME UsesApart, Bind, NEW t \in Threads, NEW s \in Sides, NEW k, MayFree(t, s, k)
    PROVE  k \in Keys /\ \A i \in Ids : Holds(s, k, i) => Owns(t, i)
<1>1. Facts(s) /\ ObjectLists
  BY FactsHold, Zenon DEF Bind
<1>2. CASE k \in Uses[t] \cap Objects
  <2> SUFFICES ASSUME NEW i \in Ids, Holds(s, k, i)  PROVE  Owns(t, i)
    BY <1>2, Zenon DEF Keys
  <2>1. PICK u \in Threads : k \in Uses[u] /\ Owns(u, i)
    BY <1>1, <1>2, Zenon DEF ObjectLists
  <2>2. u = t
    BY <1>2, <2>1, Zenon DEF UsesApart
  <2> QED  BY <2>1, <2>2, Zenon
<1>3. CASE \E i \in DOMAIN byId[s] : byId[s][i].local = k /\ Owns(t, i)
  <2>1. PICK j \in DOMAIN byId[s] : byId[s][j].local = k /\ Owns(t, j)
    BY <1>3, Zenon
  <2>2. k \in Addr /\ shadow[s][k] = j
    BY <1>1, <2>1, Zenon DEF Facts, Records
  <2> SUFFICES ASSUME NEW i \in Ids, Holds(s, k, i)  PROVE  Owns(t, i)
    BY <2>2, Zenon DEF Keys
  <2>3. k \in Keys /\ k \notin Objects
    BY <2>2, BuffersAssumption, Zenon DEF Keys, Addr
  <2>4. i \in DOMAIN byId[s] /\ k = byId[s][i].local
    BY <1>1, <2>3, Zenon DEF Facts
  <2>5. shadow[s][k] = i
    BY <1>1, <2>4, Zenon DEF Facts
  <2> QED  BY <2>1, <2>2, <2>5, Zenon
<1> QED  BY <1>2, <1>3, Zenon DEF MayFree

\* Deallocate keeps the invariant and frees the shadows listed under its key.
LEMMA DeallocateBind ==
    ASSUME UsesApart, Bind, NEW t \in Threads, Deallocate(t)
    PROVE  StepOf(t) /\ Lost("worker", dying[t])
<1>c. PICK c : call[t] = c
  BY Zenon
<1>k. PICK k : dying[t] = k
  BY Zenon
<1>1. /\ k # None /\ SetSide("worker", FreeCoupled(Side("worker"), k))
      /\ dying' = [dying EXCEPT ![t] = None] /\ call' = call /\ promised' = promised
  BY Zenon, <1>k DEF Deallocate
<1>2. /\ Shape /\ SidesOK /\ CallOK(t, c) /\ DyingOK(t, k) /\ "worker" \in Sides /\ "guest" \in Sides
      /\ Promises /\ DOMAIN call = Threads /\ DOMAIN dying = Threads
  BY <1>c, <1>k, Zenon DEF Bind, Sides, Shape
<1>3. k \in Keys /\ \A i \in Ids : Holds("worker", k, i) => Owns(t, i)
  <2>1. MayFree(t, "worker", k)
    BY <1>1, <1>2, Zenon DEF DyingOK, MayFree
  <2> QED  BY <1>2, <2>1, FreeOwned, Zenon
<1>4. /\ SidesOK' /\ Becomes("worker", FreeCoupled(Side("worker"), k))
      /\ KeepsTables(t) /\ KeepsLists(t) /\ Lost("worker", k)
      /\ \A x \in Sides, i \in Ids :
            /\ i \in DOMAIN byId'[x] => i \in DOMAIN byId[x]
            /\ i \in DOMAIN byId'[x] => byId'[x][i] = byId[x][i]
  BY <1>1, <1>2, <1>3, FreeStep, Zenon
<1>5. \A x \in Sides : \A i \in DOMAIN byId'[x] : i \in Ids
  BY <1>4, FactsNext, Zenon DEF Facts
<1>6. byId'["guest"] = byId["guest"]
  BY <1>2, <1>4, Zenon DEF Becomes
<1>7. KeepsOthers(t)
  BY <1>1, <1>2, Zenon DEF KeepsOthers
<1>8. KeepsPromises(t)
  BY <1>1, <1>2, Zenon DEF KeepsPromises, Promises
<1>9. KeepsSizes
  BY <1>1, <1>4, <1>5, Zenon DEF KeepsSizes, Static
<1>10. CallOK(t, c)'
  <2>1. c \in Calls /\ c.at # "handler"
    BY <1>1, <1>2, <1>k, Zenon DEF CallOK
  <2>2. \A i \in Ids : Owns(t, i) => Owns(t, i)'
    BY <1>2, <1>4, OwnsKept, Zenon
  <2>3. ASSUME PassOK(t, c)  PROVE  PassOK(t, c)'
    BY <1>1, <1>6, <2>1, <2>2, <2>3, Zenon DEF PassOK, BufferArg, Fits, Given, Found
  <2>4. ASSUME FreeOK(t, c)  PROVE  FreeOK(t, c)'
    BY <1>1, <1>6, <2>1, <2>2, <2>4, Zenon DEF FreeOK, BufferArg, Fits, Found
  <2>5. ASSUME FetchOK(t, c)  PROVE  FetchOK(t, c)'
    <3>1. BufferArg(t, c)'
      BY <2>5, Zenon DEF FetchOK, BufferArg, Fits
    <3>2. ASSUME c.at = "sent"
          PROVE  /\ c.id = None
                 /\ c.local \in Uses[t] \cap ApiAddr
                 /\ \A i \in DOMAIN promised' :
                       i \in DOMAIN byId'["worker"] /\ byId'["worker"][i].local = c.local =>
                          promised'[i] = [lifetime |-> c.lifetime, obj |-> c.obj, thread |-> t]
      BY <1>1, <1>2, <1>4, <1>5, <2>5, <3>2, Zenon DEF FetchOK
    <3>3. c.at \in {"replied", "copy"} => c.id \in Ids /\ Owns(t, c.id)' /\ Given(t, c)'
      BY <1>1, <2>2, <2>5, Zenon DEF FetchOK, Given
    <3>4. c.at = "copy" => Found("guest", c.id, c.local, c.size)'
      BY <1>6, <2>5, Zenon DEF FetchOK, Found
    <3> QED  BY <2>1, <3>1, <3>2, <3>3, <3>4, Zenon DEF FetchOK
  <2> QED  BY <1>2, <2>1, <2>3, <2>4, <2>5, Zenon DEF CallOK
<1>11. CallOK(t, call[t])'
  BY <1>1, <1>10, <1>c, Zenon
<1>12. DyingOK(t, dying[t])'
  <2>1. dying'[t] = None
    BY <1>1, <1>2, Zenon
  <2> QED  BY <2>1, Zenon DEF DyingOK
<1>13. Shape'
  BY <1>1, <1>2, <1>4, Zenon DEF Shape, Becomes
<1>b. Bind'
  BY <1>4, <1>7, <1>8, <1>9, <1>11, <1>12, <1>13, BindStep, Zenon
<1> QED  BY <1>b, <1>4, <1>7, <1>k, Zenon DEF StepOf

\* A thread that makes no call relies on nothing.
LEMMA IdleOK == \A t \in Threads : CallOK(t, Idle)' /\ CallOK(t, Idle)
<1>1. Idle \in Calls
  BY Zenon DEF Idle, Calls, Lifetimes
<1>2. Idle.at = "app"
  BY Zenon DEF Idle
<1> QED  BY <1>1, <1>2, Zenon DEF CallOK

\* The RET of a call that frees keeps the invariant and frees, at the guest, the
\* shadows listed under the argument.
LEMMA ReturnFreeBind ==
    ASSUME UsesApart, Bind, NEW t \in Threads, Return(t), call[t].kind = "free"
    PROVE  StepOf(t) /\ Lost("guest", call[t].arg)
<1>c. PICK c : call[t] = c
  BY Zenon
<1>1. /\ c.at = "replied" /\ c.kind = "free" /\ SetSide("guest", FreeCoupled(Side("guest"), c.arg))
      /\ dying' = dying /\ call' = [call EXCEPT ![t] = Idle] /\ promised' = promised
  BY Zenon, <1>c DEF Return
<1>2. /\ Shape /\ SidesOK /\ CallOK(t, c) /\ DyingOK(t, dying[t]) /\ "worker" \in Sides
      /\ "guest" \in Sides /\ Promises /\ DOMAIN call = Threads /\ DOMAIN dying = Threads
  BY <1>c, Zenon DEF Bind, Sides, Shape
<1>3. c.arg \in Keys /\ \A i \in Ids : Holds("guest", c.arg, i) => Owns(t, i)
  <2>1. FreeOK(t, c)
    BY <1>1, <1>2, Zenon DEF CallOK
  <2>2. MayFree(t, "guest", c.arg)
    BY <2>1, ZenonT(60) DEF FreeOK, Found, MayFree
  <2> QED  BY <1>2, <2>2, FreeOwned, Zenon
<1>4. /\ SidesOK' /\ Becomes("guest", FreeCoupled(Side("guest"), c.arg))
      /\ KeepsTables(t) /\ KeepsLists(t) /\ Lost("guest", c.arg)
      /\ \A x \in Sides, i \in Ids :
            /\ i \in DOMAIN byId'[x] => i \in DOMAIN byId[x]
            /\ i \in DOMAIN byId'[x] => byId'[x][i] = byId[x][i]
  BY <1>1, <1>2, <1>3, FreeStep
<1>5. \A x \in Sides : \A i \in DOMAIN byId'[x] : i \in Ids
  BY <1>4, FactsNext, Zenon DEF Facts
<1>6. byId'["worker"] = byId["worker"]
  BY <1>2, <1>4, Zenon DEF Becomes
<1>7. KeepsOthers(t)
  BY <1>1, <1>2, Zenon DEF KeepsOthers
<1>8. KeepsPromises(t)
  BY <1>1, <1>2, Zenon DEF KeepsPromises, Promises
<1>9. KeepsSizes
  BY <1>1, <1>4, <1>5, Zenon DEF KeepsSizes, Static
<1>10. CallOK(t, call[t])'
  <2>1. call'[t] = Idle
    BY <1>1, <1>2, Zenon
  <2> QED  BY <2>1, IdleOK, Zenon
<1>11. DyingOK(t, dying[t])'
  BY <1>1, <1>2, <1>4, <1>6, DyingKept, Zenon
<1>12. Shape'
  BY <1>1, <1>2, <1>4, Zenon DEF Shape, Becomes
<1>b. Bind'
  BY <1>4, <1>7, <1>8, <1>9, <1>10, <1>11, <1>12, BindStep, Zenon
<1> QED  BY <1>b, <1>4, <1>7, <1>c, Zenon DEF StepOf

\* The RET of a call with a buffer keeps the invariant: the guest has the buffer,
\* and has changed nothing else.
LEMMA ReturnBind ==
    ASSUME UsesApart, Bind, NEW t \in Threads, Return(t), call[t].kind # "free"
    PROVE  StepOf(t)
           /\ Got("guest", call[t].id, call[t].lifetime, call[t].obj)
           /\ Moved(t, "copy", call'[t].local, call[t].id)
<1>c. PICK c : call[t] = c
  BY Zenon
<1>1. c.at = "replied" /\ c.kind # "free" /\ dying' = dying /\ promised' = promised
  BY <1>c, Zenon DEF Return
<1>g. PICK g \in GetBuffer(Side("guest"), c.id, c.size, c.lifetime, c.obj) :
         /\ SetSide("guest", g.d)
         /\ call' = [call EXCEPT ![t].at = "copy", ![t].local = g.local]
  BY Zenon, <1>c DEF Return
<1>2. /\ Shape /\ SidesOK /\ CallOK(t, c) /\ DyingOK(t, dying[t]) /\ "worker" \in Sides
      /\ "guest" \in Sides /\ Promises /\ DOMAIN call = Threads /\ DOMAIN dying = Threads
  BY <1>c, Zenon DEF Bind, Sides, Shape
<1>3. /\ c \in Calls /\ c.id \in Ids /\ BufferArg(t, c) /\ Owns(t, c.id) /\ Given(t, c)
      /\ \/ c.kind = "pass" /\ Found("guest", c.id, c.arg, c.size)
         \/ c.kind = "fetch"
  BY <1>1, <1>2, Zenon DEF CallOK, PassOK, FetchOK
<1>4. Request("guest", Side("guest"), c.id, c.size, c.lifetime, c.obj) /\ Fits(t, c.lifetime, c.obj)
  <2>1. Side("guest").byId = byId["guest"]
    BY Zenon DEF Side
  <2> QED  BY <1>3, <2>1, Zenon DEF Request, BufferArg, Fits, Owns
<1>5. /\ SidesOK' /\ Becomes("guest", g.d)
      /\ Gets("guest", Side("guest"), c.id, c.size, c.lifetime, c.obj, g.d, g.local)
      /\ KeepsTables(t) /\ KeepsLists(t) /\ Got("guest", c.id, c.lifetime, c.obj)
      /\ \A x \in Sides, i \in Ids : i # c.id =>
            /\ i \in DOMAIN byId'[x] <=> i \in DOMAIN byId[x]
            /\ i \in DOMAIN byId[x] => byId'[x][i] = byId[x][i]
  <2>1. "guest" \in Sides /\ Owns(t, c.id)
    BY <1>2, <1>3, Zenon
  <2> QED  BY <1>4, <1>g, <2>1, GetStep, SMTT(60)
<1>6. Found("guest", c.id, g.local, c.size)'
  <2>1. c.size \in Nat
    BY <1>3, BuffersAssumption DEF BufferArg, Sizes
  <2> QED  BY <1>2, <1>5, <2>1, GetFound, ZenonT(60)
<1>7. KeepsSizes
  <2>1. c.id \in DOMAIN promised /\ promised[c.id].lifetime = c.lifetime
    BY <1>3 DEF Given
  <2>2. c.size = MaxSize \/ Static(c.id)
    BY <1>3, <2>1, Zenon DEF BufferArg, Static
  <2> QED  BY <1>1, <1>2, <1>3, <1>5, <2>2, GetSizes, ZenonT(60)
<1>8. Moved(t, "copy", g.local, c.id)
  <2>1. g.local \in Keys \cup {None}
    <3>1. Facts("guest")'
      BY <1>2, <1>5, FactsNext, Zenon
    <3> QED  BY <1>6, <3>1, Zenon DEF Facts, Found, Records, Keys
  <2> QED  BY <1>2, <1>3, <1>c, <1>g, <2>1, CallMoves, Zenon
<1>9. KeepsOthers(t)
  BY <1>1, <1>8, Zenon DEF KeepsOthers, Moved
<1>10. KeepsPromises(t)
  BY <1>1, <1>2, Zenon DEF KeepsPromises, Promises
<1>11. CallOK(t, call[t])'
  <2>1. PICK n : call'[t] = n
    BY Zenon
  <2>2. /\ n \in Calls /\ n.at = "copy" /\ n.local = g.local /\ n.id = c.id
        /\ n.kind = c.kind /\ n.arg = c.arg /\ n.size = c.size /\ n.lifetime = c.lifetime
        /\ n.obj = c.obj
    BY <1>8, <1>c, <2>1, Zenon DEF Moved
  <2>3. Owns(t, n.id)'
    BY <1>2, <1>3, <1>5, <2>2, OwnsKept, Zenon
  <2>4. BufferArg(t, n) /\ Given(t, n)'
    BY <1>1, <1>3, <2>2, Zenon DEF BufferArg, Given
  <2>5. Found("guest", n.id, n.local, n.size)'
    BY <1>6, <2>2, Zenon
  <2>6. CASE c.kind = "pass"
    <3>1. Found("guest", c.id, c.arg, c.size) /\ Side("guest").byId = byId["guest"]
      <4>1. Found("guest", c.id, c.arg, c.size)
        BY <1>3, <2>6, Zenon
      <4>2. Side("guest").byId = byId["guest"]
        BY Zenon DEF Side
      <4> QED  BY <4>1, <4>2, Zenon
    <3>2. c.size \in Sizes /\ (c.id \in DOMAIN byId["guest"] => byId["guest"][c.id].size \in Sizes)
      <4>1. c.size \in Sizes
        BY <1>3, Zenon DEF BufferArg
      <4>2. Facts("guest")
        BY <1>2, FactsHold, Zenon
      <4> QED  BY <4>1, <4>2, Zenon DEF Facts, Records
    <3>3. g.local = c.arg
      <4>1. Gets("guest", Side("guest"), c.id, c.size, c.lifetime, c.obj, g.d, g.local)
        BY <1>5, Zenon
      <4> QED  BY <3>1, <3>2, <4>1, SizesOrdered, Zenon DEF Gets, Found
    <3>4. PassOK(t, n)'
      BY <1>3, <2>2, <2>3, <2>4, <2>5, <3>3, Zenon DEF PassOK, BufferArg, Fits
    <3>5. CallOK(t, n)'
      BY <2>2, <2>6, <3>4, Zenon DEF CallOK
    <3> QED  BY <2>1, <3>5, Zenon
  <2>7. CASE c.kind = "fetch"
    <3>1. FetchOK(t, n)'
      BY <1>3, <2>2, <2>3, <2>4, <2>5, Zenon DEF FetchOK, BufferArg, Fits
    <3>2. CallOK(t, n)'
      BY <2>2, <2>7, <3>1, Zenon DEF CallOK
    <3> QED  BY <2>1, <3>2, Zenon
  <2> QED  BY <1>3, <2>6, <2>7, Zenon
<1>12. DyingOK(t, dying[t])'
  <2>1. byId'["worker"] = byId["worker"]
    BY <1>2, <1>5, Zenon DEF Becomes
  <2> QED  BY <1>1, <1>2, <1>5, <2>1, DyingKept, Zenon
<1>13. Shape'
  BY <1>1, <1>2, <1>5, <1>8, Zenon DEF Shape, Becomes, Moved
<1>b. Bind'
  BY <1>5, <1>7, <1>9, <1>10, <1>11, <1>12, <1>13, BindStep, Zenon
<1> QED  BY <1>b, <1>5, <1>8, <1>9, <1>c, Zenon DEF StepOf, Moved

\* Complete keeps the invariant and the shadows.
LEMMA CompleteBind ==
    ASSUME UsesApart, Bind, NEW t \in Threads, Complete(t)
    PROVE  StepOf(t) /\ KeepsShadows
<1>1. /\ call' = [call EXCEPT ![t] = Idle] /\ UNCHANGED <<tables, failed>>
      /\ dying' = dying /\ promised' = promised
  BY Zenon DEF Complete
<1>2. /\ Shape /\ SidesOK /\ Promises /\ DyingOK(t, dying[t])
      /\ DOMAIN call = Threads /\ DOMAIN dying = Threads
  BY Zenon DEF Bind, Shape
<1>3. byId' = byId
  BY <1>1, Zenon DEF tables
<1>4. SidesOK' /\ KeepsTables(t) /\ KeepsLists(t) /\ KeepsShadows
  BY <1>1, IdleStep, Zenon
<1>5. KeepsOthers(t)
  BY <1>1, <1>2, Zenon DEF KeepsOthers
<1>6. KeepsPromises(t) /\ KeepsSizes
  BY <1>1, <1>2, <1>3, Zenon DEF KeepsPromises, Promises, KeepsSizes, Static
<1>7. CallOK(t, call[t])'
  <2>1. call'[t] = Idle
    BY <1>1, <1>2, Zenon
  <2> QED  BY <2>1, IdleOK, Zenon
<1>8. DyingOK(t, dying[t])'
  BY <1>1, <1>2, <1>3, <1>4, DyingKept, Zenon
<1>9. Shape'
  BY <1>1, <1>2, Zenon DEF Shape, tables
<1>b. Bind'
  BY <1>4, <1>5, <1>6, <1>7, <1>8, <1>9, BindStep, Zenon
<1> QED  BY <1>b, <1>4, <1>5, Zenon DEF StepOf

\* The invariant holds initially.
LEMMA InitBind == Init => Bind
<1> SUFFICES ASSUME Init  PROVE  Bind
  BY Zenon
<1>1. Shape
  BY Zenon DEF Init, Shape
<1>2. ASSUME NEW s \in Sides  PROVE  SideOK(s, Side(s))
  <2> PICK d : Side(s) = d
    BY Zenon
  <2>1. DOMAIN d = Fields
    BY Zenon DEF Side, Fields
  <2>2. /\ d.heap = [a \in Addr |-> 0] /\ d.byId = <<>> /\ d.shadow = [a \in Addr |-> None]
        /\ d.coupled = [k \in Keys |-> <<>>] /\ d.issued = 0 /\ d.failed = FALSE
    BY Zenon DEF Side, Init
  <2>3. \A i : i \notin DOMAIN d.byId
    BY <2>2
  <2>4. \A k \in Keys : \A j : j \notin DOMAIN d.coupled[k]
    BY <2>2, SMTT(60)
  <2>5. Typed(d)
    <3>1. d.coupled \in [Keys -> Seq(Records)]
      BY <2>2
    <3> QED  BY <2>1, <2>2, <2>3, <3>1, SMTT(60) DEF Typed
  <2>6. Inverse(d) /\ Kinds(s, d)
    BY <2>2, <2>3, Zenon DEF Inverse, Kinds
  <2>7. Listed(d) /\ Once(d)
    BY <2>4, Zenon DEF Listed, Once
  <2> QED  BY <2>5, <2>6, <2>7, Zenon DEF SideOK
<1>3. \A s \in Sides : \A i : i \notin DOMAIN byId[s]
  BY DEF Init
<1>4. \A s \in Sides : \A k, i : ~ Holds(s, k, i)
  BY DEF Init, Holds
<1>5. \A i : i \notin DOMAIN promised
  BY DEF Init
<1>6. \A t \in Threads : call[t] = Idle /\ dying[t] = None
  BY Zenon DEF Init
<1>7. \A t \in Threads : CallOK(t, call[t])
  BY <1>6, IdleOK, Zenon
<1> QED
  BY <1>1, <1>2, <1>3, <1>4, <1>5, <1>6, <1>7, Zenon
     DEF Bind, SidesOK, Promises, FullSizes, ObjectLists, DyingOK

\* Every step keeps the invariant.
LEMMA NextBind ==
    ASSUME UsesApart, FixedSizes, Bind, [Next]_vars
    PROVE  Bind'
<1>1. CASE UNCHANGED vars
  <2>1. /\ heap' = heap /\ byId' = byId /\ shadow' = shadow /\ coupled' = coupled
        /\ issued' = issued /\ failed' = failed /\ call' = call /\ dying' = dying
        /\ promised' = promised
    BY <1>1, Zenon DEF vars, tables
  <2>2. SidesOK'
    <3>1. ASSUME NEW s \in Sides  PROVE  SideOK(s, Side(s)')
      <4>1. Side(s)' = Side(s)
        BY <2>1, ZenonT(60) DEF Side
      <4> QED  BY <4>1, Zenon DEF Bind, SidesOK
    <3> QED  BY <3>1, SidesPrime, Zenon
  <2>3. Shape' /\ Promises' /\ FullSizes' /\ ObjectLists'
    BY <2>1 DEF Bind, Shape, Promises, Owns, Fits, FullSizes, Static, ObjectLists, Holds
  <2>4. ASSUME NEW t \in Threads  PROVE  CallOK(t, call[t])' /\ DyingOK(t, dying[t])'
    <3>1. PICK c : call[t] = c
      BY Zenon
    <3>2. CallOK(t, c) /\ DyingOK(t, dying[t])
      BY <3>1, Zenon DEF Bind
    <3>3. CallOK(t, c)'
      BY <2>1, <3>2, Zenon DEF CallOK, PassOK, FetchOK, FreeOK, BufferArg, Found, Given, Fits, Owns
    <3> QED  BY <2>1, <3>1, <3>2, <3>3, Zenon DEF DyingOK, Owns
  <2> QED  BY <2>2, <2>3, <2>4, Zenon DEF Bind
<1>2. CASE Next
  <2>1. PICK t \in Threads :
          \/ \E n \in Sizes, lt \in Lifetimes, o \in Objects \cup {None} :
                \E a \in Addr : PassBuffer(t, a, n, lt, o) \/ FetchBuffer(t, a, n, lt, o)
          \/ \E o \in Objects : FreeObject(t, o)
          \/ \E a \in Addr : FreeBuffer(t, a)
          \/ HandleBuffer(t) \/ HandlePlain(t) \/ Reply(t)
          \/ Deallocate(t) \/ Return(t) \/ Complete(t)
    BY Zenon, <1>2 DEF Next
  <2>2. ASSUME NEW n \in Sizes, NEW lt \in Lifetimes, NEW o \in Objects \cup {None}, NEW a \in Addr,
               PassBuffer(t, a, n, lt, o)
        PROVE  Bind'
    <3>1. StepOf(t)
      BY <2>2, PassBind, Zenon
    <3> QED  BY <3>1, Zenon DEF StepOf
  <2>3. ASSUME NEW n \in Sizes, NEW lt \in Lifetimes, NEW o \in Objects \cup {None}, NEW a \in Addr,
               FetchBuffer(t, a, n, lt, o)
        PROVE  Bind'
    BY <2>3, FetchBind, Zenon DEF StepOf
  <2>4. ASSUME NEW o \in Objects, FreeObject(t, o)  PROVE  Bind'
    BY <2>4, FreeObjectBind, Zenon DEF StepOf
  <2>5. ASSUME NEW a \in Addr, FreeBuffer(t, a)  PROVE  Bind'
    BY <2>5, FreeBufferBind, Zenon DEF StepOf
  <2>6. ASSUME HandleBuffer(t)  PROVE  Bind'
    BY <2>6, HandleBind, Zenon DEF StepOf
  <2>7. ASSUME HandlePlain(t)  PROVE  Bind'
    BY <2>7, HandlePlainBind, Zenon DEF StepOf
  <2>8. ASSUME Reply(t)  PROVE  Bind'
    <3>1. StepOf(t)
      BY <2>8, ReplyBind, ReplyFreeBind, Zenon
    <3> QED  BY <3>1, Zenon DEF StepOf
  <2>9. ASSUME Deallocate(t)  PROVE  Bind'
    BY <2>9, DeallocateBind, Zenon DEF StepOf
  <2>10. ASSUME Return(t)  PROVE  Bind'
    <3>1. StepOf(t)
      BY <2>10, ReturnBind, ReturnFreeBind, Zenon
    <3> QED  BY <3>1, Zenon DEF StepOf
  <2>11. ASSUME Complete(t)  PROVE  Bind'
    BY <2>11, CompleteBind, Zenon DEF StepOf
  <2> QED
    BY Zenon, <2>1, <2>2, <2>3, <2>4, <2>5, <2>6, <2>7, <2>8, <2>9, <2>10, <2>11
<1> QED  BY <1>1, <1>2, Zenon

\* The invariant holds always, in a program that lets no coupled buffer grow.
THEOREM BuffersBound ==
    ASSUME UsesApart, FixedSizes
    PROVE  Spec => []Bind
<1>1. Bind /\ [Next]_vars => Bind'
  BY NextBind, Zenon
<1> QED  BY InitBind, <1>1, PTL DEF Spec

\* TablesAgree, for any number of threads, objects, buffers and sizes: the record
\* of an id and the pointer in the metadata of its address come and go together.
THEOREM TablesInverse ==
    ASSUME UsesApart, FixedSizes
    PROVE  Spec => []TablesAgree
<1>1. Bind => TablesAgree
  <2> SUFFICES ASSUME Bind, NEW s \in Sides
               PROVE  /\ \A i \in DOMAIN byId[s] :
                            byId[s][i].id = i /\ shadow[s][byId[s][i].local] = i
                      /\ \A a \in Addr : shadow[s][a] # None =>
                            shadow[s][a] \in DOMAIN byId[s] /\ byId[s][shadow[s][a]].local = a
    BY Zenon DEF TablesAgree
  <2>1. Facts(s)
    BY FactsHold, Zenon DEF Bind
  <2> QED  BY <2>1, Zenon DEF Facts
<1> QED  BY <1>1, BuffersBound, PTL

\* NoAssertionFails for any number of threads, objects, buffers and sizes: no list
\* of coupled buffers is ever walked over a record that has been freed, and no id
\* or address gets two records.  FixedSizes rules out the one way to a freed record
\* in a list: ava_shadow_buffer_get_unlocked frees a shadow that has to grow and
\* leaves it in the list of the object it is coupled to.
THEOREM NoRecordReadAfterFree ==
    ASSUME UsesApart, FixedSizes
    PROVE  Spec => []NoAssertionFails
<1>1. Bind => NoAssertionFails
  <2> SUFFICES ASSUME Bind  PROVE  failed = FALSE
    BY Zenon DEF NoAssertionFails
  <2>1. SideOK("guest", Side("guest"))
    BY Zenon DEF Bind, SidesOK, Sides
  <2>2. Side("guest").failed = FALSE
    BY <2>1, Zenon DEF SideOK, Typed
  <2> QED  BY <2>2, Zenon DEF Side
<1> QED  BY <1>1, BuffersBound, PTL

\* SameBufferComesBack in general: the RET of a call finds the buffer the caller
\* passed, whatever the other threads passed and freed meanwhile.
THEOREM CallerGetsOwnBuffer ==
    ASSUME UsesApart, FixedSizes
    PROVE  Spec => []SameBufferComesBack
<1>1. Bind => SameBufferComesBack
  BY Zenon DEF Bind, CallOK, PassOK, SameBufferComesBack
<1> QED  BY <1>1, BuffersBound, PTL

\* The block of a record that is found holds as many elements as were asked for.
LEMMA BlockOf ==
    ASSUME NEW s \in Sides, Facts(s), NEW i, NEW a \in HeapAddr, NEW n, Found(s, i, a, n)
    PROVE  heap[s][a] >= n
  BY Zenon DEF Facts, Found

\* BlocksLargeEnough in general: a shadow that receives data is live and at least
\* as large as the data, also when a static buffer has grown.
THEOREM DataFits ==
    ASSUME UsesApart, FixedSizes
    PROVE  Spec => []BlocksLargeEnough
<1>1. Bind => BlocksLargeEnough
  <2> SUFFICES ASSUME Bind, NEW t \in Threads
               PROVE  /\ call[t].at = "handler" /\ call[t].local \in HeapAddr =>
                            heap["worker"][call[t].local] >= call[t].size
                      /\ call[t].at = "copy" /\ call[t].local \in HeapAddr =>
                            heap["guest"][call[t].local] >= call[t].size
    BY Zenon DEF BlocksLargeEnough
  <2>1. CallOK(t, call[t]) /\ Facts("guest") /\ Facts("worker") /\ "guest" \in Sides /\ "worker" \in Sides
    BY FactsHold, Zenon DEF Bind, Sides
  <2> PICK c : call[t] = c
    BY Zenon
  <2>2. ASSUME c.at = "handler", c.local \in HeapAddr  PROVE  Found("worker", c.id, c.local, c.size)
    BY <2>1, <2>2, BuffersAssumption, Zenon DEF CallOK, PassOK, FetchOK, FreeOK
  <2>3. ASSUME c.at = "copy", c.local \in HeapAddr  PROVE  Found("guest", c.id, c.local, c.size)
    BY <2>1, <2>3, Zenon DEF CallOK, PassOK, FetchOK, FreeOK
  <2> QED  BY <2>1, <2>2, <2>3, BlockOf, Zenon
<1> QED  BY <1>1, BuffersBound, PTL

-----------------------------------------------------------------------------
(* Lifetimes. *)

\* Buffer i is listed on side s where its lifetime says.
Lasting(s, i) ==
    /\ i \in DOMAIN promised
    /\ \/ promised[i].lifetime = "static" /\ \A k \in Keys : ~ Holds(s, k, i)
       \/ promised[i].lifetime = "manual" /\ Holds(s, byId[s][i].local, i)
       \/ promised[i].lifetime = "coupled" /\ Holds(s, promised[i].obj, i)

\* Call c, or the deallocation of k after the reply, will free the shadow of i.
Ends(c, k, s, i) ==
    \/ /\ c.kind = "free"
       /\ \/ s = "guest" /\ c.at # "app" /\ Holds(s, c.arg, i)
          \/ /\ s = "worker" /\ c.at \in {"sent", "handler"}
             /\ \/ c.id = None /\ Holds(s, c.arg, i)
                \/ c.id = i /\ Holds(s, byId[s][i].local, i)
    \/ s = "worker" /\ Holds(s, k, i)

\* Call c will make the shadow of i.
Starts(c, s, i) ==
    /\ c.id = i
    /\ \/ s = "worker" /\ c.kind = "pass" /\ c.at = "sent"
       \/ s = "guest" /\ c.kind = "fetch" /\ c.at = "replied"

\* A shadow of i has its lifetime before it, or is about to be freed.
Accounted(c, k, s, i) == i \in DOMAIN byId[s] => Lasting(s, i) \/ Ends(c, k, s, i)

\* A promised buffer has a shadow that nothing is about to free, or gets one.
Provided(c, k, s, i) ==
    i \in DOMAIN promised =>
       \/ i \in DOMAIN byId[s] /\ Lasting(s, i) /\ ~ Ends(c, k, s, i)
       \/ Starts(c, s, i)

\* A call that frees a buffer has ended the promise of it.
Revoked(c) == c.at # "app" /\ c.kind = "free" /\ c.id # None => c.id \notin DOMAIN promised

\* Every record is of a buffer some thread works with.
AllOwned == \A s \in Sides : \A i \in DOMAIN byId[s] : \E t \in Threads : Owns(t, i)

\* The shadows of the buffers of thread t are as they were promised.
OwnKept(t, c, k) ==
    \A s \in Sides, i \in Ids :
       Owns(t, i) /\ i[1] # s => Accounted(c, k, s, i) /\ Provided(c, k, s, i)

\* The inductive invariant of the lifetimes, relative to Bind.
Kept ==
    /\ AllOwned
    /\ \A t \in Threads : Revoked(call[t]) /\ OwnKept(t, call[t], dying[t])

\* A buffer that a side keeps is listed there under the same keys.
LEMMA HoldsSame ==
    ASSUME NEW s, NEW i, Same(s, i)
    PROVE  \A k : Holds(s, k, i)' <=> Holds(s, k, i)
  BY Zenon DEF Same, Holds

\* What ends a shadow does not change while its side keeps it.
LEMMA EndsSame ==
    ASSUME NEW s, NEW i, Same(s, i), i \in DOMAIN byId[s], NEW c, NEW k
    PROVE  Ends(c, k, s, i)' <=> Ends(c, k, s, i)
<1>1. \A l : Holds(s, l, i)' <=> Holds(s, l, i)
  BY HoldsSame, Zenon
<1>2. byId'[s][i] = byId[s][i]
  BY Zenon DEF Same
<1> QED  BY <1>1, <1>2, Zenon DEF Ends

\* A shadow stays listed for its lifetime while its side keeps it.
LEMMA LastingSame ==
    ASSUME NEW s, NEW i, Same(s, i), i \in DOMAIN byId[s],
           i \in DOMAIN promised', i \in DOMAIN promised, promised'[i] = promised[i]
    PROVE  Lasting(s, i)' <=> Lasting(s, i)
<1>1. \A l : Holds(s, l, i)' <=> Holds(s, l, i)
  BY HoldsSame, Zenon
<1>2. byId'[s][i] = byId[s][i]
  BY Zenon DEF Same
<1> QED  BY <1>1, <1>2, Zenon DEF Lasting

\* A buffer that a side keeps stays as promised when the call that will make or
\* free its shadow goes on doing so.
LEMMA SameKept ==
    ASSUME NEW s, NEW i, NEW c, NEW k, NEW n, NEW m, Same(s, i),
           i \in DOMAIN byId[s] \/ i \in DOMAIN promised =>
              Accounted(c, k, s, i) /\ Provided(c, k, s, i),
           i \in DOMAIN promised => i \in DOMAIN promised' /\ promised'[i] = promised[i],
           i \in DOMAIN promised' => i \in DOMAIN promised \/ Starts(n, s, i),
           i \in DOMAIN byId[s] => (Ends(n, m, s, i) <=> Ends(c, k, s, i)),
           i \in DOMAIN promised => (Starts(c, s, i) => Starts(n, s, i))
    PROVE  Accounted(n, m, s, i)' /\ Provided(n, m, s, i)'
<1>1. i \in DOMAIN byId'[s] <=> i \in DOMAIN byId[s]
  BY Zenon DEF Same
<1>2. i \in DOMAIN byId[s] => (Ends(n, m, s, i)' <=> Ends(c, k, s, i))
  BY EndsSame, Zenon
<1>3. i \in DOMAIN byId[s] => (Lasting(s, i) => Lasting(s, i)')
  BY LastingSame, Zenon DEF Lasting
<1>4. Accounted(n, m, s, i)'
  BY <1>1, <1>2, <1>3, Zenon DEF Accounted
<1>5. Starts(n, s, i)' <=> Starts(n, s, i)
  BY Zenon DEF Starts
<1>6. Provided(n, m, s, i)'
  BY <1>1, <1>2, <1>3, <1>5, Zenon DEF Provided
<1> QED  BY <1>4, <1>6, Zenon

\* What a step finds of the buffers of its thread was as promised before it.
LEMMA OwnBefore ==
    ASSUME UsesApart, Bind, Kept, NEW t \in Threads, KeepsTables(t), NEW s \in Sides, NEW i \in Ids,
           Owns(t, i)', i[1] # s, i \in DOMAIN byId[s] \/ i \in DOMAIN promised
    PROVE  Accounted(call[t], dying[t], s, i) /\ Provided(call[t], dying[t], s, i)
<1>1. PICK u \in Threads : Owns(u, i)
  BY Zenon DEF Kept, AllOwned, Bind, Promises
<1>2. u = t
  BY <1>1, OwnsKept, Zenon DEF Bind
<1> QED  BY <1>1, <1>2, Zenon DEF Kept, OwnKept

\* What a step of thread t has to establish for the lifetimes to be kept.
LEMMA KeptStep ==
    ASSUME UsesApart, Bind, Kept, NEW t \in Threads, StepOf(t),
           NEW n, call'[t] = n, NEW m, dying'[t] = m, Revoked(n)',
           \A s \in Sides, i \in Ids : Owns(t, i)' /\ i[1] # s =>
              Accounted(n, m, s, i)' /\ Provided(n, m, s, i)'
    PROVE  Kept'
<1>1. KeepsTables(t) /\ KeepsOthers(t) /\ Bind' /\ SidesOK
  BY Zenon DEF StepOf, Bind
<1>2. AllOwned'
  <2> SUFFICES ASSUME NEW s \in Sides, NEW i \in DOMAIN byId'[s], ~ Owns(t, i)'
               PROVE  \E u \in Threads : Owns(u, i)'
    BY Zenon DEF AllOwned
  <2>1. i \in Ids
    BY <1>1, FactsNext, Zenon DEF Facts, Bind
  <2>2. i \in DOMAIN byId[s]
    BY <1>1, <2>1, Zenon DEF KeepsTables
  <2>3. PICK u \in Threads : Owns(u, i)
    BY <2>2, Zenon DEF Kept, AllOwned
  <2> QED  BY <1>1, <2>1, <2>3, OwnsKept, Zenon
<1>3. Revoked(call[t])' /\ OwnKept(t, call[t], dying[t])'
  BY Zenon DEF OwnKept
<1>4. ASSUME NEW u \in Threads, u # t
      PROVE  Revoked(call[u])' /\ OwnKept(u, call[u], dying[u])'
  <2>1. PICK c : call[u] = c
    BY Zenon
  <2>2. PICK k : dying[u] = k
    BY Zenon
  <2>3. call'[u] = c /\ dying'[u] = k
    BY <1>1, <1>4, <2>1, <2>2, Zenon DEF KeepsOthers
  <2>4. Revoked(c) /\ OwnKept(u, c, k) /\ CallOK(u, c)
    BY <2>1, <2>2, Zenon DEF Kept, Bind
  <2>5. Revoked(c)'
    <3> SUFFICES ASSUME c.at # "app", c.kind = "free", c.id # None
                 PROVE  c.id \notin DOMAIN promised'
      BY Zenon DEF Revoked
    <3>1. c.id \in Ids /\ Owns(u, c.id) /\ c.id \notin DOMAIN promised
      BY <2>4, Zenon DEF CallOK, FreeOK, Revoked
    <3>2. ~ Owns(t, c.id)'
      BY <1>1, <1>4, <3>1, OwnsKept, Zenon
    <3> QED  BY <1>1, <3>1, <3>2, Zenon DEF KeepsOthers
  <2>6. ASSUME NEW s \in Sides, NEW i \in Ids, Owns(u, i)', i[1] # s
        PROVE  Accounted(c, k, s, i)' /\ Provided(c, k, s, i)'
    <3>1. ~ Owns(t, i)'
      BY <1>4, <2>6, Zenon DEF Owns, UsesApart
    <3>2. \A x \in Sides : Same(x, i)
      BY <1>1, <3>1, Zenon DEF KeepsTables, Same
    <3>3. Owns(u, i)
      BY <2>6, <3>2, Zenon DEF Owns, Same, Ids
    <3>4. Accounted(c, k, s, i) /\ Provided(c, k, s, i)
      BY <2>4, <2>6, <3>3, Zenon DEF OwnKept
    <3>5. /\ i \in DOMAIN promised' <=> i \in DOMAIN promised
          /\ i \in DOMAIN promised => promised'[i] = promised[i]
      BY <1>1, <3>1, Zenon DEF KeepsOthers
    <3> QED  BY <3>2, <3>4, <3>5, SameKept, Zenon
  <2>7. OwnKept(u, c, k)'
    BY <2>6, Zenon DEF OwnKept
  <2> QED  BY <2>3, <2>5, <2>7, Zenon
<1> QED  BY <1>2, <1>3, <1>4, Zenon DEF Kept

\* A step that neither makes nor frees a shadow keeps the lifetimes.
LEMMA QuietKept ==
    ASSUME UsesApart, Bind, Kept, NEW t \in Threads, StepOf(t), KeepsShadows,
           NEW c, call[t] = c, NEW k, dying[t] = k, NEW n, call'[t] = n, NEW m, dying'[t] = m,
           Revoked(n)',
           \A i \in DOMAIN promised : i \in DOMAIN promised' /\ promised'[i] = promised[i],
           \A s \in Sides, i \in Ids : i[1] # s =>
              /\ i \in DOMAIN promised' => i \in DOMAIN promised \/ Starts(n, s, i)
              /\ i \in DOMAIN byId[s] => (Ends(n, m, s, i) <=> Ends(c, k, s, i))
              /\ i \in DOMAIN promised => (Starts(c, s, i) => Starts(n, s, i))
    PROVE  Kept'
<1>1. ASSUME NEW s \in Sides, NEW i \in Ids, Owns(t, i)', i[1] # s
      PROVE  Accounted(n, m, s, i)' /\ Provided(n, m, s, i)'
  <2>1. Same(s, i)
    BY <1>1, Zenon DEF KeepsShadows
  <2>2. i \in DOMAIN byId[s] \/ i \in DOMAIN promised => Accounted(c, k, s, i) /\ Provided(c, k, s, i)
    BY <1>1, OwnBefore, Zenon DEF StepOf
  <2> QED  BY <1>1, <2>1, <2>2, SameKept, Zenon
<1> QED  BY <1>1, KeptStep, Zenon

\* PassBuffer keeps the lifetimes: the worker gets the shadow from this call.
LEMMA PassKept ==
    ASSUME UsesApart, FixedSizes, Bind, Kept, NEW t \in Threads, NEW a \in Addr, NEW n \in Sizes,
           NEW lt \in Lifetimes, NEW o \in Objects \cup {None}, PassBuffer(t, a, n, lt, o)
    PROVE  Kept'
<1>c. PICK c : call[t] = c
  BY Zenon
<1>k. PICK k : dying[t] = k
  BY Zenon
<1>n. PICK x : call'[t] = x
  BY Zenon
<1>1. c.at = "app" /\ dying'[t] = k
  BY <1>c, <1>k, Zenon DEF PassBuffer
<1>2. /\ StepOf(t) /\ KeepsShadows /\ x.at = "sent" /\ x.kind = "pass" /\ Extends(x.id)
      /\ (x.id[1] = "worker" => x.id \in DOMAIN promised)
  BY <1>n, PassBind, Zenon
<1>3. Revoked(x)'
  BY <1>2, Zenon DEF Revoked
<1>4. \A i \in DOMAIN promised : i \in DOMAIN promised' /\ promised'[i] = promised[i]
  BY <1>2, Zenon DEF Extends
<1>5. ASSUME NEW s \in Sides, NEW i \in Ids, i[1] # s
      PROVE  /\ i \in DOMAIN promised' => i \in DOMAIN promised \/ Starts(x, s, i)
             /\ i \in DOMAIN byId[s] => (Ends(x, k, s, i) <=> Ends(c, k, s, i))
             /\ i \in DOMAIN promised => (Starts(c, s, i) => Starts(x, s, i))
  <2>1. i[1] = "worker" \/ s = "worker"
    BY <1>5, Zenon DEF Sides, Ids
  <2>2. i \in DOMAIN promised' => i \in DOMAIN promised \/ Starts(x, s, i)
    BY <1>2, <2>1, Zenon DEF Extends, Starts
  <2>3. Ends(x, k, s, i) <=> Ends(c, k, s, i)
    BY <1>1, <1>2, Zenon DEF Ends
  <2> QED  BY <1>1, <2>2, <2>3, Zenon DEF Starts
<1> QED  BY <1>c, <1>k, <1>n, <1>1, <1>2, <1>3, <1>4, <1>5, QuietKept, ZenonT(60)

\* FetchBuffer keeps the lifetimes.
LEMMA FetchKept ==
    ASSUME UsesApart, FixedSizes, Bind, Kept, NEW t \in Threads, NEW w \in Addr, NEW n \in Sizes,
           NEW lt \in Lifetimes, NEW o \in Objects \cup {None}, FetchBuffer(t, w, n, lt, o)
    PROVE  Kept'
<1>c. PICK c : call[t] = c
  BY Zenon
<1>k. PICK k : dying[t] = k
  BY Zenon
<1>n. PICK x : x = [Idle EXCEPT !.at = "sent", !.kind = "fetch", !.size = n, !.local = w,
                                !.lifetime = lt, !.obj = o]
  BY Zenon
<1>1. c.at = "app" /\ dying'[t] = k /\ promised' = promised /\ call' = [call EXCEPT ![t] = x]
  BY <1>c, <1>k, <1>n, Zenon DEF FetchBuffer
<1>2. call'[t] = x
  BY <1>1, Zenon DEF Bind, Shape
<1>3. x.at = "sent" /\ x.kind = "fetch"
  BY <1>n, Zenon DEF Idle
<1>4. StepOf(t) /\ KeepsShadows
  BY FetchBind, Zenon
<1>5. Revoked(x)'
  BY <1>3, Zenon DEF Revoked
<1>6. ASSUME NEW s \in Sides, NEW i \in Ids, i[1] # s
      PROVE  /\ i \in DOMAIN promised' => i \in DOMAIN promised \/ Starts(x, s, i)
             /\ i \in DOMAIN byId[s] => (Ends(x, k, s, i) <=> Ends(c, k, s, i))
             /\ i \in DOMAIN promised => (Starts(c, s, i) => Starts(x, s, i))
  <2>1. Ends(x, k, s, i) <=> Ends(c, k, s, i)
    BY <1>1, <1>3, Zenon DEF Ends
  <2> QED  BY <1>1, <2>1, Zenon DEF Starts
<1> QED  BY <1>c, <1>k, <1>1, <1>2, <1>4, <1>5, <1>6, QuietKept, ZenonT(60)

\* HandlePlain keeps the lifetimes.
LEMMA HandlePlainKept ==
    ASSUME UsesApart, Bind, Kept, NEW t \in Threads, HandlePlain(t)
    PROVE  Kept'
<1>c. PICK c : call[t] = c
  BY Zenon
<1>k. PICK k : dying[t] = k
  BY Zenon
<1>n. PICK x : call'[t] = x
  BY Zenon
<1>1. c.at = "sent" /\ c.id = None /\ dying'[t] = k /\ promised' = promised
  BY <1>c, <1>k, Zenon DEF HandlePlain
<1>2. StepOf(t) /\ KeepsShadows /\ Moved(t, "handler", c.local, None)
  BY <1>c, HandlePlainBind, Zenon
<1>3. x.at = "handler" /\ x.kind = c.kind /\ x.id = None /\ x.arg = c.arg
  BY <1>2, <1>c, <1>n, Zenon DEF Moved
<1>4. Revoked(x)'
  BY <1>3, Zenon DEF Revoked
<1>5. ASSUME NEW s \in Sides, NEW i \in Ids, i[1] # s
      PROVE  /\ i \in DOMAIN promised' => i \in DOMAIN promised \/ Starts(x, s, i)
             /\ i \in DOMAIN byId[s] => (Ends(x, k, s, i) <=> Ends(c, k, s, i))
             /\ i \in DOMAIN promised => (Starts(c, s, i) => Starts(x, s, i))
  <2>1. Ends(x, k, s, i) <=> Ends(c, k, s, i)
    BY <1>1, <1>3, Zenon DEF Ends
  <2> QED  BY <1>1, <2>1, BuffersAssumption, Zenon DEF Starts
<1> QED  BY <1>c, <1>k, <1>n, <1>1, <1>2, <1>4, <1>5, QuietKept, ZenonT(60)

\* The reply to a call that frees hands what it has to free to Deallocate.
LEMMA ReplyFreeKept ==
    ASSUME UsesApart, Bind, Kept, NEW t \in Threads, Reply(t), call[t].kind = "free"
    PROVE  Kept'
<1>c. PICK c : call[t] = c
  BY Zenon
<1>n. PICK x : call'[t] = x
  BY Zenon
<1>1. /\ c.at = "handler" /\ c.kind = "free" /\ promised' = promised /\ dying'[t] = c.local
  BY <1>c, Zenon DEF Reply, Bind, Shape
<1>2. StepOf(t) /\ KeepsShadows /\ Moved(t, "replied", c.local, c.id)
  BY <1>c, ReplyFreeBind, Zenon
<1>3. x.at = "replied" /\ x.kind = "free" /\ x.id = c.id /\ x.arg = c.arg
  BY <1>1, <1>2, <1>c, <1>n, Zenon DEF Moved
<1>4. Revoked(c) /\ CallOK(t, c) /\ Facts("worker") /\ "worker" \in Sides
  BY <1>c, FactsHold, Zenon DEF Kept, Bind, Sides
<1>5. FreeOK(t, c) /\ dying[t] = None
  BY <1>1, <1>4, Zenon DEF CallOK
<1>6. Revoked(x)'
  BY <1>1, <1>3, <1>4, Zenon DEF Revoked
<1>7. ASSUME NEW i \in Ids
      PROVE  Holds("worker", c.local, i) <=>
                \/ c.id = None /\ Holds("worker", c.arg, i)
                \/ c.id = i /\ Holds("worker", byId["worker"][i].local, i)
  <2>1. CASE c.id = None
    <3>1. c.arg = c.local
      BY <1>5, <2>1, BuffersAssumption, Zenon DEF FreeOK
    <3> QED  BY <2>1, <3>1, BuffersAssumption, Zenon
  <2>2. CASE c.id # None
    <3>1. Found("worker", c.id, c.local, c.size) /\ c.id \in Ids
      BY <1>1, <1>5, <2>2, ZenonT(60) DEF FreeOK
    <3>2. c.local \in Addr /\ shadow["worker"][c.local] = c.id
      BY <1>4, <3>1 DEF Facts, Found, Records
    <3>3. c.local \in Keys /\ c.local \notin Objects
      BY <3>2, BuffersAssumption, ZenonT(60) DEF Keys, Addr
    <3>4. Holds("worker", c.local, i) => i = c.id
      BY <1>4, <3>2, <3>3 DEF Facts
    <3> QED  BY <2>2, <3>1, <3>4, Zenon DEF Found
  <2> QED  BY <2>1, <2>2, Zenon
<1>8. ASSUME NEW s \in Sides, NEW i \in Ids, i[1] # s
      PROVE  /\ i \in DOMAIN promised' => i \in DOMAIN promised \/ Starts(x, s, i)
             /\ i \in DOMAIN byId[s] => (Ends(x, c.local, s, i) <=> Ends(c, None, s, i))
             /\ i \in DOMAIN promised => (Starts(c, s, i) => Starts(x, s, i))
  <2>1. ~ Holds(s, None, i)
    BY BuffersAssumption, Zenon DEF Holds, Keys, Addr
  <2>2. CASE s = "worker"
    BY <1>1, <1>3, <1>7, <2>1, <2>2, Zenon DEF Ends, Starts
  <2>3. CASE s = "guest"
    BY <1>1, <1>3, <2>3, Zenon DEF Ends, Starts
  <2> QED  BY <2>2, <2>3, Zenon DEF Sides
<1> QED  BY <1>c, <1>n, <1>1, <1>2, <1>5, <1>6, <1>8, QuietKept, Zenon

\* The reply to a call with a buffer keeps the lifetimes: a buffer it returns for
\* the first time gets its shadow when the guest handles the RET.
LEMMA ReplyKept ==
    ASSUME UsesApart, Bind, Kept, NEW t \in Threads, Reply(t), call[t].kind # "free"
    PROVE  Kept'
<1>c. PICK c : call[t] = c
  BY Zenon
<1>k. PICK k : dying[t] = k
  BY Zenon
<1>n. PICK x : call'[t] = x
  BY Zenon
<1>1. c.at = "handler" /\ c.kind # "free" /\ dying'[t] = k
  BY <1>c, <1>k, Zenon DEF Reply
<1>2. /\ StepOf(t) /\ KeepsShadows /\ Moved(t, "replied", c.local, x.id) /\ Extends(x.id)
      /\ (c.kind = "pass" => x.id = c.id) /\ (c.kind = "fetch" => x.id[1] = "worker")
  BY <1>c, <1>n, ReplyBind, Zenon
<1>3. x.at = "replied" /\ x.kind = c.kind
  BY <1>2, <1>c, <1>n, Zenon DEF Moved
<1>4. \/ c.kind = "pass" /\ c.id \in DOMAIN promised
      \/ c.kind = "fetch"
  BY <1>1, <1>c, Zenon DEF Bind, CallOK, PassOK, Given
<1>5. Revoked(x)'
  BY <1>1, <1>3, Zenon DEF Revoked
<1>6. \A i \in DOMAIN promised : i \in DOMAIN promised' /\ promised'[i] = promised[i]
  BY <1>2, Zenon DEF Extends
<1>7. ASSUME NEW s \in Sides, NEW i \in Ids, i[1] # s
      PROVE  /\ i \in DOMAIN promised' => i \in DOMAIN promised \/ Starts(x, s, i)
             /\ i \in DOMAIN byId[s] => (Ends(x, k, s, i) <=> Ends(c, k, s, i))
             /\ i \in DOMAIN promised => (Starts(c, s, i) => Starts(x, s, i))
  <2>1. i[1] = "worker" => s = "guest"
    BY <1>7, Zenon DEF Sides
  <2>2. i \in DOMAIN promised' => i \in DOMAIN promised \/ Starts(x, s, i)
    BY <1>2, <1>3, <1>4, <2>1, Zenon DEF Extends, Starts
  <2>3. Ends(x, k, s, i) <=> Ends(c, k, s, i)
    BY <1>1, <1>3, Zenon DEF Ends
  <2> QED  BY <1>1, <2>2, <2>3, Zenon DEF Starts
<1> QED  BY <1>c, <1>k, <1>n, <1>1, <1>2, <1>5, <1>6, <1>7, QuietKept, Zenon

\* Complete keeps the lifetimes.
LEMMA CompleteKept ==
    ASSUME UsesApart, Bind, Kept, NEW t \in Threads, Complete(t)
    PROVE  Kept'
<1>c. PICK c : call[t] = c
  BY Zenon
<1>k. PICK k : dying[t] = k
  BY Zenon
<1>1. c.at = "copy" /\ dying'[t] = k /\ promised' = promised /\ call'[t] = Idle
  BY <1>c, <1>k, Zenon DEF Complete, Bind, Shape
<1>2. StepOf(t) /\ KeepsShadows
  BY CompleteBind, Zenon
<1>3. c.kind # "free"
  BY <1>1, <1>c, Zenon DEF Bind, CallOK, FreeOK
<1>4. Idle.at = "app" /\ Idle.kind = "none"
  BY Zenon DEF Idle
<1>5. Revoked(Idle)'
  BY <1>4, Zenon DEF Revoked
<1>6. ASSUME NEW s \in Sides, NEW i \in Ids, i[1] # s
      PROVE  /\ i \in DOMAIN promised' => i \in DOMAIN promised \/ Starts(Idle, s, i)
             /\ i \in DOMAIN byId[s] => (Ends(Idle, k, s, i) <=> Ends(c, k, s, i))
             /\ i \in DOMAIN promised => (Starts(c, s, i) => Starts(Idle, s, i))
  <2>1. Ends(Idle, k, s, i) <=> Ends(c, k, s, i)
    BY <1>3, <1>4, Zenon DEF Ends
  <2> QED  BY <1>1, <2>1, Zenon DEF Starts
<1> QED  BY <1>c, <1>k, <1>1, <1>2, <1>5, <1>6, QuietKept, Zenon

\* A buffer is listed on a side under at most one key.
LEMMA OneKey ==
    ASSUME NEW s \in Sides, Facts(s), NEW i \in Ids, NEW k, NEW l, Holds(s, k, i), Holds(s, l, i)
    PROVE  k = l
<1>1. k \in Keys /\ l \in Keys
  BY Zenon DEF Holds
<1> QED  BY <1>1, Zenon DEF Facts

\* FreeObject ends the promises of what is coupled to the object, and from then
\* on the call accounts for those shadows.
LEMMA FreeObjectKept ==
    ASSUME UsesApart, Bind, Kept, NEW t \in Threads, NEW o \in Objects, FreeObject(t, o)
    PROVE  Kept'
<1>c. PICK c : call[t] = c
  BY Zenon
<1>k. PICK k : dying[t] = k
  BY Zenon
<1>n. PICK x : x = [Idle EXCEPT !.at = "sent", !.kind = "free", !.arg = o, !.local = o]
  BY Zenon
<1>1. c.at = "app" /\ dying'[t] = k /\ call' = [call EXCEPT ![t] = x]
  BY <1>c, <1>k, <1>n, Zenon DEF FreeObject
<1>2. call'[t] = x
  BY <1>1, Zenon DEF Bind, Shape
<1>3. x.at = "sent" /\ x.kind = "free" /\ x.arg = o /\ x.id = None
  BY <1>n, Zenon DEF Idle
<1>4. StepOf(t) /\ KeepsShadows
  BY FreeObjectBind, Zenon
<1>5. Revoked(x)'
  BY <1>3, Zenon DEF Revoked
<1>6. /\ \A i : i \in DOMAIN promised' <=> i \in DOMAIN promised /\ promised[i].obj # o
      /\ \A i \in DOMAIN promised' : promised'[i] = promised[i]
  BY Zenon DEF FreeObject, Remove
<1>7. ASSUME NEW s \in Sides, NEW i \in Ids, Owns(t, i)', i[1] # s
      PROVE  Accounted(x, k, s, i)' /\ Provided(x, k, s, i)'
  <2>1. Same(s, i) /\ Facts(s)
    BY <1>4, <1>7, FactsHold, Zenon DEF KeepsShadows, Bind
  <2>2. i \in DOMAIN byId[s] \/ i \in DOMAIN promised =>
           Accounted(c, k, s, i) /\ Provided(c, k, s, i)
    BY <1>4, <1>7, <1>c, <1>k, OwnBefore, Zenon DEF StepOf
  <2>3. i \in DOMAIN byId'[s] <=> i \in DOMAIN byId[s]
    BY <2>1, Zenon DEF Same
  <2>4. i \in DOMAIN byId[s] => (Ends(x, k, s, i)' <=> Ends(x, k, s, i))
    BY <2>1, EndsSame, Zenon
  <2>5. Ends(x, k, s, i) <=> Holds(s, o, i) \/ Ends(c, k, s, i)
    BY <1>1, <1>3, BuffersAssumption, Zenon DEF Ends, Sides
  <2>6. i \in DOMAIN byId[s] /\ i \in DOMAIN promised' => (Lasting(s, i)' <=> Lasting(s, i))
    BY <1>6, <2>1, LastingSame, ZenonT(60)
  <2>7. ASSUME i \in DOMAIN promised
        PROVE  /\ promised[i].lifetime = "coupled" \/ promised[i].obj = None
    BY <2>7 DEF Bind, Promises, Fits
  <2>8. Lasting(s, i) /\ i \notin DOMAIN promised' => Holds(s, o, i)
    BY <1>6, <2>7, BuffersAssumption, Zenon DEF Lasting
  <2>9. ASSUME i \in DOMAIN byId[s], Lasting(s, i), i \in DOMAIN promised'  PROVE  ~ Holds(s, o, i)
    <3> SUFFICES ASSUME Holds(s, o, i)  PROVE  FALSE
      BY Zenon
    <3>1. byId[s][i].local \in Addr /\ o \in Keys
      BY <2>1, <2>9, Zenon DEF Facts, Records, Keys
    <3>2. byId[s][i].local # o
      BY <3>1, BuffersAssumption, Zenon DEF Addr
    <3>3. promised[i].obj # o
      BY <1>6, <2>9, Zenon
    <3>4. ~ Holds(s, byId[s][i].local, i) /\ ~ Holds(s, promised[i].obj, i)
      BY <2>1, <3>2, <3>3, OneKey, Zenon
    <3> QED  BY <2>9, <3>1, <3>4, Zenon DEF Lasting
  <2>10. Accounted(x, k, s, i)'
    BY <2>2, <2>3, <2>4, <2>5, <2>6, <2>8, Zenon DEF Accounted
  <2>11. ~ Starts(c, s, i)
    BY <1>1, Zenon DEF Starts
  <2>12. Provided(x, k, s, i)'
    BY <1>6, <2>2, <2>3, <2>4, <2>5, <2>6, <2>9, <2>11, ZenonT(60) DEF Provided
  <2> QED  BY <2>10, <2>12, Zenon
<1> QED  BY <1>1, <1>2, <1>4, <1>5, <1>7, KeptStep, Zenon

\* FreeBuffer ends the promise of the buffer, and from then on the call accounts
\* for its shadow, listed under its own address on the side that has it.
LEMMA FreeBufferKept ==
    ASSUME UsesApart, Bind, Kept, NEW t \in Threads, NEW a \in Addr, FreeBuffer(t, a)
    PROVE  Kept'
<1>c. PICK c : call[t] = c
  BY Zenon
<1>k. PICK k : dying[t] = k
  BY Zenon
<1>i. PICK id : shadow["guest"][a] = id
  BY Zenon
<1>n. PICK x : x = [Idle EXCEPT !.at = "sent", !.kind = "free", !.arg = a,
                       !.size = byId["guest"][id].size, !.lifetime = "manual", !.id = id]
  BY Zenon
<1>1. /\ c.at = "app" /\ dying'[t] = k /\ call' = [call EXCEPT ![t] = x]
      /\ id \in DOMAIN promised /\ promised[id].lifetime = "manual"
      /\ promised' = Remove(promised, {id})
  BY Zenon, <1>c, <1>k, <1>i, <1>n DEF FreeBuffer
<1>2. call'[t] = x
  BY <1>1, Zenon DEF Bind, Shape
<1>3. x.at = "sent" /\ x.kind = "free" /\ x.arg = a /\ x.id = id
  BY <1>n, Zenon DEF Idle
<1>4. StepOf(t) /\ KeepsShadows
  BY FreeBufferBind, Zenon
<1>6. /\ \A i : i \in DOMAIN promised' <=> i \in DOMAIN promised /\ i # id
      /\ \A i \in DOMAIN promised' : promised'[i] = promised[i]
  BY <1>1, Zenon DEF Remove
<1>5. Revoked(x)'
  BY <1>3, <1>6, Zenon DEF Revoked
<1>7. id \in Ids /\ id # None /\ Facts("guest") /\ a \in Keys /\ a \notin Objects
  BY <1>1, FactsHold, BuffersAssumption, Zenon DEF Bind, Promises, Sides, Keys, Addr
<1>8. ASSUME NEW s \in Sides, NEW i \in Ids, Owns(t, i)', i[1] # s
      PROVE  Accounted(x, k, s, i)' /\ Provided(x, k, s, i)'
  <2>1. Same(s, i) /\ Facts(s)
    BY <1>4, <1>8, FactsHold, Zenon DEF KeepsShadows, Bind
  <2>2. i \in DOMAIN byId[s] \/ i \in DOMAIN promised =>
           Accounted(c, k, s, i) /\ Provided(c, k, s, i)
    BY <1>4, <1>8, <1>c, <1>k, OwnBefore, Zenon DEF StepOf
  <2>3. i \in DOMAIN byId'[s] <=> i \in DOMAIN byId[s]
    BY <2>1, Zenon DEF Same
  <2>4. i \in DOMAIN byId[s] => (Ends(x, k, s, i)' <=> Ends(x, k, s, i))
    BY <2>1, EndsSame, Zenon
  <2>5. Ends(c, k, s, i) => Ends(x, k, s, i)
    BY <1>1, Zenon DEF Ends
  <2>6. i \in DOMAIN byId[s] /\ i \in DOMAIN promised' => (Lasting(s, i)' <=> Lasting(s, i))
    BY <1>6, <2>1, LastingSame, Zenon
  <2>7. byId["guest"][id].local = a
    BY <1>7, <1>i, Zenon DEF Facts
  <2>8. Lasting(s, i) /\ i \notin DOMAIN promised' => Ends(x, k, s, i)
    <3> SUFFICES ASSUME Lasting(s, i), i \notin DOMAIN promised'  PROVE  Ends(x, k, s, i)
      BY Zenon
    <3>1. i = id /\ Holds(s, byId[s][i].local, i)
      BY <1>1, <1>6, Zenon DEF Lasting
    <3> QED  BY <1>3, <2>7, <3>1, Zenon DEF Ends, Sides
  <2>9. i # id => (Ends(x, k, s, i) => Ends(c, k, s, i))
    <3>1. Holds("guest", a, i) => i = id
      BY <1>7, <1>i, ZenonT(60) DEF Facts
    <3> QED  BY <1>3, <1>7, <3>1, Zenon DEF Ends
  <2>10. Accounted(x, k, s, i)'
    BY <2>2, <2>3, <2>4, <2>5, <2>6, <2>8, Zenon DEF Accounted
  <2>11. ~ Starts(c, s, i)
    BY <1>1, Zenon DEF Starts
  <2>12. Provided(x, k, s, i)'
    BY <1>6, <2>2, <2>3, <2>4, <2>6, <2>9, <2>11, Zenon DEF Provided
  <2> QED  BY <2>10, <2>12, Zenon
<1> QED  BY <1>1, <1>2, <1>4, <1>5, <1>8, KeptStep, Zenon

\* Nothing is listed under None.
LEMMA NothingUnderNone == \A s, i : ~ Holds(s, None, i)
  BY BuffersAssumption, Zenon DEF Holds, Keys, Addr

\* Deallocate frees at the worker just what the promises have ended for.
LEMMA DeallocateKept ==
    ASSUME UsesApart, Bind, Kept, NEW t \in Threads, Deallocate(t)
    PROVE  Kept'
<1>c. PICK c : call[t] = c
  BY Zenon
<1>k. PICK k : dying[t] = k
  BY Zenon
<1>1. call'[t] = c /\ dying'[t] = None /\ promised' = promised
  BY <1>c, Zenon DEF Deallocate, Bind, Shape
<1>2. StepOf(t) /\ Lost("worker", k)
  BY <1>k, DeallocateBind, Zenon
<1>3. Revoked(c)'
  BY <1>1, <1>c, Zenon DEF Kept, Revoked
<1>4. ASSUME NEW s \in Sides, NEW i \in Ids, Owns(t, i)', i[1] # s
      PROVE  Accounted(c, None, s, i)' /\ Provided(c, None, s, i)'
  <2>1. i \in DOMAIN byId[s] \/ i \in DOMAIN promised =>
           Accounted(c, k, s, i) /\ Provided(c, k, s, i)
    BY <1>2, <1>4, <1>c, <1>k, OwnBefore, Zenon DEF StepOf
  <2>2. CASE s = "worker" /\ Holds(s, k, i)
    <3>1. i \notin DOMAIN byId'[s]
      BY <1>2, <2>2, Zenon DEF Lost
    <3>2. Ends(c, k, s, i)
      BY <2>2, Zenon DEF Ends
    <3>3. i \in DOMAIN promised => Starts(c, s, i)
      BY <2>1, <3>2, Zenon DEF Provided
    <3>4. Starts(c, s, i)' <=> Starts(c, s, i)
      BY Zenon DEF Starts
    <3> QED  BY <1>1, <3>1, <3>3, <3>4, Zenon DEF Accounted, Provided
  <2>3. CASE ~ (s = "worker" /\ Holds(s, k, i))
    <3>1. Same(s, i)
      BY <1>2, <2>3, Zenon DEF Lost
    <3>2. Ends(c, None, s, i) <=> Ends(c, k, s, i)
      BY <2>3, NothingUnderNone, Zenon DEF Ends
    <3> QED  BY <1>1, <2>1, <3>1, <3>2, SameKept, Zenon
  <2> QED  BY <2>2, <2>3, Zenon
<1> QED  BY <1>1, <1>2, <1>3, <1>4, KeptStep, Zenon

\* The RET of a call that frees does the same at the guest.
LEMMA ReturnFreeKept ==
    ASSUME UsesApart, Bind, Kept, NEW t \in Threads, Return(t), call[t].kind = "free"
    PROVE  Kept'
<1>c. PICK c : call[t] = c
  BY Zenon
<1>k. PICK k : dying[t] = k
  BY Zenon
<1>1. /\ c.at = "replied" /\ c.kind = "free" /\ call'[t] = Idle /\ dying'[t] = k
      /\ promised' = promised
  BY <1>c, <1>k, Zenon DEF Return, Bind, Shape
<1>2. StepOf(t) /\ Lost("guest", c.arg)
  BY <1>c, ReturnFreeBind, Zenon
<1>3. Idle.at = "app" /\ Idle.kind = "none"
  BY Zenon DEF Idle
<1>4. Revoked(Idle)'
  BY <1>3, Zenon DEF Revoked
<1>5. ASSUME NEW s \in Sides, NEW i \in Ids, Owns(t, i)', i[1] # s
      PROVE  Accounted(Idle, k, s, i)' /\ Provided(Idle, k, s, i)'
  <2>1. i \in DOMAIN byId[s] \/ i \in DOMAIN promised =>
           Accounted(c, k, s, i) /\ Provided(c, k, s, i)
    BY <1>2, <1>5, <1>c, <1>k, OwnBefore, Zenon DEF StepOf
  <2>s. ~ Starts(c, s, i)
    BY <1>1, Zenon DEF Starts
  <2>2. CASE s = "guest" /\ Holds(s, c.arg, i)
    <3>1. i \notin DOMAIN byId'[s]
      BY <1>2, <2>2, Zenon DEF Lost
    <3>2. Ends(c, k, s, i)
      BY <1>1, <2>2, Zenon DEF Ends
    <3>3. i \notin DOMAIN promised
      BY <2>1, <2>s, <3>2, Zenon DEF Provided
    <3> QED  BY <1>1, <3>1, <3>3, Zenon DEF Accounted, Provided
  <2>3. CASE ~ (s = "guest" /\ Holds(s, c.arg, i))
    <3>1. Same(s, i)
      BY <1>2, <2>3, Zenon DEF Lost
    <3>2. Ends(Idle, k, s, i) <=> Ends(c, k, s, i)
      BY <1>1, <1>3, <2>3, Zenon DEF Ends
    <3> QED  BY <1>1, <2>1, <2>s, <3>1, <3>2, SameKept, Zenon
  <2> QED  BY <2>2, <2>3, Zenon
<1> QED  BY <1>1, <1>2, <1>4, <1>5, KeptStep, Zenon

\* A new shadow is listed for the lifetime it was promised.
LEMMA NewLasting ==
    ASSUME NEW t, NEW s \in Sides, NEW i \in DOMAIN promised, NEW lt, NEW o, promised' = promised,
           promised[i] = [lifetime |-> lt, obj |-> o, thread |-> t], Fits(t, lt, o),
           byId'[s][i].local \in Keys,
           \A k \in Keys : Holds(s, k, i)' <=> k = KeyOf(lt, o, byId'[s][i].local)
    PROVE  Lasting(s, i)'
<1>1. promised[i].lifetime = lt /\ promised[i].obj = o
  OBVIOUS
<1>2. CASE lt = "static"
  <2>1. o = None /\ KeyOf(lt, o, byId'[s][i].local) = None /\ None \notin Keys
    BY <1>2, BuffersAssumption, Zenon DEF Fits, KeyOf, Keys, Addr
  <2>2. \A k \in Keys : ~ Holds(s, k, i)'
    BY <2>1, Zenon
  <2> QED  BY <1>1, <1>2, <2>2, Zenon DEF Lasting
<1>3. CASE lt = "manual"
  <2>1. PICK l \in Keys : byId'[s][i].local = l
    BY Zenon
  <2>2. Holds(s, l, i)'
    BY <1>3, <2>1, Zenon DEF KeyOf
  <2> QED  BY <1>1, <1>3, <2>1, <2>2, Zenon DEF Lasting
<1>4. CASE lt = "coupled"
  <2>1. o \in Keys /\ KeyOf(lt, o, byId'[s][i].local) = o
    BY <1>4, Zenon DEF Fits, KeyOf, Keys
  <2>2. Holds(s, o, i)'
    BY <2>1, Zenon
  <2> QED  BY <1>1, <1>4, <2>2, Zenon DEF Lasting
<1> QED  BY <1>2, <1>3, <1>4, ZenonT(60) DEF Fits, Lifetimes

\* A side that gets the buffer of a call has a shadow of it that lasts.
LEMMA GotKept ==
    ASSUME UsesApart, Bind, Kept, NEW t \in Threads, StepOf(t), NEW s \in Sides,
           NEW c, call[t] = c, NEW k, dying[t] = k, NEW x, promised' = promised,
           Got(s, c.id, c.lifetime, c.obj), c.kind # "free", x.kind # "free", c.id \in Ids, c.id[1] # s,
           Given(t, c), Fits(t, c.lifetime, c.obj), Owns(t, c.id)', s = "guest" \/ k = None
    PROVE  Accounted(x, k, s, c.id)' /\ Provided(x, k, s, c.id)'
<1>i. PICK i : c.id = i
  BY Zenon
<1>1. i \in DOMAIN promised /\ promised[i] = [lifetime |-> c.lifetime, obj |-> c.obj, thread |-> t]
  BY <1>i, Zenon DEF Given
<1>2. i \in DOMAIN byId'[s] /\ Lasting(s, i)'
  <2>1. CASE i \in DOMAIN byId[s] /\ Same(s, i)
    <3>1. Accounted(c, k, s, i)
      BY <1>1, <1>i, OwnBefore, Zenon DEF StepOf
    <3>2. ~ Ends(c, k, s, i)
      BY NothingUnderNone, Zenon DEF Ends
    <3>3. Lasting(s, i)
      BY <2>1, <3>1, <3>2, Zenon DEF Accounted
    <3>4. Lasting(s, i)'
      BY <1>1, <2>1, <3>3, LastingSame, Zenon
    <3> QED  BY <2>1, <3>4, Zenon DEF Same
  <2>2. CASE /\ i \in DOMAIN byId'[s]
             /\ \A l \in Keys : Holds(s, l, i)' <=> l = KeyOf(c.lifetime, c.obj, byId'[s][i].local)
    <3>1. byId'[s][i].local \in Keys
      BY <2>2, FactsNext, Zenon DEF StepOf, Bind, Facts, Records, Keys
    <3>2. Lasting(s, i)'
      BY <1>1, <2>2, <3>1, NewLasting, Zenon
    <3> QED  BY <2>2, <3>2, Zenon
  <2> QED  BY <1>i, <2>1, <2>2, Zenon DEF Got
<1>3. ~ Ends(x, k, s, i)'
  <2>1. ~ Holds(s, None, i)'
    BY BuffersAssumption, Zenon DEF Holds, Keys, Addr
  <2> QED  BY <2>1, Zenon DEF Ends
<1> QED  BY <1>2, <1>3, <1>i, Zenon DEF Accounted, Provided

\* HandleBuffer keeps the lifetimes, also where the call is to free the buffer.
LEMMA HandleKept ==
    ASSUME UsesApart, Bind, Kept, NEW t \in Threads, HandleBuffer(t)
    PROVE  Kept'
<1>c. PICK c : call[t] = c
  BY Zenon
<1>n. PICK x : call'[t] = x
  BY Zenon
<1>1. c.at = "sent" /\ c.id # None /\ dying[t] = None /\ dying'[t] = None /\ promised' = promised
  BY <1>c, Zenon DEF HandleBuffer
<1>2. /\ StepOf(t) /\ Got("worker", c.id, c.lifetime, c.obj)
      /\ Moved(t, "handler", x.local, c.id)
  BY <1>c, <1>n, HandleBind, Zenon
<1>3. x.at = "handler" /\ x.kind = c.kind /\ x.id = c.id /\ x.arg = c.arg
  BY <1>2, <1>c, <1>n, Zenon DEF Moved
<1>4. /\ Revoked(c) /\ c.id \in Ids
      /\ \/ c.kind = "pass" /\ Given(t, c) /\ Fits(t, c.lifetime, c.obj)
         \/ c.kind = "free" /\ c.lifetime = "manual"
  BY <1>1, <1>c, Zenon DEF Kept, Bind, CallOK, PassOK, FetchOK, FreeOK, BufferArg
<1>5. Revoked(x)'
  BY <1>1, <1>3, <1>4, Zenon DEF Revoked
<1>6. ASSUME NEW s \in Sides, NEW i \in Ids, Owns(t, i)', i[1] # s
      PROVE  Accounted(x, None, s, i)' /\ Provided(x, None, s, i)'
  <2>1. i \in DOMAIN byId[s] \/ i \in DOMAIN promised =>
           Accounted(c, None, s, i) /\ Provided(c, None, s, i)
    BY <1>1, <1>2, <1>6, <1>c, OwnBefore, Zenon DEF StepOf
  <2>2. CASE s # "worker" \/ i # c.id
    <3>1. Same(s, i)
      BY <1>2, <2>2, Zenon DEF Got
    <3>2. Ends(x, None, s, i) <=> Ends(c, None, s, i)
      BY <1>1, <1>3, <2>2, Zenon DEF Ends
    <3>3. ~ Starts(c, s, i)
      BY <1>1, <2>2, Zenon DEF Starts
    <3> QED  BY <1>1, <2>1, <3>1, <3>2, <3>3, SameKept, Zenon
  <2>3. CASE s = "worker" /\ i = c.id /\ c.kind = "pass"
    <3>1. Given(t, c) /\ Fits(t, c.lifetime, c.obj) /\ c.kind # "free" /\ x.kind # "free"
      BY <1>3, <1>4, <2>3, Zenon
    <3> QED  BY <1>1, <1>2, <1>4, <1>6, <1>c, <2>3, <3>1, GotKept, ZenonT(60)
  <2>4. CASE s = "worker" /\ i = c.id /\ c.kind = "free"
    <3>1. i \notin DOMAIN promised' /\ i \notin DOMAIN promised
      BY <1>1, <1>4, <2>4, Zenon DEF Revoked
    <3>2. CASE i \in DOMAIN byId[s] /\ Same(s, i)
      <4>1. Ends(c, None, s, i)
        BY <2>1, <3>1, <3>2, Zenon DEF Accounted, Lasting
      <4>2. Ends(x, None, s, i)
        BY <1>1, <1>3, <4>1, Zenon DEF Ends
      <4>3. Ends(x, None, s, i)'
        BY <3>2, <4>2, EndsSame, Zenon
      <4> QED  BY <3>1, <4>3, Zenon DEF Accounted, Provided
    <3>3. CASE /\ i \in DOMAIN byId'[s]
               /\ \A k \in Keys : Holds(s, k, i)' <=> k = KeyOf(c.lifetime, c.obj, byId'[s][i].local)
      <4>1. byId'[s][i].local \in Keys
        BY <1>2, <3>3, FactsNext, Zenon DEF StepOf, Bind, Facts, Records, Keys
      <4>l. PICK l \in Keys : byId'[s][i].local = l
        BY <4>1, Zenon
      <4>2. Holds(s, l, i)'
        BY <1>4, <2>4, <3>3, <4>l, Zenon DEF KeyOf
      <4>3. Ends(x, None, s, i)'
        BY <1>3, <2>4, <4>2, <4>l, Zenon DEF Ends
      <4> QED  BY <3>1, <4>3, Zenon DEF Accounted, Provided
    <3> QED  BY <1>2, <2>4, <3>2, <3>3, Zenon DEF Got
  <2> QED  BY <1>4, <2>2, <2>3, <2>4, Zenon
<1> QED  BY <1>n, <1>1, <1>2, <1>5, <1>6, KeptStep, ZenonT(60)

\* The RET of a call with a buffer keeps the lifetimes.
LEMMA ReturnKept ==
    ASSUME UsesApart, Bind, Kept, NEW t \in Threads, Return(t), call[t].kind # "free"
    PROVE  Kept'
<1>c. PICK c : call[t] = c
  BY Zenon
<1>k. PICK k : dying[t] = k
  BY Zenon
<1>n. PICK x : call'[t] = x
  BY Zenon
<1>1. c.at = "replied" /\ c.kind # "free" /\ dying'[t] = k /\ promised' = promised
  BY <1>c, <1>k, Zenon DEF Return
<1>2. /\ StepOf(t) /\ Got("guest", c.id, c.lifetime, c.obj)
      /\ Moved(t, "copy", x.local, c.id)
  BY <1>c, <1>n, ReturnBind, Zenon
<1>3. x.at = "copy" /\ x.kind = c.kind /\ x.id = c.id
  BY <1>2, <1>c, <1>n, Zenon DEF Moved
<1>4. c.id \in Ids /\ Given(t, c) /\ Fits(t, c.lifetime, c.obj)
  BY <1>1, <1>c, Zenon DEF Bind, CallOK, PassOK, FetchOK, BufferArg
<1>5. Revoked(x)'
  BY <1>1, <1>3, Zenon DEF Revoked
<1>6. ASSUME NEW s \in Sides, NEW i \in Ids, Owns(t, i)', i[1] # s
      PROVE  Accounted(x, k, s, i)' /\ Provided(x, k, s, i)'
  <2>1. i \in DOMAIN byId[s] \/ i \in DOMAIN promised =>
           Accounted(c, k, s, i) /\ Provided(c, k, s, i)
    BY <1>2, <1>6, <1>c, <1>k, OwnBefore, Zenon DEF StepOf
  <2>2. CASE s # "guest" \/ i # c.id
    <3>1. Same(s, i)
      BY <1>2, <2>2, Zenon DEF Got
    <3>2. Ends(x, k, s, i) <=> Ends(c, k, s, i)
      BY <1>1, <1>3, Zenon DEF Ends
    <3>3. ~ Starts(c, s, i)
      BY <1>1, <2>2, Zenon DEF Starts
    <3> QED  BY <1>1, <2>1, <3>1, <3>2, <3>3, SameKept, Zenon
  <2>3. CASE s = "guest" /\ i = c.id
    BY <1>1, <1>2, <1>3, <1>4, <1>6, <1>c, <1>k, <2>3, GotKept, Zenon
  <2> QED  BY <2>2, <2>3, Zenon
<1> QED  BY <1>n, <1>1, <1>2, <1>5, <1>6, KeptStep, ZenonT(60)

\* There are no shadows and no promises initially.
LEMMA InitKept == Init => Kept
<1> SUFFICES ASSUME Init  PROVE  Kept
  BY Zenon
<1>1. \A s \in Sides : \A i : i \notin DOMAIN byId[s]
  BY DEF Init
<1>2. \A i : i \notin DOMAIN promised
  BY DEF Init
<1>3. AllOwned
  BY <1>1, Zenon DEF AllOwned
<1>4. \A c, k : Revoked(c)
  BY <1>2, Zenon DEF Revoked
<1>5. \A t, c, k : OwnKept(t, c, k)
  BY <1>1, <1>2, Zenon DEF OwnKept, Accounted, Provided
<1> QED  BY <1>3, <1>4, <1>5, Zenon DEF Kept

\* Every step keeps the lifetimes.
LEMMA NextKept ==
    ASSUME UsesApart, FixedSizes, Bind, Kept, [Next]_vars
    PROVE  Kept'
<1>1. CASE UNCHANGED vars
  <2>1. byId' = byId /\ coupled' = coupled /\ call' = call /\ dying' = dying /\ promised' = promised
    BY <1>1, Zenon DEF vars, tables
  <2>2. AllOwned'
    BY <2>1, Zenon DEF Kept, AllOwned, Owns
  <2>3. ASSUME NEW t \in Threads  PROVE  Revoked(call[t])' /\ OwnKept(t, call[t], dying[t])'
    <3>1. PICK c : call[t] = c
      BY Zenon
    <3>2. PICK k : dying[t] = k
      BY Zenon
    <3>3. Revoked(c) /\ OwnKept(t, c, k)
      BY <3>1, <3>2, Zenon DEF Kept
    <3>4. \A s, l, i : Holds(s, l, i)' <=> Holds(s, l, i)
      BY <2>1, ZenonT(60) DEF Holds
    <3>5. \A s, i : (Lasting(s, i)' <=> Lasting(s, i)) /\ (Ends(c, k, s, i)' <=> Ends(c, k, s, i))
      BY <2>1, <3>4 DEF Lasting, Ends
    <3>6. Revoked(c)' /\ OwnKept(t, c, k)'
      BY <2>1, <3>3, <3>5, Zenon DEF Revoked, OwnKept, Accounted, Provided, Starts, Owns
    <3> QED  BY <2>1, <3>1, <3>2, <3>6, Zenon
  <2> QED  BY <2>2, <2>3, Zenon DEF Kept
<1>2. CASE Next
  <2>1. PICK t \in Threads :
          \/ \E n \in Sizes, lt \in Lifetimes, o \in Objects \cup {None} :
                \E a \in Addr : PassBuffer(t, a, n, lt, o) \/ FetchBuffer(t, a, n, lt, o)
          \/ \E o \in Objects : FreeObject(t, o)
          \/ \E a \in Addr : FreeBuffer(t, a)
          \/ HandleBuffer(t) \/ HandlePlain(t) \/ Reply(t)
          \/ Deallocate(t) \/ Return(t) \/ Complete(t)
    BY Zenon, <1>2 DEF Next
  <2>2. ASSUME NEW n \in Sizes, NEW lt \in Lifetimes, NEW o \in Objects \cup {None}, NEW a \in Addr,
               PassBuffer(t, a, n, lt, o)
        PROVE  Kept'
    BY <2>2, PassKept, Zenon
  <2>3. ASSUME NEW n \in Sizes, NEW lt \in Lifetimes, NEW o \in Objects \cup {None}, NEW a \in Addr,
               FetchBuffer(t, a, n, lt, o)
        PROVE  Kept'
    BY <2>3, FetchKept, Zenon
  <2>4. ASSUME NEW o \in Objects, FreeObject(t, o)  PROVE  Kept'
    BY <2>4, FreeObjectKept, Zenon
  <2>5. ASSUME NEW a \in Addr, FreeBuffer(t, a)  PROVE  Kept'
    BY <2>5, FreeBufferKept, Zenon
  <2>6. ASSUME HandleBuffer(t)  PROVE  Kept'
    BY <2>6, HandleKept, Zenon
  <2>7. ASSUME HandlePlain(t)  PROVE  Kept'
    BY <2>7, HandlePlainKept, Zenon
  <2>8. ASSUME Reply(t)  PROVE  Kept'
    BY <2>8, ReplyKept, ReplyFreeKept, Zenon
  <2>9. ASSUME Deallocate(t)  PROVE  Kept'
    BY <2>9, DeallocateKept, Zenon
  <2>10. ASSUME Return(t)  PROVE  Kept'
    BY <2>10, ReturnKept, ReturnFreeKept, Zenon
  <2>11. ASSUME Complete(t)  PROVE  Kept'
    BY <2>11, CompleteKept, Zenon
  <2> QED
    BY ZenonT(60), <2>1, <2>2, <2>3, <2>4, <2>5, <2>6, <2>7, <2>8, <2>9, <2>10, <2>11
<1> QED  BY <1>1, <1>2, Zenon

\* Between calls nothing is about to be made or freed, so that the shadows are
\* those promised.
LEMMA KeptMatches ==
    ASSUME Bind, Kept
    PROVE  ShadowsMatchLifetimes
<1> SUFFICES ASSUME \A t \in Threads : call[t].at = "app" /\ dying[t] = None
             PROVE  UNION {{i \in DOMAIN byId[s] : byId[s][i].owned} : s \in Sides} = DOMAIN promised
  BY Zenon DEF ShadowsMatchLifetimes
<1>1. \A t \in Threads, s \in Sides, i \in Ids :
         ~ Ends(call[t], dying[t], s, i) /\ ~ Starts(call[t], s, i)
  BY NothingUnderNone, ZenonT(60) DEF Ends, Starts
<1>2. \A s \in Sides : Facts(s)
  BY FactsHold, Zenon DEF Bind
<1>3. ASSUME NEW s \in Sides, NEW i \in DOMAIN byId[s], byId[s][i].owned  PROVE  i \in DOMAIN promised
  <2>1. i \in Ids /\ i[1] # s
    BY <1>2, <1>3, Zenon DEF Facts
  <2>2. PICK t \in Threads : Owns(t, i)
    BY Zenon DEF Kept, AllOwned
  <2>3. Accounted(call[t], dying[t], s, i)
    BY <2>1, <2>2, Zenon DEF Kept, OwnKept
  <2> QED  BY <1>1, <2>1, <2>3, Zenon DEF Accounted, Lasting
<1>4. ASSUME NEW i \in DOMAIN promised
      PROVE  \E s \in Sides : i \in DOMAIN byId[s] /\ byId[s][i].owned
  <2>1. i \in Ids /\ \E t \in Threads : Owns(t, i)
    BY Zenon DEF Bind, Promises
  <2>2. PICK t \in Threads : Owns(t, i)
    BY <2>1, Zenon
  <2>3. PICK s \in Sides : i[1] # s
    BY Zenon DEF Sides
  <2>4. Provided(call[t], dying[t], s, i)
    BY <2>1, <2>2, <2>3, Zenon DEF Kept, OwnKept
  <2>5. i \in DOMAIN byId[s]
    BY <1>1, <2>1, <2>4, Zenon DEF Provided
  <2>6. byId[s][i].owned
    BY <1>2, <2>3, <2>5, Zenon DEF Facts
  <2> QED  BY <2>5, <2>6, Zenon
<1> DEFINE Of(s) == {i \in DOMAIN byId[s] : byId[s][i].owned}
<1>5. \A s, i : i \in Of(s) <=> i \in DOMAIN byId[s] /\ byId[s][i].owned
  BY Zenon
<1> SUFFICES UNION {Of(s) : s \in Sides} = DOMAIN promised
  BY Zenon
<1> HIDE DEF Of
<1>6. \A i : i \in UNION {Of(s) : s \in Sides} <=> \E s \in Sides : i \in Of(s)
  BY Zenon
<1>7. \A i : i \in UNION {Of(s) : s \in Sides} <=> i \in DOMAIN promised
  BY <1>3, <1>4, <1>5, <1>6, Zenon
<1> QED  BY Zenon, <1>7

\* ShadowsMatchLifetimes in general: between calls there is a shadow exactly for
\* the buffers whose lifetime lasts: none leaks and none is freed early.
THEOREM ShadowsLiveAsLong ==
    ASSUME UsesApart, FixedSizes
    PROVE  Spec => []ShadowsMatchLifetimes
<1>1. Bind /\ Kept /\ [Next]_vars => Kept'
  BY NextKept, Zenon
<1>2. Bind /\ Kept => ShadowsMatchLifetimes
  BY KeptMatches, Zenon
<1> QED  BY InitKept, <1>1, <1>2, BuffersBound, PTL DEF Spec
=============================================================================
