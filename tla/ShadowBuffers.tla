---------------------------- MODULE ShadowBuffers ----------------------------
(***************************************************************************)
(* Buffers that outlive a call.  A buffer with a lifetime other than        *)
(* `call' exists twice: the *solid* one where the application or the API    *)
(* allocated it, and a *shadow* allocated by AvA on the other side.  The    *)
(* two are paired by an id; each side keeps a record per id in              *)
(* shadow_buffers.buffers_by_id and a pointer to it in the metadata of the  *)
(* local address.  Records of buffers coupled to an object (or to the       *)
(* buffer itself, lifetime `manual') are listed in the object's metadata    *)
(* and freed with it.                                                       *)
(*                                                                          *)
(* Guest threads call functions that take, return or deallocate such        *)
(* buffers; the shadow thread of each runs the generated handler.  Every    *)
(* operation on the tables holds shadow_buffers.mutex, so it is one step.   *)
(* The contents of buffers are left out; their sizes are kept.              *)
(***************************************************************************)
EXTENDS Naturals, Sequences

CONSTANTS
    Threads,     \* guest threads
    Objects,     \* objects a buffer can be coupled to
    AppAddr,     \* addresses, in the guest, of the application's buffers
    ApiAddr,     \* addresses, in the worker, of the API's buffers
    HeapAddr,    \* addresses the buffer allocator may return
    Uses,        \* Uses[t]: the objects and addresses thread t works with
    Gives,       \* Gives[t]: the lifetimes of the buffers of thread t
    MaxSize,     \* buffers have 1..MaxSize elements
    GrowCoupled, \* TRUE: a coupled or manual buffer may be passed with a new size
    None

Sides == {"guest", "worker"}
Ids == Sides \X Nat

ASSUME BuffersAssumption ==
    /\ HeapAddr \cap (AppAddr \cup ApiAddr) = {}
    /\ Objects \cap (AppAddr \cup ApiAddr \cup HeapAddr) = {}
    /\ MaxSize \in Nat \ {0}
    /\ GrowCoupled \in BOOLEAN
    /\ None \notin Objects \cup AppAddr \cup ApiAddr \cup HeapAddr \cup Ids

Addr == AppAddr \cup ApiAddr \cup HeapAddr
Keys == Addr \cup Objects
Sizes == 1..MaxSize
Lifetimes == {"static", "manual", "coupled"}
\* A record (ava_shadow_record_t) has an id, a local address, a size and
\* owned: whether it has a deallocator.

VARIABLES
    heap,     \* heap[s][a]: size of the block AvA allocated at a, 0 if none
    byId,     \* byId[s]: the records in buffers_by_id of side s
    shadow,   \* shadow[s][a]: id of the record metadata(a)->shadow points to
    coupled,  \* coupled[s][k]: records in metadata(k)->coupled_shadow_buffers
    issued,   \* issued[s]: ids issued by next_id on side s
    failed,   \* an assertion failed or a freed record was read
    call,     \* call[t]: the call thread t is making
    dying,    \* dying[t]: what the worker still has to free after its reply to t
    promised  \* promised[id]: lifetime and object the program gave the buffer

tables == <<heap, byId, shadow, coupled, issued>>
vars == <<tables, failed, call, dying, promised>>

-----------------------------------------------------------------------------
(* The tables of one side, as a record that the operations below transform. *)

Side(s) == [heap |-> heap[s], byId |-> byId[s], shadow |-> shadow[s],
            coupled |-> coupled[s], issued |-> issued[s], failed |-> failed]

SetSide(s, d) ==
    /\ heap' = [heap EXCEPT ![s] = d.heap]
    /\ byId' = [byId EXCEPT ![s] = d.byId]
    /\ shadow' = [shadow EXCEPT ![s] = d.shadow]
    /\ coupled' = [coupled EXCEPT ![s] = d.coupled]
    /\ issued' = [issued EXCEPT ![s] = d.issued]
    /\ failed' = d.failed

\* g_hash_table_insert and g_hash_table_remove.
Insert(f, i, x) == [j \in DOMAIN f \cup {i} |-> IF j = i THEN x ELSE f[j]]
Remove(f, I) == [j \in DOMAIN f \ I |-> f[j]]

\* As NewRecord, without the pointer in the metadata.
NoMetadata(d, r) ==
    [d EXCEPT !.byId = Insert(@, r.id, r),
              !.failed = @ \/ r.id \in DOMAIN d.byId \/ d.shadow[r.local] # None]

\* ava_shadow_buffer_new_record_unlocked, with its two checks.
NewRecord(d, r) ==
    [d EXCEPT !.byId = Insert(@, r.id, r),
              !.shadow[r.local] = r.id,
              !.failed = @ \/ r.id \in DOMAIN d.byId \/ d.shadow[r.local] # None]

\* Free record r and its block, and clear the pointer in the metadata.
ForgetRecord(d, r) ==
    [d EXCEPT !.failed = @ \/ ~ r.owned,
              !.heap[r.local] = 0,
              !.byId = Remove(@, {r.id}),
              !.shadow[r.local] = None]

\* ava_shadow_buffer_free_unlocked: nothing to do without metadata or record.
FreeLocal(d, a) ==
    IF d.shadow[a] = None THEN d ELSE ForgetRecord(d, d.byId[d.shadow[a]])

\* Lists nothing: the record would be freed with no object.
CoupleNothing(d, r, lifetime, obj) == d

\* List record r under the object its lifetime ends with.
Couple(d, r, lifetime, obj) ==
    LET key == IF lifetime = "manual" THEN r.local ELSE obj
    IN  IF key = None THEN d
        ELSE [d EXCEPT !.coupled[key] = Append(@, r)]

\* The part of ava_shadow_buffer_new_shadow_unlocked that makes a record.
NewShadow(d, id, n, lifetime, obj, a) ==
    LET r == [id |-> id, local |-> a, size |-> n, owned |-> TRUE]
    IN  Couple(NewRecord([d EXCEPT !.heap[a] = n], r), r, lifetime, obj)

NeverOutgrown(r, n) == FALSE

\* Only a shadow is reallocated: a solid buffer belongs to the program.
Outgrown(r, n) == n > r.size /\ r.owned

\* ava_shadow_buffer_get_buffer: the tables and the local address for id, one
\* result per address the allocator may return.
GetBuffer(d, id, n, lifetime, obj) ==
    LET known == id \in DOMAIN d.byId
        fresh == IF known THEN FreeLocal(d, d.byId[id].local) ELSE d
    IN  IF known /\ ~ Outgrown(d.byId[id], n)
        THEN {[d |-> d, local |-> d.byId[id].local]}
        ELSE {[d |-> NewShadow(fresh, id, n, lifetime, obj, a), local |-> a] :
                 a \in {b \in HeapAddr : fresh.heap[b] = 0}}

\* Register the address under a new id, whether or not it has one.
AttachAgain(d, s, a, n) ==
    NewRecord([d EXCEPT !.issued = @ + 1, !.shadow[a] = None,
                        !.byId = Remove(@, {d.shadow[a]})],
              [id |-> <<s, d.issued + 1>>, local |-> a, size |-> n, owned |-> FALSE])

\* ava_shadow_buffer_new_solid_unlocked, called when a buffer is attached.
Attach(d, s, a, n) ==
    IF d.shadow[a] # None THEN d
    ELSE NewRecord([d EXCEPT !.issued = @ + 1],
              [id |-> <<s, d.issued + 1>>, local |-> a, size |-> n, owned |-> FALSE])

\* Free the records listed under key, each through the metadata of its address.
\* Reading a listed record that has been freed is an error.
Freed(d, key) ==
    LET list == d.coupled[key]
        locals == {list[j].local : j \in DOMAIN list}
        ids == {d.shadow[a] : a \in locals} \ {None}
        stale(j) == \/ list[j].id \notin DOMAIN d.byId
                    \/ d.byId[list[j].id] # list[j]
                    \/ \E k \in 1 .. j - 1 : list[k].id = list[j].id
    IN  [d EXCEPT
            !.failed = \/ @
                       \/ \E j \in DOMAIN list : stale(j)
                       \/ \E i \in ids : ~ d.byId[i].owned,
            !.heap = [a \in Addr |-> IF a \in locals /\ d.shadow[a] # None THEN 0 ELSE @[a]],
            !.byId = Remove(@, ids),
            !.shadow = [a \in Addr |-> IF a \in locals THEN None ELSE @[a]]]

\* Frees the listed records and keeps the list.
KeepList(d, key) == Freed(d, key)

\* ava_shadow_buffer_free_coupled_unlocked.
FreeCoupled(d, key) == [Freed(d, key) EXCEPT !.coupled[key] = <<>>]

-----------------------------------------------------------------------------
Idle == [at |-> "app", kind |-> "none", arg |-> None, size |-> 0, lifetime |-> "static",
         obj |-> None, id |-> None, local |-> None]

Init ==
    /\ heap = [s \in Sides |-> [a \in Addr |-> 0]]
    /\ byId = [s \in Sides |-> <<>>]
    /\ shadow = [s \in Sides |-> [a \in Addr |-> None]]
    /\ coupled = [s \in Sides |-> [k \in Keys |-> <<>>]]
    /\ issued = [s \in Sides |-> 0]
    /\ failed = FALSE
    /\ call = [t \in Threads |-> Idle]
    /\ dying = [t \in Threads |-> None]
    /\ promised = <<>>

\* The lifetime the program gives buffer id does not change before it ends.
Consistent(id, p) == id \in DOMAIN promised => promised[id] = p

\* Lifetimes the program may give a buffer of n elements.
MayPass(t, n, lifetime, obj) ==
    /\ lifetime \in Gives[t]
    /\ IF lifetime = "coupled" THEN obj \in Uses[t] \cap Objects ELSE obj = None
    /\ lifetime = "static" \/ n = MaxSize \/ GrowCoupled

\* The guest may name its own buffers and the shadows it has been given.
GuestMayUse(t, a, n) ==
    \/ a \in Uses[t] \cap AppAddr
    \/ /\ a \in HeapAddr
       /\ heap["guest"][a] >= n
       /\ shadow["guest"][a] \in DOMAIN promised
       /\ promised[shadow["guest"][a]].thread = t

\* A call with a buffer argument (input and output).
PassBuffer(t, a, n, lifetime, obj) ==
    /\ ~ failed
    /\ call[t].at = "app"
    /\ GuestMayUse(t, a, n)
    /\ MayPass(t, n, lifetime, obj)
    /\ LET d == Attach(Side("guest"), "guest", a, n)
           id == d.shadow[a]
           p == [lifetime |-> lifetime, obj |-> obj, thread |-> t]
       IN  /\ Consistent(id, p)
           /\ SetSide("guest", d)
           /\ promised' = Insert(promised, id, p)
           /\ call' = [call EXCEPT ![t] = [Idle EXCEPT
                  !.at = "sent", !.kind = "pass", !.arg = a, !.size = n,
                  !.lifetime = lifetime, !.obj = obj, !.id = id]]
    /\ UNCHANGED dying

\* A call of a function that returns the API's buffer at w.
FetchBuffer(t, w, n, lifetime, obj) ==
    /\ ~ failed
    /\ call[t].at = "app"
    /\ w \in Uses[t] \cap ApiAddr
    /\ MayPass(t, n, lifetime, obj)
    /\ Consistent(shadow["worker"][w], [lifetime |-> lifetime, obj |-> obj, thread |-> t])
    /\ call' = [call EXCEPT ![t] = [Idle EXCEPT
           !.at = "sent", !.kind = "fetch", !.size = n, !.local = w,
           !.lifetime = lifetime, !.obj = obj]]
    /\ UNCHANGED <<tables, failed, dying, promised>>

\* A call that deallocates an object: the lifetimes coupled to it end.
FreeObject(t, obj) ==
    /\ ~ failed
    /\ call[t].at = "app"
    /\ obj \in Uses[t] \cap Objects
    /\ promised' = Remove(promised, {i \in DOMAIN promised : promised[i].obj = obj})
    /\ call' = [call EXCEPT ![t] = [Idle EXCEPT
           !.at = "sent", !.kind = "free", !.arg = obj, !.local = obj]]
    /\ UNCHANGED <<tables, failed, dying>>

\* A call that deallocates a buffer of manual lifetime.
FreeBuffer(t, a) ==
    LET id == shadow["guest"][a]
    IN  /\ ~ failed
        /\ call[t].at = "app"
        /\ id \in DOMAIN promised
        /\ promised[id].lifetime = "manual"
        /\ promised[id].thread = t
        /\ promised' = Remove(promised, {id})
        /\ call' = [call EXCEPT ![t] = [Idle EXCEPT
               !.at = "sent", !.kind = "free", !.arg = a, !.size = byId["guest"][id].size,
               !.lifetime = "manual", !.id = id]]
        /\ UNCHANGED <<tables, failed, dying>>

\* The handler translates its buffer argument and calls the API function.
HandleBuffer(t) ==
    /\ ~ failed
    /\ call[t].at = "sent"
    /\ call[t].id # None
    /\ dying[t] = None
    /\ \E g \in GetBuffer(Side("worker"), call[t].id, call[t].size,
                          call[t].lifetime, call[t].obj) :
          /\ SetSide("worker", g.d)
          /\ call' = [call EXCEPT ![t].at = "handler", ![t].local = g.local]
    /\ UNCHANGED <<dying, promised>>

\* The handler of a call without a buffer argument: the API function deallocates
\* the object, or returns its buffer.
HandlePlain(t) ==
    /\ ~ failed
    /\ call[t].at = "sent"
    /\ call[t].id = None
    /\ dying[t] = None
    /\ call' = [call EXCEPT ![t].at = "handler"]
    /\ UNCHANGED <<tables, failed, dying, promised>>

\* Attach the output buffer and send RET.  The deallocations follow the RET.
Reply(t) ==
    /\ ~ failed
    /\ call[t].at = "handler"
    /\ IF call[t].kind = "free"
       THEN /\ dying' = [dying EXCEPT ![t] = call[t].local]
            /\ call' = [call EXCEPT ![t].at = "replied"]
            /\ UNCHANGED <<tables, failed, promised>>
       ELSE LET d == Attach(Side("worker"), "worker", call[t].local, call[t].size)
                id == d.shadow[call[t].local]
            IN  /\ SetSide("worker", d)
                /\ call' = [call EXCEPT ![t].at = "replied", ![t].id = id]
                /\ promised' = Insert(promised, id,
                       [lifetime |-> call[t].lifetime, obj |-> call[t].obj, thread |-> t])
                /\ UNCHANGED dying

\* The end of the handler: free what was coupled to the deallocated argument.
Deallocate(t) ==
    /\ ~ failed
    /\ dying[t] # None
    /\ SetSide("worker", FreeCoupled(Side("worker"), dying[t]))
    /\ dying' = [dying EXCEPT ![t] = None]
    /\ UNCHANGED <<call, promised>>

\* The guest handles RET: find the buffer to copy to, or free what was coupled.
Return(t) ==
    /\ ~ failed
    /\ call[t].at = "replied"
    /\ \/ /\ call[t].kind = "free"
          /\ SetSide("guest", FreeCoupled(Side("guest"), call[t].arg))
          /\ call' = [call EXCEPT ![t] = Idle]
       \/ /\ call[t].kind # "free"
          /\ \E g \in GetBuffer(Side("guest"), call[t].id, call[t].size,
                                call[t].lifetime, call[t].obj) :
                /\ SetSide("guest", g.d)
                /\ call' = [call EXCEPT ![t].at = "copy", ![t].local = g.local]
    /\ UNCHANGED <<dying, promised>>

\* The data is copied and the call is marked complete.
Complete(t) ==
    /\ ~ failed
    /\ call[t].at = "copy"
    /\ call' = [call EXCEPT ![t] = Idle]
    /\ UNCHANGED <<tables, failed, dying, promised>>

Next ==
    \E t \in Threads :
       \/ \E n \in Sizes, lt \in Lifetimes, o \in Objects \cup {None} :
             \E a \in Addr : PassBuffer(t, a, n, lt, o) \/ FetchBuffer(t, a, n, lt, o)
       \/ \E o \in Objects : FreeObject(t, o)
       \/ \E a \in Addr : FreeBuffer(t, a)
       \/ HandleBuffer(t)
       \/ HandlePlain(t)
       \/ Reply(t)
       \/ Deallocate(t)
       \/ Return(t)
       \/ Complete(t)

Spec == Init /\ [][Next]_vars

-----------------------------------------------------------------------------
\* No assertion of the shadow buffer code fails, and no coupled list holds a
\* record that has been freed when the list is walked (endpoint_lib.c 696-822).
NoAssertionFails == ~ failed

\* The two tables of a side are inverse: a record is found by its id exactly
\* when the metadata of its address points to it.
TablesAgree ==
    \A s \in Sides :
       /\ \A i \in DOMAIN byId[s] : byId[s][i].id = i /\ shadow[s][byId[s][i].local] = i
       /\ \A a \in Addr : shadow[s][a] # None =>
             shadow[s][a] \in DOMAIN byId[s] /\ byId[s][shadow[s][a]].local = a

\* A buffer sent to the worker and back is the caller's own buffer: the RET
\* never makes the guest allocate a copy of, or answer with, another one.
SameBufferComesBack ==
    \A t \in Threads :
       call[t].at = "copy" /\ call[t].kind = "pass" => call[t].local = call[t].arg

\* The block that receives the data of a message is live and large enough.
BlocksLargeEnough ==
    \A t \in Threads :
       /\ call[t].at = "handler" /\ call[t].local \in HeapAddr =>
             heap["worker"][call[t].local] >= call[t].size
       /\ call[t].at = "copy" /\ call[t].local \in HeapAddr =>
             heap["guest"][call[t].local] >= call[t].size

\* Between calls, the shadows in existence on the two sides are exactly those
\* of the buffers whose lifetime lasts: none is leaked, none freed early.
ShadowsMatchLifetimes ==
    (\A t \in Threads : call[t].at = "app" /\ dying[t] = None) =>
       UNION {{i \in DOMAIN byId[s] : byId[s][i].owned} : s \in Sides} = DOMAIN promised
=============================================================================
