---------------------------- MODULE RecordReplay ----------------------------
(***************************************************************************)
(* Objects at the API server: the handle pool that gives the guest an id    *)
(* for every native handle (endpoint_lib.c), the record log of the calls    *)
(* that created and configured them (cmd_channel_record.c, with the code    *)
(* callee.py generates), and the migration that replays that log into a new *)
(* pool (COMMAND_START_MIGRATION in cmd_handler.c).                         *)
(*                                                                          *)
(* The guest is well behaved: it names only objects it holds and does not   *)
(* use an object while another thread destroys it.  A log entry stands for  *)
(* the recorded CALL and RET of one call, its offset is its position.       *)
(*                                                                          *)
(* An access to the log file is one step, as it is when no other access     *)
(* overlaps with it (LogFile).  The file offset is shared and nothing keeps *)
(* the accesses apart, so two threads that have reached the file may also   *)
(* overlap: OffsetMoved, after which the content of the log is unknown.     *)
(***************************************************************************)
EXTENDS Integers, Sequences, FiniteSets, SequencesExt

CONSTANTS
    Threads,        \* shadow threads of the API server
    Handles,        \* values the native library uses for its objects
    Null,           \* the NULL handle: calls recorded for no object
    IdSpan,         \* ids have this many values (2^36 counter values in the code)
    PrefixBits,     \* what is left of the id prefix in update_next_id (0xf << 36)
    MaxObjects,     \* bound: objects created by the guest
    MaxLog,         \* bound: no further configuring calls beyond this log length
    MaxMigrations,  \* bound: migrations
    Globals,        \* TRUE: the API has functions recorded for no object
    Children,       \* TRUE: an object may depend on a parent object
    OrphanedChildren, \* TRUE: a parent may be destroyed before its children
    ExplicitState,  \* TRUE: objects have extract and replace functions
    QuietDestroy    \* TRUE: no object is created while another is being destroyed

FirstId == 1
NoId == 0
Ids == 1 .. IdSpan - 1

ASSUME RecordAssumption ==
    /\ Null \notin Handles
    /\ IdSpan \in Nat /\ PrefixBits \in Nat /\ PrefixBits % IdSpan = 0
    /\ MaxObjects \in Nat /\ MaxLog \in Nat /\ MaxMigrations \in Nat
    /\ {Globals, Children, OrphanedChildren, ExplicitState, QuietDestroy} \subseteq BOOLEAN

VARIABLES
    native,     \* native[h]: the object with handle h in the library, or 0
    made,       \* number of objects the guest has created
    counter,    \* global_counter
    to_id,      \* to_id[h]: the id of handle h in the pool, or NoId
    to_handle,  \* to_handle[d]: the handle of id d in the pool, or Null
    log,        \* the record log
    calls,      \* calls[h]: recorded_calls in the metadata of h
    deps,       \* deps[h]: dependencies in the metadata of h
    held,       \* held[d]: the object the guest names by id d, or 0
    parent,     \* parent[o]: the object o was created from, or 0
    run,        \* run[t]: the call thread t is executing
    issued,     \* ids ever given to the guest
    migrations, \* number of migrations done
    failed      \* the assertion or fault that stopped the server, or "none"

pool == <<counter, to_id, to_handle>>
vars == <<native, made, counter, to_id, to_handle, log, calls, deps, held,
          parent, run, issued, migrations, failed>>

Objects == 1 .. MaxObjects
Idle == [op |-> "idle"]
Running == failed = "none"
Free(t) == Running /\ run[t] = Idle

Init ==
    /\ native = [h \in Handles |-> 0]
    /\ made = 0
    /\ counter = FirstId
    /\ to_id = [h \in Handles |-> NoId]
    /\ to_handle = [d \in Ids |-> Null]
    /\ log = <<>>
    /\ calls = [h \in Handles \cup {Null} |-> <<>>]
    /\ deps = [h \in Handles |-> {}]
    /\ held = [d \in Ids |-> 0]
    /\ parent = [o \in Objects |-> 0]
    /\ run = [t \in Threads |-> Idle]
    /\ issued = {}
    /\ migrations = 0
    /\ failed = "none"

-----------------------------------------------------------------------------
(* next_id and update_next_id.  The shift by the tag width moves the id     *)
(* prefix down, so the mask that should remove it leaves PrefixBits.  A     *)
(* definition marked "bug" is a mutated form of the one below it.           *)
IdOf(c) == c % IdSpan

Bumped(c) == c + 1

UpdatedCounter(c, d) == LET v == PrefixBits + d + 1 IN IF c < v THEN v ELSE c

(* The log entry of a call and its flags (command_channel_log_update_flags).*)
Entry(op, d, p) == [op |-> op, id |-> d, par |-> p, flag |-> 0]

ExpungeNone(l, ks) == l            \* bug: destroyed objects stay in the log
Expunged(l, ks) ==
    [k \in DOMAIN l |-> IF k \in ks THEN [l[k] EXCEPT !.flag = 1] ELSE l[k]]

(* ava_add_recorded_call for a call recorded for handle h (Null: global).   *)
RecordForNone(c, h, k) == [c EXCEPT ![Null] = Append(@, k)]  \* bug: wrong key
Recorded(c, h, k) == [c EXCEPT ![h] = Append(@, k)]

(* g_hash_table_remove on to_id, and the order in which calls are replayed. *)
Unlinked(ti, h) == [ti EXCEPT ![h] = NoId]

NewestFirst(j, k) == j > k         \* bug: reversed comparison
LogOrder(j, k) == j < k            \* _ava_order_by_a

LogRace == "log: file offset moved by another thread"
NoSuchId == "deref: no such id"

-----------------------------------------------------------------------------
(* A call that creates an object, possibly from a parent.  The native       *)
(* library may reuse the handle of any object that is gone.                 *)
Create(t, p) ==
    /\ Free(t)
    /\ made < MaxObjects
    /\ QuietDestroy => \A u \in Threads : run[u].op \notin {"free", "expunge"}
    /\ p # NoId => Children /\ held[p] # 0
    /\ \E h \in {x \in Handles : native[x] = 0} :
          /\ native' = [native EXCEPT ![h] = made + 1]
          /\ run' = [run EXCEPT ![t] =
                [op |-> "insert", h |-> h, obj |-> made + 1, id |-> NoId, par |-> p,
                 uses |-> p, call |-> "create", next |-> "record"]]
    /\ made' = made + 1
    /\ parent' = [parent EXCEPT ![made + 1] = IF p = NoId THEN 0 ELSE held[p]]
    /\ UNCHANGED <<pool, log, calls, deps, held, issued, migrations, failed>>

(* A call that returns an object the guest already holds.                   *)
Query(t, d) ==
    /\ Free(t)
    /\ held[d] # 0
    /\ run' = [run EXCEPT ![t] =
          [op |-> "insert", h |-> to_handle[d], obj |-> held[d], id |-> NoId, par |-> NoId,
           uses |-> d, call |-> "query", next |-> "reply"]]
    /\ UNCHANGED <<native, made, pool, log, calls, deps, held, parent, issued, migrations, failed>>

(* nw_handle_pool_lookup_or_insert, under the pool lock.                    *)
Insert(t) ==
    LET h == run[t].h
        d == IdOf(counter)
    IN
    /\ Running
    /\ run[t].op = "insert"
    /\ \/ /\ to_id[h] # NoId
          /\ run' = [run EXCEPT ![t].op = run[t].next, ![t].id = to_id[h]]
          /\ UNCHANGED <<pool, failed>>
       \/ /\ to_id[h] = NoId /\ to_handle[d] = Null
          /\ counter' = Bumped(counter)
          /\ to_id' = [to_id EXCEPT ![h] = d]
          /\ to_handle' = [to_handle EXCEPT ![d] = h]
          /\ run' = [run EXCEPT ![t].op = run[t].next, ![t].id = d]
          /\ UNCHANGED failed
       \/ /\ to_id[h] = NoId /\ to_handle[d] # Null
          /\ failed' = "insert: id already exists"
          /\ UNCHANGED <<pool, run>>
    /\ UNCHANGED <<native, made, log, calls, deps, held, parent, issued, migrations>>

(* A call that configures an object, and one recorded for no object.        *)
Configure(t, d) ==
    /\ Free(t)
    /\ held[d] # 0
    /\ Len(log) < MaxLog
    /\ run' = [run EXCEPT ![t] =
          [op |-> "record", h |-> to_handle[d], obj |-> held[d], id |-> d, par |-> NoId,
           uses |-> d, call |-> "config"]]
    /\ UNCHANGED <<native, made, pool, log, calls, deps, held, parent, issued, migrations, failed>>

GlobalCall(t) ==
    /\ Free(t)
    /\ Globals
    /\ Len(log) < MaxLog
    /\ run' = [run EXCEPT ![t] =
          [op |-> "record", h |-> Null, obj |-> 0, id |-> NoId, par |-> NoId,
           uses |-> NoId, call |-> "global"]]
    /\ UNCHANGED <<native, made, pool, log, calls, deps, held, parent, issued, migrations, failed>>

(* ava_expunge_recorded_calls holds metadata_map_mutex from its first flag  *)
(* to its last.                                                             *)
MetadataLocked(t) == \E u \in Threads \ {t} : run[u].op = "expunge" /\ run[u].at > 1

(* record_argument_metadata: the CALL and the RET go to the log, and their  *)
(* offsets to the metadata.  Then the RET tells the guest the id.           *)
RecordAndReply(t) ==
    LET r == run[t] IN
    /\ Running
    /\ r.op = "record" /\ ~MetadataLocked(t)
    /\ log' = Append(log, Entry(r.call, r.id, r.par))
    /\ calls' = Recorded(calls, r.h, Len(log) + 1)
    /\ deps' = IF r.par = NoId THEN deps
               ELSE [deps EXCEPT ![r.h] = @ \cup {to_handle[r.par]}]
    /\ IF r.id = NoId THEN UNCHANGED <<held, issued>>
       ELSE /\ held' = [held EXCEPT ![r.id] = r.obj]
            /\ issued' = issued \cup {r.id}
    /\ run' = [run EXCEPT ![t] = Idle]
    /\ UNCHANGED <<native, made, pool, parent, migrations, failed>>

Reply(t) ==
    /\ Running
    /\ run[t].op = "reply"
    /\ held' = [held EXCEPT ![run[t].id] = run[t].obj]
    /\ issued' = issued \cup {run[t].id}
    /\ run' = [run EXCEPT ![t] = Idle]
    /\ UNCHANGED <<native, made, pool, log, calls, deps, parent, migrations, failed>>

(* A call that destroys an object: deref_and_remove while the arguments are *)
(* unpacked, then the native function, then ava_expunge_recorded_calls.     *)
Destroying(t) == run[t].op \in {"free", "expunge"}
HasChildren(o) ==
    \/ \E d \in Ids : held[d] # 0 /\ parent[held[d]] = o
    \/ \E t \in Threads : Destroying(t) /\ parent[run[t].obj] = o
InUse(d) == \E t \in Threads : run[t] # Idle /\ run[t].uses = d

DerefAndRemove(t, d) ==
    LET h == to_handle[d] IN
    /\ Free(t)
    /\ held[d] # 0 /\ ~InUse(d)
    /\ OrphanedChildren \/ ~HasChildren(held[d])
    /\ held' = [held EXCEPT ![d] = 0]
    /\ to_handle' = [to_handle EXCEPT ![d] = Null]
    /\ IF h # Null /\ to_id[h] # NoId
       THEN /\ to_id' = Unlinked(to_id, h)
            /\ run' = [run EXCEPT ![t] =
                  [op |-> "free", h |-> h, obj |-> held[d], id |-> d, uses |-> NoId, at |-> 1]]
            /\ UNCHANGED failed
       ELSE /\ failed' = "remove: handle not in the pool"
            /\ UNCHANGED <<to_id, run>>
    /\ UNCHANGED <<native, made, counter, log, calls, deps, parent, issued, migrations>>

NativeFree(t) ==
    /\ Running
    /\ run[t].op = "free"
    /\ native' = [native EXCEPT ![run[t].h] = 0]
    /\ run' = [run EXCEPT ![t].op = "expunge"]
    /\ UNCHANGED <<made, pool, log, calls, deps, held, parent, issued, migrations, failed>>

Expunge(t) ==                      \* the flags of one recorded call
    LET ks == calls[run[t].h]
        i  == run[t].at
    IN
    /\ Running
    /\ run[t].op = "expunge" /\ ~MetadataLocked(t)
    /\ log' = IF i \in DOMAIN ks THEN Expunged(log, {ks[i]}) ELSE log
    /\ run' = [run EXCEPT ![t] = IF i < Len(ks) THEN [@ EXCEPT !.at = i + 1] ELSE Idle]
    /\ UNCHANGED <<native, made, pool, calls, deps, held, parent, issued, migrations, failed>>

(* Two of the threads ts are at the log file, not both under the mutex, and *)
(* one moves the file offset between the other's lseek and read or write.   *)
AtLog(t) == run[t].op \in {"record", "expunge"}

OffsetMoved(ts) ==
    /\ Running
    /\ \E t, u \in ts : t # u /\ {run[t].op, run[u].op} # {"expunge"}
    /\ failed' = LogRace
    /\ UNCHANGED <<native, made, pool, log, calls, deps, held, parent, run, issued, migrations>>

-----------------------------------------------------------------------------
(* COMMAND_START_MIGRATION.  Extraction: the calls recorded for NULL, for   *)
(* every live handle and for what these depend on, in log order and without *)
(* the expunged ones.                                                       *)
LiveHandles == {h \in Handles : to_id[h] # NoId}

NoneCaptured(roots) == {}          \* bug: the live handles are no roots
Captured(roots) ==
    LET reach[n \in 0 .. Cardinality(Handles)] ==
            IF n = 0 THEN roots
            ELSE reach[n - 1] \cup UNION {deps[h] : h \in reach[n - 1]}
    IN  reach[Cardinality(Handles)]

Offsets(roots) == UNION {Range(calls[h]) : h \in Captured(roots) \cup {Null}}
InLogOrder(ks) == SetToSortSeq(ks, LogOrder)
Extracted ==
    LET ks == InLogOrder({k \in Offsets(LiveHandles) : log[k].flag # 1})
    IN  [j \in DOMAIN ks |-> log[ks[j]]]

(* nw_handle_pool_assign_handle, when the id is not yet in the pool.        *)
Assigned(s, d, h) ==
    [s EXCEPT !.counter = UpdatedCounter(@, d), !.to_id[h] = d, !.to_handle[d] = h]

(* Replay of one entry into state s of a pool, log and metadata; h is the   *)
(* handle the native library returns when the call creates an object, and o *)
(* that object (0: one the guest has destroyed).  A replayed call is        *)
(* recorded again, but with __cmd naming its RET, which no replay accepts.  *)
Replayed(s, e, h, o) ==
    LET k == Len(s.log) + 1
        again == Append(s.log, [e EXCEPT !.op = "ret"])
        created ==
            [Assigned(s, e.id, h) EXCEPT
                      !.native[h] = IF o # 0 THEN o ELSE MaxObjects + 1,
                      !.log = again,
                      !.calls = Recorded(@, h, k),
                      !.deps[h] = IF e.par = NoId THEN @ ELSE @ \cup {s.to_handle[e.par]}]
    IN  CASE s.failed # "none" -> s
          [] e.op = "ret" -> [s EXCEPT !.failed = "replay: unsupported command"]
          [] e.op = "global" ->
                [s EXCEPT !.log = again, !.calls = Recorded(@, Null, k)]
          [] e.op = "config" /\ s.to_handle[e.id] # Null ->
                [s EXCEPT !.log = again, !.calls = Recorded(@, s.to_handle[e.id], k)]
          [] e.op = "config" /\ s.to_handle[e.id] = Null ->
                [s EXCEPT !.failed = NoSuchId, !.stopped = e.id]
          [] e.op = "create" /\ e.par # NoId /\ s.to_handle[e.par] = Null ->
                [s EXCEPT !.failed = NoSuchId, !.stopped = e.id]
          [] e.op = "create" /\ s.to_handle[e.id] # Null ->
                [s EXCEPT !.failed = "assign: id has another handle"]
          [] OTHER -> created

(* After the calls, REPLACE_EXPLICIT_STATE for every captured object: the   *)
(* command is freed by handle_command and again by the replay loop.         *)
ExplicitReplaced(s) ==
    IF s.failed = "none" /\ ExplicitState /\ LiveHandles # {}
    THEN [s EXCEPT !.failed = "double free of a command"] ELSE s

Named(d) == IF d = NoId THEN 0 ELSE held[d]

Migrate(t) ==
    LET es == Extracted
        n  == Len(es)
        s0 == [native |-> native, counter |-> counter,
               to_id |-> [h \in Handles |-> NoId], to_handle |-> [d \in Ids |-> Null],
               log |-> <<>>, calls |-> calls, deps |-> deps, failed |-> "none",
               stopped |-> NoId]
    IN
    /\ \A u \in Threads : Free(u)
    /\ migrations < MaxMigrations
    /\ migrations' = migrations + 1
    /\ IF \E k \in Offsets(LiveHandles) : k > Len(log)
       THEN /\ failed' = "load: no command at this offset"
            /\ UNCHANGED <<native, pool, log, calls, deps>>
       ELSE \E hs \in Injection({j \in 1 .. n : es[j].op = "create"},
                                {h \in Handles : native[h] = 0}) :
            LET s == ExplicitReplaced(
                        FoldLeft(LAMBDA acc, j : Replayed(acc, es[j], hs[j], Named(es[j].id)),
                                 s0, [j \in 1 .. n |-> j]))
            IN
            /\ native' = s.native /\ counter' = s.counter
            /\ to_id' = s.to_id /\ to_handle' = s.to_handle
            /\ log' = s.log /\ calls' = s.calls /\ deps' = s.deps
            /\ failed' = s.failed
    /\ UNCHANGED <<made, held, parent, run, issued>>

Next ==
    \/ \E t \in Threads :
          \/ \E p \in Ids \cup {NoId} : Create(t, p)
          \/ Insert(t)
          \/ RecordAndReply(t)
          \/ Reply(t)
          \/ \E d \in Ids : Query(t, d) \/ Configure(t, d) \/ DerefAndRemove(t, d)
          \/ GlobalCall(t)
          \/ NativeFree(t)
          \/ Expunge(t)
          \/ Migrate(t)
    \/ OffsetMoved({t \in Threads : AtLog(t)})

Spec == Init /\ [][Next]_vars

-----------------------------------------------------------------------------

(* No assertion of the handle pool fails, no command is freed twice, and a  *)
(* self migration replays its log to the end.  The one thing that stops the *)
(* server is an overlap of two accesses to the log file (OffsetMoved).      *)
PoolAssertionsHold == failed \in {"none", LogRace}

(* An id the guest holds denotes its object, across destruction of others,  *)
(* reuse of native handles and migration (nw_handle_pool_deref).            *)
IdsDenoteTheirObject ==
    Running => \A d \in Ids : held[d] # 0 =>
        to_handle[d] # Null /\ native[to_handle[d]] = held[d]

(* Until a migration, every object the guest holds can be recreated: the    *)
(* call that created it is in the log, not expunged, and recorded for its   *)
(* handle (lapis.md on ava_object_record: "This call will be replayed ...   *)
(* to recreate the value").                                                 *)
LiveObjectsReplayable ==
    Running /\ migrations = 0 => \A d \in Ids : held[d] # 0 =>
        \E k \in Range(calls[to_handle[d]]) :
            k <= Len(log) /\ log[k].op = "create" /\ log[k].id = d /\ log[k].flag = 0

(* The calls of destroyed objects are not replayed: an object that exists   *)
(* after a migration is one the guest holds.                                *)
NothingResurrected == \A h \in Handles : native[h] <= MaxObjects
=============================================================================
