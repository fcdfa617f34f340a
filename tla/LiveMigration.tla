--------------------------- MODULE LiveMigration ---------------------------
(***************************************************************************)
(* Live migration (COMMAND_START_LIVE_MIGRATION in cmd_handler.c): a worker *)
(* started with "migrate" accepts a TCP connection, and one shadow thread   *)
(* of the source walks over the metadata of its live objects and sends the  *)
(* recorded calls in pairs, while its other shadow threads go on serving    *)
(* the guest.  The target replays every pair as it arrives.                 *)
(*                                                                          *)
(* The source is RecordReplay, whose actions are those of its threads.  The *)
(* commands of the migration carry thread id 0, so one shadow thread of the *)
(* target handles them in the order sent; the queue it takes them from is   *)
(* part of wire, as the end of the process discards both.                   *)
(***************************************************************************)
EXTENDS RecordReplay

CONSTANTS
    Capacity,       \* bound: commands in the buffers between source and target
    MaxDuring,      \* bound: calls that begin while the handler is at work
    QuietTraverse   \* TRUE: no object is destroyed while the metadata is walked

ASSUME LiveAssumption ==
    /\ {Capacity, MaxDuring} \subseteq Nat \ {0}
    /\ QuietTraverse \in BOOLEAN

TargetHandles == 1 .. MaxObjects

VARIABLES
    lm,         \* the handler of the live migration: where it is, what it has collected
    wire,       \* commands sent to the target and not yet handled
    target,     \* the target worker: its state and what Replayed works on
    source      \* "up", or "ended" when the process of the source has ended

liveVars == <<lm, wire, target, source>>
allVars == <<vars, liveVars>>

NoTarget ==
    [st |-> "off", native |-> [h \in TargetHandles |-> 0], counter |-> FirstId,
     to_id |-> [h \in TargetHandles |-> NoId], to_handle |-> [d \in Ids |-> Null],
     log |-> <<>>, calls |-> [h \in TargetHandles \cup {Null} |-> <<>>],
     deps |-> [h \in TargetHandles |-> {}], failed |-> "none", stopped |-> NoId]

(* held and len are history: what the guest held, and how much was recorded *)
(* when the handler took the live handles.                                  *)
NotStarted ==
    [pc |-> "none", todo |-> {}, seen |-> {}, offs |-> {}, during |-> 0,
     held |-> [d \in Ids |-> 0], len |-> 0]

LiveInit ==
    /\ Init
    /\ lm = NotStarted
    /\ wire = <<>>
    /\ target = NoTarget
    /\ source = "up"

Up == source = "up" /\ Running
Live(t) == Up /\ run[t].op = "live"

-----------------------------------------------------------------------------
(* A send on the migration socket, which blocks while the buffers are full. *)
(* Towards a target that has ended it may still succeed, until the          *)
(* connection is known to be reset; then send_socket ends the process.      *)
SendNoWait(m) ==                   \* bug: MSG_DONTWAIT, what does not fit is lost
    /\ target.st = "up"
    /\ wire' = IF Len(wire) < Capacity THEN Append(wire, m) ELSE wire
    /\ UNCHANGED source
Send(m) ==
    \/ /\ target.st = "up" /\ Len(wire) < Capacity
       /\ wire' = Append(wire, m)
       /\ UNCHANGED source
    \/ /\ target.st = "ended"
       /\ source' \in {"up", "ended"}
       /\ UNCHANGED wire

(* The guest's command: connect, ACCEPT_LIVE_MIGRATION, and the live        *)
(* handles, taken under the lock of the pool.  The result of connect is not *)
(* looked at: without a listening target the first send ends the source.    *)
StartLive(t) ==
    /\ Up /\ Free(t)
    /\ lm.pc = "none"
    /\ \/ /\ target' = [target EXCEPT !.st = "up"]
          /\ wire' = <<[cmd |-> "accept"]>>
          /\ lm' = [NotStarted EXCEPT !.pc = "traverse", !.todo = LiveHandles,
                                      !.held = held, !.len = Len(log)]
          /\ run' = [run EXCEPT ![t] = [op |-> "live", uses |-> NoId]]
          /\ UNCHANGED source
       \/ /\ source' = "ended"
          /\ UNCHANGED <<target, wire, lm, run>>
    /\ UNCHANGED <<native, made, pool, log, calls, deps, held, parent, issued, migrations, failed>>

(* One call of _ava_extract_traverse, for NULL first.  It takes no lock.    *)
(* The handles left are visited in any order: that of a hash table, with    *)
(* the dependencies of a handle among them.                                 *)
Dependencies(h) == IF h = Null THEN {} ELSE deps[h]

Traverse(t) ==
    /\ Live(t)
    /\ lm.pc = "traverse"
    /\ \E h \in IF Null \in lm.seen THEN lm.todo ELSE {Null} :
          LET left == (lm.todo \cup Dependencies(h)) \ (lm.seen \cup {h}) IN
          lm' = [lm EXCEPT !.seen = @ \cup {h}, !.todo = left,
                           !.offs = @ \cup Range(calls[h]),
                           !.pc = IF left = {} THEN "send" ELSE "traverse"]
    /\ UNCHANGED <<vars, wire, target, source>>

(* _ava_transfer_command_in_pair, for the offsets in the order of the log.  *)
(* What the flags say is read now, not when the offset was collected.       *)
BeingDestroyed(d) ==
    LET ts == {t \in Threads : Destroying(t) /\ run[t].id = d}
    IN  IF ts = {} THEN 0 ELSE run[CHOOSE t \in ts : TRUE].obj

Pair(k) ==
    LET d == log[k].id IN
    [cmd |-> "pair",
     obj |-> IF Named(d) # 0 THEN Named(d) ELSE BeingDestroyed(d),
     e   |-> [op |-> log[k].op, id |-> d, par |-> log[k].par, at |-> k]]

SendsAll(k) == TRUE                \* bug: the flags are not looked at
Transferred(k) == log[k].flag # 1

SendPair(t) ==
    /\ Live(t)
    /\ lm.pc = "send"
    /\ \E k \in lm.offs :
          /\ \A j \in lm.offs \ {k} : LogOrder(k, j)
          /\ lm' = [lm EXCEPT !.offs = @ \ {k}]
          /\ IF Transferred(k) THEN Send(Pair(k)) ELSE UNCHANGED <<wire, source>>
    /\ UNCHANGED <<vars, target>>

(* Loading a pair is an access to the log file as recording and expunging   *)
(* are, and holds no lock.                                                  *)
Loading(t) == Live(t) /\ lm.pc = "send" /\ lm.offs # {}

SourceLogRace ==
    /\ source = "up"
    /\ OffsetMoved({t \in Threads : AtLog(t) \/ Loading(t)})
    /\ UNCHANGED liveVars

(* END_LIVE_MIGRATION to the target, END_MIGRATION to the guest.            *)
EndLive(t) ==
    /\ Live(t)
    /\ lm.pc = "send" /\ lm.offs = {}
    /\ Send([cmd |-> "end"])
    /\ lm' = [lm EXCEPT !.pc = "over", !.seen = {}, !.during = MaxDuring]
    /\ run' = [run EXCEPT ![t] = Idle]
    /\ UNCHANGED <<native, made, pool, log, calls, deps, held, parent, issued, migrations, failed, target>>

(* The guest's process ends, and the source with it, before the target has  *)
(* handled the last command.  (An earlier end stops the target as a fault   *)
(* of its own does, see TargetEnds.)                                        *)
SourceEnds ==
    /\ Up /\ lm.pc = "over" /\ wire # <<>>
    /\ source' = "ended"
    /\ UNCHANGED <<vars, lm, wire, target>>

-----------------------------------------------------------------------------
(* The handles of the target are never freed, so which values the native    *)
(* library takes makes no difference.                                       *)
NextTargetHandle ==
    CHOOSE h \in TargetHandles :
        target.native[h] = 0 /\ \A k \in TargetHandles : k < h => target.native[k] # 0

(* The target handles one command; a pair is replayed into its only pool.   *)
TargetHandle ==
    LET m == Head(wire) IN
    /\ target.st = "up" /\ target.failed = "none"
    /\ wire # <<>>
    /\ wire' = Tail(wire)
    /\ \/ /\ m.cmd = "accept"
          /\ UNCHANGED target
       \/ /\ m.cmd = "pair"
          /\ target' = Replayed(target, m.e, NextTargetHandle, m.obj)
       \/ /\ m.cmd = "end"
          /\ target' = [target EXCEPT !.st = "done"]
    /\ UNCHANGED <<vars, lm, source>>

(* The target ends before it is done: by a fault, or, when the source has   *)
(* ended, because the receiving thread sees POLLRDHUP before it reads on.   *)
TargetEnds ==
    /\ target.st = "up"
    /\ target' = [NoTarget EXCEPT !.st = "ended"]
    /\ wire' = <<>>
    /\ UNCHANGED <<vars, lm, source>>

(* The threads of the source that serve the guest: a call begins, or one    *)
(* that has begun goes on.  The migration does not stop either.  A bound:   *)
(* there is no query, which changes neither pool nor log, and no global     *)
(* call, whose replay needs no object; self migration is left to            *)
(* RecordReplay.                                                            *)
Begin(t) ==
    /\ Up
    /\ \/ \E p \in Ids \cup {NoId} : Create(t, p)
       \/ \E d \in Ids : Configure(t, d)
       \/ /\ QuietTraverse => lm.pc # "traverse"
          /\ \E d \in Ids : DerefAndRemove(t, d)
    /\ lm.during < MaxDuring
    /\ lm' = IF lm.pc = "none" THEN lm ELSE [lm EXCEPT !.during = @ + 1]
    /\ UNCHANGED <<wire, target, source>>

Continue(t) ==
    /\ Up
    /\ Insert(t) \/ RecordAndReply(t) \/ NativeFree(t) \/ Expunge(t)
    /\ UNCHANGED liveVars

LiveNext ==
    \/ \E t \in Threads :
          \/ Begin(t) \/ Continue(t)
          \/ StartLive(t) \/ Traverse(t) \/ SendPair(t) \/ EndLive(t)
    \/ SourceLogRace
    \/ SourceEnds
    \/ TargetHandle
    \/ TargetEnds

LiveSpec == LiveInit /\ [][LiveNext]_allVars

-----------------------------------------------------------------------------
(* No assertion of a handle pool fails at the source, and the target stops  *)
(* in its replay (assert(handle != NULL) in nw_handle_pool_deref) only at a *)
(* call of an object that the guest destroyed beside the migration, whose   *)
(* creating call was expunged when it was loaded and the later one not yet. *)
(* Only overlapping accesses to the log file stop the source.               *)
ReplaySucceeds ==
    /\ PoolAssertionsHold
    /\ target.failed # "none" =>
          /\ target.failed = NoSuchId
          /\ target.stopped \in issued /\ held[target.stopped] = 0

(* When the target has handled END_LIVE_MIGRATION, every object the guest   *)
(* held at the start and still holds is there under its id, with all the    *)
(* calls recorded for it until then, replayed once and in their order.      *)
(* Calls of other threads, begun before or during the migration, do not     *)
(* change that as long as no two accesses to the log file overlap           *)
(* (SourceLogRace stops the source) and nothing is destroyed while the      *)
(* metadata is walked (QuietTraverse).                                      *)
TargetMatchesSource ==
    target.st = "done" =>
        /\ \A i, j \in DOMAIN target.log : i < j => target.log[i].at < target.log[j].at
        /\ \A d \in Ids : lm.held[d] # 0 /\ held[d] = lm.held[d] =>
              LET replayed == {e \in Range(target.log) : e.id = d} IN
              /\ target.to_handle[d] # Null
              /\ target.native[target.to_handle[d]] = held[d]
              /\ {k \in 1 .. lm.len : log[k].id = d} \subseteq {e.at : e \in replayed}

(* An object whose destruction is complete is not sent: what exists at the  *)
(* target is an object the guest held, or was destroying, when its creating *)
(* call was loaded from the log (_ava_transfer_command_in_pair).            *)
NothingDeadMigrates ==
    \A h \in TargetHandles : target.native[h] <= MaxObjects
=============================================================================
