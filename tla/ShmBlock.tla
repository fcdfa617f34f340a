------------------------------ MODULE ShmBlock ------------------------------
(***************************************************************************)
(* The parameter block of the shared-memory channel (cmd_channel_shm.c in   *)
(* the guest, cmd_channel_shm_worker.c in the API server).  A command       *)
(* travels over a socket; its buffers are copied into a region of a block   *)
(* both sides map.  The guest reserves regions in the first half, the       *)
(* worker in the second, each by a moving offset that wraps around and      *)
(* takes no notice of the regions still in use.                             *)
(*                                                                          *)
(* Threads make synchronous calls: the guest thread builds a CALL, its      *)
(* shadow at the worker runs it, builds the RET, sends it and then frees    *)
(* the CALL, and the guest thread copies the outputs and frees the RET.     *)
(***************************************************************************)
EXTENDS Integers

CONSTANTS
    Threads,      \* the calling threads, each with its shadow at the worker
    BlockSize,    \* param_block.size
    Header,       \* bytes new_command adds to a data region (0x4)
    DataSizes,    \* sizes of the data of a command; 0: no buffer
    Word,         \* uintptr_t is a number below Word
    GuestOffsets  \* what the guest's cur_offset may hold after malloc

Sides == {"guest", "worker"}
Half == BlockSize \div 2

ASSUME BlockAssumption ==
    /\ BlockSize \in Nat /\ Header \in Nat \ {0} /\ Word \in Nat
    /\ DataSizes \subseteq Nat
    /\ \E s \in DataSizes : \A r \in DataSizes : r <= s
    /\ GuestOffsets \subseteq 0 .. Word - 1
    /\ 2 * BlockSize < Word

(* What the callers must grant for the regions to stay in their halves: no  *)
(* region fills a half, and no first offset is so large that it wraps.      *)
FittingRegions == \A s \in DataSizes : s + Header < Half
FreshBlock == \A g \in GuestOffsets, s \in DataSizes : g + s + Header < Word

VARIABLES
    cur,    \* cur[e]: param_block.cur_offset of side e
    live,   \* live[e]: the commands built by e and not yet freed
    guest,  \* guest[t]: where the calling thread is
    worker  \* worker[t]: where its shadow is

vars == <<cur, live, guest, worker>>

(* A command is a record of its thread thr, its region lo and len, its      *)
(* state st ("built", "sent" or "held"), and how many bytes its side has    *)
(* reserved since (counted up to Half).                                     *)

Init ==
    /\ cur \in {[e \in Sides |-> IF e = "guest" THEN g ELSE Half] : g \in GuestOffsets}
    /\ live = [e \in Sides |-> {}]
    /\ guest = [t \in Threads |-> "app"]
    /\ worker = [t \in Threads |-> "loop"]

-----------------------------------------------------------------------------
(* reserve_param_block, under block_lock.  A definition marked "bug" is a   *)
(* mutated form of the one below it and used by no specification.           *)
WholeBlock(e) == BlockSize         \* bug: the guest does not stop at the half
Limit(e) == IF e = "guest" THEN Half ELSE BlockSize

Start(e) == IF e = "guest" THEN 0 ELSE Half

Reserve(e, c, n) == IF (c + n) % Word >= Limit(e) THEN Start(e) ELSE c

NotAdvanced(lo, n) == lo           \* bug: the offset does not move
Advance(lo, n) == (lo + n) % Word

(* command_channel_shm_new_command.                                         *)
Older(c, n) == [c EXCEPT !.since = IF @ + n < Half THEN @ + n ELSE Half]

NewCommand(e, t, s) ==
    LET n  == s + Header
        lo == Reserve(e, cur[e], n)
        c  == [thr |-> t, lo |-> IF s = 0 THEN 0 ELSE lo, since |-> 0,
               len |-> IF s = 0 THEN 0 ELSE n, st |-> "built"]
    IN
    /\ live' = [live EXCEPT ![e] =
                  {Older(d, IF s = 0 THEN 0 ELSE n) : d \in @} \cup {c}]
    /\ cur' = IF s = 0 THEN cur ELSE [cur EXCEPT ![e] = Advance(lo, n)]

(* The bytes attach_buffer fills and get_buffer points into.                *)
Overlap(c, d) ==
    /\ c.len # 0 /\ d.len # 0
    /\ c.lo + Header < d.lo + d.len
    /\ d.lo + Header < c.lo + c.len

(* attach_buffer for every buffer fills the region, then send_command.      *)
AttachAndSend(e, t) ==
    \E c \in live[e] :
        /\ c.thr = t /\ c.st = "built"
        /\ live' = [live EXCEPT ![e] = (@ \ {c}) \cup {[c EXCEPT !.st = "sent"]}]
        /\ UNCHANGED cur

Receive(e, t) ==
    \E c \in live[e] :
        /\ c.thr = t /\ c.st = "sent"
        /\ live' = [live EXCEPT ![e] = (@ \ {c}) \cup {[c EXCEPT !.st = "held"]}]
        /\ UNCHANGED cur

FreeCommand(e, t) ==
    \E c \in live[e] :
        /\ c.thr = t /\ c.st = "held"
        /\ live' = [live EXCEPT ![e] = @ \ {c}]
        /\ UNCHANGED cur

-----------------------------------------------------------------------------
(* One synchronous call of thread t, at the guest ...                       *)
GuestStep(t, from, to) == guest[t] = from /\ guest' = [guest EXCEPT ![t] = to]
WorkerStep(t, from, to) == worker[t] = from /\ worker' = [worker EXCEPT ![t] = to]

BuildCall(t, s) == GuestStep(t, "app", "built") /\ NewCommand("guest", t, s) /\ UNCHANGED worker
SendCall(t) == GuestStep(t, "built", "waiting") /\ AttachAndSend("guest", t) /\ UNCHANGED worker
HandleRet(t) == GuestStep(t, "waiting", "reading") /\ Receive("worker", t) /\ UNCHANGED worker
FreeRet(t) == GuestStep(t, "reading", "app") /\ FreeCommand("worker", t) /\ UNCHANGED worker

(* ... and in its shadow at the worker.                                     *)
HandleCall(t) == WorkerStep(t, "loop", "exec") /\ Receive("guest", t) /\ UNCHANGED guest
BuildRet(t, s) == WorkerStep(t, "exec", "built") /\ NewCommand("worker", t, s) /\ UNCHANGED guest
SendRet(t) == WorkerStep(t, "built", "replied") /\ AttachAndSend("worker", t) /\ UNCHANGED guest
FreeCall(t) == WorkerStep(t, "replied", "loop") /\ FreeCommand("guest", t) /\ UNCHANGED guest

Next ==
    \E t \in Threads :
        \/ SendCall(t) \/ HandleRet(t) \/ FreeRet(t)
        \/ HandleCall(t) \/ SendRet(t) \/ FreeCall(t)
        \/ \E s \in DataSizes : BuildCall(t, s) \/ BuildRet(t, s)

Spec == Init /\ [][Next]_vars

-----------------------------------------------------------------------------

(* Every region lies in the half of its side: "Guestlib->worker             *)
(* communication uses the first half of the space, and the reverse          *)
(* communication uses the second half" (reserve_param_block).               *)
RegionsInHalf ==
    /\ \A c \in live["guest"] : c.len # 0 => c.lo + c.len <= Half
    /\ \A c \in live["worker"] : c.len # 0 => Half <= c.lo /\ c.lo + c.len <= BlockSize

(* get_buffer promises that a pointer "will be valid until                  *)
(* command_channel_free_command"; the allocator keeps the promise for one   *)
(* lap of the half.  Two commands in use share bytes only if the regions    *)
(* reserved after one of them, with its own and with one that did not fit   *)
(* before the wrap, do not all fit in the half.                             *)
Largest == CHOOSE s \in DataSizes : \A r \in DataSizes : r <= s
ValidForALap ==
    \A e \in Sides : \A c, d \in live[e] :
        c # d /\ Overlap(c, d) /\ d.since <= c.since =>
            c.since + c.len + Largest + Header > Half
=============================================================================
