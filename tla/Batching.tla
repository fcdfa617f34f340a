------------------------------ MODULE Batching ------------------------------
(***************************************************************************)
(* Command batching (extensions/cmd_batching.c in guestlib and worker).     *)
(* The stubs of an API with batching give their commands to one batch       *)
(* thread, which sends them to the API server in batches: when a            *)
(* synchronous command comes, when the batch is full, or after a while.  It *)
(* sends everything under its own thread id, so one shadow thread executes  *)
(* all commands; the RET of a synchronous one goes to its original thread.  *)
(*                                                                          *)
(* The shadow takes batches and single commands from one queue and executes *)
(* them one by one, so the queue is kept as the sequence of its commands.   *)
(***************************************************************************)
EXTENDS Integers, Sequences

CONSTANTS
    Threads,     \* application threads
    MaxCalls,    \* bound: calls of all threads together
    BatchSize,   \* BATCH_SIZE
    TimeOut,     \* elapsed time at which a batch is sent, in pop timeouts
    MayFinish    \* TRUE: cmd_batch_thread_fini may be called

ASSUME BatchAssumption ==
    /\ MaxCalls \in Nat
    /\ BatchSize \in Nat \ {0}
    /\ TimeOut \in Nat \ {0}
    /\ MayFinish \in BOOLEAN

VARIABLES
    inserted,  \* the commands given to batch_insert_command, in order
    pending,   \* cmd_batch->pending_cmds
    wrap,      \* the command popped and not yet processed: <<>> or <<c>>
    active,    \* cmd_batch->active_cmds
    queue,     \* commands sent and not yet executed by the shadow
    executed,  \* commands executed, in order
    rets,      \* RETs on their way to the guest
    waiting,   \* waiting[t]: the command whose RET thread t waits for, or 0
    elapsed,   \* the timer, in pop timeouts
    pc         \* "pop", "process", or "ended" after fini

vars == <<inserted, pending, wrap, active, queue, executed, rets, waiting, elapsed, pc>>
batch == <<pending, wrap, active, elapsed, pc>>

Init ==
    /\ inserted = <<>> /\ pending = <<>> /\ wrap = <<>> /\ active = <<>>
    /\ queue = <<>> /\ executed = <<>>
    /\ rets = {}
    /\ waiting = [t \in Threads |-> 0]
    /\ elapsed = 0
    /\ pc = "pop"

-----------------------------------------------------------------------------
(* A stub with the batching send_code: the command goes to the batch, and a *)
(* synchronous caller waits for its RET.  fini runs in the library's        *)
(* destructor: no call follows it.  A definition marked "bug" is a mutated  *)
(* form of the one below it and used by no specification.                   *)
NoWait(w, c) == w                  \* bug: the stub returns at once
Waits(w, c) == IF c.async THEN w ELSE [w EXCEPT ![c.thr] = c.n]

InsertCommand(t, async) ==
    LET c == [thr |-> t, n |-> Len(inserted) + 1, async |-> async] IN
    /\ waiting[t] = 0 /\ pc # "ended"
    /\ Len(inserted) < MaxCalls
    /\ inserted' = Append(inserted, c)
    /\ pending' = Append(pending, c)
    /\ waiting' = Waits(waiting, c)
    /\ UNCHANGED <<wrap, active, queue, executed, rets, elapsed, pc>>

(* The batch thread pops a command, or its wait times out.                  *)
Later(e) == IF e < TimeOut THEN e + 1 ELSE e

Pop ==
    /\ pc = "pop" /\ pending # <<>>
    /\ wrap' = <<Head(pending)>>
    /\ pending' = Tail(pending)
    /\ elapsed' \in {elapsed, Later(elapsed)}
    /\ pc' = "process"
    /\ UNCHANGED <<inserted, active, queue, executed, rets, waiting>>

PopTimeOut ==
    /\ pc = "pop" /\ pending = <<>>
    /\ elapsed' = Later(elapsed)
    /\ pc' = "process"
    /\ UNCHANGED <<inserted, pending, wrap, active, queue, executed, rets, waiting>>

(* When the batch is sent.                                                  *)
IsSync == wrap # <<>> /\ ~wrap[1].async

NoTimer(a) == IsSync \/ Len(a) >= BatchSize                \* bug: the timer is not read
EmitNow(a) == IsSync \/ Len(a) >= BatchSize \/ elapsed >= TimeOut

(* batch_emit sends the batch in the order it was collected.                *)
Swapped(q, a) == [i \in 1 .. Len(q) + Len(a) |->           \* bug: newest first
                    IF i <= Len(q) THEN q[i] ELSE a[Len(q) + Len(a) + 1 - i]]
Emitted(q, a) == q \o a

(* A synchronous command that finds no batch is sent alone.                 *)
SentAlone == active = <<>>

EmitSingle ==
    /\ pc = "process" /\ IsSync /\ SentAlone
    /\ queue' = queue \o wrap
    /\ elapsed' = 0
    /\ wrap' = <<>>
    /\ pc' = "pop"
    /\ UNCHANGED <<inserted, pending, active, executed, rets, waiting>>

Process ==
    LET a == active \o wrap IN
    /\ pc = "process" /\ ~(IsSync /\ SentAlone)
    /\ \/ /\ EmitNow(a)
          /\ queue' = Emitted(queue, a)
          /\ active' = <<>>
          /\ elapsed' = 0
       \/ /\ ~EmitNow(a)
          /\ active' = a
          /\ UNCHANGED <<queue, elapsed>>
    /\ wrap' = <<>>
    /\ pc' = "pop"
    /\ UNCHANGED <<inserted, pending, executed, rets, waiting>>

(* __do_batch_execute, or the handler of a single command: one command.     *)
(* With the reply_code of cava/samples/tensorflow/tf_opt.c only synchronous *)
(* functions send a RET.                                                    *)
Reply(c) == IF c.async THEN {} ELSE {c}

ExecuteCommand ==
    /\ queue # <<>>
    /\ executed' = Append(executed, Head(queue))
    /\ queue' = Tail(queue)
    /\ rets' = rets \cup Reply(Head(queue))
    /\ UNCHANGED <<inserted, batch, waiting>>

(* The RET is dispatched by original_thread_id, which the batch thread does *)
(* not change.                                                              *)
Return(t) ==
    \E c \in rets :
        /\ c.thr = t
        /\ waiting' = [waiting EXCEPT ![t] = IF @ = c.n THEN 0 ELSE @]
        /\ rets' = rets \ {c}
        /\ UNCHANGED <<inserted, batch, queue, executed>>

(* cmd_batch_thread_fini cancels the batch thread wherever it is.           *)
ThreadFini ==
    /\ MayFinish /\ pc # "ended"
    /\ pc' = "ended"
    /\ wrap' = <<>> /\ active' = <<>>
    /\ UNCHANGED <<inserted, pending, queue, executed, rets, waiting, elapsed>>

BatchThread == Pop \/ PopTimeOut \/ EmitSingle \/ Process
Next ==
    \/ \E t \in Threads, async \in BOOLEAN : InsertCommand(t, async)
    \/ BatchThread
    \/ ExecuteCommand
    \/ \E t \in Threads : Return(t)
    \/ ThreadFini

Spec == Init /\ [][Next]_vars
FairSpec ==
    /\ Spec
    /\ WF_vars(BatchThread) /\ WF_vars(ExecuteCommand)
    /\ \A t \in Threads : WF_vars(Return(t))

-----------------------------------------------------------------------------

(* Batching neither loses nor duplicates nor reorders: what was executed,   *)
(* what is queued at the API server, the batch and the pending commands     *)
(* make up, in this order, what the application inserted.                   *)
NothingLostOrReordered ==
    pc # "ended" => executed \o queue \o active \o wrap \o pending = inserted

(* A synchronous call returns after every command inserted before it, of    *)
(* any thread, has been executed; fini does not change that.                *)
SyncIsBarrier ==
    \A i \in DOMAIN inserted :
        LET c == inserted[i] IN
        ~c.async /\ waiting[c.thr] # c.n =>
            \A j \in 1 .. i : j <= Len(executed) /\ executed[j] = inserted[j]

(* Every command is executed, as long as the batch thread runs.             *)
EveryCommandExecuted ==
    \A k \in 1 .. MaxCalls :
        Len(inserted) >= k ~> Len(executed) >= k \/ pc = "ended"
=============================================================================
