---------------------------- MODULE RemoteCalls ----------------------------
(***************************************************************************)
(* The call protocol of AvA.  Two endpoints, the guest library and the API  *)
(* server ("worker"), exchange commands over one FIFO channel per           *)
(* direction.  The generated stub of an API function sends a CALL and, when *)
(* the function is synchronous, handles commands for its own thread until   *)
(* the matching RET has been handled.  Every thread that calls is "solid"   *)
(* at its own endpoint and has a "shadow" at the other one, which the pool  *)
(* of shadow_thread_pool.c creates on the first command and retires on a    *)
(* THREAD_EXIT command.  Calls nest: a handler may itself call back.        *)
(*                                                                          *)
(* Assertions are modelled as in a debug build (AVA_ENABLE_DEBUG): the      *)
(* first one that fails is recorded in `failed' and everything stops.       *)
(*                                                                          *)
(* A pthread id names a thread of one process only: two threads that call,  *)
(* one in each process, are taken to have different ids.  A pthread that    *)
(* the pool creates may have any id that is free in its process, that of    *)
(* the thread it shadows included.                                          *)
(***************************************************************************)
EXTENDS Integers, Sequences

CONSTANTS
    Ids,         \* pthread ids, used as AvA thread ids
    Home,        \* Home[i]: the endpoint whose process owns pthread id i
    Modes,       \* synchrony of the functions in the API: "sync", "async"
    MayExit,     \* TRUE: threads may terminate while the endpoints run
    MaxStarts,   \* bound: how often one pthread id is (re)used
    MaxCalls,    \* bound: calls issued per endpoint
    MaxDepth     \* bound: nesting of calls and handlers on one thread

Endpoints == {"guest", "worker"}
Peer(e) == IF e = "guest" THEN "worker" ELSE "guest"
CallIds == 0 .. MaxCalls - 1

ASSUME IdsAssumption ==
    /\ Home \in [Ids -> Endpoints]
    /\ Modes \subseteq {"sync", "async"}
    /\ MayExit \in BOOLEAN
ASSUME BoundsAssumption == MaxStarts \in Nat /\ MaxCalls \in Nat /\ MaxDepth \in Nat

VARIABLES
    alive,     \* ids whose own pthread is running at its home endpoint
    starts,    \* how often each id has been handed out by pthread_create
    kind,      \* kind[e][i]: the pool entry of id i at e (pool->threads)
    queue,     \* queue[e][i]: the GAsyncQueue of that entry
    stack,     \* stack[e][i]: calls waited for and handlers running on it
    chan,      \* chan[e]: commands under way to e, oldest first
    pending,   \* pending[e]: the call map of e, as [n, thr] records
    nextCall,  \* nextCall[e]: the call id counter of e
    work,      \* work[e][n]: the remote work of e's call n
    failed     \* the assertion that failed, or "none"

threadVars == <<alive, starts, kind, stack>>
callVars   == <<pending, nextCall, work>>
vars == <<alive, starts, kind, queue, stack, chan, pending, nextCall, work, failed>>

Kinds == {"none", "solid", "shadow", "dying"}
WorkStates == {"no", "running", "finished"}
Cmd   == [op : {"call", "ret", "exit"}, thr : Ids, n : Nat]
Frame == [op : {"wait", "exec"}, n : Nat, done : BOOLEAN]

CallCmd(i, n) == [op |-> "call", thr |-> i, n |-> n]
RetCmd(i, n)  == [op |-> "ret", thr |-> i, n |-> n]
ExitCmd(i)    == [op |-> "exit", thr |-> i, n |-> 0]

(* What the primitive steps do to a channel or queue q, a command m or a    *)
(* frame f.  A definition marked "bug" is a mutated form of the one below   *)
(* its group: no specification uses it, it serves to test the properties.   *)
NoExitNotice(q, i)    == q                                \* bug: not announced
ExitNotice(q, i)      == Append(q, ExitCmd(i))

ReplyTwice(q, i, n) == q \o <<RetCmd(i, n), RetCmd(i, n)>>  \* bug: retried reply
Reply(q, i, n)      == Append(q, RetCmd(i, n))

PushFront(q, m) == <<m>> \o q      \* bug: last in, first out
Push(q, m)      == Append(q, m)

Peeked(q) == q                     \* bug: the command stays in the queue
Popped(q) == Tail(q)

NeverCreates(m)  == FALSE          \* bug: unknown ids are always dropped
NeedsShadow(m)   == m.op # "exit"

SelfEntry    == "solid"

(* assert(t->thread != ava_id) in shadow_thread_new, with the comment "This *)
(* may spuriously fail".                                                    *)
Coincidence == "new: thread has its own ava id"

AlwaysComplete(f) == TRUE          \* bug: the wait loop ends on any command
CallComplete(f)   == f.done

StillRunning == "running"          \* bug: RET precedes the end of the work
WorkDone     == "finished"

MarkNone(f, n) == f                \* bug: __call_complete is never set
MarkComplete(f, n) ==
    IF f.op = "wait" /\ f.n = n THEN [f EXCEPT !.done = TRUE] ELSE f

Top(s) == s[Len(s)]
Pop(s) == [k \in 1 .. Len(s) - 1 |-> s[k]]
Running == failed = "none"
TopIs(e, i, op) == stack[e][i] # <<>> /\ Top(stack[e][i]).op = op

Init ==
    /\ alive = {}
    /\ starts = [i \in Ids |-> 0]
    /\ kind = [e \in Endpoints |-> [i \in Ids |-> "none"]]
    /\ queue = [e \in Endpoints |-> [i \in Ids |-> <<>>]]
    /\ stack = [e \in Endpoints |-> [i \in Ids |-> <<>>]]
    /\ chan = [e \in Endpoints |-> <<>>]
    /\ pending = [e \in Endpoints |-> {}]
    /\ nextCall = [e \in Endpoints |-> 0]
    /\ work = [e \in Endpoints |-> [n \in CallIds |-> "no"]]
    /\ failed = "none"

-----------------------------------------------------------------------------
(* The application's threads (a native thread of the worker that calls back *)
(* is one too).  glibc hands the id of a terminated thread to a new one.    *)
ThreadStart(i) ==
    /\ Running
    /\ i \notin alive
    /\ starts[i] < MaxStarts
    /\ alive' = alive \cup {i}
    /\ starts' = [starts EXCEPT ![i] = @ + 1]
    /\ UNCHANGED <<kind, queue, stack, chan, callVars, failed>>

(* The TLS destructor of a solid thread: under the pool lock it sends       *)
(* THREAD_EXIT and drops its entry; its queue goes with it.                 *)
ThreadExit(i) ==
    LET e == Home[i] IN
    /\ Running
    /\ MayExit
    /\ i \in alive
    /\ kind[e][i] = "solid" => stack[e][i] = <<>>
    /\ alive' = alive \ {i}
    /\ IF kind[e][i] = "solid"
       THEN /\ chan' = [chan EXCEPT ![Peer(e)] = ExitNotice(@, i)]
            /\ kind' = [kind EXCEPT ![e][i] = "none"]
            /\ queue' = [queue EXCEPT ![e][i] = <<>>]
       ELSE UNCHANGED <<chan, kind, queue>>
    /\ UNCHANGED <<starts, stack, callVars, failed>>

-----------------------------------------------------------------------------
(* A generated stub, from ava_get_call_id to the wait loop: take a call id, *)
(* enter the call in the call map, send CALL on the caller's AvA thread id. *)
SendCall(e, i, mode) ==
    LET n == nextCall[e] IN
    /\ n < MaxCalls
    /\ nextCall' = [nextCall EXCEPT ![e] = n + 1]
    /\ pending' = [pending EXCEPT ![e] = @ \cup {[n |-> n, thr |-> i]}]
    /\ chan' = [chan EXCEPT ![Peer(e)] = Append(@, CallCmd(i, n))]
    /\ stack' = IF mode = "sync"
                THEN [stack EXCEPT ![e][i] =
                        Append(@, [op |-> "wait", n |-> n, done |-> FALSE])]
                ELSE stack
    /\ UNCHANGED work

(* A stub called by the application: shadow_thread_self enters a thread     *)
(* without TLS value in the pool, and asserts that its id is not there yet. *)
AppCall(i, mode) ==
    LET e == Home[i] IN
    /\ Running
    /\ i \in alive
    /\ \/ /\ kind[e][i] \in {"none", "solid"}
          /\ stack[e][i] = <<>>
          /\ kind' = [kind EXCEPT ![e][i] = SelfEntry]
          /\ SendCall(e, i, mode)
          /\ UNCHANGED failed
       \/ /\ kind[e][i] \in {"shadow", "dying"}
          /\ failed' = "self: id already in the pool"
          /\ UNCHANGED <<kind, stack, chan, callVars>>
    /\ UNCHANGED <<alive, starts, queue>>

(* A stub called from a handler, that is, a callback into the other side.   *)
HandlerCall(e, i, mode) ==
    /\ Running
    /\ TopIs(e, i, "exec")
    /\ Len(stack[e][i]) < MaxDepth
    /\ SendCall(e, i, mode)
    /\ UNCHANGED <<alive, starts, kind, queue, failed>>

(* The stub leaves its wait loop once __call_complete is set.               *)
CallReturns(e, i) ==
    /\ Running
    /\ TopIs(e, i, "wait")
    /\ CallComplete(Top(stack[e][i]))
    /\ stack' = [stack EXCEPT ![e][i] = Pop(@)]
    /\ UNCHANGED <<alive, starts, kind, queue, chan, callVars, failed>>

-----------------------------------------------------------------------------
(* shadow_thread_pool_dispatch, under the pool lock: an unknown id gets a   *)
(* new shadow thread, unless the command only tells it to exit.  The new    *)
(* pthread may be given the very id of the thread it shadows, unless that   *)
(* id is in use in this process.                                            *)
Dispatch(e) ==
    LET m == Head(chan[e])
        i == m.thr
    IN
    /\ Running
    /\ chan[e] # <<>>
    /\ chan' = [chan EXCEPT ![e] = Tail(@)]
    /\ \/ /\ kind[e][i] # "none"
          /\ queue' = [queue EXCEPT ![e][i] = Push(@, m)]
          /\ UNCHANGED <<kind, failed>>
       \/ /\ kind[e][i] = "none" /\ ~NeedsShadow(m)
          /\ UNCHANGED <<kind, queue, failed>>
       \/ /\ kind[e][i] = "none" /\ NeedsShadow(m)
          /\ kind' = [kind EXCEPT ![e][i] = "shadow"]
          /\ queue' = [queue EXCEPT ![e][i] = <<m>>]
          /\ UNCHANGED failed
       \/ /\ kind[e][i] = "none" /\ NeedsShadow(m)
          /\ ~(Home[i] = e /\ i \in alive)
          /\ failed' = Coincidence
          /\ UNCHANGED <<kind, queue>>
    /\ UNCHANGED <<alive, starts, stack, callVars>>

-----------------------------------------------------------------------------
(* Where a thread takes commands from its queue: the loop of a shadow, and  *)
(* the wait loop of a synchronous call.                                     *)
TakesCommands(e, i) ==
    /\ Running
    /\ \/ kind[e][i] = "shadow" /\ stack[e][i] = <<>>
       \/ TopIs(e, i, "wait") /\ ~CallComplete(Top(stack[e][i]))
    /\ queue[e][i] # <<>>

Drop(e, i) == queue' = [queue EXCEPT ![e][i] = Popped(@)]

(* THREAD_EXIT ends the loop of a shadow, and no wait loop may meet it.     *)
HandleExit(e, i) ==
    /\ TakesCommands(e, i)
    /\ Head(queue[e][i]).op = "exit"
    /\ Drop(e, i)
    /\ IF stack[e][i] = <<>>
       THEN kind' = [kind EXCEPT ![e][i] = "dying"] /\ UNCHANGED failed
       ELSE failed' = "until: thread exit requested" /\ UNCHANGED kind
    /\ UNCHANGED <<alive, starts, stack, chan, callVars>>

(* The TLS destructor of a shadow: drop the entry and free the queue.       *)
ShadowExit(e, i) ==
    /\ Running
    /\ kind[e][i] = "dying"
    /\ kind' = [kind EXCEPT ![e][i] = "none"]
    /\ queue' = [queue EXCEPT ![e][i] = <<>>]
    /\ UNCHANGED <<alive, starts, stack, chan, callVars, failed>>

(* A CALL: unmarshal, then run the native function.                         *)
HandleCall(e, i) ==
    LET m == Head(queue[e][i]) IN
    /\ TakesCommands(e, i)
    /\ m.op = "call"
    /\ Drop(e, i)
    /\ work' = [work EXCEPT ![Peer(e)][m.n] = "running"]
    /\ stack' = [stack EXCEPT ![e][i] =
                   Append(@, [op |-> "exec", n |-> m.n, done |-> FALSE])]
    /\ UNCHANGED <<alive, starts, kind, chan, pending, nextCall, failed>>

(* The native function has returned: marshal and send RET on the caller's   *)
(* thread id, for an asynchronous call too.                                 *)
SendReturn(e, i) ==
    LET n == Top(stack[e][i]).n IN
    /\ Running
    /\ TopIs(e, i, "exec")
    /\ work' = [work EXCEPT ![Peer(e)][n] = WorkDone]
    /\ chan' = [chan EXCEPT ![Peer(e)] = Reply(@, i, n)]
    /\ stack' = [stack EXCEPT ![e][i] = Pop(@)]
    /\ UNCHANGED <<alive, starts, kind, queue, pending, nextCall, failed>>

(* A RET: take the call from the call map, copy the results, set            *)
(* __call_complete.  The record of an asynchronous call is then freed.      *)
Completed(frames, n) == [k \in DOMAIN frames |-> MarkComplete(frames[k], n)]

HandleReturn(e, i) ==
    LET m == Head(queue[e][i]) IN
    /\ TakesCommands(e, i)
    /\ m.op = "ret"
    /\ Drop(e, i)
    /\ \/ /\ \E r \in pending[e] : r.n = m.n
          /\ pending' = [pending EXCEPT ![e] = {r \in @ : r.n # m.n}]
          /\ stack' = [stack EXCEPT ![e][i] = Completed(@, m.n)]
          /\ UNCHANGED failed
       \/ /\ \A r \in pending[e] : r.n # m.n
          /\ failed' = "remove_call: no such call"
          /\ UNCHANGED <<pending, stack>>
    /\ UNCHANGED <<alive, starts, kind, chan, nextCall, work>>

-----------------------------------------------------------------------------
(* Nothing is under way and no thread is inside a call or a handler, or the *)
(* process has ended at the assertion that may fail.                        *)
Quiescent ==
    \A e \in Endpoints : chan[e] = <<>> /\ \A i \in Ids : stack[e][i] = <<>>
Idle == (Running => Quiescent) /\ failed \in {"none", Coincidence} /\ UNCHANGED vars

Thread(e, i) ==
    \/ CallReturns(e, i)
    \/ HandleExit(e, i)
    \/ ShadowExit(e, i)
    \/ HandleCall(e, i)
    \/ SendReturn(e, i)
    \/ HandleReturn(e, i)
    \/ \E mode \in Modes : HandlerCall(e, i, mode)

App(i) ==
    \/ ThreadStart(i)
    \/ ThreadExit(i)
    \/ \E mode \in Modes : AppCall(i, mode)

Next ==
    \/ \E i \in Ids : App(i)
    \/ \E e \in Endpoints : Dispatch(e)
    \/ \E e \in Endpoints, i \in Ids : Thread(e, i)
    \/ Idle

Spec == Init /\ [][Next]_vars

(* Fairness: the dispatcher thread and every thread inside AvA keep being   *)
(* scheduled, and a native function that was called returns.  Nothing is    *)
(* assumed of the application: it may stop starting threads or calling.     *)
Fairness ==
    /\ \A e \in Endpoints : WF_vars(Dispatch(e))
    /\ \A e \in Endpoints, i \in Ids :
          /\ WF_vars(CallReturns(e, i))
          /\ WF_vars(HandleExit(e, i) \/ HandleCall(e, i) \/ HandleReturn(e, i))
          /\ WF_vars(ShadowExit(e, i))
          /\ WF_vars(SendReturn(e, i))

FairSpec == Spec /\ Fairness

-----------------------------------------------------------------------------
(* The variables hold what the C structures can hold.                       *)
TypeOK ==
    /\ alive \subseteq Ids
    /\ starts \in [Ids -> 0 .. MaxStarts]
    /\ kind \in [Endpoints -> [Ids -> Kinds]]
    /\ queue \in [Endpoints -> [Ids -> Seq(Cmd)]]
    /\ stack \in [Endpoints -> [Ids -> Seq(Frame)]]
    /\ chan \in [Endpoints -> Seq(Cmd)]
    /\ pending \in [Endpoints -> SUBSET [n : Nat, thr : Ids]]
    /\ nextCall \in [Endpoints -> 0 .. MaxCalls]
    /\ work \in [Endpoints -> [CallIds -> WorkStates]]

(* Of the assertions of shadow_thread_pool.c, of the wait loop and of       *)
(* ava_remove_call only the one fails whose comment says so, on a new       *)
(* pthread that happens to have the id it shadows: ids are not registered   *)
(* twice, no thread is told to exit inside a call, every RET finds its      *)
(* call.                                                                    *)
OnlyCoincidenceFails == failed \in {"none", Coincidence}

(* Every RET finds its call in the call map (ava_remove_call), and no call  *)
(* is completed twice, whatever threads exit, restart or lose.              *)
ReturnsFindTheirCall == failed # "remove_call: no such call"

(* When all functions are synchronous, calls and callbacks nest: the RET a  *)
(* thread handles always answers its innermost waiting call.                *)
ReturnsAnswerInnermost ==
    \A e \in Endpoints, i \in Ids :
        (TakesCommands(e, i) /\ Head(queue[e][i]).op = "ret") =>
            /\ TopIs(e, i, "wait")
            /\ Top(stack[e][i]).n = Head(queue[e][i]).n

(* As long as the other side has not called back and the thread's id is not *)
(* reused, a synchronous call flushes its thread: once its RET is handled,  *)
(* every earlier call of that thread, asynchronous or not, is complete too. *)
SyncFlushesThread ==
    \A e \in Endpoints, i \in Ids : \A k \in DOMAIN stack[e][i] :
        LET f == stack[e][i][k] IN
        f.op = "wait" /\ f.done /\ nextCall[Peer(e)] = 0 /\ starts[i] <= 1 =>
            \A r \in pending[e] : r.thr = i => r.n > f.n

(* Every call a thread waits for and every handler it runs come to an end   *)
(* (lapis.md on ava_sync: "returns after its work is complete"), unless a   *)
(* new pthread has the id it shadows.                                       *)
SyncCallsReturn ==
    \A e \in Endpoints, i \in Ids :
        stack[e][i] # <<>> ~> (stack[e][i] = <<>> \/ failed = Coincidence)

(* The same for calls of both modes, until a thread exits or a handler      *)
(* calls back: a callback out of an asynchronous call waits for its thread  *)
(* to come back into AvA.                                                   *)
Undisturbed ==
    \A i \in Ids : nextCall[Peer(Home[i])] = 0 /\ (starts[i] = 0 \/ (starts[i] = 1 /\ i \in alive))
UndisturbedCallsReturn ==
    \A e \in Endpoints, i \in Ids :
        stack[e][i] # <<>> ~> (stack[e][i] = <<>> \/ ~Undisturbed \/ failed = Coincidence)

(* The shadow of a thread that has exited is retired, unless the process    *)
(* ends at the assertion on a coincidence of ids.                           *)
ShadowsRetire ==
    \A i \in Ids : LET e == Peer(Home[i]) IN
        (kind[e][i] = "shadow" /\ i \notin alive /\ starts[i] = MaxStarts)
            ~> (kind[e][i] = "none" \/ failed = Coincidence)

(* The protocol implements AbstractCalls: each call is started at most once *)
(* and completes at its caller only after its remote work has finished.     *)
CallStatus(e, n) ==
    IF n >= nextCall[e] THEN "none"
    ELSE IF \A r \in pending[e] : r.n # n THEN "done"
    ELSE IF work[e][n] = "no" THEN "issued" ELSE work[e][n]

Status == [e \in Endpoints |-> [n \in CallIds |-> CallStatus(e, n)]]

Abstract == INSTANCE AbstractCalls WITH status <- Status
ImplementsAbstractCalls == Abstract!Spec

-----------------------------------------------------------------------------
(* Why this holds: a call is in one place at a time.  Its CALL command is   *)
(* under way while the work has not begun, one handler frame holds it while *)
(* it runs, and its RET is under way once it has finished; all three only   *)
(* while the caller has it in its call map under the thread that carries    *)
(* it.  Commands may be lost, but never multiply.                           *)
IsPending(e, n, i) == [n |-> n, thr |-> i] \in pending[e]

CmdOK(e, m) ==
    /\ m.op = "call" => /\ m.n < nextCall[Peer(e)]
                        /\ work[Peer(e)][m.n] = "no"
                        /\ IsPending(Peer(e), m.n, m.thr)
    /\ m.op = "ret"  => /\ m.n < nextCall[e]
                        /\ work[e][m.n] = "finished"
                        /\ IsPending(e, m.n, m.thr)

FrameOK(e, i, f) ==
    /\ f.op = "exec" => /\ f.n < nextCall[Peer(e)]
                        /\ work[Peer(e)][f.n] = "running"
                        /\ IsPending(Peer(e), f.n, i)
    /\ f.op = "wait" => /\ f.n < nextCall[e]
                        /\ ~f.done => IsPending(e, f.n, i)

ChannelsOK ==
    \A e \in Endpoints : \A k \in DOMAIN chan[e] : CmdOK(e, chan[e][k])

QueuesOK ==
    \A e \in Endpoints, i \in Ids : \A k \in DOMAIN queue[e][i] :
        CmdOK(e, queue[e][i][k]) /\ queue[e][i][k].thr = i

FramesOK ==
    \A e \in Endpoints, i \in Ids : \A k \in DOMAIN stack[e][i] :
        FrameOK(e, i, stack[e][i][k])

CallMapOK ==
    \A e \in Endpoints :
        /\ \A r, q \in pending[e] : r.n = q.n => r = q
        /\ \A r \in pending[e] : r.n < nextCall[e]
        /\ \A n \in CallIds :
              /\ n >= nextCall[e] => work[e][n] = "no"
              /\ n < nextCall[e] /\ (\A r \in pending[e] : r.n # n)
                    => work[e][n] = "finished"

Apart(m, p) == m.op = p.op /\ m.n = p.n => m.op = "exit"

Distinct(s) == \A j, k \in DOMAIN s : j # k => Apart(s[j], s[k])
Separate(s, t) == \A j \in DOMAIN s, k \in DOMAIN t : Apart(s[j], t[k])

OneCommandPerCall ==
    \A e \in Endpoints :
        /\ Distinct(chan[e])
        /\ \A i \in Ids : Distinct(queue[e][i]) /\ Separate(queue[e][i], chan[e])

OneHandlerPerCall ==
    \A e \in Endpoints, i \in Ids : \A j, k \in DOMAIN stack[e][i] :
        (/\ stack[e][i][j].op = "exec" /\ stack[e][i][k].op = "exec"
         /\ stack[e][i][j].n = stack[e][i][k].n) => j = k

(* The inductive invariant: every call has at most one CALL, one running    *)
(* handler or one RET, in agreement with the call map of its caller.        *)
CallsInOnePlace ==
    /\ ChannelsOK
    /\ QueuesOK
    /\ FramesOK
    /\ CallMapOK
    /\ OneCommandPerCall
    /\ OneHandlerPerCall
=============================================================================
