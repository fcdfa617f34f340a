---------------------------- MODULE SocketStream ----------------------------
(***************************************************************************)
(* Commands on a socket channel (cmd_channel_socket_utilities.cpp,           *)
(* send_socket and recv_socket of socket.cpp).  A command and its data are  *)
(* one block of memory that the sender writes to a byte stream, in pieces   *)
(* as the socket's buffer allows; the dispatch thread of the other side     *)
(* reads the base struct, learns the sizes from it, reads the rest and      *)
(* gives the command to a shadow thread.                                    *)
(*                                                                          *)
(* All threads of a process share the socket under send_mutex.  A thread    *)
(* that exits sends THREAD_EXIT while it holds the lock of the shadow       *)
(* thread pool (shadow_thread_free_from_thread), which the dispatch thread  *)
(* needs for every command it has read.                                     *)
(***************************************************************************)
EXTENDS Integers, Sequences

CONSTANTS
    Threads,      \* the threads of both processes that send commands
    SideOf,       \* SideOf[t]: the process of t
    Exiting,      \* the threads that exit and tell the other side
    MayEnd,       \* the processes that may end
    BaseSize,     \* sizeof(struct command_base), in units of memory
    StructSizes,  \* sizes of command structs
    RegionSizes,  \* sizes of data regions
    BufferSizes,  \* sizes of the buffers a command may carry
    MaxCommands,  \* bound: commands of a thread
    Capacity,     \* what a socket's buffer holds
    None

Sides == {"guest", "worker"}
Peer(s) == IF s = "guest" THEN "worker" ELSE "guest"

ASSUME StreamAssumption ==
    /\ SideOf \in [Threads -> Sides]
    /\ Exiting \subseteq Threads /\ MayEnd \subseteq Sides
    /\ BaseSize \in Nat \ {0}
    /\ StructSizes \subseteq {n \in Nat : n >= BaseSize}
    /\ RegionSizes \subseteq Nat /\ BufferSizes \subseteq Nat \ {0}
    /\ MaxCommands \in Nat /\ Capacity \in Nat \ {0}
    /\ None \notin Threads

VARIABLES
    pc,      \* pc[t]: "idle", "building", "built", "exiting", "sending" or "gone"
    cmd,     \* cmd[t]: the command of t, and how much of it is sent
    made,    \* made[t]: the number of commands t has built
    mutex,   \* mutex[s]: the thread that holds send_mutex of side s
    pool,    \* pool[s]: the exiting thread that holds the lock of the pool
    stream,  \* stream[s]: what side s has sent and its peer has not read
    rx,      \* rx[s]: the dispatch thread of side s and the memory it fills
    got,     \* got[s]: the commands dispatched at side s
    log,     \* log[s]: the commands of side s in the order of send_mutex
    up       \* the processes that run

vars == <<pc, cmd, made, mutex, pool, stream, rx, got, log, up>>

-----------------------------------------------------------------------------
(* A unit of memory: the command it belongs to, the buffer (0: none) and    *)
(* the place in it.  The first unit of a command holds the fields of its    *)
(* base struct: the sizes, the seeker of the reserved area and, standing    *)
(* for the argument fields, the ids and sizes of the attached buffers.      *)
Blank == [size |-> 0, region |-> 0, seek |-> 0, ids |-> <<>>, lens |-> <<>>]
Unit(of, buf, at) == [of |-> of, buf |-> buf, at |-> at, base |-> Blank]
Base(mem) == mem[1].base

WholeSize(mem) == Base(mem).size + Base(mem).region

(* command_channel_socket_new_command: memory for struct and data region;   *)
(* the seeker starts behind the struct.                                     *)
NewCommand(of, size, region) ==
    [i \in 1 .. size + region |->
        IF i = 1 THEN [Unit(of, 0, 1) EXCEPT !.base =
                          [Blank EXCEPT !.size = size, !.region = region, !.seek = size]]
        ELSE Unit(of, 0, IF i <= size THEN i ELSE 0)]

(* command_channel_socket_attach_buffer: the id is the offset in the        *)
(* command, which the generated code stores in an argument field.           *)
FromRegion(b) == b.seek - b.size   \* bug: the id is relative to the data region
BufferId(b) == b.seek

AttachBuffer(mem, len) ==
    LET b == Base(mem) IN
    [i \in DOMAIN mem |->
        IF i = 1 THEN [mem[1] EXCEPT !.base =
                          [b EXCEPT !.seek = @ + len, !.ids = Append(@, BufferId(b)),
                                    !.lens = Append(@, len)]]
        ELSE IF i \in b.seek + 1 .. b.seek + len THEN Unit(mem[i].of, Len(b.ids) + 1, i - b.seek)
        ELSE mem[i]]

(* command_channel_socket_get_buffer *)
GetBuffer(mem, id, len) == SubSeq(mem, id + 1, id + len)

Init ==
    /\ pc = [t \in Threads |-> "idle"]
    /\ cmd = [t \in Threads |-> [mem |-> <<>>, sent |-> 0]]
    /\ made = [t \in Threads |-> 0]
    /\ mutex = [s \in Sides |-> None]
    /\ pool = [s \in Sides |-> None]
    /\ stream = [s \in Sides |-> <<>>]
    /\ rx = [s \in Sides |-> [st |-> "poll", mem |-> <<>>]]
    /\ got = [s \in Sides |-> <<>>]
    /\ log = [s \in Sides |-> <<>>]
    /\ up = Sides

-----------------------------------------------------------------------------
(* The sending threads.  The size of the data region is the sum of those of *)
(* the buffers, which the generated code attaches one after the other.      *)
Ready(mem) == IF Base(mem).seek = WholeSize(mem) THEN "built" ELSE "building"

Build(t, size, region) ==
    LET mem == NewCommand(<<t, made[t] + 1>>, size, region) IN
    /\ SideOf[t] \in up /\ pc[t] = "idle" /\ made[t] < MaxCommands
    /\ made' = [made EXCEPT ![t] = @ + 1]
    /\ cmd' = [cmd EXCEPT ![t] = [mem |-> mem, sent |-> 0]]
    /\ pc' = [pc EXCEPT ![t] = Ready(mem)]
    /\ UNCHANGED <<mutex, pool, stream, rx, got, log, up>>

Attach(t, len) ==
    LET mem == AttachBuffer(cmd[t].mem, len) IN
    /\ SideOf[t] \in up /\ pc[t] = "building"
    /\ Base(cmd[t].mem).seek + len <= WholeSize(cmd[t].mem)
    /\ cmd' = [cmd EXCEPT ![t].mem = mem]
    /\ pc' = [pc EXCEPT ![t] = Ready(mem)]
    /\ UNCHANGED <<made, mutex, pool, stream, rx, got, log, up>>

(* shadow_thread_free_from_thread: lock the pool, build THREAD_EXIT.        *)
Exit(t) ==
    /\ SideOf[t] \in up /\ pc[t] = "idle" /\ t \in Exiting
    /\ pool[SideOf[t]] = None
    /\ pool' = [pool EXCEPT ![SideOf[t]] = t]
    /\ cmd' = [cmd EXCEPT ![t] = [mem |-> NewCommand(<<t, made[t] + 1>>, BaseSize, 0), sent |-> 0]]
    /\ pc' = [pc EXCEPT ![t] = "exiting"]
    /\ UNCHANGED <<made, mutex, stream, rx, got, log, up>>

NoMutex(s) == TRUE                 \* bug: send without send_mutex
MutexFree(s) == mutex[s] = None

Lock(t) ==
    LET s == SideOf[t] IN
    /\ s \in up /\ pc[t] \in {"built", "exiting"}
    /\ MutexFree(s)
    /\ mutex' = [mutex EXCEPT ![s] = t]
    /\ log' = [log EXCEPT ![s] = Append(@, cmd[t].mem)]
    /\ pc' = [pc EXCEPT ![t] = "sending"]
    /\ UNCHANGED <<cmd, made, pool, stream, rx, got, up>>

(* send_socket: one send, of as much as the buffer takes.  Once the peer is *)
(* gone a send may still be accepted or fail, which ends the process.       *)
Send(t) ==
    LET s == SideOf[t]
        left == Len(cmd[t].mem) - cmd[t].sent
        room == Capacity - Len(stream[s]) IN
    /\ s \in up /\ pc[t] = "sending" /\ left > 0
    /\ \/ \E n \in 1 .. left :
            /\ n <= room
            /\ stream' = [stream EXCEPT ![s] = @ \o SubSeq(cmd[t].mem, cmd[t].sent + 1, cmd[t].sent + n)]
            /\ cmd' = [cmd EXCEPT ![t].sent = @ + n]
            /\ UNCHANGED up
       \/ /\ Peer(s) \notin up
          /\ up' = up \ {s}
          /\ UNCHANGED <<stream, cmd>>
    /\ UNCHANGED <<pc, made, mutex, pool, rx, got, log>>

Unlocked(s, t) == IF pool[s] = t THEN None ELSE pool[s]

NotReleased(t) == t                \* bug: send_mutex is not released
Released(t) == None

(* Both locks are released; nobody can tell the two moments apart.          *)
Sent(t) ==
    LET s == SideOf[t] IN
    /\ s \in up /\ pc[t] = "sending" /\ cmd[t].sent = Len(cmd[t].mem)
    /\ mutex' = [mutex EXCEPT ![s] = Released(t)]
    /\ pool' = [pool EXCEPT ![s] = Unlocked(s, t)]
    /\ cmd' = [cmd EXCEPT ![t] = [mem |-> <<>>, sent |-> 0]]
    /\ pc' = [pc EXCEPT ![t] = IF pool[s] = t THEN "gone" ELSE "idle"]
    /\ UNCHANGED <<made, stream, rx, got, log, up>>

-----------------------------------------------------------------------------
(* The dispatch thread.  A closed peer may be reported while data is still  *)
(* unread: the process then ends without reading it.                        *)
Poll(s) ==
    /\ s \in up /\ rx[s].st = "poll"
    /\ \/ /\ Peer(s) \notin up
          /\ up' = up \ {s}
          /\ UNCHANGED rx
       \/ /\ stream[Peer(s)] # <<>>
          /\ rx' = [rx EXCEPT ![s].st = "read"]
          /\ UNCHANGED up
    /\ UNCHANGED <<pc, cmd, made, mutex, pool, stream, got, log>>

(* What command_channel_socket_receive_command still has to read: the base  *)
(* struct, then the struct and the data it announces.                       *)
Expected(mem) == IF Len(mem) < BaseSize THEN BaseSize ELSE WholeSize(mem)

Receive(s) ==
    LET left == Expected(rx[s].mem) - Len(rx[s].mem)
        in == stream[Peer(s)] IN
    /\ s \in up /\ rx[s].st = "read" /\ left > 0
    /\ \/ \E n \in 1 .. left :
            /\ n <= Len(in)
            /\ rx' = [rx EXCEPT ![s].mem = @ \o SubSeq(in, 1, n)]
            /\ stream' = [stream EXCEPT ![Peer(s)] = SubSeq(@, n + 1, Len(@))]
            /\ UNCHANGED up
       \/ /\ Peer(s) \notin up
          /\ up' = up \ {s}
          /\ UNCHANGED <<rx, stream>>
    /\ UNCHANGED <<pc, cmd, made, mutex, pool, got, log>>

(* shadow_thread_pool_dispatch, under the lock of the pool.                 *)
Dispatch(s) ==
    /\ s \in up /\ rx[s].st = "read"
    /\ Len(rx[s].mem) >= BaseSize /\ Len(rx[s].mem) >= Expected(rx[s].mem)
    /\ pool[s] = None
    /\ got' = [got EXCEPT ![s] = Append(@, rx[s].mem)]
    /\ rx' = [rx EXCEPT ![s] = [st |-> "poll", mem |-> <<>>]]
    /\ UNCHANGED <<pc, cmd, made, mutex, pool, stream, log, up>>

(* The process ends, at any moment.                                         *)
End(s) ==
    /\ s \in up \cap MayEnd
    /\ up' = up \ {s}
    /\ UNCHANGED <<pc, cmd, made, mutex, pool, stream, rx, got, log>>

-----------------------------------------------------------------------------
Sender(t) == Exit(t) \/ Lock(t) \/ Send(t) \/ Sent(t)
Dispatcher(s) == Poll(s) \/ Receive(s) \/ Dispatch(s)

Next ==
    \/ \E t \in Threads :
         \/ \E size \in StructSizes, region \in RegionSizes : Build(t, size, region)
         \/ \E len \in BufferSizes : Attach(t, len)
         \/ Sender(t)
    \/ \E s \in Sides : Dispatcher(s) \/ End(s)

(* Threads that are in a send, and the dispatch threads, go on when they    *)
(* can.  A thread need not exit, nor build another command.                 *)
Fairness ==
    /\ \A t \in Threads : WF_vars(Lock(t) \/ Send(t) \/ Sent(t))
    /\ \A s \in Sides : WF_vars(Dispatcher(s))

Spec == Init /\ [][Next]_vars /\ Fairness

-----------------------------------------------------------------------------

(* The commands a side dispatches are those the other side sent, whole and  *)
(* in the order of send_mutex: no command is torn, mixed with another or    *)
(* skipped, however the stream cuts them (socket_send_command,              *)
(* socket_receive_command).                                                 *)
CommandsArriveWhole ==
    \A s \in Sides :
        /\ Len(got[s]) <= Len(log[Peer(s)])
        /\ got[s] = SubSeq(log[Peer(s)], 1, Len(got[s]))

(* The id of a buffer leads the receiver to the data the sender attached    *)
(* (socket_attach_buffer, socket_get_buffer).                               *)
BuffersReadBack ==
    \A s \in Sides : \A j \in DOMAIN got[s] :
        LET g == got[s][j] IN
        \A k \in DOMAIN Base(g).ids :
            LET len == Base(g).lens[k] IN
            GetBuffer(g, Base(g).ids[k], len) = [i \in 1 .. len |-> Unit(g[1].of, k, i)]

(* A thread that sends comes to the end of it: the dispatch threads drain   *)
(* both directions, although one of them waits for a thread that exits.     *)
SendsEnd ==
    \A t \in Threads : pc[t] \in {"built", "exiting", "sending"}
        ~> (pc[t] \in {"idle", "gone"} \/ up # Sides)

=============================================================================
