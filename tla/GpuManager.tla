----------------------------- MODULE GpuManager -----------------------------
(***************************************************************************)
(* The resource manager and its spawn daemons (worker/galvanic and          *)
(* worker/katana; their manager.h is the same file).  Every daemon          *)
(* registers the GPUs of its node.  An application asks for GPU memory; the *)
(* manager reserves it on one node, has the daemon there spawn an API       *)
(* server and notes it as busy.  The API server is told the GPUs and the    *)
(* memory it is provisioned with (provision_gpu.cpp); the application       *)
(* connects to it over TCP and it exits with the application.  The daemon   *)
(* reports the exit, and the manager takes the memory back.                 *)
(*                                                                          *)
(* RPC handlers run concurrently, one thread each.  A step is what one lock *)
(* protects; the read-modify-writes of free_memory_ and worker_counter_ are *)
(* a load and a store, since RemoveBusyWorker makes them without the lock.  *)
(* daemons_ is taken to grow in one step, although push_back has no lock    *)
(* against the handlers that go through it.                                 *)
(* An API server is identified by its application: its address is new.      *)
(***************************************************************************)
EXTENDS Integers, Sequences, FiniteSets, SequencesExt, FiniteSetsExt

CONSTANTS
    Nodes,      \* GPU servers, each with a spawn daemon
    Gpus,       \* all GPUs, by UUID
    NodeOf,     \* NodeOf[g]: the node of GPU g
    Memory,     \* Memory[g]: its free memory at registration
    Apps,       \* applications, each of which makes one request
    Requests,   \* gpu_mem vectors they may send
    Programs,   \* which managers and daemons: "katana", "galvanic" or both
    Overlap,    \* API servers that may exit while requests are handled:
                \* "none", those "assigned" to their application, or "any"
    NoApp       \* no application, no GPU yet

ASSUME ManagerAssumption ==
    /\ NodeOf \in [Gpus -> Nodes] /\ Memory \in [Gpus -> Nat]
    /\ Requests \subseteq Seq(Nat) \ {<<>>}
    /\ Programs \subseteq {"katana", "galvanic"}
    /\ Overlap \in {"none", "assigned", "any"}
    /\ NoApp \notin Apps

VARIABLES
    program,  \* the manager and daemons that are used
    daemons,  \* config->daemons_: the registered nodes, in order
    list,     \* list[d]: gpu_list_ of node d, in its order
    free,     \* free[g]: gpu_info_.free_memory_
    cnt,      \* cnt[g]: worker_counter_
    busy,     \* busy[g]: busy_workers_
    lock,     \* lock[d]: the handler in the critical section of gpu_list_
    app,      \* app[a]: the AssignWorker handler of application a
    wrk,      \* wrk[a]: its API server and the handler of its exit
    link,     \* link[a]: the connection of the application to its API server
    up        \* up[d]: the daemon of node d

vars == <<program, daemons, list, free, cnt, busy, lock, app, wrk, link, up>>
table == <<program, daemons, list, free, cnt, busy, lock>>

GpusOf(d) == {g \in Gpus : NodeOf[g] = d}
NoWorker == [st |-> "none"]
Live == {"forked", "listening", "serving"}
Up(d) == up[d] = "up"
Resting == {"idle", "assigned", "refused"}

Init ==
    /\ program \in Programs
    /\ daemons = <<>>
    /\ list = [d \in Nodes |-> <<>>]
    /\ free = Memory
    /\ cnt = [g \in Gpus |-> 0]
    /\ busy = [g \in Gpus |-> {}]
    /\ lock = [d \in Nodes |-> NoApp]
    /\ app = [a \in Apps |-> [pc |-> "idle"]]
    /\ wrk = [a \in Apps |-> NoWorker]
    /\ link = [a \in Apps |-> "none"]
    /\ up = [d \in Nodes |-> "off"]

-----------------------------------------------------------------------------
(* UnlockedSort: fewer API servers first, then more free memory; GPUs that  *)
(* compare equal may come in any order.  A definition marked "bug" is a     *)
(* mutated form of the one below it and used by no specification.           *)
Before(f, c, g, h) == c[g] < c[h] \/ (c[g] = c[h] /\ f[g] >= f[h])
Sorted(d, f, c) ==
    {s \in SetToSeqs(GpusOf(d)) : \A i, j \in DOMAIN s : i < j => Before(f, c, s[i], s[j])}

(* The order in which the memory sizes of a request are tried.              *)
Order(want) == SortSeq(want, LAMBDA x, y : x > y)

(* FindEntryAndReserveMemory: positions of the GPUs with enough memory.     *)
Enough(d, n) == {j \in DOMAIN list[d] : free[list[d][j]] >= n}

(* The GPUs in the order of the request: katana undoes its sort.            *)
FirstMatch(gm, want, got) ==       \* bug: a position is filled twice
    FoldLeft(LAMBDA acc, i :
                [acc EXCEPT ![Min({j \in DOMAIN want : want[j] = gm[i]})] = got[i]],
             [j \in DOMAIN want |-> NoApp],
             [i \in DOMAIN gm |-> i])
Restored(gm, want, got) ==
    FoldLeft(LAMBDA acc, i :
                LET j == Min({j \in DOMAIN want : want[j] = gm[i] /\ acc[j] = NoApp})
                IN  [acc EXCEPT ![j] = got[i]],
             [j \in DOMAIN want |-> NoApp],
             [i \in DOMAIN gm |-> i])

(* ReserveMemory and ReleaseMemory on the values loaded into t.             *)
Loaded(g) == [g |-> g, free |-> free[g], cnt |-> cnt[g]]
Reserved(t, n) == [t EXCEPT !.free = @ - n, !.cnt = @ + 1]
CountKept(t, n) == [t EXCEPT !.free = @ + n]       \* bug: the counter is forgotten
Released(t, n) == [t EXCEPT !.free = @ + n, !.cnt = @ - 1]
Store(t) == /\ free' = [free EXCEPT ![t.g] = t.free]
            /\ cnt' = [cnt EXCEPT ![t.g] = t.cnt]

Resort(d) == \E s \in Sorted(d, free', cnt') : list' = [list EXCEPT ![d] = s]
Acquire(a, d) == lock[d] = NoApp /\ lock' = [lock EXCEPT ![d] = a]
StayLocked(d) == UNCHANGED lock    \* bug: the lock is never released
Release(d) == lock' = [lock EXCEPT ![d] = NoApp]

-----------------------------------------------------------------------------
(* The daemon reads the GPUs of its node and serves before it registers.    *)
DaemonStart(d) ==
    /\ up[d] = "off"
    /\ up' = [up EXCEPT ![d] = "up"]
    /\ UNCHANGED <<table, app, wrk, link>>

RegisterDaemon(d) ==
    /\ Up(d) /\ d \notin Range(daemons)
    /\ daemons' = Append(daemons, d)
    /\ \E s \in Sorted(d, free, cnt) : list' = [list EXCEPT ![d] = s]
    /\ UNCHANGED <<program, free, cnt, busy, lock, app, wrk, link, up>>

(* AssignWorker, up to the loop over the daemons.  gm is what is looked     *)
(* for: galvanic's takes the first size of the request only.                *)
Exiting(a) == wrk[a].st \notin Live \cup {"none", "gone"}

StartRequest(a, want, gm) ==
    /\ app[a].pc = "idle"
    /\ Overlap # "none" \/ \A b \in Apps : ~Exiting(b)
    /\ app' = [app EXCEPT ![a] =
          [pc |-> "scan", want |-> want, gm |-> gm, k |-> 1, i |-> 1,
           got |-> <<>>, tmp |-> <<>>, then |-> "next"]]
    /\ UNCHANGED <<table, wrk, link, up>>

AssignWorker(a, r) == program = "katana" /\ StartRequest(a, r, Order(r))
GalvanicAssign(a, r) == program = "galvanic" /\ StartRequest(a, r, <<Head(r)>>)

Scanning(a) == app[a].pc = "scan" /\ app[a].k <= Len(daemons)
Node(a) == daemons[app[a].k]

(* The client's channel is seen to be shut down (IsDead).                   *)
SkipDead(a) ==
    /\ Scanning(a)
    /\ app[a].i = 1
    /\ ~Up(Node(a))
    /\ app' = [app EXCEPT ![a].k = @ + 1]
    /\ UNCHANGED <<table, wrk, link, up>>

(* FindEntryAndReserveMemory takes the lock, finds a GPU and loads ...      *)
FindEntry(a) ==
    LET p == app[a] IN
    /\ Scanning(a)
    /\ Enough(Node(a), p.gm[p.i]) # {}
    /\ Acquire(a, Node(a))
    /\ app' = [app EXCEPT ![a].pc = "reserve",
                 ![a].tmp = Loaded(list[Node(a)][Min(Enough(Node(a), p.gm[p.i]))])]
    /\ UNCHANGED <<program, daemons, list, free, cnt, busy, wrk, link, up>>

(* ... and stores the new values, sorts and releases the lock.              *)
ReserveMemory(a) ==
    LET p == app[a] IN
    /\ p.pc = "reserve"
    /\ Store(Reserved(p.tmp, p.gm[p.i]))
    /\ Resort(Node(a))
    /\ Release(Node(a))
    /\ app' = [app EXCEPT ![a].got = Append(@, p.tmp.g), ![a].i = @ + 1,
                 ![a].pc = IF p.i = Len(p.gm) THEN "spawn" ELSE "scan"]
    /\ UNCHANGED <<program, daemons, busy, wrk, link, up>>

(* No GPU of this node is left for the request: on to the next node, after  *)
(* what was reserved here is revoked.                                       *)
NotFound(a) ==
    LET p == app[a] IN
    /\ program = "katana"
    /\ Scanning(a)
    /\ lock[Node(a)] = NoApp
    /\ Enough(Node(a), p.gm[p.i]) = {}
    /\ app' = [app EXCEPT ![a] =
          IF p.got = <<>> THEN [p EXCEPT !.k = @ + 1, !.i = 1]
          ELSE [p EXCEPT !.pc = "revoke", !.i = 1, !.then = "next"]]
    /\ UNCHANGED <<table, wrk, link, up>>

GalvanicNotFound(a) ==
    /\ program = "galvanic"
    /\ Scanning(a)
    /\ lock[Node(a)] = NoApp
    /\ Enough(Node(a), app[a].gm[1]) = {}
    /\ app' = [app EXCEPT ![a].k = @ + 1]
    /\ UNCHANGED <<table, wrk, link, up>>

Refuse(a) ==
    /\ app[a].pc = "scan" /\ app[a].k > Len(daemons)
    /\ app' = [app EXCEPT ![a].pc = "refused"]
    /\ UNCHANGED <<table, wrk, link, up>>

(* RevokeEntryWithMemory for the i-th reservation.                          *)
RevokeEntry(a) ==
    /\ app[a].pc = "revoke"
    /\ Acquire(a, Node(a))
    /\ app' = [app EXCEPT ![a].pc = "revoking", ![a].tmp = Loaded(app[a].got[app[a].i])]
    /\ UNCHANGED <<program, daemons, list, free, cnt, busy, wrk, link, up>>

RevokeMemory(a) ==
    LET p == app[a] IN
    /\ p.pc = "revoking"
    /\ Store(Released(p.tmp, p.gm[p.i]))
    /\ Resort(Node(a))
    /\ Release(Node(a))
    /\ app' = [app EXCEPT ![a] =
          IF p.i < Len(p.got) THEN [p EXCEPT !.pc = "revoke", !.i = @ + 1]
          ELSE IF p.then = "next"
               THEN [p EXCEPT !.pc = "scan", !.k = @ + 1, !.i = 1, !.got = <<>>]
               ELSE [p EXCEPT !.pc = "refused", !.got = <<>>]]
    /\ UNCHANGED <<program, daemons, busy, wrk, link, up>>

-----------------------------------------------------------------------------
(* The daemon's SpawnWorker: fork, and a monitor thread for the child.      *)
(* katana's passes CUDA_VISIBLE_DEVICES (every GPU once), AVA_GPU_UUID and  *)
(* AVA_GPU_MEMORY, where a request for 0 is one for all the GPU has;        *)
(* galvanic's passes CUDA_VISIBLE_DEVICES only.                             *)
Visible(us) ==
    FoldLeft(LAMBDA acc, u : IF u \in Range(acc) THEN acc ELSE Append(acc, u), <<>>, us)
AlwaysAll(us, mem) == [j \in DOMAIN us |-> Memory[us[j]]]  \* bug: also when an amount is asked for
Adjusted(us, mem) ==
    [j \in DOMAIN us |-> IF mem[j] = 0 THEN Memory[us[j]] ELSE mem[j]]

Child(a, us, env) ==
    [st |-> "forked", node |-> Node(a), want |-> app[a].want, gpus |-> us, env |-> env,
     index |-> <<>>, j |-> 1, mem |-> 0, tmp |-> <<>>]

SpawnWorker(a) ==
    LET us == Restored(app[a].gm, app[a].want, app[a].got) IN
    /\ program = "katana"
    /\ app[a].pc = "spawn" /\ Up(Node(a))
    /\ wrk' = [wrk EXCEPT ![a] =
          Child(a, us, [visible |-> Visible(us), uuid |-> us,
                        memory |-> Adjusted(us, app[a].want)])]
    /\ app' = [app EXCEPT ![a].pc = "spawned"]
    /\ UNCHANGED <<table, link, up>>

GalvanicSpawn(a) ==
    /\ program = "galvanic"
    /\ app[a].pc = "spawn" /\ Up(Node(a))
    /\ wrk' = [wrk EXCEPT ![a] =
          Child(a, app[a].got, [visible |-> app[a].got, uuid |-> <<>>, memory |-> <<>>])]
    /\ app' = [app EXCEPT ![a].pc = "spawned"]
    /\ UNCHANGED <<table, link, up>>

SpawnReply(a) ==
    /\ app[a].pc = "spawned" /\ Up(Node(a))
    /\ app' = [app EXCEPT ![a].pc = "busy", ![a].i = 1]
    /\ UNCHANGED <<table, wrk, link, up>>

(* The daemon is gone before it answers: the RPC fails, all is revoked.     *)
SpawnFails(a) ==
    /\ app[a].pc \in {"spawn", "spawned"} /\ ~Up(Node(a))
    /\ app' = [app EXCEPT ![a].pc = "revoke", ![a].i = 1, ![a].then = "refuse"]
    /\ UNCHANGED <<table, wrk, link, up>>

AddBusyWorker(a) ==
    LET p == app[a] IN
    /\ p.pc = "busy"
    /\ busy' = [busy EXCEPT ![p.got[p.i]] = @ \cup {[w |-> a, n |-> p.i, mem |-> p.gm[p.i]]}]
    /\ app' = [app EXCEPT ![a].i = @ + 1,
                 ![a].pc = IF p.i = Len(p.gm) THEN "assigned" ELSE "busy"]
    /\ UNCHANGED <<program, daemons, list, free, cnt, lock, wrk, link, up>>

-----------------------------------------------------------------------------
(* The API server: ProvisionGpu::Init finds the device index of every GPU   *)
(* it was given, then the channel's constructor listens for the guest.      *)
Index(env) ==
    [i \in DOMAIN env.uuid |-> Min({j \in DOMAIN env.visible : env.visible[j] = env.uuid[i]})]

Listen(a) ==
    /\ wrk[a].st = "forked"
    /\ wrk' = [wrk EXCEPT ![a].st = "listening", ![a].index = Index(wrk[a].env)]
    /\ UNCHANGED <<table, app, link, up>>

(* The application connects, and retries until connect_timeout_.  It ends   *)
(* when it likes, also while its connection waits to be accepted.           *)
Connect(a) ==
    /\ app[a].pc = "assigned" /\ link[a] = "none"
    /\ wrk[a].st = "listening"
    /\ link' = [link EXCEPT ![a] = "connected"]
    /\ UNCHANGED <<table, app, wrk, up>>

Accept(a) ==
    /\ wrk[a].st = "listening" /\ link[a] \in {"connected", "closed"}
    /\ wrk' = [wrk EXCEPT ![a].st = "serving"]
    /\ UNCHANGED <<table, app, link, up>>

ConnectTimeout(a) ==
    /\ app[a].pc = "assigned" /\ link[a] = "none"
    /\ wrk[a].st # "listening"
    /\ link' = [link EXCEPT ![a] = "failed"]
    /\ UNCHANGED <<table, app, wrk, up>>

GuestEnds(a) ==
    /\ link[a] = "connected"
    /\ link' = [link EXCEPT ![a] = "closed"]
    /\ UNCHANGED <<table, app, wrk, up>>

(* The API server exits when it sees the connection closed, or crashes.     *)
MayExit(a) ==
    \/ Overlap = "any"
    \/ Overlap = "assigned" /\ app[a].pc = "assigned"
    \/ \A b \in Apps : app[b].pc \in Resting /\ ~Exiting(b)
Exited(a) ==
    wrk' = [wrk EXCEPT ![a].st = IF Up(wrk[a].node) THEN "exited" ELSE "gone", ![a].index = <<>>]

HangUp(a) ==
    /\ wrk[a].st = "serving" /\ link[a] = "closed"
    /\ MayExit(a)
    /\ Exited(a)
    /\ UNCHANGED <<table, app, link, up>>

WorkerCrash(a) ==
    /\ wrk[a].st \in Live
    /\ MayExit(a)
    /\ Exited(a)
    /\ link' = [link EXCEPT ![a] = IF @ = "connected" THEN "closed" ELSE @]
    /\ UNCHANGED <<table, app, up>>

(* Its monitor thread reports the exit.                                     *)
NotifyLost(a) ==                   \* bug: the report is dropped
    /\ wrk[a].st = "exited" /\ Up(wrk[a].node)
    /\ wrk' = [wrk EXCEPT ![a].st = "gone"]
    /\ UNCHANGED <<table, app, link, up>>
NotifyWorkerExit(a) ==
    /\ wrk[a].st = "exited" /\ Up(wrk[a].node)
    /\ wrk' = [wrk EXCEPT ![a].st = "notify"]
    /\ UNCHANGED <<table, app, link, up>>

(* RemoveBusyWorker on the j-th GPU: the record of this address is removed, *)
(* if there is one; the update of the GPU's memory follows without a lock.  *)
RemoveBusyWorker(a) ==
    LET g    == wrk[a].gpus[wrk[a].j]
        mine == {b \in busy[g] : b.w = a}
    IN
    /\ wrk[a].st = "notify"
    /\ \/ /\ mine = {}
          /\ wrk' = [wrk EXCEPT ![a].st = "release", ![a].mem = 0, ![a].tmp = Loaded(g)]
          /\ UNCHANGED busy
       \/ \E b \in mine :
          /\ wrk' = [wrk EXCEPT ![a].st = "release", ![a].mem = b.mem, ![a].tmp = Loaded(g)]
          /\ busy' = [busy EXCEPT ![g] = @ \ {b}]
    /\ UNCHANGED <<program, daemons, list, free, cnt, lock, app, link, up>>

ReleaseMemory(a) ==
    LET w == wrk[a] IN
    /\ w.st = "release"
    /\ Store(Released(w.tmp, w.mem))
    /\ wrk' = [wrk EXCEPT ![a].j = @ + 1, ![a].mem = 0,
                 ![a].st = IF w.j = Len(w.gpus) THEN "reported" ELSE "notify"]
    /\ UNCHANGED <<program, daemons, list, busy, lock, app, link, up>>

(* worker_monitor_map_.erase destroys the std::thread it runs on while that *)
(* is joinable: std::terminate ends the daemon.                             *)
MonitorErase(a) ==
    /\ wrk[a].st = "reported"
    /\ up' = [up EXCEPT ![wrk[a].node] = "dead"]
    /\ wrk' = [wrk EXCEPT ![a].st = "gone"]
    /\ UNCHANGED <<table, app, link>>

Handler(a) ==
    \/ SkipDead(a) \/ FindEntry(a) \/ ReserveMemory(a)
    \/ NotFound(a) \/ GalvanicNotFound(a) \/ Refuse(a)
    \/ RevokeEntry(a) \/ RevokeMemory(a)
    \/ SpawnWorker(a) \/ GalvanicSpawn(a) \/ SpawnReply(a) \/ SpawnFails(a)
    \/ AddBusyWorker(a)
Exit(a) ==
    \/ Accept(a) \/ HangUp(a) \/ NotifyWorkerExit(a) \/ RemoveBusyWorker(a) \/ ReleaseMemory(a)
    \/ MonitorErase(a)

Next ==
    \/ \E d \in Nodes : DaemonStart(d) \/ RegisterDaemon(d)
    \/ \E a \in Apps :
          \/ \E r \in Requests : AssignWorker(a, r) \/ GalvanicAssign(a, r)
          \/ Handler(a)
          \/ Listen(a) \/ Connect(a) \/ ConnectTimeout(a) \/ GuestEnds(a)
          \/ WorkerCrash(a)
          \/ Exit(a)

Spec == Init /\ [][Next]_vars
FairSpec == Spec /\ \A a \in Apps : WF_vars(Handler(a)) /\ WF_vars(Exit(a))

-----------------------------------------------------------------------------

(* What application a holds on GPU g: reservations its handler has made and *)
(* not revoked and, once it is assigned, its busy records and the one whose *)
(* memory is being released.                                                *)
HeldBy(a, g) ==
    LET p == app[a]
        w == wrk[a]
        from == IF p.pc \in {"revoke", "revoking"} THEN p.i ELSE 1
    IN  CASE p.pc \in {"idle", "refused"} -> {}
          [] p.pc = "assigned" ->
                {<<b.n, b.mem>> : b \in {b \in busy[g] : b.w = a}}
                  \cup (IF w.st = "release" /\ w.tmp.g = g THEN {<<0, w.mem>>} ELSE {})
          [] OTHER -> {<<i, p.gm[i]>> : i \in {i \in from .. Len(p.got) : p.got[i] = g}}

Total(g) == MapThenSumSet(LAMBDA a : MapThenSumSet(LAMBDA x : x[2], HeldBy(a, g)), Apps)
Holders(g) == MapThenSumSet(LAMBDA a : Cardinality(HeldBy(a, g)), Apps)

(* Free memory and worker counter of a GPU account exactly for the requests *)
(* in progress and the busy API servers, through concurrent requests, their *)
(* revocation, failing daemons and exits (GpuListEntry).                    *)
MemoryAccounted ==
    \A g \in Gpus : free[g] + Total(g) = Memory[g] /\ cnt[g] = Holders(g)

(* The GPU an API server uses for position i of the request: its i-th       *)
(* provisioned GPU (GetGpuIndex) or, without provisioning, the only one.    *)
Device(a, i) ==
    LET w == wrk[a] IN IF w.index = <<>> THEN w.env.visible[1] ELSE w.env.visible[w.index[i]]

(* The provisions API servers are started with fit the GPU: for those that  *)
(* asked for an amount, AVA_GPU_MEMORY of all API servers on a GPU is no    *)
(* more than it has, from the manager's reservation through the order of    *)
(* the request, the daemon's environment and the exits.  galvanic's servers *)
(* carry no provision.                                                      *)
ProvisionsFit ==
    \A g \in Gpus :
        MapThenSumSet(LAMBDA a :
            IF wrk[a].st \notin Live THEN 0
            ELSE MapThenSumSet(LAMBDA i : wrk[a].env.memory[i],
                    {i \in DOMAIN wrk[a].env.uuid : wrk[a].want[i] # 0 /\ wrk[a].env.uuid[i] = g}),
            Apps) <= Memory[g]

(* An API server sees, for every position of the request that was looked    *)
(* for, a GPU on which the manager holds the memory asked for at that       *)
(* position, all on one node: with katana every position, with galvanic the *)
(* first (AssignWorker).                                                    *)
ServedAsRequested ==
    \A a \in Apps : wrk[a].st = "serving" =>
        \A g \in Gpus :
            LET is == {i \in DOMAIN app[a].gm : Device(a, i) = g} IN
            /\ is # {} => NodeOf[g] = wrk[a].node
            /\ Cardinality(is) = Cardinality(HeldBy(a, g))
            /\ {wrk[a].want[i] : i \in is} = {x[2] : x \in HeldBy(a, g)}

(* What an application held is free again some time after it ended: the API *)
(* server notices, the daemon reports its exit and the manager releases the *)
(* memory, unless the daemon is gone (MonitorErase).                        *)
MemoryComesBack ==
    \A a \in Apps : wrk[a].st \in Live /\ link[a] = "closed" ~>
        \/ \A g \in Gpus : HeldBy(a, g) = {}
        \/ wrk[a].st # "none" /\ ~Up(wrk[a].node)

(* Every request is answered: an API server or a refusal.                   *)
RequestsAnswered ==
    \A a \in Apps : app[a].pc # "idle" ~> app[a].pc \in {"assigned", "refused"}
=============================================================================
