---------------------------- MODULE GuestConnect ----------------------------
(***************************************************************************)
(* How an application gets its API server over vsock and shared memory.     *)
(* The guest driver (vgpu_ldd.c) gives the application a parameter block of *)
(* the VM's shared memory; guestlib (cmd_channel_shm_new,                    *)
(* command_channel_socket_new) asks the manager (worker/manager.c,          *)
(* manager_tcp.c) for a worker port and connects to it; the manager answers *)
(* first and forks the worker afterwards, or keeps a pool of workers one    *)
(* request ahead; the worker (worker.cpp, cmd_channel_shm_worker_new)       *)
(* accepts one connection, reads the INITIALIZE_API command and maps the    *)
(* block it names.  start_migration asks the manager for another worker,    *)
(* to which nothing connects.                                               *)
(*                                                                          *)
(* Processes may die at any step, the manager included.  send_socket and    *)
(* recv_socket end the process when the peer is gone, and a closed peer     *)
(* (POLLRDHUP) ends guestlib and worker; so one death spreads.  The workers *)
(* of the pool are forked with the manager's listening socket open and keep *)
(* it over execv: it outlives the manager as long as one of them does.      *)
(***************************************************************************)
EXTENDS Integers, Sequences, FiniteSets

CONSTANTS
    Apps,        \* application processes
    Placements,  \* the ways the applications may be placed in VMs
    MaxVms,      \* MAX_VM_NUM
    Earlier,     \* numbers of applications a VM may have had before
    BlockSize,   \* AVA_APP_SHM_SIZE_DEFAULT
    GuestShm,    \* AVA_GUEST_SHM_SIZE, the shared memory of a VM
    PoolSize,    \* worker_pool_size
    MaxTries,    \* attempts of conn_vm_socket
    MaxMigrations, \* bound: calls of start_migration
    MaxDeaths,   \* bound: processes that die by themselves
    None

ASSUME ConnectAssumption ==
    /\ IsFiniteSet(Apps)
    /\ MaxVms \in Nat \ {0} /\ Earlier \subseteq Nat
    /\ Placements \subseteq [Apps -> 1 .. MaxVms]
    /\ BlockSize \in Nat \ {0} /\ GuestShm \in Nat /\ GuestShm >= BlockSize
    /\ PoolSize \in Nat \ {0} /\ MaxTries \in Nat \ {0}
    /\ MaxMigrations \in Nat /\ MaxDeaths \in Nat
    /\ None \notin Nat \cup Apps

VARIABLES
    handed,   \* handed[v]: vgpu_dev.shm->cur_offset of VM v
    app,      \* app[a]: state, VM, block offset, worker port, attempts, ...
    ask,      \* ask[a]: the exchange of a with the manager
    calls,    \* connections in the manager's listen queue
    mgr,      \* the manager: state, application served, worker_id, ...
    info,     \* worker_info: the block registered for a worker port
    worker,   \* worker[p]: the worker of port p
    budget    \* what is left of the two bounds

vars == <<handed, app, ask, calls, mgr, info, worker, budget>>

MaxPort == Cardinality(Apps) + MaxMigrations + PoolSize
Ports == 1 .. MaxPort
Vms == 1 .. MaxVms

(* An application goes through the states "new", "mapped", "connecting",    *)
(* "connected", "running" and "exited", a worker through "none", "forked",  *)
(* "listening", "accepted", "running" and "exited".                         *)
NoWorker == [st |-> "none", calls |-> <<>>, peer |-> None, base |-> None]
NotAsking == [st |-> "none", kind |-> "new", port |-> 0]

(* The driver counts on over the managers and the applications of its VM:   *)
(* blocks are not taken back.  AVA_WPOOL is read once: pool is the number   *)
(* of workers kept ahead.                                                   *)
Init ==
    /\ \E n \in Earlier : handed = [v \in Vms |-> n * BlockSize]
    /\ \E vm \in Placements :
         app = [a \in Apps |-> [st |-> "new", vm |-> vm[a], block |-> None, port |-> 0,
                                tries |-> 0, init |-> FALSE]]
    /\ ask = [a \in Apps |-> NotAsking]
    /\ calls = <<>>
    /\ \E pool \in {0, PoolSize} :
         mgr = [st |-> "pool", peer |-> None, id |-> 1, assigned |-> 1, pool |-> pool]
    /\ info = [p \in Ports |-> None]
    /\ worker = [p \in Ports |-> NoWorker]
    /\ budget = [migrations |-> MaxMigrations, deaths |-> MaxDeaths]

Alive(a) == app[a].st \notin {"new", "exited"}
Exits(a) == app' = [app EXCEPT ![a].st = "exited"]

-----------------------------------------------------------------------------
(* The guest driver and guestlib.  The block is the next one of the VM, or  *)
(* the one at offset 0 when the VM's memory does not suffice.               *)
NotHanded(off) == off              \* bug: cur_offset stays
HandedOn(off) == off + BlockSize

NextBlock(off) == IF off + BlockSize > GuestShm THEN 0 ELSE off

RequestShm(a) ==
    LET v == app[a].vm IN
    /\ app[a].st = "new"
    /\ app' = [app EXCEPT ![a].st = "mapped", ![a].block = NextBlock(handed[v])]
    /\ handed' = [handed EXCEPT ![v] = HandedOn(@)]
    /\ UNCHANGED <<ask, calls, mgr, info, worker, budget>>

(* The manager's listening socket is open in the manager and in the workers *)
(* of its first pool; the workers forked later close it.                    *)
HoldsListenFd(p) == p <= mgr.pool /\ worker[p].st \notin {"none", "exited"}

Listening == mgr.st # "gone" \/ \E p \in Ports : HoldsListenFd(p)

Queued(a) == \E i \in DOMAIN calls : calls[i] = a

(* The kernel connects whoever dials while the socket is open, with nobody  *)
(* to accept or not.  Without it the request cannot be sent and the process *)
(* ends.                                                                    *)
Dial(a, kind) ==
    /\ ask[a].st = "none"
    /\ IF Listening
       THEN /\ ask' = [ask EXCEPT ![a] = [st |-> "dialed", kind |-> kind, port |-> 0]]
            /\ calls' = Append(calls, a)
            /\ UNCHANGED app
       ELSE Exits(a) /\ UNCHANGED <<ask, calls>>

NewApplication(a) ==
    /\ app[a].st = "mapped"
    /\ Dial(a, "new")
    /\ UNCHANGED <<handed, mgr, info, worker, budget>>

StartMigration(a) ==
    /\ app[a].st = "running" /\ budget.migrations > 0
    /\ Dial(a, "migrate")
    /\ budget' = [budget EXCEPT !.migrations = @ - 1]
    /\ UNCHANGED <<handed, mgr, info, worker>>

(* A connection the manager had accepted is closed when it ends, one that   *)
(* waits in the queue when the socket is.                                   *)
Reset(a) == mgr.st = "gone" /\ ~(Queued(a) /\ Listening)

SendRequest(a) ==
    /\ Alive(a) /\ ask[a].st = "dialed"
    /\ ~Reset(a)
    /\ ask' = [ask EXCEPT ![a].st = "sent"]
    /\ UNCHANGED <<handed, app, calls, mgr, info, worker, budget>>

ManagerLost(a) ==
    /\ Alive(a) /\ ask[a].st \in {"dialed", "sent"}
    /\ Reset(a)
    /\ Exits(a)
    /\ UNCHANGED <<handed, ask, calls, mgr, info, worker, budget>>

TakeAnswer(a) ==
    /\ Alive(a) /\ ask[a].st = "answered"
    /\ app' = IF ask[a].kind = "new"
              THEN [app EXCEPT ![a].st = "connecting", ![a].port = ask[a].port]
              ELSE app
    /\ ask' = [ask EXCEPT ![a] = NotAsking]
    /\ UNCHANGED <<handed, calls, mgr, info, worker, budget>>

(* conn_vm_socket.  Its result is ignored: after the last attempt the init  *)
(* command goes to an unconnected socket and send_socket ends the process.  *)
Accepting(w) == w.st \in {"listening", "accepted", "running"}

NotCounted(n) == n                 \* bug: num_tries is not incremented
Tried(n) == n + 1

FirstPort(a) == 1                  \* bug: the answer is not looked at
PortToDial(a) == app[a].port

Connect(a) ==
    LET p == PortToDial(a) IN
    /\ app[a].st = "connecting"
    /\ IF Accepting(worker[p])
       THEN /\ worker' = [worker EXCEPT ![p].calls = Append(@, a)]
            /\ app' = [app EXCEPT ![a].st = "connected", ![a].tries = 0]
       ELSE /\ app' = [app EXCEPT ![a].tries = Tried(@),
                                  ![a].st = IF Tried(app[a].tries) < MaxTries THEN @ ELSE "exited"]
            /\ UNCHANGED worker
    /\ UNCHANGED <<handed, ask, calls, mgr, info, budget>>

(* init_command_handler and the INITIALIZE_API command.                     *)
SendInit(a) ==
    /\ app[a].st = "connected"
    /\ worker[app[a].port].st # "exited"
    /\ app' = [app EXCEPT ![a].st = "running", ![a].init = TRUE]
    /\ UNCHANGED <<handed, ask, calls, mgr, info, worker, budget>>

(* The dispatch thread, or send_socket, finds the worker gone.              *)
WorkerLost(a) ==
    /\ app[a].st \in {"connected", "running"}
    /\ worker[app[a].port].st = "exited"
    /\ Exits(a)
    /\ UNCHANGED <<handed, ask, calls, mgr, info, worker, budget>>

AppEnds(a) ==
    /\ Alive(a) /\ budget.deaths > 0
    /\ Exits(a)
    /\ budget' = [budget EXCEPT !.deaths = @ - 1]
    /\ UNCHANGED <<handed, ask, calls, mgr, info, worker>>

-----------------------------------------------------------------------------
(* The manager.  A fork that fails leaves the port without a worker.        *)
Forked(p) ==
    \/ worker' = [worker EXCEPT ![p].st = "forked"] /\ UNCHANGED budget
    \/ /\ budget.deaths > 0
       /\ worker' = [worker EXCEPT ![p].st = "exited"]
       /\ budget' = [budget EXCEPT !.deaths = @ - 1]

PoolOpen(m) == m.assigned <= m.pool

SpawnPool ==
    /\ mgr.st = "pool"
    /\ IF PoolOpen(mgr)
       THEN Forked(mgr.assigned) /\ mgr' = [mgr EXCEPT !.assigned = @ + 1]
       ELSE mgr' = [mgr EXCEPT !.st = "idle"] /\ UNCHANGED <<worker, budget>>
    /\ UNCHANGED <<handed, app, ask, calls, info>>

Accept ==
    /\ mgr.st = "idle" /\ calls # <<>>
    /\ mgr' = [mgr EXCEPT !.st = "accepted", !.peer = Head(calls)]
    /\ calls' = Tail(calls)
    /\ UNCHANGED <<handed, app, ask, info, worker, budget>>

(* recv_socket: the request, or the end of a peer that died before it.  A   *)
(* migration request for a port that is not registered ends the manager.    *)
ByPoolPort(m) == m.assigned             \* bug: the port of the worker forked next
InfoKey(m) == m.id

Receive ==
    LET a == mgr.peer IN
    /\ mgr.st = "accepted"
    /\ \/ /\ ask[a].st = "sent" /\ ask[a].kind = "new"
          /\ info' = [info EXCEPT ![InfoKey(mgr)] = app[a].block]
          /\ mgr' = [mgr EXCEPT !.st = "received"]
       \/ /\ ask[a].st = "sent" /\ ask[a].kind = "migrate"
          /\ mgr' = [mgr EXCEPT !.st = IF info[app[a].port] = None THEN "faulted" ELSE "received"]
          /\ UNCHANGED info
       \/ /\ ask[a].st = "dialed" /\ ~Alive(a)
          /\ mgr' = [mgr EXCEPT !.st = "gone"]
          /\ UNCHANGED info
    /\ UNCHANGED <<handed, app, ask, calls, worker, budget>>

(* The answer names the port of the worker the request is served by; to a   *)
(* peer that is gone it may fail, which ends the manager.                   *)
Respond ==
    LET a == mgr.peer IN
    /\ mgr.st = "received"
    /\ \/ /\ ask' = [ask EXCEPT ![a].st = "answered", ![a].port = mgr.id]
          /\ mgr' = [mgr EXCEPT !.st = "responded", !.peer = None]
       \/ /\ ~Alive(a)
          /\ mgr' = [mgr EXCEPT !.st = "gone"]
          /\ UNCHANGED ask
    /\ UNCHANGED <<handed, app, calls, info, worker, budget>>

NextId(m) ==
    [m EXCEPT !.st = "idle", !.id = @ + 1, !.assigned = IF m.pool > 0 THEN @ + 1 ELSE @]

Fork ==
    /\ mgr.st = "responded"
    /\ Forked(IF mgr.pool > 0 THEN mgr.assigned ELSE mgr.id)
    /\ mgr' = NextId(mgr)
    /\ UNCHANGED <<handed, app, ask, calls, info>>

(* SIGINT, or any other end of the manager.                                 *)
ManagerDies ==
    /\ mgr.st # "gone" /\ budget.deaths > 0
    /\ mgr' = [mgr EXCEPT !.st = "gone"]
    /\ budget' = [budget EXCEPT !.deaths = @ - 1]
    /\ UNCHANGED <<handed, app, ask, calls, info, worker>>

-----------------------------------------------------------------------------
(* A worker: one connection, the init command, then commands until the      *)
(* guest hangs up.                                                          *)
Listen(p) ==
    /\ worker[p].st = "forked"
    /\ worker' = [worker EXCEPT ![p].st = "listening"]
    /\ UNCHANGED <<handed, app, ask, calls, mgr, info, budget>>

AcceptGuest(p) ==
    /\ worker[p].st = "listening" /\ worker[p].calls # <<>>
    /\ worker' = [worker EXCEPT ![p].st = "accepted", ![p].peer = Head(worker[p].calls),
                                ![p].calls = Tail(@)]
    /\ UNCHANGED <<handed, app, ask, calls, mgr, info, budget>>

BaseOf(v, block) == (v - 1) * GuestShm + block

HandleInit(p) ==
    LET a == worker[p].peer IN
    /\ worker[p].st = "accepted"
    /\ \/ /\ app[a].init
          /\ worker' = [worker EXCEPT ![p].st = "running", ![p].base = BaseOf(app[a].vm, app[a].block)]
       \/ /\ ~app[a].init /\ ~Alive(a)
          /\ worker' = [worker EXCEPT ![p].st = "exited"]
    /\ UNCHANGED <<handed, app, ask, calls, mgr, info, budget>>

NeverHungUp(a) == FALSE                 \* bug: POLLRDHUP is not polled for
HungUp(a) == ~Alive(a)

HangUp(p) ==
    /\ worker[p].st = "running" /\ HungUp(worker[p].peer)
    /\ worker' = [worker EXCEPT ![p].st = "exited"]
    /\ UNCHANGED <<handed, app, ask, calls, mgr, info, budget>>

WorkerDies(p) ==
    /\ worker[p].st \notin {"none", "exited"} /\ budget.deaths > 0
    /\ worker' = [worker EXCEPT ![p].st = "exited"]
    /\ budget' = [budget EXCEPT !.deaths = @ - 1]
    /\ UNCHANGED <<handed, app, ask, calls, mgr, info>>

-----------------------------------------------------------------------------
Guest(a) ==
    \/ NewApplication(a) \/ SendRequest(a) \/ ManagerLost(a)
    \/ TakeAnswer(a) \/ Connect(a) \/ SendInit(a) \/ WorkerLost(a)

Manager == SpawnPool \/ Accept \/ Receive \/ Respond \/ Fork

Worker(p) == Listen(p) \/ AcceptGuest(p) \/ HandleInit(p) \/ HangUp(p)

Next ==
    \/ \E a \in Apps : RequestShm(a) \/ StartMigration(a) \/ Guest(a) \/ AppEnds(a)
    \/ Manager \/ ManagerDies
    \/ \E p \in Ports : Worker(p) \/ WorkerDies(p)

(* The steps of a running process are taken; that an application starts,    *)
(* migrates or dies is up to it.                                            *)
Fairness ==
    /\ \A a \in Apps : WF_vars(Guest(a))
    /\ WF_vars(Manager)
    /\ \A p \in Ports : WF_vars(Worker(p))

Spec == Init /\ [][Next]_vars /\ Fairness

-----------------------------------------------------------------------------

(* A worker has one guest for ever: the manager gives a port to one request *)
(* only, so nobody waits in the listen queue of a worker that has its guest *)
(* (worker/manager.c, worker_id).                                           *)
OneGuestPerWorker ==
    \A p \in Ports :
        /\ Cardinality({a \in Apps : app[a].port = p}) <= 1
        /\ worker[p].peer # None => app[worker[p].peer].port = p /\ worker[p].calls = <<>>

(* Two workers share bytes only when they serve applications of one VM      *)
(* whose driver has handed out more than the VM's memory (vgpu_ioctl,       *)
(* IOCTL_REQUEST_SHM).                                                      *)
BlocksApart ==
    \A p, q \in Ports :
        /\ p # q /\ worker[p].st = "running" /\ worker[q].st = "running"
        /\ worker[p].base < worker[q].base + BlockSize
        /\ worker[q].base < worker[p].base + BlockSize
        => LET v == app[worker[p].peer].vm IN
           v = app[worker[q].peer].vm /\ handed[v] > GuestShm

(* A migration request always finds the block of its worker registered,     *)
(* and it is the application's own (worker/manager.c, "Worker_info          *)
(* faults").                                                                *)
MigrationFindsBlock ==
    /\ mgr.st # "faulted"
    /\ \A a \in Apps : app[a].port # 0 => info[app[a].port] = app[a].block

(* An application that has its block comes to run or ends, whatever other   *)
(* processes die, but for one case: the manager is gone, and the            *)
(* application's connection waits in the queue of the socket that a worker  *)
(* of the pool keeps open (worker/manager.c, the pool is forked after       *)
(* listen_vm_socket and does not close listen_fd; recv_socket has no        *)
(* timeout).                                                                *)
Stranded(a) == mgr.st = "gone" /\ Queued(a) /\ Listening

StartUpEnds ==
    \A a \in Apps :
        app[a].st = "mapped" ~> app[a].st \in {"running", "exited"} \/ Stranded(a)

Paired(a) == app[a].port # 0 /\ worker[app[a].port].peer = a

(* A worker whose guest is gone ends, and a guest whose worker is gone ends *)
(* (POLLRDHUP in command_channel_*_receive_command).                        *)
PairsEndTogether ==
    \A a \in Apps :
        (Paired(a) /\ "exited" \in {worker[app[a].port].st, app[a].st})
            ~> (Paired(a) /\ {worker[app[a].port].st, app[a].st} = {"exited"})
=============================================================================
