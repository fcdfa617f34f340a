# A TLA+ verification of AvA

AvA forwards the calls of an accelerator API (CUDA, OpenCL, TensorFlow, ...) from
an application in a guest to an *API server* (a worker) that owns the device. A
generator, CAvA, writes the stubs and handlers of an API from an annotated
specification; a runtime shared by both sides moves the calls, tracks handles and
buffers, and records calls so that a worker can be migrated.

This directory models the runtime and the concurrent services around it. Every
definition is translated from the code; `PROJECT.json` ("map") gives the lines.

## 1. The system and its parts

| part | sources | module | extent |
|---|---|---|---|
| shadow thread pool | `common/shadow_thread_pool.c` | RemoteCalls | all but `shadow_thread_pool_free` (no caller) |
| call protocol: generated stubs and handlers, call map, dispatcher | `cava/nightwatch/generator/c/{stubs,caller,callee}.py`, `common/endpoint_lib.c`, `common/cmd_handler.c` | RemoteCalls, AbstractCalls | CALL, RET, callbacks, sync and async |
| shared-memory channel | `common/cmd_channel_shm*.c` | ShmBlock | the allocator of the parameter block |
| socket channels (vsock, TCP) | `common/cmd_channel_socket_*.cpp`, `common/socket.cpp` | SocketStream | byte stream, locks, buffers |
| start-up: guest driver, manager, API server | `guestdrv/vgpu_ldd.c`, `guestlib/src/init.cpp`, `worker/manager*.c`, `worker/worker.cpp`, channel constructors | GuestConnect | vsock/SHM start-up, pool, migration request (TCP: see GpuManager) |
| handle pool, record log, replay | `common/endpoint_lib.c`, `common/cmd_channel_record.c`, `common/cmd_handler.c`, `cava/.../c/replay.py` | RecordReplay, LogFile | creation to destruction, self migration; the file of the log |
| live migration | `common/cmd_handler.c`, `common/endpoint_lib.c`, `common/cmd_channel_socket_tcp.cpp`, `worker/worker.cpp` | LiveMigration, over RecordReplay | source and target worker; without explicit state |
| shadow buffers | `common/endpoint_lib.c`, `cava/.../c/buffer_handling.py` | ShadowBuffers | all lifetimes but `call` |
| command batching | `{guestlib,worker}/extensions/cmd_batching.c` | Batching | all |
| GPU resource managers, spawn daemons, GPU provisioning, TCP start-up | `worker/{katana,galvanic}`, `worker/provision_gpu.cpp`, `common/cmd_channel_socket_tcp.cpp` | GpuManager | registration, assignment, spawning, connecting, memory limits, exit |
| zero-copy regions, `worker/nvidia_gpu`, TensorFlow optimisations | | — | see section 8 |
| hypervisor channel, guest configuration, CAvA's parser, models and text generators | | — | no state to check: output, parsing, translation of text |

The exact source lists are in `PROJECT.json` ("components").

How they interact. An application's start-up (GuestConnect) or a request to the
resource manager (GpuManager) yields a worker and a channel to it. A stub builds a
CALL in the channel (ShmBlock or SocketStream), possibly through the batch thread
(Batching), notes it in its call map and waits; the dispatcher of the other side
gives it to the shadow of the calling thread, which runs the handler, may call
back, and sends the RET (RemoteCalls). Arguments that are handles or long-lived
buffers go through the handle pool (RecordReplay) and the shadow buffer tables
(ShadowBuffers). The components meet in narrow interfaces, so each has a module
of its own that takes from the others only what it can rely on: RemoteCalls takes
the channel to be a FIFO of whole commands, which is what SocketStream's
`CommandsArriveWhole` states; ShmBlock takes calls and returns to nest per thread,
which is RemoteCalls' `ReturnsAnswerInnermost`.

## 2. Conventions

* An action is what one handler does between two points at which another thread or
  process can act: a lock that is released, a blocking receive, a call to native
  code. Where the code makes a read-modify-write without the lock that protects it
  elsewhere, it is two actions (GpuManager's release of memory).
* The models take the debug build: an `assert` that fails, an abort, or a use of
  freed memory sets `failed` (release builds define `NDEBUG`). `NoAssertionFails`,
  `PoolAssertionsHold` and `OnlyCoincidenceFails` say which of them never happen.
* Payloads are left out. Sizes, ids, flags and orders are kept where something
  depends on them: the shared-memory cursor is a counter modulo `Word`, handle ids
  a counter with prefix bits.
* Some constants switch on a part of the environment (`OrphanedChildren`,
  `Overlap`, ...). Section 4 says what each run assumes and what happens otherwise.
* Module `MC_X` gives TLC the values that a `.cfg` cannot write; it defines nothing
  else.

## 3. Modules

**AbstractCalls** is what AvA promises of a forwarded call: `none -> issued ->
running -> finished -> done`, each step once.

**RemoteCalls.** `kind[e][i]` is the entry of thread id `i` in the pool of endpoint
`e` (`solid`, `shadow`, `dying`: has taken THREAD_EXIT but its destructor has not
run); `queue` its GAsyncQueue; `stack` the nesting of calls it waits for and
handlers it runs; `chan[e]` the commands under way to `e`; `pending` the call map;
`work` and `failed` are history. Actions: `AppCall`/`HandlerCall` (a stub up to its wait
loop), `Dispatch` (`shadow_thread_pool_dispatch`), `HandleCall`, `SendReturn`,
`HandleReturn` (`handle_command_and_notify` on a CALL or a RET), `CallReturns`
(the wait loop ends), `HandleExit` and `ShadowExit` (the two halves of the end of a
shadow), `ThreadStart`, `ThreadExit` (`shadow_thread_free_from_thread` on a solid
thread). A thread id is a pthread id, so `ThreadStart` may hand it out again. The pthread
of a new shadow may have the very id it shadows: `Dispatch` then ends the process at
`assert(t->thread != ava_id)`, of which the code says that it "may spuriously fail"
(`Coincidence`). Two threads that call, one in each process, are taken to have different
ids (`Home`): with equal ones they would share a table entry.

**ShmBlock.** The cursor of each side (`cur`), `reserve_param_block` with its wrap,
and the regions in use (`live`); guest and worker threads go round
build–send–handle–free. `since` counts what was reserved after a command.

**SocketStream.** A command is a block of memory, a sequence of units that know the
command, the buffer and the place they belong to; the first unit holds the fields of
`struct command_base`. `Build` reserves struct and data region, `Attach` copies one
buffer after the other and stores its id, the offset in the block. `stream[s]` is the
socket, of bounded `Capacity`, so sends and receives are partial. `mutex` is `send_mutex`, `pool` the lock of the
shadow thread pool, held over the send of THREAD_EXIT and taken by the dispatcher.

**GuestConnect.** The driver hands out blocks (`handed`), the guest asks the manager
(`ask`), connects with retries and sends INITIALIZE_API; the manager's accept loop
answers, then forks (`mgr`, `info`); a worker accepts one guest and maps its block.
`AppEnds` and `WorkerDies` end a process at any step; a broken connection ends its
peer at its next operation. The manager may end too (`ManagerDies`). The first workers of
the pool are forked with its listening socket open: while one of them lives, a guest still
connects and sends its request, which nobody will answer (`Listening`, `Queued`, `Reset`).

**LogFile.** The file of the record log as words at offsets: an access is an `lseek` of the
one file offset of the descriptor and then a read or write at a time (`TransferCommand`,
`UpdateFlags`, `Write`; `LoadCommand`, `ReadMetadata`, `ReadBody`). No lock keeps accesses
apart. When they do not overlap, a load returns what was recorded (`LoadsWhatWasRecorded`):
RecordReplay takes such an access as one step.

**RecordReplay.** `to_id`, `to_handle` are the tables of the handle pool, `log` the
record log with its expunged flags, `calls` the offsets recorded for a handle,
`native` what the native handles are, `held` what the guest's ids stand for.
Threads create, query, configure and destroy in the steps of the generated handler;
`Expunge` flags one recorded call at a time under `metadata_map_mutex`. An access to the
log is one step; two threads that have both come to the file may instead meet in it
(`OffsetMoved`), after which the log is unknown and the behaviour stops.
`Migrate` extracts, replays into an empty pool and log and swaps.

**LiveMigration** composes that worker, as the source, with a target. A thread that
handles COMMAND_START_LIVE_MIGRATION takes the live handles (`StartLive`), visits the
metadata of one after the other (`Traverse`, in any order), sends the recorded
calls in the order of the log, looking at their flags as it goes (`SendPair`), and
says it is done (`EndLive`), while the other threads of the source go on with calls.
`wire` is the TCP connection with `Capacity` commands. `TargetHandle` replays a
command as it arrives, with RecordReplay's `Replayed`. `TargetEnds` and `SourceEnds` end
a process; what is on the wire is then lost or read, as the code allows. The guest stays
with the source (reconnecting is a TODO of the code).

**ShadowBuffers.** Per side: `byId` (`buffers_by_id`), `shadow` and `coupled` (the
metadata of an address or object), `heap` (blocks AvA allocated). Calls pass, fetch or
free buffers of each lifetime.

**Batching.** `pending` (the queue of the batch thread), `wrap`, `active` (the batch),
`elapsed` against the timer, `queue`/`executed` (the API server).

**GpuManager.** `list`, `free`, `cnt`, `busy` are the GPU lists of the manager; `app[a]`
is the program counter of an AssignWorker handler, `wrk[a]` the API server and the
handler of its exit; `link[a]` the TCP connection between application and API server;
`up` the daemons. `program` is the pair of manager and daemon in use: katana's
assigns several GPUs and passes on a provision, galvanic's one GPU and none; the steps
in which they differ are separate actions (`AssignWorker`/`GalvanicAssign`,
`NotFound`/`GalvanicNotFound`, `SpawnWorker`/`GalvanicSpawn`). The API server finds
its devices (`Listen`, with `ProvisionGpu::Init`), the application connects or gives
up (`Connect`, `Accept`, `ConnectTimeout`) and ends; the server hangs up or crashes, its
monitor thread reports it (`NotifyWorkerExit`) and then ends the daemon
(`MonitorErase`).

## 4. Runs

Run `tlc -config <cfg> <module>`. Numbers are distinct states.

| run | states | what it shows |
|---|---|---|
| `calls_sync` | 2,625 | synchronous calls with callbacks, a guest and a native worker thread that also exit: the only assertion that fails is the one on a coincidence of ids (`OnlyCoincidenceFails`), returns nest (`ReturnsAnswerInnermost`); unless it fails every call returns and every shadow retires |
| `calls_any` | 20,425 | everything at once, id reuse included: commands can be lost, but `CallsInOnePlace`, `ReturnsFindTheirCall` and the refinement of AbstractCalls hold; a synchronous call completes only after all earlier calls of its thread unless an id was reused or the peer calls back (`SyncFlushesThread`); until a thread exits or a handler calls back, every call returns (`UndisturbedCallsReturn`) |
| `reuse_loses_call` | | *violation*, see section 5 |
| `shm_block` | 2,272,273 | regions that fit stay in their half; two commands in use overlap only if the older is a whole lap of the allocator old (`ValidForALap`) |
| `socket_stream` | 44,364 | commands arrive whole and in order through sockets smaller than a command; buffer ids lead to the data sent; every send ends |
| `guest_connect` | 221,039 | a worker has one guest, through deaths, the pool and a migration; two workers share bytes only where their VM's memory is used up (`BlocksApart`); the manager has the block of every port a migration can name; start-up ends, but for a guest whose connection waits at a listening socket that a pool worker keeps open after the manager's end (`Stranded`); guest and worker end together |
| `self_migration` | 812,943 | ids denote their objects before and after a migration, live objects are replayable, dead ones do not come back, no assertion of the handle pool fails |
| `live_migration` | 1,044,336 | beside running calls: the target has, when it is done, every object that the guest held from start to end, under the same id and with the calls recorded at the start (`TargetMatchesSource`); nothing whose destruction is complete is sent (`NothingDeadMigrates`); the target stops only at a call of an object destroyed beside the migration (`ReplaySucceeds`) |
| `log_file` | 214,972 | as long as no two accesses have overlapped, a load returns the command recorded at its offset, whole and with the flags set since |
| `shadow_buffers` | 174,113 | both sides name the same buffer, data fits, and between calls the shadows are exactly those whose lifetime lasts |
| `batching` | 62,006 | nothing lost or reordered, a synchronous call is a barrier over all threads, every command is executed |
| `gpu_assign` | 166,270 | both managers: memory and worker counters are exact through revocation, exits and a lost daemon (`MemoryAccounted`); the provisions API servers are started with fit the GPUs (`ProvisionsFit`); an API server sees GPUs on one node on which the manager holds what it looked for (`ServedAsRequested`); every request is answered; memory comes back when an application that connected ends (`MemoryComesBack`) |

### Bounds, and why they are enough

* **Calls.** Two threads give every interleaving of two pool entries. Depth 4 is
  call, callback, call, callback; `MaxStarts = 2` is one reuse of an id, which is
  what the exit code has to cope with. `MaxCalls` bounds the call ids of an
  endpoint. What these bounds may hide in the safety part is covered by the proofs.
* **ShmBlock.** `BlockSize = 14` makes halves of 7, in which 2 commands of the
  largest size fit and 3 do not, so wraps happen with commands in use. The cursor
  starts at 0, 3 or 40, all below the wrap of its machine word.
* **SocketStream.** `Capacity = 2` is below the size of a command (struct 3 with
  base 2, and a region of two buffers of 1), so every command is cut. One command per thread is
  enough for two senders to meet at the mutex and for THREAD_EXIT to meet a
  dispatch.
* **GuestConnect.** Two applications in one VM. `GuestShm = 5` and `BlockSize = 2` let
  two blocks fit; after two earlier applications (`Earlier`) both fall outside the memory
  and get offset 0. One death and one migration at any point, with and without a pool.
  Other placements in VMs and more deaths are covered by the proofs, for safety.
* **LogFile.** Two threads, two commands, one of them without a data region, and
  four accesses.
* **RecordReplay, LiveMigration.** Three objects, three or four native handles and
  configuring calls up to a log of two: a handle is reused, a child has a parent, an object has a
  configuring call between whose expunging and that of its creation others act. Two calls
  begin while the handler of a live migration is at work, which is enough to destroy and to
  create between any two of its steps; a wire of one command makes every second send wait.
  Self and live migration are separate runs. A dependency on a handle that was reused more
  than once, which needs more objects, is out of reach of these bounds.
* **ShadowBuffers.** Two threads, an object, two buffers of the application and one
  of the API, sizes 1 and 2, so a static buffer can grow.
* **Batching.** Batches of at most 3 of 4 calls, and a timer of 3 ticks: batches end by
  size, by timer and by a synchronous call.
* **GpuManager.** Two nodes, three GPUs; requests for one and for two GPUs, some of
  which fit only on one node or not at all once another is served, and one for 0, the
  size that stands for "any".

### What the runs assume of the environment

Each of these constants excludes a case in which the code does not have the
property. TLC finds the named failure when it is changed; the hazards in
`PROJECT.json` say where in the code.

| constant | in the run | otherwise |
|---|---|---|
| `MaxStarts = 1` (calls_sync) | a thread id is not reused | `reuse_loses_call` |
| `FittingRegions` (shm_block, met by its sizes) | a command is smaller than half the block | a region reaches into the half of the other side |
| `QuietDestroy = TRUE` | no object is created while another is being destroyed | an object that is given the native handle of the one being destroyed has its creating call expunged too (`LiveObjectsReplayable`) |
| `OrphanedChildren = FALSE` | children are destroyed before their parent | the parent's calls are expunged although `nightwatch.h` says that a dependency is captured along with its dependent; the replay of the child stops at `deref: no such id` (`PoolAssertionsHold`) |
| `ExplicitState = FALSE` | no extract/replace functions | a command is freed twice in the replay |
| `MaxMigrations = 1` (self_migration) | one migration | the second loads offsets of the first log |
| `QuietTraverse = TRUE` | no object is destroyed while a live migration walks over the metadata | a destroyed object's handle is given to a new one, which is visited in its place; if the parent of that one was visited before its creating call was recorded, the child cannot be replayed: `deref: no such id` (`ReplaySucceeds`) |
| `Uses` disjoint | threads do not share buffers or objects | one thread deallocates an object while another passes a buffer coupled to it: the worker frees the shadow under the running handler (`BlocksLargeEnough`) |
| `GrowCoupled = FALSE` | coupled and manual buffers keep their size | the list of an object keeps a shadow that growth has freed (`NoAssertionFails`) |
| `Overlap = "none"` | no API server exits while a request is handled | `"any"`: a server that exits before its busy entry is added releases nothing, and the entry stays; `"assigned"`: the release in `RemoveBusyWorker`, which takes no lock, and a reservation lose one another's effect (`MemoryAccounted`) |
| `Exiting = {g1}` (socket_stream) | threads exit on one side at a time | with an exit on both sides and full sockets, both dispatchers wait for the pool lock and nobody drains: a deadlock |

`LiveObjectsReplayable` speaks of the time before the first migration, which leaves the
recorded offsets pointing into the old log. It may also set the id counter back, after
which ids of destroyed objects are given out again. The properties of RecordReplay and LiveMigration speak of
behaviours in which no two accesses to the log file overlap, and the server is
taken to stop at an overlap: a load may then return NULL or the words of another place,
which is what TLC finds for `LoadsWhatWasRecorded` without its condition.

Deadlock is checked in `calls_sync`, `shm_block` and `shadow_buffers` (where `Idle` or the loop keeps a finished system going). In the
others processes end, budgets run out or a command is lost, so the system may stop.

### Fairness

Only weak fairness is used, of steps that a running thread takes by itself:
the dispatcher threads and threads inside AvA (RemoteCalls, SocketStream), the batch
thread and the API server's loop (Batching), the processes of the start-up
(GuestConnect), RPC handlers, monitor threads and API servers that accept or see
their connection closed (GpuManager). CallReturns, a handler
that ends, is fair: native functions are assumed to return. The application is never
fair: it need not start threads, call, exit, migrate or die. Nothing requires a mutex
to be fair, since the contenders of an instance are finitely many.

## 5. Where code and documentation disagree

`reuse_loses_call` (`common/shadow_thread_pool.c:156`). A shadow that took THREAD_EXIT
remains in `pool->threads` until its destructor runs. If the guest's pthread id is reused
in between, `shadow_thread_pool_dispatch` pushes the new thread's CALL to the dying entry,
whose queue is then freed unread; the stub waits for ever. `cava/lapis.md:404`: "The
function executes synchronously and returns after its work is complete."

Other cases are part of what a property says, or excluded by a constant of the table in
section 4:

* `common/endpoint_lib.c:562`. A destroying call frees the native object first and expunges
  the calls recorded for the handle afterwards (`QuietDestroy`).
* `common/endpoint_lib.c:334`. `ava_expunge_recorded_calls` sets the flags of an object's
  calls one by one under `metadata_map_mutex`, which `_ava_transfer_command_in_pair` does
  not take. A live migration may find the creating call expunged and a configuring call not
  yet, and the target stops at `assert(handle != NULL)`: the exception in `ReplaySucceeds`.
* `common/cmd_channel_record.c:199`. A load seeks and then reads; another thread may seek in
  between (`OffsetMoved`, `SourceLogRace`).
* `worker/katana/manager.cpp:402` and `manager.h:193`. The busy entry is added after the API
  server was started, and memory is released without the lock (`Overlap`).
* `worker/galvanic/manager.cpp:233`. Only the first size of a request is looked for, while
  the comment at line 323 speaks of each requested GPU (`ServedAsRequested`).

## 6. Proofs

All theorems hold for every value of the constants, bounds included, that the named
assumptions (`ASSUME`) of the module admit. Where a theorem has a hypothesis beside
these, the table names it and the argument below says why it is there; the run of the
property has it too.

| module | theorems |
|---|---|
| RemoteCallsProofs | `TypeCorrect`: `[]TypeOK`; `CallsStayInOnePlace`: `[]CallsInOnePlace`; `EveryReturnFindsItsCall`: `[]ReturnsFindTheirCall` (the assertion of `ava_remove_call` never fails); `Refinement`: `ImplementsAbstractCalls` |
| RemoteCallsNesting | `CallsNest`: `[](Nested /\ OnlyCoincidenceFails)`; `NoOtherAssertionFails`: `[]OnlyCoincidenceFails`; `InnermostFirst`: `[]ReturnsAnswerInnermost`; all for `SynchronousOnly`, `IdsNotReused` |
| RemoteCallsOrder | `CallsKeepTheirOrder`: `[](~Ended => Orderly)`; `SyncCallFlushes`: `[]SyncFlushesThread` |
| ShmBlockProofs | `RegionsStayInHalf`: `[]RegionsInHalf`; `RegionsValidForALap`: `[]ValidForALap`; for `FittingRegions`, `FreshBlock` |
| SocketStreamProofs | `StreamKeepsCommands`: `[]Streamed`; `CommandsArrive`: `[]CommandsArriveWhole`; `BuffersArrive`: `[]BuffersReadBack` |
| BatchingProofs | `BatchingKeepsOrder`: `[]NothingLostOrReordered`; `SyncCallsAreBarriers`: `[]SyncIsBarrier` |
| GuestConnectProofs | `WorkersHaveOneGuest`: `[]OneGuestPerWorker`; `BlocksOfWorkersApart`: `[]BlocksApart`; `MigrationFindsItsBlock`: `[]MigrationFindsBlock` |
| ShadowBuffersProofs | `BuffersBound`: `[]Bind`; `TablesInverse`: `[]TablesAgree`; `NoRecordReadAfterFree`: `[]NoAssertionFails`; `CallerGetsOwnBuffer`: `[]SameBufferComesBack`; `DataFits`: `[]BlocksLargeEnough`; `ShadowsLiveAsLong`: `[]ShadowsMatchLifetimes`; all for `UsesApart`, `FixedSizes` |

**Calls.** That a RET finds its call is not inductive: it depends on where the RET
came from. The inductive invariant, `TypeOK /\ CallsInOnePlace`, follows a call
through the system. A CALL under way means that the work has not begun; a handler
frame, that it runs; a RET under way, that it has finished; and each of the three,
that the caller's call map has the call under the thread that carries it (`CmdOK`,
`FrameOK`, over `ChannelsOK`, `QueuesOK`, `FramesOK`). A completed call is
finished, and a call id is in the map at most once (`CallMapOK`). None of this
would survive a duplicate: taking one of two RETs would remove the entry the other
relies on. Hence `OneCommandPerCall` (no two equal commands in a queue, in the
channel, or across) and `OneHandlerPerCall`. Commands may be lost, as `reuse_loses_call` shows;
the invariant needs only that they never multiply. `calls_any` checks it with TLC.
The refinement maps a call to `CallStatus`; each action is shown to be one
abstract step of one call (`SendCallRefines`, `WorkRefines`, `HandlerRefines`,
`HandleReturnRefines`) or a stutter (`CallsUnchanged`).

**Nesting.** In general a RET may find a wait loop above the one it answers: an
asynchronous call returns in the middle of a later one, and a reused id has a shadow of
the earlier thread. So the two theorems take what `calls_sync` takes: all functions
synchronous (`SynchronousOnly`), every id used once (`IdsNotReused`). Then the stacks of a
thread and of its shadow mirror each other (`Faces`): where one side runs a handler, the
other waits for that call in the same place. `Nested` adds what a command under
way says: a CALL or a RET of call `n`, that the caller waits for `n` on top of its stack
and the other stack is one frame lower; an exit, that the thread has left with an empty
stack. So a command for a thread arrives when that thread can take it, no shadow gets a
command after its exit, and no assertion of the pool or the wait loops fails but
`Coincidence`, which nothing prevents: it takes a command off the channel and stops, so
what is left still nests.

**Order.** `SyncFlushesThread` needs the order of commands through five places: CALL on
the channel, CALL in the queue of the shadow, handler, RET on the channel, RET in the
queue of the thread. `Pipeline` says that the call ids ascend from the last place to the
first, that each place is in order, and that every call in the call map is in one of them.
It holds of a thread while it is `Calm` (it has not exited, and the other side has
called nobody): a callback would overtake, and after an exit the shadow may be gone with
its queue. `Orderly` therefore is conditional on `Calm`, and adds what
is needed to see that a thread that leaves this condition owes nothing more to the property.
It ends with the process at the assertion on a coincidence of ids (`Ended`), where a command is
lost and no call completes any more.

**Shared memory.** Two assumptions beside `BlockAssumption`, both hypotheses of the
theorems: `FittingRegions` (no command with its header fills a half) and `FreshBlock`
(no first offset is so large that adding a command to it wraps its machine word). The
code checks neither: `reserve_param_block` would place a larger region across the end
of its half. The inductive invariant `SideOK` says
where the cursor is, seen from a command in use that is less than a lap old (`Lap`):
right behind the command and all that was reserved since, or, after a wrap, so that the
command, what was reserved since and one more region would not have fitted in the half
without it. `After` says the same of two commands, with the place of the later one
for the cursor, so overlapping commands are a lap apart. `since` does not count the bytes
a wrap skips, fewer than one region, which is why `ValidForALap` takes the largest
region off the lap.

**Sockets.** `Streamed` gives every command that was sent an offset in all that the side
ever sent (`Offsets`, a function that exists rather than a sum, which would need
induction). What the receiver has read of the next command, followed by what is in the
socket, is the part of that stream between the commands dispatched and the units the
holder of `send_mutex` still has to send (`Flow`). Each step moves a piece across one of
these borders; that the receiver reads the sizes from the base struct first makes it
stop at the end of a command. `WellMade` says of a block in memory that the
buffer ids lead to the buffers attached so far, and this travels with the block.

**Batching.** `Whole` is the first property. The barrier needs that what was sent is a
prefix of what was inserted (`SentInOrder`), also after fini, when the first property no
longer speaks; that the number of a command is its place (`Numbered`); and that
a synchronous command for which nobody waits was executed (`ReturnedExecuted`), which
a return preserves because a RET under way belongs to an executed command
(`RetsExecuted`).

**Start-up.** `OneGuestPerWorker` rests on the manager's counter: every port named in a
reply or held by an application is below `worker_id` (`PortsIssued`) and no two
exchanges name the same one (`PortsApart`), through the pool, failed forks and
migrations. `GuestOK` adds what a worker knows of the application in its queue or on
its connection, up to the init command from which it computes the base. `DriverOK` says that blocks lie within the memory of their VM and, until its driver
has handed out more than that, are disjoint and below the driver's cursor; with the VMs' areas apart (`VmsApart`) two workers share bytes only in
a VM of which more than its memory was handed out. `Registry` says that `worker_info` has
the block of the guest for every port that was given out, and that the manager never
falls off that table: the ports given out, the requests to come and the
migrations left are no more than the applications and migrations there are
(`PortsSuffice`, a count of `Outstanding`). That a request finds its block says nothing of the
worker that is forked for it: the code connects nothing to that one.

**Buffers.** Two hypotheses. `UsesApart`: threads work on different buffers and objects.
The mutex of the tables makes one operation atomic, not a call; a buffer that one thread
deallocates while another passes it is freed under the other's call (section 4). `FixedSizes`: coupled and
manual buffers keep their size, as in the run; a static buffer may grow. A coupled shadow
that grew would be freed and stay in the list of its object, so `NoRecordReadAfterFree` is
a statement about programs in which that does not happen. The first invariant, `Bind`, has three layers.
`SideOK`, about the tables of one side alone: `byId` and the metadata are inverse, a
record is solid where its id was issued and elsewhere owns a block of its size, and what
is listed under an object or address is a live shadow of full size, listed once.
The operations of `endpoint_lib.c` are shown to keep it before any action is looked
at (`NewRecordOK`, `MakesOK`, `GetsOK`, `AttachOK`, `FreesOK`). Then ownership
(`Promises`, `ObjectLists`): a buffer belongs to the thread that works with its solid side,
so a step of one thread leaves alone what others rely on (`OtherThreads`). Then what a call in
progress relies on (`PassOK`, `FetchOK`, `FreeOK`): that the record of its id is where
the call will look for it. The second invariant, `Kept`, is about time: every shadow is
listed where its promised lifetime says, or some call or deallocation under way is about to
free it; every promised buffer has a shadow nothing is about to free, or a call under
way is about to make it. With no call under way this is `ShadowsMatchLifetimes`.

Layout. One lemma per action, over lemmas about what the action leaves alone (`CommandsMove`,
`FramesMove`, `DriverFrame`, ...) and about the data (sequences without duplicates,
concatenation as the opaque operator `Cat`, regions); a last lemma combines them. Each
inductive invariant was checked on the instance of its run before it was proved.

## 7. What is only model-checked, and what is left out

Checked on the instances above only:

* All liveness (`SyncCallsReturn`, `ShadowsRetire`, `UndisturbedCallsReturn`, `SendsEnd`,
  `StartUpEnds`, `PairsEndTogether`, `EveryCommandExecuted`, `RequestsAnswered`,
  `MemoryComesBack`): fairness is outside the reach of the proof system.
* What needs induction over data: RecordReplay and LiveMigration (replay is a fold over
  the log: `ReplaySucceeds`, `TargetMatchesSource`, `NothingDeadMigrates`,
  `PoolAssertionsHold`, `LiveObjectsReplayable`, `NothingResurrected`, `IdsDenoteTheirObject`),
  LogFile (the file is a concatenation of records: `LoadsWhatWasRecorded`) and GpuManager (sums over the busy entries and the GPUs of a
  request: `MemoryAccounted`, `ProvisionsFit`, `ServedAsRequested`).

Abstractions to be aware of:

* Data races are modelled where the outcome is kept as two steps (GpuManager's counters, the
  file offset in LogFile). The unlocked insertion of `shadow_thread_self` into the pool's
  hash table is taken as atomic, and so are the unlocked hash table of the metadata in a
  live migration and the unlocked `push_back` on the manager's `daemons_`.
* An entry of RecordReplay's log stands for a CALL and its RET. Self migration happens while
  no other thread executes a call (it frees the pool they use); live migration runs
  beside them. The commands of a migration go out without `send_mutex`, on a
  connection that only the migrating thread uses; `SendPair` is one step.
* That a new shadow has the id of the thread it shadows is in RemoteCalls; that two
  calling threads of the two processes have equal ids is not.
* Batching's timer counts waits. That the code compares seconds with a limit meant in
  microseconds changes how long a tick is, which no property speaks of.
* What applications allocate on a GPU is not limited by any code of the repository: nothing
  calls `provision_gpu_consume_gpu_memory`, so GpuManager stops at the provision an
  API server is started with.
* Contents of buffers, the vsock doorbell, device set-up, NVML, `fork` and `exec` are
  reduced to their outcome. Address parsing and socket
  errors of the TCP start-up are left out, and so is the restart of a daemon.

## 8. Not modelled

* **Zero-copy regions** (`common/zcopy.c` and its drivers): a cursor that is advanced
  under a mutex, and a free that does nothing. No property of it takes
  more than one step.
* **`worker/nvidia_gpu/manager_nv.cpp`**: one thread handles one request after the other,
  and no guest in the repository sends the request it expects over TCP, so
  the inputs of a model would not be the program's. The races of managers are
  in GpuManager.
* **TensorFlow optimisations**: the files hold queues; what is put in and taken out is
  written in the API specifications.
* **Hypervisor channel, guest configuration**: output to a device, parsing of a file.
* **CAvA's parser, model, and generators of build files, printing and timing**: text to
  text, without state. The code the other generators emit is modelled.
