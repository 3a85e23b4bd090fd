# HYDRAFWLIB: models, checks and proofs

HYDRAFWLIB is a library that is injected into eight server executables. It hooks
their message dispatch, reads the certification message that describes the
server farm, opens databases, loads reference data, keeps an extension object
for every game object and offers a TCP server (NetLib), a thread pool and a
message class to extensions. This directory holds TLA+ models of its own logic,
TLC runs over small instances and TLAPS proofs for every value of the constants.

Paths below are relative to `src/`; `NetLib/`, `Database/`, `ObjectManager/` and
`DataManager/` stand for the directories of these names in
`source/HydraFramework/src/`.

Contents: [inventory](#1-inventory), [modules](#2-modules-and-how-they-follow-the-code),
[runs](#3-runs), [fairness](#4-fairness), [proofs](#5-proofs),
[findings](#6-where-the-code-and-its-comments-differ),
[limits](#7-what-is-not-modelled), [plan](#8-plan).

## 1. Inventory

### NetLib (`NetLib/*`)

| part | state | operations |
|---|---|---|
| `CSession` | reference count, socket, send queue and its byte count, `m_bSending`, receive and stream buffers, `m_dwLastActive`, heartbeat fields, `m_sendLock` | `AddRef`, `Release`, `PostSend`, `PostRecv`, `OnRecvCompleted`, `ProcessIncomingStream`, `OnSendCompleted`, `Close`, `DisconnectGracefully` |
| `CSessionMgr` | `m_sessionMap`, `m_mgrLock` | `CreateSession`, `GetSession`, `GetAllSessions`, `RemoveSession`, `RemoveTimedOutSessions`, `CloseAll` |
| `CThreadMgr` | worker handles, `m_bRunning` | `SpawnWorkers`, the completion loop, `StopAll` |
| `CNetLib` | `m_bIsRunning`, listening socket, completion port, parameters | `Start`, `AcceptLoop`, `Update`, `Stop`, the three callbacks of a derived server |
| `CTaskMgr` | a locked queue of tasks | `PushTask`, `PopTask`, `Execute` |
| sockets, `CThreadControl` | thin wrappers of system calls | |

A session is touched by the accept thread, by any IOCP worker, by the thread
that calls `Update` and `Stop`, and by application threads that look it up by
ID. Its life is decided by a reference count: the map has one reference, every
overlapped operation another. Two locks are involved and are nested in both
orders. What makes this code correct:

- every `AddRef` meets its `Release` on every path, and a session is deleted by
  the last owner only;
- there is at most one overlapped receive and one overlapped send, since each
  session has one `OVERLAPPED` of each kind, and a non-empty queue always has a
  send under way;
- however TCP cuts the stream, packets are delivered whole, once, in order;
- sessions are removed for being idle or for a missed heartbeat when they were,
  and dead ones are removed in the end;
- a queued message has one owner, is deleted once, and messages are sent in the
  order in which they were accepted;
- `Start`, `Update` and `Stop` return, and between two calls the server either
  serves or nothing of it is left running.

### Thread pool (`global/utils/ThreadPool.h`)

Queue under a lock, semaphore, shutdown flag, worker handles; `EnqueueTask`, the
worker loop, the destructor. The token of a task is released after the task was
pushed and outside the lock; the destructor adds one token per worker. Correct
when no task is left without a wakeup, every task is executed, tasks start in
FIFO order, and the destructor returns.

### Databases (`Database/*`) and reference data (`DataManager/*`)

`CDbManager` owns three `CDbConnectionPool`s (ACCOUNT, SHARD, LOG), each a
vector of idle connections, a count and two limits, and three `CDbInstance`s
that keep a connection each. `InitDB` connects; threads call `GetConnection` and
`ReleaseConnection`; the destructor shuts down. `CRefDataManager` loads six
tables through borrowed connections into maps and indices; the getters take a lock,
the loaders that fill them do not. Hard: a connect failing in the middle of `Initialize`, growth on
demand up to a limit, a `NULL` from an exhausted pool, queries failing on a
reload. Correct when connections are neither lost, shared nor opened past the
limit, every loader gives its connection back, and TRUE means loaded.

### Object manager (`ObjectManager/*`)

Four maps from game objects (PC, COS, monster, NPC) to extension objects and an
index from game ID to the same extension objects. Registration tests both,
deletion works from either side. Correct when the two views always agree and no
extension object is leaked or deleted twice.

### CMsg (`source/Common/src/NetEngine/Msg.*`)

A message with a read and a write cursor over a buffer inside the object that
moves to the heap when it grows, plus a second way to read from the end. Its
header shares the size field with an encryption flag. Correct when it behaves
like a tape of bytes, owns one buffer, and the header tells the size.

### Server modules, certification, `CHydraProcess`

Each of the eight servers (`source/Modules/*`) hooks `WinMain`, `init_module`,
`init_localdata` and the host's message handler. `CustomMsg` reads nine lists of
the certification message into nine maps of `CHydraProcess` and must leave the
message to the host as it was. `init_localdata` turns the maps into database
connection strings; `SendMsgToServerBody` routes by module name. Certifications
repeat, may be cut short (an exception leaves the reader in the middle) and may
arrive after the maps were used.

`CHydraProcess` itself owns the thread pool, the database manager, the reference
data and the object manager, created one after the other and deleted in a fixed
order, while tasks of the pool use them through global pointers
(`ENQUEUETASK`). Correct when no task meets a deleted manager.

### Hydra DLL and start-up (`source/HydraDLL/*`, the modules' `InitDll`)

The DLL is loaded before the host's first instruction. It hooks the two
functions that return the command line; the first thread that calls one of them
does the work: reads the ini file, patches the program according to its entry in
a table, loads the extension DLL, whose `InitDll` installs the hooks of its
server. Hard: any thread may be first, several may ask at once, and the work may
itself ask. Correct when the work is done once, in order, and no thread runs
in a program that is half patched.

### The rest

Static patches, logging, singleton and lock patterns, memory and hook utilities,
configuration and string helpers, vendored SDKs. `PROJECT.json` lists all 24
components with the reason where one is not modelled, and 40 hazards with the
line where each bites and the properties that watch it.

## 2. Modules and how they follow the code

| module | models | shape |
|---|---|---|
| `NetSession` | session ownership: `Session.cpp`, `SessionMgr.cpp`, `ThreadMgr.cpp`, `NetLib.cpp` | threads with `pc`, `frame`, `at`; one action per step between blocking points or shared accesses |
| `SendChannel` | what the send side of a session promises | abstract: a FIFO channel that breaks at most once |
| `SendQueue` | the messages of one session: `PostSend`, `OnSendCompleted`, `Close` and who calls them | one action per region under `m_sendLock`; implements `SendChannel` |
| `TaskMgr` | `CTaskMgr` | one action per method; implements `TaskExecutor` with capacity 1 |
| `NetLib` | `CNetLib` from `Start` to its destructor, `CThreadMgr` | EXTENDS `SendQueue` and `TaskMgr`; a `pc` per thread |
| `StreamParser` | `OnRecvCompleted`, `ProcessIncomingStream`, concurrent `Close` | bytes are stream positions |
| `Heartbeat` | `Update`, `RemoveTimedOutSessions` and the time stamps | a clock modulo `Wrap`, steps between reads of unlocked fields |
| `TaskExecutor` | what a thread pool promises | abstract: FIFO start, each task once, bounded parallelism |
| `ThreadPool` | `CThreadPool` | one action per lock region, wait or release; implements `TaskExecutor` |
| `DbPool` | `CDbManager`, `CDbConnectionPool`, `CDbInstance` | one action per critical section |
| `RefData` | `CRefDataManager::InitializeData` and the six loaders | EXTENDS `DbPool`: the loader is one of its users |
| `HydraProcess` | `CHydraProcess` from creation to destruction, `ENQUEUETASK` | EXTENDS `RefData`, with the pool as an instance of `TaskExecutor` |
| `Registry` | what the object manager promises | abstract: a one-to-one relation |
| `ObjManager` | `CObjManager` | one action per method; implements `Registry` |
| `ByteTape` | what a message promises | abstract: a tape with two cursors |
| `Msg` | `CMsg` | one action per method, exceptions included; implements `ByteTape` |
| `HydraInit` | the Hydra DLL: `TriggerHydraInit`, `DoSomeWork` | one action per step of each thread that asks |
| `ServerModule` | the eight modules, `CustomMsg`, `ServerInfo.h` | EXTENDS `HydraInit`; one action per hook, one per list entry read |
| `NetSessionProofs`, `StreamParserProofs` (with `Msg`), `NetLibProofs`, `HeartbeatProofs`, `ThreadPoolProofs`, `HydraProcessProofs` (with `DbPool`), `ObjManagerProofs`, `ServerModuleProofs` (with `HydraInit`) | theorems about the module of that name | TLAPS |
| `MC*` | constants and symmetry for TLC | |

Definitions keep the source's names; `PROJECT.json` maps each to its lines.
Operators introduced by a "Mutant" or "Plausible bug" comment are never used by
a specification: they are wrong variants of the definition below them, kept to
show that the run which checks a property would notice the bug.

### NetSession

`refCnt`, `queue`, `curBytes`, `sending` and the two locks are the fields of the
same names; `recvIO` and `sendIO` count operations the kernel has and no worker
has dequeued. A thread is described by where it is (`pc`), the outermost NetLib
function on its stack (`frame`) and the session it refers to (`at`), a raw
pointer, which may dangle. Code under a lock without a blocking call inside is
one action; where the code blocks with a lock held (`PostSend` disconnecting
under `m_sendLock`, `RemoveSession` closing under `m_mgrLock`), the holder is in
`sendLock` or `mgrLock`. An operation the kernel has may at any time complete with
data, or with zero bytes or an error, which the code treats alike; closing the
socket leaves it in the kernel until then. The `AddRef` and `Release` around a
`WSASend` that fails are one step, under `m_sendLock` throughout (`FailSend`).

A behaviour is followed up to its first access to a deleted session. `ub` then
names the place, all threads stop, and nothing more is claimed of it: what a
freed object does is undefined. `leak` is a history variable that counts the
references the code forgets to release, on the two paths that do. Messages have
size one; `OnRecvCompleted` with zero bytes and a session without a `CNetLib` do
not occur in the code's use and are not modelled.

### StreamParser

A byte is its position in the peer's stream, so the contents of the buffer show
which bytes it really holds, stale ones included. Reading a header where no
packet begins may give any size, as garbage would. `Close` may run between any
two steps of the parser, since it takes a lock the parser does not. A behaviour
stops where `m_dwStreamSize` wraps below zero ("crash"). After a `Close` nothing
is claimed about what the buffer holds.

### SendQueue, TaskMgr and NetLib

`SendQueue` is about the messages of one session: who owns each, what is counted,
what the kernel still sends. The test of the socket at the top of `PostSend` is
outside the lock, so a poster stays between that test and the lock (`posting`)
while anything may happen. `DeleteRefusedPing` is what `Update` does when
`PostSend` has returned false. `crash` holds the first deleted message that was
used; the behaviour stops there. What `NetSession` says about reference counts
is taken over as `leak`: a reference that will never be released.

`NetLib` composes it with the life of the server. `Start` acquires Winsock, a
port, a socket, workers and the accept thread, any of which may fail; `Stop` gives
them back in the code's order; `startups` and `ports` count what the operating
system holds. `Update` is three steps: sessions, tasks, return. The client comes
to the last of the `MaxStarts` calls of `Start`, and tasks are pushed before it
comes: both bounds keep combinations small that do not touch each other's state.
A worker wakes up once a second by itself, so the empty completions of `StopAll`
only make it faster and are left out.

### Heartbeat

One session. Each read or write of `m_dwLastActive`, `m_bHeartbeatPending` and
`m_dwHeartbeatSentAt` by `Update` or by a worker is a step of its own, and time
may pass in between. The history variables `idle` and `waited` measure real time,
without the wrap of the tick count, so that a property can compare what the code
believes with what was the case. `Update` leaves the session alone once it has
been removed. A stream overflow closes the socket but keeps the session in the
map with the time stamp 0 (`Overflow`); a send in flight at that moment still
completes (`orphan`), and a `PostSend` that had tested the socket goes on
(`late`). The disconnect that `PostSend` makes when the queue is far over its
limit belongs to `NetSession` and is left out here.

### ThreadPool

Any number of workers may have been created (`CreateThread` may fail for any of
them), clients and running tasks enqueue tasks, and one thread destroys the pool.
`wasted` is history: a token spent on a queue that another worker had emptied
between the test of `CheckShutdown` and the pop. At the exit of the process
Windows ends the workers before static destructors run; the model is about a
pool that is destroyed while its workers live.

### DbPool and RefData

`InitDB` is a sequence of one action per connection, any of which may fail, over
whichever databases are configured. Callers wait for `IsDbConnected`, as
`InitRefDataMgr` does, ask for at least one connection, and have returned
what they borrowed when the manager is destroyed. After the destructor the
connections of the instances stay open, which the model shows in `opened`.

`RefData` composes the loaders with the pools by extension: the loader thread is
a member of `Users`, its `GetConnection` is `DbPool`'s. The only pool it uses is
SHARD. A query yields any set of rows, fails to start or fails in the middle; the
rows reach the map and the index in two steps, between which a getter may look: the
getters hold `m_cs`, the loaders do not.
`nullUsed` records that a loader went through a NULL pointer and why; the
behaviour stops there.

### HydraProcess

The main thread creates the process and its managers in any order the functions
allow, `InitDB` runs on it, and destroys the process at any later time. Tasks
borrow connections, enqueue further tasks and return. `ENQUEUETASK` tests two
pointers and then calls through one of them, in two steps (`passed`); threads
outside the pool do the same (`Outsiders`). The destructor is the sequence
`DestroyOrder`. The pool is used through `TaskExecutor`, which `ThreadPool`
is shown to implement; the databases through `DbPool` itself, and the property
`DbPoolsUsedAsAssumed` says that this process keeps to what `DbPool` relies on.

### ObjManager

The methods hold `m_cs` throughout and are atomic. Extension objects have an
identity that is reused after deletion, so that a dangling entry would be seen to
name the wrong object. Pointers that callers keep after a lookup are outside the
model.

### Msg

One thread uses a message at a time. Every method that moves a cursor or writes
the header is an action, and a call that throws is an action too; `out` is what
the last call returned. A string's length takes one cell of the buffer instead of
two. Callers never move the write position behind what was written, which
`SetWrPos` would allow up to the capacity, and end a peek only after having begun
one, which `EndPeek` does not test (without one the read position becomes 0).
Nothing in the repository does either. Only the size field of the header is kept,
and a byte nobody wrote is `Junk`.

### HydraInit

`asking` is where each thread is in a hooked call for its command line,
`hydraInitState` the interlocked variable of `TriggerHydraInit`, `patched` the entries of the
module table's patch lists applied so far. A thread that asks while another is at
work goes on at once, as the code has it (`overtook`). The bytes of a patch are
not modelled, which patches belong to which program is.

### ServerModule

The host is not in the repository: the model lets it call the hooked functions in
the order it has to (`WinMain`, `init_module`, `init_localdata` when it likes)
and deliver messages, all on one thread. `server` is fixed at the start; actions
test it where the servers differ: four detour the dispatcher and open databases,
the other four replace an entry of the message table; DownloadServer registers
no handlers for server messages and MachineManager no filter. The eight
copies of the reader in `CustomMsg` are the same text; they are one action here,
guarded once per server, and each is mapped to its own lines. Records keep the key
and the fields looked up again. `reads` is history: all records read so far, from
which `LatestWins` recomputes the nine maps.

## 3. Runs

| run | instance | what it shows |
|---|---|---|
| `session_ownership` | 1 session, 2 workers, accept, main and 1 application thread, queue limit 1, 3 messages; 320k states | reference counts are exact (`RefExact`), use after free is confined to raw pointers and the send lock's guard (`UseAfterFreeSites`), one receive and one send at a time (`OneOperationOfEach`), threads wait for each other for ever only where two locks cross (`DeadlocksCross`) |
| `session_liveness` | the same without the application thread, queue limit 2; 130k states | `Stop` returns (`StopTerminates`); a session taken out of the map is deleted unless a reference leaked (`RemovedIsDeleted`) |
| `chained_send_leak` | as above | finding 1 |
| `stream_framing` | 3 packets of 2, 3, 5 or 6 bytes, receives of at most 4 bytes, a buffer of 8; 98k states | `BufferExact`, `DeliveredExactly`, `EveryPacketDelivered` |
| `pool_executor` | 3 workers, 2 clients, 3 tasks; 27k states | `NoLostWakeup`, `TaskIsExecuted`, `DestroyReturns`, and the pool implements `TaskExecutor` |
| `net_server` | 2 starts, 1 worker, 1 application thread, a short and a long message and a ping, a limit of one short message, 2 tasks; 462k states | one owner per message but for the ping (`OwnedOnce`), the send in flight is the front of the queue (`SendsInTurn`), the byte count and the limit (`BacklogAccounted`), it serves or is stopped (`ServesOrStopped`), what is released (`ReleasedButForSpawn`), `BacklogDrains`, `CallsReturn`; the send side implements `SendChannel`, the task manager `TaskExecutor` (`RunsTasksInOrder`) |
| `hydra_process` | limits 1 and 2, 2 tasks, 1 thread outside the pool, 2 loads of 1 row; 482k states | `NeverShared`, `TotalAccounted`, `TrueMeansLoaded`, `NullNeedsCrowd`, `TasksMeetManagers`, `DbPoolsUsedAsAssumed` |
| `obj_registry` | 2 PCs, 1 pet, 1 monster, 1 NPC, 3 IDs, 3 extension objects | `NoneLost`, and the manager implements `Registry` |
| `msg_tape` | header 1, sizes up to 3, inner buffer 2, 4 byte values, 2 heap arrays; 166k states | `BufferSound`, and the message implements `ByteTape` |
| `session_clocks` | clock modulo 5, timeouts 2, 1 and 1, 2 messages queued, `MaxLag` 1; 926k states | `IdleRemovalExact`, `DisconnectSound`, `DeadPeerRemoved` |
| `idle_removal_race` | the same | finding 2 |
| `certification` | 8 servers, 2 threads at start-up, 3 certifications, 2 messages; 800k states | `PatchedBeforeHost`, `LatestWins`, `HostGetsItWhole`, `DbFromCertification`, `RoutesFollowCertification` |

Why the bounds are enough:

- *Sessions.* No operation touches two sessions but the loops of `Update` and
  `CloseAll`, which treat them independently, and the proofs cover any number.
  With three messages and a queue limit of one, sends are refused, queued, chained,
  and the far-over-limit branch disconnects. Two workers can serve a receive and a
  send of one session at the same time, which is all the kernel can have in hand.
  The liveness instance has a limit of two, so that the far-over-limit branch
  (twice the limit) is out of reach: there it can deadlock for good, see below.
- *Stream.* The lengths are chosen so that a packet may be a bare header, shorter
  than, equal to or longer than a receive, so that two packets share a receive
  and one packet spans three, and so that packets of 6 do not fit behind an
  incomplete one (8 - 4 + 1 = 5) and overflow. Header 2 lets a header be cut.
- *Thread pool.* Two workers suffice to waste a token; a third shows that one can
  wait while the others run. A running task may enqueue the third task.
- *Server.* The long message is over the limit alone (refused, or accepted while
  the default limit stands), and behind another one it is far over it, so every
  branch of `PostSend` is taken; `SendChannel` needs three messages to tell an order
  from its reverse while one is in flight. Two starts show a restart, also after
  a start that failed. One worker is enough, since `m_sendLock` serialises what
  two would do; the proofs cover any number.
- *Process.* Limits 1 and 2: a pool grows exactly once. Three borrowers (two tasks
  and the loader) exhaust it. Two calls of `InitializeData` show the reload. One
  thread outside the pool suffices, since such threads only test and call.
- *Clock.* `Wrap` = 5 exceeds the session timeout plus the longest gap between
  two scans (2 + twice `MaxLag`), as 2^32 ms does in the code. It is small enough
  that the clock wraps many times and meets the special value 0. The proofs need
  only timeouts below the clock's period.
- *Start-up.* Two threads: the one that does the work and one that overtakes it.
  The first is followed until the main thread enters `WinMain`.
- *Certifications.* The three contents differ in every field that is looked up
  again: the server moves to another division and shard, modules change numbers
  so that two carry one name for a while, a body belongs to no shard, a
  division is never listed, FarmContent exceeds its index. Each may be cut
  anywhere, and two may arrive in any order.

Where a run says `CHECK_DEADLOCK FALSE` the system does stop: after `Stop`, the
destructor, the last packet, the last message the bound allows, or undefined
behaviour. `msg_tape` checks deadlock.

Every property of a passing run has a mutant in `PROJECT.json`: a plausible bug
put in place of one definition of the model under which the run fails.

### What properties leave out, because the code does

Some properties are as strong as the code allows and no stronger:

- `UseAfterFreeSites`: `GetSession` returns a pointer without a reference and the
  accept loop uses the session it created, so both can meet a freed session. The
  property says where; that it can happen is part of the model.
- `DeadlocksCross` does not say that there is no deadlock. `PostSend` disconnects
  with `m_sendLock` held and `RemoveSession` closes with `m_mgrLock` held, each
  taking the other lock inside (`NetLib/Session.cpp:137`,
  `NetLib/SessionMgr.cpp:67-77`): two threads that do so on one session wait for
  ever, and others behind them. The property says that such a pair is in every set
  of threads that wait for each other. A thread that waits for its first lock
  counts as waiting too; `OnClientDisconnected` is taken not to call back into
  NetLib.
- `RefExact` counts leaked references: a completion with an error or zero bytes
  removes the session without releasing the operation's own reference
  (`NetLib/ThreadMgr.cpp:51`), and the chained send (finding 1). So practically
  every session that was connected is never deleted. `RemovedIsDeleted`
  excepts them.
- `DestroyReturns` excepts behaviours in which a token was wasted: with one task
  and two workers both see a non-empty queue after shutdown, one pops, the other
  spends its token, and the destructor's token for it is gone. The destructor then
  waits for ever.
- `TrueMeansLoaded` excepts ObjStruct, whose loader tests the map of items
  (`DataManager/RefDataManager.cpp:448`), and says nothing of stale rows after a
  failed reload.
- `NoneLost` excepts the extension objects of NPCs once the manager is gone: the
  destructor has no loop for them.
- `DbFromCertification` says of LOG only that it is configured where SHARD is; which
  database it is given is finding 3.
- `OneOperationOfEach` speaks of sends while the socket is open: `Close`
  clears `m_bSending` while the aborted send is still in the kernel.
- `IdleRemovalExact` allows a removal when the session was touched between the
  sample and the scan (finding 2). Its other half, that no session stays idle for
  longer than the timeout and three gaps between samples, excepts the time stamp
  0 and clocks that come full circle in less. `DisconnectSound` forbids a disconnect only
  when a receive cleared the heartbeat after it was marked: an answer that
  arrives before `MarkHeartbeatSent` runs clears nothing, and the peer may be
  disconnected although it answered.
- `DeadPeerRemoved` excepts a time stamp of 0, which the code reads as "never
  active": a transfer at tick 0 leaves it, and so does `Close` after a stream
  overflow. Such a session, once no send is in flight, stays in the map until
  `Stop` (`NetLib/Session.cpp:203`).
- `OwnedOnce` excepts the ping. `Update` deletes it when `PostSend` returns false;
  `PostSend` has then deleted it already (no socket, over the limit), or, after a
  failed `WSASend`, has left it in the queue (`NetLib/NetLib.cpp:173`).
- `ReleasedButForSpawn` excepts calls of `Start` that got no worker: `Start` then
  calls `Stop` while `m_bIsRunning` is false, so nothing is undone
  (`NetLib/NetLib.cpp:100`).
- `BacklogAccounted` speaks of open sessions (`Close` empties the queue and keeps
  the count) and of backlogs without messages accepted before the limit was
  applied.
- `PatchedBeforeHost` excepts threads that ask for the command line while another
  one patches the host: they go on at once (`source/HydraDLL/src/Hydra.cpp:22`).
- `TasksMeetManagers` is about tasks. A thread outside the pool that tests
  `m_ThreadPool` may meet the freed pool, to which the pointer is left
  (`source/HydraFramework/src/HydraFramework.cpp:91`).
- `CallsReturn` assumes that finitely many tasks are pushed: `Execute` runs until
  the queue is empty.
- `EveryPacketDelivered` assumes packets that leave room for a receive behind
  them (in the code, at most 16384 - 8192 + 1 bytes): longer ones, which the
  header can express, overflow or not depending on how TCP cuts the stream.
- `RoutesFollowCertification` asks for exact routes when one module number carries
  the name: maps are never cleared, so after a renumbering two can, and the
  lower number is taken.

## 4. Fairness

Fairness is on the actions of the operating system and the code, never on peers,
users or failures.

- `NetSession!Fairness`: a thread that can run runs (`WF` per thread); a worker
  that waits is given a completion. A receive holds finitely many packets, so
  the loop over them ends although the model does not count them: that is the
  `SF` on `ParseDone`. `OnClientConnected` returns: `SF` on `ConnectedReturns`,
  as it may post messages meanwhile. The listening socket is closed by `Stop`,
  so `accept` fails. `Update` is called repeatedly; `Stop`, once begun,
  goes on. Nobody is obliged to begin it, to connect or to send.
- `ThreadPool!Fairness`: workers, the second half of an `EnqueueTask` and the
  destructor's steps run. Weak fairness of a worker's step includes that a
  waiting worker gets a token that stays available and that tasks return.
- `StreamParser!FairSpec`: the worker runs, and what the peer has sent is received.
- `Heartbeat!FairSpec`: time passes; `Update` and the worker run, and a send whose
  socket was closed completes, well or not. A receive in flight need not fail
  while the socket is open: the peer may just be silent. The bound `MaxLag` stands
  for an application that calls `Update` regularly.
- `NetLib!FairSpec`: the steps of `Start`, `Update` and `Stop` once called, the accept
  thread's way out of `accept` and its callback, a worker's way out of its loop, a
  send's completion, well or not, and the second half of a `PostSend`. Nobody is
  obliged to call `Start`, `Update` or `Stop`, to connect or to post.

## 5. Proofs

Proved by TLAPS, for every value of the constants that satisfies the named
assumptions:

| module | theorem | from |
|---|---|---|
| `NetSessionProofs` | `TypeCorrect`, `RefExactAlways`, `OwnersLive`, `DeletedWithLastOwner`, `FreedUseSites`, `OneOperationAlways`, `DeadlocksAlwaysCross`, `NoLimitNoDeadlock` | `ThreadsAssumption`, `BoundsAssumption`, `SessionsAssumption` |
| `StreamParserProofs` | `StreamTypeCorrect`, `StreamBufferExact`, `PacketsDeliveredExactly`, `WholePacketsDelivered`, `FittingPacketsNeverOverflow`, `UnderflowNeedsClose` | `StreamAssumption` |
| `StreamParserProofs` | `BufferSoundAlways`, `HeaderTellsSizeAlways`, `MsgIsTape` | `MsgAssumption` |
| `ThreadPoolProofs` | `PoolTypeCorrect`, `TokensAccounted`, `WakeupsKept`, `Drained`, `PoolImplemented` | `PoolAssumption` |
| `HydraProcessProofs` | `PoolTypeCorrect`, `ConnectionsAccounted`, `ConnectionsExclusive`, `PoolBounded` | `DbPoolAssumption` |
| `HydraProcessProofs` | `ProcessUsesDbAsAssumed`, `ProcessSharesNoConnection`, `ProcessLosesNoConnection`, `TasksAlwaysMeetManagers`, `TrueAlwaysMeansLoaded`, `NullAlwaysNeedsCrowd` | `DbPoolAssumption`, `RefDataAssumption`, `ProcessAssumption` |
| `HeartbeatProofs` | `ClocksTypeCorrect`, `OnlyIdleRemoved`, `IdleRemovedInTime`, `IdleRemovalAlwaysExact`, `OnlyMissedDisconnected` | `HeartbeatAssumption` |
| `NetLibProofs` | `SendsTakeTurns`, `MessagesOwnedOnce`, `BacklogAlwaysAccounted`, `ReleasedAlways`, `ServesOrStoppedAlways`, `CallsNeverHeldUp`, `ChannelImplemented`, `TaskThreadImplemented` | `SendQueueAssumption`, `TaskMgrAssumption`, `NetLibAssumption` |
| `ObjManagerProofs` | `ObjTypeCorrect`, `IndexAlwaysMatches`, `ExtensionsKept`, `RegistryImplemented` | `ObjAssumption` |
| `ServerModuleProofs` | `PatchedAlways` | `HydraInitAssumption` |
| `ServerModuleProofs` | `HostGetsItWholeAlways`, `LatestWinsAlways`, `DbFromCertificationAlways`, `RoutesFollowAlways` | `HydraInitAssumption`, `CertificationAssumption` |

The arguments:

- *NetSession.* `RefExact` counts owners by adding cardinalities of sets of
  threads; lemmas say how such a count moves when one thread changes its place.
  It is not inductive alone. The invariant adds the types (which bound what is
  subtracted), `LifeExact` (a session is deleted exactly when its count reached
  zero), `FramesOk` (each place belongs to the function whose frame is on the stack,
  so a thread at a given place is counted as the owner it is) and
  `FailLeaked` (a worker that disconnects after a failed completion has leaked
  its reference, which keeps the session alive). `OwnersLive`
  follows: an owner contributes one to the count, so the count is not zero. So
  does `FreedUseSites`: wherever else a thread stands with a pointer, it owns
  a reference. `OneOperationAlways` counts receives in the kernel together with
  the threads that handle one (`RxAll`), and sends likewise (`TxAll`); every action but
  `CreateSession` falls under one description of what it may do to the two counts
  (`IoStep`), for which the preservation is proved once. `DeletedWithLastOwner` reads
  `RefExact` the other way: the count is zero only if every summand is.
- *Locks.* `LocksOk` says which places of which functions hold `m_mgrLock` or a
  session's `m_sendLock`, and that a lock is held by a thread at such a place. A
  thread that waits is waited for by nobody unless it holds a lock or is joined, so in
  a set of threads that wait for each other one holds `m_mgrLock`, and what it
  waits for is a send lock; the holder of that one is in the set, holds nothing
  else, and waits for `m_mgrLock` (`WaitersCross`). That is a disconnect from
  `PostSend`, which needs a session far over its limit: without a limit no thread
  is there (`NoLimitNoHolder`), and nothing waits for ever (`NoLimitNoDeadlock`).
- *StreamParser.* `BufferExact` needs how the packets lie in the stream (`Laid`),
  which steps follow which (`Control`), that the parser is idle only when no
  whole packet waits (`Waiting`), from which the overflow bound follows, and
  that the packet handed over is the one at the front (`Given`). `WholePacketsDelivered`
  is `BufferExact` and `Waiting` read together. That the packets
  are ordered is stated of all pairs, so no induction over them is needed.
- *ThreadPool.* `NoLostWakeup` is an inequality between the queue, the tokens and
  the threads about to look or to signal; a worker that leaves or wastes its token
  saw an empty queue. Its second half, that the destructor joins no worker without a
  token but for those wasted, comes from an equation (`TokensExact`): every task
  enqueued and every worker to be joined brought one token, and each is in the
  semaphore, carried by a thread (`CarriedMove` says how that number moves), wasted,
  or spent on a task. `Drained` needs more: after shutdown no client enqueues any
  more, a worker exits only then and has a task exactly while it runs one
  (`ExitOk`), and the last one to exit saw the queue empty (`LastSawEmpty`): a
  task that was enqueued later was enqueued by a worker still running.
  `PoolImplemented` adds that a task is queued at most once and never while it
  runs (`OnceInv`); a worker that pops a task was idle until then, so fewer tasks
  ran than there are threads (`SpareWorker`).
- *DbPool.* `TotalAccounted`, `NeverShared` and `WithinMax` are proved together:
  the open connections are those idle, lent and being staged, without overlap.
  The invariant adds how far `InitDB` is and that the pools it has not reached are
  empty (`Staged`), that the totals keep to their limits (`Within`) and that
  nothing is idle or lent after the destructor (`Gone`).
- *ObjManager.* The index and the typed maps are inverse to each other
  (`IndexMatches`); with it, and `NoneLost`, each method is a step of `Registry`
  or a stutter under the mapping `entries <- Registered`.
- *HydraProcess.* The destructor of the process deletes the pool first, which
  waits for the tasks. The invariant says how far creation and destruction are
  (`Stages`), what each thread of the pool may be doing then (`Duties`), that only
  running tasks and the loader hold connections (`Holders`), that only
  threads that have passed the tests of `ENQUEUETASK` are about to enqueue
  (`Enqueuers`), and which tables are loaded (`Filling`). `DbPoolsUsedAsAssumed`
  turns every step into a step of `DbPool`, whose invariant is then used as proved.
- *Heartbeat.* The stored time stamps are the real time modulo `Wrap`: as long as a
  session is idle for no longer than the timeout, the difference of the two
  DWORDs is the idle time (`IdleExact`, `SampleExact`). So a difference above the
  timeout means it was idle for longer, or `last` moved after the sample
  (`RemovalSound`). The same argument, with `ClearedUnset` for a mark that was
  cleared, gives `WaitExact`, `JudgeExact` and `OnlyMissedDisconnected`. The lemma
  behind both is `SinceRange`, on subtraction modulo `Wrap`. `IdleRemovedInTime` is
  the converse: as long as no age exceeds the period, a scan that leaves a session
  alone met an age within the timeout (`ScanExact`), or a transfer came in between
  (`Untouched`); from there the age grows by the time since the last sample only,
  which `IdleBound` follows through the two samples of the next `Update`.
- *NetLib.* `SendsInTurn` needs that a closed session has nothing queued and that a
  thread between the two halves of `PostSend` has nothing in the queue
  (`TurnInv`). `OwnedOnce` splits the owners: queue (`QueuedOnce`), posting threads
  (`HeldOnce`), and that the two are apart and apart from what was deleted
  (`OwnersApart`). Because a message is queued once, the queue's bytes are a set, pairs
  of a message and a place in it, and `BacklogAccounted` compares `cur` with its
  cardinality: a push adds a set apart from it (`BytesAdded`), a pop takes one away;
  `BytesInv` adds that without a limit all that is queued is early, and that the limit
  holds as soon as anything else is. `Lifecycle` says what exists at each place of `Start` and `Stop`,
  `HoldInv` when the accept thread is in its callback, `Accounts` how often Winsock and the port were acquired. The refinements map an
  open session's queue, less what is in flight, to the channel's content
  (`ChannelStep`), and the queue of tasks to the executor's (`TaskOrder`).
- *Msg.* `Sound` says that the written cells hold bytes and lie in the buffer, and
  that the buffer is the object's own or the one array it owns; lemmas say what
  growing, writing, reading and moving a cursor make of it and of `Contents`,
  the written bytes. Each call is then one step of `ByteTape` on `Contents`
  (`WriteStep`, `ReadBytesStep`, ...), or none (`SetEncryptedStep`).
- *HydraInit.* `LoadInv`: the interlocked variable tells whether the work was
  begun and ended (`StateTells`), the place of the thread at work what is applied
  so far (`WorkTells`), and that is a prefix of the program's list (`InOrder`); who has a command line came after the work
  or overtook it (`GotPatched`).
- *ServerModule.* The maps are compared with the last record read (`MapsTell`).
  `LastReadAppend` says how one more record changes it. FarmContent's key is its
  place among the entries read, modulo 256 (`Indexed`, `NextResidue`).
  `DbFromCertification` looks at a prefix of what was read, which grows at its
  end only. `Flow` says which messages are where in the two hooks. That a last record
  and a first module of a name exist follows from `LeastNumber`.

`NoOverflow`, `UnderflowByCloseOnly`, `WholeDelivered`, `DrainedOnDestroy`,
`TokensExact`, `IndexMatches`, `WithinMax`, `NoFreedOwner`, `FreedExactly` and
`NothingHoldsUp` are proved and are not repeated in a run's cfg.

Each liveness property a run checks has a safety half that is proved, which says
that what it waits for cannot be cut off; that it then happens is what TLC checks
under fairness:

| liveness (TLC) | safety half (proved) |
|---|---|
| `StopTerminates` | `DeadlocksAlwaysCross`, `NoLimitNoDeadlock` |
| `RemovedIsDeleted` | `DeletedWithLastOwner` |
| `EveryPacketDelivered` | `WholePacketsDelivered`, `FittingPacketsNeverOverflow` |
| `TaskIsExecuted`, `DestroyReturns` | `WakeupsKept`, `TokensAccounted`, `Drained` |
| `DeadPeerRemoved` | `IdleRemovedInTime` |
| `BacklogDrains` | `SendsTakeTurns` |
| `CallsReturn` | `CallsNeverHeldUp` |

Only model-checked: everything temporal beyond `[]` (liveness under fairness is
out of reach of the proof system, as is ENABLED). Where a fact needs induction it is
stated of all pairs, or argued by a least counterexample (`LeastNumber`), for the
library's induction rules take an operator as a parameter, which none of the
provers can instantiate.

## 6. Where the code and its comments differ

1. **A chained send never gives its first reference back**
   (`NetLib/Session.cpp:243`, run `chained_send_leak`). The comment says the
   reference keeps the session "alive until completion". `OnSendCompleted` takes
   one for the next send and releases none for the completed one unless the
   queue has drained, so each chained send leaves the count one too high.
2. **A session that has just spoken is removed as idle**
   (`NetLib/SessionMgr.cpp:59`, run `idle_removal_race`). The clock is read before
   the lock is taken, `m_dwLastActive` is written without it: if the session is
   touched in between and the clock has moved, the unsigned difference wraps.
3. **The log database is the shard database**
   (`source/HydraFramework/src/ServerInfo.h:217`). The comment at line 208 says
   "Retrieve SHARD and LOG configs". `IniDbConfig` assigns `DbConfigShard` to both;
   the shard's `DbConfigLog`, which every `CustomMsg` reads, is used nowhere. This one
   has no run: any certification that names a log database other than the shard's
   shows it. `ServerModule!IniDbConfig` has it as the code does, and
   `DbFromCertification` leaves it out, so that it holds with and without the defect.

## 7. What is not modelled

Beside the components of section 1 listed under "The rest": the host's network
engine (fixed addresses in executables outside the repository), byte patches and
hook addresses, columns and formatting of database rows, ODBC statements and
diagnostics, the `InitDB` overload that reads an ini file, cooldowns and parties
of extension objects, `CMsg::Overwrite` and `CopyMsg`, which nothing in the repository
calls, massive messages, which it only passes on to the host, and dumps,
reference counting of `CMsg`. `InitDbMgr` and `InitRefDataMgr` are called once per
process: a second call would overwrite the pointer to the manager of the first and
leak it. Effects of undefined behaviour are not modelled
beyond the step in which it occurs.

The crossed locks of `PostSend` and `RemoveSession` (section 3) are in the model; the
liveness run is sized so that they do not meet.

Most lines of the repository are vendored headers (`global/dxsdk`) and lists of
byte patches (`source/HydraDLL/src/StaticPatches.cpp`), which have no behaviour of
their own to model. The share of lines that the map covers is that of the
repository as a whole and says little about its own logic, of which the parts
left out are those named here.

## 8. Plan

Order: what decides over memory and connections first, then what the servers do
with it, then start-up.

Done: `NetSession`, `StreamParser`, `SendQueue`, `TaskMgr`, `NetLib`, `Heartbeat`,
`ThreadPool`, `DbPool`, `RefData`, `HydraProcess`, `ObjManager`, `Msg`, `HydraInit`,
`ServerModule`, with the abstract `SendChannel`, `TaskExecutor`, `Registry` and
`ByteTape`, and the theorems above.

Next, modelling:

1. `ObjManager`: cooldowns, which compare tick counts; the queued messages and
   parties of an extension.
2. `DbPool`: the `InitDB` overload that reads an ini file.

Next, proofs:

1. That the send side of `NetSession` is a step of `SendQueue`'s, under the locks
   that `LocksOk` accounts for.
2. That a heartbeat that stays unanswered is judged in time, as `IdleRemovedInTime`
   does for the idle timeout; it needs the passes that a time stamp of 0 skips.

## Running

    tlc -workers 2 -config NetSession.cfg MCNetSession
    tlc -workers 2 -config ThreadPool.cfg ThreadPool
    tlapm NetSessionProofs.tla

`PROJECT.json` lists module and cfg of every run. The slowest run takes
about two minutes, the slowest proofs (`NetSessionProofs`, `NetLibProofs`) several.
