# A TLA+ verification of TideTerm

TideTerm is a terminal application: a Go backend (`pkg/`, `cmd/server`), a command line tool
(`cmd/wsh`), an Electron main process (`emain/`) and a TypeScript frontend (`frontend/`). This
directory holds TLA+ models of the parts of the backend whose correctness depends on order,
concurrency, failure or boundaries, the TLC runs that check them, and TLAPS proofs about them.

## 1. Inventory

The backend is one Go process. Windows talk to it over websockets, remote hosts over SSH or WSL,
and blocks over domain sockets; all of them speak the same RPC protocol, which the router carries.

### filestore (`pkg/filestore`)

*State.* An SQLite database with one row per file (`db_wave_file`) and one per 64 KiB part
(`db_file_data`), and in front of it a write-back cache: `FileStore.Cache` maps a key to a
`CacheEntry` with a pin count, a lock, the file's row and some of its parts. A file may be regular,
circular (a ring that keeps the last `MaxSize` bytes) or ijson (a log of JSON commands that is
compacted now and then).
*Operations.* MakeFile, DeleteFile, DeleteZone, Stat, ListFiles, WriteMeta, WriteFile, WriteAt,
AppendData, AppendIJson, CompactIJson, ReadFile, ReadAt, FlushCache; a goroutine flushes every five
seconds.
*Hard.* Partial parts, windows and laps of a ring; flushes that fail and are retried, and given up at
the fourth failure; a crash between a write and its flush; entries that are created, pinned and
discarded while other threads wait for them.
*Correct when* a reader sees what was last written wherever its bytes are, the database holds a
content that the file had, a thread has the entry's lock alone, and no write goes to a discarded entry.

### waveproxy (`pkg/waveproxy`)

An HTTP proxy in front of several upstream "channels" that speak model APIs.
*State.* The channel lists and their configuration, one circuit breaker per channel, affinity of a user to
a channel and of a user to a key, failed keys, sliding-window metrics, sessions with their response map,
a request history.
*Operations.* Select a channel, record a success or failure, reset a circuit; add, update, delete, ping
channels; pick keys; create, extend and expire sessions.
*Hard.* Requests run concurrently with each other and with edits of the lists; answers come late, when
the breaker is in another state; selection reads the list twice.
*Correct when* failover never returns to a channel that failed the request, passes no open circuit,
and answers every request.

### wps broker (`pkg/wps`)

*State.* Per event the subscribers to all scopes, to a scope, and to a scope pattern; the last events of
each scope. *Operations.* Subscribe, Unsubscribe, UnsubscribeAll, Publish, ReadEventHistory. *Hard.*
Publish takes the lock three times and delivers outside it, so it races every change of subscription
and every other Publish. *Correct when* a subscriber gets each event once, history is bounded and is
what was published, and a route that is gone gets nothing after its last concurrent Publish.

### wshutil (`pkg/wshutil`)

*State.* The RPC client (`WshRpc`): pending requests by id, each with a response channel and a context, and the
handlers of requests in progress. The router (`WshRouter`): registered and announced routes, pending requests
by id with their source and destination, one input queue. Around it websockets, domain-socket clients, proxies and
a multi-proxy, each with channels to and from the remote end.
*Operations.* Client: send a command, a request or a streamed request, read a response, cancel, time out;
serve a request, respond, stream, finish. Router: register, unregister and announce routes, route a message, answer for
a missing route. Connections: register, be replaced, end.
*Interaction.* A client's output is the input of a receive loop that fills the router's queue; `runServer` puts each
message on the channel of one connection. The router tells the broker which routes are gone, and is the client through
which the broker delivers.
*Hard.* A request may be answered, cancelled and time out at once; channels are closed while others
send; a route may be replaced while its old connection still ends; the router puts messages on its own queue.
*Correct when* every request ends, with its own answer, an error or a timeout; routes belong to the
newest connection; and no step takes the whole client, or the router, down.

### blockcontroller (`pkg/blockcontroller`)

*State.* A registry from block to controller; in a controller the process status, the shell process, its input channel, a
run lock; outside it the block's metadata and the route of the block's controller in the router.
*Operations.* ResyncController (on an edit, or by force), StopBlockController, the `run()` that starts a process, and the
goroutines that a process leaves: one waits for its end, one reads its pty, one feeds its input.
*Hard.* The run lock is let go before the process ends; a goroutine of an old process clears what may belong to a newer
one; Stop lets go of the lock while it waits. *Correct when* at most one shell runs for a block, with its input and its
route, and the status is that of the process.

### buildercontroller (`pkg/buildercontroller`)

*State.* The app, its process, the output buffer through which the process tells its port, a status. *Operations.* Start,
RestartAndWaitForBuild, Stop, the build, the wait for the process. *Hard.* A caller polls the status without the lock and acts on it
later. *Correct when* the status and the port are those of the process that runs, and none is left behind.

### conncontroller (`pkg/remote/conncontroller`)

*State.* Per host: status, SSH client, domain-socket listener, the connserver's session, whether wsh is enabled. *Operations.*
Connect (dial, set up wsh, perhaps dial again without), Close, EnsureConnection; goroutines that wait for the client, the
listener and the connserver to end. *Hard.* A client may drop, and a Close or another caller come, while a connection is
set up. *Correct when* "connected" means that there is a client, nothing is left open, and only a Close gives up a live one.

### wcore and wstore (`pkg/wcore`, `pkg/wstore`)

*State.* The object graph in SQLite: the client's windows, a window's workspace, a workspace's tabs (pinned or not, one active),
a tab's layout and blocks, a block's subblocks. *Operations.* Create, update, delete, move and switch objects: 19 service
calls. *Hard.* Most read and write several rows outside a transaction, and call each other: closing the last block closes the tab, the
window and the workspace. *Correct when* each reference has its row, each row its parent, and an active tab is one of its
workspace.

### The other parts

`tsunamicontroller` (the controllers of tsunami blocks), `wslconn`, `web` (HTTP, websockets), `eventbus`, `aiusechat` (AI chats, tool approval), `service`, `wshrpc`
(typed commands), `shellexec`, `genconn`, `fileshare`, `secretstore`, `userinput`, `wconfig`, `telemetry`, `vdom`, `tsunami`, `ijson`,
`mcpconfig`, the frontend and the Electron process. `PROJECT.json` lists each with its
status and, when it is not modelled, the reason.

## 2. Plan

The order is that of importance and of what can be proved: the store first, since everything the user sees
goes through it, then failover, then the RPC layer from the client outwards.

| | Modules | Abstract specification | Status |
|---|---|---|---|
| 1 | `BlockFile`, `BlockFileRouterProofs` | `FileContent` | modelled, checked, reads and refinement proved |
| 2 | `Scheduler`, `SchedulerBuilderProofs` | | modelled, checked, safety proved |
| 3 | `FileStore`, `FileStoreHistory`, `FileStoreBrokerProofs` | `Files` | modelled, checked, locking, reads and refinement proved |
| 4 | `WshRpc`, `WshRpcProofs`, `RpcHandler`, `HandlerConnProofs` | | modelled, checked, safety proved |
| 5 | `Broker`, `BrokerHistory`, `FileStoreBrokerProofs` | | modelled, checked, proved |
| 6 | `Router`, `BlockFileRouterProofs` | | modelled, checked, safety proved |
| 7 | `ObjectGraph`, `ObjectGraphProofs`, `ObjectGraphAlone` | | modelled, checked, `OnlyStaleWritesHarm` and `AloneIsSound` proved |
| 8 | `ShellController`, `ShellControllerProofs` | | modelled, checked, safety proved |
| 9 | `SshConn`, `HandlerConnProofs` | | modelled, checked, safety proved |
| 10 | `Builder`, `SchedulerBuilderProofs` | | modelled, checked, safety proved |
| 11 | `WslConn`: like `SshConn` without a listener | | to do |
| 12 | sessions, failed keys, websocket loops, tool approval | | to do |

The runs ask one question each of a component, and their properties are conjunctions where one state must satisfy several
things at once (`TablesAreCurrent`, `SettledIsTrue`, `InOrder`, `Sound` of a graph).
Two components may share a module of proofs; they share no variable and no lemma in it, and where both have a
definition of one name, that of the second bears the component's (`BrokerNext`, `ConnSpec`, `BuilderTypeOK`). None of the modules uses a RECURSIVE operator.

## 3. The modules and the code

`PROJECT.json` maps every definition to its lines. The correspondence in short:

**`BlockFile`** (blockstore.go, blockstore_cache.go). One file; each operation runs under the entry's lock, so it is one
action, with the failures inside it (after the load, at the flush, after the commit) as disjuncts. `dbFile`, `dbParts` are the rows;
`file`, `entries`, `flushErrors` the `CacheEntry`; `ijson` the counters AppendIJson keeps in the
metadata. Parts, windows, wrapping and the parts to load are translated literally (`computePartMap`,
`incompleteParts`, `writeAt`, `readAt`). A part that is not full is zero past its length, as the
slice's capacity is. `writeAt` is what it leaves alone (`KeptFrom`) with what it writes laid over it (`PartWritten`, byte by byte
`BytesOf`). `FileContent` says the same without parts, cache or rows.

**`FileStore`** (the same files). The concurrency around that lock: threads that pin, lock, work, unlock, unpin and
perhaps discard, for one file or one after another (FlushCache, DeleteZone, ListFiles). Entries are objects, and several may exist for a
key. A file is its size, which is enough to see a lost or torn update. `Files` is what the store promises of all
files together; `FileStoreHistory` adds what a flush owes since it began.

**`Scheduler`** (scheduler.go, channel/manager.go, handler/messages.go). Requests select a channel (a step for each
candidate, since the list may be edited between two reads), are upstream, record success or failure, and try
again without the channels that failed. `breakers` are the circuit breakers; time is the flag `cooled`. `mu` is Scheduler.mu. `moved` is a ghost: it
says of a selection that while it ran `LoadChannels` put another channel at an index that it had read (`Shifts`).

**`WshRpc`** (wshrpc.go, wshclientutil.go). The requesting side. A call is identified with its handler; `call[h]` is where its goroutine
is, `watcher[h]` the goroutine that waits for its deadline, `server` the single goroutine runServer. A stream is read by its
helper, which delivers each response, or the error with which it ends, to a channel of its own (`Deliver`; `respChan[h]` counts what is in it) and waits
while that is full. It ends without `finalize` on an error of the peer and on a response that ReUnmarshal refuses: its call has then returned, and
is registered until runServer or its watcher ends it. The peer may answer, or not, or never read; who reads a stream may stop.

**`RpcHandler`** (wshrpc.go, wshadapter.go). The serving side: up to two goroutines for each request, `<<r, "main">>`
and `<<r, "timer">>`, that may both finish it. `close` is two steps, as it cancels the context (`Close`), which wakes the timer goroutine, before it sets
`done` (`SetDone`). A value that json.Marshal refuses is not sent and the caller does not look at the error (`MarshalFails`); `sent` keeps
`Unencodable` in its place.

**`Broker`**, **`BrokerHistory`** (wps.go, the event commands of wshserver.go). Publish is four steps, since it takes the lock three times; the
history records what each route asked for last, what was stored for each type and scope, and what late subscribers have read.

**`Router`** (wshrouter.go, ws.go, wshutil.go, wshproxy.go). runServer with its lookups as steps, and the connections: websockets
with registerConn/unregisterConn under their global lock, domain-socket clients without one. Clients are external. Announced
routes, requests, streamed answers, cancels and one-way commands go through it.

**`ObjectGraph`** (wcore: workspace.go, window.go, block.go, layout.go; wstore; the services and wshserver.go as callers). A service
call is a stack of frames, one for each Go function it is in; each access of the database is a step (it has one connection, and
a transaction is one step for the others); what a function read stays in its frame (`Return` hands results down) and is
written back whole. `result` tells an error and a panic from success. The ghosts are `stale` (a row was written back, or
deleted, over a change that its writer had not read) and `overlap` (two calls ran at once).

**`ShellController`** (blockcontroller.go, shellcontroller.go, shellexec.go). Callers resync or stop one block; `run[c]` is the
`run()` that caller c started; `proc` holds the processes with the goroutines that wait for them and read from them. The read loop ends whenever a read
fails or the pty ends, though the process may live: it tells the process to end (`ReadEof`) and clears the controller's input (`ClearInput`). The race
ghosts in `raced` are the six interleavings that the code does not exclude (`lostStop` alone breaks neither of the two properties).

**`SshConn`** (conncontroller.go). `conn` is the SSHConn; clients, listeners and sessions are what was opened, each with the client
it runs over; `waiter` is the goroutine that waits for a client. `left` says of a session that its command could not be started: StartConnServer returns
without closing it. EnsureConnection sets wsh up again when the route is missing, whether the connserver lives or not. The steps that wait for the
host (`Dial`, `Asks`) are kept apart from the others (`Proceeds`), since none of them has a deadline. `raced` is the first of six interleavings that the code does not exclude.

**`Builder`** (buildercontroller.go, outputbuffer.go). A caller's build and buffer bear its name; `callback` is where a buffer looks
for the port. `overlap` says that a build began while another was under way, and nothing else: a Stop that meets a build (it polls without the lock, and
acts later) is not excused by it. A build may panic in the compiler; its handler leaves the status at "building".

The properties of `ObjectGraph` and of these three modules hold *unless* a named race has happened (of `Builder`, a part of one). The races are defined by what the code does
(which process a `run()` finds, whose the listener is that ends), not by the property failing; each is a finding of section 6, and
the properties say that they are the only ones.

What is external is marked so in the map: the peers of an RPC client, the transports, the clients behind
the router's connections, and the broker's users.

## 4. The runs

| Run | Instance | What it shows |
|---|---|---|
| `blockfile` | parts of 2 bytes; one file of any kind: regular up to 3 bytes, a ring of 3 bytes (rounded up to two parts) with 6 written, ijson up to 4 | Reads equal the abstract content wherever the bytes are, and the file implements `FileContent` through every flush, failed flush, crash and compaction |
| `filestore` | 2 threads and the flusher, 1 file, 3 entry objects, every operation, database errors, dropped at the third failure | mutual exclusion for each file, no entry discarded in use, reads of row and parts agree, the store implements `Files` |
| `filestore_fair` | 1 thread and the flusher, 2 files, no errors | calls return, unsaved data is saved, a flush that succeeds saved what it owed |
| `scheduler` | 2 requests of one user, 2 channels, the first of which may be deleted and come back, so that the second moves; threshold 1, two successes to close | breakers stay consistent, failover moves on unless a channel moved between the two reads, every request is answered |
| `rpc_calls` | any two calls among a request, two commands and a stream of up to 3 responses; channels of one place, that of the stream's reader included; a stream is cancelled alone or beside a command; the input may close on a call that is alone | order, timeouts, the life of the client; what a call leaves registered is watched and ends; a living client's calls return, but for a stream that nobody reads |
| `handler` | a call and a stream of up to two items, both may be late, the stream cancelled, and any value unencodable; one place in the output | responses in order, after the last nothing but a second last one of a stream; answered, with the named exceptions; the goroutines end |
| `broker` | 2 publishers, 3 events, history of 1 or 2 (capped) or 3, 1 route, 1 pattern | subscriptions, history and deliveries agree |
| `router` | any two of two websockets of one route and a domain-socket client with a process behind it; two messages of the clients' own accord; a queue of 3 | routes stay with the newest connection, requests are answered or refused, nothing is left in the tables |
| `object_graph` | any two of 19 service calls, one after the other or at once, on two databases (a window with a free named workspace beside it; two windows) | no dangling reference in any state, no orphan after a call, but by a stale write, which no call commits against itself; calls end |
| `shells` | two calls that resync, force or stop, one edit of the metadata, 3 controllers, 3 processes, from nothing or a running shell | one shell, connected, but for the named races; calls return |
| `ssh_connection` | two calls of Connect, Close, EnsureConnection; 2 clients, listeners and sessions; from a new or a settled connection | once all is quiet the status is the truth and nothing unknown is open but a session whose command could not be started, only a Close gives up a live client, but for the named races; calls return unless the host never answers |
| `builder` | an earlier build and two calls that start, rebuild or stop; 2 apps, 3 processes | once no build is under way a running status has a live process and a stopped one none, whatever overlaps; port and process agree, but for overlapping builds; calls return, but for a Stop behind a compiler that hangs or panicked |

Type invariants of `FileStore` and `Scheduler` are in their runs; those of the other modules were checked while they were written, and all
are proved.

*Why the bounds are enough.* The smallest number of each thing that lets the case happen was taken, and what can be
independent was kept apart: files share nothing but the flush (hence one file in `filestore` and two in `filestore_fair`); calls of
an RPC client meet in one server goroutine and in the map, so pairs of calls of every kind are taken (`MaxCalls`), two commands
among them because they share an entry of the map; event types are
independent but for UnsubscribeAll. A ring needs a second lap and a write longer than itself; a stream
needs a response in the middle; channels hold one message so that each can be full. The failure threshold 1 makes
circuits open at once; two successes to close leave room for a trip in half-open. `MaxConns` and `MaxSays` bound how many
connections and messages take part in a behaviour, not which ones. Three events are needed for a history of two to lose one. In `object_graph`
the ids are as many as two calls can make (a new workspace comes with a tab and a block); two calls are the least that race, and a longer
sequence of calls begins each time from a graph that `AloneIsSound` says is like the two it starts with. In
`shells` and `ssh_connection` there is one process, client or listener more than a caller alone can have, so that an old one is
always there beside a new one.
For each property of each run a mutant of the code, listed in `PROJECT.json`, breaks it under the
same bounds. Deadlock is checked where the system always has a next step; where the bounded
work is done and the system stops, the cfg says CHECK_DEADLOCK FALSE. `FirstCommandFirst` in `rpc_calls` leaves out the behaviours in which the two
commands, which are alike, change places; a symmetry set would do that for invariants, but not for the temporal property.
`ClosedAlone` lets the input close on a call that is alone: when the client has ended, calls have nothing in common any more; what the properties
say of several calls and a closed input is in the theorems, which have no bound. `CanceledAlone` does the same for a cancel of the stream beside the request, which
meet only in runServer. The lists of `scheduler` are two: the edit that matters is the one that moves a channel (`MCDeletion`); `MCInPlace` has edits that move none.

The router's queue is never full in `router` (at most 2 messages of the clients' own, one error, answers in hand): see the
deviations for what happens when it is.

*Fairness.* `FileStore`: goroutines run (WF of each thread's steps); a `sync.Mutex` does not starve a waiter (SF of Lock); runFlusher calls FlushCache
for ever, and finds no other flush running in the end (SF). `Scheduler`: one strong fairness for each request's steps, since it
takes `mu` against others that free it again and again; upstream requests have a timeout. Nothing is assumed of edits, of
users, or of OpenDuration's end. `WshRpc`: weak fairness of all steps of calls, watchers and timers together, and of runServer: a goroutine
that can run is run, a deadline passes, and since each call has finitely many steps none can hold up the others for ever;
nothing is assumed of the peer, the transport or the reader of a stream. `RpcHandler`: goroutines run, methods return, and deadlines that
may pass do pass; nothing is assumed of the reader. `Router`: goroutines run, and a client whose connection is open reads and answers. `ObjectGraph`: each call that runs goes on.

`ShellController`: one weak fairness of all: callers and their `run()` go on, a process that was told to end does (it is killed), the goroutines that wait
for it see it, and its pty ends after that (ShellProc.Close closes it once the process is gone, except on Windows); no process has to end by itself, and no read has to fail.
`SshConn`: the goroutines and the steps of a call that do not wait for the host go on. The dial (sshclient.go:705), ListenUnix (conncontroller.go:239),
NewSession (:390) and Start (:482) have no deadline: of a dial nothing is assumed, and of the others only that they end once the client is gone, which nothing assumes either. `EndsQuiet`
therefore names the calls that may hang (`Hangs`). Closing a listener asks the host too, under the connection's lock; it is taken to be answered.
`Builder`: calls go on, and so does a build once it is compiled (it waits for the port with a deadline). Of the compiler nothing is assumed.

## 5. What is proved

TLAPS checks the following for every value of the constants that the named assumptions of the modules allow: any number of threads,
files, requests, connections and channels, any sizes and thresholds. In each module the properties are not inductive; `IInv` (or the
invariants named below) is what they need; TLC finds it true on the run's instance as well.

*`FileStoreBrokerProofs`*, of `FileStore`, from `Spec` and the module's assumptions on its constants (finitely many threads, the null values are not
members of the sets they stand beside, WriteSize within SizeBound):
`TypeCorrect`, `PinsHold` (a pinned entry is the cached one), `MutualExclusion` (no two threads inside withLock for a key) and
`NothingAstray` (unsaved data is always in the cache). `IInv` adds that the pin count
of a cached entry is the number of threads that have it pinned (`PinCounts`; so the thread that takes it to 0 is alone), that an entry is cached under
one key, that an entry's owner is the thread inside, that an entry outside the cache is clean and unlocked, and that a thread about to
change a file has it cached (`ApplyInv`, for the type of its size). The proof has a lemma for each group of
actions: those inside the lock change neither pins nor locks (`WorkKeepsLocks`); Pin and Unpin change the count by
one, for which the cardinality facts of the library are used. On top of it, `ReadsWhole` (`ReadsAreWhole`: the row and the parts of a read are of
one state) and `Implements` (the store implements `Files`). They need `RowInv` (unsaved data has its row, but while the delete that
removed it holds the lock and has yet to clear the entry) and `ErrorInv` (failed flushes are counted for unsaved data
only). Each action changes the file of its own key by one step of `Files` (`Effect`) and no other file: another thread
inside the lock of that key would contradict `MutualExclusion`.

*`BlockFileRouterProofs`*, of `BlockFile`, for parts of any size, any options and any bytes: `TypeCorrect`, `ReadsMatch` (`ReadsMatchContent`) and
`Implements` (the file implements `FileContent`). The arithmetic comes first: two offsets of one window have the same place in a ring only if they are equal
(`partIdxAtOffset` and the remainder are one to one on a window), the parts that computePartMap finds incomplete are those of which a
write keeps a byte, and hence `writeAt` lays the bytes given over the file and keeps the others (`IsOverlay`), whichever parts are cached. `IInv` is
`RowsInv` and `CacheInv`: a cached file has a row with its options, sizes are those the options allow, and without a cached file there
are no parts, no counters and no failed flushes. The refinement then goes action by action; an ijson command and its newline, two writes in the
code, are one to the reader, as they are under one lock. `OptsAssumption`, `UsesAssumption` and `NoFileAssumption` give the constants
their types: options are as MakeFile rounds them, a merge of metadata is metadata, an ijson command has a byte.
`Implements` assumes that StaleOffsets is FALSE, as the runs do: a write from before the window is where the code departs from
`FileContent` (`WriteKeepsOtherBytes` in section 6). The other two theorems do not.

*`SchedulerBuilderProofs`*, of `Scheduler`: `TypeCorrect` and `BreakersConsistent`, under arbitrary edits of the configuration; and `FailoverMovesOn`
(`NeverSameChannelTwice` and `NeverThroughOpenCircuit`), under arbitrary edits too. The invariant
`IInv` adds what a request in each phase has; `FInv` that the snapshot of a selection agrees with the list, wherever that still has an entry, unless the selection
is `moved`, and that a request in flight whose selection was not is on a channel that it had not excluded and that was not open. So edits between the two reads do no
harm, a disabled, deleted or appended channel included, except for the one that puts another channel at an index that the selection has read.

*`WshRpcProofs`*, for any number of requests, commands and streams, any number of responses and every size of the four channels:
`TypeCorrect`; `OnlyWaiting` (`OnlyWaitingRegistered`: the map holds open channels, each under its id, of calls that wait or that are named below, and all that is registered will be
unregistered); `TimeoutsAreEarned` (`TimeoutIsEarned`); `OrderedReads` (`NoGaps`); and `ServerLives` (`ServerSurvives`). The invariants build on each other:
`TypeInv` adds to the types that runServer holds a response exactly when it is to deliver one. `RegInv` adds that a call that is not yet registered has
a fresh, open channel, that the error message of unregisterRpc is only in channels it closed, and that a call that returns is unregistered (`GoneInv`) unless
its send panicked or the helper of its stream left it. Of a stream that was left on an error of the peer, `LastInv` says that this was the peer's last response, so that runServer, which put it into the
channel, is about to unregister the call; for one that was left on an unreadable response there is its watcher: `Watched` says that what is registered has its watcher running, or its id in the queue
of runServer, or runServer has ended. `KnownInv`: a request is outside its
call (in the output, at the peer, in the input, at runServer) only if it was sent. `TimeoutInv` follows the right to
fail a call from its context through the queue of ids and the response channel to the caller: a context that is over before its
deadline is that of a call which is cancelled, or on its way out and unregistered. `LifeInv` is what keeps runServer from a closed
channel: a request has one response, which is in the input *or* at runServer *or* delivered, and as long as it is not delivered nobody has a
reason to unregister the call, except for its cancel. `GapInv` says that what is read, what is in the channel, what runServer holds and
what is in the input are consecutive, as long as the channel is open.

*`HandlerConnProofs`*, of `RpcHandler`, for any requests, any number of items and every size of the output: `TypeCorrect`, `ResponsesInOrder` (`InOrder`) and
`RequestsAnswered` (`EveryRequestAnswered`). `Shape` says how far the two goroutines of a request can be: who finalizes has a last response to
send and nothing else, and it is the main one that unregisters. `Alone`: until a stream is late its timer is woken by the main goroutine's close alone, which has its last response behind it and sets
`done`, or has set it; the timer may therefore send a last response of its own, but nothing can follow but that. `Progress` counts what was sent or could not be encoded against
what the method produced.

*`FileStoreBrokerProofs`*, of `BrokerHistory`, for any routes, types, scopes, patterns and publishers, and any number of events: `BrokerTypeCorrect`, `SubscribersAreMatched`
(`LastSubscriptionDecides`), `HistoriesAreNewest` (`HistoryIsNewest`) and `LateSubscribersMissNothing` (`NoEventMissed`). The three tables
of subscriptions together say what each route asked for last (`SubsAreWants`); a history is a suffix of all that was stored for its type and
scope, and its events are of that type; and an event that a late subscriber has not read is on its way to it or there (`Reached`), because Publish
stores it before it looks for subscribers. Of matching it is assumed only that it is a truth value for each pattern and scope.

*`BlockFileRouterProofs`*, of `Router`, for any connections and requests and every size of the channels: `RouterTypeCorrect`, the action property `RoutesKept` (`RouteIsKept`) and
`TablesCurrent` (`TablesAreCurrent`). For the routes, `WsOrder` says that a websocket which is not registered yet has not ended, and that the global
lock is held between the two halves of a registration; the router's table and that of the websockets then agree but for the
route being registered (`WsRouteInv`). For the requests, the command of a request is in one place only (`Once`: with its client, in the queue, or at the
router), and until the router has sent it on nobody can have answered (`Unasked`); so when the last answer is on its way (`Finished`) the
router has forgotten the request, or does so in its next step.

*`SchedulerBuilderProofs`*, of `Builder`, for any callers, apps and processes: `BuilderTypeCorrect` and `BuilderSettled` (its `SettledIsTrue`). The invariant has two parts. What always holds
(`TypeInv`, `NamesInv`, `StatusInv`): the controller and the builds name processes that were started, a build under way has its buffer, a status of running has a watched process, one of stopped has
none, and one of building has a build that is under way or panicked. What holds until two builds run at once, a Stop beside a build included: there is one build under way and the controller's buffer and app are its (`OneBuild`), a process writes to the buffer of the build that
started it and to no other (`OwnBuffer`), and a live process is the controller's, that of the build under way, or was replaced by a build of the same app
(`NoneLost`). `BuilderAssumption` says that None is none of the callers, apps and processes, and that there are some.

*`HandlerConnProofs`*, of `SshConn`, for any callers and any number of dials, listeners and sessions: `ConnTypeCorrect`, `ConnSettled`
(`SettledIsTrue`) and `OnlyCloses` (the action property `OnlyCloseDisconnects`). `ConnInv` has two parts. What always holds: the types of what each
call knows where it is, and that what the connection, a listener or a call names was opened (`NamesInv`). What holds until the first race: one call
connects and the status says so, or Close was called (`OneConnect`); a client that is up is the connection's, or about to be, and has its
waiter, or is about to (`OwnClient`); one call opens a listener or a session, and what is open is the connection's, or will be, or is a session that was left (`OneOpening`); and wsh is
on without a session only until the call that opened one, or failed to, says so (`WshHasSess`). A step that loses the last of these is
one of the six races, by the code's own conditions; the proof of each action shows that.

*`ShellControllerProofs`*, for any callers, controllers, processes, connections and edits: `TypeCorrect`, `ShellIsOne` (`OneShell`) and
`ShellIsConnected` (`Connected`). `IInv` has three parts. `Always`: types, names, `LivesInv` (a process whose wait loop has gone on has exited, and one whose read loop has ended was told to end) and
`LockInv` (who is in `run()` holds the run lock of its controller, and the process it is about to publish is known to nobody else). `Alone`, unless
goroutines or controllers overlap: calls and `run()`s work on the registered controller, only it says running, and a process that runs is its own,
or about to be published. `InOrder`, when no `run()` found the process of an earlier one either: no `run()` goes on without a process, and the
process of a controller that says running has its input and its route, or the `run()` that will give it them, unless it was told to end (by a Stop or by its own read loop), and its wait loop, which will set the
status, has not ended.
The attempt also showed that `Connected` was too strong as it had been stated (see the deviations).

*`ObjectGraphProofs`*, for any ids, any number of calls and any sound graph to begin with: `TypeCorrect`, `Inductive` (`IInv`) and `OnlyStaleHarms`
(`OnlyStaleWritesHarm`). The types include those of the frames (`FrameOf`: what each function knows at each step; `StackOf`: only a function that
waits has another above it), and hold whatever is overwritten. The rest of `IInv` holds until a stale write. Of the rows it says: ids are given
out once (`MadeInv`), nothing dangles, a tab is listed at most once (`ListedOnce`, without which removing it from a list would leave it listed), and
what is an orphan is about to be listed or deleted by the call that runs there (`OrphansInv`). Of the calls: what a running function relies on (`TopInv`: the tab that it is about to list
is there and listed nowhere), what one that waits still knows (`RowInv`: a tab that it found in a row is in that row), and that two calls do not rely
on the same new or dying row, or take from another what it relies on (`ApartInv`, `PairInv`). The last two are what makes the invariant inductive for any number of calls: each
says something of two calls at most. A step changes the stack of one call, and most steps only that (`QuietStep`); those that change rows have one lemma
for each table (`WorkspacesStep`, `TabsStep`, `KidsStep`, `BlocksStep`), `Leads` and `CallsStep` say what a change of the rows must leave alone
for the frames of all calls, and each action has a lemma (`...Keeps`) that shows it does. That a write back is not stale is used in the form: the row is still the one that the frame read.

*`ObjectGraphAlone`*: `AloneIsTrue` (`AloneIsSound`), for any ids, any number of calls one after the other and any sound graph to begin with. This needs to know why a call does not overwrite what it wrote itself, so which functions can wait below which and what each may change: its
invariant `AloneInv` (on top of `IInv`, as long as calls did not overlap) follows the whole stack of the one call that runs. `Above`, held for every
pair of the stack (`Ordered`), says what runs above a function that waits: above DeleteTab's loop only deletions of blocks, above DeleteWorkspace's loop only
those of its own tabs, above CreateWindow nothing that deletes. `Reads` says that what the running function read is still in the row, `Keeps` what
a waiting one finds when the function above it returns (`Linked` for each neighbour on the stack, `Ready` for the last result, where an error ends the loop): all that its loop has
yet to delete is in its list, or is what the function above deletes. `WindowsListed`, `Shown` and `ActiveListed` say
how far the client, the windows and the workspaces agree meanwhile: up to what the running function works on, a window that the call closes, and the windows whose user interface was told to claim
another workspace. TLC checked `AloneInv` first, with two callers and with one caller of three calls. Each action has a lemma (`...Alone`) again, over lemmas for each way a
stack changes, and `AloneAgrees` reads off the property when the stack is empty.

Only model-checked: liveness, since every property with ~> or <>[] needs fairness and ENABLED, which this prover cannot reason about
(`CallsReturn`, `DirtyIsFlushed`, `FlushSavesAll`, `CallsOfALiveClientReturn`, `EveryHandlerEnds`, `RequestsAreAnswered`, `CallsEnd` and each `EndsQuiet`).

## 6. Deviations

What the code does although it should not, or against its comments, met while modelling. Most can be seen by giving
the named property to TLC with the instance described, all of whose parts are in the modules.

| Property, module | Instance | What happens |
|---|---|---|
| `WriteKeepsOtherBytes`, BlockFile | StaleOffsets = TRUE | WriteAt computes the parts to load before the window cuts the range, so that a write from a part-aligned offset before the window of a circular file wipes its newest bytes (blockstore.go:253) |
| `HalfOpenAttemptsLimited`, Scheduler | 4 requests, 1 channel, the default thresholds | "Max attempts in half-open state" are not limited: what is counted are successes (scheduler.go:353) |
| `ServerSurvives` without its exception for cancels, WshRpc | one stream of two responses | runServer sends on a response channel that a cancel may just have closed; the panic ends the whole client (wshrpc.go:802) |
| `EveryCallReturns`, WshRpc | one request, MayClose | runServer has ended: the timeout of a call has nobody to go to, retrySendTimeout drops it, and the caller waits for ever (wshrpc.go:549) |
| `TimeoutIsEarned` for commands too, WshRpc | two commands | commands share the empty id, which stays in the map after the first has returned: the timeout of the first unregisters and cancels the second, whose send then reports "timeout sending request" at once, though its deadline is ahead (wshrpc.go:422) |
| `HandlerOrError`, WshRpc | one request, MayClose | OutputCh is closed before ServerDone is set: a send between panics, is recovered, and SendComplexRequest returns neither handler nor error (wshrpc.go:345) |
| `CutStreamFails`, WshRpc | one stream, MaxResponses = 2 | a stream that is failed while its channel is full ends like a complete one (wshrpc.go:453) |
| `OnlyWaitingRegistered` without its exceptions for streams, WshRpc | one stream | the helper of a stream returns on the peer's error, or on a response it cannot read, without `finalize`: the call has returned and its channel stays in the map, in the second case until the deadline, and the peer goes on (wshclientutil.go:78-88) |
| `CallsOfALiveClientReturn` without `Unread`, WshRpc | one stream of two responses | the helper of a stream whose reader has gone waits for it for ever (wshclientutil.go:80, :86, :89) |
| `InOrder` without the second last response of a stream, RpcHandler | one stream | `close` cancels the context before it sets `done`: the goroutine that waits for the context wakes in between and sends a last response too (wshrpc.go:635, :688-691) |
| `InOrder` without its exception for late streams, RpcHandler | one stream in Late | the deadline's goroutine finishes the stream between the other's test of `done` and its send (wshrpc.go:631), and a deadline drops items |
| `EveryRequestAnswered` with `Unencodable` not taken for an answer, RpcHandler | one call | a call whose value cannot be encoded is closed without an answer, and its caller waits for its own timeout (wshrpc.go:646-649); an item of a stream is skipped (wshadapter.go:151) |
| `NeverSameChannelTwice` and `NeverThroughOpenCircuit` without `~moved`, Scheduler | ChannelLists <- MCDeletion | the candidate is read by index after the list was edited: a channel that failed the request, or whose circuit is open, may be returned (scheduler.go:151) |
| `SettledIsTrue` without `left`, SshConn | one call | StartConnServer returns without closing its session when StdinPipe or Start fails: it stays open, and nobody knows it (conncontroller.go:474-485) |
| `EndsQuiet` without `Hangs`, SshConn | one call | a host that accepts the connection and says nothing holds Connect, and everyone who waits for it: NewClientConn, ListenUnix, NewSession and Start have no deadline (sshclient.go:678-705, conncontroller.go:239, :390, :482) |
| `EndsQuiet` without `StopHangs`, Builder | a build and a Stop | TsunamiBuildInternal takes no context and runs go commands without a timeout, and a panic in it leaves the status at building: Stop, whose context has no deadline, waits for ever (buildercontroller.go:184, :228, :481) |
| `ListedIsCurrent`, FileStoreHistory | two files, a thread that lists | ListFiles overlays the cache on rows it read before: a file may be listed as it never was during the call (blockstore.go:195) |
| `RequestsAreAnswered`, Router | InputChSize = 2 | runServer puts the message about a missing route of a one-way command on its own full queue, and waits for itself for ever (wshrouter.go:138) |
| (a behaviour of Router) | one Socket | the domain socket ends between the store of its route id and RegisterRoute: a dead client stays registered, and a client's end unregisters whoever has its route id by then (wshutil.go:491, :514) |
| (a behaviour of Broker) | UnsubscribeCommand of all types at any time | the goroutine of UnregisterRoute may run after the next connection of the route has subscribed, and removes its subscriptions (wshrouter.go:371) |
| (a behaviour of Router) | RouterSend on a closed channel | the message is lost and counts as sent, so that the requester waits for its timeout (wshproxy.go:260) |

In the four newer modules the deviations are the races that the ghosts name; dropping a race from a property's hypothesis shows its behaviour.

* `ObjectGraph`. *Stale writes:* rows are written back whole without a check of their version, so that a concurrent change is lost: a tab that was
  just created is no longer listed, a deleted one is listed again (`stale`; workspace.go:319 and others). *Panics:* DeleteBlockCommand of a tab's last block
  queues a layout action for the tab it has just deleted, and dereferences a nil tab (wshserver.go:517, layout.go:74); so does CreateTab
  when DeleteTab comes between; SetView dereferences a missing block. *Active tab:* SetActiveTab may name a tab that CloseTab is
  deleting. *Windows:* DeleteWorkspace, when another workspace is free, leaves the window at the deleted one until the user interface switches. "If fromElectron
  is true, it does not send an event to Electron" (window.go:131) is not so for the window whose closing deletes its workspace: that closes the window again, with false.
* `ShellController`. A forced resync whose `run()` finds a running process clears its input channel and its route and then uses the nil that the
  set-up returned (shellcontroller.go:381; "TODO better sync here", :383) (`second`). A read of the pty that fails ends the shell, though it may be healthy (:540-554). The end of an old pty or the late
  unregistration of an old shell's route hits the new shell's (:526, :592) (`overlap`). A Stop while a shell is being set up finds no process and is lost (`lostStop`), and
  when a controller is deleted while another call works on it, its shell
  outlives it (`lostDelete`; with three calls and two edits, more than the run has, that also breaks `Connected`, which had not excepted it until its proof failed). A Stop that has waited for a process sets the status of a newer one
  (`lateStop`). Two resyncs make two controllers, of which one is forgotten with its shell (`twoMakers`). The goroutine that feeds
  the input never ends.
* `SshConn`. Connect says "connected" although its client is gone, and later Connects are refused (`lateFinish`). A Close during
  Connect does not end it: the connection comes up after it (`twoConnects` when Connect is called again, and a client is
  left open). The end of an old listener clears a newer one, since only one of the two goroutines compares (:252, but not :542) (`staleListener`). wsh is
  recorded as enabled after its connserver has died (`latePersist`), or after the client was dialed again without it (`redialed`). An EnsureConnection that
  began before a drop and a Connect set up wsh twice (`twoSetups`).
* `Builder`. A rebuild of the same app does not stop its former process, and a later start of another app leaves it for good
  (`SettledIsTrue` excuses it by `replacedBy`; buildercontroller.go:160, :217). Two builds that run at once mix their process and port (`overlap`).
  Start on a controller that DeleteController has taken from the map runs a process nobody finds.
* `tsunamicontroller` (not modelled). A second Start overwrites the process of the first without ending it.

Hazards that no property covers, beside those in `PROJECT.json`: a read of a regular file from past its end computes a negative size (blockstore_cache.go:240);
the counters of an ijson file are ints in the cache and float64 after a flush, so that a flush restarts them (blockstore.go:287); the flush at shutdown gives up when the
periodic one runs (main-server.go:86); events of concurrent publishers are delivered without the lock, in any order (wps.go:236).

## 7. Not modelled

`PROJECT.json` lists every component that has no module, with the reason. In the modelled ones: the
router of a remote connserver (its upstream and simple requests), the authentication of connections, key affinity and failed
keys of the proxy, request and response conversion, the contents of messages, and wall-clock time, which is a flag or a step that may
happen. In `FileStore` file contents are sizes (their bytes are in `BlockFile`), and `BlockFile` is one file. In `ObjectGraph` names, metadata, the content of layouts and
what runs at start-up (EnsureInitialData); in `ShellController` bytes, terminal sizes and the kinds of controllers that are not shells; in `SshConn`
the SSH protocol, the installation of wsh (a part of the set-up, which may fail) and HasWaiter (it only delays Close); in `Builder` the compiler and the map of controllers.

Smaller liberties: `BlockFile` has CompactIJson, which replaces the content in the cache only, as an operation of its own, while `FileStore` lumps it with the operations that replace and flush; a
database error in `ObjectGraph`, the deferred clean-up of CreateBlock after one, and the files of a block are left out, and the two inserts of InsertTab are one step; StartController in `ShellController` reads
the status and the metadata in one step; a command whose request cannot be encoded, or whose timeout is invalid, is refused in `WshRpc` in the same step in which it looks at ServerDone.

The mapped lines are a few per cent of the repository's. What is left is of three kinds: conversion of data without state
(the proxy's providers, the model APIs, telemetry, `utilfn`, mime types, generated types and stubs), I/O one step long (shells, SSH authentication, files, HTTP), and
user interface (the frontend and Electron, more than half of all lines). A model of them would repeat the code. What has state and
concurrency and still has no module is in the plan above (11 and 12).
