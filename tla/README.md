# Formal models of gou

[gou](https://github.com/trheyi/gou) is the Go engine under Yao applications: models, flows, tasks,
stores, scripts run in V8, HTTP and WebSocket services, all reached through named *processes*, and
`graphrag`, a library that keeps documents for retrieval in a vector and a graph database.
This directory holds TLA+ models of its core, the TLC runs that check them on small
instances, and TLAPS proofs of what they establish for every instance. Paths below are relative
to the repository (`src/` in `PROJECT.json`).

1. [The system](#the-system)
2. [The modules](#the-modules)
3. [What the runs check](#what-the-runs-check)
4. [What is proved](#what-is-proved)
5. [What the models found](#what-the-models-found)
6. [What is not modelled](#what-is-not-modelled)
7. [Plan](#plan)

Run a model with `tlc -config MCTaskPool.cfg MCTaskPool`, a proof with `tlapm TaskPoolProofs.tla`.

## The system

A request enters through a *process* (`process/`), an HTTP route (`api/`, `server/http`), a
WebSocket (`websocket/`), a schedule or a background task. The process looks up a handler in a
registry and calls it; handlers are Go functions or scripts, and scripts run in V8 isolates
(`runtime/v8`). Handlers reach state through stores, sessions, models and connectors.

| Component | State | Operations | What is hard | What makes it correct |
|---|---|---|---|---|
| **task** (`task/task.go`) | registry of jobs, job queue, worker queue, status of each job | Add, Start, Stop, Progress, Get | workers, dispatcher and callers share a mutex and two channels; deadlines and Stop race results | each job runs once with one worker, is reported once, and ends; the registry is exact |
| **store/xun** | ARC cache, dirty map, deleted map, table | Set, Del, Get, GetFresh, list and counter updates, flush, Close | writes are persisted behind; three locks; readers take none; database calls fail | the last operation on a key reaches the table, in order; nothing deleted comes back |
| **runtime/v8**, performance mode | channel of available runners, total, each runner's signal and response channels | Select, create, Scaling, Exec, reset, destroy, Context | unsynchronised counters; fields of a runner overwritten by its user; health failures | a runner has one user; a caller gets its own response; callers return and runners come back |
| **runtime/v8/functions** All, Any, Race | results, a `done` channel | ParallelAll, ParallelAny, ParallelRace | first-success races, panics | the collected results are those of the tasks; all goroutines end |
| **websocket** hub, upgrader | clients, index by id, a channel and two pumps per connection | register, unregister, direct, broadcast, Start, Stop | ids from the number of clients; slow clients; everything blocks once the hub has exited | a message reaches the client it is for; a channel is closed once; the dead are forgotten |
| **websocket** client | connection status | Open, Close, reconnection | status against the reading goroutine | no reconnection after Close |
| **graphrag**, collections | metadata (Store or System collection), vector collection, graph database | create, remove, update metadata | three services, no transaction, rollback by name, metadata read and written back | a collection is whole or absent; acknowledged updates stay |
| **graphrag**, votes, hits, scores | a list and counts in the Store, copies in the vector database | update, remove, clear, score | the list is deleted and pushed back; two goroutines per operation | each vote is there once; counts are those of the list |
| **graphrag**, documents and segments | original text, vectors, entities with their source segments, weights | AddFile, AddSegments, UpdateSegments, RemoveSegments, RemoveDocs | entities are shared by segments; every call may fail and most errors are logged only | entities list what mentions them; what is removed is removed everywhere |
| **graphrag**, chunking and ingestion | tree of chunks with statuses, levels in progress; segments, the levels above | Chunk (structured, semantic), AddFile | goroutines per chunk, semaphore, cancellation, windows against characters, a language model that fails | no text is lost; statuses are true; levels are whole; every call ends |
| **plan**, shared space | plan and task statuses, signal channels; keys and subscribers | AddTask, Start, Pause, Resume, Stop; Set, Subscribe, ... | statuses polled without a lock; channels closed by Stop; callbacks under a lock | tasks run in order; Stop ends what runs; no send on a closed channel |
| **server/http** | status, signal and event channels | Start, Stop, Restart | three goroutines write the status | CLOSED means closed |
| **process**, **api** | handler registry; a context per call | Execute, ExecuteSync; streams | cancellation against completion | one answer per request |
| **socket**, **mcp** clients | connection status | open, close, reconnect | status against the reading goroutine | no reconnection after close |
| **session**, **store** (lru, redis, mongo) | key-value data | get, set, delete | mostly delegated to a server | - |
| **model, query, schema, connector, fs, http, the rest of graphrag, application, flow, schedule, plugin, dns, ssl, lang, encoding, text, office, pdf, ffmpeg, mediaprobe, ...** | registries filled at start, files, remote services | - | I/O, conversion, SQL | - |

Interactions: the task pool, the schedule and the plan call processes; processes call scripts, which
select a runner and may call processes again; scripts reach stores and the task pool; `server/http`
starts and stops the WebSocket hubs. The task pool, the V8 pool, the store and the hub do not share
state: the task pool and the V8 pool meet only in the handler a job runs, which the pool treats as a
goroutine that may take any time, and the store is reached through its operations alone. They are
therefore separate modules. Within graphrag, `AddFile` runs a chunker whose goroutines call back into
it: chunkers and ingestion are composed (`Ingest` over `SemanticChunker` over `StructuredChunker`, as
the semantic chunker itself runs the structured one). Its calls to the three services are modelled at
the level at which they can interleave and fail: of a collection, of a segment's feedback, and of the
segments of a document, which touch different data.

`PROJECT.json` lists every component with its status, every hazard at its line, and the lines each
definition stands for.

## The modules

| Module | What it is |
|---|---|
| `TaskPool` | the pool of `task/task.go` and `task/types.go` |
| `MCTaskPool` | instances of it for TLC |
| `TaskPoolProofs` | its theorems |
| `WriteBehind` | what a write-behind store promises: an abstract specification |
| `XunStore` | the store of `store/xun`, which implements `WriteBehind` |
| `MCXunStore` | instances of it for TLC |
| `XunStoreProofs` | its theorems, the refinement included |
| `V8Dispatcher` | the performance mode of `runtime/v8`: dispatcher, runners, their callers |
| `V8DispatcherProofs` | its theorems |
| `WebsocketHub` | the server side of `websocket`: hub, upgrader, pumps |
| `WebsocketHubProofs` | its theorems |
| `SegmentFeedback`, `MCSegmentFeedback` | votes, hits and scores of a segment in graphrag; instances for TLC |
| `SegmentFeedbackProofs` | its theorems |
| `GraphCollections`, `MCGraphCollections` | the collections of graphrag; instances for TLC |
| `GraphCollectionsProofs` | its theorems |
| `GraphDocuments`, `MCGraphDocuments` | the segments of a document and the entities of the graph; instances for TLC |
| `GraphDocumentsProofs` | its theorems |
| `StructuredChunker` | the structured chunker: operators and actions, no specification of its own |
| `SemanticChunker` | the semantic chunker, which runs the structured one |
| `Ingest`, `MCIngest` | `AddFile`, and direct calls of `Chunk`, over both; instances for TLC |
| `IngestProofs` | its theorems |

Conventions. A step is what a goroutine does between two operations that block or that others can
see. Buffered channels are sequences; an unbuffered send and its receipt are one step. Variables and
actions have the names of the fields and functions they stand for, and `PROJECT.json` maps each to
its lines. Variables under "History" are written but read by no action: they only let properties
speak of the past. A definition called `Name_suffix`, under the comment "Mutation", is `Name`
with a plausible bug; nothing uses it, and each property of a passing run is violated when `Name`
is replaced by one of them (`"mutants"`).

### TaskPool

| Code | Model |
|---|---|
| `Add` (task.go:87-110) | `AddRegister`, under the mutex: id, registry entry, status; `AddSend`: the send that ends it and may wait, mutex held |
| `Start` (59-79) | `StartTask`, `TakeJob`, `TakeWorker`, `HandOver` (three places where the loop can block), `StartReturns` (interrupt or end of context) |
| `startWorker` (163-177) | `Enlist`, `HandOver`, `Quit` |
| `start` (180-229) | `Succeed` or `Fail` (the select and the handlers), `Remove` (the deferred functions) |
| the goroutine of `start`, `exec` | `ExecBegin`, `ExecEnd`; it is not stopped by anything |
| `Progress` (113-136) | `Progress`: the lookup by id; `stray` records a write that landed on another job |
| deadline of the job (96) | `Expire`, from the moment of `Add` |

A call of `Add` and the job it makes are one member of `Jobs`. `HasNextID` says whether there is a
`NextID` handler; if so it is assumed never to give an id twice. Results, messages and progress
values are abstracted away.

### WriteBehind and XunStore

The n-th operation accepted on a key is its version n. Cache, dirty map, deleted map and table hold
versions, so that "an old value" and "a deleted key that is back" are comparisons of numbers.
`latest` and `applied` are the last version accepted and the version the table reflects.

| Code | Model |
|---|---|
| `Set`, `setListToCache` + `markDirty` | `Set`/`UpdateWrite` (cache and first section of `markDirty`), `Undelete` (second section) |
| `Del` + `markDeleted` | `Del`, `Undirty` |
| `Get`, `GetFresh`, `Has`, array reads | `Get`/`GetFresh` (the test of the deleted map), `ReadCache`, `ReadDB`, `Fill`: four steps, no lock |
| `Push`, `Pop`, `Pull`, `PullAll`, `AddToSet`, `ArraySet`, `Incr`, `Decr` | `Update`, the same reading steps with `mu` held, then `UpdateWrite` or `UpdateReturn` |
| `flush` | `FlushBegin`, `FlushSwap`, `FlushEntry` and `FlushDelete` for each key, `FlushEnd`; every database call may fail |
| `backgroundWorker`, `Close` | the flusher `Worker`, `WorkerDone`, `Close` |

`GetSet`, `GetDel` and the `Multi` operations are sequences of these with no lock around them, hence
behaviours of the model. The ARC policy is abstracted to "some other key is evicted". A call of the
database either takes effect and succeeds, or fails without effect.

A *torn* key is one whose deletion a flush took while a writer was between the two sections of its
marking: what the store does to it is a finding (below), and the durability properties exempt it. A
*failed* key is one a database call failed on.

`WriteBehind` says that the durable state of a key is always that of some accepted operation and
only moves forward, except for keys gone astray. `XunStore` implements it with `latest` for
`accepted`, `applied` for `durable`, `torn` for `astray`.

### V8Dispatcher

| Code | Model |
|---|---|
| `Dispatcher.create` | `CanCreate` and `Create` (the test and the start), `Online`, `Ready`, then `CountLoad` and `CountStore` (`total++` without a lock) |
| who runs it | `Start` (the initial ones), `Spawn` (`go create()` of Select), `ScaleLoop`, `Replace` (an unhealthy runner) |
| `Select` | `Select` or `Tick`; `Ticks = 2` is the default timeout of 200 ms (the count starts at 1 ms, option.go:36) |
| `Runner.Start` | `Online`, `Ready`, `Take` (the command loop) |
| `Exec`, `ExecWithContext` | `Exec` (fields of the runner), `ExecSignal`, `ExecListen`, `Cancel` |
| `exec`, `_exec` | `Finish` (the script ends and the response channel is read), `Respond`, `SendReset` (the goroutine of the deferred function) |
| `reset`, `health`, `destroy` | `Reset`, `Condemn`, `Replace`, `Replaced`, `DestroyLoad`, `Destroy` |
| `execPerformance`, `NewContext`, `Context.Call`, `CallWith`, `Close`, `Call` | operations `process`, `context`, `contextWith`, `direct` of a caller |

A request is a pair (caller, number); it stands for the script, the arguments and the response
channel, which the code sets together. Two history variables exempt runners from properties that the
code breaks for them: `spoiled`, on which a Context has executed, and `leaked`, selected by `Call`.

### WebsocketHub

| Code | Model |
|---|---|
| `Hub.run` (hub.go) | `hub`: the select, and `BroadcastTo` for each client of the loop of a broadcast; `Exit` on interrupt or close |
| `register`, `unregister`, `direct`, `broadcast` | unbuffered, so a send is a step of sender and hub, enabled while the hub is at its select |
| `Upgrader.Upgrade`, `NextID` (upgrader.go) | the id is taken in one step, the registration is another; others may come between |
| `readPump`, `writePump` | `rpc`, `wpc`; a read may give a message whose handler answers, or fail; `writePump` takes all that is queued |
| `Start`, `Stop` | `upgrader`, `stopper`, `status` |

A connection that has ended may be used again. The entry of a client in `indexes` is its id, so two clients
with one id have one entry. History: `mixed`, a client has departed or two upgrades have overlapped,
after which ids are not unique; `heard` and `owed`, what a client has been sent.

`Start` is called once. The code does not ensure it (`upgrader.go:92` has no guard, and each start of the HTTP server
calls it, a restart too: `server/http/http.go:111`, `189`); a second `Start` would run the loop of the hub twice on the
same maps, which no property here is about.

### SegmentFeedback, GraphCollections, GraphDocuments

Each call of a service is one step, which succeeds or fails; what the code does with an error (return, log,
undo, go on) is what the model does. Where the code starts a goroutine for the Store and one for the
vector database, a client has two program counters (`spc`, `vpc`).

| Code | Model |
|---|---|
| `UpdateVotes`, `RemoveVotes`, `RemoveVotesBySegmentID` (vote.go), the same of hits (hit.go), `UpdateScores` | `SegmentFeedback`: `Update`, `Remove`, `Clear`, `UpdateScores`, and a step for each call. `Kinds` is positive and negative for votes, one kind for hits. The list in the Store is how often each vote is in it: nothing reads its order |
| `CreateCollection`, `RemoveCollection`, `UpdateCollectionMetadata`, the System collection (collection.go); collections of Qdrant, graphs of Neo4j | `GraphCollections`: `Begin` and the steps in the order of the calls, the rollback included; `hasStore` and `hasGraph` are the configuration |
| `AddFile`, `AddSegments`, `UpdateSegments`, `RemoveSegments`, `RemoveDocs`, `RemoveSegmentsByDocID`; saving of entities (save.go) | `GraphDocuments`: an entity is looked up, its sources read, merged and written back, or a node created; two creations give two nodes (`Copies`) |

History variables name what an operation has overlapped with or failed on (`exposed`, `doubled`, `torn`, `left`,
`stale`, `crowd`): these exemptions are the code's, which has no lock and no transaction; the properties are what it
keeps in spite of that, and that an operation which runs alone repairs what was left.

- `SegmentFeedback`: every call may fail, those too whose error the code drops. The removals ignore the error of
  `Store.Del` and go on (`vote.go:291`, `414`, `419`; `hit.go:249`, `361`, `365`), so that after a failed deletion of the
  list the votes kept are pushed behind those that are still there. `doubled` names these votes: they may be listed
  twice, and are still in the list, which the rest of `EveryVoteOnce` says of them as of all.
- `GraphCollections`: `CollectionExists` makes two calls (`collection.go:299-324`), which `Check` takes in one step: an
  answer put together from two moments is not in the model.
- `GraphDocuments`: `AddSegments` takes any ids, of stored segments too (`segment.go:20-24`, `47-85`). It replaces the
  vector of such a segment and leaves the segment among the sources of the entities that only the old text mentions;
  `left` names these entities until an update or a removal takes the segment out of the graph. `SourcesExact` says that
  the entities which list a segment are those of its text and those in `left`, no other and none missing. The vectors
  are stored in batches of 100 (`qdrant/document.go:383`), hence `VectorAdd`, when it fails, may have stored any part of
  the segments. `UpdateSegments` and `RemoveSegments` have one segment in the model: the code handles a list with one
  call to the vector database and then segment by segment.

### StructuredChunker, SemanticChunker, Ingest

| Code | Model |
|---|---|
| `generateStreamChunksWithLines`, `createChunksWithLines`, `fixUTF8Chunk` | `Level`, `Chunk`, `Whole`: windows of bytes, trimmed to whole characters. A text is the set of its character boundaries (`cuts`) |
| `calculateSubSize`, `calculateSubOverlap` | `Scaled` |
| `processStreamLevels`, `processTextLevelsWithLines`, `processCurrentLevel` | `frames`, a stack of levels in progress; `Check` (the context), `Acquire` (the semaphore and the start of a goroutine), `Join`, `Descend`, `Leave`, `Raise` |
| `ChunkManager` | `tree`; `Succeed` passes completion up (`CompletedBy`), `Refuse` fails |
| `getStructuredChunks`, `processSemanticChunks` | `Collect`, `Collected`; `Look` and `Ask` (the loop), `Answer` or `Fallback` (the goroutine of a window, its retries included), `Merge` |
| `createNextLevelChunks`, `updateChildrenParents`, `buildHierarchy` | `Groups`, `Deliver`, `Adopt`, `Ascend` |
| the callback of `AddFile` (utils.go:37) | `Load` and `Store`: the append is a read and a write |
| `AddFile` | `Chunked`, `Extract`, `Save`, `Embed`, `StoreAll` |

The answer of the language model is any list of at most `MaxAnswer` segments that `ValidatePositions` accepts, in
any order. A segment is identified with its place in the text, and text containment is computed from
places (`HasText`), which takes different pieces of the text to be different. A panic, which in a
goroutine ends the process, is the phase `crashed`. `Above`, `CompletedBy` are recursive functions.

## What the runs check

Each passing run checks the whole state space of its instance. `CHECK_DEADLOCK FALSE` everywhere:
operations are bounded, and the systems rest when nobody calls.

| Run | Instance | Shows |
|---|---|---|
| `task_pool` | 3 jobs, 2 workers, queue of 1 (446 441 states) | `RegistryExact`, `JobInOnePlace`, `ReportedOnce`, `ProgressIsOwn`; no finished job returns (`FinishedForGood`); every job ends (`EveryJobFinishes`); no worker waits after Stop (`StopEndsWaiting`) |
| `task_full` | 4 jobs, 1 worker, queue of 1 | violation of `AddReturns` |
| `xun_store` | 2 keys, cache of 1, a writer, a reader, 3 operations, the worker, Close (1 040 884 states) | `NothingForgotten` (with `PendingConsistent`), `CloseDurable`, refinement of `WriteBehind` |
| `xun_live` | the same without a reader, with fairness (301 647 states) | `EventuallyDurable` |
| `xun_torn` | 1 key | violation of `EveryWriteKept` |
| `v8_dispatcher` | 2 callers, Min = Max = 1, up to 3 runners, timeout of 2 ticks (193 180 states) | `OnePlace`, `OwnResponse`, `NoSelfBlock`, `ProcessReturns`, `RunnerReturns` |
| `websocket_hub` | 2 connections that may come again, channels of 1, 4 events (168 210 states) | `NoSendOnClosed`, `ResponseIsOwn`, `NoGap`; `DeadLeaves`, `StopEndsHub` |
| `segment_feedback` | 2 clients, 2 votes of different kinds, 3 operations, 1 fault (1 863 763 states) | `EveryVoteOnce`, `Settled` |
| `graph_collections` | 3 clients, 4 operations, 2 faults, all configurations (200 309 states) | `NoHalves`, `UpdatesKept`, `Heals` |
| `graph_documents` | 2 clients, 2 segments, 1 entity with up to 3 nodes, 3 operations, 1 fault (1 337 882 states) | `SourcesExact`, `RemovalComplete` |
| `ingest` | 11 uses of the chunkers, 2 faults, batches of 2, answers of 2 segments (203 532 states) | `StatusTells`, `TextKept`, `Hierarchy`; `AddFileEnds` |
| `chunk_empty` | a text that ends in a two-byte character | violation of `NoEmptyChunk` |

**Bounds, and why they are enough.** Three jobs and two workers give every way in which two jobs can
compete for a worker while a third one waits in the queue, with the dispatcher or in Add, and a
queue of one is full at once. With one job more the circular wait of `task_full` appears, and
`EveryJobFinishes` does not hold: it needs a job with each worker, one with the dispatcher,
`QueueCap` in the queue and one in Add. Writers of the store are serialised by `mu` and keep
nothing outside it, so one stands for any number; three operations give write, delete, write on
one key and any mixture on two, and a cache of one makes every second key evict the first. Keys are
interchangeable (symmetry, in the run without liveness only). In the dispatcher, one runner in the
pool is the tightest case for two callers: they compete for it, time out, create others through the
race in `create`, and overflow `availables`; `MaxRunners`, `MaxCalls`, `MaxExecs` cap the runners
ever created, the operations of a caller, and those together with executions in a Context. `UintMod`
stands for 2^64: the wrap of `max - total` happens in the run.

Two connections of the hub are enough for two clients to get one id (one departs, a third upgrade is
the same connection again) and for one to be slow while the other is served; a channel of one is full
after one message; four events are two connections accepted and two messages, or three and one. For votes, two clients
give a removal that overlaps any other operation, and the third operation runs after both (`Settled`
needs that); one fault reaches every call of every operation. Three clients of a collection
give the creation that comes second with an update or a removal beside it; two faults let a rollback
fail. Two segments that share one entity are what makes a node have two sources; three nodes are
needed when both clients miss it and one of them is updated again. The texts of `ingest` have up to
six bytes with characters of one and two; the options give one to three levels, a single window and
many, `Overlap` that is corrected, an empty text, `MaxConcurrent` of one, two and the default; of the
semantic chunker, one to three levels, with the overlap repeating a segment in two windows, a last
group that is joined, and a fallback. Two faults let a callback fail twice in one level and a
window fall back before a request fails.

**Fairness.** Weak fairness of what the Go scheduler runs and of timers, nothing else. `TaskPool`: the
dispatcher, the workers, the send of Add and job deadlines; not callers, handlers (which may never
return), `Start`, `Stop` or interrupts, nor deadlines once the task is stopped.
`XunStore`: the worker's flushes, whose ticker never stops, and clients inside an operation. A
database call may fail any number of times, and no fairness says otherwise: keys it failed on are
exempt. `V8Dispatcher`: goroutines of the pool, of runners and of callers inside an operation;
scripts end (`Finish`), as the pool has no way to stop them; nobody has to call, cancel or close, and
`Scaling` need not tick. `WebsocketHub`: each pump, and the hub; peers, the application, signals, Start and
Stop owe nothing. A pump that waits for the hub is served although weak fairness alone would not
promise it of a channel, because traffic is bounded and senders are queued in order. `Ingest`: the goroutine of the call
(`AddFile`) and its workers, which includes that callbacks return and that requests to the services and the language
model end, well or not; cancellation may come or not. The other modules state no liveness: their
operations are straight-line sequences of calls.

## What is proved

All theorems hold for every value of the constants that satisfies the module's assumptions
(`PoolAssumption`, `StoreAssumption`, `HubAssumption`, `CollectionAssumption`, `FeedbackAssumption`,
`DocumentAssumption`, and for `Ingest` those of its chunkers, `ChunkerAssumption` and `SemanticAssumption`), which state
what the code's constructors ensure and that the bounds are numbers. `Ingest` assumes besides that the options of a
call have the types Go gives them, and that the corrected `Overlap` is smaller than `Size`, without which the loop over
windows does not end.

**TaskPoolProofs.** `Invariance`: `Spec => []IInv`. The safety properties are not inductive alone: that
a job is reported once needs that the job of a worker is nowhere else, which needs to know
what a goroutine holds from where it stands. `IInv` is their conjunction with `Control` (the
dispatcher holds a job exactly between `TakeJob` and `HandOver`, a worker exactly in `wait` and
`report`) and `Numbered` (a job has its id from Add on, and the registry and the ids agree). Each action
preserves each part; the parts are separate steps. From it: `TypeCorrect`, `RegistryIsExact`,
`Ownership`, `Reporting`, `ProgressOwnership`, and the action property `FinishedStays`.

**XunStoreProofs.** The hypothesis `OneFlusher` (`Flushers = {Worker}`) says that the application does
not call `Flush` beside the worker; with two flushers database calls can be reordered and the
theorems are false. `Invariance` proves `IInv`: types; `Control`, who holds `mu` and what the flusher holds;
`BoundedAt`, no version anywhere exceeds `latest`; `OrderedAt`, versions in the table, in the hands of
the flush and in the maps come in this order; `SoundAt`, the strengthening of
`NothingForgotten` by the states between two sections; `Closing`, what the
worker has still to do once it is stopped. From it: `TypeCorrect`, `NothingIsForgotten`,
`CloseIsDurable`, and `Refinement`: every step is a step of `WriteBehind` or leaves its variables
unchanged, where `OrderedAt` is what makes the table move forward.

**WebsocketHubProofs.** `Invariance` proves `IInv` for any finite set of connections and any capacity: types;
`Walk`, who the loop of a broadcast may still visit; `Open`, the map of clients holds only open channels of
connections that are served, and `indexes` only clients, one for each id; `Distinct`, while nobody has
departed the ids are the numbers from one to the number of clients, which is why the next one is new;
`Addressed`, what is queued for a client carries its id. From it: `NoSendOnClosedChannel` and
`ResponsesAreOwn`. Each is out of reach alone: that a direct message finds an open channel needs that
`indexes` never outlives `clients`, although entries are deleted by an id that two clients may share.

`Accounted` proves a second invariant, `Flow`, by steps that may use the first. `NoGap` speaks of listed clients
that write; `Flow` keeps the account of every connection. `Owed`: the broadcasts it has had and those in its
channel are no more than were cast, its own responses in the channel no more than are owed, and nothing is owed to a
connection that was never listed. `Heard`: for a listed client the account is exact and the queue in order, but for
the broadcast that the hub's loop still owes it (`todo`). The lemmas say what an append or a removal at the
head does to the number of messages of a kind in a sequence. From it: `TypeCorrect` and `NothingMissed`.

**V8DispatcherProofs.** `Invariance` proves `IInv` for any callers, any sizes of the pool, and any number of
runners and executions. `OnePlace` counts offers, holders and commands, which no step preserves by itself; `Placed` says
instead which place a runner is in and how far things have come there. For a runner in the hands of a caller that is
`Uses`, which relates `pc` of the caller, `rpc` of the goroutine and the contents of `signal`: between two
commands of an execution there is nothing else in the channel, so each command finds the goroutine in its loop.
`Seated`: what a caller holds by where it stands. `Issued`: a request is asked of, and answered by, one runner, and
one caller
listens for it; without it a response could go to another caller. `Unique`: no runner is offered twice or held
by two. All but `Seated` and `Issued` exempt `spoiled` runners, as the properties do. `Numbered` tells a runner not
made yet. From it:
`TypeCorrect`, `InOnePlace`, `ResponsesAreOwn`, `NeverBlocksItself`.

**GraphCollectionsProofs.** `Invariance` proves `IInv` for any clients and any number of operations and failures.
The properties speak of moments when nobody works on the collection; `IInv` says what holds in between.
`Company`: who overlaps another operation knows it. `Built`: while nothing has failed and no removal had company
the vector collection is a lock, because only one creation can make it; that one alone builds the index, the graph and
the metadata, and `Built` says which of them exist at each of its steps. `Alone` says the same of an operation
without company whatever it has found. From it: `TypeCorrect`, `WholeOrAbsent`, `AcknowledgedStay`, `RepairedAlone`.

**SegmentFeedbackProofs.** `Invariance` proves `IInv` for any clients, votes and kinds. `New`: a vote that was never
pushed is in no list and in no removal's hands, and belongs to one `UpdateVotes`. `Hands` is the argument for
`EveryVoteOnce`: a removal holds a vote at most once, no two hold it, and one that has deleted the list holds only votes
that are not in it, so putting them back doubles none; where the deletion failed it holds `doubled` votes. A vote in the
list it is about to delete is in its hands or was given to a removal. All exempt `exposed` votes. `Alone`: how far an
operation that overlaps nobody and
has seen no failure has come, count by count (`SetUpTo`); `After` is where it ends, which is `Settled`. From it:
`TypeCorrect`, `NoVoteLostOrDoubled`, `AloneRepairs`.

**GraphDocumentsProofs.** `Invariance` proves `IInv` for any clients, segments, entities and copies. The properties
speak of segments nobody works on; `IInv` says of every segment that is not torn that at most one client works on
it, and how much of it is in the graph at each call of this one (`Progress`): nothing before the extraction, then for
each segment the entities wanted but those still to be looked for, created or merged (`Saved`, `Pending`), all of them
before the embedding; besides these only entities in `left`; on the way out, that each node which lists it is still
held or its pair stale. `Shape` is what a
client knows at each place. The other half of the argument is `Untouched`: a step of one client leaves for the
segments of all others, who share its nodes, whether an entity lists them as it was or makes the pair
stale. From it: `TypeCorrect`, `SourcesAreExact`, `RemovalIsComplete`.

**IngestProofs.** `StatusTells` speaks of the moment when `Chunk` has returned; that a parent is completed with the last of
its leaves, and that an error fails what is above a failed callback and nothing else, is decided over many steps
of several goroutines. `IInv` says it of the levels in progress, for any text, options and failures: `Shape`, the levels
are consecutive ranges of the tree, each all that was cut from one chunk of the level above, and chunks come after the
chunk they were cut from; `Calls` and `Errs`, how far the callbacks of a level are; `Cuts`, `Passed` and `Well`,
while all is well every chunk outside these levels is completed, and a chunk being cut is completed no later than its
children; `Ill`, once an error is on its way up no callback runs, and what has failed together with the chunks still
being cut (`Blamed`) is closed upwards and reaches down to failed callbacks. `Sound` says nothing once a
cancelled call is failing, because goroutines it left behind may go on to complete parents. The recursive functions
`CompletedBy` and `Above` recur towards smaller positions in the tree; they are unfolded, and their values bounded, by
taking the least counterexample, the form of induction the provers accept. From it: `StatusesTell`.

`TextInvariance` proves a second inductive invariant over the first, `TextInv == Layout /\ Steps /\ Piles`, which follows
the text through both chunkers.

- `Layout` is the structured chunker's. `Placed`: every chunk is a piece of the text of whole characters, or empty, and
  only chunks above the lowest level that are not empty are cut. `Nested`: the level at place `i` of the call stack has
  depth `i`, and no more than `MaxConcurrent` of its callbacks run; a callback is started only after the semaphore is
  acquired, and it runs on when its level is left by a cancellation. `Covered`: what the cut of a chunk leaves behind
  contains every byte of it. This is the arithmetic of the windows, for every size, overlap, multiplier and depth: a
  character lies wholly in the last window that begins no later than it, if the overlap catches it (`Caught`,
  a hypothesis of the property, because the code does not ensure it).
- `Steps` says how far `AddFile` is (`Phases`), which chunks the slice of its callback holds (`Slice`; all that were
  handed out, unless two appends raced), and which windows the semantic chunker has asked about (`Windows`); when it
  goes on to its levels none is outstanding and the segments of all windows stand one after the other in `base`.
- `Piles` describes the levels of the semantic chunker while they are built from the lowest up. `Spans`: each is all
  segments, once and in order; `Grouped`: its chunks are unions of chunks of the level below, for every size a level may
  have. Parents are found by the texts of the chunks: each in its turn takes the waiting children that come next as
  long as its text contains theirs, and a share of them if it contains not even the first. `Served` makes that
  invariant: a parent whose turn is over has left none of its own children waiting, so the next in turn meets its own
  before those of a later one, and never needs the share; where texts can tell (`Plain`) it takes no other (`Adopted`).

From both: `WellTyped`; `WholeTextKept`, where the last chunk that contains a byte is a leaf, because were it
cut, `Covered` would give a later one; and `HierarchyHolds`. `FlattenSeq`, which recurs over the windows, is treated like the
recursive functions of the first invariant, by a least counterexample.

**Only model-checked.** The liveness properties (`EveryJobFinishes`, `StopEndsWaiting`, `EventuallyDurable`,
`ProcessReturns`, `RunnerReturns`, `DeadLeaves`, `StopEndsHub`, `AddFileEnds`): TLAPS does not reason about
`ENABLED`, which fairness needs. The refutations are counterexamples. The invariants that the passing runs check are
all theorems.

## What the models found

Each is a run that TLC must find violated, with the quotation in `PROJECT.json`.

- **A task pool at its limit stops** (`task_full`). `Add` refuses only if the channel holds more than
  its capacity, which never happens; it blocks in the send with the mutex, workers that end a job
  need the mutex, and the dispatcher needs a worker.
- **A write can vanish without an error** (`xun_torn`). Set after Del of the same key, with a flush between
  the two sections of `markDirty`: the flush skips the new entry as deleted and deletes the row.
- **The last chunk of a text can be empty** (`chunk_empty`). Windows are cut at bytes and trimmed to whole
  characters; a last window that starts inside the last character becomes an empty chunk, which
  `AddFile` embeds, and the embedding of an empty text dereferences nil (`embedding/openai.go:150`).

Seen on the way, in the models but not the subject of a run:

- task: without a `NextID` handler ids are not unique (`task.go:233`); `Get` reports a failed job as "SUCCESS"
  (`task/types.go:27`).
- xun: `GetFresh` returns, and caches, deleted values while a flush has the deletion in hand (`xun.go:149`, `323`);
  `persistEntry` re-added after a failure overwrites a newer entry (`xun.go:164`); `Clear` leaves keys that are
  only in the table; lists and counters lose their time to live (`xun.go:950`, `1228`).
- v8: the runner of an open Context is offered to others, as every execution ends in a reset
  (`runner.go:255`); the pool exceeds its maximum (`dispatcher.go:68`); `Call` never returns its runner
  (`script.go:598`); the comment of `Scaling` says 10 seconds and release of runners, the code has 30 and none.
- graphrag, ingestion: concurrent callbacks append to a slice without a lock (`utils.go:40`) and lose chunks
  (exempted in `TextKept`); a failed extraction among others dereferences nil (`document.go:1099`), although
  `extraction/openai/openai.go:224` means not to fail the batch; a failed embedding leaves the entities in the graph; on
  cancellation a parent that failed may be completed by a worker that lingers; chunks that are not cut are
  completed before their callback; `Overlap` of `Size` or more loops for ever (excluded by
  `SemanticAssumption`); a character wider than the overlap and one byte may fall between two windows
  (`Caught`).
- graphrag, semantic chunking: parents are found by text containment, so a segment the overlap repeats
  goes to the wrong one (`Plain`); segments always have their window in `Parents`, so with one level
  `AddFile` extracts entities from none of them (`document.go:1067`, "root-level chunks"); a call cancelled after
  the last window was asked for succeeds, with fallbacks, when there is one level.
- graphrag, documents: `RemoveDocs` filters vectors by a list, which the conversion of filters drops; the
  deletion fails, is logged, and the count is returned (`document.go:427-438`, `Convertible`);
  `RemoveSegmentsByDocID` leaves the sources of entities and the keys of segments; the entities to delete with
  a document are looked up by a property no code writes; the vector of an entity is that of
  another text (`document.go:816`, `1124-1150`).
- graphrag, segments: `AddSegments` with the id of a stored segment leaves it among the sources of entities that its new
  text does not mention (`segment_add.go:38`; `left`).
- graphrag, votes and hits: the counts in the vector database may be those from before the removal (`vote.go:339`); a
  removal goes on when the list could not be deleted, and pushes the votes it keeps a second time (`vote.go:291`,
  `hit.go:249`; `doubled`).

## What is not modelled

- `store/xun`: time to live and `cleanupExpired`, wildcard deletion, `Clear`, `Len`, `Keys`; the values read.
  A crash, which loses the maps and keeps the table.
  Two callers of `GetSet` or `GetDel`, which are two operations without a lock (`xun.go:815`); a deletion in the table that
  fails and is forgotten (`xun.go:171`) is in the model, its keys exempt.
- `runtime/v8`: the standard mode (each call has an isolate of its own), V8 itself, conversion of values.
  `TerminateExecution` by the monitor of `ExecWithContext` is an early end of the script.
- `task`: values of progress and results, `Get` (it only reads), the DSL of `task/process.go`.
- `websocket`: ping timing, the contents of messages, the client side (`client.go`).
- graphrag, collections: graphs that are labels in one database, `Backup` and `Restore`.
- graphrag, feedback: the configuration without a Store, `UpdateWeights` (one key), several segments in a call
  (they share no data).
- graphrag, documents: relationships, whose source segments are rewritten as those of entities are
  (`segment_remove.go:428-499`), in calls after them; several segments in one update or removal; parents of segments;
  `ExtractSegmentGraph`; the entities' own documents in the vector database, which no
  operation removes; queries.
- graphrag, chunking: line numbers, `ChunkFile` (the same over a file), blank windows and segments, the streamed
  text of the language model and its parser, indexes of chunks; the goroutine of `ExtractDocuments` that waits for the
  context to be cancelled (`extraction/openai/openai.go:171-174`), which never ends if it is not, and which
  `AddFileEnds` does not speak of; ingestion without a graph, converters and fetchers.
- The components marked "Planned" in `PROJECT.json`, next; and those that are I/O, text or SQL, for which
  TLA+ says little.

## Plan

In order of importance; 1 to 6 are done.

1. `TaskPool`, with proofs.
2. `WriteBehind`, `XunStore`, with proofs and refinement.
3. `V8Dispatcher`, with proofs.
4. `WebsocketHub`, with proofs.
5. graphrag: `GraphCollections`, `SegmentFeedback`, `GraphDocuments`; `StructuredChunker`, `SemanticChunker`, `Ingest`.
6. Theorems about the three graphrag modules named first, `NoGap` of the hub, and all invariants of `Ingest`. Next: that
   the circular wait of the task pool needs at least `QueueCap + |Workers| + 2` jobs.
7. `PlanRunner` and `SharedSpace` (`plan/`): statuses polled without a lock; Stop, which closes the signal
   channels, against Pause (`plan.go:152`, `214`); callbacks under the lock of the subscribers (`shared.go:47`).
8. `Concurrent`: All, Any and Race, each against what its comment promises; `done` against `ch`
   in one select (`concurrent.go:176`).
9. `XunStore` extended by crash and restart (`xun.go:123`), `Clear`, wildcard deletion (`xun.go:535`) and time to
   live; two flushers.
10. `HttpServer`, whose status three goroutines write (`server/http/http.go:91`); `ProcessExec` with the streams of
   `api`; the reconnecting clients.
