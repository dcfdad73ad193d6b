# A TLA+ model of capyJs

capyJs runs JavaScript (QuickJS) on a libuv event loop. The loop's thread, here the
*main thread*, runs the script, every libuv callback and the HTTP server. CPU-bound
work goes to worker threads through lock-free rings and comes back through a
`uv_async_t`, the *doorbell*. This directory holds models of that machinery, the TLC
runs that check them on small instances, and TLAPS proofs of the safety properties for
every size.

Paths below are relative to the repository (`src/...`, `include/...`, `docs/...`).

## The system

| Part | State | Operations | Talks to | Module |
|---|---|---|---|---|
| SPSC ring, `include/spsc_queue.h` | slots, two indices | `push`, `pop` | one producer, one consumer thread | `SPSCQueue` |
| Work queue, `include/work_queue.h` | a ring, a semaphore, a stop flag | `enqueue`, `dequeue`, `stop`, `drain` | main thread and one worker | `WorkQueue` |
| Native workers, `src/fib_engine.cc`, `src/workers/fib_worker.cc`, `src/builtins/fib_js.cc` | job ids and states, per worker two rings, `in_flight_`, a doorbell, a thread | `dispatch`, `getProgress`, `close`, the finalizer, the thread's loop, `on_result_ready` | script, event loop, threads | `WorkerPool` |
| JavaScript workers, `src/js_engine.cc`, `src/workers/js_worker.cc` | the same and a script per thread | the same, loading the script, `process` | the same | `JSWorkerPool` |
| Inference workers, `src/inference_engine.cc`, `src/workers/inference_worker.cc` | the same, models, contexts | the same, several results per job | the same, llama.cpp | `InferencePool` |
| Memory pool, `include/mem_pool.h` | slots, a free list of indices, a count | `acquire`, `release` | the server | `MemPool` |
| Connections, `src/server.cc`, `src/http_message.cc` | client slots, guards, read buffers, writes in flight, two handles each | accept, read, write, time out, close, `res.end` | peers, script, libuv, pools | `Connections` |
| WebSockets, `src/ws.cc`, `src/builtins/ws_js.cc` | a buffer chain, `onMessage` | upgrade, parse and send frames | connections, script | `WebSocket` (frames), `Connections` (slots, writes) |
| Servers and routes, `src/builtins/server_js.cc`, `src/http_context.cc` | Server objects, two route maps, callbacks | construct, `get`, `ws`, `serveStatic`, `listen`, finalize, look up | connections, signals | `Servers` |
| Signals, `src/signal_context.cc` | one counted entry with a handle | register, deregister, the callback | Servers, loop | `Servers` |
| Timers, `src/builtins/timer.cc` | handles, identifiers, callbacks | `setTimeout`, `setInterval`, `clearInterval` | libuv | `Timers` |
| Start and teardown, `src/capy_main.cc` | | run the script, the loop, free everything | all | `EventLoop`, `Runtime` |
| Files, `src/builtins/fs.cc` | a map from descriptors to state | `open`, `read`, `close` and their callbacks | libuv's thread pool, kernel | `FileSystem` |

What is hard here: two threads in one ring; a stop that overtakes a job; wakeups that
coalesce; a `close()` or a garbage collection inside the very callback being delivered;
references to JavaScript callbacks that travel through rings as plain bytes; slots and
descriptors that are recycled while a script still holds a response or a read for their
previous user; libuv handles that may be closed once and freed only in their close
callback; one signal handle shared by counted owners; frames that reads cut anywhere.
`PROJECT.json` lists these hazards at their lines, with the properties that cover them.

## Modules

| Module | Models | Composed with |
|---|---|---|
| `BoundedFIFO` | what the ring promises: a FIFO of so many places, fed and emptied by one thread each | |
| `Ring` | the ring's size, which the two queues share | |
| `SPSCQueue` | the ring, one action per shared load, copy or store | implements `BoundedFIFO` |
| `WorkQueue` | the work queue over an atomic FIFO, the one `SPSCQueue` implements | |
| `WorkerPool` | manager, workers, threads, doorbells, event loop, script | the queue protocol of `WorkQueue` per worker, FIFO rings |
| `JSWorkerPool`, `InferencePool` | the other two kinds of worker | extend `WorkerPool` |
| `SlotPool` | what a pool promises: slots handed out zeroed, to one holder at a time | |
| `MemPool` | the free list in the slots | implements `SlotPool` |
| `Connections` | the server's connections and responses | pools as in `SlotPool` |
| `WebSocket` | frames over the bytes of one connection | |
| `FileSystem` | files on the thread pool | |
| `EventLoop` | who runs on the main thread, for `Timers` and `Servers` | |
| `Timers`, `Servers` | timers; Servers, routes and the signal | extend `EventLoop` |
| `Runtime` | the process: both on one loop, and the teardown | extends `Timers`, `Servers` |
| `...Proofs` | proofs about the module of that name (`WorkerPoolProofs` about `JSWorkerPool` too) | extend it |
| `QueueProofs` | proofs about `SPSCQueue` and `WorkQueue` | extends both |
| `InferenceProofs` | proofs about `InferencePool` | extends it |
| `PoolState` | what the proofs about the pools share: types, places of the main thread, ownership | extends `WorkerPool` |

`MC...` modules instantiate these for TLC. Operators marked as mutants in a comment
(`EnqueuePostTwice`, `ClosedKeepsGuard`, `clear_forgets`, ...) are deliberate slips:
replacing the operation they resemble must break the property they are paired with in
`PROJECT.json`. No specification uses them.

### SPSCQueue

`buf`, `write` and `read` are the members; `push_pc` and `pop_pc` say where each thread
is in `push` and `pop`; `item` and `out` are its local copies. A push is `PushLoad` (both
loads and the test for room) and `PushStore`, `PushPublish`, or `PushFull`; a pop
likewise. A thread's own index is written by no other thread, so both loads of a call
make one step. The acquire/release pairs are modelled as sequentially consistent
accesses: each index has one writer, and the slot is read only after the index that
publishes it, so these pairs give the order the model assumes; weaker orders are not
explored. The mask `& (N - 1)` is `% N`, which is the same for the powers of two the
`static_assert` admits. `empty()` changes nothing and is left out.

### WorkQueue

The producer's `enqueue` is a push and a post, its `stop` a store and a post, then a
join and `Drain`, as every worker's `stop()` does. The consumer is the loop
`while (dequeue(item))`: wait, test the flag, pop. Items are numbered in the order of
acceptance, so "nothing lost, nothing twice, in order" is one equation over the
auxiliary `taken` and `drained`.

### WorkerPool, JSWorkerPool and InferencePool

`mgr` is the manager and its JavaScript object's pointer to it, `main` the main
thread's place in the code, `wk` the workers. The main thread's code is cut where
another thread can see the difference: `Dispatch` pushes, `EnqueuePost` posts, counts
and records the state; `close()` is `Close`, then `StopStore`, `StopPost`, `StopJoin`
per worker; `on_result_ready` is `Ring`, then `DrainPop` (the call of the callback,
in which the script may dispatch or close), `FreeCallback`, `Account`, until
`DrainEmpty`. The script is nondeterministic: it may dispatch, close or drop the
manager whenever JavaScript runs. `others` stands for other active handles of the
script, which keep the loop alive. `Interrupt` is the signal handler's `uv_stop`.
`refs` counts native references to each job's callback, `calls` its calls.

`JSWorkerPool` renames the operations after the JavaScript workers' sources, which
repeat the native ones line for line, and replaces the thread: `LoadScript` may end
it at once, and a job may end in `ProcessThrows`.

`InferencePool` gives a job a stream of results: `send_error`, or `Token` up to
`TOKEN_GEN_MAX` times, or tokens and `DecodeFails`; each push is followed by
`SendToken`. The callback belongs to the last result (`is_done`): `TokenReturned`
keeps it, `LastReturned` frees it, and `inf_join` frees what the drained queues hold,
`mid_stream` included. `close()` is the finalizer's path: it deletes the manager, after
`js_close` has freed the models. One model class stands for all of them; a dispatch
that names an unknown class throws and changes nothing.

### MemPool

Slots carry `next`, `in_use` and their data (zeroed, poisoned, or written by the
holder). `At(i)` is `&slots_[i]`, with `SIZE_MAX` wrapping to the place before slot
0, and `IndexOf` its inverse, the pointer difference as a `size_t`. The auxiliary
`free` is the order of the free list. `release_asserts` is the assertion on a slot
that is not in use; it stops the program. A Release build (`-DNDEBUG`, `CMakeLists.txt`)
has no assertions, and the model is of the build that has them.

### Connections

A client slot has a socket and a timer (none, open or running, closing, closed),
`write_in_flight`, `closing`, its read buffers as a number, its guard, the queue of
writes libuv has accepted. The copy of a response's body in `pending_write_buffer`
belongs to its write and has no state of its own. A read is one action, from `on_alloc_buffer_cb` to the end of `on_read_cb` and of what it calls; its
outcome (an end, a part, a bad request, a request for the script, for a file or for
nothing, an upgrade, a frame) is chosen freely. `left` says that the kernel did not
take all of a write; no later step depends on it, so only the run about buffers lets it
happen. `res.end` may fail to allocate its buffer, which aborts the response.
JavaScript may end any response it holds at any later time, once (`docs/server.md`:
"Must be called exactly once"). Connections are numbered to tell one use of a slot
from the next; the numbers are not in the code. libuv's part (`uv_close`, `uv_write`,
`uv_read_start`, callbacks of cancelled writes before the close callback) is external.
`Reject` takes a peer for which a pool has no slot: what happens to its temporary
socket is left out (see the disagreements below).

### WebSocket

One upgraded connection. The client's byte stream is the sequence `sent` of frames at
their offsets; `start` is the offset of the first byte in the buffer chain and
`recv_len` how many have come. `process_web_socket_request` is one read of any size up
to a `ReadBuffer`: it appends, parses and, if a frame is whole, calls `onMessage` and
clears the chain, with whatever of the next frame was in it. Header bytes are modelled
(three forms of the length, mask bit, mask), payload bytes are counted. A chain that
begins inside a frame is parsed like any other: what `parseFrame` makes of bytes that
are no header is a choice (`NotAFrame`: too few of them, or a frame nobody sent), and
the stream goes on from there, to a chain that begins with a frame again perhaps.
`total` is a `size_t` (`Wrap`; `SizeMod` stands for 2^64, below TLC's integers): a length
near its end wraps, and the payload then lies behind the bytes received, which may
crash. Clients are those of RFC 6455, whose lengths stay below 2^63, so only a chain that
begins inside a frame does that. An upgrade without a route (`invoke_no_route`) leaves
the WebSocket as `malloc` returned it; reading `sock_js` then may crash or not.

### FileSystem

A request waits in `wq`, is taken by one of the pool's threads (`Take`), makes its
system call (`sys_open`, `sys_read`, `sys_close`) and is reported (`Complete`), in any
order; the main thread serves the reports in theirs. `open_file_async`,
`read_file_async` and `close_file_async` are the script's calls; their `..._cb` do what
the code does to the map and the state, the deletion and the erasing included. `kernel`
says which file a descriptor stands for; an open gets the lowest free one, so a number
comes back as soon as a thread has closed it, before the callback of that close has
run. The script may call anything at any time on a descriptor that it got and has not
closed, several reads at once and a close during a read included, and may lose the
FileSystem at any time. A step that uses memory that was freed (a read into a buffer
that another read replaced, a callback whose state a close deleted, an `owner` that was
collected) sets `undefined`, and nothing is modelled after it. `awaiting` has the calls
whose callback has not been called. Two marks per file are history: `misused`, if the
script closed it, or read another length, during a read of it, and `overtook`, if its
descriptor came from a close whose callback had not run.

### EventLoop, Timers, Servers and Runtime

`EventLoop` has the main thread's place (`pc`), the JavaScript frame that runs, and
`events`, a history of SIGINT and of the misuses of libuv the properties except.
`Timers` has a record per handle: the life of the `uv_timer_t`, the ticks until it is
due, its repeat, the identifier and the references that `registered_cb` holds. A
negative `int32_t` delay becomes a `uint64_t` that no process lives to see (`Never`).
`clearIntervalFunc` closes what the map has under the identifier, which is another
handle if `generate()` repeated itself. `Servers` has the Server objects, the handlers
with their references, the two maps (the environment's, not the Server's) and the
SIGINT entry: `Registered` and `Deregistered(n)` are `register_daemon` and `n` calls of
`deregister_daemon`. `Runtime` interleaves them, ends the loop as `uv__loop_alive` and
`uv_stop` do, and tears down in the order of `tear_down_runtime_env`, with the Servers
finalized last. A script clears each identifier it got at most once, keeps a Server
that listens, and calls `listen` once per Server. The code has no such guard: a second
`listen` (`src/builtins/server_js.cc:106`, `src/server.cc:437`) initialises the handle of
the first again, which libuv does not define, and takes a second reference to SIGINT,
which one finalizer does not give back.

## Runs

| Run | Instance | Distinct states | Shows |
|---|---|---|---|
| `spsc_queue` | ring of 4, 2 items | 7 251 | `ImplementsFIFO`; no two threads in a slot (`NoSlotRace`) |
| `work_queue` | ring of 4, 5 items | 206 | a dequeue finds its item, nothing is lost, no wakeup is lost, a stop completes |
| `worker_pool` | 1 worker, job ring of 2, result ring of 3, 4 jobs | 20 597 | no result is lost, no deleted manager is used, when `close()` returns, the process ends |
| `js_worker_pool` | 2 workers, rings of 2, 3 jobs, every script outcome | 82 198 | each callback has one owner, `in_flight_` and the doorbell agree, a deleted worker is used no more, jobs are answered, a close is silent |
| `inference_pool` | 2 workers, job rings of 2, result rings of 3, 3 jobs, streams of 2 | 209 584 | one free per shared callback, streams counted and ended, models outlive the threads |
| `mem_pool` | 4 slots, 8-bit `size_t` | 1 876 | the free list, refinement of `SlotPool` |
| `connections` | 2 slots, 1 buffer each, 3 peers, 3 reads | 95 477 | guards, buffers, one exchange at a time, no stale response, slots released quiet and always reclaimed |
| `file_system` | 2 threads, 2 opens, 2 reads of 2 lengths | 189 330 | when requests find their memory, a read returns its own file, descriptors known, callbacks called, closes finish |
| `runtime` | 2 timers with delays -1, 0, 1 and 2 identifiers, 2 Servers, 2 handlers, 5 calls | 90 576 | callbacks held and freed once, clears stop, the signal's count, no late call, timers fire, SIGINT ends the process |
| `websocket` | 2 frames of 0 or 126 bytes, text or not, reads of 1, 50 or 100; sends at 125, 126, 65535, 65536 | 1 801 751 | texts delivered once, in order, at their last byte; what `sendFrame` writes `parseFrame` reads |

Bounds. The ring of 4 wraps, fills and empties in every phase; five items wrap a ring
of three places. Four jobs for one worker fill its job ring of one place, let two
results share one doorbell and make the thread spin on a full result ring. Two workers
and three jobs give one worker two jobs and let `close()` find the two at different
steps. The main thread's code is the same for both kinds of worker, so a property of it
is checked in the run whose instance is the harder one for it. Four slots allow every
order of release, exhaustion included. Two slots with three peers recycle each slot and
exhaust both pools at different times; one read buffer per slot makes the pool run dry;
three reads are a request in parts, or a pipelined request, or an upgrade and a frame.
Two files over two threads let an open overtake the callback of a close whose number it
got; two reads of two lengths overlap each other, share or replace a buffer, and meet a
close and the finalizer. Two timers collide or not, fire in each other's
callbacks and are cleared there; two Servers share, exhaust and restart the signal. Two
frames are enough for a read to reach from one into the next and for the chain to find
a frame again, and a frame of 126 bytes is more than one buffer of 100. `MaxPeers`, `MaxReads`, `MaxWrites`, `MaxJobs`, `MaxItems`,
`MaxOpens`, `MaxCalls`, `MaxTimers`, `MaxServers`, `MaxRoutes` and `MaxIn` bound what
peers and scripts do, not the code; `TOKEN_GEN_MAX` is the code's own bound, made small.

Deadlock is checked except in `mem_pool` (an assertion stops the program) and
`js_worker_pool` (a job given to a worker without a script keeps the loop waiting for
ever: the hazard at `src/workers/js_worker.cc:55`).

### Where the code and its words disagree

Two runs are expected to be violated; each checks one sentence of a document:

- `close_hang` (`CloseReturns`, 5 895 states): `close()` joins a thread that spins for
  room in a ring which only the caller of `close()` empties. `CloseReturnsWhenRoom`, in
  a passing run, says when it does return, and `ProcessEnds` excepts just this wait.
- `stack_buffers` (`BuffersOutliveWrites`): a write the kernel takes in part continues
  from a dead stack frame.

These are in the models as the code has them; the properties except them by name, or
the instance leaves out the scripts that cause them:

- The callback of a refused dispatch is never freed (`src/fib_engine.cc:32`);
  `CallbackOwnedOnce` counts it as owned by nobody.
- A manager dropped inside its own callback is deleted while in use
  (`src/fib_engine.cc:82`); so is an inference engine closed there. The runs have
  `DropInCallback = FALSE`; with it, `NoUseOfDeletedManager` holds.
- An aborted response can close a closing socket (`src/http_message.cc:113`), which
  libuv asserts against; `Connections` ends there (`crashed`).
- `dequeue` returns false as soon as it is stopped, whatever is queued (the comment at
  `include/work_queue.h:44` adds "and no items remain"); `NothingLost` shows that
  `drain` gets the rest.
- A read callback with `nread` = 0 closes the connection (`src/server.cc:318`; libuv's
  manual says it is no error).
- A script that closes a descriptor, or reads another length, while a read of it is in
  flight makes a thread or a callback use freed memory; so does one that loses the
  FileSystem while an open or a close is in flight. `LiveRequests` says that nothing
  else does. An open that gets the number of
  a file whose close callback has not run loses its map entry to that callback
  (`src/builtins/fs.cc:112`) and can then be neither read nor closed: the exception in
  `FdKnown`. A failed open leaks its state (`src/builtins/fs.cc:61`).
- `docs/filesystem.md:3` says of the file operations "All operations dispatch to libuv's
  threadpool and call back on the main thread". A read of a descriptor the map does not
  have returns without calling back (`src/builtins/fs.cc:163`): the exception in
  `CallbackCalled`. `close(fd, callback)` (`docs/filesystem.md:36`) never uses its
  callback (`src/builtins/fs.cc:191`), so `CallbackCalled` is about open and read.
- An interval of 0 ms fires once; a timer with a negative delay never fires and keeps
  the loop alive; `TimerFires` is about the others. Clearing an identifier twice, or one
  never given out, closes a freed or null handle.
- A Server that never listened deregisters a reference it did not take ("stray"), and a
  `listen` after the handle began to close starts it while the loop still has it
  ("restart"). A failed `listen` keeps SIGINT registered, so the process stays alive.
- A later registration of a path replaces the earlier one, although `docs/server.md:15`
  says "Handlers are matched in registration order." A missing static file aborts the
  process.
- Bytes that follow a whole WebSocket frame in the same read are dropped:
  `TextsDelivered` says what is delivered until then. The script's setup function runs
  before the handshake is written. An upgrade to a path without a route is completed
  with a WebSocket that nothing has initialised (`src/server.cc:250`,
  `src/http_context.cc:24`): the exception in `TextsDelivered`.
- A peer that leaves between its arrival and its rejection, when a pool is exhausted,
  makes `uv_accept` fail: `temp_socket` is then freed although `uv_tcp_init` has put it
  in the loop (`src/server.cc:374` and `:392`). `Connections` takes this for a peer that
  was rejected; no property is about that socket.

## Fairness

- Threads are scheduled: weak fairness of each worker thread, of the thread pool, and
  of the main thread's straight-line code. A JavaScript function returns.
- `uv_run` serves every ready handle in each iteration: strong fairness of each
  worker's doorbell and close callback and of each due timer, since the loop is left and
  entered in between. Time passes while it runs (`Tick`).
- `uv_stop` ends the loop at the end of an iteration: strong fairness of `LoopEnds`.
- `WorkQueue`: a started call goes on, the consumer runs; the producer need never
  enqueue or stop.
- `Connections`: the loop serves closed handles, cancelled writes and the idle timer.
- Nothing is assumed of peers, signals, or what a script calls.

## Proofs

All proofs are for every value of the constants, under the assumptions the modules
state: `N > 1` (the code's `static_assert`); `capacity` positive and below `SIZE_MAX`;
numbers of workers, slots and threads positive; bounds natural numbers; delays in the
range of an `int32_t`; opcodes of four bits, payloads of at most 2^30 bytes, and a `size_t` (`SizeMod`) that holds
these and a header.

- **QueueProofs**, of the ring (`RingSpec`): `RingTypeCorrect`, `SlotsNeverRace`,
  `RingImplementsFIFO`. The invariant `RingInv` adds to types what each thread knows from its own load and the other
  cannot undo: a producer past its test has room (`PushHasRoom`), its item is in the
  slot before it publishes (`PushStored`), a consumer past its test has an item
  (`PopHasItem`) and has copied the oldest one (`PopCopied`). The slot race is excluded
  because a full ring and an empty one would have to coincide. Refinement:
  `PushPublish` and `PopRelease` are the FIFO's two steps, tests that fail are its
  refusals, all else stutters.
- **QueueProofs**, of the work queue (`Spec`): `TypeCorrect`, `DequeueAlwaysFindsItem`, `WakeupNeverLost`,
  `NothingEverLost`. The key is `SemBalance`: the semaphore's count plus a consumer
  past its wait equals the queued items whose post has been made, plus one once a
  stop has posted. It is inductive only together with what the program counters say
  about the flag (`FlagMatches`, `ExitOnlyStopped`, `DrainAfterExit`).
- **MemPoolProofs**: `TypeCorrect`, `FreeListIntact`, `CountAlwaysExact`,
  `PoolImplemented`. `TypeOK /\ FreeListOK /\ CountExact` is inductive: the free list
  as a sequence without repetitions whose consecutive elements are linked, whose head
  is the pool's head (or the wrapped index when it is empty), and which holds exactly
  the slots not in use.
- **WorkerPoolProofs**, of `Spec` and of `JSSpec`: `ResultsNotLost`,
  `DeletedManagerUnused` (if no callback drops its manager), `DeletedWorkerUnused`,
  `DoorbellsCounted`, `ClosedIsSilent`. `MainOK` says what the main thread's place
  implies about the result in hand and the manager: a place reached through `close()`
  counts as the place it returns to (`At`), which is what makes a close inside a
  callback no special case. `WorkerOK(w)` says that `in_flight_` is the sum of the jobs
  in the two rings, in the thread and in the main thread's hand, that the doorbell is
  referenced exactly when the sum is not zero, that a result has a ring on its way, and
  that a worker whose `stop()` has returned is silent. A step changes at most one
  worker. `DInv` adds that a doorbell is closed only by a `stop()` that is over, and
  its worker deleted only while `on_result_ready` is not on the stack: a callback that
  closes the pool returns into a worker that is stopped and not yet deleted. `Ownership` and `JSOwnership` prove `OInv`: a job is in one place of one
  worker (`Once`) or in `on_result`'s hand, its callback has one reference while it is
  and none once it was accepted and is in none (`Owned`). The `Own...` lemmas say what
  taking a job in, handing it over, freeing it and draining a worker do to `Owned`; they
  are stated for any function from workers to sets of jobs, so that the streams of the
  inference engine use them too. `FibCallbacksOwnedOnce` and `CallbacksOwnedOnce` turn
  `OInv` into the cardinalities of `CallbackOwnedOnce`, for `Spec` and `JSSpec`.
- **InferenceProofs**, of `InfSpec`: `StreamsAlwaysCounted`, `ModelsFreedLast`,
  `StreamFreedOnce`, `StreamsOwnedOnce`. Here many results share one callback, and only
  the last one gives it up. `SInv` counts streams: the submissions, the thread's own, the
  last results in the ring and the one in hand. `SOInv` says who holds the callback, and
  that every other result in a ring is followed by its last one or belongs to the stream
  the thread still has (`Followed`). Neither is inductive alone: `stop()` drains the ring
  and frees per last result, which frees each callback once only by `SOInv`; `SOInv` needs
  `SInv` to know that the thread it joined holds no stream. `StreamFreedOnce` holds
  whatever scripts do. `StreamsOwnedOnce` adds that the callback `on_result` calls is
  still held, and assumes `~DropInCallback`: a close in the callback of a token frees that
  very callback while `on_result` still has it (the dropped manager above).
- **ConnectionsProofs**: `GuardsAlwaysAccounted`, `ResponsesNeverStale`,
  `SlotsReleasedQuiet`, `OneExchangeAtATime`, `BuffersAlwaysAccounted`. `Slot(r)` relates the fields of one slot (it has a guard until
  its socket is closed, and is quiet from then on); `Linked` and `Single` tie each
  client to its guard; `Owed(r)` ties a response to the guard of its connection, which
  while alive is still the guard of the response's slot; `Accounted(g)` counts the
  holders as cardinalities. A late `res.end` is safe because a slot gives up its guard,
  marked dead, before it can be accepted into again. On top of it `XInv` is about
  requests: the holders of an open client's guard other than the client are its
  responses, and these, its writes and its shutdown add up to `write_in_flight`
  (`Exchange`); a response is counted for the right connection because no two guards
  carry one connection's number (`Fresh`, `Distinct`). `BInv` counts the read buffers as
  the set of pairs of a client and a place in its chain, which grows and shrinks with it.
- **FileSystemProofs**: `RequestsLive`, `ReadsRightFile`, `DescriptorKnown`. `PoolOK`
  says that a request is in one place; `FileOK` relates requests, map, kernel and the
  script's view, in terms of the set of requests in flight alone, so that the queues are
  only looked at once. Of a read it says something only if its file was not misused; the
  map needs `EntryOK` (an entry is a live state, and its descriptor the file's own until
  its close takes effect) to be kept by reads and closes of other files. `UsedOK` then
  says who used freed memory.
- **WebSocketProofs**: `DeliveryOfTexts`, `FramesReadAsSent`, for payloads of up to 2^30
  bytes. `Number`, the loop of `parseFrame` that puts a length together, is a recursive
  function; what it computes cannot be proved by induction here, but a length has two or
  eight bytes, and for each a function that satisfies the equations is given outright
  (`NumberOfTwo`, `NumberOfEight`), so that it gives back what `BigEndian` took apart
  (`ReadBack`). Hence `parseFrame` finds a frame of `sendFrame` or of a client as soon as
  its last byte is there, and not before (`Readable`). `IInv` then says that the frames
  lie end to end in the stream (`Laid`); that the chain begins where a frame does and
  holds less than that frame, until bytes are cleared unread (`Aligned`); and that the
  texts delivered are those that end where the chain begins or before (`Heard`,
  `AllHeard`). Without `Aligned` nothing is known of what `parseFrame` looks at; `Heard`
  is kept without it, because a chain that begins with a frame begins behind all that
  were delivered.
- **RuntimeProofs**: `CallbacksAlwaysHeld`, `ClearAlwaysStops`, `SignalsAccounted`,
  `NeverLate`. The invariant has a part for each of timers, handlers and signal.
  `Interval(h)`: without collisions, the map leads from an interval's identifier back to
  it, and its handle is open exactly until it is cleared. `Started`: a handle that was
  not restarted is open while active, and inactive once the loop is to end, which is why
  the finalizers that run after `uv_library_shutdown` find nothing to stop. `Counted`:
  the reference count is the number of Servers that listen.

Only model-checked: liveness, which is out of the prover's reach. Every invariant that a
run checks, and both refinements, are theorems.

## Not modelled

SHA-1, base64 and content types are pure functions over words and strings and stay
out. The console, header texts and log output are layout. `setHeader` and the request's
getters touch no state that anything else sees; `on_shutdown_cb` is never called. The
wiring of builtins into the global object is data. Memory orders weaker than sequential
consistency are not explored. The Fibonacci number, a worker's JSON, tokens and the
bytes of files and payloads are data no property looks at. What a freed object does
(a WebSocket used after its connection closed, a Server dropped while it listens) is
undefined, and the models keep scripts from it.
