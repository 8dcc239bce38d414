# cronet-rs: a verification development

TLA+ models of `cronet-rs`, the Rust bindings of Chromium's network stack: what
its asynchronous core does, model-checked with TLC on small instances, and
proved with TLAPS where that is possible. Paths below are relative to `src/`;
`request.rs` and its neighbours are in `crates/tokio-cronet/src/`.

## The system

| Component | State it keeps | Operations | Talks to |
|---|---|---|---|
| Engine lifecycle (`engine.rs`) | `native`, `closing`, `active`, `controls`, `shutdown_result`; the listener's `annotations` and `pending` | `begin_operation`, `register`, `begin/abort_finished_request`, `with_native`, `stop_net_log`, `shutdown`, drop | every operation holds an `EngineOperation`; every request registers a `RequestCanceler`; the native engine calls the request-finished listener |
| Engine configuration (`engine.rs`) | builder values | setters, `build` | native parameters |
| URL request (`request.rs`) | `RequestControl` (pointer, `done`, `cancel_requested`, gate), `CallbackContext` (buffer, channels, error, lease count) | `start_request`, seven callbacks, chunk, error, redirect and cleanup tasks, `cancel`, `status`, consumer side | engine; Cronet's executor workers; the consumer through four channels |
| Upload body (`request.rs`) | source, `remaining`, `closed`, completion gate | `upload_read`, `upload_rewind`, `upload_close` | Cronet's upload sink; the request's error slot |
| Bidirectional stream (`bidirectional.rs`) | `WriteState`, `ReadState`, `BidirectionalControl`, watch channels | `open`, `poll_write/flush/shutdown`, `write_loop`, eight callbacks, `cancel`, drop | engine; Cronet's network thread |
| WebSocket (`websocket.rs`, `native/cronet_rs_websocket.cc`) | `WsControl`, message channel, terminal watch; native channel state | `open`, `send_text`, `next_message`, `close`, callbacks, drop | engine; Chromium's WebSocket channel |
| Server-sent events (`sse.rs`) | parser buffer and fields, `last_id`, body, `pending` | `push`, `next_event`, `reconnect`, `cancel` | URL request |
| Executor (`executor.rs`) | runtime handle | `execute`: spawn a task per runnable | Cronet calls it from its threads |
| Network quality (`nqe.rs`) | bounded sample window | `observe`, read | engine |
| Bound networks (`native/cronet_rs_bind.cc`) | map from engine to network | bind, get, clear | engine, WebSocket |
| DNS, values and errors | none | conversions | - |
| Bindings, build script | none | generated declarations, link flags | - |
| Source builder (`xtask/src/main.rs`, `overlay_files.rs`, `native_extensions.rs`) | the cache directory: checkout, tools, GN view, build outputs, vendored copy; its lock file | `ensure_native_from_source`, `build`, `sync`, `sync --api-only`, `vendor-source`, and others that keep no state | git, gclient, GN, Ninja, LLVM tools |
| Platform rules (`xtask/src/platform/`) | none; rows of targets, arguments and overlay files | `prepare_overlay`, `cache_key`, `post_build` | source builder |

What is hard in it:

* **Parallel callbacks.** `execute` spawns one task for each runnable, so two
  callbacks of a request run at once on two workers, and a callback may still run
  when the next one starts.
* **Objects that native code and Rust share.** Callbacks hold raw pointers. Their
  lifetime rests on a gate (a mutex around the request pointer), on leases (a
  count of running callbacks) and on counts in the engine.
* **Shutdown.** It closes admission, cancels what is registered, waits for two
  counters with `Notify`, and runs one initialiser in a `OnceCell`, in a future
  that can be dropped at each `await`.
* **Bounded channels.** A chunk or an error may find the channel full or its
  receiver gone.
* **Cancellation** from any thread, at any moment, including before `Start`.
* **Streams cut anywhere.** A body, an upload and an event stream come in pieces of
  any size, end early, start again, or stop for ever.
* **A cache that outlives processes.** The builder decides from the files it finds
  what earlier builds, for other platforms, failed or killed, have done.

What makes each component correct is said with its module below; `PROJECT.json`
lists the hazards with their lines and the properties that cover them.

## Modules

| Module | Models |
|---|---|
| `EngineContract` | what the engine promises: users enter while it is open, it goes down when they have left |
| `EngineLifecycle` | the engine's lifecycle, in full |
| `EngineLifecycle_proofs` | theorems about it |
| `UrlRequest` | one URL request |
| `UrlRequest_proofs` | theorems about it |
| `Upload` | the upload body of a request |
| `Upload_proofs` | theorems about it |
| `BidiStream` | a bidirectional stream from `open()` to its destruction, with its read side |
| `BidiStream_proofs` | theorems about it |
| `BidiWrite` | its write side |
| `BidiWrite_proofs` | theorems about it |
| `WebSocket` | a WebSocket over the native socket |
| `WebSocket_proofs` | theorems about it |
| `EventSource` | server-sent events: parser and reconnection |
| `EventSource_proofs` | theorems about it |
| `SourceOverlay` | the builder's GN view: what each platform writes into it, and what the file system makes of that |
| `SourceCache` | the builder's cache, over `SourceOverlay` |
| `SourceCache_proofs` | theorems about it |
| `MC...` | the instance of each module for TLC: model values, the builder's jobs |

In every module an action is one critical section, one atomic access, one native call
or one step of a task between two awaits, so that every interleaving the threads can
produce is there. Operators marked "Mutant" are faulty variants that no specification
uses; each shows that a property can fail.

### EngineLifecycle

Each operation has a place `op[o]`, each direct call `direct[d]`, each call of
`shutdown()` a `pc[s]`.
`begin_operation` is `BeginOperation` (the look at `closing` without the lock)
and `Admit` (the second look and the count, under the lock); `shutdown` is
`Close`, `Snapshot`, the cancel loop `CancelFlag`/`CancelNative`/`AllCanceled`,
then `GetOrInit` and the initialiser: `LoadActive`, `ArmActive`, `ReloadActive`,
`WakeActive` for the first wait, `ArmPending`, `LoadPending`, `WakePending` for the
second, `TakeNative`, `Join`. A `Notified` is a member of `idleWaiters` or
`pendingWaiters`; `notify_waiters` empties the set. `DropFuture` drops a future at
any of its awaits: a dropped initialiser frees the `OnceCell`, and the blocking job
goes on. `job` follows `NativeEngine::shutdown` on its thread.

Abstractions: an operation is a request or a `stop_net_log` call (which of the two shows
in its path); each runs once. `controls` keeps dead entries, which the code prunes:
cancelling one does nothing in either. `UserCancel` takes the two steps of `cancel()` at
once, since only the shutdown's loop is interleaved with `Start`. The native request is
reduced to `net` (unstarted, running, ended) and `fin` (its engine callback). `InitFails`
stands for every early return between admission and `Start`, that of `NativeRequest::new`
before the registration (`request.rs:662`) among them: each drops the operation, and what
was registered is a dead entry. A panic, and a `JoinError` from a runtime that is torn
down, are left out.

Properties: `AccountsAreExact` (the two counters are the numbers of live operations
and of owed callbacks), `DestroyOnlyWhenUnused`, `ListenerOutlivesCallbacks` (but for
an engine whose waiting thread could not be spawned, which loses its listener with the
closure), `CancelReachesEveryRequest`, `UndroppedShutdownIsHonest`,
`ShutdownCompletes`, and the refinement `ImplementsContract`.

### UrlRequest

`pc[a]` is the place of each actor: the thread in `start_request`, one frame for
each callback (two for `on_read_completed`, which may overlap with itself), the
chunk tasks, the redirect and error tasks, and the threads that call `cancel()`.
The cleanup task and the consumer have variables of their own. `gate` names the
actor that holds `RequestControl::gate`; `cancel()`, `follow_redirect` and
`resume_read` keep it across the native call, in two steps, so that a missing lock
would show. `owner` says who owns the read buffer, `recorded` whether
`CallbackState::buffer` points to it.

`Read` has the three outcomes that `CallbackContext::read` tells apart: the buffer is
Cronet's, the read is unexpected and the buffer still the app's, or another error, after
which the code counts the buffer as Cronet's and fails the request (`request.rs:1141`).
`policy` is "unset" until `OnRedirect` looks at it: what a request does before does not
depend on it.

Cronet itself is external (`Network`, `Invoke`, `NativeEnd`, `NativeCancel`):
it calls back as `request.rs` relies on, gives a read its buffer back on
completion, refuses an unexpected read, ignores a cancel before `Start` or after
the end, drops a non-terminal callback that is still queued when the request ends,
and posts one terminal and one finished callback. The workers run posted callbacks
in any order and in parallel (`executor.rs`).

Abstractions: a chunk counts one byte; an `InvalidReadSize` and a failed allocation
take the path of a body that is too large or of a refused head. `wait_for_callbacks`
is one wait (the `Notified` pattern it uses is modelled step by step in
`EngineLifecycle`). `RequestControl::status` and the teardown of the runtime are left
out.

A worker may stall between Cronet's call of a callback and its lease (`entering`), so that
the cleanup task finds no lease and destroys the request under it: `CallbackObjectsOutlived`
fails (see Findings). `late` is a history variable: the callbacks that had begun, without a
lease, when the cleanup task found none. What those do on destroyed objects is excepted from
the two properties below, by name, and nothing else is.

Properties: `NativeCallsOnLive` and `BufferUsedOnlyIfOwned` (but for callbacks in `late`),
`Backpressure`, `CleanEndMeansComplete`; live: `RequestSettles`, which says that an
abandoned request ends with all its tasks and that an ended one is released without its
consumer.

### Upload

Cronet asks for one read or rewind at a time (`Read`, `Rewind`), may close the provider
at any moment (`Close`) and end the request at any moment (`Terminal`). The spawned task
goes through `task`: it waits for the source or the close, whichever comes first
(`ReadSource`, `RewindSource`, `SourceFails`, `SeesClose`), and answers (`SendRead`,
`NoDestination`, `SendRewound`, or `RecordError` and `SendError`). A close that is seen
wins, as in the `biased` select. `position` is what the source gave, `sent` what Cronet
took since the last rewind, `remaining` the code's own count of a declared length.

Abstractions: bytes are counted; a source's error and an error of its seek are one
fault. `UploadProvider::new`, which may fail before there is a request, is left out.

Properties: `OneCompletionEach`; `BodyIsFaithful` (what Cronet holds is always the
prefix of the body that was read, also after a rewind; it is never given an empty chunk
while it expects bytes; a request ends well only on a complete body); live:
`ClosedUploadSettles`, with sources that never answer.

### BidiStream

The owner goes through `open()` (`Create`, `StartFails` or `Start`, `SetStarted`,
`Recheck`, `Open` or `OpenFails`, a dropped future included), reads (`Receive`) and
drops the stream. `cancel()` has its look at the flags (`Flag`), its gate (`CancelLock`)
and its native call (`CancelCall`), for five callers: the engine, `open()`, the owner, a
read task, and the network thread. `readTask` is the task that sends a chunk
(`SendChunk`, `ChunkRefused`) and starts the next read under the gate (`StartReadLock`,
`StartReadCall`, `ReadRefused`); an end of data and the terminal result have tasks of
their own (`sending`). The terminal callback has four steps (`OnTerminal`, `Answer`,
`End`, `Leave`), since the cleanup task (`Destroy`) runs beside it.

Cronet's network thread makes one callback at a time, gives one answer to a read, and
ends a stream once; a failure may come at any time. A chunk is its number.
`StoreBuffered` chooses whether the store of `started` in `open()` may still be invisible
to a canceller when `open()` looks at `cancel_requested`: `bidirectional.rs:521` and 586
use Release and Acquire, which allow it. Checked is FALSE; see "Divergences".

Properties: `StreamOutlivesItsUses`; `ReadSideIsFaithful` (chunks whole and in order, all
of them before an end, and never more than one outside the channel); live:
`StreamSettles`.

### BidiWrite

Three actors. The producer polls `AsyncWrite`: `Write`, `Shutdown` and `FlushCall`
start a poll, `EnqueueData`, `StoreWaker`, `Recheck`, `NotifyData` are the steps of
`enqueue_data`, `EnqueueFlush` and `NotifyFlush` those of `enqueue_control`,
`FlushAnswer` is the end of `poll_flush_receiver`. It may abandon a call that is
Pending (`Abandon`: the `flush_receiver` stays), cancel, and drop the stream. `loop`
follows `write_loop`: it makes its `Notified` (`LoopTop`), looks at `ready`, pops,
counts a write in flight before Cronet has it, waits. The network thread runs
`on_stream_ready`, `on_write_completed` and the terminal callback, one at a time.
`permit` and `heard` are Tokio's `Notify`: `notify_one` releases a waiting `Notified`
or stores one permit, `notify_waiters` reaches a `Notified` made before it, even if it
does not wait yet. A woken producer is `woken`; a poll clears it.

Cronet is external (`Network`): it completes writes in order, holds them back until a
flush when auto-flush is disabled (`released`), may refuse any write, ends a stream
once, and with success only after the end of the stream was completed (or the request
was read-only).

Abstractions: a write is its number, so data pointers and lengths are gone; the
in-flight map, keyed by pointer, is a set of numbers (a buffer in flight is kept alive,
so its pointer is not reused). An empty `poll_write`, which returns at once, and the
destruction of the native stream, which comes after `done`, are left out.

Properties: `WithinCapacity`, the documented bound, which does not hold (see Findings);
`BufferBound`, one above `write_capacity`, which does;
`FlushOkMeansDelivered`, `BlockedFlushHasWrite`; live: `NoWakeUpLost`.

### WebSocket

The owner goes through `open()` (`Create`, `Register`, `Connect`, `OpenReturns`), sends,
closes and receives, and drops the socket: `Clear` takes the pointer, `Destroy` and
`DestroyAgain` post a task and wait for it (`Cronet_RS_WebSocket_Destroy` and then the
destructor both call `DestroyAndWait`), `Delete` frees the rest. `posted` is the queue
of the network thread, which runs its tasks in order (`RunConnect`, `RunSend`,
`RunClose`, `RunDestroy`) and the events of the channel between them (`Handshake`,
`Message`, `ChannelDrops`, `ChannelFails`). `callback` is the terminal callback the thread
is inside of: "closed" or "failed" until `OnClosed` or `OnFailure` has finished, which ends
the engine's operation, and "returning" until `ResetChannel`, since `OnDropChannel` and
`OnFailChannel` reset the channel only when the callback has returned
(`cronet_rs_websocket.cc:417-431`). `on_failure` answers `open()` a step before it finishes
(`Fail`). A send looks whether the socket is done (`Send`) and then posts (`SendPosts`). A
shutdown of the engine closes it, loads the pointer, calls `Close`, and goes down when the
operation has ended.

Abstractions: a message is only that it is one, since a channel with one writer and one
reader cannot reorder; frames, flow control and handshake headers are gone. Where the owner
uses an engine that was destroyed under it the code's behaviour is undefined and the model
stops (`UseFreedEngine`).

Properties: `DeletedSocketIsUnused` (but for a cancellation that comes after `Drop` has
cleared the pointer); `EngineOutlivesOpenSocket` (until the terminal callback has finished:
from there to the reset of the channel nothing holds the engine); live: `SocketSettles`
(but for a Close posted before Connect, and for the freed engine). It does not say that
`open()` returns, nor that a socket whose `open()` was dropped is ever deleted.

### EventSource

The server sends any sequence of tokens, `Chunk` delivers any number of them at once.
`Push` is the parser as written: it appends to its buffer, looks for a byte order mark at
its beginning, and takes complete lines off it, one in each round of its loop
(`PushLine`, `Rounds`). `Reference` says by positions, without a buffer, where the lines
of the whole stream of a connection begin (`Starts`), which are empty (`Blanks`) and which
belong to the block of an empty one (`Lines`). `NextEvent`, `BodyEnds`,
`Wake`, `Connected` and `ConnectFails` are `next_event` and `reconnect`; `DropCall` drops
the future at any of its awaits. `given` is the builder's own `last_event_id`, which
`open` sends and puts into the parser; `asked` is the sequence of `last-event-id` headers of
a reconnection, which repeats the headers of the first request and then adds the parser's id
(`sse.rs:307-312`), so that with a `given` id there are two.

Abstractions: a token is a line ending, a byte order mark or the text of one field, and a
value is the number of its token; `retry`, comments and unknown fields change nothing.

Properties: `EventsAreTheServers`: the consumer gets the events of `Reference`, over all
connections, however the streams were cut. `tainted` records the boundaries that the
parser reads wrongly (see "Divergences"), after which only the order is promised.
`ResumesAfterReceived`: `last-event-id` names the last event the consumer has, not one
that was half sent or is still pending, and the given id if there is none; it is the last
header. Live: `BreakIsAnswered`.

### SourceOverlay and SourceCache

`SourceOverlay` models the GN view as fifteen places, one for each way a place of it is
written: a directory linked whole until a platform replaces a file in it, directories
that are always walked, files that are filtered, replaced or both, a wrapped source. The
operations (`EnsureSymlink`, `Write`, `MaterializeParent`, ...) are the builder's, on a
file system in which a path below a link is in the checkout and a write to a link
changes the file it names. `Plans` is their order for each platform, and `FreshViews`
what they make where there was no view.

`SourceCache` runs five kinds of operation for any number of processes. `Acquire` takes
the lock, `run.at` is the stage of the operation; `Check` and `Require` decide from the
directory alone. A step is one external command or one file operation. A command may
`Fail`; a process may be killed (`Kill`) at any step, and leaves what `HalfDone`,
`HalfWritten` and `HalfBundled` say: a repository cut short between its five commands (`bare`
without a remote, `remote` without a sparse checkout, which is then fetched whole and refuses
to reapply), half a clone, a view of which `remove_dir_all` has taken any part that its order
allows (`Remainders`), an archive deleted and not yet made again. `EditWrapper` makes the
committed wrappers newer than every library, at any moment; an edit while Ninja runs may be
too late for what it compiles.

`newest` is what `newest_library_mtime` finds: any file with "cronet" in its name, the raw
static archive that Ninja leaves in the output directory included (`main.rs:763`,
`native_extensions.rs:81-88`), so `Ninja` makes it new in a static build as well.

Abstractions: one temporary directory for vendoring; the commands that an operation runs
end with it; times are "older or newer than the wrappers". `blame` is a history variable:
`packaging`, libraries whose packaging was broken off after Ninja; `mixed`, libraries older
than the wrappers beside files that are newer; `view`, a view that a kill has torn; and
`reapply`, a manifest written and not applied.

Properties: `InstalledIsComplete`: a successful operation has its library with all that
belongs to it (but for libraries in `blame.packaging`), and no older than the wrappers (but
for those in `blame.mixed`). `BuildsSeeTheirOwnView`: when Ninja runs, the view is, place by
place, the one a build of this platform makes from nothing, and the file that is read at
each place, through a link if there is one (`Contents`), is the one checked out or committed
there. Excepted are views that a kill has torn, and in OHOS builds PartitionAlloc's committed
BUILD.gn, which is the finding below; no other file outside the view is ever changed.
`CleanRunSucceeds`: whatever is left of earlier operations, one in which nothing fails
succeeds, or meets one of the obstacles of `KnownObstacle`. The exceptions are listed under
"Divergences".

## Runs

| Run | Instance | Shows |
|---|---|---|
| `engine` | 1 operation, 1 direct call, 2 callers; futures drop, threads fail to spawn | the engine's invariants, its contract, and that shutdown returns |
| `request` | each policy, 3 reads or 1 redirect and 1 read before the end, 1 read frame, 2 chunk tasks, capacity 1, limit 2 | the request's invariants; ended and abandoned requests go away |
| `request_late_lease` | 1 read, 2 read frames | finding: a lease taken too late |
| `upload` | sources of up to 3 bytes, any declared length, buffers of up to 2, 2 rewinds | one completion each, a faithful body, no upload that hangs |
| `bidi_stream` | capacity 1, 3 chunks | lifetime, order and end of the read side |
| `bidi_write` | capacity 1, 3 writes, 1 flush, with and without auto-flush, read-only or not | the write side's invariants; no lost wake-up |
| `bidi_flush_answered` | capacity 1, 2 writes, 1 flush | finding: a flush of an ended stream hangs |
| `bidi_write_capacity` | capacity 1, 2 writes, 1 flush | finding: one write more than the documented bound |
| `websocket` | capacity 2, 3 messages, 2 sends or closes | socket, network thread and shutdown |
| `event_source` | CR, LF, byte order mark, data, id; 6 tokens, 2 connections, chunks of up to 5, a byte order mark at most at position 2; with and without a given id | parser and reconnection |
| `source_cache` | 1 process, 7 operations for 3 platforms, 1 mishap | the cache survives what is done to it |
| `source_committed_files` | 1 process, no mishap | finding: a build writes to a committed file |

Bounds, and why they are enough:

* In the engine, two callers let one drop its future while the other waits, or overtake
  it; every operation, call and caller acts once, which bounds the counters. One
  operation and one direct call already are two users that enter and leave past each
  other. (Two operations without a direct call give the same results on some 580 000
  states.)
* In a request, a channel of capacity 1 is full after one chunk, so that the second
  chunk and the error both have to wait; three reads pass a limit of two chunks, and let
  an empty read come between two chunks; a redirect counts as two (`MaxRounds`). A
  second chunk task is needed because the first one may still hold its place when the
  next read completes (which place a task takes does not matter: `NextTask`). A second
  frame of `on_read_completed` can begin while the first is still behind its next read;
  the callback of the head and the chunk tasks, which read as well, give the same
  overlap with one frame. The proofs have any number of each.
* In an upload, three bytes against buffers of two make a source shorter than, as long
  as and longer than what it declares, with a full and a partial read; the second rewind
  starts from a body that was already sent again.
* On the read side, three chunks over a capacity of one leave one in the channel, one
  waiting, and one that must not be asked for.
* On the write side, capacity 1 makes the second write park while the first is in
  flight, and the third while `write_loop` holds the second.
* In a socket, three messages overflow a channel of two, and two posts put a send before
  and after a close.
* In an event source, six tokens hold two events with an id over two connections, or one
  event with a CR LF cut in every place. `event` and other fields go through `Field` as
  `id` does and are left to the constant `Kinds`. A mark at the second position is in
  the middle of a line or at the beginning of the second one; further behind it does the
  same (`MaxMark`).
* In the cache, seven operations cover each kind, both linkages and all platforms. A
  process decides what its operation is for when it has the lock, so one process asks
  for all of them, and a second one could only wait. One mishap at any step, followed by
  any sequence of operations, is what "the next one starts from it" is about.

Deadlock is not checked: all of these systems stop when their work is done.

Fairness. Threads and tasks that can go on do (weak fairness of each actor's own steps; in
`UrlRequest` of all their steps together, which asks for less and is enough, since a
request takes finitely many of them): the Tokio runtime polls every task that was woken,
and the model says when one is. A cancelled native request or stream ends, and each
callback handed to the executor is run. Cronet completes the writes that it need not hold
back, and closes the upload of an ended request. A closing handshake of a WebSocket ends,
by its timeout. In `BidiStream` and `EventSource` the consumer goes on asking, which is
the premise of what is promised to it. The end of a cancelled body stays in its channel
until a call of `next_event` takes it, so although any call may be dropped, one gets it:
strong fairness. Servers, upload sources, redirect handlers and users owe nothing.
`SourceCache` promises nothing about time.

## Proofs

`EngineLifecycle_proofs` proves, for any finite set of operations and any sets of
direct calls and callers:

* `TypeCorrect`, `AccountsExact`: the inductive invariant is `CountInv`, type
  correctness with `OpInv` (where an operation stands determines whether its
  native request was started, whether its annotations are registered, and how far
  its engine callback is) and the counts themselves. `OpInv` is what makes
  `FinishOne` decrement a positive number and what relates `Counted` to the
  operation that leaves it.
* `DestroySafe`, `ListenerSafe`: `DrainInv` adds that admission is closed under the
  native mutex, and that from the wait on, no operation and no owed callback comes
  back.
* `CancelComplete`: `CancelInv` follows each operation through the race of
  registration, snapshot, flag and re-check.
* `ShutdownHonest`: `HonestInv` says that, while nobody drops a future, one caller at
  most is inside the initialiser of the `OnceCell`, the engine is taken only by that
  caller, and the result in the cell is the job's.
* `ContractImplemented`: initial states map to initial states, and each step to a step
  of `EngineContract` or to a stutter, with `DestroySafe` for the step to "down".

`BidiWrite_proofs` proves, for any capacity and any number of writes and flushes,
`TypeCorrect`, `Bounded`, `FlushDelivered` and `BlockedHasWrite`. They come from one
inductive invariant, `Inv`:

* `CoverInv`: on a live stream, an accepted write is queued, held by `write_loop`, in
  flight or completed; none is lost on the way. With `OrderInv` (the queue and what
  `write_loop` holds are in the order of acceptance, and a flush stands after the
  writes that were accepted before it) a flush that is answered `Ok` has nothing
  left in front of it: that is `FlushDelivered`.
* `ProdInv` ties the end of the stream and the success of a terminal callback to the
  writes the producer has accepted; `LoopInv` says what `write_loop` holds at each of
  its places; `IssuedInv` that every flush in the queue, among the waiters or answered
  is one that was issued.
* `BoundInv` counts the write that is in neither the queue nor the in-flight set while
  `write_loop` carries it from one to the other: `BufferBound` alone is not inductive.

`UrlRequest_proofs` proves, for any read size, body limit, capacity, number of chunks and
redirects, and any sets of frames and chunk tasks, `TypeCorrect`, `BackpressureKept`,
`CleanEnd`, `NativeCallsLive` and `BufferOwned`, all of them of `Spec` as it is, in which a
worker may stall before its lease as long as it likes. The inductive invariant is `Context`:

* `TurnInv`: Cronet waits for at most one callback or actor at a time; whoever has the
  turn is the only one that may make the next native call. This is what keeps two chunk
  tasks, or a chunk task and a callback, out of each other's way.
* `AccountInv` says where every chunk is: in a frame, in a task, in the channel, or with
  the consumer; `Backpressure` follows from it.
* `ErrorInv`: a request that is not successful has an error on its way to the consumer or
  delivered, so a clean end means a complete body. `EndInv` and `CleanupInv` order the
  terminal callback, the finished callback and the cleanup.
* `GateInv` (who may be inside `RequestControl::gate`), `LeaseInv` (once the
  native objects go, a callback has returned or is in `late`) and `BufferInv` (who owns
  the read buffer while a read is out) give the last two theorems.

`Upload_proofs` proves `TypeCorrect`, `CompletionsExact` and `BodyFaithful` for sources,
declared lengths and buffers of any size and any number of rewinds. Its invariant follows
the bytes from the source through the task to Cronet: until an
upload is refused, what was sent since the last rewind is the position of the source less
what the task holds.

`BidiStream_proofs` proves `TypeCorrect`, `LifetimeSafe` and `ReadSideFaithful` for any
capacity and any number of chunks, and for both values of `StoreBuffered`: a cancellation
may be lost with store buffering, but no memory is. `LifeInv` ties the pointer, the
operation, the gate and the leases; `ReadInv` says that one read at most is out or in a
task; `ReaderInv` and `ChannelInv` that what the channel holds continues what the consumer
has received.

`WebSocket_proofs` proves `TypeCorrect`, `EngineOutlives` and `DeletedUnused` for any
capacity and any number of messages, sends and closes. The invariant is about the queue of
the network thread: Connect stands before everything that needs a channel (`ConnectInv`),
nothing but a late cancellation follows a Destroy (`DestroyInv`), and once a Destroy has run
nothing that is queued calls back (`QuietInv`). The operation lasts as long as the channel,
until the terminal callback has finished (`OperationInv`).

`EventSource_proofs` proves `TypeCorrect`, `ResumesCorrect`, `OrderCorrect` and
`EventsCorrect` for streams, chunks and connections of any number and size. The parser is a
loop over data, so that the proofs need induction over its rounds. The library's induction
theorems take an operator, but the one on well-founded relations that takes a set
(`WFMin`) is enough: with the fact that `<` is well-founded it gives `Induction` (a set of
numbers with 0 and the successor of each member has them all), that gives `Recursion` (a
function defined by recursion on a number satisfies its definition) and `DrainInduction`
(what every round keeps, the loop keeps). The inductive invariant has, beside `TypeInv`:

* `CallInv` and `NamedInv`: the parser's last id is that of the last event with an id among
  those received and pending, or the given one; the last header of a request is that id;
  and a call that waits for a connection has none pending.
* `OrderInv`: the lines of data that the consumer has, then those pending, then those kept
  in the parser, then the tokens in its buffer have ascending numbers.
* `MatchInv`: unless a boundary has changed the events, there is a place in the stream
  behind whole lines, such that the events so far are those of the connections before and
  of the blocks up to that place, the parser's fields are those of the open block, and its
  buffer is the rest of the stream. `EventsAreTheServers` follows as `Reference` of the
  whole stream has the same blocks: no complete line is left in the buffer.

The lemmas on the way are about the model's operators: what `LineEnd` finds, that
`Ascending` enumerates a set of positions, that the blocks up to a place do not depend on
what comes behind it.

`SourceCache_proofs` proves `TypeCorrect`, `InstallationsComplete`, `BuildsOwnView` and
`CleanRuns` for any processes, any set of jobs and any number of mishaps. The first part
is about libraries. Its invariant, `Inv`, has at its heart `LibraryInv`: every library in
the cache is complete, or is being packaged by the operation that holds the lock, or its
packaging was broken off and `blame` has it. `AgeInv` says the same of its age: a library
older than the wrappers in a directory that looks newer is being packaged or is in
`blame.packaging` or `blame.mixed`. `StageInv` says what the stages behind the one
of the running operation have established of its library, `KindInv` which kinds of operation
reach which stages. The second part adds `CacheInv`:

* `CheckoutInv`: a checkout that is not what its manifest asks for is being applied, is
  blamed, or is one that was never made sparse. `DiskInv`: what the stages behind the one
  of the running operation have left in the cache directory.
* `ViewInv` says how far the view has come. It compares the view with tables: which kinds of
  node a build of a platform may find at a place before and while it runs (`Tolerated`,
  `Before`, `Allowed`), where the place is opened up (`Opens`), where it is settled
  (`Settles`), and how it ends (`Final`). The plans are checked against the tables
  operation by operation (`PlansFit`); an operation that fits keeps a view within the
  tables (`DoSteady`), and so does each way to break it off (`BrokenSteady`). The same
  argument along the plan from an empty view, by `Induction`, shows that the last column
  is what a build makes from nothing (`Fresh`: `FreshViews` is `Final`).
* `Unspoiled` says that no file but PartitionAlloc's committed BUILD.gn is written through
  a link, whatever the view.

So a compiler that reads an unblamed view reads `FreshViews` of its own platform, and the
files behind it as they were but for that one (`BuildsOwnView`); and each way in which an
operation fails where no command does leads to a disjunct of `KnownObstacle`
(`CleanRuns`).

Every invariant that a run checks and that holds is stated by a theorem. The only
assumptions are those on the constants: `EngineAssumption`, `WriteAssumption`,
`UploadAssumption`, `StreamAssumption`, `RequestAssumption`, `SocketAssumption`,
`EventSourceAssumption` and `SourceCacheAssumption`. Only model-checked are the liveness
properties (`ShutdownCompletes`, `RequestSettles`, `ClosedUploadSettles`, `StreamSettles`,
`NoWakeUpLost`, `SocketSettles`, `BreakIsAnswered`) and the fairness they rest on: TLAPS
does not reason about `ENABLED` here.

## Findings

* `request_late_lease`: the cleanup task waits for the leases that are counted
  (`request.rs:1121`), but a callback is counted only once it has read its context from
  the callback object (`request.rs:1272-1277`). A worker that stalls before finds that
  object destroyed, against the comment "callback is our live native object".
* `bidi_flush_answered`: after a successful end, `enqueue_control` still queues a
  flush (it refuses only after an error, `bidirectional.rs:1202`), `write_loop` has
  returned, and the stream itself keeps the queue and so the sender alive; the flush
  never returns, although `poll_flush_receiver` means to report "bidirectional writer
  stopped" (`bidirectional.rs:297`). The same happens to a flush that `write_loop` adds
  to the waiters after `finish` has drained them.
* `bidi_write_capacity`: `enqueue_data` compares the queued and the in-flight writes with
  `write_capacity` (`bidirectional.rs:1169`). The command that `write_loop` has popped and
  not yet entered into `in_flight` is in neither, so that one more write is admitted, and
  together they reach capacity + 1, against the documentation of `write_capacity`: "Bounds
  queued and native-in-flight write buffers." (`bidirectional.rs:128`).
* `source_committed_files`: `write_test_filtered_directory` writes its filtered BUILD.gn
  with `fs::write` (`main.rs:1948`), which follows the link that an earlier build for
  OpenHarmony has installed in that place, into the file committed in this repository,
  against `xtask/overlays/README.md:3`. From that build on, OHOS builds compile
  that text.

### Divergences without a run

These the models have too; the properties name them as exceptions, or nothing in the
repository states the contrary precisely enough to be checked.

* Engine: a caller that drops its `shutdown()` future while `spawn_blocking` runs leaves
  the `OnceCell` empty and `native` `None`; the next caller returns `Ok` at once
  (`engine.rs:630`), before the engine is down or although its shutdown fails, against
  `engine.rs:462`. Where the thread that should wait for owed callbacks cannot be
  spawned, its closure drops the listener under them (`engine.rs:651`).
* Request: a slow reader clears the record of the buffer after the next completion has
  set it again, and the buffer of a request that then ends is leaked
  (`request.rs:1146`). An upload that is closed because the network failed records
  "canceled", which hides the failure (`request.rs:1892`).
* Bidirectional stream: a shutdown whose flush failed returns `Ok` when it is polled
  again (`bidirectional.rs:417` against 135); a flush after an abandoned one collects the
  old answer (386); a producer may park for ever on a stream that failed with writes in
  flight (1180); `write_loop` of a stream that fails before it is ready is never freed
  (1288); and with store buffering a cancellation during `open()` is lost (521, 586).
* WebSocket: `cancel` may load the pointer before and use it after `Drop`
  (`websocket.rs:189`); the engine may be freed after `finish` in the terminal callback,
  before the channel is reset (214, `cronet_rs_websocket.cc:417-431`) and before the drop of
  the socket, which then uses it; a Close posted before Connect does
  nothing, an `on_closed` does not answer a waiting `open()`, and an `open()` whose future
  is dropped leaves the socket without an owner (285); messages and errors that find the
  channel full are lost (371).
* Server-sent events: a reconnection of a source that was given an id sends two
  `last-event-id` headers, the old one first (`sse.rs:307-312`); a CR at the end of a
  chunk and its LF in the next count as two line ends (`sse.rs:101`); a byte order mark is
  removed at the beginning of any chunk (37); a reconnection keeps the half-read event of
  the old connection (299) and drops the request's limit on the body (306); a cancelled
  source that reconnects does so (247).
* Source builder: an edit of the manifest, a repository and a clone are taken for done
  once they are begun (`main.rs:1579`, 1537, 1624); `source_tree_buildable` accepts a
  tree narrowed by `--api-only`, or with the dependencies of another system (551); a kill
  during the removal of a view, or while a linked directory is opened up, leaves a view
  that the next build takes for its own (1708, `overlay_files.rs:211`); a library whose
  packaging was broken off is reported as built (734); a raw archive that Ninja has made
  after an edit of the wrappers makes the old bundled one look new, if the build is broken
  off before `llvm-ar` has replaced it (763, `native_extensions.rs:81-88`); and so does a
  newer file of the other linkage. A repository cut short after `git remote add` is checked
  out whole, fails once at `git sparse-checkout reapply`, and is then taken for good (1543,
  1583).

## Not modelled

* Engine configuration, value types and errors, DNS: validation and conversion without
  state of their own, covered by unit tests.
* Network quality, the bound-network table: one map or window behind one mutex, each
  operation one critical section, nothing read across two of them.
* Bindings, build script, fixtures, the coverage audit: generated code, build-time I/O and
  tests.
* Of the request: `status` (one read-only call under the gate) and the teardown of the
  runtime under live requests (`request.rs:1013`). Of the executor: its allocation.
* Of the source builder: the parsing of options, `doctor`, `print-env`, `audit-e2e` and
  the text edits of GN files; of the platforms: the tables of targets and arguments and
  the search for tool chains.

## Plan

Done: every component with concurrent or persistent state, the engine's contract, and a
theorem for every invariant. Left:

1. A specification of what a request promises its consumer, implemented by `UrlRequest`;
   `UrlRequest`, `BidiStream` and `WebSocket` as clients of `EngineContract`.
2. The runtime's teardown under a live request.
3. The safety half of the liveness properties as theorems: that a state in which nothing
   can go on is one in which what was promised has happened (no wait without someone who
   will end it), as `BlockedHasWrite` says it of a blocked flush.
